-------------------------------- MODULE Avatars --------------------------------
(* Pictures of people (common/avatar.py): a file per size, the id under      *)
(* which Telegram knows an uploaded big one, and the time of the last        *)
(* refresh in the row.  Refreshes of one person take turns by a lock, those  *)
(* of all people by a semaphore; a failed one is not tried again for a       *)
(* while, unless the person asks (f5avatar and the panel, which keep a       *)
(* cooldown).  A picture is the number of its version; times are ages,       *)
(* counted no further than they matter; a tick is no shorter than the        *)
(* cooldown.                                                                 *)
EXTENDS Integers, FiniteSets

CONSTANTS Person, Task,
          Concurrency,  \* avatar_refresh_concurrency
          Expire,       \* avatar_expire, in ticks
          Retry,        \* avatar_refresh_retry_after, in ticks
          MaxVersions,  \* pictures a person has, one after the other
          MaxTicks      \* bound on time

VARIABLES picture,   \* what Telegram shows of each person: 0 is none
          file,      \* the cached file of each person and size: 0 is none
          known,     \* avatar_big_id, as the version it is of: 0 is none
          age,       \* since update_avatar_at; Expire + 1 is too long, or never
          failed,    \* since _avatar_refresh_failed_at; Retry is long enough
          uptime,    \* of the event loop's clock, what is not there counts from its start
          cooling,   \* who refreshed his picture of late (memttlcache)
          task, locked, cleaning, ticks,
          renewed,   \* (history) the version the last asked-for refresh reported
          overtaken  \* (history) people of whom an upload was under way at such a refresh

vars == <<picture, file, known, age, failed, uptime, cooling, task, locked, cleaning, ticks, renewed, overtaken>>

Size == {"big", "small"}
Idle == [op |-> "none", of |-> CHOOSE p \in Person : TRUE, size |-> "big", at |-> "idle", got |-> 0, mark |-> FALSE]
Init == /\ picture \in [Person -> {0, 1}] /\ file = [p \in Person |-> [s \in Size |-> 0]]
        /\ known = [p \in Person |-> 0] /\ age = [p \in Person |-> Expire + 1]
        /\ uptime \in {0, Retry} /\ failed = [p \in Person |-> uptime] /\ cooling = {}
        /\ task = [t \in Task |-> Idle] /\ locked = [p \in Person |-> FALSE]
        /\ cleaning = FALSE /\ ticks = 0
        /\ renewed = [p \in Person |-> 0] /\ overtaken = {}

Of(t) == task[t].of
At(t, where) == task[t].at = where
Steps(t, fields) == task' = [task EXCEPT ![t] = fields]
Goes(t, where) == Steps(t, [task[t] EXCEPT !.at = where])
Inside == {t \in Task : At(t, "network")}
Stale(p) == age[p] > Expire
history == <<renewed, overtaken>>
cache == <<file, known, age, failed>>
world == <<picture, uptime, cleaning, ticks>>

-----------------------------------------------------------------------------
(* A call takes the person's lock and looks at the row and the file: those   *)
(* of quotes and of the graph (get), of a draw and of a change of waifu      *)
(* (photo, swap: not while the data is refreshed), and of the person.        *)
Start(t, op, p, s) == /\ At(t, "idle") /\ (op = "force" => p \notin cooling)
                      /\ op \in {"photo", "swap"} => ~cleaning
                      /\ Steps(t, [Idle EXCEPT !.op = op, !.of = p, !.size = s,
                                              !.at = IF op = "force" THEN "cool" ELSE "lock"])
                      /\ UNCHANGED <<cache, cooling, world, locked, history>>
Cool(t) == /\ At(t, "cool") /\ Goes(t, "lock") /\ cooling' = cooling \cup {Of(t)}
           /\ UNCHANGED <<cache, world, locked, history>>

\* Mutant: the lock is not taken.
Free_Always(p) == TRUE
Free(p) == ~locked[p]
\* Whether the row is marked even if nothing was fetched.
Marks(t) == task[t].op \in {"get", "f5", "photo", "swap"} /\ Stale(Of(t))
\* Who has nothing to do, and who has the id.
Done(t) == task[t].op = "save" /\ file[Of(t)][task[t].size] # 0
ById(t) == task[t].op \in {"photo", "swap"} /\ ~Stale(Of(t)) /\ known[Of(t)] # 0
Acquire(t) ==
  /\ At(t, "lock") /\ Free(Of(t)) /\ locked' = [locked EXCEPT ![Of(t)] = TRUE]
  /\ Steps(t, IF Done(t) THEN [task[t] EXCEPT !.at = "unlock"]
              ELSE IF ById(t) THEN [task[t] EXCEPT !.at = "unlock", !.got = known[Of(t)]]
              ELSE [task[t] EXCEPT !.at = "begin", !.mark = Marks(t)])
  /\ UNCHANGED <<cache, cooling, world, history>>

(* What _get_avatar_bytes returned: force_refresh goes on to the small size, *)
(* and marks the row if it got both; the others mark it if they were to, or  *)
(* fetched one unexpectedly.                                                 *)
Wants(t, got) == CASE task[t].op = "force" -> task[t].mark /\ got # 0
                   [] task[t].op \in {"get", "f5"} -> task[t].mark
                   [] OTHER -> task[t].mark \/ got # 0
After(t, got) == IF task[t].op = "force" /\ task[t].size = "big"
                 THEN [task[t] EXCEPT !.at = "begin", !.size = "small", !.mark = got # 0]
                 ELSE [task[t] EXCEPT !.at = IF Wants(t, got) THEN "mark" ELSE "unlock", !.got = got]

(* _get_avatar_bytes: nothing while the data is being refreshed, which is    *)
(* asked once, before it looks for the file; ...                             *)
Nothing(t) == Steps(t, After(t, 0))
Begin(t) == /\ At(t, "begin") /\ IF cleaning THEN Nothing(t) ELSE Goes(t, "look")
            /\ UNCHANGED <<cache, cooling, world, locked, history>>
(* ... the file, if there is one and none has to be fetched; nothing after a *)
(* failure of late; ...                                                      *)
Forced(t) == task[t].op \in {"force", "save"} \/ task[t].mark
Rested(p) == failed[p] >= Retry
Tries(t) == task[t].op = "force" \/ Rested(Of(t))
Look(t) == /\ At(t, "look")
           /\ LET had == file[Of(t)][task[t].size]
              IN IF had # 0 /\ ~Forced(t) THEN Steps(t, [task[t] EXCEPT !.at = "unlock", !.got = had])
                 ELSE IF Tries(t) THEN Goes(t, "semaphore") ELSE Nothing(t)
           /\ UNCHANGED <<cache, cooling, world, locked, history>>
(* ... and else what Telegram has.                                           *)
Room_OneMore == Cardinality(Inside) <= Concurrency     \* mutant: off by one
Room == Cardinality(Inside) < Concurrency
Enter(t) == /\ At(t, "semaphore") /\ Room /\ Goes(t, "network")
            /\ UNCHANGED <<cache, cooling, world, locked, history>>
Download(t) == /\ At(t, "network") /\ LET new == picture[Of(t)]
                  IN /\ Steps(t, After(t, new))
                     /\ IF new = 0 THEN UNCHANGED <<file, failed>>
                        ELSE /\ file' = [file EXCEPT ![Of(t)][task[t].size] = new]
                             /\ failed' = [failed EXCEPT ![Of(t)] = uptime]
               /\ UNCHANGED <<known, age, cooling, world, locked, history>>
Fail(t) == /\ At(t, "network") /\ failed' = [failed EXCEPT ![Of(t)] = 0]
           /\ Steps(t, [task[t] EXCEPT !.at = "unlock", !.got = 0, !.mark = FALSE])
           /\ UNCHANGED <<file, known, age, cooling, world, locked, history>>

-----------------------------------------------------------------------------
(* update_user_avatar: the id goes unless one is given, and the row may be   *)
(* marked as refreshed.  Mutant: the id is kept.                             *)
Forgets_Not(p) == known[p]
Forgets(p) == 0
Uploads(p) == {u \in Task : Of(u) = p /\ At(u, "upload")}
Mark(t) == /\ At(t, "mark") /\ Goes(t, "unlock")
           /\ age' = [age EXCEPT ![Of(t)] = 0] /\ known' = [known EXCEPT ![Of(t)] = Forgets(Of(t))]
           /\ IF task[t].op # "force" THEN UNCHANGED <<renewed, overtaken>>
              ELSE /\ renewed' = [renewed EXCEPT ![Of(t)] = file[Of(t)]["big"]]
                   /\ overtaken' = IF Uploads(Of(t)) = {} THEN overtaken ELSE overtaken \cup {Of(t)}
           /\ UNCHANGED <<file, failed, cooling, world, locked>>
Told(t) == task[t].op = "force" /\ task[t].mark /\ task[t].got # 0
(* A picture that was got is sent, and Telegram's id of it kept if it could  *)
(* be (useravatar.py after it asked for the file, and a draw, which then     *)
(* sees to the small one; a change of waifu keeps none); the panel drops it. *)
Ends(t) == IF task[t].op # "photo" THEN [Idle EXCEPT !.at = "done"]
           ELSE [Idle EXCEPT !.op = "save", !.of = Of(t), !.size = "small", !.at = "lock"]
Unlock(t) == /\ At(t, "unlock") /\ locked' = [locked EXCEPT ![Of(t)] = FALSE]
             /\ IF Told(t) THEN \/ Goes(t, "drop")
                                \/ Steps(t, [Idle EXCEPT !.op = "f5", !.of = Of(t), !.at = "lock"])
                ELSE Steps(t, IF task[t].op \in {"photo", "f5"} /\ task[t].got # 0
                              THEN [task[t] EXCEPT !.at = "upload"] ELSE Ends(t))
             /\ UNCHANGED <<cache, cooling, world, history>>
Upload(t) == /\ At(t, "upload") /\ Steps(t, Ends(t))
             /\ known' = [known EXCEPT ![Of(t)] = task[t].got]
             /\ UNCHANGED <<file, age, failed, cooling, world, locked, history>>
Unsent(t) == At(t, "upload") /\ Steps(t, Ends(t)) /\ UNCHANGED <<cache, cooling, world, locked, history>>
Drop(t) == /\ At(t, "drop") /\ Steps(t, [Idle EXCEPT !.at = "done"])
           /\ known' = [known EXCEPT ![Of(t)] = 0] /\ age' = [age EXCEPT ![Of(t)] = 0]
           /\ UNCHANGED <<file, failed, cooling, world, locked, history>>

Change(p) == /\ picture[p] < MaxVersions /\ picture' = [picture EXCEPT ![p] = @ + 1]
             /\ UNCHANGED <<cache, uptime, cooling, task, locked, cleaning, ticks, history>>
\* The daily job sets its flag and takes it away, also if it fails; the files stay.
Clean == /\ ticks < MaxTicks /\ cleaning' = ~cleaning /\ ticks' = ticks + 1
         /\ UNCHANGED <<picture, cache, uptime, cooling, task, locked, history>>
Capped(n, most) == IF n < most THEN n + 1 ELSE most
Tick == /\ ticks < MaxTicks /\ ticks' = ticks + 1
        /\ uptime' = Capped(uptime, Retry) /\ cooling' = {}
        /\ age' = [p \in Person |-> Capped(age[p], Expire + 1)]
        /\ failed' = [p \in Person |-> Capped(failed[p], Retry)]
        /\ UNCHANGED <<picture, file, known, task, locked, cleaning, history>>

Next == \/ \E t \in Task : \/ \E p \in Person, op \in {"get", "photo", "swap", "force"}, s \in Size :
                                /\ op # "get" => s = "big"
                                /\ Start(t, op, p, s)
                           \/ Cool(t) \/ Acquire(t) \/ Begin(t) \/ Look(t) \/ Enter(t)
                           \/ Download(t) \/ Fail(t) \/ Mark(t) \/ Unlock(t) \/ Upload(t) \/ Unsent(t) \/ Drop(t)
        \/ \E p \in Person : Change(p)
        \/ Clean \/ Tick
Spec == Init /\ [][Next]_vars

-----------------------------------------------------------------------------
(* No more refreshes run than may, and one at a time for a person.           *)
TypeOK == /\ Cardinality(Inside) <= Concurrency
          /\ \A t, u \in Inside : Of(t) = Of(u) => t = u

(* After a failure nobody but the person himself has Telegram asked until    *)
(* the wait is over (config:547): the check comes before the wait for the    *)
(* semaphore, and the lock keeps it true.                                    *)
BackedOff == \A t \in Inside : task[t].op # "force" => failed[Of(t)] >= Retry

(* Who asked for a refresh and was told it succeeded is not shown an older   *)
(* picture afterwards, if none was being sent at the time.                   *)
RefreshSticks == \A p \in Person \ overtaken : known[p] # 0 => known[p] >= renewed[p]
===============================================================================
