----------------------------- MODULE VerifySession -----------------------------
(***************************************************************************)
(* Verification of new members: plugins/verify/verify.py and session.py,   *)
(* database/verify.py, and the departures chat_member.py reports.          *)
(*                                                                         *)
(* The lock, the registry entry, the database row (unique by chat and      *)
(* user) and Telegram's rights are all per (chat, user), so the module     *)
(* follows one member of one chat.  What lies between two awaits is one    *)
(* action.  Sessions are numbered in order of creation; the id of the row  *)
(* may be used again once the row is deleted (ReuseIds: SQLite) or not.    *)
(* Handlers keep a reference to the registry's session object, which they  *)
(* share; the periodic sweep works on its own copies of the rows.          *)
(***************************************************************************)
EXTENDS Integers, TLC

CONSTANTS
  Task,         \* handlers of updates, each used once
  Sweep,        \* the worker of the periodic job
  Inputs,       \* bound: what may happen, a subset of AllInputs
  Strategy,     \* verify_strategy
  FailAction,   \* verify_fail_action
  Mutes,        \* whether verify_method restricts the member (all but "sticker")
  MaxAttempts,  \* verify_max_attempts
  ReuseIds,     \* whether a new row may get the id of a deleted one
  Prompt,       \* whether a creation is always over before its session expires
  MaxSessions, MaxGone, MaxCrashes, MaxFaults,    \* bounds
  None

Answers == {"right", "wrong", "toggle"}
AdminActs == {"approve", "adminban"}
AllInputs == Answers \cup AdminActs \cup {"join", "message", "test", "leave", "panel"}
Session == 1..MaxSessions
Worker == Task \cup {Sweep}

ASSUME InputsOK == Inputs \subseteq AllInputs
ASSUME NamesOK == /\ Sweep \notin Task /\ None \notin Worker /\ None \notin Session
                  /\ None \notin [s : Session, left : Int]
ASSUME BoundsOK ==
  /\ Strategy \in {"all", "first_message"} /\ FailAction \in {"kick", "ban", "unrestrict"}
  /\ {Mutes, ReuseIds, Prompt} \subseteq BOOLEAN
  /\ {MaxAttempts, MaxSessions, MaxGone} \subseteq Nat \ {0}
  /\ {MaxCrashes, MaxFaults} \subseteq Nat

VARIABLES
  config,      \* the chat's configuration: verification "on", "off", or chat "gone"
  member,      \* Telegram: the user is "in", "out" or "banned"
  muted,       \* Telegram: the bot's restriction is in place (it survives leaving)
  verified,    \* the row of verification_members
  row,         \* the row of verification_sessions, None or [s, left]
  sessions,    \* _sessions, the registered session objects
  byUser,      \* _by_user
  left,        \* attempts_left of each session object
  cap,         \* payload[restore_permissions]: the member was restricted already
  posted,      \* sessions whose challenge is in the chat
  expired,     \* sessions past expires_at
  made,        \* sessions created so far
  lock,        \* verification_lock: its holder
  work,        \* each handler, and the sweep: kind, pc, session, what it captured
  gone,        \* departures Telegram reports and no handler has taken up
  popping,     \* handlers of departures that deleted the row, not yet the entry
  loaded,      \* load_active_sessions has run
  crashes, faults

telegram == <<config, member, muted, posted>>
stored == <<verified, row>>
registry == <<sessions, byUser, left>>
fates == <<cap, expired, made>>
departures == <<gone, popping>>
world == <<loaded, crashes, faults>>
vars == <<telegram, stored, registry, fates, departures, world, lock, work>>

Over == {"idle", "held", "passed", "refused", "done"}

Init ==
  /\ config = "on" /\ member \in {"in", "out"} /\ muted = FALSE /\ verified = FALSE
  /\ row = None /\ sessions = {} /\ byUser = None
  /\ left = [s \in Session |-> MaxAttempts] /\ cap = [s \in Session |-> FALSE]
  /\ posted = {} /\ expired = {} /\ made = 0 /\ lock = None
  /\ work = [w \in Worker |->
       [kind |-> None, pc |-> "idle", s |-> None, cap |-> FALSE, then |-> "done"]]
  /\ gone = 0 /\ popping = 0 /\ loaded = TRUE /\ crashes = 0 /\ faults = 0

----------------------------------------------------------------------------
\* Helpers.

At(w, p) == work[w].pc = p
S(w) == work[w].s
Goto(w, p) == work' = [work EXCEPT ![w].pc = p]
Unlock(w) == lock' = IF lock = w THEN None ELSE lock
Fault == faults < MaxFaults /\ faults' = faults + 1

SameId(a, b) == ReuseIds \/ a = b

Register(s) ==
  /\ sessions' = {x \in sessions : ~SameId(x, s)} \cup {s}
  /\ byUser' = s

\* Mutants: the registry keeps the user's entry, or everything.
Unregister_NotByUser(s) ==
  sessions' = {x \in sessions : ~SameId(x, s)} /\ UNCHANGED byUser
Unregister_Not(s) == UNCHANGED <<sessions, byUser>>

Unregister(s) ==
  /\ sessions' = {x \in sessions : ~SameId(x, s)}
  /\ byUser' = IF byUser # None /\ SameId(byUser, s) THEN None ELSE byUser

\* update_verification_session merges by id: it updates the row, or inserts it
\* again; next to the row of another session the insert breaks uniqueness.
CanMerge(s) == row # None => SameId(row.s, s)
Merge(s) == row' = [s |-> s, left |-> left[s]]

\* restrict_chat_member sets the member's rights; a ban is one of them.
SetRights(m) ==
  /\ muted' = m
  /\ member' = IF member = "banned" THEN "out" ELSE member

Departed == gone' = IF gone < MaxGone THEN gone + 1 ELSE gone

Ban ==
  /\ member' = "banned" /\ muted' = FALSE
  /\ Departed

\* The update of task t arrives.
Enter(t, k, p) ==
  /\ At(t, "idle") /\ k \in Inputs
  /\ work' = [work EXCEPT ![t].kind = k, ![t].pc = p]

----------------------------------------------------------------------------
\* maybe_verify: a member joins or writes.

Join(t) ==
  /\ member = "out"
  /\ member' = "in"
  /\ Enter(t, "join", "enter")
  /\ UNCHANGED <<config, muted, posted, stored, registry, fates, departures, world, lock>>

Message(t) ==
  /\ member = "in" /\ ~muted
  /\ Enter(t, "message", "enter")
  /\ UNCHANGED <<telegram, stored, registry, fates, departures, world, lock>>

ReadConfig(t) ==
  /\ At(t, "enter")
  /\ Goto(t, IF config = "on" THEN "lock" ELSE "passed")
  /\ UNCHANGED <<telegram, stored, registry, fates, departures, world, lock>>

\* Mutant: sessions are looked up and created without the lock.
TakeLock_Not(t) ==
  /\ At(t, "lock")
  /\ Goto(t, IF byUser # None THEN "held" ELSE "member")
  /\ UNCHANGED <<telegram, stored, registry, fates, departures, world, lock>>

TakeLock(t) ==
  /\ At(t, "lock") /\ lock = None
  /\ IF byUser # None
       THEN Goto(t, "held") /\ UNCHANGED lock
       ELSE Goto(t, "member") /\ lock' = t
  /\ UNCHANGED <<telegram, stored, registry, fates, departures, world>>

StrategyMatches(t) ==
  IF Strategy = "all" THEN work[t].kind = "join" ELSE work[t].kind = "message" /\ ~verified

ReadMember(t) ==
  /\ At(t, "member")
  /\ IF StrategyMatches(t)
       THEN Goto(t, "capture") /\ UNCHANGED lock
       ELSE Goto(t, "passed") /\ Unlock(t)
  /\ UNCHANGED <<telegram, stored, registry, fates, departures, world>>

----------------------------------------------------------------------------
\* _start_verification, from maybe_verify or from /testverify.

\* /testverify, without the lock: an existing session is cleaned up first.
TestVerify(t) ==
  /\ config = "on"
  /\ At(t, "idle") /\ "test" \in Inputs
  /\ work' = [work EXCEPT ![t].kind = "test", ![t].s = byUser,
                ![t].pc = IF byUser = None THEN "capture" ELSE "drop",
                ![t].then = "capture"]
  /\ UNCHANGED <<telegram, stored, registry, fates, departures, world, lock>>

\* The rights to be given back are those found, the bot's own mute included.
Capture(t) ==
  /\ At(t, "capture")
  /\ work' = [work EXCEPT ![t].pc = "create", ![t].cap = Mutes /\ muted, ![t].then = "done"]
  /\ UNCHANGED <<telegram, stored, registry, fates, departures, world, lock>>

CreateRefused(t) ==      \* a row is there already: the unique constraint
  /\ At(t, "create") /\ row # None
  /\ Goto(t, "refused")
  /\ Unlock(t)
  /\ UNCHANGED <<telegram, stored, registry, fates, departures, world>>

Create(t) ==
  LET s == made + 1
  IN /\ At(t, "create") /\ row = None /\ made < MaxSessions
     /\ made' = s
     /\ row' = [s |-> s, left |-> MaxAttempts]
     /\ cap' = [cap EXCEPT ![s] = work[t].cap]
     /\ work' = [work EXCEPT ![t].s = s, ![t].pc = IF Mutes THEN "restrict" ELSE "send"]
     /\ IF Mutes THEN UNCHANGED <<sessions, byUser>> ELSE Register(s)
     /\ UNCHANGED <<telegram, verified, left, expired, departures, world, lock>>

Restrict(t) ==
  /\ At(t, "restrict")
  /\ SetRights(TRUE)
  /\ Register(S(t))
  /\ Goto(t, "send")
  /\ UNCHANGED <<config, posted, stored, left, fates, departures, world, lock>>

RestrictFails(t) ==
  /\ At(t, "restrict") /\ Fault
  /\ Goto(t, "drop")
  /\ UNCHANGED <<telegram, stored, registry, fates, departures, loaded, crashes, lock>>

Send(t) ==
  /\ At(t, "send")
  /\ posted' = posted \cup {S(t)}
  /\ Goto(t, "finish")
  /\ UNCHANGED <<config, member, muted, stored, registry, fates, departures, world, lock>>

\* challenge_message_id is written last; by then the challenge can be answered.
Finish(t) ==
  /\ At(t, "finish") /\ CanMerge(S(t))
  /\ Merge(S(t))
  /\ Goto(t, "held")
  /\ Unlock(t)
  /\ UNCHANGED <<telegram, verified, registry, fates, departures, world>>

FinishFails(t) ==
  /\ \/ At(t, "send") /\ Fault
     \/ At(t, "finish") /\ IF CanMerge(S(t)) THEN Fault ELSE UNCHANGED faults
  /\ Goto(t, "undo")
  /\ UNCHANGED <<telegram, stored, registry, fates, departures, loaded, crashes, lock>>

----------------------------------------------------------------------------
\* The answer and admin buttons, and the sticker answer.

Press(t, s, k) ==
  \E x \in sessions :
    /\ k \in Inputs \cap (Answers \cup AdminActs) /\ At(t, "idle")
    /\ s \in posted /\ SameId(x, s)
    /\ k \in Answers => member = "in"
    /\ work' = [work EXCEPT ![t].kind = k, ![t].s = x, ![t].pc = "pressed"]
    /\ UNCHANGED <<telegram, stored, registry, fates, departures, world, lock>>

\* Once the configuration is read there is no await up to the verdict, the
\* decrement of the shared object included.
Judge(t) ==
  LET k == work[t].kind
      wrong == k = "wrong" /\ config # "gone" /\ S(t) \notin expired
      spent == left[S(t)] - 1 <= 0
  IN /\ At(t, "pressed")
     /\ left' = IF wrong THEN [left EXCEPT ![S(t)] = @ - 1] ELSE left
     /\ Goto(t, IF config = "gone" THEN "drop"
                ELSE IF S(t) \in expired \/ (wrong /\ spent) THEN "fail"
                ELSE IF k \in {"right", "approve"} THEN "restore"
                ELSE IF k = "adminban" THEN "ban" ELSE "merge")
     /\ UNCHANGED <<telegram, stored, sessions, byUser, fates, departures, world, lock>>

\* A new question, or a box ticked: the object is stored as it is then.
StoreAnswer(t) ==
  /\ At(t, "merge")
  /\ IF CanMerge(S(t)) THEN Merge(S(t)) ELSE UNCHANGED row
  /\ Goto(t, "done")
  /\ UNCHANGED <<telegram, verified, registry, fates, departures, world, lock>>

----------------------------------------------------------------------------
\* _fail_session, _succeed_session, _cancel_session, _admin_ban_session and
\* _cleanup_session, run by handlers and by the sweep.

\* Mutant: a kick only bans.
After_NoUnban(w) ==
  CASE At(w, "restore") -> "mark"
    [] At(w, "drop") -> "forget"
    [] OTHER -> "drop"

\* What follows an effect, whether it succeeded or its error was logged.
After(w) ==
  CASE At(w, "fail") /\ FailAction = "kick" /\ config # "gone" -> "unban"
    [] At(w, "restore") -> "mark"
    [] At(w, "drop") -> "forget"
    [] OTHER -> "drop"

Punish(w) ==
  /\ \/ At(w, "fail") /\ config # "gone" /\ FailAction # "unrestrict"
     \/ At(w, "ban")
  /\ Ban
  /\ Goto(w, After(w))
  /\ UNCHANGED <<config, posted, stored, registry, fates, popping, world, lock>>

Unban(w) ==
  /\ At(w, "unban")
  /\ SetRights(FALSE)
  /\ Departed
  /\ Goto(w, After(w))
  /\ UNCHANGED <<config, posted, stored, registry, fates, popping, world, lock>>

\* restore_member_permissions: on success, on cancellation, on the gentle
\* failure and when a creation is undone.
Restore(w) ==
  /\ \/ work[w].pc \in {"restore", "cancel", "undo"}
     \/ At(w, "fail") /\ config # "gone" /\ FailAction = "unrestrict"
  /\ IF Mutes THEN SetRights(cap[S(w)]) ELSE UNCHANGED <<muted, member>>
  /\ Goto(w, After(w))
  /\ UNCHANGED <<config, posted, stored, registry, fates, departures, world, lock>>

FailGone(w) ==
  /\ At(w, "fail") /\ config = "gone"
  /\ Goto(w, "drop")
  /\ UNCHANGED <<telegram, stored, registry, fates, departures, world, lock>>

MarkVerified(w) ==
  /\ At(w, "mark")
  /\ verified' = TRUE
  /\ Goto(w, After(w))
  /\ UNCHANGED <<telegram, row, registry, fates, departures, world, lock>>

Drop(w) ==
  /\ At(w, "drop")
  /\ row' = IF row # None /\ SameId(row.s, S(w)) THEN None ELSE row
  /\ Goto(w, After(w))
  /\ UNCHANGED <<telegram, verified, registry, fates, departures, world, lock>>

Forget(w) ==
  /\ At(w, "forget")
  /\ Unregister(S(w))
  /\ Goto(w, work[w].then)
  /\ Unlock(w)
  /\ UNCHANGED <<telegram, stored, left, fates, departures, world>>

\* Telegram or the database refuses; the error is logged and the handler goes on.
EffectFails(w) ==
  /\ work[w].pc \in {"fail", "ban", "unban", "restore", "cancel", "undo", "mark", "drop"}
  /\ Fault
  /\ Goto(w, After(w))
  /\ UNCHANGED <<telegram, stored, registry, fates, departures, loaded, crashes, lock>>

----------------------------------------------------------------------------
\* verify_sweep.  Between reading the rows and reaching this one, other rows
\* are handled.

\* Mutant: the sweep looks at the registry, not at the database.
SweepStart_Registry ==
  /\ At(Sweep, "idle") /\ loaded /\ byUser # None
  /\ work' = [work EXCEPT ![Sweep].pc = "look", ![Sweep].s = byUser, ![Sweep].then = "idle"]
  /\ UNCHANGED <<telegram, stored, registry, fates, departures, world, lock>>

SweepStart ==
  /\ At(Sweep, "idle") /\ loaded /\ row # None
  /\ work' = [work EXCEPT ![Sweep].pc = "look", ![Sweep].s = row.s, ![Sweep].then = "idle"]
  /\ UNCHANGED <<telegram, stored, registry, fates, departures, world, lock>>

\* Mutant: an expired session is only cleaned up.
SweepLook_Drops ==
  /\ At(Sweep, "look")
  /\ Goto(Sweep, IF config # "on" \/ S(Sweep) \in expired THEN "drop" ELSE "idle")
  /\ UNCHANGED <<telegram, stored, registry, fates, departures, world, lock>>

SweepLook ==
  /\ At(Sweep, "look")
  /\ Goto(Sweep, CASE config = "gone" -> "drop"
                   [] config = "off" -> "cancel"
                   [] config = "on" /\ S(Sweep) \in expired -> "fail"
                   [] OTHER -> "idle")
  /\ UNCHANGED <<telegram, stored, registry, fates, departures, world, lock>>

----------------------------------------------------------------------------
\* handle_user_left, some time after the member left or was banned or unbanned.

Leave ==
  /\ "leave" \in Inputs /\ member = "in"
  /\ member' = "out"
  /\ Departed
  /\ UNCHANGED <<config, muted, posted, stored, registry, fates, popping, world, lock, work>>

LeftDelete ==
  /\ gone > 0 /\ popping < MaxGone
  /\ gone' = gone - 1 /\ popping' = popping + 1
  /\ \/ row' = None /\ UNCHANGED faults
     \/ Fault /\ UNCHANGED row
  /\ UNCHANGED <<telegram, verified, registry, fates, loaded, crashes, lock, work>>

\* Mutant: the registry is not told that the member left.
LeftPop_Not ==
  /\ popping > 0
  /\ popping' = popping - 1
  /\ UNCHANGED <<telegram, stored, registry, fates, gone, world, lock, work>>

LeftPop ==
  /\ popping > 0
  /\ popping' = popping - 1
  /\ IF byUser # None THEN Unregister(byUser) ELSE UNCHANGED <<sessions, byUser>>
  /\ UNCHANGED <<telegram, stored, left, fates, gone, world, lock, work>>

----------------------------------------------------------------------------
\* Time, the panel, and the process.

Expire(s) ==
  /\ s <= made
  /\ Prompt => \A t \in Task : S(t) = s => work[t].pc \notin {"restrict", "send", "finish"}
  /\ expired' = expired \cup {s}
  /\ UNCHANGED <<telegram, stored, registry, cap, made, departures, world, lock, work>>

SetConfig(c) ==
  /\ "panel" \in Inputs /\ config # "gone"
  /\ config' = c
  /\ UNCHANGED <<member, muted, posted, stored, registry, fates, departures, world, lock, work>>

\* Handlers, lock and registry are lost, perhaps also unhandled updates.
Restart ==
  /\ crashes < MaxCrashes
  /\ crashes' = crashes + 1
  /\ work' = [w \in Worker |->
       IF w = Sweep THEN [work[w] EXCEPT !.pc = "idle"]
       ELSE IF work[w].pc \in Over THEN work[w] ELSE [work[w] EXCEPT !.pc = "done"]]
  /\ sessions' = {} /\ byUser' = None /\ lock' = None
  /\ gone' \in {0, gone} /\ popping' = 0
  /\ loaded' = FALSE
  /\ UNCHANGED <<telegram, stored, left, fates, faults>>

\* Mutant: a restored session gets all its attempts again.
Load_Fresh ==
  /\ ~loaded
  /\ loaded' = TRUE
  /\ IF row = None THEN UNCHANGED registry
     ELSE Register(row.s) /\ left' = [left EXCEPT ![row.s] = MaxAttempts]
  /\ UNCHANGED <<telegram, stored, fates, departures, crashes, faults, lock, work>>

Load ==
  /\ ~loaded
  /\ loaded' = TRUE
  /\ IF row = None THEN UNCHANGED registry
     ELSE Register(row.s) /\ left' = [left EXCEPT ![row.s] = row.left]
  /\ UNCHANGED <<telegram, stored, fates, departures, crashes, faults, lock, work>>

----------------------------------------------------------------------------
Complete(w) ==
  \/ Punish(w)
  \/ Unban(w)
  \/ Restore(w)
  \/ FailGone(w)
  \/ MarkVerified(w)
  \/ Drop(w)
  \/ Forget(w)

Handle(t) ==
  \/ ReadConfig(t)
  \/ TakeLock(t)
  \/ ReadMember(t)
  \/ Capture(t)
  \/ CreateRefused(t)
  \/ Create(t)
  \/ Restrict(t)
  \/ Send(t)
  \/ Finish(t)
  \/ FinishFails(t)
  \/ Judge(t)
  \/ StoreAnswer(t)

Next ==
  \/ \E t \in Task :
       \/ Join(t)
       \/ Message(t)
       \/ TestVerify(t)
       \/ \E s \in Session, k \in Answers \cup AdminActs : Press(t, s, k)
       \/ Handle(t)
       \/ RestrictFails(t)
  \/ \E w \in Worker : Complete(w) \/ EffectFails(w)
  \/ SweepStart
  \/ SweepLook
  \/ Leave
  \/ LeftDelete
  \/ LeftPop
  \/ \E s \in Session : Expire(s)
  \/ \E c \in {"on", "off", "gone"} : SetConfig(c)
  \/ Restart
  \/ Load

Spec == Init /\ [][Next]_vars

\* Handlers are scheduled, awaited calls return, the job runs every 30 seconds,
\* every session reaches its expires_at, and departures are reported.
FairSpec ==
  /\ Spec
  /\ \A t \in Task : WF_vars(Handle(t))
  /\ \A w \in Worker : WF_vars(Complete(w))
  /\ WF_vars(SweepStart) /\ WF_vars(SweepLook)
  /\ WF_vars(LeftDelete) /\ WF_vars(LeftPop) /\ WF_vars(Load)
  /\ \A s \in Session : WF_vars(Expire(s))

\* Handlers of the one member are interchangeable.
Handlers == Permutations(Task)

----------------------------------------------------------------------------
\* Properties.

\* Where a handler has a session, and where it can be.
Holding == {"restrict", "send", "finish", "undo", "pressed", "merge", "fail", "ban", "unban",
            "restore", "cancel", "mark", "drop", "forget", "look"}
Pc == Over \cup Holding \cup {"enter", "lock", "member", "capture", "create"}

WorkState == [kind : AllInputs \cup {None}, s : Session \cup {None}, cap : BOOLEAN,
              pc : Pc, then : {"done", "capture", "idle"}]

\* Every part keeps its shape, and _by_user never names a session that
\* _sessions does not hold.
TypeOK ==
  /\ config \in {"on", "off", "gone"} /\ member \in {"in", "out", "banned"}
  /\ muted \in BOOLEAN /\ verified \in BOOLEAN
  /\ row \in [s : Session, left : Int] \cup {None}
  /\ sessions \subseteq Session /\ byUser \in sessions \cup {None}
  /\ left \in [Session -> Int] /\ cap \in [Session -> BOOLEAN]
  /\ posted \subseteq Session /\ expired \subseteq Session /\ made \in 0..MaxSessions
  /\ lock \in Task \cup {None}
  /\ work \in [Worker -> WorkState]
  /\ gone \in 0..MaxGone /\ popping \in 0..MaxGone
  /\ loaded \in BOOLEAN /\ crashes \in 0..MaxCrashes /\ faults \in 0..MaxFaults

Quiet ==
  /\ \A w \in Worker : work[w].pc \in Over
  /\ gone = 0 /\ popping = 0 /\ loaded

\* session.py:44, the database is authoritative: once all handlers are done, a
\* registered session has its row, so that the sweep and a restart find it.
RegisteredIsStored ==
  Quiet /\ byUser # None => row # None /\ SameId(row.s, byUser)

\* session.py:53, creation: two handlers never create a session of one member
\* at the same time.
Creating == {"capture", "create", "restrict", "send", "finish", "undo"}
OneCreationAtATime ==
  \A s, t \in Task : work[s].pc \in Creating /\ work[t].pc \in Creating => s = t

\* The registry and the database agree on what session a member has, and no two
\* handlers create one at the same time (session.py:44 and 53).
StoredOnce == TypeOK /\ RegisteredIsStored /\ OneCreationAtATime

\* Handlers that judge answers at the same time share one object, so neither of
\* them stores a count that forgets the attempt the other one used up.
AttemptsNotGivenBack ==
  [][row # None /\ row' # None => (row'.s = row.s => row'.left <= row.left)]_vars

\* session.py:234: the sweep is the catch-all.  Whatever handlers, errors or
\* restarts leave behind, no session stays in the database for ever.
Stored(s) == row # None /\ row.s = s
SessionEnds == \A s \in Session : Stored(s) ~> ~Stored(s)

\* What the bot does to a member is not meant to last.
Banned == member = "banned"
Silenced == muted /\ member = "in"

\* session.py:97: what an ordinary member is given back on success is the right
\* to speak.
PassedCanSpeak ==
  [][\A w \in Worker : At(w, "restore") /\ work'[w].pc = "mark" => ~muted']_vars
=============================================================================
