---------------------------- MODULE AgentMemory ----------------------------
(* What the agent remembers of one user and of one group.  Messages collect  *)
(* in a buffer of the cache until there are enough; the worker that brings   *)
(* the one too many has the model digest them, and writes the buffer back    *)
(* after that long await (plugins/agent/memory.py, user_memory.py).          *)
EXTENDS Integers, Sequences, FiniteSets

CONSTANTS Workers,      \* the dispatcher's workers
          Limit,        \* messages kept; one more has them digested (both are 100)
          MaxMessages,
          MaxExpiries,  \* cache entries that expire (hourly marks and throttles)
          Worlds,       \* records [kinds, redis, quota, fails]: see World
          None

(* The buffers: all of a user's messages, those to the bot, and a group's. *)
Mine == {"user", "agent"}
Kinds == Mine \cup {"group"}
World(kinds, redis, quota, fails) ==
    [kinds |-> kinds,    \* the buffers messages arrive in
     redis |-> redis,    \* a shared cache: values are copied, every access is an await
     quota |-> quota,    \* token accounts are on: can_start is an await
     fails |-> fails]    \* model calls may fail

VARIABLES world,
          sent,      \* messages so far; a message is its number
          cached,    \* the buffers in memttlcache
          stamped,   \* the hourly marks
          throttled, \* user_memory_update_throttle
          inflight,  \* the group is in _group_memory_inflight_chats
          hand,      \* what each worker is doing
          expiries,
          digested,  \* (history) per buffer, the messages of successful updates, in order
          updates,   \* (history) per buffer, successful updates since its mark expired
          met,       \* (history) two workers were at one buffer at the same time
          lost       \* (history) messages of handlers that ended with an exception

vars == <<world, sent, cached, stamped, throttled, inflight, hand, expiries,
          digested, updates, met, lost>>

Idle == [pc |-> "idle", kind |-> "user", list |-> <<>>, at |-> 0]
At(w) == hand[w].pc
Busy(k) == {w \in Workers : At(w) # "idle" /\ hand[w].kind = k}
Newest_All(s) == s    \* mutant: the buffer is not cut
Newest(s) == IF Len(s) > Limit THEN SubSeq(s, Len(s) - Limit + 1, Len(s)) ELSE s
Members(s) == {s[i] : i \in DOMAIN s}
(* Time to digest: one too many, for those to the bot already enough. *)
Ripe(k, s) == Len(s) > Limit \/ (k = "agent" /\ Len(s) = Limit)

Init == /\ world \in Worlds /\ sent = 0
        /\ cached = [k \in Kinds |-> <<>>] /\ stamped = [k \in Kinds |-> FALSE]
        /\ throttled = FALSE /\ inflight = FALSE
        /\ hand = [w \in Workers |-> Idle] /\ expiries = 0
        /\ digested = [k \in Kinds |-> <<>>] /\ updates = [k \in Kinds |-> 0]
        /\ met = [k \in Kinds |-> FALSE] /\ lost = {}

(* In the process's own memory the cache does not suspend its caller: what   *)
(* touches nothing else happens at once.                                     *)
Prompt == {"look", "stamp", "write"}
MayStep(w) == world.redis \/ \A o \in Workers \ {w} : At(o) \notin Prompt

Go(w, pc, list) == hand' = [hand EXCEPT ![w].pc = pc, ![w].list = list]
Done(w) == hand' = [hand EXCEPT ![w] = Idle]

-----------------------------------------------------------------------------
(* A message arrives.  In memory the cached list itself has grown with the   *)
(* append; from the other cache the handler has a copy.                      *)
Arrive(w, k) ==
    LET list == Append(cached[k], sent + 1)
    IN /\ At(w) = "idle" /\ k \in world.kinds /\ sent < MaxMessages /\ MayStep(w)
       /\ sent' = sent + 1
       /\ cached' = IF world.redis THEN cached ELSE [cached EXCEPT ![k] = list]
       /\ hand' = [hand EXCEPT ![w] = [pc |-> IF Ripe(k, list) THEN "look" ELSE "write",
                                       kind |-> k, list |-> Newest(list), at |-> 0]]
       /\ met' = [met EXCEPT ![k] = @ \/ Busy(k) # {}]
       /\ UNCHANGED <<world, stamped, throttled, inflight, expiries, digested, updates, lost>>

(* The hourly mark, and for a group the update of another worker.  Mutant:   *)
(* the set of running updates is not looked at.                              *)
Barred_Stamped(k) == stamped[k]
Barred(k) == stamped[k] \/ (k = "group" /\ inflight)

(* The buffer is too long: it is kept, a group's emptied, or digested.  The  *)
(* precheck of the quota is an await, and so is the lock of a user's memory. *)
Look(w) ==
    LET k == hand[w].kind
        go == ~Barred(k) /\ ~world.quota
    IN /\ At(w) = "look" /\ MayStep(w)
       /\ IF Barred(k) THEN Go(w, "write", IF k = "group" THEN <<>> ELSE hand[w].list)
          ELSE Go(w, IF world.quota THEN "ask" ELSE IF k = "group" THEN "run" ELSE "lock",
                  hand[w].list)
       /\ inflight' = (inflight \/ (go /\ k = "group"))
       /\ UNCHANGED <<world, sent, cached, stamped, throttled, expiries, digested, updates,
                      met, lost>>
Ask(w) == \E enough \in BOOLEAN :
    LET k == hand[w].kind
    IN /\ At(w) = "ask" /\ MayStep(w)
       /\ Go(w, IF ~enough THEN "write" ELSE IF k = "group" THEN "run" ELSE "lock",
             hand[w].list)
       /\ inflight' = (inflight \/ (enough /\ k = "group"))
       /\ UNCHANGED <<world, sent, cached, stamped, throttled, expiries, digested, updates,
                      met, lost>>

(* update_user_memory, under the lock of the user.  Mutant: no throttle. *)
Spam_Never == FALSE
Spam == throttled
Enter(w) ==
    /\ At(w) = "lock" /\ MayStep(w) /\ \A o \in Workers : At(o) = "run" => hand[o].kind = "group"
    /\ Go(w, IF Spam THEN "write" ELSE "run", hand[w].list)
    /\ throttled' = TRUE
    /\ UNCHANGED <<world, sent, cached, stamped, inflight, expiries, digested, updates, met, lost>>

(* The run of a user's update ends: stored, timed out, or with an exception, *)
(* which leaves the handler before it writes anything.  Mutant: what could   *)
(* not be stored is not kept.                                                *)
Kept_Not(list) == <<>>
Kept(list) == list
UserRuns(w) == \E end \in {"stored", "timeout", "error"} :
    LET k == hand[w].kind
    IN /\ At(w) = "run" /\ k \in Mine /\ MayStep(w) /\ (end # "stored" => world.fails)
       /\ CASE end = "stored" -> Go(w, "stamp", hand[w].list)
            [] end = "timeout" -> Go(w, "write", Kept(hand[w].list))
            [] OTHER -> Done(w)
       /\ digested' = IF end = "stored" THEN [digested EXCEPT ![k] = @ \o hand[w].list]
                      ELSE digested
       /\ updates' = IF end = "stored" THEN [updates EXCEPT ![k] = @ + 1] ELSE updates
       /\ lost' = IF end = "error" THEN lost \cup Members(hand[w].list) ELSE lost
       /\ UNCHANGED <<world, sent, cached, stamped, throttled, inflight, expiries, met>>

(* A group's batch goes to powermem in chunks, here of one message each; if  *)
(* one fails the whole batch is kept, and the group is free for a retry.     *)
GroupRuns(w) ==
    /\ At(w) = "run" /\ hand[w].kind = "group" /\ MayStep(w)
    /\ \/ /\ hand[w].at < Len(hand[w].list)
          /\ digested' = [digested EXCEPT !["group"] = Append(@, hand[w].list[hand[w].at + 1])]
          /\ hand' = [hand EXCEPT ![w].at = @ + 1]
          /\ UNCHANGED <<inflight, updates>>
       \/ /\ hand[w].at < Len(hand[w].list) /\ world.fails
          /\ Go(w, "write", Kept(hand[w].list)) /\ inflight' = FALSE
          /\ UNCHANGED <<digested, updates>>
       \/ /\ hand[w].at = Len(hand[w].list)
          /\ Go(w, "stamp", hand[w].list)
          /\ updates' = [updates EXCEPT !["group"] = @ + 1]
          /\ UNCHANGED <<digested, inflight>>
    /\ UNCHANGED <<world, sent, cached, stamped, throttled, expiries, met, lost>>

(* The update is stored: the mark is set, and the buffer will be emptied, of *)
(* what has come in meanwhile as well.  Mutant: it is left as it was.        *)
Spent_Not(list) == list
Spent(list) == <<>>
Stamp(w) ==
    /\ At(w) = "stamp" /\ MayStep(w)
    /\ stamped' = [stamped EXCEPT ![hand[w].kind] = TRUE]
    /\ Go(w, "write", Spent(hand[w].list))
    /\ inflight' = (inflight /\ hand[w].kind # "group")
    /\ UNCHANGED <<world, sent, cached, throttled, expiries, digested, updates, met, lost>>

Write(w) ==
    /\ At(w) = "write" /\ MayStep(w)
    /\ cached' = [cached EXCEPT ![hand[w].kind] = hand[w].list]
    /\ Done(w)
    /\ UNCHANGED <<world, sent, stamped, throttled, inflight, expiries, digested, updates,
                   met, lost>>

(* Entries expire.  A throttle lasts five minutes, longer than a model call  *)
(* may take (agent_model_timeout, 120 s) with the awaits around it; a mark   *)
(* lasts an hour, longer than any handler, and a throttle set before it has  *)
(* expired by then.                                                          *)
NoneThrottles == \A w \in Workers : hand[w].kind \in Mine => At(w) \in {"idle", "look", "write"}
HourPasses(k) ==
    /\ stamped[k] /\ Busy(k) = {} /\ expiries < MaxExpiries /\ expiries' = expiries + 1
    /\ stamped' = [stamped EXCEPT ![k] = FALSE] /\ updates' = [updates EXCEPT ![k] = 0]
    /\ throttled' \in IF NoneThrottles THEN {FALSE, throttled} ELSE {throttled}
    /\ UNCHANGED <<world, sent, cached, inflight, hand, digested, met, lost>>
ThrottleEnds ==
    /\ throttled /\ NoneThrottles /\ throttled' = FALSE
    /\ expiries < MaxExpiries /\ expiries' = expiries + 1
    /\ UNCHANGED <<world, sent, cached, stamped, inflight, hand, digested, updates, met, lost>>

Step(w) == \/ \E k \in Kinds : Arrive(w, k)
           \/ Look(w) \/ Ask(w) \/ Enter(w) \/ UserRuns(w) \/ GroupRuns(w) \/ Stamp(w) \/ Write(w)
Next == \/ \E w \in Workers : Step(w)
        \/ \E k \in Kinds : HourPasses(k)
        \/ ThrottleEnds
Spec == Init /\ [][Next]_vars

-----------------------------------------------------------------------------
Alone(k) == ~met[k]
Updating == {w \in Workers : At(w) = "run" /\ hand[w].kind = "group"}

(* Variables keep to their types, and no worker goes on with more messages   *)
(* than the limit.                                                           *)
TypeOK ==
    /\ sent \in 0..MaxMessages /\ stamped \in [Kinds -> BOOLEAN] /\ throttled \in BOOLEAN
    /\ \A w \in Workers : /\ At(w) \in Prompt \cup {"idle", "ask", "lock", "run"}
                          /\ hand[w].kind \in Kinds /\ Len(hand[w].list) <= Limit
    /\ \A k \in Kinds : Members(cached[k]) \cup Members(digested[k]) \subseteq 1..sent
    /\ lost \subseteq 1..sent

(* At most one successful update of a user's memory an hour and buffer       *)
(* (memory.py:178), although two workers may both find no mark: the throttle *)
(* under the lock holds the second back.                                     *)
OnceAnHour == \A k \in Mine : updates[k] <= 1

(* While no two handlers of a buffer overlap, no message goes into a user's  *)
(* memory twice.                                                             *)
DigestedOnceAlone == \A k \in Mine :
    Alone(k) => \A i, j \in DOMAIN digested[k] : digested[k][i] = digested[k][j] => i = j

(* While no two handlers overlap, a message of a user that no update has     *)
(* taken in is kept for a later one (user_memory.py:57), unless the limit    *)
(* pushed it out or its handler failed.                                      *)
KeptForRetry == \A k \in Mine : Alone(k) /\ Busy(k) = {} /\ world.kinds = {k} =>
    \A m \in 1..sent : \/ m <= sent - Limit \/ m \in lost
                       \/ m \in Members(cached[k]) \cup Members(digested[k])

(* Without token accounts and with the cache in the process, a group has one *)
(* update at a time.                                                         *)
OneUpdateUnmetered == ~world.redis /\ ~world.quota => Cardinality(Updating) <= 1

(* The set of running updates stops a second worker from starting the same   *)
(* update (memory.py:35).  It is looked at before the quota is asked, and    *)
(* entered after.                                                            *)
OneGroupUpdate == Cardinality(Updating) <= 1
=============================================================================
