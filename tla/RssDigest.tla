------------------------------ MODULE RssDigest ------------------------------
(* What the agent adds to a push of a feed (bot/jobs.py, rss_push from the   *)
(* chats' switches on; agent/rss_digest.py): a digest for each language, a   *)
(* message to the group about the batch, and who pays for them.              *)
EXTENDS Integers, FiniteSets

CONSTANTS Chat, Lang,
          Switches,   \* what chats are set to: functions from Chat to records
                      \* [lang, summary, broadcast]
          Cost,       \* tokens of one generation
          Purse,      \* what a chat may have left to begin with
          MaxPolls, MaxSpends

VARIABLES conf,     \* the chats' settings
          purse,    \* allowance left; negative when in debt
          at,       \* what the poll is about to do
          todo,     \* languages or chats it has not come to
          digest,   \* language -> "none", "failed" or "text"
          cast,     \* the same for the message
          served,   \* language -> chats the digest was generated for
          targets,  \* chats that are to get the message
          lock,     \* chats that got one not long ago
          polls, spends,
          runs, charged,   \* (history) generations somebody was to pay for; tokens charged
          unpaid,   \* (history) generations nobody was to pay for
          got,      \* (history) chats that got a digest in this poll
          heard     \* (history) messages to a chat since its lock was set

vars == <<conf, purse, at, todo, digest, cast, served, targets, lock, polls, spends,
          runs, charged, unpaid, got, heard>>

None == [l \in Lang |-> "none"]
Init == /\ conf \in Switches /\ purse \in [Chat -> Purse]
        /\ at = "idle" /\ todo = {} /\ digest = None /\ cast = None
        /\ served = [l \in Lang |-> {}] /\ targets = {} /\ lock = {} /\ polls = 0 /\ spends = 0
        /\ runs = 0 /\ charged = 0 /\ unpaid = 0 /\ got = {} /\ heard = [c \in Chat |-> 0]

Sum[S \in SUBSET Chat, f \in [Chat -> Int]] ==
    IF S = {} THEN 0 ELSE LET c == CHOOSE c \in S : TRUE IN f[c] + Sum[S \ {c}, f]

-----------------------------------------------------------------------------
Poll == /\ at = "idle" /\ polls < MaxPolls /\ polls' = polls + 1 /\ at' = "digest"
        /\ todo' = {conf[c].lang : c \in {c \in Chat : conf[c].summary}}
        /\ digest' = None /\ cast' = None /\ served' = [l \in Lang |-> {}]
        /\ targets' = {} /\ got' = {}
        /\ UNCHANGED <<conf, purse, lock, spends, runs, charged, unpaid, heard>>

(* _settle_shared: equal shares, and what is left over to the first.         *)
(* Mutant: it is to nobody.                                                  *)
Share_Even(c, first, S) == Cost \div Cardinality(S)
Share(c, first, S) == Cost \div Cardinality(S) + (IF c = first THEN Cost % Cardinality(S) ELSE 0)
Settled(S, first) == [c \in Chat |-> IF c \in S THEN purse[c] - Share(c, first, S) ELSE purse[c]]
Charge(S) == \/ /\ S = {} /\ unpaid' = unpaid + 1 /\ UNCHANGED <<purse, runs, charged>>
             \/ \E first \in S : /\ purse' = Settled(S, first) /\ runs' = runs + 1
                                 /\ charged' = charged + Sum[S, [c \in Chat |-> Share(c, first, S)]]
                                 /\ UNCHANGED unpaid

(* One generation per language, whoever can pay for it; a generation that    *)
(* fails or takes too long costs nobody anything.                            *)
Allowed(c) == purse[c] > 0
Served(l) == {c \in Chat : conf[c].lang = l /\ conf[c].summary /\ Allowed(c)}
Digest(l) == /\ at = "digest" /\ l \in todo /\ todo' = todo \ {l}
             /\ served' = [served EXCEPT ![l] = Served(l)]
             /\ \/ digest' = [digest EXCEPT ![l] = "text"] /\ Charge(Served(l))
                \/ digest' = [digest EXCEPT ![l] = "failed"] /\ UNCHANGED <<purse, runs, charged, unpaid>>
             /\ UNCHANGED <<conf, at, cast, targets, lock, polls, spends, got, heard>>
Target == /\ at = "digest" /\ todo = {} /\ at' = "broadcast"
          /\ targets' = {c \in Chat : conf[c].broadcast /\ c \notin lock}
          /\ todo' = {conf[c].lang : c \in targets'}
          /\ UNCHANGED <<conf, purse, digest, cast, served, lock, polls, spends, runs, charged, unpaid, got, heard>>
Broadcast(l) ==
    /\ at = "broadcast" /\ l \in todo /\ todo' = todo \ {l}
    /\ \/ /\ cast' = [cast EXCEPT ![l] = "text"]
          /\ Charge({c \in targets : conf[c].lang = l /\ Allowed(c)})
       \/ cast' = [cast EXCEPT ![l] = "failed"] /\ UNCHANGED <<purse, runs, charged, unpaid>>
    /\ UNCHANGED <<conf, at, digest, served, targets, lock, polls, spends, got, heard>>
Generated == /\ at = "broadcast" /\ todo = {} /\ at' = "deliver" /\ todo' = Chat
             /\ UNCHANGED <<conf, purse, digest, cast, served, targets, lock, polls, spends, runs, charged,
                            unpaid, got, heard>>

(* Delivery, chat by chat.  The lock is taken before the message is sent,    *)
(* and stays if that fails.  Mutants: the allowance is asked for again; the  *)
(* lock is only looked at.                                                   *)
Gets_Asked(c) == conf[c].summary /\ digest[conf[c].lang] = "text" /\ Allowed(c)
Gets(c) == conf[c].summary /\ digest[conf[c].lang] = "text"
Talks(c) == c \in targets /\ cast[conf[c].lang] = "text" /\ c \notin lock
Locked_Not(c) == lock
Locked(c) == IF Talks(c) THEN lock \cup {c} ELSE lock
Deliver(c) == /\ at = "deliver" /\ c \in todo /\ todo' = todo \ {c}
              /\ got' = IF Gets(c) THEN got \cup {c} ELSE got
              /\ lock' = Locked(c)
              /\ \/ Talks(c) /\ heard' = [heard EXCEPT ![c] = @ + 1]
                 \/ UNCHANGED heard
              /\ UNCHANGED <<conf, purse, at, digest, cast, served, targets, polls, spends, runs, charged, unpaid>>
Finish == /\ at = "deliver" /\ todo = {} /\ at' = "idle"
          /\ UNCHANGED <<conf, purse, todo, digest, cast, served, targets, lock, polls, spends, runs,
                         charged, unpaid, got, heard>>

(* The interval between two messages passes; the chat spends its allowance.  *)
Unlock(c) == /\ c \in lock /\ lock' = lock \ {c} /\ heard' = [heard EXCEPT ![c] = 0]
             /\ UNCHANGED <<conf, purse, at, todo, digest, cast, served, targets, polls, spends, runs,
                            charged, unpaid, got>>
Spend(c) == /\ spends < MaxSpends /\ spends' = spends + 1 /\ purse[c] > 0
            /\ purse' = [purse EXCEPT ![c] = @ - Cost]
            /\ UNCHANGED <<conf, at, todo, digest, cast, served, targets, lock, polls, runs, charged,
                           unpaid, got, heard>>

Next == \/ Poll \/ Target \/ Generated \/ Finish
        \/ \E l \in Lang : Digest(l) \/ Broadcast(l)
        \/ \E c \in Chat : Deliver(c) \/ Unlock(c) \/ Spend(c)
Spec == Init /\ [][Next]_vars

-----------------------------------------------------------------------------
(* "each pays its share of the same tokens and the sum still equals what the *)
(* call really cost" (rss_digest.py:165).                                    *)
SharesAddUp == charged = runs * Cost

(* It does not when nobody in the language has anything left: the batch is   *)
(* written all the same.                                                     *)
EveryBatchIsPaid == unpaid = 0

(* Whoever paid for a digest gets it, also when it has nothing left after.   *)
PayersGetTheirs == at = "deliver" /\ todo = {} =>
    \A l \in Lang : digest[l] = "text" => served[l] \subseteq got

(* A chat without an allowance "stops receiving digests rather than being    *)
(* charged for them" (jobs.py:264).                                          *)
OnlyPayersGet == \A c \in got : c \in served[conf[c].lang]

(* At most one message about feeds per chat and interval.                    *)
OneBroadcastPerInterval == \A c \in Chat : heard[c] <= 1
=============================================================================
