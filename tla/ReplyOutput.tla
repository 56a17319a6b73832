------------------------------ MODULE ReplyOutput ------------------------------
(* How an answer of the agent goes out (agent/output.py): in parts, first as *)
(* rich messages, what is left of it as plain text; rich messages that keep  *)
(* failing are paused; the last answer of a group is remembered.  The parts  *)
(* of the rich and of the plain form are taken to be the same.               *)
EXTENDS Integers, Sequences

CONSTANTS Reply,         \* answers
          Parts,         \* how many parts each has
          RICH_FAILURE_LIMIT,
          Shared,        \* the cache is Redis: others run between a get and a set
          MaxLost        \* sends that arrive although they raise

VARIABLES failures, paused, \* agent_rich_failures, agent_rich_disabled
          at,      \* what each answer is doing
          next,    \* its next part
          sent,    \* what of it has arrived, in order: <<part, form>>
          read,    \* the failures it has read
          heard,   \* its last part that is known to have arrived, 0 for none
          last,    \* BotLastReply of the group, a singleton of [reply, part]
          streak,  \* (history) rich sends that failed since one succeeded
          earned,  \* (history) the streak at which the pause was set
          mixed,   \* (history) two answers counted their results at a time
          lost     \* sends that arrived although they raised

vars == <<failures, paused, at, next, sent, read, heard, last, streak, earned, mixed, lost>>

Parameters == Parts \in [Reply -> Nat \ {0}] /\ RICH_FAILURE_LIMIT \in Nat

Init == /\ failures = 0 /\ paused = FALSE /\ last = {} /\ streak = 0 /\ earned = 0
        /\ at = [r \in Reply |-> "idle"] /\ next = [r \in Reply |-> 1]
        /\ sent = [r \in Reply |-> <<>>] /\ read = [r \in Reply |-> 0]
        /\ heard = [r \in Reply |-> 0]
        /\ mixed = FALSE /\ lost = 0

Put(f, r, v) == [f EXCEPT ![r] = v]
Arrives(r, form) == sent' = Put(sent, r, Append(sent[r], <<next[r], form>>))
Hears(r) == heard' = Put(heard, r, next[r])
Counting(r) == \E o \in Reply \ {r} : at[o] = "counting"

-----------------------------------------------------------------------------
(* Rich messages while they are not paused and the text can be converted.    *)
Begin(r) == /\ at[r] = "idle"
            /\ \E convertible \in BOOLEAN :
                 at' = Put(at, r, IF ~paused /\ convertible THEN "rich" ELSE "plain")
            /\ UNCHANGED <<failures, paused, next, sent, read, heard, last, streak, earned, mixed, lost>>

(* _send_rich_payloads: the last part out ends the count of failures and the *)
(* pause.  Mutant: the count goes on.                                        *)
Cleared_Never(n) == n
Cleared(n) == 0
RichArrives(r) ==
  /\ at[r] = "rich" /\ Arrives(r, "rich") /\ Hears(r) /\ next' = Put(next, r, next[r] + 1)
  /\ IF next[r] < Parts[r] THEN UNCHANGED <<failures, paused, at, streak, mixed>>
     ELSE /\ failures' = Cleared(failures) /\ paused' = FALSE /\ streak' = 0
          /\ at' = Put(at, r, "record") /\ mixed' = (mixed \/ Counting(r))
  /\ UNCHANGED <<read, last, earned, lost>>

(* The first failure stops the rich form; whether the part has arrived is    *)
(* not known.                                                                *)
RichFails(r) ==
  /\ at[r] = "rich" /\ at' = Put(at, r, "counting") /\ read' = Put(read, r, failures)
  /\ streak' = streak + 1 /\ mixed' = (mixed \/ Counting(r))
  /\ \/ UNCHANGED <<sent, lost>>
     \/ lost < MaxLost /\ lost' = lost + 1 /\ Arrives(r, "rich")
  /\ UNCHANGED <<failures, paused, next, heard, last, earned>>

(* _note_rich_result(False): the count that was read, and one.  What is left *)
(* goes out as plain text.  Mutant: all of it goes out again.                *)
Rest_All(n) == 1
Rest(n) == n
Count(r) == /\ at[r] = "counting" /\ failures' = read[r] + 1
            /\ IF failures' >= RICH_FAILURE_LIMIT THEN paused' = TRUE /\ earned' = streak
               ELSE UNCHANGED <<paused, earned>>
            /\ at' = Put(at, r, IF next[r] = 1 THEN "plain" ELSE "tail")
            /\ next' = Put(next, r, Rest(next[r]))
            /\ UNCHANGED <<sent, read, heard, last, streak, mixed, lost>>

(* _send_plain_reply: a part is sent with its entities, then without; one    *)
(* that fails twice is skipped.  Mutant: it ends the answer.                 *)
Skips_Stop(r) == FALSE
Skips(r) == next[r] < Parts[r]
Onward(r) == next' = Put(next, r, next[r] + 1)
PlainArrives(r) == /\ at[r] = "plain" /\ Onward(r) /\ Hears(r)
                   /\ \/ Arrives(r, "plain") /\ UNCHANGED lost
                      \/ /\ lost < MaxLost /\ lost' = lost + 1
                         /\ sent' = Put(sent, r, sent[r] \o <<<<next[r], "plain">>, <<next[r], "plain">>>>)
                   /\ at' = Put(at, r, IF next[r] = Parts[r] THEN "record" ELSE "plain")
                   /\ UNCHANGED <<failures, paused, read, last, streak, earned, mixed>>
PlainFails(r) == /\ at[r] = "plain" /\ Onward(r)
                 /\ at' = Put(at, r, IF Skips(r) THEN "plain" ELSE IF heard[r] = 0 THEN "done" ELSE "record")
                 /\ UNCHANGED <<failures, paused, sent, read, heard, last, streak, earned, mixed, lost>>

(* _send_rich_tail_plain: the first failure ends the answer.                 *)
TailArrives(r) == /\ at[r] = "tail" /\ Onward(r) /\ Arrives(r, "plain")
                  /\ at' = Put(at, r, IF next[r] = Parts[r] THEN "record" ELSE "tail")
                  /\ UNCHANGED <<failures, paused, read, heard, last, streak, earned, mixed, lost>>
TailFails(r) == /\ at[r] = "tail" /\ at' = Put(at, r, "record")
                /\ \/ UNCHANGED <<sent, lost>>
                   \/ lost < MaxLost /\ lost' = lost + 1 /\ Arrives(r, "plain")
                /\ UNCHANGED <<failures, paused, next, read, heard, last, streak, earned, mixed>>

(* The last rich part, or else the last plain one, is what a follow-up       *)
(* message answers.  Mutant: the next part is.                               *)
Answered_Next(r) == next[r]
Answered(r) == heard[r]
Record(r) == /\ at[r] = "record" /\ at' = Put(at, r, "done")
             /\ last' = {[reply |-> r, part |-> Answered(r)]}
             /\ UNCHANGED <<failures, paused, next, sent, read, heard, streak, earned, mixed, lost>>

(* Every entry of the cache has its time to live.                            *)
Expire == /\ \/ failures > 0 /\ failures' = 0 /\ UNCHANGED <<paused, last>>
             \/ paused /\ paused' = FALSE /\ UNCHANGED <<failures, last>>
             \/ last # {} /\ last' = {} /\ UNCHANGED <<failures, paused>>
          /\ UNCHANGED <<at, next, sent, read, heard, streak, earned, mixed, lost>>

(* Without Redis nothing runs between the get and the set of a count.        *)
Alone(r) == Shared \/ ~Counting(r)
Next == \/ \E r \in Reply : Alone(r) /\ (\/ Begin(r) \/ RichArrives(r) \/ RichFails(r) \/ Count(r)
                                         \/ PlainArrives(r) \/ PlainFails(r)
                                         \/ TailArrives(r) \/ TailFails(r) \/ Record(r))
        \/ (Shared \/ \A r \in Reply : at[r] # "counting") /\ Expire
Spec == Init /\ [][Next]_vars

-----------------------------------------------------------------------------
(* Numbers in their ranges, and no more failures counted than happened.      *)
TypeOK == /\ \A r \in Reply : next[r] \in 1..(Parts[r] + 1)
          /\ ~mixed => failures <= streak

(* What arrives of an answer arrives in order, and once, unless a send       *)
(* arrived although it raised.                                               *)
PartsOf(r) == [i \in DOMAIN sent[r] |-> sent[r][i][1]]
InOrderOnce == \A r \in Reply : \A i, j \in DOMAIN sent[r] :
                 i < j => PartsOf(r)[i] <= PartsOf(r)[j] /\ (lost = 0 => PartsOf(r)[i] # PartsOf(r)[j])

(* "a chunk that fails twice is skipped so later chunks still go out": an    *)
(* answer that has ended without a word has tried all of its parts.          *)
AllTried == \A r \in Reply : at[r] = "done" /\ sent[r] = <<>> => next[r] = Parts[r] + 1

(* Rich messages are paused only after so many failures in a row, unless two *)
(* answers counted at a time (as they may in Redis).                         *)
PauseEarned == paused /\ ~mixed => earned >= RICH_FAILURE_LIMIT

(* The part that a follow-up is taken to answer has arrived.                 *)
RememberedArrived == \A l \in last : l.part \in {PartsOf(l.reply)[i] : i \in DOMAIN sent[l.reply]}
=============================================================================
