----------------------- MODULE AgentConversation_proofs -----------------------
(* What holds of the turns for every set of handlers, conversations and      *)
(* users: the inductive invariant IInv, and what follows from it.            *)
EXTENDS MCConversation, FiniteSetTheorems, TLAPS

Phase == InTurn \cup {"idle", "done", "relevance", "answered", "askready", "dropped",
                      "expired", "forget", "forgetting"}
Left == {"leave", "done"}
TaskOK == task \in [Task -> TaskState] /\ \A t \in Task : task[t].pc # "idle" => C(t) \in Conv

(* Until /clear_sessions drops the locks, who is in a turn holds the lock of *)
(* its conversation.                                                         *)
TurnsOwn == wipe # "done" => \A t \in Task : task[t].pc \in InTurn => convLock[C(t)] = t

(* A bot's wake turn holds the wake lock of the bot; only other kinds of     *)
(* update begin their turn later than they arrive.                           *)
Later == {"relevance", "answered", "askready"}
WakesOwn == \A t \in Task :
  /\ task[t].pc \in InTurn /\ task[t].kind = "wake" /\ Speaker[C(t)] \in Bots
       => wakeLock[Speaker[C(t)]] = t
  /\ task[t].pc \in Later => task[t].kind # "wake"

(* The registry holds runs that have started; what was cancelled was there,  *)
(* and is over when the histories go.                                        *)
RunsStarted == \A c \in Conv : runTask[c] # None => task[runTask[c]].pc \in InRun \cup Left
CancelledStarted ==
  /\ wipe = "idle" => cancelled = {}
  /\ \A t \in cancelled : task[t].pc \in InRun \cup Left
  /\ wipe \in {"histories", "coverages", "done"} => \A t \in cancelled : task[t].pc \in Left

(* A question is stored after its buttons were sent, once, by the turn it is *)
(* named after; when it has been answered it is not pending any more.        *)
Unasked(q) == \A c \in Conv : ask[c] # q
AskedOnce ==
  /\ \A c \in Conv : ask[c] # None =>
        /\ task[ask[c]].pc \notin {"idle", "asking"}
        /\ C(ask[c]) = c /\ ask[c] \in keyboards[c]
  /\ \A t \in Task : At(t, "asking") => t \in keyboards[C(t)] /\ Unasked(t)
  /\ \A t \in Task : task[t].answer # None =>
        LET q == task[t].answer[2] IN
        task[q].pc \notin {"idle", "asking"} /\ q \in keyboards[C(q)] /\ Unasked(q)
  /\ AnsweredOnce

Safe == TurnsOwn /\ WakesOwn /\ RunsStarted /\ CancelledStarted /\ AskedOnce
IInv == TypeOK /\ Safe

-----------------------------------------------------------------------------
(* How the record of a handler moves. *)

Others(t) == \A s \in Task : s # t => task'[s] = task[s]
Moved(t, p) == /\ Others(t) /\ task'[t].pc = p /\ task'[t].conv = task[t].conv
               /\ task'[t].kind = task[t].kind /\ task'[t].answer = task[t].answer

(* A handler at another phase is still a handler. *)
LEMMA WithPc == ASSUME NEW r \in TaskState, NEW p \in Phase PROVE [r EXCEPT !.pc = p] \in TaskState
BY DEF TaskState, Phase

(* A step that gives one handler a proper record leaves all records proper. *)
LEMMA Becomes ==
  ASSUME TaskOK, NEW t \in Task, NEW r \in TaskState, r.conv \in Conv,
         task' = [task EXCEPT ![t] = r]
  PROVE  TaskOK' /\ task'[t] = r /\ Others(t)
<1>1. task \in [Task -> TaskState] BY DEF TaskOK
<1>2. task' \in [Task -> TaskState] BY <1>1
<1>3. task'[t] = r /\ Others(t) BY <1>1 DEF Others
<1> QED BY <1>2, <1>3 DEF TaskOK, C

(* A handler that goes on keeps its conversation, its kind and its answer. *)
LEMMA GotoMoves ==
  ASSUME TaskOK, NEW t \in Task, NEW p \in Phase, Goto(t, p), task[t].pc # "idle"
  PROVE  TaskOK' /\ Moved(t, p)
<1> DEFINE r == [task[t] EXCEPT !.pc = p]
<1>1. task[t] \in TaskState /\ task[t].conv \in Conv BY DEF TaskOK, C
<1>2. r \in TaskState BY <1>1, WithPc
<1>3. /\ r.pc = p /\ r.conv = task[t].conv /\ r.kind = task[t].kind
      /\ r.answer = task[t].answer
  BY <1>1 DEF TaskState
<1>4. task' = [task EXCEPT ![t] = r] BY DEF Goto
<1>5. TaskOK' /\ task'[t] = r /\ Others(t)
  <2> HIDE DEF r
  <2> QED BY <1>1, <1>2, <1>3, <1>4, Becomes
<1> QED BY <1>3, <1>5 DEF Moved

(* An update that arrives makes a handler of its conversation and kind. *)
LEMMA ArrivesMoves ==
  ASSUME TaskOK, NEW t \in Task, NEW c \in Conv, NEW k \in AllKinds, NEW p \in Phase, Arrives(t, c, k, p)
  PROVE  /\ TaskOK' /\ Others(t) /\ task[t].pc = "idle"
         /\ task'[t].pc = p /\ task'[t].conv = c /\ task'[t].kind = k
         /\ task'[t].answer = task[t].answer
<1> DEFINE r == [task[t] EXCEPT !.conv = c, !.kind = k, !.pc = p]
<1>1. task[t] \in TaskState BY DEF TaskOK
<1>2. r \in TaskState BY <1>1 DEF TaskState, Phase
<1>3. r.pc = p /\ r.conv = c /\ r.kind = k /\ r.answer = task[t].answer BY <1>1 DEF TaskState
<1>4. task' = [task EXCEPT ![t] = r] BY <1>1 DEF Arrives, TaskState, TaskOK
<1>5. TaskOK' /\ task'[t] = r /\ Others(t)
  <2> HIDE DEF r
  <2> QED BY <1>1, <1>2, <1>3, <1>4, Becomes
<1> QED BY <1>3, <1>5 DEF Arrives, At

-----------------------------------------------------------------------------
(* Steps that disturb little. *)

(* What the proofs below need of the types. *)
LEMMA TypeFacts ==
  ASSUME TypeOK
  PROVE  /\ TaskOK /\ None \notin Task
         /\ convLock \in [Conv -> Task \cup {None}] /\ wakeLock \in [User -> Task \cup {None}]
         /\ runTask \in [Conv -> Task \cup {None}] /\ ask \in [Conv -> Task \cup {None}]
         /\ keyboards \in [Conv -> SUBSET Task] /\ cancelled \subseteq Task
         /\ Speaker \in [Conv -> User]
BY SpeakersOK, NamesOK DEF TypeOK, TaskOK, C

(* An answer names the handler whose question it answers. *)
LEMMA AnswerFacts ==
  ASSUME TaskOK, NEW t \in Task, task[t].answer # None
  PROVE  task[t].answer[2] \in Task
BY DEF TaskOK, TaskState

(* Within a turn, or to its end. *)
LEMMA StaysInTurn ==
  ASSUME IInv, NEW t \in Task, NEW p, Moved(t, p), task[t].pc \in InTurn,
         \/ p = "leave"
         \/ p \in InRun \ {"asking"} /\ task[t].pc \in InRun /\ t \notin cancelled
         \/ p \in {"read", "compose"} /\ task[t].pc \notin InRun \cup Left,
         UNCHANGED <<locks, runTask, asks, session>>
  PROVE  Safe'
<1>1. TaskOK /\ runTask \in [Conv -> Task \cup {None}] /\ ask \in [Conv -> Task \cup {None}]
      /\ cancelled \subseteq Task /\ None \notin Task
  BY TypeFacts DEF IInv
<1>2. /\ convLock' = convLock /\ wakeLock' = wakeLock /\ runTask' = runTask /\ ask' = ask
      /\ keyboards' = keyboards /\ wipe' = wipe /\ cancelled' = cancelled
  BY DEF locks, asks, session
<1>3. p \in InTurn /\ p # "asking"
  BY DEF InTurn, InRun, Ended, NotBegun
<1>4. TurnsOwn'
  BY <1>2 DEF IInv, Safe, TurnsOwn, Moved, Others, C
<1>5. WakesOwn'
  <2>1. p \notin Later BY DEF Later, InRun, Ended, NotBegun
  <2> QED BY <1>2, <2>1 DEF IInv, Safe, WakesOwn, Moved, Others, C
<1>6. RunsStarted'
  BY <1>1, <1>2 DEF IInv, Safe, RunsStarted, Moved, Others, Left
<1>7. CancelledStarted'
  BY <1>1, <1>2 DEF IInv, Safe, CancelledStarted, Moved, Others, Left, InRun, Ended, NotBegun
<1>8. AskedOnce'
  BY <1>1, <1>2, <1>3, AnswerFacts
    DEF IInv, Safe, AskedOnce, AnsweredOnce, Unasked, Moved, Others, C, At, InTurn, InRun, Ended, NotBegun
<1> QED BY <1>4, <1>5, <1>6, <1>7, <1>8 DEF Safe

(* Outside any turn. *)
LEMMA StaysOutside ==
  ASSUME IInv, NEW t \in Task, NEW p, Moved(t, p), p \notin InTurn \cup {"idle"},
         task[t].pc \notin InTurn \cup {"idle", "done"},
         p \in Later => task[t].pc \in Later,
         UNCHANGED <<locks, runTask, asks, session>>
  PROVE  Safe'
<1>1. TaskOK /\ runTask \in [Conv -> Task \cup {None}] /\ ask \in [Conv -> Task \cup {None}]
      /\ cancelled \subseteq Task /\ None \notin Task
  BY TypeFacts DEF IInv
<1>2. /\ convLock' = convLock /\ wakeLock' = wakeLock /\ runTask' = runTask /\ ask' = ask
      /\ keyboards' = keyboards /\ wipe' = wipe /\ cancelled' = cancelled
  BY DEF locks, asks, session
<1>3. p # "asking" BY DEF InTurn, InRun, Ended, NotBegun
<1>4. TurnsOwn'
  BY <1>2 DEF IInv, Safe, TurnsOwn, Moved, Others, C
<1>5. WakesOwn'
  BY <1>2 DEF IInv, Safe, WakesOwn, Moved, Others, C
<1>6. RunsStarted'
  BY <1>1, <1>2 DEF IInv, Safe, RunsStarted, Moved, Others, Left, InTurn
<1>7. CancelledStarted'
  BY <1>1, <1>2 DEF IInv, Safe, CancelledStarted, Moved, Others, Left, InTurn
<1>8. AskedOnce'
  BY <1>1, <1>2, <1>3, AnswerFacts
    DEF IInv, Safe, AskedOnce, AnsweredOnce, Unasked, Moved, Others, C, At
<1> QED BY <1>4, <1>5, <1>6, <1>7, <1>8 DEF Safe

(* An update that arrives and starts no turn. *)
LEMMA ArrivesOutside ==
  ASSUME IInv, NEW t \in Task, NEW c \in Conv, NEW k \in AllKinds,
         NEW p \in Phase \ (InTurn \cup {"idle"}), Arrives(t, c, k, p),
         k = "wake" => p \notin Later,
         UNCHANGED <<locks, runTask, asks, session>>
  PROVE  Safe'
<1>1. TaskOK /\ runTask \in [Conv -> Task \cup {None}] /\ ask \in [Conv -> Task \cup {None}]
      /\ cancelled \subseteq Task /\ None \notin Task
  BY TypeFacts DEF IInv
<1>2. /\ convLock' = convLock /\ wakeLock' = wakeLock /\ runTask' = runTask /\ ask' = ask
      /\ keyboards' = keyboards /\ wipe' = wipe /\ cancelled' = cancelled
  BY DEF locks, asks, session
<1>3. /\ Others(t) /\ task[t].pc = "idle" /\ task'[t].pc = p /\ task'[t].conv = c
      /\ task'[t].answer = task[t].answer
  BY <1>1, ArrivesMoves
<1>4. TurnsOwn'
  BY <1>2, <1>3 DEF IInv, Safe, TurnsOwn, Others, C
<1>5. WakesOwn'
  BY <1>1, <1>2, <1>3, ArrivesMoves DEF IInv, Safe, WakesOwn, Others, C
<1>6. RunsStarted'
  BY <1>1, <1>2, <1>3 DEF IInv, Safe, RunsStarted, Others, Left, InTurn, InRun, Ended, NotBegun
<1>7. CancelledStarted'
  BY <1>1, <1>2, <1>3 DEF IInv, Safe, CancelledStarted, Others, Left, InTurn, InRun, Ended, NotBegun
<1>8. AskedOnce'
  <2>1. p # "asking" BY DEF InTurn, InRun, Ended, NotBegun
  <2> QED BY <1>1, <1>2, <1>3, <2>1, AnswerFacts
    DEF IInv, Safe, AskedOnce, AnsweredOnce, Unasked, Others, C, At
<1> QED BY <1>4, <1>5, <1>6, <1>7, <1>8 DEF Safe

-----------------------------------------------------------------------------
(* The steps. *)

(* What TypeOK says of the other variables. *)
RestOK ==
  /\ convLock \in [Conv -> Task \cup {None}] /\ wakeLock \in [User -> Task \cup {None}]
  /\ runTask \in [Conv -> Task \cup {None}] /\ activeRun \in [Conv -> Task \cup {None}]
  /\ history \in [Conv -> SUBSET Task] /\ coverage \in [Conv -> SUBSET Task]
  /\ erased \in [Conv -> SUBSET Task]
  /\ ask \in [Conv -> Task \cup {None}] /\ keyboards \in [Conv -> SUBSET Task]
  /\ steering \in [Conv -> SUBSET Task] /\ budget \in [Conv -> 0..MaxQueue]
  /\ inbox \in [Task -> SUBSET Task] /\ given \in [Task -> SUBSET Task]
  /\ wipe \in {"idle", "cancel", "histories", "coverages", "done"} /\ cancelled \subseteq Task

(* The type invariant, the records of the handlers apart. *)
LEMMA TypeSplit == TypeOK <=> TaskOK /\ RestOK
BY DEF TypeOK, TaskOK, RestOK, C

(* The same after a step. *)
LEMMA TypeJoin == TaskOK' /\ RestOK' => TypeOK'
BY DEF TypeOK, TaskOK, RestOK, C

(* A message that is queued keeps to the budget. *)
LEMMA InterjectType ==
  ASSUME RestOK, NEW t \in Task, NEW c \in Conv, Interject(t, c)
  PROVE  /\ steering' \in [Conv -> SUBSET Task] /\ budget' \in [Conv -> 0..MaxQueue]
         /\ inbox' \in [Task -> SUBSET Task] /\ given' \in [Task -> SUBSET Task]
BY BoundsOK DEF Interject, QueueFull, RestOK, queues

(* The end of a run, whatever ends it, gives up its run and keeps its locks. *)
LEMMA LeaveRunMoves ==
  ASSUME IInv, NEW t \in Task, task[t].pc \in InRun, LeaveRun(t)
  PROVE  IInv'
<1>1. TaskOK /\ RestOK BY TypeSplit DEF IInv
<1>2. "leave" \in Phase /\ task[t].pc # "idle" /\ task[t].pc \in InTurn
  BY DEF Phase, InTurn, InRun, Ended, NotBegun
<1>3. TaskOK' /\ Moved(t, "leave") BY <1>1, <1>2, GotoMoves DEF LeaveRun
<1>4. C(t) \in Conv BY <1>1, <1>2 DEF TaskOK, C
<1>5. RestOK'
  BY <1>1, <1>4, BoundsOK DEF LeaveRun, Unregister, RestOK, locks, memory, asks, session
<1>6. Safe' BY <1>2, <1>3, StaysInTurn DEF LeaveRun
<1> QED BY <1>3, <1>5, <1>6, TypeJoin DEF IInv

(* A refused turn goes to its finally with the locks it holds. *)
LEMMA TurnRefusedStep ==
  ASSUME IInv, NEW t \in Task, TurnRefused(t)
  PROVE  IInv'
<1>1. TaskOK /\ RestOK BY TypeSplit DEF IInv
<1>2. "leave" \in Phase /\ task[t].pc # "idle" /\ C(t) \in Conv
  BY <1>1 DEF TurnRefused, TaskOK, C, Phase, InTurn, InRun, Ended, NotBegun
<1>3. TaskOK' /\ Moved(t, "leave") BY <1>1, <1>2, GotoMoves DEF TurnRefused
<1>4. RestOK' BY <1>1, <1>2, BoundsOK DEF TurnRefused, RestOK, locks, runs, memory,
       asks, queues, session
<1>5. Safe'
  BY <1>2, <1>3, StaysInTurn DEF TurnRefused, locks, runs, asks, session, Phase,
       InTurn, InRun, Ended, NotBegun, Left
<1> QED BY <1>3, <1>4, <1>5, TypeJoin DEF IInv

(* Reading moves a turn on. *)
LEMMA ReadHistoryStep ==
  ASSUME IInv, NEW t \in Task, ReadHistory(t)
  PROVE  IInv'
<1> DEFINE r == [task[t] EXCEPT !.pc = "read", !.snap = history[C(t)]]
<1>1. TaskOK /\ RestOK BY TypeSplit DEF IInv
<1>2. task[t] \in TaskState /\ task[t].pc # "idle" /\ C(t) \in Conv
  BY <1>1 DEF ReadHistory, At, TaskOK, C
<1>3. /\ r \in TaskState /\ r.pc = "read" /\ r.conv = task[t].conv /\ r.kind = task[t].kind
      /\ r.answer = task[t].answer
  BY <1>1, <1>2 DEF TaskState, RestOK, C, Phase, InTurn, InRun, Ended, NotBegun
<1>4. task' = [task EXCEPT ![t] = r] BY DEF ReadHistory
<1>5. TaskOK' /\ Moved(t, "read")
  <2> HIDE DEF r
  <2> QED BY <1>1, <1>2, <1>3, <1>4, Becomes DEF Moved, C
<1>6. RestOK' BY <1>1, <1>2 DEF ReadHistory, RestOK, locks, runs, memory, asks, queues, session
<1>7. Safe'
  BY <1>2, <1>5, StaysInTurn DEF ReadHistory, At, locks, runs, asks, session, Phase,
       InTurn, InRun, Ended, NotBegun, Left
<1> QED BY <1>5, <1>6, <1>7, TypeJoin DEF IInv

(* So does reading the cursor. *)
LEMMA ReadCoverageStep ==
  ASSUME IInv, NEW t \in Task, ReadCoverage(t)
  PROVE  IInv'
<1> DEFINE r == [task[t] EXCEPT !.pc = "compose", !.skip = IF task[t].kind = "wake" THEN coverage[C(t)] ELSE {}]
<1>1. TaskOK /\ RestOK BY TypeSplit DEF IInv
<1>2. task[t] \in TaskState /\ task[t].pc # "idle" /\ C(t) \in Conv
  BY <1>1 DEF ReadCoverage, At, TaskOK, C
<1>3. /\ r \in TaskState /\ r.pc = "compose" /\ r.conv = task[t].conv /\ r.kind = task[t].kind
      /\ r.answer = task[t].answer
  BY <1>1, <1>2 DEF TaskState, RestOK, C, Phase, InTurn, InRun, Ended, NotBegun
<1>4. task' = [task EXCEPT ![t] = r] BY DEF ReadCoverage
<1>5. TaskOK' /\ Moved(t, "compose")
  <2> HIDE DEF r
  <2> QED BY <1>1, <1>2, <1>3, <1>4, Becomes DEF Moved, C
<1>6. RestOK' BY <1>1, <1>2 DEF ReadCoverage, RestOK, locks, runs, memory, asks, queues, session
<1>7. Safe'
  BY <1>2, <1>5, StaysInTurn DEF ReadCoverage, At, locks, runs, asks, session, Phase,
       InTurn, InRun, Ended, NotBegun, Left
<1> QED BY <1>5, <1>6, <1>7, TypeJoin DEF IInv

(* An irrelevant message begins no turn. *)
LEMMA FollowIrrelevantStep ==
  ASSUME IInv, NEW t \in Task, FollowIrrelevant(t)
  PROVE  IInv'
<1>1. TaskOK /\ RestOK BY TypeSplit DEF IInv
<1>2. "done" \in Phase /\ task[t].pc # "idle" /\ C(t) \in Conv
  BY <1>1 DEF FollowIrrelevant, At, TaskOK, C, Phase, InTurn, InRun, Ended, NotBegun
<1>3. TaskOK' /\ Moved(t, "done") BY <1>1, <1>2, GotoMoves DEF FollowIrrelevant
<1>4. RestOK' BY <1>1, <1>2, BoundsOK DEF FollowIrrelevant, RestOK, locks, runs, memory,
       asks, queues, session
<1>5. Safe'
  BY <1>2, <1>3, StaysOutside DEF FollowIrrelevant, At, locks, runs, asks, session, Phase,
       InTurn, InRun, Ended, NotBegun, Left, Later
<1> QED BY <1>3, <1>4, <1>5, TypeJoin DEF IInv

(* An answer reads before it owns anything. *)
LEMMA AskReadsStep ==
  ASSUME IInv, NEW t \in Task, AskReads(t)
  PROVE  IInv'
<1> DEFINE r == [task[t] EXCEPT !.pc = "askready", !.snap = history[C(t)]]
<1>1. TaskOK /\ RestOK BY TypeSplit DEF IInv
<1>2. task[t] \in TaskState /\ task[t].pc # "idle" /\ C(t) \in Conv
  BY <1>1 DEF AskReads, At, TaskOK, C
<1>3. /\ r \in TaskState /\ r.pc = "askready" /\ r.conv = task[t].conv /\ r.kind = task[t].kind
      /\ r.answer = task[t].answer
  BY <1>1, <1>2 DEF TaskState, RestOK, C, Phase, InTurn, InRun, Ended, NotBegun
<1>4. task' = [task EXCEPT ![t] = r] BY DEF AskReads
<1>5. TaskOK' /\ Moved(t, "askready")
  <2> HIDE DEF r
  <2> QED BY <1>1, <1>2, <1>3, <1>4, Becomes DEF Moved, C
<1>6. RestOK' BY <1>1, <1>2 DEF AskReads, RestOK, locks, runs, memory, asks, queues, session
<1>7. Safe'
  BY <1>2, <1>5, StaysOutside DEF AskReads, At, locks, runs, asks, session, Phase,
       InTurn, InRun, Ended, NotBegun, Left, Later
<1> QED BY <1>5, <1>6, <1>7, TypeJoin DEF IInv

(* A refused answer begins no turn. *)
LEMMA AskRefusedStep ==
  ASSUME IInv, NEW t \in Task, AskRefused(t)
  PROVE  IInv'
<1>1. TaskOK /\ RestOK BY TypeSplit DEF IInv
<1>2. "done" \in Phase /\ task[t].pc # "idle" /\ C(t) \in Conv
  BY <1>1 DEF AskRefused, At, TaskOK, C, Phase, InTurn, InRun, Ended, NotBegun
<1>3. TaskOK' /\ Moved(t, "done") BY <1>1, <1>2, GotoMoves DEF AskRefused
<1>4. RestOK' BY <1>1, <1>2, BoundsOK DEF AskRefused, RestOK, locks, runs, memory, asks, queues, session
<1>5. Safe'
  BY <1>2, <1>3, StaysOutside DEF AskRefused, At, locks, runs, asks, session, Phase,
       InTurn, InRun, Ended, NotBegun, Left, Later
<1> QED BY <1>3, <1>4, <1>5, TypeJoin DEF IInv

(* A run that stores what it has read moves on. *)
LEMMA MigrateHistoryStep ==
  ASSUME IInv, NEW t \in Task, MigrateHistory(t)
  PROVE  IInv'
<1>1. TaskOK /\ RestOK BY TypeSplit DEF IInv
<1>2. "migrated" \in Phase /\ task[t].pc # "idle" /\ C(t) \in Conv /\ task[t].snap \in SUBSET Task
  BY <1>1 DEF MigrateHistory, At, Running, TaskOK, TaskState, C, Phase, InTurn, InRun, Ended, NotBegun
<1>3. TaskOK' /\ Moved(t, "migrated") BY <1>1, <1>2, GotoMoves DEF MigrateHistory
<1>4. RestOK' BY <1>1, <1>2 DEF MigrateHistory, RestOK, locks, runs, asks, queues, session
<1>5. Safe'
  BY <1>2, <1>3, StaysInTurn DEF MigrateHistory, At, Running, locks, runs, asks, session,
       Phase, InTurn, InRun, Ended, NotBegun
<1> QED BY <1>3, <1>4, <1>5, TypeJoin DEF IInv

(* A run that begins moves on. *)
LEMMA BeginIterStep ==
  ASSUME IInv, NEW t \in Task, BeginIter(t)
  PROVE  IInv'
<1>1. TaskOK /\ RestOK BY TypeSplit DEF IInv
<1>2. "begun" \in Phase /\ task[t].pc # "idle" /\ C(t) \in Conv
  BY <1>1 DEF BeginIter, TaskOK, C, Phase, InTurn, InRun, Ended, NotBegun
<1>3. TaskOK' /\ Moved(t, "begun") BY <1>1, <1>2, GotoMoves DEF BeginIter
<1>4. RestOK' BY <1>1, <1>2, BoundsOK DEF BeginIter, RestOK, locks, memory, asks, queues, session
<1>5. Safe'
  BY <1>2, <1>3, StaysInTurn DEF BeginIter, locks, asks, session, Phase, InTurn,
       InRun, Ended, NotBegun, Left
<1> QED BY <1>3, <1>4, <1>5, TypeJoin DEF IInv

(* So does one that asks the model, *)
LEMMA ModelRequestStep ==
  ASSUME IInv, NEW t \in Task, ModelRequest(t)
  PROVE  IInv'
<1>1. TaskOK /\ RestOK BY TypeSplit DEF IInv
<1>2. "request" \in Phase /\ task[t].pc # "idle" /\ C(t) \in Conv /\ task[t].snap \in SUBSET Task
  BY <1>1 DEF ModelRequest, At, Running, TaskOK, TaskState, C, Phase, InTurn, InRun, Ended, NotBegun
<1>3. TaskOK' /\ Moved(t, "request") BY <1>1, <1>2, GotoMoves DEF ModelRequest
<1>4. RestOK' BY <1>1, <1>2 DEF ModelRequest, RestOK, locks, runs, asks, session
<1>5. Safe'
  BY <1>2, <1>3, StaysInTurn DEF ModelRequest, At, Running, locks, runs, asks, session,
       Phase, InTurn, InRun, Ended, NotBegun
<1> QED BY <1>3, <1>4, <1>5, TypeJoin DEF IInv

(* one whose graph has ended, *)
LEMMA RunEndsStep ==
  ASSUME IInv, NEW t \in Task, RunEnds(t)
  PROVE  IInv'
<1>1. TaskOK /\ RestOK BY TypeSplit DEF IInv
<1>2. "settle" \in Phase /\ task[t].pc # "idle" /\ C(t) \in Conv
  BY <1>1 DEF RunEnds, At, Running, TaskOK, C, Phase, InTurn, InRun, Ended, NotBegun
<1>3. TaskOK' /\ Moved(t, "settle") BY <1>1, <1>2, GotoMoves DEF RunEnds
<1>4. RestOK' BY <1>1, <1>2, BoundsOK DEF RunEnds, RestOK, locks, runs, memory, asks, queues, session
<1>5. Safe'
  BY <1>2, <1>3, StaysInTurn DEF RunEnds, At, Running, locks, runs, asks, session,
       Phase, InTurn, InRun, Ended, NotBegun, Left
<1> QED BY <1>3, <1>4, <1>5, TypeJoin DEF IInv

(* one that is paid for, *)
LEMMA SettleStep ==
  ASSUME IInv, NEW t \in Task, Settle(t)
  PROVE  IInv'
<1>1. TaskOK /\ RestOK BY TypeSplit DEF IInv
<1>2. "save" \in Phase /\ task[t].pc # "idle" /\ C(t) \in Conv
  BY <1>1 DEF Settle, At, Running, TaskOK, C, Phase, InTurn, InRun, Ended, NotBegun
<1>3. TaskOK' /\ Moved(t, "save") BY <1>1, <1>2, GotoMoves DEF Settle
<1>4. RestOK' BY <1>1, <1>2, BoundsOK DEF Settle, RestOK, locks, runs, memory, asks, queues, session
<1>5. Safe'
  BY <1>2, <1>3, StaysInTurn DEF Settle, At, Running, locks, runs, asks, session,
       Phase, InTurn, InRun, Ended, NotBegun, Left
<1> QED BY <1>3, <1>4, <1>5, TypeJoin DEF IInv

(* one that is stored, *)
LEMMA SaveHistoryStep ==
  ASSUME IInv, NEW t \in Task, SaveHistory(t)
  PROVE  IInv'
<1>1. TaskOK /\ RestOK BY TypeSplit DEF IInv
<1>2. "cover" \in Phase /\ task[t].pc # "idle" /\ C(t) \in Conv /\ task[t].snap \in SUBSET Task
  BY <1>1 DEF SaveHistory, At, Running, TaskOK, TaskState, C, Phase, InTurn, InRun, Ended, NotBegun
<1>3. TaskOK' /\ Moved(t, "cover") BY <1>1, <1>2, GotoMoves DEF SaveHistory
<1>4. RestOK' BY <1>1, <1>2 DEF SaveHistory, RestOK, locks, runs, asks, queues, session
<1>5. Safe'
  BY <1>2, <1>3, StaysInTurn DEF SaveHistory, At, Running, locks, runs, asks, session,
       Phase, InTurn, InRun, Ended, NotBegun
<1> QED BY <1>3, <1>4, <1>5, TypeJoin DEF IInv

(* one that has read the cursor, *)
LEMMA CoverageReadStep ==
  ASSUME IInv, NEW t \in Task, CoverageRead(t)
  PROVE  IInv'
<1> DEFINE r == [task[t] EXCEPT !.pc = "advance", !.cursor = coverage[C(t)]]
<1>1. TaskOK /\ RestOK BY TypeSplit DEF IInv
<1>2. task[t] \in TaskState /\ task[t].pc # "idle" /\ C(t) \in Conv
  BY <1>1 DEF CoverageRead, At, Running, TaskOK, C
<1>3. /\ r \in TaskState /\ r.pc = "advance" /\ r.conv = task[t].conv /\ r.kind = task[t].kind
      /\ r.answer = task[t].answer
  BY <1>1, <1>2 DEF TaskState, RestOK, C, Phase, InTurn, InRun, Ended, NotBegun
<1>4. task' = [task EXCEPT ![t] = r] BY DEF CoverageRead
<1>5. TaskOK' /\ Moved(t, "advance")
  <2> HIDE DEF r
  <2> QED BY <1>1, <1>2, <1>3, <1>4, Becomes DEF Moved, C
<1>6. RestOK' BY <1>1, <1>2 DEF CoverageRead, RestOK, locks, runs, memory, asks, queues, session
<1>7. Safe'
  BY <1>2, <1>5, StaysInTurn DEF CoverageRead, At, Running, locks, runs, asks, session,
       Phase, InTurn, InRun, Ended, NotBegun, Left
<1> QED BY <1>5, <1>6, <1>7, TypeJoin DEF IInv

(* and one that has advanced it. *)
LEMMA CoverageWriteStep ==
  ASSUME IInv, NEW t \in Task, CoverageWrite(t)
  PROVE  IInv'
<1>1. TaskOK /\ RestOK BY TypeSplit DEF IInv
<1>2. "exit" \in Phase /\ task[t].pc # "idle" /\ C(t) \in Conv /\ task[t].cursor \in SUBSET Task
  BY <1>1 DEF CoverageWrite, At, Running, TaskOK, TaskState, C, Phase, InTurn, InRun, Ended, NotBegun
<1>3. TaskOK' /\ Moved(t, "exit") BY <1>1, <1>2, GotoMoves DEF CoverageWrite
<1>4. RestOK' BY <1>1, <1>2 DEF CoverageWrite, RestOK, locks, runs, asks, queues, session
<1>5. Safe'
  BY <1>2, <1>3, StaysInTurn DEF CoverageWrite, At, Running, locks, runs, asks, session,
       Phase, InTurn, InRun, Ended, NotBegun
<1> QED BY <1>3, <1>4, <1>5, TypeJoin DEF IInv

(* A session cleanup ends outside any turn. *)
LEMMA ForgetSteeringStep ==
  ASSUME IInv, NEW t \in Task, ForgetSteering(t)
  PROVE  IInv'
<1>1. TaskOK /\ RestOK BY TypeSplit DEF IInv
<1>2. "done" \in Phase /\ task[t].pc # "idle" /\ C(t) \in Conv
  BY <1>1 DEF ForgetSteering, At, TaskOK, C, Phase, InTurn, InRun, Ended, NotBegun
<1>3. TaskOK' /\ Moved(t, "done") BY <1>1, <1>2, GotoMoves DEF ForgetSteering
<1>4. RestOK'
  <2>1. given' \in [Task -> SUBSET Task] BY <1>1 DEF ForgetSteering, RestOK
  <2> QED BY <1>1, <1>2, <2>1, BoundsOK DEF ForgetSteering, RestOK, locks, runs, memory, asks, session
<1>5. Safe'
  BY <1>2, <1>3, StaysOutside DEF ForgetSteering, At, locks, runs, asks, session, Phase,
       InTurn, InRun, Ended, NotBegun, Left, Later
<1> QED BY <1>3, <1>4, <1>5, TypeJoin DEF IInv

(* A bot that is turned away begins no turn, *)
LEMMA WakeTurnedStep ==
  ASSUME IInv, NEW t \in Task, NEW c \in Conv, WakeTurned(t, c)
  PROVE  IInv'
<1>1. TaskOK /\ RestOK BY TypeSplit DEF IInv
<1>2. Arrives(t, c, "wake", "done") /\ "wake" \in AllKinds /\ "done" \in Phase \ (InTurn \cup {"idle"})
  BY DEF WakeTurned, AllKinds, Phase, InTurn, InRun, Ended, NotBegun
<1>3. TaskOK' BY <1>1, <1>2, ArrivesMoves
<1>4. RestOK' BY <1>1, InterjectType DEF WakeTurned, RestOK, locks, runs, memory, asks, queues, session
<1>5. Safe' BY <1>2, ArrivesOutside DEF WakeTurned, locks, runs, asks, session, Later
<1> QED BY <1>3, <1>4, <1>5, TypeJoin DEF IInv


(* nor does a follow-up that is judged or queued first, *)
LEMMA FollowArrivesStep ==
  ASSUME IInv, NEW t \in Task, NEW c \in Conv, FollowArrives(t, c)
  PROVE  IInv'
<1>1. TaskOK /\ RestOK BY TypeSplit DEF IInv
<1>2. PICK p \in {"done", "relevance"} : Arrives(t, c, "followup", p)
  BY DEF FollowArrives
<1>3. "followup" \in AllKinds /\ p \in Phase \ (InTurn \cup {"idle"})
  BY DEF AllKinds, Phase, InTurn, InRun, Ended, NotBegun
<1>4. TaskOK' BY <1>1, <1>2, <1>3, ArrivesMoves
<1>5. RestOK'
  BY <1>1, InterjectType DEF FollowArrives, RestOK, locks, runs, memory, asks, queues, session
<1>6. Safe'
  BY <1>2, <1>3, ArrivesOutside DEF FollowArrives, locks, runs, asks, session, Later
<1> QED BY <1>4, <1>5, <1>6, TypeJoin DEF IInv

(* nor does a session cleanup. *)
LEMMA ForgetHistoryStep ==
  ASSUME IInv, NEW t \in Task, NEW c \in Conv, NEW k \in {"forget", "button"}, ForgetHistory(t, c, k)
  PROVE  IInv'
<1>1. TaskOK /\ RestOK BY TypeSplit DEF IInv
<1>2. PICK p \in {"done", "forget"} : Arrives(t, c, k, p)
  BY DEF ForgetHistory
<1>3. k \in AllKinds /\ p \in Phase \ (InTurn \cup {"idle"})
  BY DEF AllKinds, Phase, InTurn, InRun, Ended, NotBegun
<1>4. TaskOK' BY <1>1, <1>2, <1>3, ArrivesMoves
<1>5. RestOK'
  BY <1>1 DEF ForgetHistory, RestOK, locks, runs, memory, asks, queues, session
<1>6. Safe'
  BY <1>2, <1>3, ArrivesOutside DEF ForgetHistory, locks, runs, asks, session, Later
<1> QED BY <1>4, <1>5, <1>6, TypeJoin DEF IInv

(* Questions are safe from every step that neither asks nor answers. *)
LEMMA AskedStays ==
  ASSUME TaskOK, RestOK, AskedOnce, NEW t \in Task, Others(t),
         task'[t].answer = task[t].answer, task'[t].pc \notin {"idle", "asking"},
         task[t].pc # "idle" => task'[t].conv = task[t].conv,
         keyboards' = keyboards, \A c \in Conv : ask'[c] \in {ask[c], None}
  PROVE  AskedOnce'
<1>1. /\ None \notin Task /\ ask \in [Conv -> Task \cup {None}]
      /\ \A s \in Task : task'[s].answer = task[s].answer
  BY NamesOK DEF RestOK, Others
<1>2. \A s \in Task : task[s].pc \notin {"idle", "asking"} =>
         task'[s].pc \notin {"idle", "asking"} /\ task'[s].conv = task[s].conv
  BY DEF Others
<1>3. \A q \in Task : Unasked(q) => Unasked(q)'
  BY <1>1 DEF Unasked
<1>4. \A c \in Conv : ask'[c] # None =>
        /\ task'[ask'[c]].pc \notin {"idle", "asking"}
        /\ task'[ask'[c]].conv = c /\ ask'[c] \in keyboards'[c]
  <2> SUFFICES ASSUME NEW c \in Conv, ask'[c] # None
               PROVE  /\ task'[ask'[c]].pc \notin {"idle", "asking"}
                      /\ task'[ask'[c]].conv = c /\ ask'[c] \in keyboards'[c]
    OBVIOUS
  <2>1. ask'[c] = ask[c] /\ ask[c] \in Task BY <1>1
  <2>2. task[ask[c]].pc \notin {"idle", "asking"} /\ task[ask[c]].conv = c /\ ask[c] \in keyboards[c]
    BY <2>1 DEF AskedOnce, C
  <2> QED BY <1>2, <2>1, <2>2
<1>5. \A s \in Task : task'[s].pc = "asking" => s \in keyboards'[task'[s].conv] /\ Unasked(s)'
  BY <1>3 DEF AskedOnce, At, C, Others
<1>6. \A s \in Task : task'[s].answer # None =>
        /\ task'[task'[s].answer[2]].pc \notin {"idle", "asking"}
        /\ task'[s].answer[2] \in keyboards'[task'[task'[s].answer[2]].conv]
        /\ \A c \in Conv : ask'[c] # task'[s].answer[2]
  <2> SUFFICES ASSUME NEW s \in Task, NEW q, q = task[s].answer[2], task[s].answer # None
               PROVE  /\ task'[q].pc \notin {"idle", "asking"}
                      /\ q \in keyboards'[task'[q].conv] /\ Unasked(q)'
    BY <1>1 DEF Unasked
  <2>1. q \in Task BY AnswerFacts
  <2>2. task[q].pc \notin {"idle", "asking"} /\ q \in keyboards[task[q].conv] /\ Unasked(q)
    BY DEF AskedOnce, C
  <2> QED BY <1>2, <1>3, <2>1, <2>2
<1>7. AnsweredOnce' BY <1>1 DEF AskedOnce, AnsweredOnce
<1> QED BY <1>4, <1>5, <1>6, <1>7 DEF AskedOnce, C, At, Unasked

(* A wake that takes a lock of its bot takes it while nobody has it. *)
LEMMA WakeBusyStep ==
  ASSUME IInv, NEW t \in Task, NEW c \in Conv, WakeBusy(t, c)
  PROVE  IInv'
<1>1. TaskOK /\ RestOK /\ Safe BY TypeSplit DEF IInv
<1>2. Arrives(t, c, "wake", "done") /\ "wake" \in AllKinds /\ "done" \in Phase
  BY DEF WakeBusy, AllKinds, Phase
<1>3. /\ TaskOK' /\ Others(t) /\ task[t].pc = "idle" /\ task'[t].pc = "done"
      /\ task'[t].conv = c /\ task'[t].answer = task[t].answer /\ task'[t].kind = "wake"
  BY <1>1, <1>2, ArrivesMoves
<1>4. RestOK'
  BY <1>1, InterjectType, SpeakersOK
  DEF WakeBusy, TakeWakeLock, RestOK, runs, memory, asks, queues, session
<1>5. "done" \notin InTurn /\ "idle" \notin InRun \cup Left
  BY DEF InTurn, InRun, Ended, NotBegun, Left
<1>6. /\ convLock' = convLock /\ runTask' = runTask /\ ask' = ask /\ keyboards' = keyboards
      /\ wipe' = wipe /\ cancelled' = cancelled
  BY DEF WakeBusy, runs, asks, session
<1>7. TurnsOwn' BY <1>1, <1>3, <1>5, <1>6 DEF Safe, TurnsOwn, Others, C
<1>8. WakesOwn'
  BY <1>1, <1>3, <1>5, NamesOK, SpeakersOK
  DEF Safe, WakesOwn, Others, C, WakeBusy, WakeFree, TakeWakeLock, RestOK, TaskOK, Later
<1>9. RunsStarted' BY <1>1, <1>3, <1>5, <1>6 DEF Safe, RunsStarted, Others, RestOK, Left
<1>10. CancelledStarted' BY <1>1, <1>3, <1>5, <1>6 DEF Safe, CancelledStarted, Others, RestOK, Left
<1>11. AskedOnce' BY <1>1, <1>3, <1>6, AskedStays DEF Safe, RestOK
<1> QED BY <1>3, <1>4, <1>7, <1>8, <1>9, <1>10, <1>11, TypeJoin DEF IInv, Safe

(* The turn that begins owns its conversation, and its bot. *)
LEMMA WakeBeginStep ==
  ASSUME IInv, NEW t \in Task, NEW c \in Conv, WakeBegin(t, c)
  PROVE  IInv'
<1>1. TaskOK /\ RestOK /\ Safe BY TypeSplit DEF IInv
<1>2. Arrives(t, c, "wake", "prepare") /\ "wake" \in AllKinds /\ "prepare" \in Phase
  BY DEF WakeBegin, AllKinds, Phase, InTurn
<1>3. /\ TaskOK' /\ Others(t) /\ task[t].pc = "idle" /\ task'[t].pc = "prepare"
      /\ task'[t].conv = c /\ task'[t].answer = task[t].answer /\ task'[t].kind = "wake"
  BY <1>1, <1>2, ArrivesMoves
<1>4. RestOK'
  BY <1>1, SpeakersOK
  DEF WakeBegin, TakeWakeLock, RestOK, runs, memory, queues, session
<1>5. "idle" \notin InRun \cup Left
  BY DEF InTurn, InRun, Ended, NotBegun, Left
<1>6. /\ runTask' = runTask /\ ask' = [ask EXCEPT ![c] = None] /\ keyboards' = keyboards
      /\ wipe' = wipe /\ cancelled' = cancelled
      /\ convLock[c] = None /\ convLock' = [convLock EXCEPT ![c] = t]
  BY DEF WakeBegin, runs, session
<1>7. TurnsOwn'
  BY <1>1, <1>3, <1>6, NamesOK DEF Safe, TurnsOwn, Others, C, RestOK, TaskOK
<1>8. WakesOwn'
  BY <1>1, <1>3, NamesOK, SpeakersOK
  DEF Safe, WakesOwn, Others, C, WakeBegin, WakeFree, TakeWakeLock, RestOK, TaskOK, Later
<1>9. RunsStarted' BY <1>1, <1>3, <1>5, <1>6 DEF Safe, RunsStarted, Others, RestOK, Left
<1>10. CancelledStarted' BY <1>1, <1>3, <1>5, <1>6 DEF Safe, CancelledStarted, Others, RestOK, Left
<1>11. AskedOnce' BY <1>1, <1>3, <1>6, AskedStays DEF Safe, RestOK
<1> QED BY <1>3, <1>4, <1>7, <1>8, <1>9, <1>10, <1>11, TypeJoin DEF IInv, Safe

(* A run is registered by a handler that has not been cancelled. *)
LEMMA StartRunStep ==
  ASSUME IInv, NEW t \in Task, StartRun(t)
  PROVE  IInv'
<1>1. TaskOK /\ RestOK /\ Safe BY TypeSplit DEF IInv
<1>2. "start" \in Phase /\ task[t].pc = "compose" /\ C(t) \in Conv
  BY <1>1 DEF StartRun, At, TaskOK, C, Phase, InTurn, InRun, NotBegun
<1>3. TaskOK' /\ Moved(t, "start") BY <1>1, <1>2, GotoMoves DEF StartRun
<1>4. RestOK'
  BY <1>1, <1>2 DEF StartRun, RestOK, locks, memory, asks, session
<1>5. "start" \in InRun /\ "start" \in InTurn /\ "compose" \in InTurn /\ "compose" \notin InRun \cup Left
  BY DEF InTurn, InRun, Ended, NotBegun, Left
<1>6. /\ convLock' = convLock /\ wakeLock' = wakeLock /\ ask' = ask /\ keyboards' = keyboards
      /\ wipe' = wipe /\ cancelled' = cancelled /\ runTask' = [runTask EXCEPT ![C(t)] = t]
  BY DEF StartRun, locks, asks, session
<1>7. TurnsOwn' BY <1>1, <1>2, <1>3, <1>5, <1>6 DEF Safe, TurnsOwn, Moved, Others, C
<1>8. WakesOwn' BY <1>1, <1>2, <1>3, <1>5, <1>6 DEF Safe, WakesOwn, Moved, Others, C, Later
<1>9. RunsStarted'
  BY <1>1, <1>2, <1>3, <1>5, <1>6 DEF Safe, RunsStarted, Moved, Others, RestOK
<1>10. CancelledStarted'
  BY <1>1, <1>2, <1>3, <1>5, <1>6 DEF Safe, CancelledStarted, Moved, Others, RestOK, Left
<1>11. AskedOnce' BY <1>1, <1>2, <1>3, <1>6, AskedStays DEF Safe, Moved
<1> QED BY <1>3, <1>4, <1>7, <1>8, <1>9, <1>10, <1>11, TypeJoin DEF IInv, Safe

(* A handler past its arrival that finds the conversation free takes it. *)
LEMMA FollowBeginStep ==
  ASSUME IInv, NEW t \in Task, FollowBegin(t)
  PROVE  IInv'
<1>1. TaskOK /\ RestOK /\ Safe BY TypeSplit DEF IInv
<1>2. task[t].pc = "relevance" /\ C(t) \in Conv BY <1>1 DEF FollowBegin, At, TaskOK
<1>3. CASE convLock[C(t)] # None
  <2>1. /\ Goto(t, "done") /\ Interject(t, C(t))
        /\ UNCHANGED <<locks, runTask, activeRun, memory, asks, session>>
    BY <1>3 DEF FollowBegin, locks, runs
  <2>2. TaskOK' /\ Moved(t, "done") BY <1>1, <1>2, <2>1, GotoMoves DEF Phase
  <2>3. RestOK' BY <1>1, <1>2, <2>1, InterjectType DEF RestOK, locks, memory, asks, session
  <2>4. Safe' BY <1>2, <2>1, <2>2, StaysOutside DEF InTurn, InRun, Ended, NotBegun, Later
  <2> QED BY <2>2, <2>3, <2>4, TypeJoin DEF IInv
<1>4. CASE convLock[C(t)] = None
  <2>1. /\ Goto(t, "prepare") /\ convLock' = [convLock EXCEPT ![C(t)] = t] /\ wakeLock' = wakeLock
        /\ UNCHANGED <<runTask, activeRun, memory, asks, queues, session>>
    BY <1>4 DEF FollowBegin, runs
  <2>2. TaskOK' /\ Moved(t, "prepare") BY <1>1, <1>2, <2>1, GotoMoves DEF Phase, InTurn
  <2>3. RestOK' BY <1>1, <1>2, <2>1 DEF RestOK, memory, asks, queues, session
  <2>4. TurnsOwn' 
    BY <1>1, <1>2, <1>4, <2>1, <2>2, NamesOK
      DEF Safe, TurnsOwn, Moved, Others, C, RestOK, TaskOK, session
  <2>5. WakesOwn'
    BY <1>1, <1>2, <2>1, <2>2 DEF Safe, WakesOwn, Moved, Others, C, Later
  <2>6. RunsStarted' /\ CancelledStarted'
    BY <1>1, <1>2, <2>1, <2>2 DEF Safe, RunsStarted, CancelledStarted, Moved, Others, RestOK,
       session, Left, InRun, Ended, NotBegun
  <2>7. AskedOnce' BY <1>1, <2>1, <2>2, AskedStays DEF Safe, Moved, asks, RestOK
  <2> QED BY <2>2, <2>3, <2>4, <2>5, <2>6, <2>7, TypeJoin DEF IInv, Safe
<1> QED BY <1>3, <1>4

(* An answer that finds the conversation free takes it as well. *)
LEMMA AskBeginStep ==
  ASSUME IInv, NEW t \in Task, AskBegin(t)
  PROVE  IInv'
<1>1. TaskOK /\ RestOK /\ Safe BY TypeSplit DEF IInv
<1>2. task[t].pc = "askready" /\ C(t) \in Conv BY <1>1 DEF AskBegin, At, TaskOK
<1>3. CASE convLock[C(t)] # None
  <2>1. Goto(t, "dropped") /\ UNCHANGED <<locks, runs, memory, asks, queues, session>>
    BY <1>3 DEF AskBegin, locks, runs
  <2>2. TaskOK' /\ Moved(t, "dropped") BY <1>1, <1>2, <2>1, GotoMoves DEF Phase
  <2>3. RestOK' BY <1>1, <2>1 DEF RestOK, locks, runs, memory, asks, queues, session
  <2>4. Safe' BY <1>2, <2>1, <2>2, StaysOutside DEF Later, InTurn, InRun, Ended, NotBegun, runs
  <2> QED BY <2>2, <2>3, <2>4, TypeJoin DEF IInv
<1>4. CASE convLock[C(t)] = None
  <2>1. /\ Goto(t, "start") /\ convLock' = [convLock EXCEPT ![C(t)] = t] /\ wakeLock' = wakeLock
        /\ runTask' = [runTask EXCEPT ![C(t)] = t]
        /\ UNCHANGED <<activeRun, memory, asks, queues, session>>
    BY <1>4 DEF AskBegin
  <2>2. TaskOK' /\ Moved(t, "start") BY <1>1, <1>2, <2>1, GotoMoves DEF Phase, InTurn, InRun, NotBegun
  <2>3. RestOK' BY <1>1, <1>2, <2>1 DEF RestOK, memory, asks, queues, session
  <2>4. TurnsOwn'
    BY <1>1, <1>2, <1>4, <2>1, <2>2, NamesOK
      DEF Safe, TurnsOwn, Moved, Others, C, RestOK, TaskOK, session
  <2>5. WakesOwn'
    BY <1>1, <1>2, <2>1, <2>2 DEF Safe, WakesOwn, Moved, Others, C, Later
  <2>6. RunsStarted' /\ CancelledStarted'
    BY <1>1, <1>2, <2>1, <2>2 DEF Safe, RunsStarted, CancelledStarted, Moved, Others, RestOK,
       session, Left, InRun, Ended, NotBegun
  <2>7. AskedOnce' BY <1>1, <2>1, <2>2, AskedStays DEF Safe, Moved, asks, RestOK
  <2> QED BY <2>2, <2>3, <2>4, <2>5, <2>6, <2>7, TypeJoin DEF IInv, Safe
<1> QED BY <1>3, <1>4

(* The question a button answers is consumed: nobody else answers it.        *)
LEMMA ClickStep ==
  ASSUME IInv, NEW t \in Task, NEW c \in Conv, NEW q \in Task, Click(t, c, q)
  PROVE  IInv'
<1>1. TaskOK /\ RestOK /\ Safe BY TypeSplit DEF IInv
<1>2. CASE ask[c] = None
  <2>1. Arrives(t, c, "click", "expired") /\ UNCHANGED <<locks, runs, memory, asks, queues, session>>
    BY <1>2 DEF Click, asks
  <2>2. "click" \in AllKinds /\ "expired" \in Phase \ (InTurn \cup {"idle"})
    BY DEF AllKinds, Phase, InTurn, InRun, Ended, NotBegun
  <2>3. TaskOK' BY <1>1, <2>1, <2>2, ArrivesMoves
  <2>4. RestOK' BY <1>1, <2>1 DEF RestOK, locks, runs, memory, asks, queues, session
  <2>5. Safe' BY <2>1, <2>2, ArrivesOutside DEF Later, runs
  <2> QED BY <2>3, <2>4, <2>5, TypeJoin DEF IInv
<1>3. CASE ask[c] # None
  <2>0. PICK a \in Task : a = ask[c] BY <1>1, <1>3 DEF RestOK
  <2> DEFINE r == [task[t] EXCEPT !.conv = c, !.kind = "click", !.pc = "answered", !.answer = <<q, a>>]
  <2>1. /\ At(t, "idle") /\ ask' = [ask EXCEPT ![c] = None] /\ task' = [task EXCEPT ![t] = r]
        /\ UNCHANGED <<locks, runs, memory, keyboards, queues, session>>
    BY <1>1, <1>3, <2>0 DEF Click, TaskOK, TaskState
  <2>2. a \in Task /\ task[t] \in TaskState BY <1>1, <1>3 DEF RestOK, TaskOK
  <2>3. /\ r \in TaskState /\ r.pc = "answered" /\ r.conv = c /\ r.kind = "click"
        /\ r.answer = <<q, a>>
    BY <2>2 DEF TaskState, AllKinds
  <2>4. TaskOK' /\ task'[t] = r /\ Others(t)
    <3> HIDE DEF r
    <3> QED BY <1>1, <2>1, <2>3, Becomes
  <2> HIDE DEF r
  <2>5. RestOK' BY <1>1, <2>1 DEF RestOK, locks, runs, memory, queues, session
  <2>6. /\ task[t].pc = "idle" /\ task'[t].pc = "answered" /\ task'[t].kind = "click"
        /\ UNCHANGED <<convLock, wakeLock, runTask, wipe, cancelled, keyboards>>
    BY <2>1, <2>3, <2>4 DEF At, locks, runs, session
  <2>7. TurnsOwn' BY <1>1, <2>4, <2>6 DEF Safe, TurnsOwn, Others, C, InTurn, InRun, Ended, NotBegun
  <2>8. WakesOwn' BY <1>1, <2>4, <2>6 DEF Safe, WakesOwn, Others, C, InTurn, InRun, Ended, NotBegun
  <2>9. RunsStarted' /\ CancelledStarted'
    BY <1>1, <2>4, <2>6
      DEF Safe, RunsStarted, CancelledStarted, Others, RestOK, Left, InRun, Ended, NotBegun
  <2>10. task[a].pc \notin {"idle", "asking"} /\ C(a) = c /\ a \in keyboards[c]
    BY <1>1, <1>3, <2>0 DEF Safe, AskedOnce
  <2>11. \A s \in Task : Unasked(s) => Unasked(s)' /\ s # a
    BY <1>1, <2>0, <2>1, NamesOK DEF Unasked, RestOK
  <2>12. Unasked(a)'
    <3> SUFFICES ASSUME NEW d \in Conv, ask'[d] = a PROVE FALSE BY DEF Unasked
    <3>1. d # c /\ ask[d] = a BY <1>1, <2>1, <2>2, NamesOK DEF RestOK
    <3> QED BY <1>1, <2>10, <3>1, NamesOK DEF Safe, AskedOnce
  <2>13. \A s \in Task : s # t /\ task[s].answer # None =>
           /\ task[task[s].answer[2]].pc \notin {"idle", "asking"}
           /\ task[s].answer[2] \in keyboards[task[task[s].answer[2]].conv]
           /\ Unasked(task[s].answer[2]) /\ task[s].answer[2] \in Task
    BY <1>1, AnswerFacts DEF Safe, AskedOnce, C
  <2>14. /\ \A s \in Task \ {t} : task'[s] = task[s]
         /\ task'[t].answer[2] = a
         /\ \A s \in Task : task[s].pc \notin {"idle", "asking"} => s # t
    BY <2>3, <2>4, <2>6 DEF Others
  <2>15. \A d \in Conv : ask'[d] # None =>
           /\ task'[ask'[d]].pc \notin {"idle", "asking"}
           /\ task'[ask'[d]].conv = d /\ ask'[d] \in keyboards'[d]
    <3> SUFFICES ASSUME NEW d \in Conv, ask'[d] # None
                 PROVE  /\ task'[ask'[d]].pc \notin {"idle", "asking"}
                        /\ task'[ask'[d]].conv = d /\ ask'[d] \in keyboards'[d]
      OBVIOUS
    <3>1. ask'[d] = ask[d] /\ ask[d] \in Task BY <1>1, <2>1 DEF RestOK
    <3>2. task[ask[d]].pc \notin {"idle", "asking"} /\ C(ask[d]) = d /\ ask[d] \in keyboards[d]
      BY <1>1, <3>1 DEF Safe, AskedOnce
    <3> QED BY <2>6, <2>14, <3>1, <3>2 DEF C
  <2>16. \A s \in Task : task'[s].pc = "asking" => s \in keyboards'[task'[s].conv] /\ Unasked(s)'
    BY <1>1, <2>6, <2>11, <2>14 DEF Safe, AskedOnce, At, C
  <2>17. \A s \in Task : task'[s].answer # None =>
           /\ task'[task'[s].answer[2]].pc \notin {"idle", "asking"}
           /\ task'[s].answer[2] \in keyboards'[task'[task'[s].answer[2]].conv]
           /\ \A d \in Conv : ask'[d] # task'[s].answer[2]
    <3> SUFFICES ASSUME NEW s \in Task, task'[s].answer # None, NEW b, b = task'[s].answer[2]
                 PROVE  /\ task'[b].pc \notin {"idle", "asking"}
                        /\ b \in keyboards'[task'[b].conv] /\ Unasked(b)'
      BY DEF Unasked
    <3>1. CASE s = t
      BY <2>2, <2>6, <2>10, <2>12, <2>14, <3>1 DEF C
    <3>2. CASE s # t
      <4>1. /\ task[b].pc \notin {"idle", "asking"} /\ b \in keyboards[task[b].conv]
            /\ Unasked(b) /\ b \in Task
        BY <2>13, <2>14, <3>2
      <4> QED BY <2>6, <2>11, <2>14, <4>1
    <3> QED BY <3>1, <3>2
  <2>18. AnsweredOnce'
    <3> SUFFICES ASSUME NEW s \in Task, NEW u \in Task, task'[s].answer # None, task'[u].answer # None,
                        task'[s].answer[2] = task'[u].answer[2]
                 PROVE  s = u
      BY DEF AnsweredOnce
    <3>1. CASE s # t /\ u # t BY <1>1, <2>14, <3>1 DEF Safe, AskedOnce, AnsweredOnce
    <3>2. CASE s # t /\ u = t BY <2>11, <2>13, <2>14, <3>2
    <3>3. CASE s = t /\ u # t BY <2>11, <2>13, <2>14, <3>3
    <3> QED BY <3>1, <3>2, <3>3
  <2>19. AskedOnce' BY <2>15, <2>16, <2>17, <2>18 DEF AskedOnce, C, At, Unasked
  <2> QED BY <2>4, <2>5, <2>7, <2>8, <2>9, <2>19, TypeJoin DEF IInv, Safe
<1> QED BY <1>2, <1>3

(* The buttons are sent by a turn that has not asked before. *)
LEMMA SendQuestionStep ==
  ASSUME IInv, NEW t \in Task, SendQuestion(t)
  PROVE  IInv'
<1>1. TaskOK /\ RestOK /\ Safe BY TypeSplit DEF IInv
<1>2. task[t].pc = "request" /\ C(t) \in Conv /\ t \notin cancelled /\ t \notin keyboards[C(t)]
  BY <1>1 DEF SendQuestion, Running, At, TaskOK
<1>3. "asking" \in Phase /\ "asking" \in InTurn /\ "asking" \in InRun /\ "request" \in InRun
      /\ "request" \in InTurn /\ "asking" \notin Later
  BY DEF Phase, InTurn, InRun, Later
<1>4. TaskOK' /\ Moved(t, "asking") BY <1>1, <1>2, <1>3, GotoMoves DEF SendQuestion
<1>5. RestOK' BY <1>1, <1>2 DEF SendQuestion, RestOK, locks, runs, memory, queues, session
<1>6. UNCHANGED <<convLock, wakeLock, runTask, wipe, cancelled, ask>>
      /\ keyboards' = [keyboards EXCEPT ![C(t)] = @ \cup {t}]
  BY DEF SendQuestion, locks, runs, session
<1>7. TurnsOwn' BY <1>1, <1>2, <1>3, <1>4, <1>6 DEF Safe, TurnsOwn, Moved, Others, C
<1>8. WakesOwn' BY <1>1, <1>2, <1>3, <1>4, <1>6 DEF Safe, WakesOwn, Moved, Others, C
<1>9. RunsStarted' /\ CancelledStarted'
  BY <1>1, <1>2, <1>3, <1>4, <1>6 DEF Safe, RunsStarted, CancelledStarted, Moved, Others, RestOK
<1>10. \A d \in Conv : keyboards[d] \subseteq keyboards'[d]
  BY <1>1, <1>6 DEF RestOK
<1>11. t \in keyboards'[C(t)] /\ task'[t].conv = C(t)
  BY <1>1, <1>2, <1>4, <1>6 DEF RestOK, Moved, C
<1>12. Unasked(t)
  BY <1>1, <1>2, NamesOK DEF Safe, AskedOnce, Unasked
<1>13. \A s \in Task : task[s].answer # None => task[s].answer[2] \in Task /\ task[s].answer[2] # t
  BY <1>1, <1>2, AnswerFacts DEF Safe, AskedOnce
<1>14. \A d \in Conv : ask[d] # t BY <1>12 DEF Unasked
<1>15. /\ \A s \in Task : task'[s].answer = task[s].answer /\ task'[s].conv = task[s].conv
       /\ \A s \in Task : s # t => task'[s] = task[s]
  BY <1>4 DEF Moved, Others
<1>16. \A d \in Conv : ask'[d] # None =>
         /\ task'[ask'[d]].pc \notin {"idle", "asking"}
         /\ task'[ask'[d]].conv = d /\ ask'[d] \in keyboards'[d]
  BY <1>1, <1>6, <1>10, <1>14, <1>15 DEF Safe, AskedOnce, C, RestOK
<1>17. \A s \in Task : task'[s].pc = "asking" => s \in keyboards'[task'[s].conv] /\ Unasked(s)'
  BY <1>1, <1>6, <1>10, <1>11, <1>12, <1>15 DEF Safe, AskedOnce, At, C, Unasked, TaskOK
<1>18. \A s \in Task : task'[s].answer # None =>
         /\ task'[task'[s].answer[2]].pc \notin {"idle", "asking"}
         /\ task'[s].answer[2] \in keyboards'[task'[task'[s].answer[2]].conv]
         /\ \A d \in Conv : ask'[d] # task'[s].answer[2]
  <2> SUFFICES ASSUME NEW s \in Task, task[s].answer # None, NEW b \in Task, b = task[s].answer[2], b # t
               PROVE  /\ task'[b].pc \notin {"idle", "asking"}
                      /\ b \in keyboards'[task'[b].conv] /\ \A d \in Conv : ask[d] # b
    BY <1>6, <1>13, <1>15
  <2>1. task[b].pc \notin {"idle", "asking"} /\ b \in keyboards[C(b)] /\ Unasked(b)
    BY <1>1 DEF Safe, AskedOnce
  <2>2. C(b) \in Conv BY <1>1, <2>1 DEF TaskOK
  <2> QED BY <1>10, <1>15, <2>1, <2>2 DEF C, Unasked
<1>19. AnsweredOnce' BY <1>1, <1>15 DEF Safe, AskedOnce, AnsweredOnce
<1>20. AskedOnce' BY <1>16, <1>17, <1>18, <1>19 DEF AskedOnce, C, At, Unasked
<1> QED BY <1>4, <1>5, <1>7, <1>8, <1>9, <1>20, TypeJoin DEF IInv, Safe

(* The pending question is the one the turn has just asked. *)
LEMMA StoreQuestionStep ==
  ASSUME IInv, NEW t \in Task, StoreQuestion(t)
  PROVE  IInv'
<1>1. TaskOK /\ RestOK /\ Safe BY TypeSplit DEF IInv
<1>2. task[t].pc = "asking" /\ C(t) \in Conv /\ t \notin cancelled
  BY <1>1 DEF StoreQuestion, Running, At, TaskOK
<1>3. "request" \in Phase /\ "asking" \in InTurn /\ "asking" \in InRun /\ "request" \in InRun
      /\ "request" \in InTurn /\ "request" \notin Later
  BY DEF Phase, InTurn, InRun, Later
<1>4. TaskOK' /\ Moved(t, "request") BY <1>1, <1>2, <1>3, GotoMoves DEF StoreQuestion
<1>5. RestOK' BY <1>1, <1>2 DEF StoreQuestion, RestOK, locks, runs, memory, queues, session
<1>6. UNCHANGED <<convLock, wakeLock, runTask, wipe, cancelled, keyboards>>
      /\ ask' = [ask EXCEPT ![C(t)] = t]
  BY DEF StoreQuestion, locks, runs, session
<1>7. TurnsOwn' BY <1>1, <1>2, <1>3, <1>4, <1>6 DEF Safe, TurnsOwn, Moved, Others, C
<1>8. WakesOwn' BY <1>1, <1>2, <1>3, <1>4, <1>6 DEF Safe, WakesOwn, Moved, Others, C
<1>9. RunsStarted' /\ CancelledStarted'
  BY <1>1, <1>2, <1>3, <1>4, <1>6 DEF Safe, RunsStarted, CancelledStarted, Moved, Others, RestOK
<1>10. t \in keyboards[C(t)] /\ task'[t].conv = C(t) /\ task'[t].pc = "request"
  BY <1>1, <1>2, <1>4 DEF Safe, AskedOnce, At, Moved, C
<1>11. /\ \A s \in Task : task'[s].answer = task[s].answer /\ task'[s].conv = task[s].conv
       /\ \A s \in Task : s # t => task'[s] = task[s]
  BY <1>4 DEF Moved, Others
<1>12. \A s \in Task : s # t /\ Unasked(s) => \A d \in Conv : ask'[d] # s
  BY <1>1, <1>2, <1>6 DEF Unasked, RestOK
<1>13. \A d \in Conv : ask'[d] # None =>
         /\ task'[ask'[d]].pc \notin {"idle", "asking"}
         /\ task'[ask'[d]].conv = d /\ ask'[d] \in keyboards'[d]
  <2> SUFFICES ASSUME NEW d \in Conv, ask'[d] # None
               PROVE  /\ task'[ask'[d]].pc \notin {"idle", "asking"}
                      /\ task'[ask'[d]].conv = d /\ ask'[d] \in keyboards'[d]
    OBVIOUS
  <2>1. CASE d = C(t)
    <3>1. ask'[d] = t BY <1>1, <1>2, <1>6, <2>1 DEF RestOK
    <3> QED BY <1>6, <1>10, <2>1, <3>1
  <2>2. CASE d # C(t)
    <3>1. ask'[d] = ask[d] /\ ask[d] \in Task BY <1>1, <1>6, <2>2 DEF RestOK
    <3>2. task[ask[d]].pc \notin {"idle", "asking"} /\ C(ask[d]) = d /\ ask[d] \in keyboards[d]
      BY <1>1, <3>1 DEF Safe, AskedOnce
    <3> QED BY <1>2, <1>6, <1>11, <3>1, <3>2 DEF C
  <2> QED BY <2>1, <2>2
<1>14. \A s \in Task : task'[s].pc = "asking" =>
         s \in keyboards'[task'[s].conv] /\ \A d \in Conv : ask'[d] # s
  BY <1>1, <1>6, <1>10, <1>11, <1>12 DEF Safe, AskedOnce, At, C
<1>15. \A s \in Task : task'[s].answer # None =>
         /\ task'[task'[s].answer[2]].pc \notin {"idle", "asking"}
         /\ task'[s].answer[2] \in keyboards'[task'[task'[s].answer[2]].conv]
         /\ \A d \in Conv : ask'[d] # task'[s].answer[2]
  <2> SUFFICES ASSUME NEW s \in Task, task[s].answer # None, NEW b \in Task, b = task[s].answer[2]
               PROVE  /\ task'[b].pc \notin {"idle", "asking"}
                      /\ b \in keyboards'[task'[b].conv] /\ \A d \in Conv : ask'[d] # b
    BY <1>1, <1>11, AnswerFacts
  <2>1. task[b].pc \notin {"idle", "asking"} /\ b \in keyboards[C(b)] /\ Unasked(b)
    BY <1>1 DEF Safe, AskedOnce
  <2> QED BY <1>2, <1>6, <1>11, <1>12, <2>1 DEF C
<1>16. AnsweredOnce' BY <1>1, <1>11 DEF Safe, AskedOnce, AnsweredOnce
<1>17. AskedOnce' BY <1>13, <1>14, <1>15, <1>16 DEF AskedOnce, C, At, Unasked
<1> QED BY <1>4, <1>5, <1>7, <1>8, <1>9, <1>17, TypeJoin DEF IInv, Safe

(* The end of a run, whichever way it ends. *)
LEMMA RunLeavesStep ==
  ASSUME IInv, NEW t \in Task, RunFails(t) \/ ExitIter(t) \/ RunCancelled(t)
  PROVE  IInv'
<1>1. "exit" \in InRun BY DEF InRun, Ended
<1> QED BY <1>1, LeaveRunMoves DEF RunFails, ExitIter, RunCancelled, Running, At

(* A handler gives back what is its own, so nobody in a turn loses a lock.   *)
LEMMA ReleaseStep ==
  ASSUME IInv, NEW t \in Task, Release(t)
  PROVE  IInv'
<1>1. TaskOK /\ RestOK /\ Safe BY TypeSplit DEF IInv
<1>2. task[t].pc = "leave" /\ C(t) \in Conv /\ Speaker[C(t)] \in User
  BY <1>1, SpeakersOK DEF Release, At, TaskOK
<1>3. /\ "done" \in Phase \ InTurn /\ "done" \in Left /\ "leave" \in Left /\ "leave" \notin InRun
      /\ "done" \notin Later
  BY DEF Phase, InTurn, InRun, Ended, NotBegun, Left, Later
<1>4. TaskOK' /\ Moved(t, "done") BY <1>1, <1>2, <1>3, GotoMoves DEF Release
<1>5. RestOK'
  BY <1>1, <1>2 DEF Release, ReleaseConv, ReleaseWake, RestOK, memory, asks, queues, session
<1>6. /\ convLock' = [convLock EXCEPT ![C(t)] = IF @ = t THEN None ELSE @]
      /\ wakeLock' = [wakeLock EXCEPT ![Speaker[C(t)]] = IF @ = t THEN None ELSE @]
      /\ runTask' = [runTask EXCEPT ![C(t)] = IF @ = t THEN None ELSE @]
      /\ UNCHANGED <<ask, keyboards, wipe, cancelled>>
  BY DEF Release, ReleaseConv, ReleaseWake, asks, session
<1>7. \A s \in Task : task'[s].pc \in InTurn =>
         s # t /\ task[s].pc \in InTurn /\ C(s) \in Conv /\ task'[s] = task[s]
  BY <1>1, <1>3, <1>4 DEF Moved, Others, TaskOK, InTurn, InRun, Ended, NotBegun
<1>8. TurnsOwn' BY <1>1, <1>2, <1>6, <1>7 DEF Safe, TurnsOwn, RestOK, C
<1>9. \A u \in User : wakeLock[u] # t => wakeLock'[u] = wakeLock[u]
  BY <1>1, <1>2, <1>6 DEF RestOK
<1>10. WakesOwn'
  BY <1>1, <1>3, <1>4, <1>7, <1>9, SpeakersOK DEF Safe, WakesOwn, C, Moved, Others
<1>11. RunsStarted' /\ CancelledStarted'
  BY <1>1, <1>2, <1>3, <1>4, <1>6 DEF Safe, RunsStarted, CancelledStarted, Moved, Others, RestOK
<1>12. AskedOnce' BY <1>1, <1>4, <1>6, AskedStays DEF Safe, Moved, RestOK
<1> QED BY <1>4, <1>5, <1>8, <1>10, <1>11, <1>12, TypeJoin DEF IInv, Safe

(* A session cleanup drops the pending question of its conversation. *)
LEMMA ForgetCoverageStep ==
  ASSUME IInv, NEW t \in Task, ForgetCoverage(t)
  PROVE  IInv'
<1>1. TaskOK /\ RestOK /\ Safe BY TypeSplit DEF IInv
<1>2. task[t].pc = "forget" /\ C(t) \in Conv BY <1>1 DEF ForgetCoverage, At, TaskOK
<1>3. /\ "forgetting" \in Phase \ InTurn /\ "forgetting" \notin Later
      /\ "forget" \notin InRun \cup Left
  BY DEF Phase, InTurn, InRun, Ended, NotBegun, Left, Later
<1>4. TaskOK' /\ Moved(t, "forgetting") BY <1>1, <1>2, <1>3, GotoMoves DEF ForgetCoverage
<1>5. RestOK' BY <1>1, <1>2 DEF ForgetCoverage, RestOK, locks, runs, queues, session
<1>6. /\ ask' = [ask EXCEPT ![C(t)] = None]
      /\ UNCHANGED <<convLock, wakeLock, runTask, keyboards, wipe, cancelled>>
  BY DEF ForgetCoverage, locks, runs, session
<1>7. TurnsOwn' BY <1>1, <1>3, <1>4, <1>6 DEF Safe, TurnsOwn, Moved, Others, C
<1>8. WakesOwn' BY <1>1, <1>3, <1>4, <1>6 DEF Safe, WakesOwn, Moved, Others, C
<1>9. RunsStarted' /\ CancelledStarted'
  BY <1>1, <1>2, <1>3, <1>4, <1>6 DEF Safe, RunsStarted, CancelledStarted, Moved, Others, RestOK, Left
<1>10. AskedOnce' BY <1>1, <1>4, <1>6, AskedStays DEF Safe, Moved, RestOK
<1> QED BY <1>4, <1>5, <1>7, <1>8, <1>9, <1>10, TypeJoin DEF IInv, Safe

-----------------------------------------------------------------------------
(* /clear_sessions moves no handler. *)

(* What it cancels is in the registry, so it has started. *)
LEMMA WipeCancelsStep ==
  ASSUME IInv, WipeCancels
  PROVE  IInv'
<1>1. TaskOK /\ RestOK /\ Safe /\ None \notin Task BY TypeSplit, NamesOK DEF IInv
<1>2. TaskOK' BY <1>1 DEF WipeCancels, TaskOK, C
<1>3. RestOK' BY <1>1 DEF WipeCancels, RestOK, locks, runs, memory, asks, queues
<1>4. /\ wipe' = "cancel" /\ wipe = "idle" /\ cancelled' = {runTask[c] : c \in Conv} \ {None}
      /\ UNCHANGED <<task, convLock, wakeLock, runTask, ask, keyboards>>
  BY DEF WipeCancels, locks, runs, asks
<1>5. TurnsOwn' /\ WakesOwn' /\ RunsStarted'
  BY <1>1, <1>4 DEF Safe, TurnsOwn, WakesOwn, RunsStarted, C
<1>6. CancelledStarted' BY <1>1, <1>4 DEF Safe, RunsStarted, CancelledStarted
<1>7. AskedOnce' BY <1>1, <1>4 DEF Safe, AskedOnce, AnsweredOnce, Unasked, C, At
<1> QED BY <1>2, <1>3, <1>5, <1>6, <1>7, TypeJoin DEF IInv, Safe

(* It waits until those runs are over. *)
LEMMA WipeHistoriesStep ==
  ASSUME IInv, WipeHistories
  PROVE  IInv'
<1>1. TaskOK /\ RestOK /\ Safe BY TypeSplit DEF IInv
<1>2. TaskOK' BY <1>1 DEF WipeHistories, TaskOK, C
<1>3. RestOK' BY <1>1 DEF WipeHistories, RestOK, locks, runs, asks, queues
<1>4. /\ wipe' = "histories" /\ \A t \in cancelled : task[t].pc \notin InRun
      /\ UNCHANGED <<task, convLock, wakeLock, runTask, ask, keyboards, cancelled>> /\ wipe = "cancel"
  BY DEF WipeHistories, locks, runs, asks
<1>5. TurnsOwn' /\ WakesOwn' /\ RunsStarted'
  BY <1>1, <1>4 DEF Safe, TurnsOwn, WakesOwn, RunsStarted, C
<1>6. CancelledStarted' BY <1>1, <1>4 DEF Safe, CancelledStarted
<1>7. AskedOnce' BY <1>1, <1>4 DEF Safe, AskedOnce, AnsweredOnce, Unasked, C, At
<1> QED BY <1>2, <1>3, <1>5, <1>6, <1>7, TypeJoin DEF IInv, Safe

(* The cursors go next. *)
LEMMA WipeCoveragesStep ==
  ASSUME IInv, WipeCoverages
  PROVE  IInv'
<1>1. TaskOK /\ RestOK /\ Safe BY TypeSplit DEF IInv
<1>2. TaskOK' BY <1>1 DEF WipeCoverages, TaskOK, C
<1>3. RestOK' BY <1>1 DEF WipeCoverages, RestOK, locks, runs, asks, queues
<1>4. /\ wipe = "histories" /\ wipe' = "coverages"
      /\ UNCHANGED <<task, convLock, wakeLock, runTask, ask, keyboards, cancelled>>
  BY DEF WipeCoverages, locks, runs, asks
<1>5. TurnsOwn' /\ WakesOwn' /\ RunsStarted'
  BY <1>1, <1>4 DEF Safe, TurnsOwn, WakesOwn, RunsStarted, C
<1>6. CancelledStarted' BY <1>1, <1>4 DEF Safe, CancelledStarted
<1>7. AskedOnce' BY <1>1, <1>4 DEF Safe, AskedOnce, AnsweredOnce, Unasked, C, At
<1> QED BY <1>2, <1>3, <1>5, <1>6, <1>7, TypeJoin DEF IInv, Safe

(* The locks go last: turns own nothing from here on. *)
LEMMA WipeRestStep ==
  ASSUME IInv, WipeRest
  PROVE  IInv'
<1>1. TaskOK /\ RestOK /\ Safe BY TypeSplit DEF IInv
<1>2. TaskOK' BY <1>1 DEF WipeRest, TaskOK, C
<1>3. RestOK' BY <1>1, BoundsOK DEF WipeRest, RestOK, runs, memory
<1>4. /\ wipe = "coverages" /\ wipe' = "done" /\ ask' = [c \in Conv |-> None]
      /\ UNCHANGED <<task, wakeLock, runTask, keyboards, cancelled>>
  BY DEF WipeRest, runs
<1>5. TurnsOwn' /\ WakesOwn' /\ RunsStarted'
  BY <1>1, <1>4 DEF Safe, TurnsOwn, WakesOwn, RunsStarted, C
<1>6. CancelledStarted' BY <1>1, <1>4 DEF Safe, CancelledStarted
<1>7. AskedOnce'
  BY <1>1, <1>4, AnswerFacts, NamesOK DEF Safe, AskedOnce, AnsweredOnce, Unasked, C, At
<1> QED BY <1>2, <1>3, <1>5, <1>6, <1>7, TypeJoin DEF IInv, Safe

-----------------------------------------------------------------------------
(* The invariant, and what it says. *)

(* At first no handler has begun and nothing is registered. *)
THEOREM InitIInv == Init => IInv
<1> SUFFICES ASSUME Init PROVE IInv OBVIOUS
<1>1. TaskOK BY DEF Init, TaskOK, TaskState
<1>2. RestOK BY BoundsOK DEF Init, RestOK
<1>3. \A t \in Task : task[t].pc = "idle" /\ task[t].answer = None BY DEF Init
<1>4. "idle" \notin InTurn \cup Later BY DEF InTurn, InRun, Ended, NotBegun, Later
<1>5. TurnsOwn /\ WakesOwn BY <1>3, <1>4 DEF TurnsOwn, WakesOwn
<1>6. RunsStarted /\ CancelledStarted BY DEF Init, RunsStarted, CancelledStarted
<1>7. AskedOnce BY <1>3 DEF Init, AskedOnce, AnsweredOnce, At
<1> QED BY <1>1, <1>2, <1>5, <1>6, <1>7, TypeSplit DEF IInv, Safe

(* Every step of a handler and of /clear_sessions preserves the invariant. *)
THEOREM NextIInv == IInv /\ [Next]_vars => IInv'
<1> SUFFICES ASSUME IInv, [Next]_vars PROVE IInv' OBVIOUS
<1>1. ASSUME NEW t \in Task, NEW c \in Conv, Arrival(t, c) PROVE IInv'
  BY <1>1, WakeTurnedStep, WakeBusyStep, WakeBeginStep, FollowArrivesStep, ClickStep,
     ForgetHistoryStep DEF Arrival
<1>2. ASSUME NEW t \in Task, Continue(t) PROVE IInv'
  BY <1>2, ReadHistoryStep, ReadCoverageStep, StartRunStep, FollowBeginStep, AskReadsStep,
     AskBeginStep, BeginIterStep, StoreQuestionStep, RunEndsStep, SettleStep, SaveHistoryStep,
     CoverageReadStep, CoverageWriteStep, RunLeavesStep, ReleaseStep, ForgetCoverageStep,
     ForgetSteeringStep DEF Continue
<1>3. ASSUME NEW t \in Task,
             \/ TurnRefused(t) \/ FollowIrrelevant(t) \/ AskRefused(t) \/ MigrateHistory(t)
             \/ ModelRequest(t) \/ SendQuestion(t) \/ RunFails(t)
      PROVE IInv'
  BY <1>3, TurnRefusedStep, FollowIrrelevantStep, AskRefusedStep, MigrateHistoryStep,
     ModelRequestStep, SendQuestionStep, RunLeavesStep
<1>4. CASE WipeCancels \/ WipeHistories \/ WipeCoverages \/ WipeRest
  BY <1>4, WipeCancelsStep, WipeHistoriesStep, WipeCoveragesStep, WipeRestStep
<1>5. CASE UNCHANGED vars
  <2>1. TaskOK /\ RestOK /\ Safe BY TypeSplit DEF IInv
  <2>2. TaskOK' /\ RestOK'
    BY <1>5, <2>1 DEF vars, locks, runs, memory, asks, queues, session, TaskOK, RestOK, C
  <2>3. Safe'
    BY <1>5, <2>1 DEF vars, locks, runs, asks, session, Safe, TurnsOwn, WakesOwn, RunsStarted,
       CancelledStarted, AskedOnce, AnsweredOnce, Unasked, C, At
  <2> QED BY <2>2, <2>3, TypeJoin DEF IInv
<1> QED BY <1>1, <1>2, <1>3, <1>4, <1>5 DEF Next

(* The invariant holds throughout. *)
THEOREM Invariance == Spec => []IInv
BY InitIInv, NextIInv, PTL DEF Spec

(* Every registry names a handler and no queue outgrows its budget. *)
THEOREM TypeCorrect == Spec => []TypeOK
<1>1. IInv => TypeOK BY DEF IInv
<1> QED BY <1>1, Invariance, PTL

(* state.py:119: whichever of the entries started them, two turns of one     *)
(* conversation never overlap, as long as /clear_sessions has not dropped    *)
(* the locks that running turns hold.                                        *)
THEOREM TurnsExclude == Spec => [](wipe # "done" => OneTurnPerConversation)
<1>1. IInv => (wipe # "done" => OneTurnPerConversation)
  BY TypeSplit DEF IInv, Safe, TurnsOwn, OneTurnPerConversation, TaskOK
<1> QED BY <1>1, Invariance, PTL

(* Where nobody uses /clear_sessions no lock is dropped. *)
LEMMA NeverWiped == ASSUME MaxWipes = 0 PROVE Spec => [](wipe # "done")
<1>1. Init => wipe = "idle" BY DEF Init
<1>2. wipe = "idle" /\ [Next]_vars => (wipe = "idle")'
  <2> SUFFICES ASSUME wipe = "idle", [Next]_vars PROVE wipe' = wipe OBVIOUS
  <2>1. ~WipeCancels /\ ~WipeHistories /\ ~WipeCoverages /\ ~WipeRest
    BY DEF WipeCancels, WipeHistories, WipeCoverages, WipeRest
  <2>2. ASSUME NEW t \in Task, NEW c \in Conv, Arrival(t, c) PROVE wipe' = wipe
    BY <2>2 DEF Arrival, WakeTurned, WakeBusy, WakeBegin, FollowArrives, Click, ForgetHistory, session
  <2>3. ASSUME NEW t \in Task, Continue(t) PROVE wipe' = wipe
    BY <2>3 DEF Continue, ReadHistory, ReadCoverage, StartRun, FollowBegin, AskReads, AskBegin,
       BeginIter, StoreQuestion, RunEnds, Settle, SaveHistory, CoverageRead, CoverageWrite, ExitIter,
       RunCancelled, LeaveRun, Release, ForgetCoverage, ForgetSteering, session
  <2>4. ASSUME NEW t \in Task,
               \/ TurnRefused(t) \/ FollowIrrelevant(t) \/ AskRefused(t) \/ MigrateHistory(t)
               \/ ModelRequest(t) \/ SendQuestion(t) \/ RunFails(t)
        PROVE wipe' = wipe
    BY <2>4 DEF TurnRefused, FollowIrrelevant, AskRefused, MigrateHistory, ModelRequest, SendQuestion,
       RunFails, LeaveRun, session
  <2> QED BY <2>1, <2>2, <2>3, <2>4 DEF Next, vars, session
<1>3. wipe = "idle" => wipe # "done" OBVIOUS
<1> QED BY <1>1, <1>2, <1>3, PTL DEF Spec

(* There the exclusion is unconditional. *)
THEOREM OneTurn == ASSUME MaxWipes = 0 PROVE Spec => []OneTurnPerConversation
BY NeverWiped, TurnsExclude, PTL

(* What the invariant says of a bot's turns and of what was cancelled. *)
LEMMA SafeMeans == IInv => BotTurnsOneAtATime /\ CancelledRunsAreOver
<1>1. IInv => BotTurnsOneAtATime
  BY TypeSplit DEF IInv, Safe, WakesOwn, BotTurnsOneAtATime, TaskOK
<1>2. IInv => CancelledRunsAreOver
  BY DEF IInv, Safe, CancelledStarted, CancelledRunsAreOver, Left, InRun, Ended, NotBegun
<1> QED BY <1>1, <1>2

(* agent.py:1158: a bot is answered in one chat at a time, even after        *)
(* /clear_sessions: the wake locks are not among those it drops.             *)
THEOREM BotTurns == Spec => []BotTurnsOneAtATime
BY SafeMeans, Invariance, PTL

(* A question gets one answer, however often its buttons are pressed and     *)
(* whatever is forgotten meanwhile.                                          *)
THEOREM OneAnswer == Spec => []AnsweredOnce
<1>1. IInv => AnsweredOnce BY DEF IInv, Safe, AskedOnce
<1> QED BY <1>1, Invariance, PTL

(* agent.py:91: no run found in the registry outlives the deletion of the    *)
(* histories.                                                                *)
THEOREM CancelledOver == Spec => []CancelledRunsAreOver
BY SafeMeans, Invariance, PTL

----------------------------------------------------------------------------
(* What a conversation remembers, for every set of handlers and speakers,    *)
(* where turns are started by messages alone and sessions are cleared by     *)
(* /forget alone.  (The button that clears the history, /clear_sessions and  *)
(* the run of an answer write to a history they do not own.)                 *)


TalkOnly == Kinds \cap {"click", "button"} = {} /\ MaxWipes = 0

Talking == wipe = "idle" /\ \A t \in Task : task[t].pc \notin {"answered", "askready"}

(* What a turn has read is what is stored, but for the turn's own message:   *)
(* nobody else writes the history while the turn owns the conversation.      *)
SnapIsCurrent == \A t \in Task :
  /\ task[t].pc \in {"read", "compose", "start"} => history[C(t)] = task[t].snap
  /\ task[t].pc \in InRun => history[C(t)] \in {task[t].snap, task[t].snap \cup {t}}
  /\ task[t].pc \in {"cover", "advance", "exit"} => t \in history[C(t)]

(* A message is stored by its own turn, and erased after that turn is over.  *)
StoredByTurn == \A c \in Conv, t \in Task :
  /\ t \in history[c] => C(t) = c /\ task[t].pc \in InRun \cup Left
  /\ t \in erased[c] => C(t) = c /\ task[t].pc = "done"

(* The cursor runs ahead of no history. *)
CoveredIsStored ==
  /\ \A c \in Conv : coverage[c] \subseteq history[c] \cup erased[c]
  /\ \A t \in Task : At(t, "advance") => task[t].cursor \subseteq history[C(t)] \cup erased[C(t)]

HInv == Talking /\ CleanupIsFinal /\ SnapIsCurrent /\ StoredByTurn /\ CoveredIsStored
        /\ SkippedIsRemembered

-----------------------------------------------------------------------------
(* How the record of a handler moves, what it has read included. *)

Keeps(t, p) == /\ Others(t) /\ task'[t].pc = p
               /\ task'[t].snap = task[t].snap /\ task'[t].skip = task[t].skip
               /\ task'[t].cursor = task[t].cursor
               /\ task[t].pc # "idle" => task'[t].conv = task[t].conv

(* A handler that goes on keeps what it has read. *)
LEMMA GotoKeeps ==
  ASSUME TaskOK, NEW t \in Task, NEW p \in Phase, Goto(t, p)
  PROVE  Keeps(t, p) /\ task'[t].conv = task[t].conv
<1>1. task \in [Task -> TaskState] BY DEF TaskOK
<1>2. task'[t] = [task[t] EXCEPT !.pc = p] BY <1>1 DEF Goto
<1>3. Others(t) BY <1>1 DEF Goto, Others
<1> QED BY <1>1, <1>2, <1>3 DEF Keeps, TaskState

(* So does one that begins. *)
LEMMA ArrivesKeeps ==
  ASSUME TaskOK, NEW t \in Task, NEW c, NEW k, NEW p \in Phase, Arrives(t, c, k, p)
  PROVE  Keeps(t, p) /\ task'[t].conv = c /\ task[t].pc = "idle" /\ k \in Kinds
<1>1. task \in [Task -> TaskState] BY DEF TaskOK
<1>2. task'[t] = [task[t] EXCEPT !.conv = c, !.kind = k, !.pc = p] BY <1>1 DEF Arrives
<1>3. Others(t) BY <1>1 DEF Arrives, Others
<1> QED BY <1>1, <1>2, <1>3 DEF Keeps, TaskState, Arrives, At

(* The names of the phases a proof tells apart. *)
LEMMA Phases ==
  /\ InRun = {"start", "migrated", "begun", "request", "asking", "settle", "save", "cover",
              "advance", "exit"}
  /\ InTurn = InRun \cup {"prepare", "read", "compose", "leave"}
  /\ Left = {"leave", "done"}
BY DEF InTurn, InRun, Ended, NotBegun, Left

(* A step that touches no memory and reads none. *)
Quiet(t, p) ==
  /\ p \notin {"read", "compose", "cover", "advance", "exit", "answered", "askready"}
  /\ p = "start" => task[t].pc = "compose"
  /\ p \in InRun => task[t].pc \in InRun \cup {"compose"}
  /\ task[t].pc \in InRun \cup Left => p \in InRun \cup Left
  /\ task[t].pc = "done" => p = "done"

(* What such a step leaves behind. *)
LEMMA QuietStep ==
  ASSUME TypeOK, HInv, NEW t \in Task, NEW p, Keeps(t, p), Quiet(t, p), wipe' = "idle", UNCHANGED memory
  PROVE  HInv'
<1>1. TaskOK /\ RestOK BY TypeSplit
<1>2. history' = history /\ coverage' = coverage /\ erased' = erased BY DEF memory
<1>3. \A s \in Task : s # t => task'[s] = task[s] BY DEF Keeps, Others
<1>4. Talking' BY <1>3 DEF HInv, Talking, Keeps, Quiet
<1>5. CleanupIsFinal' BY <1>2 DEF HInv, CleanupIsFinal
<1>6. SnapIsCurrent' BY <1>2, <1>3, Phases DEF HInv, SnapIsCurrent, Keeps, Quiet, C
<1>7. StoredByTurn' BY <1>2, <1>3, Phases DEF HInv, StoredByTurn, Keeps, Quiet, C
<1>8. CoveredIsStored' BY <1>2, <1>3 DEF HInv, CoveredIsStored, Keeps, Quiet, At, C
<1>9. SkippedIsRemembered' BY <1>2, <1>3, Phases DEF HInv, SkippedIsRemembered, Keeps, Quiet, C
<1> QED BY <1>4, <1>5, <1>6, <1>7, <1>8, <1>9 DEF HInv

(* A turn is alone in its conversation. *)
LEMMA Alone ==
  ASSUME IInv, HInv, NEW t \in Task, task[t].pc \in InTurn
  PROVE  \A s \in Task : s # t /\ task[s].pc \in InTurn => C(s) # C(t)
BY TypeSplit DEF IInv, Safe, TurnsOwn, HInv, Talking, TaskOK

(* A run stores what it has read, with or without its own message. *)
LEMMA WriteStep ==
  ASSUME IInv, HInv, NEW t \in Task, NEW p \in {"migrated", "request", "cover"}, Keeps(t, p),
         task[t].pc \in InRun, NEW h, h \in {task[t].snap, task[t].snap \cup {t}},
         history[C(t)] \subseteq h, p = "cover" => t \in h,
         history' = [history EXCEPT ![C(t)] = h],
         UNCHANGED <<coverage, erased, wipe>>
  PROVE  HInv' /\ StoredTurnsKept
<1>1. TaskOK /\ RestOK BY TypeSplit DEF IInv
<1>2. C(t) \in Conv /\ task[t].pc # "idle" /\ task[t].pc \in InTurn
  BY <1>1, Phases DEF TaskOK
<1>3. \A s \in Task : s # t => task'[s] = task[s] BY DEF Keeps, Others
<1>4. task'[t].conv = task[t].conv /\ task'[t].pc = p /\ task'[t].snap = task[t].snap
      /\ task'[t].skip = task[t].skip
  BY <1>2 DEF Keeps
<1>5. /\ history'[C(t)] = h /\ \A d \in Conv : d # C(t) => history'[d] = history[d]
  BY <1>1, <1>2 DEF RestOK
<1>6. task[t].snap \subseteq history[C(t)] BY <1>2 DEF HInv, SnapIsCurrent
<1>7. h \subseteq history[C(t)] \cup {t} BY <1>6
<1>8. \A s \in Task : s # t /\ task[s].pc \in InTurn => C(s) # C(t) /\ C(s) \in Conv
  BY <1>1, <1>2, Alone, Phases DEF TaskOK
<1>9. \A d \in Conv : history[d] \subseteq history'[d] BY <1>5
<1>10. Talking' BY <1>3, <1>4 DEF HInv, Talking
<1>11. t \notin erased[C(t)]
  <2>1. task[t].pc # "done" BY Phases
  <2> QED BY <1>2, <2>1 DEF HInv, StoredByTurn
<1>12. CleanupIsFinal' BY <1>5, <1>7, <1>11 DEF HInv, CleanupIsFinal
<1>13. SnapIsCurrent'
  <2> SUFFICES ASSUME NEW s \in Task
               PROVE  /\ task'[s].pc \in {"read", "compose", "start"} => history'[task'[s].conv] = task'[s].snap
                      /\ task'[s].pc \in InRun =>
                           history'[task'[s].conv] \in {task'[s].snap, task'[s].snap \cup {s}}
                      /\ task'[s].pc \in {"cover", "advance", "exit"} => s \in history'[task'[s].conv]
    BY DEF SnapIsCurrent, C
  <2>1. CASE s = t BY <1>4, <1>5, <2>1 DEF C
  <2>2. CASE s # t BY <1>3, <1>5, <1>8, <2>2, Phases DEF HInv, SnapIsCurrent, C
  <2> QED BY <2>1, <2>2
<1>14. StoredByTurn'
  <2>1. \A d \in Conv, s \in Task : s \in history'[d] =>
          task'[s].conv = d /\ task'[s].pc \in InRun \cup Left
    BY <1>3, <1>4, <1>5, <1>7, Phases DEF HInv, StoredByTurn, C
  <2>2. \A d \in Conv, s \in Task : s \in erased[d] => s # t
    BY Phases DEF HInv, StoredByTurn
  <2> QED BY <1>3, <2>1, <2>2 DEF HInv, StoredByTurn, C
<1>15. CoveredIsStored'
  <2>1. \A s \in Task : task'[s].pc = "advance" => s # t /\ task'[s] = task[s] /\ C(s) \in Conv
    BY <1>1, <1>3, <1>4 DEF TaskOK
  <2> QED BY <1>9, <2>1 DEF HInv, CoveredIsStored, At, C
<1>16. SkippedIsRemembered'
  BY <1>2, <1>3, <1>4, Phases DEF HInv, SkippedIsRemembered, C
<1>17. StoredTurnsKept BY <1>9 DEF StoredTurnsKept
<1> QED BY <1>10, <1>12, <1>13, <1>14, <1>15, <1>16, <1>17 DEF HInv

(* The three writes of a run. *)
LEMMA StoreSteps ==
  ASSUME IInv, HInv, NEW t \in Task, MigrateHistory(t) \/ ModelRequest(t) \/ SaveHistory(t)
  PROVE  HInv' /\ StoredTurnsKept
<1>1. TaskOK BY TypeSplit DEF IInv
<1>2. wipe' = wipe /\ coverage' = coverage /\ erased' = erased
  BY DEF MigrateHistory, ModelRequest, SaveHistory, session
<1>3. CASE MigrateHistory(t)
  <2>1. task[t].pc = "start" /\ history' = [history EXCEPT ![C(t)] = task[t].snap]
    BY <1>3 DEF MigrateHistory, Running, At
  <2>2. Keeps(t, "migrated") BY <1>1, <1>3, GotoKeeps DEF MigrateHistory, Phase, InTurn, InRun, NotBegun
  <2>3. history[C(t)] = task[t].snap BY <2>1 DEF HInv, SnapIsCurrent
  <2> QED BY <1>2, <2>1, <2>2, <2>3, WriteStep, Phases
<1>4. CASE ModelRequest(t)
  <2>1. task[t].pc \in InRun /\ history' = [history EXCEPT ![C(t)] = task[t].snap \cup {t}]
    BY <1>4, Phases DEF ModelRequest, Running, At
  <2>2. Keeps(t, "request") BY <1>1, <1>4, GotoKeeps DEF ModelRequest, Phase, InTurn, InRun
  <2>3. history[C(t)] \subseteq task[t].snap \cup {t} BY <2>1 DEF HInv, SnapIsCurrent
  <2> QED BY <1>2, <2>1, <2>2, <2>3, WriteStep
<1>5. CASE SaveHistory(t)
  <2>1. task[t].pc \in InRun /\ history' = [history EXCEPT ![C(t)] = task[t].snap \cup {t}]
    BY <1>5, Phases DEF SaveHistory, Running, At
  <2>2. Keeps(t, "cover") BY <1>1, <1>5, GotoKeeps DEF SaveHistory, Phase, InTurn, InRun, Ended
  <2>3. history[C(t)] \subseteq task[t].snap \cup {t} BY <2>1 DEF HInv, SnapIsCurrent
  <2> QED BY <1>2, <2>1, <2>2, <2>3, WriteStep
<1> QED BY <1>3, <1>4, <1>5

(* A step that only reads: its handler owns the conversation and takes note  *)
(* of what is stored.                                                        *)
LEMMA ReadStep ==
  ASSUME IInv, HInv, NEW t \in Task, ReadHistory(t) \/ ReadCoverage(t) \/ CoverageRead(t)
  PROVE  HInv'
<1>1. TaskOK /\ RestOK BY TypeSplit DEF IInv
<1>2. /\ task \in [Task -> TaskState] /\ C(t) \in Conv /\ task[t].pc \notin {"done", "idle"}
  BY <1>1 DEF TaskOK, ReadHistory, ReadCoverage, CoverageRead, Running, At
<1>3. history' = history /\ coverage' = coverage /\ erased' = erased /\ wipe' = wipe
  BY DEF ReadHistory, ReadCoverage, CoverageRead, memory, session
<1>4. /\ \A s \in Task : s # t => task'[s] = task[s]
      /\ task'[t].conv = task[t].conv
  BY <1>2 DEF ReadHistory, ReadCoverage, CoverageRead, TaskState
<1>5. CleanupIsFinal' BY <1>3 DEF HInv, CleanupIsFinal
<1>6. CASE ReadHistory(t)
  <2>1. /\ task[t].pc = "prepare" /\ task'[t].pc = "read" /\ task'[t].snap = history[C(t)]
        /\ task'[t].skip = task[t].skip
    BY <1>2, <1>6 DEF ReadHistory, At, TaskState
  <2>2. Talking' BY <1>3, <1>4, <2>1 DEF HInv, Talking
  <2>3. SnapIsCurrent' BY <1>3, <1>4, <2>1, Phases DEF HInv, SnapIsCurrent, C
  <2>4. StoredByTurn' BY <1>3, <1>4, <2>1, Phases DEF HInv, StoredByTurn, C
  <2>5. CoveredIsStored' BY <1>3, <1>4, <2>1 DEF HInv, CoveredIsStored, At, C
  <2>6. SkippedIsRemembered' BY <1>3, <1>4, <2>1, Phases DEF HInv, SkippedIsRemembered, C
  <2> QED BY <1>5, <2>2, <2>3, <2>4, <2>5, <2>6 DEF HInv
<1>7. CASE ReadCoverage(t)
  <2>1. /\ task[t].pc = "read" /\ task'[t].pc = "compose" /\ task'[t].snap = task[t].snap
        /\ task'[t].skip \in {coverage[C(t)], {}}
    BY <1>2, <1>7 DEF ReadCoverage, At, TaskState
  <2>2. Talking' BY <1>3, <1>4, <2>1 DEF HInv, Talking
  <2>3. SnapIsCurrent' BY <1>3, <1>4, <2>1, Phases DEF HInv, SnapIsCurrent, C
  <2>4. StoredByTurn' BY <1>3, <1>4, <2>1, Phases DEF HInv, StoredByTurn, C
  <2>5. CoveredIsStored' BY <1>3, <1>4, <2>1 DEF HInv, CoveredIsStored, At, C
  <2>6. task'[t].skip \subseteq task'[t].snap \cup erased[C(t)]
    BY <1>2, <2>1 DEF HInv, CoveredIsStored, SnapIsCurrent
  <2>7. SkippedIsRemembered' BY <1>3, <1>4, <2>1, <2>6, Phases DEF HInv, SkippedIsRemembered, C
  <2> QED BY <1>5, <2>2, <2>3, <2>4, <2>5, <2>7 DEF HInv
<1>8. CASE CoverageRead(t)
  <2>1. /\ task[t].pc = "cover" /\ task'[t].pc = "advance" /\ task'[t].snap = task[t].snap
        /\ task'[t].skip = task[t].skip /\ task'[t].cursor = coverage[C(t)]
    BY <1>2, <1>8 DEF CoverageRead, Running, At, TaskState
  <2>2. Talking' BY <1>3, <1>4, <2>1 DEF HInv, Talking
  <2>3. SnapIsCurrent' BY <1>3, <1>4, <2>1, Phases DEF HInv, SnapIsCurrent, C
  <2>4. StoredByTurn' BY <1>3, <1>4, <2>1, Phases DEF HInv, StoredByTurn, C
  <2>5. CoveredIsStored' BY <1>2, <1>3, <1>4, <2>1 DEF HInv, CoveredIsStored, At, C
  <2>6. SkippedIsRemembered' BY <1>3, <1>4, <2>1, Phases DEF HInv, SkippedIsRemembered, C
  <2> QED BY <1>5, <2>2, <2>3, <2>4, <2>5, <2>6 DEF HInv
<1> QED BY <1>6, <1>7, <1>8

(* What the cursor is advanced by is stored by then. *)
LEMMA CoverStep ==
  ASSUME IInv, HInv, NEW t \in Task, CoverageWrite(t)
  PROVE  HInv'
<1>1. TaskOK /\ RestOK BY TypeSplit DEF IInv
<1>2. task[t].pc = "advance" /\ C(t) \in Conv BY <1>1 DEF CoverageWrite, Running, At, TaskOK
<1>3. Keeps(t, "exit") /\ task'[t].conv = task[t].conv
  BY <1>1, GotoKeeps DEF CoverageWrite, Phase, InTurn, InRun, Ended
<1>4. history' = history /\ erased' = erased /\ wipe' = wipe
      /\ coverage' = [coverage EXCEPT ![C(t)] = task[t].cursor \cup {t}]
  BY DEF CoverageWrite, session
<1>5. \A s \in Task : s # t => task'[s] = task[s] BY <1>3 DEF Keeps, Others
<1>6. task'[t].pc = "exit" /\ task'[t].snap = task[t].snap /\ task'[t].skip = task[t].skip
  BY <1>3 DEF Keeps
<1>7. Talking' BY <1>4, <1>5, <1>6 DEF HInv, Talking
<1>8. CleanupIsFinal' BY <1>4 DEF HInv, CleanupIsFinal
<1>9. SnapIsCurrent' BY <1>2, <1>3, <1>4, <1>5, <1>6, Phases DEF HInv, SnapIsCurrent, C
<1>10. StoredByTurn' BY <1>2, <1>3, <1>4, <1>5, <1>6, Phases DEF HInv, StoredByTurn, C
<1>11. CoveredIsStored'
  <2>1. task[t].cursor \cup {t} \subseteq history[C(t)] \cup erased[C(t)]
    BY <1>2 DEF HInv, CoveredIsStored, SnapIsCurrent, At
  <2>2. \A d \in Conv : coverage'[d] \subseteq history[d] \cup erased[d]
    BY <1>1, <1>2, <1>4, <2>1 DEF HInv, CoveredIsStored, RestOK
  <2> QED BY <1>4, <1>5, <1>6, <2>2 DEF HInv, CoveredIsStored, At, C
<1>12. SkippedIsRemembered' BY <1>2, <1>3, <1>4, <1>5, <1>6, Phases DEF HInv, SkippedIsRemembered, C
<1> QED BY <1>7, <1>8, <1>9, <1>10, <1>11, <1>12 DEF HInv

(* /forget erases a history nobody owns: the turns that stored it are over.  *)
LEMMA ForgetStep ==
  ASSUME IInv, HInv, NEW t \in Task, NEW c \in Conv, convLock[c] = None, ForgetHistory(t, c, "forget")
  PROVE  HInv' /\ StoredTurnsKept
<1>1. TaskOK /\ RestOK /\ None \notin Task BY TypeSplit, NamesOK DEF IInv
<1>2. /\ Arrives(t, c, "forget", "forget") /\ history' = [history EXCEPT ![c] = {}]
      /\ erased' = [erased EXCEPT ![c] = @ \cup history[c]]
      /\ coverage' = coverage /\ wipe' = wipe
  BY DEF ForgetHistory, session
<1>3. Keeps(t, "forget") /\ task'[t].conv = c /\ task[t].pc = "idle"
  BY <1>1, <1>2, ArrivesKeeps DEF Phase
<1>4. \A s \in Task : s # t => task'[s] = task[s] BY <1>3 DEF Keeps, Others
<1>5. task'[t].pc = "forget" BY <1>3 DEF Keeps
<1>6. \A s \in Task : task[s].pc \in InTurn => C(s) # c /\ C(s) \in Conv
  BY <1>1, Phases DEF IInv, Safe, TurnsOwn, HInv, Talking, TaskOK
<1>7. \A s \in Task : s \in history[c] => C(s) = c /\ task[s].pc = "done"
  BY <1>6, Phases DEF HInv, StoredByTurn
<1>8. /\ history'[c] = {} /\ erased'[c] = erased[c] \cup history[c]
      /\ \A d \in Conv : d # c => history'[d] = history[d] /\ erased'[d] = erased[d]
  BY <1>1, <1>2 DEF RestOK
<1>9. \A d \in Conv : history'[d] \cup erased'[d] = history[d] \cup erased[d]
  BY <1>8
<1>10. Talking' BY <1>2, <1>4, <1>5 DEF HInv, Talking
<1>11. CleanupIsFinal' BY <1>8 DEF HInv, CleanupIsFinal
<1>12. SnapIsCurrent' BY <1>4, <1>5, <1>6, <1>8, Phases DEF HInv, SnapIsCurrent, C
<1>13. StoredByTurn'
  <2>1. \A d \in Conv, s \in Task : (s \in history[d] \/ s \in erased[d]) => s # t
    BY <1>3, Phases DEF HInv, StoredByTurn
  <2>2. \A d \in Conv, s \in Task : s \in history'[d] => s \in history[d]
    BY <1>8
  <2>3. \A d \in Conv, s \in Task : s \in erased'[d] => s \in erased[d] \/ (d = c /\ s \in history[c])
    <3>1. \A s \in Task : s \in erased'[c] => s \in erased[c] \/ s \in history[c] BY <1>8
    <3> QED BY <1>8, <3>1
  <2> QED BY <1>4, <1>7, <2>1, <2>2, <2>3 DEF HInv, StoredByTurn, C
<1>14. CoveredIsStored'
  <2>1. \A s \in Task : task'[s].pc = "advance" => s # t /\ task'[s] = task[s] /\ C(s) \in Conv
    BY <1>1, <1>4, <1>5 DEF TaskOK
  <2>2. \A d \in Conv : coverage'[d] \subseteq history'[d] \cup erased'[d]
    BY <1>2, <1>9 DEF HInv, CoveredIsStored
  <2> QED BY <1>9, <2>1, <2>2 DEF HInv, CoveredIsStored, At, C
<1>15. SkippedIsRemembered'
  <2>1. \A s \in Task : task'[s].pc \in {"compose"} \cup InRun =>
          s # t /\ task'[s] = task[s] /\ C(s) # c /\ C(s) \in Conv
    BY <1>4, <1>5, <1>6, Phases
  <2> QED BY <1>8, <2>1 DEF HInv, SkippedIsRemembered, C
<1>16. StoredTurnsKept BY <1>8 DEF StoredTurnsKept
<1> QED BY <1>10, <1>11, <1>12, <1>13, <1>14, <1>15, <1>16 DEF HInv

(* The cursor is dropped after the history, when a new turn may have begun:  *)
(* what that turn leaves out is in what it read, or erased.                  *)
LEMMA ForgetCoverStep ==
  ASSUME IInv, HInv, NEW t \in Task, ForgetCoverage(t)
  PROVE  HInv'
<1>1. TaskOK /\ RestOK BY TypeSplit DEF IInv
<1>2. task[t].pc = "forget" /\ C(t) \in Conv BY <1>1 DEF ForgetCoverage, At, TaskOK
<1>3. Keeps(t, "forgetting") /\ task'[t].conv = task[t].conv
  BY <1>1, GotoKeeps DEF ForgetCoverage, Phase
<1>4. history' = history /\ erased' = erased /\ wipe' = wipe
      /\ coverage' = [coverage EXCEPT ![C(t)] = {}]
  BY DEF ForgetCoverage, session
<1>5. \A s \in Task : s # t => task'[s] = task[s] BY <1>3 DEF Keeps, Others
<1>6. task'[t].pc = "forgetting" BY <1>3 DEF Keeps
<1>7. Talking' BY <1>4, <1>5, <1>6 DEF HInv, Talking
<1>8. CleanupIsFinal' BY <1>4 DEF HInv, CleanupIsFinal
<1>9. SnapIsCurrent' BY <1>4, <1>5, <1>6, Phases DEF HInv, SnapIsCurrent, C
<1>10. StoredByTurn' BY <1>2, <1>4, <1>5, Phases DEF HInv, StoredByTurn, C
<1>11. CoveredIsStored'
  <2>1. \A d \in Conv : coverage'[d] \subseteq history[d] \cup erased[d]
    BY <1>1, <1>2, <1>4 DEF HInv, CoveredIsStored, RestOK
  <2> QED BY <1>4, <1>5, <1>6, <2>1 DEF HInv, CoveredIsStored, At, C
<1>12. SkippedIsRemembered' BY <1>4, <1>5, <1>6, Phases DEF HInv, SkippedIsRemembered, C
<1> QED BY <1>7, <1>8, <1>9, <1>10, <1>11, <1>12 DEF HInv

-----------------------------------------------------------------------------
(* Every step. *)

(* No arrival but /forget touches a memory. *)
LEMMA ArrivalStep ==
  ASSUME TalkOnly, IInv, HInv, NEW t \in Task, NEW c \in Conv, Arrival(t, c)
  PROVE  HInv' /\ StoredTurnsKept
<1>1. TaskOK /\ TypeOK /\ RestOK /\ wipe = "idle" BY TypeSplit DEF IInv, HInv, Talking
<1>2. ASSUME NEW p \in {"done", "relevance", "prepare"}, NEW k, Arrives(t, c, k, p),
             UNCHANGED memory, wipe' = wipe
      PROVE  HInv' /\ StoredTurnsKept
  <2>1. p \in Phase BY DEF Phase, InTurn
  <2>2. Keeps(t, p) /\ task[t].pc = "idle" BY <1>1, <1>2, <2>1, ArrivesKeeps
  <2>3. Quiet(t, p) BY <2>2, Phases DEF Quiet
  <2>4. StoredTurnsKept BY <1>2 DEF StoredTurnsKept, memory
  <2> QED BY <1>1, <1>2, <2>2, <2>3, <2>4, QuietStep
<1>3. CASE WakeTurned(t, c) BY <1>2, <1>3 DEF WakeTurned, session
<1>4. CASE WakeBusy(t, c) BY <1>2, <1>4 DEF WakeBusy, session
<1>5. CASE WakeBegin(t, c) BY <1>2, <1>5 DEF WakeBegin, session
<1>6. CASE FollowArrives(t, c) BY <1>2, <1>6 DEF FollowArrives, session
<1>7. ASSUME NEW q \in Task, Click(t, c, q) PROVE FALSE
  BY <1>7 DEF Click, Arrives, TalkOnly
<1>8. ASSUME NEW k \in {"forget", "button"}, ForgetHistory(t, c, k) PROVE HInv' /\ StoredTurnsKept
  <2>1. k = "forget" BY <1>8 DEF ForgetHistory, Arrives, TalkOnly
  <2>2. CASE convLock[c] = None BY <1>8, <2>1, <2>2, ForgetStep
  <2>3. CASE convLock[c] # None
    BY <1>2, <1>8, <2>1, <2>3 DEF ForgetHistory, session
  <2> QED BY <2>2, <2>3
<1> QED BY <1>3, <1>4, <1>5, <1>6, <1>7, <1>8 DEF Arrival

(* The steps of a handler that leave the memory alone. *)
LEMMA QuietSteps ==
  ASSUME IInv, HInv, NEW t \in Task,
         \/ TurnRefused(t) \/ FollowIrrelevant(t) \/ StartRun(t) \/ FollowBegin(t) \/ BeginIter(t)
         \/ SendQuestion(t) \/ StoreQuestion(t) \/ RunEnds(t) \/ Settle(t) \/ RunFails(t)
         \/ ExitIter(t) \/ RunCancelled(t) \/ Release(t) \/ ForgetSteering(t)
  PROVE  HInv' /\ StoredTurnsKept
<1>1. TaskOK /\ TypeOK /\ wipe = "idle" BY TypeSplit DEF IInv, HInv, Talking
<1>2. UNCHANGED memory /\ wipe' = wipe
  BY DEF TurnRefused, FollowIrrelevant, StartRun, FollowBegin, BeginIter, SendQuestion, StoreQuestion,
     RunEnds, Settle, RunFails, ExitIter, RunCancelled, LeaveRun, Release, ForgetSteering, session
<1>3. StoredTurnsKept BY <1>2 DEF StoredTurnsKept, memory
<1>4. ASSUME NEW p \in Phase, Goto(t, p), Quiet(t, p) PROVE HInv' /\ StoredTurnsKept
  BY <1>1, <1>2, <1>3, <1>4, GotoKeeps, QuietStep
<1>5. {"leave", "done", "start", "prepare", "begun", "asking", "request", "settle", "save"} \subseteq Phase
  BY DEF Phase, InTurn, InRun, Ended, NotBegun
<1>6. CASE TurnRefused(t) BY <1>4, <1>5, <1>6, Phases DEF TurnRefused, Quiet
<1>7. CASE FollowIrrelevant(t) BY <1>4, <1>5, <1>7, Phases DEF FollowIrrelevant, At, Quiet
<1>8. CASE StartRun(t) BY <1>4, <1>5, <1>8, Phases DEF StartRun, At, Quiet
<1>9. CASE FollowBegin(t) BY <1>4, <1>5, <1>9, Phases DEF FollowBegin, At, Quiet
<1>10. CASE BeginIter(t) BY <1>4, <1>5, <1>10, Phases DEF BeginIter, NotBegun, Quiet
<1>11. CASE SendQuestion(t) \/ StoreQuestion(t)
  BY <1>4, <1>5, <1>11, Phases DEF SendQuestion, StoreQuestion, Running, At, Quiet
<1>12. CASE RunEnds(t) \/ Settle(t)
  BY <1>4, <1>5, <1>12, Phases DEF RunEnds, Settle, Running, At, Quiet
<1>13. CASE RunFails(t) \/ ExitIter(t) \/ RunCancelled(t)
  BY <1>4, <1>5, <1>13, Phases DEF RunFails, ExitIter, RunCancelled, LeaveRun, Running, At, Quiet
<1>14. CASE Release(t) BY <1>4, <1>5, <1>14, Phases DEF Release, At, Quiet
<1>15. CASE ForgetSteering(t) BY <1>4, <1>5, <1>15, Phases DEF ForgetSteering, At, Quiet
<1> QED BY <1>6, <1>7, <1>8, <1>9, <1>10, <1>11, <1>12, <1>13, <1>14, <1>15

(* A step preserves what the conversations remember, and loses no turn. *)
THEOREM NextHInv == ASSUME TalkOnly PROVE IInv /\ HInv /\ [Next]_vars => HInv' /\ [StoredTurnsKept]_vars
<1> SUFFICES ASSUME IInv, HInv, [Next]_vars PROVE HInv' /\ [StoredTurnsKept]_vars OBVIOUS
<1>1. ASSUME NEW t \in Task, NEW c \in Conv, Arrival(t, c) PROVE HInv' /\ StoredTurnsKept
  BY <1>1, ArrivalStep
<1>2. ASSUME NEW t \in Task, AskReads(t) \/ AskBegin(t) \/ AskRefused(t) PROVE FALSE
  BY <1>2 DEF HInv, Talking, AskReads, AskBegin, AskRefused, At
<1>3. ASSUME NEW t \in Task,
             ReadHistory(t) \/ ReadCoverage(t) \/ CoverageRead(t) \/ CoverageWrite(t) \/ ForgetCoverage(t)
      PROVE  HInv' /\ StoredTurnsKept
  <2>1. StoredTurnsKept
    BY <1>3 DEF StoredTurnsKept, ReadHistory, ReadCoverage, CoverageRead, CoverageWrite, ForgetCoverage,
       memory
  <2> QED BY <1>3, <2>1, ReadStep, CoverStep, ForgetCoverStep
<1>4. ASSUME NEW t \in Task, Continue(t) PROVE HInv' /\ StoredTurnsKept
  BY <1>2, <1>3, <1>4, StoreSteps, QuietSteps DEF Continue
<1>5. ASSUME NEW t \in Task,
             \/ TurnRefused(t) \/ FollowIrrelevant(t) \/ AskRefused(t) \/ MigrateHistory(t)
             \/ ModelRequest(t) \/ SendQuestion(t) \/ RunFails(t)
      PROVE  HInv' /\ StoredTurnsKept
  BY <1>2, <1>5, StoreSteps, QuietSteps
<1>6. ~WipeCancels /\ ~WipeHistories /\ ~WipeCoverages /\ ~WipeRest
  BY DEF HInv, Talking, WipeCancels, WipeHistories, WipeCoverages, WipeRest, TalkOnly
<1>7. CASE UNCHANGED vars
  BY <1>7 DEF vars, memory, session, HInv, Talking, CleanupIsFinal, SnapIsCurrent, StoredByTurn,
     CoveredIsStored, SkippedIsRemembered, C, At
<1> QED BY <1>1, <1>4, <1>5, <1>6, <1>7 DEF Next

(* Nobody remembers anything at the start. *)
LEMMA InitHInv == Init => HInv
<1> SUFFICES ASSUME Init PROVE HInv OBVIOUS
<1>1. \A t \in Task : task[t].pc = "idle" BY DEF Init
<1> QED BY <1>1, Phases DEF Init, HInv, Talking, CleanupIsFinal, SnapIsCurrent, StoredByTurn,
       CoveredIsStored, SkippedIsRemembered, At

(* What the conversations remember, throughout. *)
THEOREM HistoryInvariance == ASSUME TalkOnly PROVE Spec => []HInv
<1>1. IInv /\ HInv /\ [Next]_vars => HInv' BY NextHInv
<1> QED BY <1>1, InitHInv, Invariance, PTL DEF Spec

(* A message a turn stored leaves the history by /forget only: no later turn *)
(* stores a history it is missing from, whichever runs fail in between.      *)
THEOREM TurnsKept == ASSUME TalkOnly PROVE Spec => NoTurnForgotten
<1>1. IInv /\ HInv /\ [Next]_vars => [StoredTurnsKept]_vars BY NextHInv
<1> QED BY <1>1, Invariance, HistoryInvariance, PTL DEF Spec, NoTurnForgotten

(* What /forget erased is not written back: it refuses while a turn owns the *)
(* conversation, and a turn that begins later reads what is left.            *)
THEOREM ForgetFinal == ASSUME TalkOnly PROVE Spec => []CleanupIsFinal
<1>1. HInv => CleanupIsFinal BY DEF HInv
<1> QED BY <1>1, HistoryInvariance, PTL

(* state.py:17: what the cursor leaves out of a prompt is in the history the *)
(* prompt comes with, or the speaker had it erased.                          *)
THEOREM Remembered == ASSUME TalkOnly PROVE Spec => []SkippedIsRemembered
<1>1. HInv => SkippedIsRemembered BY DEF HInv
<1> QED BY <1>1, HistoryInvariance, PTL

-----------------------------------------------------------------------------
(* What comes while a turn runs.  A message that is accepted uses up the     *)
(* budget of the conversation, and only the end of its run or a cleanup      *)
(* gives the budget back: so what a run was given and what is still queued   *)
(* for it exceed what was queued before it by no more than the budget.       *)

Before == {"idle", "relevance", "answered", "askready", "prepare", "read", "compose"}

Queued == \A c \in Conv : IsFiniteSet(steering[c]) /\ Cardinality(steering[c]) <= MaxQueue
LiveIsOwn == \A c \in Conv :
  activeRun[c] # None => task[activeRun[c]].pc # "idle" /\ C(activeRun[c]) = c
GivenFinite == \A t \in Task : IsFiniteSet(given[t]) /\ (task[t].pc \in Before => given[t] = {})
Within(t) ==
  /\ Cardinality(given[t]) <= 2 * MaxQueue
  /\ task[t].pc \in InRun =>
       Cardinality(given[t]) + Cardinality(steering[C(t)]) <= MaxQueue + budget[C(t)]

QInv == Queued /\ LiveIsOwn /\ GivenFinite /\ (wipe # "done" => \A t \in Task : Within(t))

(* Nothing is queued at the start. *)
LEMMA InitQInv == Init => QInv
<1> SUFFICES ASSUME Init PROVE QInv OBVIOUS
<1>1. Cardinality({}) = 0 /\ IsFiniteSet({}) BY FS_EmptySet
<1>2. \A t \in Task : task[t].pc = "idle" /\ given[t] = {} BY DEF Init
<1>3. \A c \in Conv : steering[c] = {} /\ activeRun[c] = None BY DEF Init
<1>4. MaxQueue \in Nat BY BoundsOK
<1>5. Queued
  <2> SUFFICES ASSUME NEW c \in Conv PROVE IsFiniteSet({}) /\ Cardinality({}) <= MaxQueue
    BY <1>3 DEF Queued
  <2> QED BY <1>1, <1>4
<1>6. LiveIsOwn /\ GivenFinite BY <1>1, <1>2, <1>3 DEF LiveIsOwn, GivenFinite
<1>7. ASSUME NEW t \in Task PROVE Within(t)
  <2>1. Cardinality(given[t]) = 0 BY <1>1, <1>2
  <2>2. 0 <= 2 * MaxQueue BY <1>4
  <2>3. task[t].pc \notin InRun BY <1>2, Phases
  <2> QED BY <2>1, <2>2, <2>3 DEF Within
<1> QED BY <1>5, <1>6, <1>7 DEF QInv

(* Cardinalities are numbers. *)
LEMMA Counts ==
  ASSUME TypeOK, QInv
  PROVE  /\ MaxQueue \in Nat
         /\ \A c \in Conv : Cardinality(steering[c]) \in Nat /\ budget[c] \in 0..MaxQueue
         /\ \A t \in Task : Cardinality(given[t]) \in Nat
BY FS_CardinalityType, BoundsOK DEF TypeOK, QInv, Queued, GivenFinite

(* One message more. *)
LEMMA OneMore ==
  ASSUME NEW S, NEW x, IsFiniteSet(S)
  PROVE  /\ IsFiniteSet(S \cup {x}) /\ Cardinality(S \cup {x}) \in Nat
         /\ Cardinality(S \cup {x}) <= Cardinality(S) + 1
<1>1. IsFiniteSet(S \cup {x}) BY FS_AddElement
<1>2. Cardinality(S) \in Nat /\ Cardinality(S \cup {x}) \in Nat BY <1>1, FS_CardinalityType
<1>3. Cardinality(S \cup {x}) = IF x \in S THEN Cardinality(S) ELSE Cardinality(S) + 1
  BY FS_AddElement
<1> QED BY <1>1, <1>2, <1>3

(* What is queued, delivered at once. *)
LEMMA Delivered ==
  ASSUME NEW S, NEW T, IsFiniteSet(S), IsFiniteSet(T)
  PROVE  /\ IsFiniteSet(S \cup T) /\ Cardinality(S \cup T) \in Nat
         /\ Cardinality(S \cup T) <= Cardinality(S) + Cardinality(T)
<1>1. IsFiniteSet(S \cup T) /\ IsFiniteSet(S \cap T) BY FS_Union, FS_Intersection
<1>2. /\ Cardinality(S) \in Nat /\ Cardinality(T) \in Nat
      /\ Cardinality(S \cup T) \in Nat /\ Cardinality(S \cap T) \in Nat
  BY <1>1, FS_CardinalityType
<1>3. Cardinality(S \cup T) = Cardinality(S) + Cardinality(T) - Cardinality(S \cap T)
  BY FS_Union
<1> QED BY <1>1, <1>2, <1>3

(* A turn is alone in its conversation until the locks are dropped. *)
LEMMA OwnTurn ==
  ASSUME IInv, wipe # "done", NEW s \in Task, NEW t \in Task, C(s) = C(t),
         task[s].pc \in InTurn, task[t].pc \in InTurn
  PROVE  s = t
BY DEF IInv, Safe, TurnsOwn

(* A handler that goes on or arrives, within a run or outside of all. *)
Steady(t) ==
  /\ Others(t)
  /\ task'[t].pc \in InRun => task[t].pc \in InRun
  /\ task'[t].pc \in Before => task[t].pc \in Before
  /\ task[t].pc # "idle" => task'[t].conv = task[t].conv /\ task'[t].pc # "idle"

(* Such a step leaves queues and budgets as they are bounded. *)
LEMMA SteadyStep ==
  ASSUME TypeOK, QInv, NEW t \in Task, Steady(t), UNCHANGED <<activeRun, steering, given, budget>>,
         wipe' # "done" => wipe # "done"
  PROVE  QInv'
<1>1. Queued' BY DEF QInv, Queued
<1>2. activeRun \in [Conv -> Task \cup {None}] BY DEF TypeOK
<1>3. LiveIsOwn' BY <1>2, Phases DEF QInv, LiveIsOwn, Steady, Others, C
<1>4. GivenFinite' BY DEF QInv, GivenFinite, Steady, Others
<1>5. ASSUME wipe' # "done", NEW s \in Task PROVE Within(s)'
  <2>1. Within(s) BY <1>5 DEF QInv
  <2>2. CASE s # t BY <2>1, <2>2 DEF Within, Steady, Others, C
  <2>3. CASE s = t
    <3>1. CASE task'[t].pc \notin InRun BY <2>1, <2>3, <3>1 DEF Within
    <3>2. CASE task'[t].pc \in InRun
      <4>1. task[t].pc \in InRun /\ C(t)' = C(t) BY <3>2, Phases DEF Steady, C
      <4> QED BY <2>1, <2>3, <4>1 DEF Within
    <3> QED BY <3>1, <3>2
  <2> QED BY <2>2, <2>3
<1> QED BY <1>1, <1>3, <1>4, <1>5 DEF QInv

(* A message that comes meanwhile is counted, or dropped. *)
LEMMA InterjectBounds ==
  ASSUME IInv, QInv, NEW t \in Task, NEW c \in Conv, Interject(t, c), UNCHANGED <<activeRun, wipe>>,
         Steady(t), task[t].pc \notin InRun, task'[t].pc = "done"
  PROVE  QInv'
<1>1. TypeOK BY DEF IInv
<1>2. CASE UNCHANGED queues
  BY <1>1, <1>2, SteadyStep DEF queues
<1> DEFINE r == activeRun[c]
           live == r # None /\ task[r].pc \in {"begun", "request", "asking"}
<1>3. /\ steering \in [Conv -> SUBSET Task] /\ given \in [Task -> SUBSET Task]
      /\ budget \in [Conv -> 0..MaxQueue] /\ activeRun \in [Conv -> Task \cup {None}]
  BY <1>1 DEF TypeOK
<1>4. /\ MaxQueue \in Nat
      /\ \A d \in Conv : Cardinality(steering[d]) \in Nat /\ budget[d] \in 0..MaxQueue
      /\ \A s \in Task : Cardinality(given[s]) \in Nat
  BY <1>1, Counts
<1>5. task[t].pc # "idle" => C(t)' = C(t) BY DEF Steady, C
<1>6. \A s \in Task : s # t => task'[s] = task[s] /\ C(s)' = C(s) BY DEF Steady, Others, C
<1>7. LiveIsOwn' BY <1>3, <1>6 DEF QInv, LiveIsOwn, Steady, C
<1>8. task'[t].pc \notin InRun \cup Before BY Phases DEF Before
<1>9. CASE ~QueueFull(c, live) /\ live
  <2>1. /\ budget' = [budget EXCEPT ![c] = @ + 1] /\ given' = [given EXCEPT ![r] = @ \cup {t}]
        /\ steering' = steering /\ budget[c] < MaxQueue
    BY <1>4, <1>9 DEF Interject, QueueFull
  <2>2. r \in Task /\ C(r) = c /\ r # t /\ task[r].pc \in InRun /\ task[r].pc \notin Before
    BY <1>3, <1>9, Phases DEF QInv, LiveIsOwn, Before
  <2>3. IsFiniteSet(given'[r]) /\ Cardinality(given'[r]) \in Nat
        /\ Cardinality(given'[r]) <= Cardinality(given[r]) + 1
    <3>1. given'[r] = given[r] \cup {t} /\ IsFiniteSet(given[r])
      BY <1>3, <2>1, <2>2 DEF QInv, GivenFinite
    <3> HIDE DEF r
    <3> QED BY <3>1, OneMore
  <2>4. Queued' BY <2>1 DEF QInv, Queued
  <2>5. GivenFinite' BY <1>3, <1>6, <1>8, <2>1, <2>2, <2>3 DEF QInv, GivenFinite
  <2>6. ASSUME wipe' # "done", NEW s \in Task PROVE Within(s)'
    <3>1. wipe # "done" /\ Within(s) /\ Within(r) BY <2>2, <2>6 DEF QInv
    <3>2. CASE s = r
      <4>1. Cardinality(given[r]) + Cardinality(steering[c]) <= MaxQueue + budget[c]
        BY <2>2, <3>1 DEF Within
      <4>2. Cardinality(given'[r]) + Cardinality(steering'[c]) <= MaxQueue + budget'[c]
        BY <1>3, <1>4, <2>1, <2>3, <4>1
      <4>3. Cardinality(given'[r]) <= 2 * MaxQueue
        BY <1>3, <1>4, <2>1, <2>3, <4>1
      <4> QED BY <1>6, <2>2, <3>2, <4>2, <4>3 DEF Within
    <3>3. CASE s # r
      <4>1. given'[s] = given[s] BY <1>3, <2>1, <3>3
      <4>2. CASE task'[s].pc \notin InRun BY <3>1, <4>1, <4>2 DEF Within
      <4>3. CASE task'[s].pc \in InRun
        <5>1. s # t /\ task[s].pc \in InRun /\ C(s)' = C(s) BY <1>6, <1>8, <4>3
        <5>2. C(s) # c BY <2>2, <3>1, <3>3, <5>1, OwnTurn, Phases
        <5>3. budget'[C(s)] = budget[C(s)]
          BY <1>3, <2>1, <5>2
        <5> QED BY <2>1, <3>1, <4>1, <5>1, <5>3 DEF Within
      <4> QED BY <4>2, <4>3
    <3> QED BY <3>2, <3>3
  <2> QED BY <1>7, <2>4, <2>5, <2>6 DEF QInv
<1>10. CASE ~QueueFull(c, live) /\ ~live
  <2>1. /\ budget' = [budget EXCEPT ![c] = @ + 1] /\ steering' = [steering EXCEPT ![c] = @ \cup {t}]
        /\ given' = given /\ budget[c] < MaxQueue /\ Cardinality(steering[c]) < MaxQueue
    BY <1>4, <1>10 DEF Interject, QueueFull
  <2>2. IsFiniteSet(steering'[c]) /\ Cardinality(steering'[c]) \in Nat
        /\ Cardinality(steering'[c]) <= Cardinality(steering[c]) + 1
    <3>1. steering'[c] = steering[c] \cup {t} /\ IsFiniteSet(steering[c])
      BY <1>3, <2>1 DEF QInv, Queued
    <3> QED BY <3>1, OneMore
  <2>3. \A d \in Conv : d # c => steering'[d] = steering[d] /\ budget'[d] = budget[d]
    BY <1>3, <2>1
  <2>4. Queued' BY <1>4, <2>1, <2>2, <2>3 DEF QInv, Queued
  <2>5. GivenFinite' BY <1>6, <1>8, <2>1 DEF QInv, GivenFinite
  <2>6. ASSUME wipe' # "done", NEW s \in Task PROVE Within(s)'
    <3>1. Within(s) BY <2>6 DEF QInv
    <3>2. CASE task'[s].pc \notin InRun BY <2>1, <3>1, <3>2 DEF Within
    <3>3. CASE task'[s].pc \in InRun
      <4>1. s # t /\ task[s].pc \in InRun /\ C(s)' = C(s) /\ C(s) \in Conv
        BY <1>1, <1>6, <1>8, <3>3, Phases, TypeSplit DEF TaskOK
      <4>2. CASE C(s) = c
        BY <1>3, <1>4, <2>1, <2>2, <3>1, <4>1, <4>2 DEF Within
      <4>3. CASE C(s) # c
        BY <2>1, <2>3, <3>1, <4>1, <4>3 DEF Within
      <4> QED BY <4>2, <4>3
    <3> QED BY <3>2, <3>3
  <2> QED BY <1>7, <2>4, <2>5, <2>6 DEF QInv
<1> QED BY <1>2, <1>9, <1>10 DEF Interject

(* A run that ends leaves its queue within the bounds of the next one. *)
LEMMA LeaveRunBounds ==
  ASSUME IInv, QInv, NEW t \in Task, task[t].pc \in InRun, LeaveRun(t)
  PROVE  QInv'
<1>1. TypeOK /\ TaskOK /\ RestOK BY TypeSplit DEF IInv
<1>2. C(t) \in Conv /\ task[t].pc # "idle" /\ task[t].pc \in InTurn BY <1>1, Phases DEF TaskOK
<1>3. Moved(t, "leave") BY <1>1, <1>2, GotoMoves, Phases DEF LeaveRun, Phase
<1>4. /\ steering' = steering /\ given' = given /\ wipe' = wipe
      /\ activeRun' \in {activeRun, [activeRun EXCEPT ![C(t)] = None]}
      /\ \A d \in Conv : d # C(t) => budget'[d] = budget[d]
  BY <1>1, <1>2 DEF LeaveRun, Unregister, RestOK, session
<1>5. \A s \in Task : s # t => task'[s] = task[s] /\ C(s)' = C(s) BY <1>3 DEF Moved, Others, C
<1>6. task'[t].pc = "leave" /\ C(t)' = C(t) BY <1>3 DEF Moved, C
<1>7. Queued' BY <1>4 DEF QInv, Queued
<1>8. LiveIsOwn'
  <2>1. \A c \in Conv : activeRun'[c] # None => activeRun'[c] = activeRun[c] /\ activeRun[c] \in Task
    BY <1>1, <1>4 DEF RestOK
  <2> QED BY <1>5, <1>6, <2>1 DEF QInv, LiveIsOwn
<1>9. GivenFinite' BY <1>4, <1>5, <1>6 DEF QInv, GivenFinite, Before
<1>10. ASSUME wipe' # "done", NEW s \in Task PROVE Within(s)'
  <2>1. wipe # "done" /\ Within(s) BY <1>4, <1>10 DEF QInv
  <2>2. CASE s = t BY <1>4, <1>6, <2>1, <2>2, Phases DEF Within
  <2>3. CASE task'[s].pc \notin InRun BY <1>4, <2>1, <2>3 DEF Within
  <2>4. CASE s # t /\ task'[s].pc \in InRun
    <3>1. task[s].pc \in InRun /\ C(s)' = C(s) /\ C(s) \in Conv
      BY <1>1, <1>5, <2>4, Phases DEF TaskOK
    <3>2. C(s) # C(t) BY <1>2, <2>1, <2>4, <3>1, OwnTurn, Phases
    <3> QED BY <1>4, <2>1, <3>1, <3>2 DEF Within
  <2> QED BY <2>2, <2>3, <2>4
<1> QED BY <1>7, <1>8, <1>9, <1>10 DEF QInv

(* A run is given what was queued for it. *)
LEMMA DrainBounds ==
  ASSUME IInv, QInv, NEW t \in Task, NEW p \in InRun, Moved(t, p), task[t].pc \in InRun \cup {"compose"},
         given' = [given EXCEPT ![t] = @ \cup steering[C(t)]],
         steering' = [steering EXCEPT ![C(t)] = {}],
         UNCHANGED <<activeRun, budget, wipe>>
  PROVE  QInv'
<1>1. TypeOK /\ TaskOK /\ RestOK BY TypeSplit DEF IInv
<1>2. C(t) \in Conv /\ task[t].pc # "idle" /\ task[t].pc \in InTurn BY <1>1, Phases DEF TaskOK
<1>3. /\ MaxQueue \in Nat
      /\ \A d \in Conv : Cardinality(steering[d]) \in Nat /\ budget[d] \in 0..MaxQueue
      /\ \A s \in Task : Cardinality(given[s]) \in Nat
  BY <1>1, Counts
<1>4. \A s \in Task : s # t => task'[s] = task[s] /\ C(s)' = C(s) BY DEF Moved, Others, C
<1>5. task'[t].pc = p /\ C(t)' = C(t) /\ p # "idle" /\ p \notin Before BY Phases DEF Moved, C, Before
<1>6. /\ given'[t] = given[t] \cup steering[C(t)]
      /\ \A s \in Task : s # t => given'[s] = given[s]
      /\ steering'[C(t)] = {} /\ \A d \in Conv : d # C(t) => steering'[d] = steering[d]
  BY <1>1, <1>2 DEF RestOK
<1>7. IsFiniteSet(given[t]) /\ IsFiniteSet(steering[C(t)]) BY <1>2 DEF QInv, GivenFinite, Queued
<1>8. /\ IsFiniteSet(given'[t]) /\ Cardinality(given'[t]) \in Nat
      /\ Cardinality(given'[t]) <= Cardinality(given[t]) + Cardinality(steering[C(t)])
  BY <1>6, <1>7, Delivered
<1>9. IsFiniteSet({}) /\ Cardinality({}) = 0 BY FS_EmptySet
<1>10. Queued'
  <2> SUFFICES ASSUME NEW d \in Conv PROVE IsFiniteSet(steering'[d]) /\ Cardinality(steering'[d]) <= MaxQueue
    BY DEF Queued
  <2>1. CASE d = C(t) BY <1>3, <1>6, <1>9, <2>1
  <2>2. CASE d # C(t) BY <1>6, <2>2 DEF QInv, Queued
  <2> QED BY <2>1, <2>2
<1>11. LiveIsOwn'
  <2>1. \A c \in Conv : activeRun[c] # None => activeRun[c] \in Task BY <1>1 DEF RestOK
  <2> QED BY <1>4, <1>5, <2>1 DEF QInv, LiveIsOwn
<1>12. GivenFinite' BY <1>4, <1>5, <1>6, <1>8 DEF QInv, GivenFinite
<1>13. ASSUME wipe' # "done", NEW s \in Task PROVE Within(s)'
  <2>1. wipe # "done" /\ Within(s) /\ Within(t) BY <1>13 DEF QInv
  <2>2. CASE s = t
    <3>1. Cardinality(given'[t]) <= MaxQueue + budget[C(t)]
      <4>1. CASE task[t].pc \in InRun BY <1>2, <1>3, <1>8, <2>1, <4>1 DEF Within
      <4>2. CASE task[t].pc = "compose"
        <5>1. given[t] = {} /\ Cardinality(steering[C(t)]) <= MaxQueue
          BY <1>2, <4>2 DEF QInv, GivenFinite, Queued, Before
        <5> QED BY <1>2, <1>3, <1>8, <1>9, <5>1
      <4> QED BY <4>1, <4>2
    <3>2. Cardinality(given'[t]) <= 2 * MaxQueue BY <1>2, <1>3, <1>8, <3>1
    <3>3. Cardinality(given'[t]) + Cardinality(steering'[C(t)]) <= MaxQueue + budget'[C(t)]
      BY <1>2, <1>3, <1>6, <1>8, <1>9, <3>1
    <3> QED BY <1>5, <2>2, <3>2, <3>3 DEF Within
  <2>3. CASE s # t /\ task'[s].pc \notin InRun BY <1>6, <2>1, <2>3 DEF Within
  <2>4. CASE s # t /\ task'[s].pc \in InRun
    <3>1. task[s].pc \in InRun /\ C(s)' = C(s) /\ C(s) \in Conv
      BY <1>1, <1>4, <2>4, Phases DEF TaskOK
    <3>2. C(s) # C(t) BY <1>2, <2>1, <2>4, <3>1, OwnTurn, Phases
    <3> QED BY <1>6, <2>1, <2>4, <3>1, <3>2 DEF Within
  <2> QED BY <2>2, <2>3, <2>4
<1> QED BY <1>10, <1>11, <1>12, <1>13 DEF QInv

(* A run that is handed nothing, because it begins with no message of its    *)
(* own, leaves what is queued to its first request.                          *)
LEMMA StartBounds ==
  ASSUME IInv, QInv, NEW t \in Task, Moved(t, "start"), task[t].pc \in {"compose", "askready"},
         UNCHANGED <<activeRun, steering, given, budget, wipe>>
  PROVE  QInv'
<1>1. TypeOK /\ TaskOK /\ RestOK BY TypeSplit DEF IInv
<1>2. C(t) \in Conv BY <1>1 DEF TaskOK
<1>3. /\ MaxQueue \in Nat
      /\ \A d \in Conv : Cardinality(steering[d]) \in Nat /\ budget[d] \in 0..MaxQueue
  BY <1>1, Counts
<1>4. \A s \in Task : s # t => task'[s] = task[s] /\ C(s)' = C(s) BY DEF Moved, Others, C
<1>5. task'[t].pc = "start" /\ C(t)' = C(t) BY DEF Moved, C
<1>6. Queued' BY DEF QInv, Queued
<1>7. LiveIsOwn'
  <2>1. \A c \in Conv : activeRun[c] # None => activeRun[c] \in Task BY <1>1 DEF RestOK
  <2> QED BY <1>4, <1>5, <2>1 DEF QInv, LiveIsOwn
<1>8. GivenFinite' BY <1>4, <1>5 DEF QInv, GivenFinite, Before
<1>9. ASSUME wipe' # "done", NEW s \in Task PROVE Within(s)'
  <2>1. Within(s) BY <1>9 DEF QInv
  <2>2. CASE s # t BY <1>4, <2>1, <2>2 DEF Within
  <2>3. CASE s = t
    <3>1. given[t] = {} /\ Cardinality(steering[C(t)]) <= MaxQueue
      BY <1>2 DEF QInv, GivenFinite, Queued, Before
    <3>2. Cardinality(given[t]) = 0 BY <3>1, FS_EmptySet
    <3>3. Cardinality(given[t]) + Cardinality(steering[C(t)]) <= MaxQueue + budget[C(t)]
      BY <1>2, <1>3, <3>1, <3>2
    <3> QED BY <1>5, <2>1, <2>3, <3>3 DEF Within
  <2> QED BY <2>2, <2>3
<1> QED BY <1>6, <1>7, <1>8, <1>9 DEF QInv

(* A run that becomes the live one is the run of its conversation. *)
LEMMA BeginBounds ==
  ASSUME IInv, QInv, NEW t \in Task, BeginIter(t)
  PROVE  QInv'
<1>1. TypeOK /\ TaskOK /\ RestOK BY TypeSplit DEF IInv
<1>2. C(t) \in Conv /\ task[t].pc # "idle" /\ task[t].pc \in InRun
  BY <1>1, Phases DEF BeginIter, NotBegun, TaskOK
<1>3. Moved(t, "begun") BY <1>1, <1>2, GotoMoves, Phases DEF BeginIter, Phase
<1>4. /\ activeRun' = [activeRun EXCEPT ![C(t)] = t] /\ steering' = steering /\ given' = given
      /\ budget' = budget /\ wipe' = wipe
  BY DEF BeginIter, queues, session
<1>5. \A s \in Task : s # t => task'[s] = task[s] /\ C(s)' = C(s) BY <1>3 DEF Moved, Others, C
<1>6. task'[t].pc = "begun" /\ C(t)' = C(t) BY <1>3 DEF Moved, C
<1>7. Queued' /\ GivenFinite' BY <1>4, <1>5, <1>6 DEF QInv, Queued, GivenFinite, Before
<1>8. LiveIsOwn'
  <2>1. \A c \in Conv : activeRun[c] # None => activeRun[c] \in Task BY <1>1 DEF RestOK
  <2>2. activeRun'[C(t)] = t /\ \A c \in Conv : c # C(t) => activeRun'[c] = activeRun[c]
    BY <1>1, <1>2, <1>4 DEF RestOK
  <2> QED BY <1>5, <1>6, <2>1, <2>2 DEF QInv, LiveIsOwn
<1>9. ASSUME wipe' # "done", NEW s \in Task PROVE Within(s)'
  <2>1. Within(s) BY <1>4, <1>9 DEF QInv
  <2>2. CASE s # t BY <1>4, <1>5, <2>1, <2>2 DEF Within
  <2>3. CASE s = t BY <1>2, <1>4, <1>6, <2>1, <2>3 DEF Within
  <2> QED BY <2>2, <2>3
<1> QED BY <1>7, <1>8, <1>9 DEF QInv

(* A cleanup empties the queue and gives the budget back. *)
LEMMA ForgetSteeringBounds ==
  ASSUME IInv, QInv, NEW t \in Task, ForgetSteering(t)
  PROVE  QInv'
<1>1. TypeOK /\ TaskOK /\ RestOK BY TypeSplit DEF IInv
<1>2. C(t) \in Conv /\ task[t].pc = "forgetting" BY <1>1 DEF ForgetSteering, At, TaskOK
<1>3. Moved(t, "done") BY <1>1, <1>2, GotoMoves DEF ForgetSteering, Phase
<1>4. MaxQueue \in Nat /\ IsFiniteSet({}) /\ Cardinality({}) = 0 BY BoundsOK, FS_EmptySet
<1>5. \A s \in Task : s # t => task'[s] = task[s] /\ C(s)' = C(s) BY <1>3 DEF Moved, Others, C
<1>6. task'[t].pc = "done" /\ C(t)' = C(t) BY <1>3 DEF Moved, C
<1>7. /\ activeRun' = activeRun /\ wipe' = wipe
      /\ steering'[C(t)] = {} /\ \A d \in Conv : d # C(t) => steering'[d] = steering[d]
      /\ budget'[C(t)] = 0 /\ \A d \in Conv : d # C(t) => budget'[d] = budget[d]
      /\ \A s \in Task : given'[s] = IF C(s) = C(t) THEN {} ELSE given[s]
  BY <1>1, <1>2 DEF ForgetSteering, RestOK, runs, session
<1>8. Queued'
  <2> SUFFICES ASSUME NEW d \in Conv PROVE IsFiniteSet(steering'[d]) /\ Cardinality(steering'[d]) <= MaxQueue
    BY DEF Queued
  <2>1. CASE d = C(t) BY <1>4, <1>7, <2>1
  <2>2. CASE d # C(t) BY <1>7, <2>2 DEF QInv, Queued
  <2> QED BY <2>1, <2>2
<1>9. LiveIsOwn'
  <2>1. \A c \in Conv : activeRun[c] # None => activeRun[c] \in Task BY <1>1 DEF RestOK
  <2> QED BY <1>5, <1>6, <1>7, <2>1 DEF QInv, LiveIsOwn
<1>10. GivenFinite' BY <1>4, <1>5, <1>6, <1>7 DEF QInv, GivenFinite, Before
<1>11. ASSUME wipe' # "done", NEW s \in Task PROVE Within(s)'
  <2>1. Within(s) BY <1>7, <1>11 DEF QInv
  <2>2. CASE C(s) = C(t)
    <3>1. Cardinality(given'[s]) = 0 /\ Cardinality(steering'[C(t)]) = 0 /\ budget'[C(t)] = 0
      BY <1>4, <1>7, <2>2
    <3>2. C(s)' = C(t) BY <1>5, <1>6, <2>2
    <3> QED BY <1>4, <3>1, <3>2 DEF Within
  <2>3. CASE C(s) # C(t)
    <3>1. s # t /\ given'[s] = given[s] BY <1>7, <2>3
    <3>2. CASE task'[s].pc \notin InRun BY <2>1, <3>1, <3>2 DEF Within
    <3>3. CASE task'[s].pc \in InRun
      <4>1. task[s].pc \in InRun /\ C(s)' = C(s) /\ C(s) \in Conv
        BY <1>1, <1>5, <3>1, <3>3, Phases DEF TaskOK
      <4> QED BY <1>7, <2>1, <2>3, <3>1, <4>1 DEF Within
    <3> QED BY <3>2, <3>3
  <2> QED BY <2>2, <2>3
<1> QED BY <1>8, <1>9, <1>10, <1>11 DEF QInv

(* The steps of a handler that leave queues and budgets alone. *)
LEMMA SteadySteps ==
  ASSUME IInv, QInv, NEW t \in Task,
         \/ TurnRefused(t) \/ ReadHistory(t) \/ ReadCoverage(t) \/ FollowIrrelevant(t) \/ AskReads(t)
         \/ AskRefused(t) \/ MigrateHistory(t) \/ SendQuestion(t) \/ StoreQuestion(t) \/ RunEnds(t)
         \/ Settle(t) \/ SaveHistory(t) \/ CoverageRead(t) \/ CoverageWrite(t) \/ Release(t)
         \/ ForgetCoverage(t)
  PROVE  QInv'
<1>1. TypeOK /\ TaskOK BY TypeSplit DEF IInv
<1>2. UNCHANGED <<activeRun, steering, given, budget, wipe>>
  BY DEF TurnRefused, ReadHistory, ReadCoverage, FollowIrrelevant, AskReads, AskRefused, MigrateHistory,
     SendQuestion, StoreQuestion, RunEnds, Settle, SaveHistory, CoverageRead, CoverageWrite, Release,
     ForgetCoverage, runs, queues, session
<1>3. ASSUME NEW p \in Phase, Goto(t, p), p # "idle", p \in InRun => task[t].pc \in InRun,
             p \in Before => task[t].pc \in Before
      PROVE  QInv'
  <2>1. Keeps(t, p) BY <1>1, <1>3, GotoKeeps
  <2>2. Steady(t) BY <1>3, <2>1 DEF Steady, Keeps
  <2> QED BY <1>1, <1>2, <2>2, SteadyStep
<1>4. {"leave", "done", "request", "asking", "migrated", "settle", "save", "cover", "exit", "forgetting"}
        \subseteq Phase \ (Before \cup {"idle"})
  BY Phases DEF Phase, Before
<1>5. CASE \/ TurnRefused(t) \/ FollowIrrelevant(t) \/ AskRefused(t) \/ MigrateHistory(t)
           \/ SendQuestion(t) \/ StoreQuestion(t) \/ RunEnds(t) \/ Settle(t) \/ SaveHistory(t)
           \/ CoverageWrite(t) \/ Release(t) \/ ForgetCoverage(t)
  BY <1>3, <1>4, <1>5, Phases DEF TurnRefused, FollowIrrelevant, AskRefused, MigrateHistory, SendQuestion,
     StoreQuestion, RunEnds, Settle, SaveHistory, CoverageWrite, Release, ForgetCoverage, Running, At
<1>6. CASE ReadHistory(t) \/ ReadCoverage(t) \/ AskReads(t) \/ CoverageRead(t)
  <2>1. /\ Others(t) /\ task'[t].conv = task[t].conv
        /\ \/ task[t].pc = "prepare" /\ task'[t].pc = "read"
           \/ task[t].pc = "read" /\ task'[t].pc = "compose"
           \/ task[t].pc = "answered" /\ task'[t].pc = "askready"
           \/ task[t].pc = "cover" /\ task'[t].pc = "advance"
    BY <1>1, <1>6 DEF ReadHistory, ReadCoverage, AskReads, CoverageRead, Running, At, TaskOK, TaskState,
       Others
  <2>2. Steady(t) BY <2>1, Phases DEF Steady, Before
  <2> QED BY <1>1, <1>2, <2>2, SteadyStep
<1> QED BY <1>5, <1>6

(* An update that arrives begins a turn, interjects, or comes to nothing. *)
LEMMA ArrivalBounds ==
  ASSUME IInv, QInv, NEW t \in Task, NEW c \in Conv, Arrival(t, c)
  PROVE  QInv'
<1>1. TypeOK /\ TaskOK BY TypeSplit DEF IInv
<1>2. /\ activeRun' = activeRun /\ wipe' = wipe
      /\ Interject(t, c) \/ UNCHANGED queues
  BY DEF Arrival, WakeTurned, WakeBusy, WakeBegin, FollowArrives, Click, ForgetHistory, runs, session
<1>3. /\ Others(t) /\ task[t].pc = "idle"
      /\ task'[t].pc \in {"done", "prepare", "relevance", "expired", "answered", "forget"}
      /\ task'[t].conv = c
  BY <1>1 DEF Arrival, WakeTurned, WakeBusy, WakeBegin, FollowArrives, Click, ForgetHistory, Arrives, At,
     TaskOK, TaskState, Others
<1>4. Steady(t) /\ task[t].pc \notin InRun BY <1>3, Phases DEF Steady, Before
<1>5. CASE UNCHANGED queues BY <1>1, <1>2, <1>4, <1>5, SteadyStep DEF queues
<1>6. CASE Interject(t, c) /\ ~UNCHANGED queues
  <2>1. task'[t].pc = "done"
    BY <1>1, <1>6 DEF Arrival, WakeTurned, WakeBusy, WakeBegin, FollowArrives, Click, ForgetHistory,
       Arrives, TaskOK, TaskState
  <2> QED BY <1>2, <1>4, <1>6, <2>1, InterjectBounds
<1> QED BY <1>2, <1>5, <1>6

(* A follow-up that turns out to be relevant begins a turn or interjects. *)
LEMMA FollowBeginBounds ==
  ASSUME IInv, QInv, NEW t \in Task, FollowBegin(t)
  PROVE  QInv'
<1>1. TypeOK /\ TaskOK BY TypeSplit DEF IInv
<1>2. C(t) \in Conv /\ task[t].pc = "relevance" BY <1>1 DEF FollowBegin, At, TaskOK
<1>3. activeRun' = activeRun /\ wipe' = wipe BY DEF FollowBegin, runs, session
<1>4. CASE convLock[C(t)] # None
  <2>1. Goto(t, "done") /\ Interject(t, C(t)) BY <1>4 DEF FollowBegin
  <2>2. Keeps(t, "done") BY <1>1, <2>1, GotoKeeps DEF Phase
  <2>3. Steady(t) /\ task'[t].pc = "done" /\ task[t].pc \notin InRun
    BY <1>2, <2>2, Phases DEF Steady, Keeps, Before
  <2> QED BY <1>2, <1>3, <2>1, <2>3, InterjectBounds
<1>5. CASE convLock[C(t)] = None
  <2>1. Goto(t, "prepare") /\ UNCHANGED queues BY <1>5 DEF FollowBegin
  <2>2. Keeps(t, "prepare") BY <1>1, <2>1, GotoKeeps, Phases DEF Phase
  <2>3. Steady(t) BY <1>2, <2>2, Phases DEF Steady, Keeps, Before
  <2> QED BY <1>1, <1>3, <2>1, <2>3, SteadyStep DEF queues
<1> QED BY <1>4, <1>5

(* A run starts with what was queued before it, or leaves it queued. *)
LEMMA RunStartBounds ==
  ASSUME IInv, QInv, NEW t \in Task, StartRun(t) \/ AskBegin(t)
  PROVE  QInv'
<1>1. TypeOK /\ TaskOK BY TypeSplit DEF IInv
<1>2. CASE StartRun(t)
  <2>1. task[t].pc = "compose" /\ Moved(t, "start") /\ UNCHANGED <<activeRun, budget, wipe>>
    BY <1>1, <1>2, GotoMoves, Phases DEF StartRun, At, Phase, session
  <2>2. CASE task[t].kind = "wake"
    BY <1>2, <2>1, <2>2, DrainBounds, Phases DEF StartRun
  <2>3. CASE task[t].kind # "wake"
    BY <1>2, <2>1, <2>3, StartBounds DEF StartRun
  <2> QED BY <2>2, <2>3
<1>3. CASE AskBegin(t)
  <2>1. task[t].pc = "askready" /\ UNCHANGED <<activeRun, steering, given, budget, wipe>>
    BY <1>3 DEF AskBegin, At, queues, session
  <2>2. CASE Goto(t, "dropped")
    <3>1. Keeps(t, "dropped") BY <1>1, <2>2, GotoKeeps DEF Phase
    <3>2. Steady(t) BY <3>1, Phases DEF Steady, Keeps, Before
    <3> QED BY <1>1, <2>1, <3>2, SteadyStep
  <2>3. CASE Goto(t, "start")
    <3>1. Moved(t, "start") BY <1>1, <2>1, <2>3, GotoMoves, Phases DEF Phase
    <3> QED BY <2>1, <3>1, StartBounds
  <2> QED BY <1>3, <2>2, <2>3 DEF AskBegin
<1> QED BY <1>2, <1>3

(* Every step keeps the messages of a turn within its bounds. *)
THEOREM NextQInv == IInv /\ QInv /\ [Next]_vars => QInv'
<1> SUFFICES ASSUME IInv, QInv, [Next]_vars PROVE QInv' OBVIOUS
<1>1. TypeOK /\ TaskOK BY TypeSplit DEF IInv
<1>2. ASSUME NEW t \in Task, ModelRequest(t) PROVE QInv'
  <2>1. task[t].pc \in {"begun", "request"} /\ Moved(t, "request")
    BY <1>1, <1>2, GotoMoves, Phases DEF ModelRequest, Running, At, Phase
  <2> QED BY <1>2, <2>1, DrainBounds, Phases DEF ModelRequest, runs, session
<1>3. ASSUME NEW t \in Task, RunFails(t) \/ ExitIter(t) \/ RunCancelled(t) PROVE QInv'
  BY <1>3, LeaveRunBounds, Phases DEF RunFails, ExitIter, RunCancelled, Running, At
<1>4. ASSUME NEW t \in Task, Continue(t) PROVE QInv'
  BY <1>3, <1>4, SteadySteps, RunStartBounds, FollowBeginBounds, BeginBounds, ForgetSteeringBounds
    DEF Continue
<1>5. ASSUME UNCHANGED <<task, activeRun, steering, given, budget>>, wipe' # "done" => wipe # "done"
      PROVE  QInv'
  <2>1. Queued' /\ LiveIsOwn' /\ GivenFinite' BY <1>5 DEF QInv, Queued, LiveIsOwn, GivenFinite, C
  <2>2. ASSUME wipe' # "done", NEW s \in Task PROVE Within(s)'
    BY <1>5, <2>2 DEF QInv, Within, C
  <2> QED BY <2>1, <2>2 DEF QInv
<1>6. CASE WipeCancels \/ WipeHistories \/ WipeCoverages \/ UNCHANGED vars
  BY <1>5, <1>6 DEF WipeCancels, WipeHistories, WipeCoverages, vars, runs, queues, session
<1>7. CASE WipeRest
  <2>1. /\ wipe' = "done" /\ task' = task /\ activeRun' = activeRun /\ given' = given
        /\ \A c \in Conv : steering'[c] = {}
    BY <1>7 DEF WipeRest, runs
  <2>2. MaxQueue \in Nat /\ IsFiniteSet({}) /\ Cardinality({}) = 0 BY BoundsOK, FS_EmptySet
  <2>3. Queued' BY <2>1, <2>2 DEF Queued
  <2>4. LiveIsOwn' /\ GivenFinite' BY <2>1 DEF QInv, LiveIsOwn, GivenFinite, C
  <2> QED BY <2>1, <2>3, <2>4 DEF QInv
<1> QED BY <1>2, <1>3, <1>4, <1>6, <1>7, ArrivalBounds, SteadySteps DEF Next

(* What a run is given stays within the budget and the queue, until          *)
(* /clear_sessions drops the locks that running turns hold.                  *)
THEOREM TurnsBounded == Spec => [](wipe # "done" => InterjectionsBounded)
<1>1. QInv => (wipe # "done" => InterjectionsBounded)
  BY DEF QInv, Within, InterjectionsBounded
<1>2. Spec => []QInv BY InitQInv, NextQInv, Invariance, PTL DEF Spec
<1> QED BY <1>1, <1>2, PTL

(* Where nobody uses /clear_sessions the bound is unconditional. *)
THEOREM QueueBounded == ASSUME MaxWipes = 0 PROVE Spec => []QueueKept
<1>1. wipe # "done" /\ TypeOK /\ (wipe # "done" => InterjectionsBounded) => QueueKept
  BY DEF QueueKept
<1> QED BY <1>1, NeverWiped, TypeCorrect, TurnsBounded, PTL

-----------------------------------------------------------------------------
(* The wake lock of a bot, where conversations are begun by wakes alone: a   *)
(* busy conversation is then one whose turn has the lock already, and a wake *)
(* of that bot is turned away before it could take it.  (A follow-up turn    *)
(* owns the conversation without it: agent.py:1073.)                         *)

WakesOnly == Kinds \cap {"followup", "click"} = {}

(* Only wakes have turns; a lock is held by a handler in its turn, of the    *)
(* conversation or of the bot it belongs to.                                 *)
OnlyWakes == \A t \in Task :
  task[t].pc \notin Later /\ (task[t].pc \in InTurn => task[t].kind = "wake")
HeldInTurn ==
  /\ \A c \in Conv : convLock[c] # None =>
       task[convLock[c]].pc \in InTurn /\ C(convLock[c]) = c
  /\ \A u \in User : wakeLock[u] # None =>
       task[wakeLock[u]].pc \in InTurn /\ Speaker[C(wakeLock[u])] = u

HeldInv == OnlyWakes /\ HeldInTurn

(* Nobody holds a lock at the start. *)
LEMMA InitHeld == Init => HeldInv
BY DEF Init, HeldInv, OnlyWakes, HeldInTurn, Later, InTurn, InRun, Ended, NotBegun

(* A handler that goes on, in its turn or outside of it, keeps its locks. *)
LEMMA HeldStep ==
  ASSUME IInv, HeldInv, NEW t \in Task, NEW p \in Phase, Goto(t, p), p \notin Later,
         task[t].pc # "idle", p \in InTurn <=> task[t].pc \in InTurn, UNCHANGED locks
  PROVE  HeldInv'
<1>1. TaskOK /\ RestOK BY TypeSplit DEF IInv
<1>2. Moved(t, p) BY <1>1, GotoMoves
<1>3. convLock' = convLock /\ wakeLock' = wakeLock BY DEF locks
<1>4. OnlyWakes' BY <1>2 DEF HeldInv, OnlyWakes, Moved, Others
<1>5. \A s \in Task : /\ task'[s].conv = task[s].conv
                      /\ task[s].pc \in InTurn => task'[s].pc \in InTurn
  BY <1>2 DEF Moved, Others
<1>6. HeldInTurn' BY <1>1, <1>3, <1>5 DEF HeldInv, HeldInTurn, RestOK, C
<1> QED BY <1>4, <1>6 DEF HeldInv

(* So does one that reads on its way. *)
LEMMA ReadsHeld ==
  ASSUME IInv, HeldInv, NEW t \in Task, ReadHistory(t) \/ ReadCoverage(t) \/ CoverageRead(t)
  PROVE  HeldInv'
<1>1. TaskOK /\ RestOK /\ task[t] \in TaskState BY TypeSplit DEF IInv, TaskOK
<1>2. /\ task'[t].pc \in InTurn \ Later /\ task[t].pc \in InTurn /\ task'[t].conv = task[t].conv
      /\ task'[t].kind = task[t].kind /\ Others(t)
  BY <1>1, Phases DEF ReadHistory, ReadCoverage, CoverageRead, Running, At, Others, TaskOK,
     TaskState, Later
<1>3. convLock' = convLock /\ wakeLock' = wakeLock
  BY DEF ReadHistory, ReadCoverage, CoverageRead, locks
<1>4. OnlyWakes' BY <1>2 DEF HeldInv, OnlyWakes, Others
<1>5. \A s \in Task : /\ task'[s].conv = task[s].conv
                      /\ task[s].pc \in InTurn => task'[s].pc \in InTurn
  BY <1>2 DEF Others
<1>6. HeldInTurn' BY <1>1, <1>3, <1>5 DEF HeldInv, HeldInTurn, RestOK, C
<1> QED BY <1>4, <1>6 DEF HeldInv

(* An update that arrives and begins no turn takes no lock, that of a bot    *)
(* included: the turn that makes its conversation busy has it.               *)
LEMMA ArrivesHeld ==
  ASSUME IInv, HeldInv, NEW t \in Task, NEW c \in Conv, NEW k \in AllKinds,
         NEW p \in Phase \ (InTurn \cup Later), Arrives(t, c, k, p), UNCHANGED locks
  PROVE  HeldInv'
<1>1. TaskOK /\ RestOK BY TypeSplit DEF IInv
<1>2. Others(t) /\ task[t].pc = "idle" /\ task'[t].pc = p BY <1>1, ArrivesMoves
<1>3. convLock' = convLock /\ wakeLock' = wakeLock BY DEF locks
<1>4. OnlyWakes' BY <1>2 DEF HeldInv, OnlyWakes, Others
<1>5. \A s \in Task : task[s].pc \in InTurn => task'[s] = task[s]
  BY <1>2, Phases DEF Others
<1>6. HeldInTurn' BY <1>1, <1>3, <1>5 DEF HeldInv, HeldInTurn, RestOK, C
<1> QED BY <1>4, <1>6 DEF HeldInv

(* Of a bot no wake finds its conversation busy and the lock free. *)
LEMMA BusyHeld ==
  ASSUME IInv, HeldInv, NEW c \in Conv, Speaker[c] \in Bots, convLock[c] # None
  PROVE  wakeLock[Speaker[c]] # None
<1>1. TaskOK /\ RestOK /\ None \notin Task BY TypeSplit, NamesOK DEF IInv
<1>2. PICK t \in Task : t = convLock[c] BY <1>1 DEF RestOK
<1>3. task[t].pc \in InTurn /\ C(t) = c /\ task[t].kind = "wake"
  BY <1>2 DEF HeldInv, HeldInTurn, OnlyWakes
<1>4. wakeLock[Speaker[c]] = t BY <1>3 DEF IInv, Safe, WakesOwn
<1> QED BY <1>1, <1>4

(* A turn begins with the locks it needs, which nobody had. *)
LEMMA BeginHeld ==
  ASSUME IInv, HeldInv, NEW t \in Task, NEW c \in Conv, WakeBegin(t, c)
  PROVE  HeldInv'
<1>1. TaskOK /\ RestOK BY TypeSplit DEF IInv
<1>2. "prepare" \in Phase /\ "prepare" \in InTurn /\ "prepare" \notin Later /\ "wake" \in AllKinds
  BY DEF Phase, InTurn, InRun, Ended, NotBegun, Later, AllKinds
<1>3. /\ Others(t) /\ task[t].pc = "idle" /\ task'[t].pc = "prepare" /\ task'[t].conv = c
      /\ task'[t].kind = "wake"
  BY <1>1, <1>2, ArrivesMoves DEF WakeBegin
<1>4. OnlyWakes' BY <1>2, <1>3 DEF HeldInv, OnlyWakes, Others
<1>5. \A s \in Task : task[s].pc \in InTurn => task'[s] = task[s]
  BY <1>3, Phases DEF Others
<1>6. /\ convLock' = [convLock EXCEPT ![c] = t]
      /\ wakeLock' = IF Speaker[c] \in Bots THEN [wakeLock EXCEPT ![Speaker[c]] = t] ELSE wakeLock
  BY DEF WakeBegin, TakeWakeLock
<1>7. HeldInTurn' BY <1>1, <1>2, <1>3, <1>5, <1>6 DEF HeldInv, HeldInTurn, RestOK, C
<1> QED BY <1>4, <1>7 DEF HeldInv

(* The finally of a handler gives back all its locks. *)
LEMMA ReleaseHeld ==
  ASSUME IInv, HeldInv, NEW t \in Task, Release(t)
  PROVE  HeldInv'
<1>1. TaskOK /\ RestOK /\ None \notin Task BY TypeSplit, NamesOK DEF IInv
<1>2. task[t].pc = "leave" /\ C(t) \in Conv /\ Speaker[C(t)] \in User
  BY <1>1, SpeakersOK DEF Release, At, TaskOK
<1>3. "done" \in Phase /\ "done" \notin InTurn \cup Later
  BY DEF Phase, InTurn, InRun, Ended, NotBegun, Later
<1>4. Moved(t, "done") BY <1>1, <1>2, <1>3, GotoMoves DEF Release
<1>5. OnlyWakes' BY <1>3, <1>4 DEF HeldInv, OnlyWakes, Moved, Others
<1>6. /\ convLock' = [convLock EXCEPT ![C(t)] = IF @ = t THEN None ELSE @]
      /\ wakeLock' = [wakeLock EXCEPT ![Speaker[C(t)]] = IF @ = t THEN None ELSE @]
  BY DEF Release, ReleaseConv, ReleaseWake
<1>7. \A s \in Task : s # t => task'[s] = task[s] BY <1>4 DEF Moved, Others
<1>8. \A c \in Conv : convLock'[c] # None => convLock'[c] = convLock[c] /\ convLock[c] # t
  BY <1>1, <1>2, <1>6 DEF HeldInv, HeldInTurn, RestOK
<1>9. \A u \in User : wakeLock'[u] # None => wakeLock'[u] = wakeLock[u] /\ wakeLock[u] # t
  BY <1>1, <1>2, <1>6 DEF HeldInv, HeldInTurn, RestOK
<1>10. HeldInTurn' BY <1>1, <1>7, <1>8, <1>9 DEF HeldInv, HeldInTurn, RestOK, C
<1> QED BY <1>5, <1>10 DEF HeldInv

(* No arrival leaves a lock behind. *)
LEMMA ArrivalHeld ==
  ASSUME WakesOnly, IInv, HeldInv, NEW t \in Task, NEW c \in Conv, Arrival(t, c)
  PROVE  HeldInv'
<1>1. {"done", "forget", "expired"} \subseteq Phase \ (InTurn \cup Later)
  BY DEF Phase, InTurn, InRun, Ended, NotBegun, Later
<1>2. {"wake", "forget", "button"} \subseteq AllKinds BY DEF AllKinds
<1>3. CASE WakeTurned(t, c) BY <1>1, <1>2, <1>3, ArrivesHeld DEF WakeTurned
<1>4. CASE WakeBusy(t, c)
  <2>1. Speaker[c] \notin Bots BY <1>4, BusyHeld DEF WakeBusy, WakeFree
  <2>2. UNCHANGED locks BY <1>4, <2>1 DEF WakeBusy, TakeWakeLock, locks
  <2> QED BY <1>1, <1>2, <1>4, <2>2, ArrivesHeld DEF WakeBusy
<1>5. CASE WakeBegin(t, c) BY <1>5, BeginHeld
<1>6. ~FollowArrives(t, c) BY DEF FollowArrives, Arrives, WakesOnly
<1>7. ASSUME NEW q \in Task PROVE ~Click(t, c, q) BY DEF Click, Arrives, WakesOnly
<1>8. ASSUME NEW k \in {"forget", "button"}, ForgetHistory(t, c, k) PROVE HeldInv'
  <2>1. UNCHANGED locks /\ (Arrives(t, c, k, "done") \/ Arrives(t, c, k, "forget"))
    BY <1>8 DEF ForgetHistory
  <2> QED BY <1>1, <1>2, <1>8, <2>1, ArrivesHeld
<1> QED BY <1>3, <1>4, <1>5, <1>6, <1>7, <1>8 DEF Arrival

(* Nor does a handler that goes on. *)
LEMMA ContinueHeld ==
  ASSUME IInv, HeldInv, NEW t \in Task,
         \/ Continue(t) \/ TurnRefused(t) \/ FollowIrrelevant(t) \/ AskRefused(t)
         \/ MigrateHistory(t) \/ ModelRequest(t) \/ SendQuestion(t) \/ RunFails(t)
  PROVE  HeldInv'
<1>1. ~FollowBegin(t) /\ ~FollowIrrelevant(t) /\ ~AskReads(t) /\ ~AskBegin(t) /\ ~AskRefused(t)
  BY DEF HeldInv, OnlyWakes, Later, FollowBegin, FollowIrrelevant, AskReads, AskBegin, AskRefused, At
<1>2. CASE ReadHistory(t) \/ ReadCoverage(t) \/ CoverageRead(t) BY <1>2, ReadsHeld
<1>3. CASE Release(t) BY <1>3, ReleaseHeld
<1>4. ASSUME NEW p \in Phase, Goto(t, p), p \notin Later, task[t].pc # "idle",
             p \in InTurn <=> task[t].pc \in InTurn, UNCHANGED locks
      PROVE  HeldInv'
  BY <1>4, HeldStep
<1>5. CASE StartRun(t) \/ TurnRefused(t)
  BY <1>4, <1>5, Phases DEF StartRun, TurnRefused, At, Phase, Later
<1>6. CASE BeginIter(t) \/ StoreQuestion(t) \/ SendQuestion(t) \/ MigrateHistory(t)
  BY <1>4, <1>6, Phases DEF BeginIter, StoreQuestion, SendQuestion, MigrateHistory, Running, At,
     Phase, Later, NotBegun
<1>7. CASE RunEnds(t) \/ Settle(t) \/ SaveHistory(t) \/ CoverageWrite(t) \/ ModelRequest(t)
  BY <1>4, <1>7, Phases DEF RunEnds, Settle, SaveHistory, CoverageWrite, ModelRequest, Running, At,
     Phase, Later
<1>8. CASE ExitIter(t) \/ RunCancelled(t) \/ RunFails(t)
  BY <1>4, <1>8, Phases DEF ExitIter, RunCancelled, RunFails, LeaveRun, Running, At, Phase, Later
<1>9. CASE ForgetCoverage(t) \/ ForgetSteering(t)
  BY <1>4, <1>9, Phases DEF ForgetCoverage, ForgetSteering, At, Phase, Later
<1> QED BY <1>1, <1>2, <1>3, <1>5, <1>6, <1>7, <1>8, <1>9 DEF Continue

(* Every step keeps the locks with the turns. *)
THEOREM NextHeld == ASSUME WakesOnly PROVE IInv /\ HeldInv /\ [Next]_vars => HeldInv'
<1> SUFFICES ASSUME IInv, HeldInv, [Next]_vars PROVE HeldInv' OBVIOUS
<1>1. CASE WipeCancels \/ WipeHistories \/ WipeCoverages \/ UNCHANGED vars
  BY <1>1 DEF WipeCancels, WipeHistories, WipeCoverages, vars, locks, HeldInv, OnlyWakes, HeldInTurn, C
<1>2. CASE WipeRest
  BY <1>2 DEF WipeRest, HeldInv, OnlyWakes, HeldInTurn, C
<1> QED BY <1>1, <1>2, ArrivalHeld, ContinueHeld DEF Next

(* Who has returned holds no lock. *)
LEMMA HeldMeans == HeldInv => WakeLockNotLeaked
BY Phases DEF HeldInv, HeldInTurn, WakeLockNotLeaked, At

(* No handler returns with a bot's wake lock, also after /clear_sessions,    *)
(* where the bot's turns are begun by wakes alone.                           *)
THEOREM WakeLockReleased == ASSUME WakesOnly PROVE Spec => []WakeLockNotLeaked
<1>1. IInv /\ HeldInv /\ [Next]_vars => HeldInv' BY NextHeld
<1> QED BY <1>1, HeldMeans, InitHeld, Invariance, PTL DEF Spec

-----------------------------------------------------------------------------
(* The two worlds of MCConversation: in the one where people only talk, what *)
(* holds of Spec holds.                                                      *)

Talk == about = "talk" => IInv /\ HInv

(* A step of the world is one of its conversation. *)
LEMMA TalkSteps ==
  ASSUME TalkOnly
  PROVE  Talk /\ [WorldNext]_world => Talk' /\ (about = "talk" => [StoredTurnsKept]_vars)
<1> SUFFICES ASSUME Talk, [WorldNext]_world
             PROVE  Talk' /\ (about = "talk" => [StoredTurnsKept]_vars)
  OBVIOUS
<1>1. about' = about BY DEF WorldNext, world
<1>2. about = "talk" => [Next]_vars BY DEF WorldNext, world
<1>3. ASSUME about = "talk" PROVE IInv' /\ HInv' /\ [StoredTurnsKept]_vars
  BY <1>2, <1>3, NextIInv, NextHInv DEF Talk
<1> QED BY <1>1, <1>3 DEF Talk

(* So throughout. *)
LEMMA TalkInvariance == ASSUME TalkOnly PROVE WorldSpec => []Talk
<1>1. WorldInit => Talk BY InitIInv, InitHInv DEF WorldInit, Talk
<1>2. Talk /\ [WorldNext]_world => Talk' BY TalkSteps
<1> QED BY <1>1, <1>2, PTL DEF WorldSpec

(* What /forget erased is not written back, and a prompt leaves out only     *)
(* what its history has or was erased, whoever interleaves with whom.        *)
THEOREM ForgetIsFinalHolds == ASSUME TalkOnly PROVE WorldSpec => []ForgetIsFinal
<1>1. Talk => ForgetIsFinal BY DEF Talk, HInv, ForgetIsFinal
<1> QED BY <1>1, TalkInvariance, PTL

(* No turn stores a history that has lost what another turn stored.          *)
THEOREM TurnsKeptUnaskedHolds == ASSUME TalkOnly PROVE WorldSpec => TurnsKeptUnasked
<1>1. Talk /\ [WorldNext]_world => [about = "talk" => StoredTurnsKept]_world
  <2> SUFFICES ASSUME Talk, [WorldNext]_world
               PROVE  (about = "talk" => StoredTurnsKept) \/ world' = world
    OBVIOUS
  <2>1. about' = about BY DEF WorldNext, world
  <2>2. about = "talk" => StoredTurnsKept \/ vars' = vars BY TalkSteps
  <2>3. CASE vars' = vars BY <2>1, <2>3 DEF world
  <2> QED BY <2>2, <2>3
<1> QED BY <1>1, TalkInvariance, PTL DEF WorldSpec, TurnsKeptUnasked
=============================================================================
