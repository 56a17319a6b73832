-------------------------- MODULE VerifySession_proofs --------------------------
(***************************************************************************)
(* Proofs about VerifySession, for every set of handlers, every strategy,  *)
(* every way to fail, and for every bound; and about the worlds of MCEnds, *)
(* of which it is one.                                                     *)
(***************************************************************************)
EXTENDS MCEnds, TLAPS

----------------------------------------------------------------------------
\* The type invariant, strengthened: a handler that works on a session has one.

HasSession(w) == work[w].pc \in Holding => S(w) \in Session
TypeInv == TypeOK /\ \A w \in Worker : HasSession(w)

\* Its two halves: the handlers, and everything else.
WorkOK == work \in [Worker -> WorkState] /\ \A w \in Worker : HasSession(w)
RestOK ==
  /\ config \in {"on", "off", "gone"} /\ member \in {"in", "out", "banned"}
  /\ muted \in BOOLEAN /\ verified \in BOOLEAN
  /\ row \in [s : Session, left : Int] \cup {None}
  /\ sessions \subseteq Session /\ byUser \in sessions \cup {None}
  /\ left \in [Session -> Int] /\ cap \in [Session -> BOOLEAN]
  /\ posted \subseteq Session /\ expired \subseteq Session /\ made \in 0..MaxSessions
  /\ lock \in Task \cup {None}
  /\ gone \in 0..MaxGone /\ popping \in 0..MaxGone
  /\ loaded \in BOOLEAN /\ crashes \in 0..MaxCrashes /\ faults \in 0..MaxFaults

\* The strengthened type invariant is these two.
LEMMA TypeSplit == TypeInv <=> WorkOK /\ RestOK
BY DEF TypeInv, TypeOK, WorkOK, RestOK

\* A handler of an update is one of the workers.
LEMMA TaskWorks == \A t \in Task : t \in Worker /\ t # Sweep /\ t # None
BY NamesOK DEF Worker

----------------------------------------------------------------------------
\* How handlers move.

\* A handler that only goes on takes what it knows along.
LEMMA Moves ==
  ASSUME work \in [Worker -> WorkState], NEW w \in Worker, NEW p \in Pc, Goto(w, p)
  PROVE  /\ work' \in [Worker -> WorkState]
         /\ work'[w].pc = p /\ work'[w].s = work[w].s /\ work'[w].then = work[w].then
         /\ work'[w].kind = work[w].kind
         /\ \A x \in Worker : x # w => work'[x] = work[x]
BY DEF Goto, WorkState

\* What it takes along is a session, if it was one before or need not be.
LEMMA MovesTyped ==
  ASSUME work \in [Worker -> WorkState], \A x \in Worker : HasSession(x),
         NEW w \in Worker, NEW p \in Pc, Goto(w, p),
         p \in Holding => S(w) \in Session
  PROVE  work' \in [Worker -> WorkState] /\ \A x \in Worker : HasSession(x)'
BY Moves DEF HasSession, S

\* The step after an effect of the clean-up is one of the clean-up.
LEMMA AfterSteps ==
  ASSUME NEW w \in Worker
  PROVE  /\ After(w) \in {"unban", "mark", "forget", "drop"}
         /\ After(w) \in Pc
         /\ At(w, "drop") => After(w) = "forget"
BY DEF After, At, Pc, Holding

\* The update of a handler arrives.
LEMMA Enters ==
  ASSUME work \in [Worker -> WorkState], NEW t \in Worker,
         NEW k \in AllInputs, NEW p \in Pc, Enter(t, k, p)
  PROVE  /\ work' \in [Worker -> WorkState]
         /\ work[t].pc = "idle" /\ work'[t].pc = p
         /\ work'[t].then = work[t].then /\ work'[t].s = work[t].s
         /\ \A x \in Worker : x # t => work'[x] = work[x]
BY DEF Enter, At, WorkState

----------------------------------------------------------------------------
\* Nobody has a session at the start.
THEOREM InitType == Init => TypeInv
<1> SUFFICES ASSUME Init PROVE WorkOK /\ RestOK
  BY TypeSplit
<1>1. \A w \in Worker : work[w] \in WorkState /\ work[w].pc = "idle"
  BY DEF Init, WorkState, Pc, Over
<1>2. WorkOK
  BY <1>1 DEF Init, WorkOK, HasSession, Holding
<1>3. MaxAttempts \in Int /\ {MaxSessions, MaxGone, MaxCrashes, MaxFaults} \subseteq Nat
  BY BoundsOK
<1>4. left \in [Session -> Int] /\ cap \in [Session -> BOOLEAN]
  BY <1>3 DEF Init
<1>5. /\ made \in 0..MaxSessions /\ gone \in 0..MaxGone /\ popping \in 0..MaxGone
      /\ crashes \in 0..MaxCrashes /\ faults \in 0..MaxFaults
  BY <1>3 DEF Init
<1>6. RestOK
  BY <1>4, <1>5 DEF Init, RestOK
<1> QED
  BY <1>2, <1>6

\* What a step may do to the parts that several actions share.
LEMMA Shares ==
  ASSUME TypeInv
  PROVE  /\ \A w \in Worker : Unlock(w) => lock' \in Task \cup {None}
         /\ \A s \in Session : Register(s) \/ Unregister(s) =>
              sessions' \subseteq Session /\ byUser' \in sessions' \cup {None}
         /\ \A s \in Session : Merge(s) => row' \in [s : Session, left : Int] \cup {None}
         /\ Departed => gone' \in 0..MaxGone
         /\ Fault => faults' \in 0..MaxFaults
<1> USE DEF TypeInv, TypeOK
<1>1. \A w \in Worker : Unlock(w) => lock' \in Task \cup {None}
  BY DEF Unlock
<1>2. \A s \in Session : Register(s) \/ Unregister(s) =>
        sessions' \subseteq Session /\ byUser' \in sessions' \cup {None}
  BY DEF Register, Unregister
<1>3. \A s \in Session : Merge(s) => row' \in [s : Session, left : Int] \cup {None}
  BY DEF Merge
<1>4. (Departed => gone' \in 0..MaxGone) /\ (Fault => faults' \in 0..MaxFaults)
  BY BoundsOK DEF Departed, Fault
<1> QED
  BY <1>1, <1>2, <1>3, <1>4

\* Every step keeps the shape of every part, and who works on a session has it.
THEOREM NextType == TypeInv /\ [Next]_vars => TypeInv'
<1> SUFFICES ASSUME TypeInv, [Next]_vars PROVE WorkOK' /\ RestOK'
  BY TypeSplit, PTL
<1>0. WorkOK /\ RestOK
  BY TypeSplit
<1> USE <1>0
<1>a. Answers \cup AdminActs \subseteq AllInputs /\ Inputs \subseteq AllInputs
  BY InputsOK DEF AllInputs
<1> DEFINE Typed == WorkOK' /\ RestOK'
<1>1. ASSUME NEW t \in Task, ReadConfig(t)
      PROVE  Typed
  <2>1. WorkOK'
    BY <1>1, TaskWorks, MovesTyped DEF ReadConfig, WorkOK, Pc, Over, Holding,
       HasSession, At
  <2>2. RestOK'
    BY <1>1, TaskWorks, Shares DEF ReadConfig, RestOK, telegram, stored, registry,
       fates, departures, world
  <2> QED
    BY <2>1, <2>2
<1>2. ASSUME NEW t \in Task, TakeLock(t)
      PROVE  Typed
  <2>1. WorkOK'
    BY <1>2, TaskWorks, MovesTyped DEF TakeLock, WorkOK, Pc, Over, Holding, HasSession,
       At
  <2>2. RestOK'
    BY <1>2, TaskWorks, Shares DEF TakeLock, RestOK, telegram, stored, registry, fates,
       departures, world
  <2> QED
    BY <2>1, <2>2
<1>3. ASSUME NEW t \in Task, ReadMember(t)
      PROVE  Typed
  <2>1. WorkOK'
    BY <1>3, TaskWorks, MovesTyped DEF ReadMember, WorkOK, Pc, Over, Holding,
       HasSession, At
  <2>2. RestOK'
    BY <1>3, TaskWorks, Shares DEF ReadMember, RestOK, telegram, stored, registry,
       fates, departures, world
  <2> QED
    BY <2>1, <2>2
<1>4. ASSUME NEW t \in Task, CreateRefused(t)
      PROVE  Typed
  <2>1. WorkOK'
    BY <1>4, TaskWorks, MovesTyped DEF CreateRefused, WorkOK, Pc, Over, Holding,
       HasSession, At
  <2>2. RestOK'
    BY <1>4, TaskWorks, Shares DEF CreateRefused, RestOK, telegram, stored, registry,
       fates, departures, world
  <2> QED
    BY <2>1, <2>2
<1>5. ASSUME NEW t \in Task, Restrict(t)
      PROVE  Typed
  <2>1. WorkOK'
    BY <1>5, TaskWorks, MovesTyped DEF Restrict, WorkOK, Pc, Over, Holding, HasSession,
       At
  <2>2. RestOK'
    BY <1>5, TaskWorks, Shares DEF Restrict, RestOK, telegram, stored, registry, fates,
       departures, world, SetRights, WorkOK, HasSession, At, Holding
  <2> QED
    BY <2>1, <2>2
<1>6. ASSUME NEW t \in Task, Send(t)
      PROVE  Typed
  <2>1. WorkOK'
    BY <1>6, TaskWorks, MovesTyped DEF Send, WorkOK, Pc, Over, Holding, HasSession, At
  <2>2. RestOK'
    BY <1>6, TaskWorks, Shares DEF Send, RestOK, telegram, stored, registry, fates,
       departures, world, WorkOK, HasSession, At, Holding
  <2> QED
    BY <2>1, <2>2
<1>7. ASSUME NEW t \in Task, Finish(t)
      PROVE  Typed
  <2>1. WorkOK'
    BY <1>7, TaskWorks, MovesTyped DEF Finish, WorkOK, Pc, Over, Holding, HasSession, At
  <2>2. RestOK'
    BY <1>7, TaskWorks, Shares DEF Finish, RestOK, telegram, stored, registry, fates,
       departures, world, WorkOK, HasSession, At, Holding
  <2> QED
    BY <2>1, <2>2
<1>8. ASSUME NEW t \in Task, FinishFails(t)
      PROVE  Typed
  <2>1. WorkOK'
    BY <1>8, TaskWorks, MovesTyped DEF FinishFails, WorkOK, Pc, Over, Holding,
       HasSession, At
  <2>2. RestOK'
    BY <1>8, TaskWorks, Shares DEF FinishFails, RestOK, telegram, stored, registry,
       fates, departures, world
  <2> QED
    BY <2>1, <2>2
<1>9. ASSUME NEW t \in Task, StoreAnswer(t)
      PROVE  Typed
  <2>1. WorkOK'
    BY <1>9, TaskWorks, MovesTyped DEF StoreAnswer, WorkOK, Pc, Over, Holding,
       HasSession, At
  <2>2. RestOK'
    BY <1>9, TaskWorks, Shares DEF StoreAnswer, RestOK, telegram, stored, registry,
       fates, departures, world, WorkOK, HasSession, At, Holding
  <2> QED
    BY <2>1, <2>2
<1>10. ASSUME NEW t \in Task, RestrictFails(t)
      PROVE  Typed
  <2>1. WorkOK'
    BY <1>10, TaskWorks, MovesTyped DEF RestrictFails, WorkOK, Pc, Over, Holding,
       HasSession, At
  <2>2. RestOK'
    BY <1>10, TaskWorks, Shares DEF RestrictFails, RestOK, telegram, stored, registry,
       fates, departures, world
  <2> QED
    BY <2>1, <2>2
<1>11. ASSUME NEW w \in Worker, EffectFails(w)
      PROVE  Typed
  <2>1. WorkOK'
    BY <1>11, TaskWorks, MovesTyped, AfterSteps DEF EffectFails, WorkOK, Pc, Over,
       Holding, HasSession, At
  <2>2. RestOK'
    BY <1>11, TaskWorks, Shares DEF EffectFails, RestOK, telegram, stored, registry,
       fates, departures, world
  <2> QED
    BY <2>1, <2>2
<1>12. ASSUME NEW w \in Worker, Punish(w)
      PROVE  Typed
  <2>1. WorkOK'
    BY <1>12, TaskWorks, MovesTyped, AfterSteps DEF Punish, WorkOK, Pc, Over, Holding,
       HasSession, At
  <2>2. RestOK'
    BY <1>12, TaskWorks, Shares DEF Punish, RestOK, telegram, stored, registry, fates,
       departures, world, Ban
  <2> QED
    BY <2>1, <2>2
<1>13. ASSUME NEW w \in Worker, Unban(w)
      PROVE  Typed
  <2>1. WorkOK'
    BY <1>13, TaskWorks, MovesTyped, AfterSteps DEF Unban, WorkOK, Pc, Over, Holding,
       HasSession, At
  <2>2. RestOK'
    BY <1>13, TaskWorks, Shares DEF Unban, RestOK, telegram, stored, registry, fates,
       departures, world, SetRights
  <2> QED
    BY <2>1, <2>2
<1>14. ASSUME NEW w \in Worker, Restore(w)
      PROVE  Typed
  <2>1. WorkOK'
    BY <1>14, TaskWorks, MovesTyped, AfterSteps DEF Restore, WorkOK, Pc, Over, Holding,
       HasSession, At
  <2>2. RestOK'
    BY <1>14, TaskWorks, Shares DEF Restore, RestOK, telegram, stored, registry, fates,
       departures, world, SetRights, WorkOK, HasSession, At, Holding
  <2> QED
    BY <2>1, <2>2
<1>15. ASSUME NEW w \in Worker, FailGone(w)
      PROVE  Typed
  <2>1. WorkOK'
    BY <1>15, TaskWorks, MovesTyped, AfterSteps DEF FailGone, WorkOK, Pc, Over, Holding,
       HasSession, At
  <2>2. RestOK'
    BY <1>15, TaskWorks, Shares DEF FailGone, RestOK, telegram, stored, registry, fates,
       departures, world
  <2> QED
    BY <2>1, <2>2
<1>16. ASSUME NEW w \in Worker, MarkVerified(w)
      PROVE  Typed
  <2>1. WorkOK'
    BY <1>16, TaskWorks, MovesTyped, AfterSteps DEF MarkVerified, WorkOK, Pc, Over,
       Holding, HasSession, At
  <2>2. RestOK'
    BY <1>16, TaskWorks, Shares DEF MarkVerified, RestOK, telegram, stored, registry,
       fates, departures, world
  <2> QED
    BY <2>1, <2>2
<1>17. ASSUME NEW w \in Worker, Drop(w)
      PROVE  Typed
  <2>1. WorkOK'
    BY <1>17, TaskWorks, MovesTyped, AfterSteps DEF Drop, WorkOK, Pc, Over, Holding,
       HasSession, At
  <2>2. RestOK'
    BY <1>17, TaskWorks, Shares DEF Drop, RestOK, telegram, stored, registry, fates,
       departures, world
  <2> QED
    BY <2>1, <2>2
<1>18. ASSUME NEW w \in Worker, Forget(w)
      PROVE  Typed
  <2>1. WorkOK'
    <3>1. work[w].then \in Pc \ Holding
      BY DEF WorkOK, WorkState, Pc, Over, Holding
    <3> QED
      BY <1>18, <3>1, MovesTyped DEF Forget, WorkOK
  <2>2. RestOK'
    BY <1>18, TaskWorks, Shares DEF Forget, RestOK, telegram, stored, registry, fates,
       departures, world, WorkOK, HasSession, At, Holding
  <2> QED
    BY <2>1, <2>2
<1>19. ASSUME NEW t \in Task, Join(t)
      PROVE  Typed
  <2>1. WorkOK'
    BY <1>19, TaskWorks, <1>a DEF Join, Enter, WorkOK, WorkState, HasSession, S, At, Pc,
       Over, Holding
  <2>2. RestOK'
    BY <1>19, TaskWorks DEF Join, RestOK, telegram, stored, registry, fates, departures,
       world
  <2> QED
    BY <2>1, <2>2
<1>20. ASSUME NEW t \in Task, Message(t)
      PROVE  Typed
  <2>1. WorkOK'
    BY <1>20, TaskWorks, <1>a DEF Message, Enter, WorkOK, WorkState, HasSession, S, At,
       Pc, Over, Holding
  <2>2. RestOK'
    BY <1>20, TaskWorks DEF Message, RestOK, telegram, stored, registry, fates,
       departures, world
  <2> QED
    BY <2>1, <2>2
<1>21. ASSUME NEW t \in Task, TestVerify(t)
      PROVE  Typed
  <2>1. WorkOK'
    BY <1>21, TaskWorks DEF TestVerify, RestOK, AllInputs, WorkOK, WorkState,
       HasSession, S, At, Pc, Over, Holding
  <2>2. RestOK'
    BY <1>21, TaskWorks DEF TestVerify, RestOK, telegram, stored, registry, fates,
       departures, world
  <2> QED
    BY <2>1, <2>2
<1>22. ASSUME NEW t \in Task, NEW s \in Session, NEW k \in Answers \cup AdminActs, Press(t, s, k)
      PROVE  Typed
  <2>1. WorkOK'
    BY <1>22, TaskWorks, <1>a DEF Press, RestOK, WorkOK, WorkState, HasSession, S, At,
       Pc, Over, Holding
  <2>2. RestOK'
    BY <1>22, TaskWorks DEF Press, RestOK, telegram, stored, registry, fates,
       departures, world
  <2> QED
    BY <2>1, <2>2
<1>23. ASSUME NEW t \in Task, Capture(t)
      PROVE  Typed
  <2>1. WorkOK'
    BY <1>23, TaskWorks DEF Capture, RestOK, WorkOK, WorkState, HasSession, S, At, Pc,
       Over, Holding
  <2>2. RestOK'
    BY <1>23, TaskWorks DEF Capture, RestOK, telegram, stored, registry, fates,
       departures, world
  <2> QED
    BY <2>1, <2>2
<1>24. ASSUME NEW t \in Task, Create(t)
      PROVE  Typed
  <2>1. WorkOK'
    BY <1>24, TaskWorks, BoundsOK DEF Create, RestOK, Session, WorkOK, WorkState,
       HasSession, S, At, Pc, Over, Holding
  <2>2. RestOK'
    <3> DEFINE s == made + 1
    <3>1. s \in Session /\ s \in 0..MaxSessions
      BY <1>24, BoundsOK DEF Create, RestOK, Session
    <3>2. /\ made' = s /\ row' = [s |-> s, left |-> MaxAttempts]
          /\ cap' = [cap EXCEPT ![s] = work[t].cap]
          /\ IF Mutes THEN UNCHANGED <<sessions, byUser>> ELSE Register(s)
          /\ UNCHANGED <<telegram, verified, left, expired, departures, world, lock>>
      BY <1>24 DEF Create
    <3>3. work[t].cap \in BOOLEAN
      BY TaskWorks DEF WorkOK, WorkState
    <3>4. row' \in [s : Session, left : Int] /\ cap' \in [Session -> BOOLEAN]
      BY <3>1, <3>2, <3>3, BoundsOK DEF RestOK
    <3>5. sessions' \subseteq Session /\ byUser' \in sessions' \cup {None}
      BY <3>1, <3>2, Shares DEF RestOK
    <3> HIDE DEF s
    <3> QED
      BY <3>1, <3>2, <3>4, <3>5 DEF RestOK, telegram, departures, world
  <2> QED
    BY <2>1, <2>2
<1>25. ASSUME NEW t \in Task, Judge(t)
      PROVE  Typed
  <2>1. WorkOK'
    BY <1>25, TaskWorks DEF Judge, Goto, WorkOK, WorkState, HasSession, S, At, Pc, Over,
       Holding
  <2>2. RestOK'
    BY <1>25, TaskWorks DEF Judge, WorkOK, HasSession, At, Holding, RestOK, telegram,
       stored, registry, fates, departures, world
  <2> QED
    BY <2>1, <2>2
<1>26. ASSUME SweepStart
      PROVE  Typed
  <2>1. WorkOK'
    <3>1. row.s \in Session /\ Sweep \in Worker
      BY <1>26 DEF SweepStart, RestOK, Worker
    <3>2. /\ work' \in [Worker -> WorkState]
          /\ work'[Sweep].s = row.s
          /\ \A w \in Worker : w # Sweep => work'[w] = work[w]
      BY <1>26, <3>1 DEF SweepStart, WorkOK, WorkState, Pc, Holding
    <3> QED
      BY <3>1, <3>2 DEF WorkOK, HasSession, S
  <2>2. RestOK'
    BY <1>26, TaskWorks DEF SweepStart, RestOK, telegram, stored, registry, fates,
       departures, world
  <2> QED
    BY <2>1, <2>2
<1>27. ASSUME SweepLook
      PROVE  Typed
  <2>1. WorkOK'
    BY <1>27, TaskWorks DEF SweepLook, Goto, Worker, WorkOK, WorkState, HasSession, S,
       At, Pc, Over, Holding
  <2>2. RestOK'
    BY <1>27, TaskWorks DEF SweepLook, RestOK, telegram, stored, registry, fates,
       departures, world
  <2> QED
    BY <2>1, <2>2
<1>28. ASSUME Leave
      PROVE  Typed
  <2>1. WorkOK'
    BY <1>28, TaskWorks DEF Leave, WorkOK, WorkState, HasSession, S, At, Pc, Over,
       Holding
  <2>2. RestOK'
    BY <1>28, TaskWorks, Shares DEF Leave, RestOK, telegram, stored, registry, fates,
       departures, world
  <2> QED
    BY <2>1, <2>2
<1>29. ASSUME LeftDelete
      PROVE  Typed
  <2>1. WorkOK'
    BY <1>29, TaskWorks DEF LeftDelete, WorkOK, WorkState, HasSession, S, At, Pc, Over,
       Holding
  <2>2. RestOK'
    BY <1>29, TaskWorks, BoundsOK, Shares DEF LeftDelete, RestOK, telegram, stored,
       registry, fates, departures, world
  <2> QED
    BY <2>1, <2>2
<1>30. ASSUME LeftPop
      PROVE  Typed
  <2>1. WorkOK'
    BY <1>30, TaskWorks DEF LeftPop, WorkOK, WorkState, HasSession, S, At, Pc, Over,
       Holding
  <2>2. RestOK'
    <3>1. sessions' \subseteq Session /\ byUser' \in sessions' \cup {None}
      BY <1>30, Shares DEF LeftPop, RestOK
    <3>2. popping' \in 0..MaxGone
      BY <1>30, BoundsOK DEF LeftPop, RestOK
    <3> QED
      BY <1>30, <3>1, <3>2 DEF LeftPop, RestOK, telegram, stored, fates, world
  <2> QED
    BY <2>1, <2>2
<1>31. ASSUME NEW s \in Session, Expire(s)
      PROVE  Typed
  <2>1. WorkOK'
    BY <1>31, TaskWorks DEF Expire, WorkOK, WorkState, HasSession, S, At, Pc, Over,
       Holding
  <2>2. RestOK'
    BY <1>31, TaskWorks DEF Expire, RestOK, telegram, stored, registry, fates,
       departures, world
  <2> QED
    BY <2>1, <2>2
<1>32. ASSUME NEW c \in {"on", "off", "gone"}, SetConfig(c)
      PROVE  Typed
  <2>1. WorkOK'
    BY <1>32, TaskWorks DEF SetConfig, WorkOK, WorkState, HasSession, S, At, Pc, Over,
       Holding
  <2>2. RestOK'
    BY <1>32, TaskWorks DEF SetConfig, RestOK, telegram, stored, registry, fates,
       departures, world
  <2> QED
    BY <2>1, <2>2
<1>33. ASSUME Restart
      PROVE  Typed
  <2>1. WorkOK'
    <3>1. ASSUME NEW w \in Worker
          PROVE  work'[w] \in WorkState /\ HasSession(w)'
      <4>1. work'[w] \in {[work[w] EXCEPT !.pc = "idle"], work[w], [work[w] EXCEPT !.pc = "done"]}
        BY <1>33 DEF Restart
      <4>2. work[w] \in WorkState /\ HasSession(w)
        BY DEF WorkOK
      <4> QED
        BY <4>1, <4>2 DEF WorkState, HasSession, S, Pc, Over, Holding
    <3>2. work' = [w \in Worker |-> work'[w]]
      BY <1>33 DEF Restart
    <3> QED
      BY <3>1, <3>2 DEF WorkOK
  <2>2. RestOK'
    <3>1. gone' \in 0..MaxGone /\ popping' \in 0..MaxGone /\ crashes' \in 0..MaxCrashes
      BY <1>33, BoundsOK DEF Restart, RestOK
    <3> QED
      BY <1>33, <3>1 DEF Restart, RestOK, telegram, stored, fates
  <2> QED
    BY <2>1, <2>2
<1>34. ASSUME Load
      PROVE  Typed
  <2>1. WorkOK'
    BY <1>34, TaskWorks DEF Load, WorkOK, WorkState, HasSession, S, At, Pc, Over,
       Holding
  <2>2. RestOK'
    BY <1>34, TaskWorks, Shares DEF Load, RestOK, telegram, stored, registry, fates,
       departures, world
  <2> QED
    BY <2>1, <2>2
<1>35. ASSUME UNCHANGED vars
      PROVE  Typed
  <2>1. WorkOK'
    BY <1>35, TaskWorks DEF vars, WorkOK, WorkState, HasSession, S, At, Pc, Over,
       Holding
  <2>2. RestOK'
    BY <1>35, TaskWorks DEF vars, RestOK, telegram, stored, registry, fates, departures,
       world
  <2> QED
    BY <2>1, <2>2
<1> QED
  BY <1>1, <1>2, <1>3, <1>4, <1>5, <1>6, <1>7, <1>8, <1>9, <1>10, <1>11, <1>12, <1>13,
     <1>14, <1>15, <1>16, <1>17, <1>18, <1>19, <1>20, <1>21, <1>22, <1>23, <1>24, <1>25,
     <1>26, <1>27, <1>28, <1>29, <1>30, <1>31, <1>32, <1>33, <1>34, <1>35 DEF Next,
     Handle, Complete

\* TypeCorrect: every part keeps its shape, in every reachable state.
THEOREM TypeCorrect == Spec => []TypeOK
<1>1. TypeInv => TypeOK
  BY DEF TypeInv
<1> QED
  BY InitType, NextType, <1>1, PTL DEF Spec

----------------------------------------------------------------------------
\* The registry and the database.  Between the two writes of one handler they
\* disagree: what makes the invariant inductive is that a handler is then on
\* its way to put them right, or a departure is.

Cleaning == {"send", "finish", "undo", "drop", "forget"}
Cleans(w) == work[w].pc \in Cleaning /\ SameId(S(w), byUser)
Matched == row # None /\ SameId(row.s, byUser)
StoredInv == byUser # None => Matched \/ popping > 0 \/ \E w \in Worker : Cleans(w)

\* Having the same id is an equivalence.
LEMMA Ids ==
  \A a, b, c : /\ SameId(a, a) /\ (SameId(a, b) => SameId(b, a))
               /\ (SameId(a, b) /\ SameId(b, c) => SameId(a, c))
BY DEF SameId

\* A step that leaves the entry and the row alone keeps them related, as long
\* as whoever was to put them right still is.
LEMMA StoredStays ==
  ASSUME StoredInv, byUser' = byUser, row' = row, popping > 0 => popping' > 0,
         \A w \in Worker : Cleans(w) => Cleans(w)'
  PROVE  StoredInv'
BY DEF StoredInv, Matched, SameId

\* So does a handler that goes on, if its next step is one of these again.
LEMMA GoesOn ==
  ASSUME WorkOK, NEW w \in Worker, NEW p \in Pc, Goto(w, p), byUser' = byUser,
         Cleans(w) => p \in Cleaning
  PROVE  \A x \in Worker : Cleans(x) => Cleans(x)'
BY Moves DEF WorkOK, Cleans, SameId, S

\* And one whose record changes before or after them.
LEMMA Others ==
  ASSUME NEW w \in Worker, ~Cleans(w), byUser' = byUser,
         \A x \in Worker : x # w => work'[x] = work[x]
  PROVE  \A x \in Worker : Cleans(x) => Cleans(x)'
BY DEF Cleans, SameId, S

\* A row that is written for a session takes the place of the one that was
\* there, or of the handler that wrote it.
LEMMA MergeKeeps ==
  ASSUME TypeInv, StoredInv, NEW t \in Worker, CanMerge(S(t)), Merge(S(t)), S(t) \in Session,
         NEW p \in Pc, Goto(t, p), byUser' = byUser, popping' = popping
  PROVE  StoredInv'
<1>1. row' # None /\ row'.s = S(t)
  BY NamesOK DEF Merge, TypeInv, TypeOK
<1>2. ASSUME byUser # None, Matched
      PROVE  Matched'
  BY <1>1, <1>2, Ids DEF Matched, CanMerge, SameId
<1>3. ASSUME NEW w \in Worker, Cleans(w)
      PROVE  Matched' \/ Cleans(w)'
  <2>1. CASE w = t
    BY <1>1, <1>3, <2>1 DEF Cleans, Matched, SameId
  <2>2. CASE w # t
    BY <1>3, <2>2, Moves DEF TypeInv, TypeOK, Cleans, SameId, S
  <2> QED
    BY <2>1, <2>2
<1> QED
  BY <1>2, <1>3 DEF StoredInv

\* Nothing is registered at the start.
LEMMA InitStored == Init => StoredInv
BY DEF Init, StoredInv

\* A registered session has its row, or somebody is about to see to it.
LEMMA NextStored == TypeInv /\ StoredInv /\ [Next]_vars => StoredInv'
<1> SUFFICES ASSUME TypeInv, StoredInv, [Next]_vars PROVE StoredInv'
  OBVIOUS
<1>0. WorkOK /\ RestOK
  BY TypeSplit
<1>1. ASSUME NEW t \in Task, ReadConfig(t)
      PROVE  StoredInv'
  <2>1. \A w \in Worker : Cleans(w) => Cleans(w)'
    BY <1>1, <1>0, TaskWorks, GoesOn DEF ReadConfig, At, Cleans, Cleaning, Pc, Over,
       Holding, telegram, stored, registry, fates, departures, world
  <2> QED
    BY <1>1, <2>1, StoredStays DEF ReadConfig, telegram, stored, registry, fates,
       departures, world
<1>2. ASSUME NEW t \in Task, TakeLock(t)
      PROVE  StoredInv'
  <2>1. \A w \in Worker : Cleans(w) => Cleans(w)'
    BY <1>2, <1>0, TaskWorks, GoesOn DEF TakeLock, At, Cleans, Cleaning, Pc, Over,
       Holding, telegram, stored, registry, fates, departures, world
  <2> QED
    BY <1>2, <2>1, StoredStays DEF TakeLock, telegram, stored, registry, fates,
       departures, world
<1>3. ASSUME NEW t \in Task, ReadMember(t)
      PROVE  StoredInv'
  <2>1. \A w \in Worker : Cleans(w) => Cleans(w)'
    BY <1>3, <1>0, TaskWorks, GoesOn DEF ReadMember, At, Cleans, Cleaning, Pc, Over,
       Holding, telegram, stored, registry, fates, departures, world
  <2> QED
    BY <1>3, <2>1, StoredStays DEF ReadMember, telegram, stored, registry, fates,
       departures, world
<1>4. ASSUME NEW t \in Task, CreateRefused(t)
      PROVE  StoredInv'
  <2>1. \A w \in Worker : Cleans(w) => Cleans(w)'
    BY <1>4, <1>0, TaskWorks, GoesOn DEF CreateRefused, At, Cleans, Cleaning, Pc, Over,
       Holding, telegram, stored, registry, fates, departures, world
  <2> QED
    BY <1>4, <2>1, StoredStays DEF CreateRefused, telegram, stored, registry, fates,
       departures, world
<1>5. ASSUME NEW t \in Task, Send(t)
      PROVE  StoredInv'
  <2>1. \A w \in Worker : Cleans(w) => Cleans(w)'
    BY <1>5, <1>0, TaskWorks, GoesOn DEF Send, At, Cleans, Cleaning, Pc, Over, Holding,
       telegram, stored, registry, fates, departures, world
  <2> QED
    BY <1>5, <2>1, StoredStays DEF Send, telegram, stored, registry, fates, departures,
       world
<1>6. ASSUME NEW t \in Task, FinishFails(t)
      PROVE  StoredInv'
  <2>1. \A w \in Worker : Cleans(w) => Cleans(w)'
    BY <1>6, <1>0, TaskWorks, GoesOn DEF FinishFails, At, Cleans, Cleaning, Pc, Over,
       Holding, telegram, stored, registry, fates, departures, world
  <2> QED
    BY <1>6, <2>1, StoredStays DEF FinishFails, telegram, stored, registry, fates,
       departures, world
<1>7. ASSUME NEW t \in Task, RestrictFails(t)
      PROVE  StoredInv'
  <2>1. \A w \in Worker : Cleans(w) => Cleans(w)'
    BY <1>7, <1>0, TaskWorks, GoesOn DEF RestrictFails, At, Cleans, Cleaning, Pc, Over,
       Holding, telegram, stored, registry, fates, departures, world
  <2> QED
    BY <1>7, <2>1, StoredStays DEF RestrictFails, telegram, stored, registry, fates,
       departures, world
<1>8. ASSUME NEW t \in Task, Judge(t)
      PROVE  StoredInv'
  <2>1. \A w \in Worker : Cleans(w) => Cleans(w)'
    BY <1>8, <1>0, TaskWorks, GoesOn DEF Judge, At, Cleans, Cleaning, Pc, Over, Holding,
       telegram, stored, registry, fates, departures, world
  <2> QED
    BY <1>8, <2>1, StoredStays DEF Judge, telegram, stored, registry, fates, departures,
       world
<1>9. ASSUME NEW w \in Worker, EffectFails(w)
      PROVE  StoredInv'
  <2>1. \A x \in Worker : Cleans(x) => Cleans(x)'
    BY <1>9, <1>0, AfterSteps, GoesOn DEF EffectFails, At, After, Cleans, Cleaning, Pc,
       Over, Holding, telegram, stored, registry, fates, departures, world
  <2> QED
    BY <1>9, <2>1, StoredStays DEF EffectFails, telegram, stored, registry, fates,
       departures, world
<1>10. ASSUME NEW w \in Worker, Punish(w)
      PROVE  StoredInv'
  <2>1. \A x \in Worker : Cleans(x) => Cleans(x)'
    BY <1>10, <1>0, AfterSteps, GoesOn DEF Punish, At, After, Cleans, Cleaning, Pc,
       Over, Holding, telegram, stored, registry, fates, departures, world
  <2> QED
    BY <1>10, <2>1, StoredStays DEF Punish, telegram, stored, registry, fates,
       departures, world
<1>11. ASSUME NEW w \in Worker, Unban(w)
      PROVE  StoredInv'
  <2>1. \A x \in Worker : Cleans(x) => Cleans(x)'
    BY <1>11, <1>0, AfterSteps, GoesOn DEF Unban, At, After, Cleans, Cleaning, Pc, Over,
       Holding, telegram, stored, registry, fates, departures, world
  <2> QED
    BY <1>11, <2>1, StoredStays DEF Unban, telegram, stored, registry, fates,
       departures, world
<1>12. ASSUME NEW w \in Worker, Restore(w)
      PROVE  StoredInv'
  <2>1. \A x \in Worker : Cleans(x) => Cleans(x)'
    BY <1>12, <1>0, AfterSteps, GoesOn DEF Restore, At, After, Cleans, Cleaning, Pc,
       Over, Holding, telegram, stored, registry, fates, departures, world
  <2> QED
    BY <1>12, <2>1, StoredStays DEF Restore, telegram, stored, registry, fates,
       departures, world
<1>13. ASSUME NEW w \in Worker, FailGone(w)
      PROVE  StoredInv'
  <2>1. \A x \in Worker : Cleans(x) => Cleans(x)'
    BY <1>13, <1>0, AfterSteps, GoesOn DEF FailGone, At, After, Cleans, Cleaning, Pc,
       Over, Holding, telegram, stored, registry, fates, departures, world
  <2> QED
    BY <1>13, <2>1, StoredStays DEF FailGone, telegram, stored, registry, fates,
       departures, world
<1>14. ASSUME NEW w \in Worker, MarkVerified(w)
      PROVE  StoredInv'
  <2>1. \A x \in Worker : Cleans(x) => Cleans(x)'
    BY <1>14, <1>0, AfterSteps, GoesOn DEF MarkVerified, At, After, Cleans, Cleaning,
       Pc, Over, Holding, telegram, stored, registry, fates, departures, world
  <2> QED
    BY <1>14, <2>1, StoredStays DEF MarkVerified, telegram, stored, registry, fates,
       departures, world
<1>15. ASSUME NEW t \in Task, Join(t)
      PROVE  StoredInv'
  <2>1. ~Cleans(t) /\ \A x \in Worker : x # t => work'[x] = work[x]
    BY <1>15, <1>0, TaskWorks DEF Join, Enter, At, WorkOK, Cleans, Cleaning
  <2> QED
    BY <1>15, <2>1, TaskWorks, Others, StoredStays DEF Join, telegram, stored, registry,
       fates, departures, world
<1>16. ASSUME NEW t \in Task, Message(t)
      PROVE  StoredInv'
  <2>1. ~Cleans(t) /\ \A x \in Worker : x # t => work'[x] = work[x]
    BY <1>16, <1>0, TaskWorks DEF Message, Enter, At, WorkOK, Cleans, Cleaning
  <2> QED
    BY <1>16, <2>1, TaskWorks, Others, StoredStays DEF Message, telegram, stored,
       registry, fates, departures, world
<1>17. ASSUME NEW t \in Task, TestVerify(t)
      PROVE  StoredInv'
  <2>1. ~Cleans(t) /\ \A x \in Worker : x # t => work'[x] = work[x]
    BY <1>17, <1>0, TaskWorks DEF TestVerify, S, At, WorkOK, Cleans, Cleaning
  <2> QED
    BY <1>17, <2>1, TaskWorks, Others, StoredStays DEF TestVerify, telegram, stored,
       registry, fates, departures, world
<1>18. ASSUME NEW t \in Task, NEW s \in Session, NEW k \in Answers \cup AdminActs, Press(t, s, k)
      PROVE  StoredInv'
  <2>1. ~Cleans(t) /\ \A x \in Worker : x # t => work'[x] = work[x]
    BY <1>18, <1>0, TaskWorks DEF Press, S, At, WorkOK, Cleans, Cleaning
  <2> QED
    BY <1>18, <2>1, TaskWorks, Others, StoredStays DEF Press, telegram, stored,
       registry, fates, departures, world
<1>19. ASSUME NEW t \in Task, Capture(t)
      PROVE  StoredInv'
  <2>1. ~Cleans(t) /\ \A x \in Worker : x # t => work'[x] = work[x]
    BY <1>19, <1>0, TaskWorks DEF Capture, S, At, WorkOK, Cleans, Cleaning
  <2> QED
    BY <1>19, <2>1, TaskWorks, Others, StoredStays DEF Capture, telegram, stored,
       registry, fates, departures, world
<1>20. ASSUME SweepStart
      PROVE  StoredInv'
  <2>1. ~Cleans(Sweep) /\ \A x \in Worker : x # Sweep => work'[x] = work[x]
    BY <1>20, <1>0, TaskWorks DEF SweepStart, S, Worker, At, WorkOK, Cleans, Cleaning
  <2> QED
    BY <1>20, <2>1, TaskWorks, Others, StoredStays DEF SweepStart, telegram, stored,
       registry, fates, departures, world, Worker
<1>21. ASSUME SweepLook
      PROVE  StoredInv'
  <2>1. ~Cleans(Sweep) /\ \A x \in Worker : x # Sweep => work'[x] = work[x]
    BY <1>21, <1>0, TaskWorks DEF SweepLook, Goto, Worker, At, WorkOK, Cleans, Cleaning
  <2> QED
    BY <1>21, <2>1, TaskWorks, Others, StoredStays DEF SweepLook, telegram, stored,
       registry, fates, departures, world, Worker
<1>22. ASSUME NEW t \in Task, Create(t)
      PROVE  StoredInv'
  <2>1. ~Cleans(t) /\ \A x \in Worker : x # t => work'[x] = work[x]
    BY <1>22, <1>0, TaskWorks DEF Create, At, WorkOK, Cleans, Cleaning
  <2>2. CASE Mutes
    <3>1. byUser' = byUser /\ popping' = popping /\ row = None
      BY <1>22, <2>2 DEF Create, departures
    <3>2. \A x \in Worker : Cleans(x) => Cleans(x)'
      BY <2>1, <3>1, TaskWorks, Others
    <3> QED
      BY <3>1, <3>2 DEF StoredInv, Matched
  <2>3. CASE ~Mutes
    <3>1. row' = [s |-> made + 1, left |-> MaxAttempts] /\ byUser' = made + 1
      BY <1>22, <2>3 DEF Create, Register
    <3>2. row' # None
      BY <1>22, <3>1, NextType, NamesOK, BoundsOK DEF Create, TypeInv, TypeOK, Session
    <3> QED
      BY <3>1, <3>2 DEF StoredInv, Matched, SameId
  <2> QED
    BY <2>2, <2>3
<1>23. ASSUME NEW t \in Task, Restrict(t)
      PROVE  StoredInv'
  <2>1. byUser' = S(t) /\ work'[t].pc = "send" /\ work'[t].s = S(t)
    BY <1>23, <1>0, TaskWorks, Moves DEF Restrict, Register, WorkOK, S, Pc, Holding
  <2> QED
    BY <2>1, TaskWorks DEF StoredInv, Cleans, Cleaning, SameId, S
<1>24. ASSUME NEW t \in Task, Finish(t)
      PROVE  StoredInv'
  <2>1. S(t) \in Session
    BY <1>24, <1>0, TaskWorks DEF Finish, At, WorkOK, HasSession, Holding
  <2>2. byUser' = byUser /\ popping' = popping /\ Goto(t, "held")
    BY <1>24 DEF Finish, registry, departures
  <2> QED
    BY <1>24, <2>1, <2>2, TaskWorks, MergeKeeps DEF Finish, Pc, Over
<1>25. ASSUME NEW t \in Task, StoreAnswer(t)
      PROVE  StoredInv'
  <2>1. S(t) \in Session
    BY <1>25, <1>0, TaskWorks DEF StoreAnswer, At, WorkOK, HasSession, Holding
  <2>2. byUser' = byUser /\ popping' = popping /\ Goto(t, "done")
    BY <1>25 DEF StoreAnswer, registry, departures
  <2>3. CASE CanMerge(S(t))
    BY <1>25, <2>1, <2>2, <2>3, TaskWorks, MergeKeeps DEF StoreAnswer, Pc, Over
  <2>4. CASE ~CanMerge(S(t))
    <3>1. ~Cleans(t)
      BY <1>25 DEF StoreAnswer, At, Cleans, Cleaning
    <3> QED
      BY <1>25, <2>2, <2>4, <3>1, <1>0, TaskWorks, GoesOn, StoredStays DEF StoreAnswer,
         Pc, Over
  <2> QED
    BY <2>3, <2>4
<1>26. ASSUME NEW w \in Worker, Drop(w)
      PROVE  StoredInv'
  <2>1. Goto(w, "forget") /\ byUser' = byUser /\ popping' = popping
    BY <1>26, AfterSteps DEF Drop, registry, departures
  <2>2. \A x \in Worker : Cleans(x) => Cleans(x)'
    BY <2>1, <1>0, GoesOn DEF Cleaning, Pc, Holding
  <2>3. CASE row # None /\ SameId(row.s, S(w))
    <3>1. work'[w].pc = "forget" /\ work'[w].s = S(w)
      BY <2>1, <1>0, Moves DEF WorkOK, S, Pc, Holding
    <3>2. Matched => Cleans(w)'
      BY <2>1, <2>3, <3>1, Ids DEF Matched, Cleans, Cleaning, S, SameId
    <3> QED
      BY <2>1, <2>2, <3>2 DEF StoredInv
  <2>4. CASE ~(row # None /\ SameId(row.s, S(w)))
    BY <1>26, <2>1, <2>2, <2>4, StoredStays DEF Drop
  <2> QED
    BY <2>3, <2>4
<1>27. ASSUME NEW w \in Worker, Forget(w)
      PROVE  StoredInv'
  <2>1. popping' = popping /\ row' = row /\ (byUser' # None => byUser' = byUser /\ ~SameId(byUser, S(w)))
    BY <1>27 DEF Forget, Unregister, stored, departures
  <2>2. \A x \in Worker : x # w => work'[x] = work[x]
    BY <1>27, <1>0 DEF Forget, Goto, WorkOK
  <2>3. ASSUME byUser' # None
        PROVE  ~Cleans(w)
    BY <2>1, <2>3 DEF Cleans, SameId
  <2> QED
    BY <2>1, <2>2, <2>3, Others, StoredStays DEF StoredInv
<1>28. ASSUME Leave
      PROVE  StoredInv'
  <2>1. byUser' = byUser /\ row' = row /\ popping' = popping /\ work' = work
    BY <1>28 DEF Leave, telegram, stored, registry, fates, departures, world
  <2> QED
    BY <2>1, StoredStays DEF Cleans, SameId, S
<1>29. ASSUME NEW s \in Session, Expire(s)
      PROVE  StoredInv'
  <2>1. byUser' = byUser /\ row' = row /\ popping' = popping /\ work' = work
    BY <1>29 DEF Expire, telegram, stored, registry, fates, departures, world
  <2> QED
    BY <2>1, StoredStays DEF Cleans, SameId, S
<1>30. ASSUME NEW c \in {"on", "off", "gone"}, SetConfig(c)
      PROVE  StoredInv'
  <2>1. byUser' = byUser /\ row' = row /\ popping' = popping /\ work' = work
    BY <1>30 DEF SetConfig, telegram, stored, registry, fates, departures, world
  <2> QED
    BY <2>1, StoredStays DEF Cleans, SameId, S
<1>31. ASSUME LeftDelete
      PROVE  StoredInv'
  <2>1. popping' > 0
    BY <1>31 DEF LeftDelete, TypeInv, TypeOK
  <2> QED
    BY <2>1 DEF StoredInv
<1>32. ASSUME LeftPop
      PROVE  StoredInv'
  <2>1. byUser' = None
    BY <1>32 DEF LeftPop, Unregister, SameId
  <2> QED
    BY <2>1 DEF StoredInv
<1>33. ASSUME Restart
      PROVE  StoredInv'
  BY <1>33 DEF Restart, StoredInv
<1>34. ASSUME Load
      PROVE  StoredInv'
  <2>1. CASE row = None
    BY <1>34, <2>1, StoredStays DEF Load, Cleans, SameId, S, stored, registry,
       departures
  <2>2. CASE row # None
    BY <1>34, <2>2, Ids DEF Load, Register, StoredInv, Matched, stored, SameId
  <2> QED
    BY <2>1, <2>2
<1>35. ASSUME UNCHANGED vars
      PROVE  StoredInv'
  <2>1. byUser' = byUser /\ row' = row /\ popping' = popping /\ work' = work
    BY <1>35 DEF vars, telegram, stored, registry, fates, departures, world
  <2> QED
    BY <2>1, StoredStays DEF Cleans, SameId, S
<1> QED
  BY <1>1, <1>2, <1>3, <1>4, <1>5, <1>6, <1>7, <1>8, <1>9, <1>10, <1>11, <1>12, <1>13,
     <1>14, <1>15, <1>16, <1>17, <1>18, <1>19, <1>20, <1>21, <1>22, <1>23, <1>24, <1>25,
     <1>26, <1>27, <1>28, <1>29, <1>30, <1>31, <1>32, <1>33, <1>34, <1>35 DEF Next,
     Handle, Complete

\* Once all handlers are done, nobody is left to see to it.
LEMMA StoredMeans == TypeInv /\ StoredInv => RegisteredIsStored
BY DEF RegisteredIsStored, StoredInv, Quiet, Matched, Cleans, Cleaning, Over

\* RegisteredStored: once all handlers are done, a registered session has its
\* row, whatever failed, crashed, left or answered at the same time before.
THEOREM RegisteredStored == Spec => []RegisteredIsStored
<1>1. Spec => [](TypeInv /\ StoredInv)
  BY InitType, NextType, InitStored, NextStored, PTL DEF Spec
<1> QED
  BY <1>1, StoredMeans, PTL

----------------------------------------------------------------------------
\* One creation at a time.  maybe_verify holds the lock from the look-up of a
\* session to the end of the creation, clean-up included.  /testverify takes
\* no lock, so the theorem is about what members and the panel do.

Alone == Creating \cup {"member"}
LockInv ==
  \A t \in Task : work[t].then # "capture" /\ (work[t].pc \in Alone => lock = t)

\* A handler that goes on with the lock it has, or gives it back when it no
\* longer creates, takes it from nobody.
LEMMA LockStays ==
  ASSUME WorkOK, LockInv, NEW w \in Worker, NEW p \in Pc, Goto(w, p),
         w \in Task /\ p \in Alone => work[w].pc \in Alone,
         \/ UNCHANGED lock
         \/ Unlock(w) /\ p \notin Alone
  PROVE  LockInv'
<1>1. /\ work'[w].pc = p /\ work'[w].then = work[w].then
      /\ \A x \in Worker : x # w => work'[x] = work[x]
  BY Moves DEF WorkOK
<1> SUFFICES ASSUME NEW t \in Task
             PROVE  work'[t].then # "capture" /\ (work'[t].pc \in Alone => lock' = t)
  BY DEF LockInv
<1>2. CASE t = w
  BY <1>1, <1>2 DEF LockInv
<1>3. CASE t # w
  BY <1>1, <1>3, TaskWorks DEF LockInv, Unlock
<1> QED
  BY <1>2, <1>3

\* Nobody creates at the start.
LEMMA InitLock == Init => LockInv
<1> SUFFICES ASSUME Init, NEW t \in Task
             PROVE  work[t].then # "capture" /\ work[t].pc \notin Alone
  BY DEF LockInv
<1>1. work[t].then = "done" /\ work[t].pc = "idle"
  BY TaskWorks DEF Init
<1> QED
  BY <1>1 DEF Alone, Creating

\* Whoever looks a session up or creates one holds the lock.
LEMMA NextLock ==
  ASSUME "test" \notin Inputs
  PROVE  TypeInv /\ LockInv /\ [Next]_vars => LockInv'
<1> SUFFICES ASSUME TypeInv, LockInv, [Next]_vars PROVE LockInv'
  OBVIOUS
<1>0. WorkOK /\ RestOK
  BY TypeSplit
<1>1. ASSUME NEW t \in Task, ReadConfig(t)
      PROVE  LockInv'
  BY <1>1, <1>0, TaskWorks, LockStays DEF ReadConfig, At, Alone, Creating, Pc, Over,
     Holding
<1>2. ASSUME NEW t \in Task, CreateRefused(t)
      PROVE  LockInv'
  BY <1>2, <1>0, TaskWorks, LockStays DEF CreateRefused, At, Alone, Creating, Pc, Over,
     Holding
<1>3. ASSUME NEW t \in Task, Restrict(t)
      PROVE  LockInv'
  BY <1>3, <1>0, TaskWorks, LockStays DEF Restrict, At, Alone, Creating, Pc, Over,
     Holding
<1>4. ASSUME NEW t \in Task, Send(t)
      PROVE  LockInv'
  BY <1>4, <1>0, TaskWorks, LockStays DEF Send, At, Alone, Creating, Pc, Over, Holding
<1>5. ASSUME NEW t \in Task, Finish(t)
      PROVE  LockInv'
  BY <1>5, <1>0, TaskWorks, LockStays DEF Finish, At, Alone, Creating, Pc, Over, Holding
<1>6. ASSUME NEW t \in Task, FinishFails(t)
      PROVE  LockInv'
  BY <1>6, <1>0, TaskWorks, LockStays DEF FinishFails, At, Alone, Creating, Pc, Over,
     Holding
<1>7. ASSUME NEW t \in Task, RestrictFails(t)
      PROVE  LockInv'
  BY <1>7, <1>0, TaskWorks, LockStays DEF RestrictFails, At, Alone, Creating, Pc, Over,
     Holding
<1>8. ASSUME NEW t \in Task, StoreAnswer(t)
      PROVE  LockInv'
  BY <1>8, <1>0, TaskWorks, LockStays DEF StoreAnswer, At, Alone, Creating, Pc, Over,
     Holding
<1>9. ASSUME NEW t \in Task, Judge(t)
      PROVE  LockInv'
  BY <1>9, <1>0, TaskWorks, LockStays DEF Judge, At, Alone, Creating, Pc, Over, Holding
<1>10. ASSUME NEW t \in Task, TakeLock(t)
      PROVE  LockInv'
  <2>1. CASE byUser # None
    BY <1>10, <2>1, <1>0, TaskWorks, LockStays DEF TakeLock, Alone, Creating, Pc, Over,
       Holding
  <2>2. CASE byUser = None
    <3>1. Goto(t, "member") /\ lock = None /\ lock' = t
      BY <1>10, <2>2 DEF TakeLock
    <3>2. /\ work'[t].then = work[t].then
          /\ \A x \in Worker : x # t => work'[x] = work[x]
      BY <3>1, <1>0, TaskWorks, Moves DEF WorkOK, Pc
    <3>3. \A x \in Task : work[x].pc \notin Alone
      BY <3>1, TaskWorks DEF LockInv
    <3> QED
      BY <3>1, <3>2, <3>3, TaskWorks DEF LockInv
  <2> QED
    BY <2>1, <2>2
<1>11. ASSUME NEW t \in Task, ReadMember(t)
      PROVE  LockInv'
  <2>1. CASE StrategyMatches(t)
    BY <1>11, <2>1, <1>0, TaskWorks, LockStays DEF ReadMember, At, Alone, Creating, Pc,
       Over, Holding
  <2>2. CASE ~StrategyMatches(t)
    BY <1>11, <2>2, <1>0, TaskWorks, LockStays DEF ReadMember, Alone, Creating, Pc,
       Over, Holding
  <2> QED
    BY <2>1, <2>2
<1>12. ASSUME NEW w \in Worker, EffectFails(w)
      PROVE  LockInv'
  <2>1. After(w) \in Pc \ Alone
    BY AfterSteps DEF Alone, Creating, Pc, Over, Holding
  <2> QED
    BY <1>12, <2>1, <1>0, LockStays, AfterSteps DEF EffectFails, Alone, Creating, Pc,
       Over, Holding
<1>13. ASSUME NEW w \in Worker, Punish(w)
      PROVE  LockInv'
  <2>1. After(w) \in Pc \ Alone
    BY AfterSteps DEF Alone, Creating, Pc, Over, Holding
  <2> QED
    BY <1>13, <2>1, <1>0, LockStays, AfterSteps DEF Punish, Alone, Creating, Pc, Over,
       Holding
<1>14. ASSUME NEW w \in Worker, Unban(w)
      PROVE  LockInv'
  <2>1. After(w) \in Pc \ Alone
    BY AfterSteps DEF Alone, Creating, Pc, Over, Holding
  <2> QED
    BY <1>14, <2>1, <1>0, LockStays, AfterSteps DEF Unban, Alone, Creating, Pc, Over,
       Holding
<1>15. ASSUME NEW w \in Worker, Restore(w)
      PROVE  LockInv'
  <2>1. After(w) \in Pc \ Alone
    BY AfterSteps DEF Alone, Creating, Pc, Over, Holding
  <2> QED
    BY <1>15, <2>1, <1>0, LockStays, AfterSteps DEF Restore, Alone, Creating, Pc, Over,
       Holding
<1>16. ASSUME NEW w \in Worker, FailGone(w)
      PROVE  LockInv'
  <2>1. After(w) \in Pc \ Alone
    BY AfterSteps DEF Alone, Creating, Pc, Over, Holding
  <2> QED
    BY <1>16, <2>1, <1>0, LockStays, AfterSteps DEF FailGone, Alone, Creating, Pc, Over,
       Holding
<1>17. ASSUME NEW w \in Worker, MarkVerified(w)
      PROVE  LockInv'
  <2>1. After(w) \in Pc \ Alone
    BY AfterSteps DEF Alone, Creating, Pc, Over, Holding
  <2> QED
    BY <1>17, <2>1, <1>0, LockStays, AfterSteps DEF MarkVerified, Alone, Creating, Pc,
       Over, Holding
<1>18. ASSUME NEW w \in Worker, Drop(w)
      PROVE  LockInv'
  <2>1. After(w) \in Pc \ Alone
    BY AfterSteps DEF Alone, Creating, Pc, Over, Holding
  <2> QED
    BY <1>18, <2>1, <1>0, LockStays, AfterSteps DEF Drop, Alone, Creating, Pc, Over,
       Holding
<1>19. ASSUME NEW w \in Worker, Forget(w)
      PROVE  LockInv'
  <2>1. work[w].then \in Pc /\ (w \in Task => work[w].then \notin Alone)
    BY <1>0 DEF WorkOK, WorkState, LockInv, Alone, Creating, Pc, Over, Holding
  <2>2. CASE w \in Task
    BY <1>19, <2>1, <2>2, <1>0, LockStays DEF Forget
  <2>3. CASE w \notin Task
    <3>1. w = Sweep /\ UNCHANGED lock
      BY <1>19, <2>3, <1>0, NamesOK DEF Forget, Unlock, RestOK, Worker
    <3> QED
      BY <1>19, <2>1, <2>3, <3>1, <1>0, LockStays DEF Forget
  <2> QED
    BY <2>2, <2>3
<1>20. ASSUME NEW t \in Task, Join(t)
      PROVE  LockInv'
  <2>1. UNCHANGED lock /\ \A x \in Worker : x # t => work'[x] = work[x]
    BY <1>20, <1>0 DEF Join, Enter, WorkOK
  <2>2. work'[t].then # "capture" /\ (work'[t].pc \in Alone => work[t].pc \in Alone)
    BY <1>20, <1>0, TaskWorks DEF Join, Enter, WorkOK, LockInv, At, Alone, Creating
  <2> QED
    BY <2>1, <2>2, TaskWorks DEF LockInv
<1>21. ASSUME NEW t \in Task, Message(t)
      PROVE  LockInv'
  <2>1. UNCHANGED lock /\ \A x \in Worker : x # t => work'[x] = work[x]
    BY <1>21, <1>0 DEF Message, Enter, WorkOK
  <2>2. work'[t].then # "capture" /\ (work'[t].pc \in Alone => work[t].pc \in Alone)
    BY <1>21, <1>0, TaskWorks DEF Message, Enter, WorkOK, LockInv, At, Alone, Creating
  <2> QED
    BY <2>1, <2>2, TaskWorks DEF LockInv
<1>22. ASSUME NEW t \in Task, NEW s \in Session, NEW k \in Answers \cup AdminActs, Press(t, s, k)
      PROVE  LockInv'
  <2>1. UNCHANGED lock /\ \A x \in Worker : x # t => work'[x] = work[x]
    BY <1>22, <1>0 DEF Press, S, WorkOK
  <2>2. work'[t].then # "capture" /\ (work'[t].pc \in Alone => work[t].pc \in Alone)
    BY <1>22, <1>0, TaskWorks DEF Press, S, WorkOK, LockInv, At, Alone, Creating
  <2> QED
    BY <2>1, <2>2, TaskWorks DEF LockInv
<1>23. ASSUME NEW t \in Task, Capture(t)
      PROVE  LockInv'
  <2>1. UNCHANGED lock /\ \A x \in Worker : x # t => work'[x] = work[x]
    BY <1>23, <1>0 DEF Capture, S, WorkOK
  <2>2. work'[t].then # "capture" /\ (work'[t].pc \in Alone => work[t].pc \in Alone)
    BY <1>23, <1>0, TaskWorks DEF Capture, S, WorkOK, LockInv, At, Alone, Creating
  <2> QED
    BY <2>1, <2>2, TaskWorks DEF LockInv
<1>24. ASSUME NEW t \in Task, Create(t)
      PROVE  LockInv'
  <2>1. UNCHANGED lock /\ \A x \in Worker : x # t => work'[x] = work[x]
    BY <1>24, <1>0 DEF Create, S, WorkOK
  <2>2. work'[t].then # "capture" /\ (work'[t].pc \in Alone => work[t].pc \in Alone)
    BY <1>24, <1>0, TaskWorks DEF Create, S, WorkOK, LockInv, At, Alone, Creating
  <2> QED
    BY <2>1, <2>2, TaskWorks DEF LockInv
<1>25. ASSUME SweepStart
      PROVE  LockInv'
  <2>1. UNCHANGED lock /\ \A x \in Task : work'[x] = work[x]
    BY <1>25, <1>0, TaskWorks DEF SweepStart, Goto, WorkOK
  <2> QED
    BY <2>1 DEF LockInv
<1>26. ASSUME SweepLook
      PROVE  LockInv'
  <2>1. UNCHANGED lock /\ \A x \in Task : work'[x] = work[x]
    BY <1>26, <1>0, TaskWorks DEF SweepLook, Goto, WorkOK
  <2> QED
    BY <2>1 DEF LockInv
<1>27. ASSUME Leave
      PROVE  LockInv'
  BY <1>27 DEF Leave, LockInv
<1>28. ASSUME LeftDelete
      PROVE  LockInv'
  BY <1>28 DEF LeftDelete, LockInv
<1>29. ASSUME LeftPop
      PROVE  LockInv'
  BY <1>29 DEF LeftPop, LockInv
<1>30. ASSUME NEW s \in Session, Expire(s)
      PROVE  LockInv'
  BY <1>30 DEF Expire, LockInv
<1>31. ASSUME NEW c \in {"on", "off", "gone"}, SetConfig(c)
      PROVE  LockInv'
  BY <1>31 DEF SetConfig, LockInv
<1>32. ASSUME Load
      PROVE  LockInv'
  BY <1>32 DEF Load, LockInv
<1>33. ASSUME Restart
      PROVE  LockInv'
  <2>1. ASSUME NEW t \in Task
        PROVE  work'[t].then # "capture" /\ work'[t].pc \notin Alone
    <3>1. work'[t] \in {work[t], [work[t] EXCEPT !.pc = "done"]}
          /\ (work[t].pc \notin Over => work'[t] = [work[t] EXCEPT !.pc = "done"])
      BY <1>33, TaskWorks DEF Restart
    <3>2. work[t] \in WorkState /\ work[t].then # "capture"
      BY <1>0, TaskWorks DEF WorkOK, LockInv
    <3> QED
      BY <3>1, <3>2 DEF WorkState, Alone, Creating, Over
  <2> QED
    BY <2>1 DEF LockInv
<1>34. ASSUME UNCHANGED vars
      PROVE  LockInv'
  BY <1>34 DEF vars, LockInv
<1>t. ~(\E t \in Task : TestVerify(t))
  BY DEF TestVerify
<1> QED
  BY <1>1, <1>2, <1>3, <1>4, <1>5, <1>6, <1>7, <1>8, <1>9, <1>10, <1>11, <1>12, <1>13,
     <1>14, <1>15, <1>16, <1>17, <1>18, <1>19, <1>20, <1>21, <1>22, <1>23, <1>24, <1>25,
     <1>26, <1>27, <1>28, <1>29, <1>30, <1>31, <1>32, <1>33, <1>34, <1>t DEF Next,
     Handle, Complete

\* StoredOnceHolds: the registry and the database agree once all handlers are
\* done, and two handlers never create a session of one member at the same
\* time, however joins, messages, answers, departures and the sweep interleave.
THEOREM StoredOnceHolds ==
  ASSUME "test" \notin Inputs
  PROVE  Spec => []StoredOnce
<1>1. LockInv => OneCreationAtATime
  BY DEF LockInv, OneCreationAtATime, Alone
<1>2. TypeInv /\ LockInv /\ [Next]_vars => LockInv'
  BY NextLock
<1>3. Spec => []LockInv
  BY InitType, NextType, InitLock, <1>2, PTL DEF Spec
<1>4. TypeOK /\ RegisteredIsStored /\ OneCreationAtATime => StoredOnce
  BY DEF StoredOnce
<1> QED
  BY <1>1, <1>3, <1>4, TypeCorrect, RegisteredStored, PTL

----------------------------------------------------------------------------
\* Attempts.  The registered object is never more generous than its row.

LeftInv ==
  /\ \A s \in Session : left[s] <= MaxAttempts
  /\ row # None => row.left <= MaxAttempts /\ left[row.s] <= row.left

\* A row that is written from the object agrees with it.
LEMMA MergeLeft ==
  ASSUME TypeInv, LeftInv, NEW s \in Session, Merge(s), UNCHANGED left
  PROVE  LeftInv' /\ row'.s = s /\ row'.left = left[s]
BY DEF Merge, LeftInv, TypeInv, TypeOK

\* What every step does to the attempts.
LEMMA NextLeft ==
  TypeInv /\ LeftInv /\ [Next]_vars =>
    /\ LeftInv'
    /\ row # None /\ row' # None => (row'.s = row.s => row'.left <= row.left)
<1> SUFFICES ASSUME TypeInv, LeftInv, [Next]_vars
             PROVE  /\ LeftInv'
                    /\ row # None /\ row' # None => (row'.s = row.s => row'.left <= row.left)
  OBVIOUS
<1> DEFINE Fewer == row # None /\ row' # None => (row'.s = row.s => row'.left <= row.left)
<1>0. WorkOK /\ RestOK
  BY TypeSplit
<1>r. row # None => row.s \in Session /\ row.left \in Int
  BY <1>0 DEF RestOK
<1>1. ASSUME UNCHANGED <<row, left>>
      PROVE  LeftInv' /\ Fewer
  BY <1>1, <1>r DEF LeftInv
<1>2. ASSUME NEW t \in Task, Create(t)
      PROVE  LeftInv' /\ Fewer
  <2>1. row = None /\ row' = [s |-> made + 1, left |-> MaxAttempts] /\ UNCHANGED left
    BY <1>2 DEF Create
  <2>2. made + 1 \in Session /\ MaxAttempts \in Int
    BY <1>2, <1>0, BoundsOK DEF Create, RestOK, Session
  <2> QED
    BY <2>1, <2>2 DEF LeftInv
<1>3. ASSUME NEW t \in Task, Finish(t) \/ StoreAnswer(t)
      PROVE  LeftInv' /\ Fewer
  <2>1. S(t) \in Session /\ UNCHANGED left /\ (Merge(S(t)) \/ UNCHANGED row)
    BY <1>3, <1>0, TaskWorks DEF Finish, StoreAnswer, At, WorkOK, HasSession, Holding,
       registry
  <2>2. CASE Merge(S(t))
    BY <2>1, <2>2, <1>r, MergeLeft DEF LeftInv
  <2> QED
    BY <1>1, <2>1, <2>2
<1>4. ASSUME (\E w \in Worker : Drop(w)) \/ LeftDelete
      PROVE  LeftInv' /\ Fewer
  <2>1. UNCHANGED left /\ row' \in {row, None}
    BY <1>4 DEF Drop, LeftDelete, registry
  <2> QED
    BY <1>1, <2>1 DEF LeftInv
<1>5. ASSUME NEW t \in Task, Judge(t)
      PROVE  LeftInv' /\ Fewer
  <2>1. S(t) \in Session /\ UNCHANGED row
    BY <1>5, <1>0, TaskWorks DEF Judge, At, WorkOK, HasSession, Holding, stored
  <2>2. left' = left \/ left' = [left EXCEPT ![S(t)] = @ - 1]
    BY <1>5 DEF Judge
  <2>3. \A s \in Session : left'[s] <= left[s] /\ left[s] \in Int /\ left'[s] \in Int
    BY <2>1, <2>2, <1>0 DEF RestOK
  <2>4. MaxAttempts \in Int
    BY BoundsOK
  <2> QED
    BY <2>1, <2>3, <2>4, <1>r DEF LeftInv
<1>6. ASSUME Load
      PROVE  LeftInv' /\ Fewer
  <2>1. UNCHANGED row /\ (UNCHANGED left \/ (row # None /\ left' = [left EXCEPT ![row.s] = row.left]))
    BY <1>6 DEF Load, stored, registry
  <2>2. CASE row # None /\ left' = [left EXCEPT ![row.s] = row.left]
    BY <2>1, <2>2, <1>0, <1>r DEF LeftInv, RestOK
  <2> QED
    BY <1>1, <2>1, <2>2
<1>7. ASSUME NEW t \in Task,
             \/ Join(t) \/ Message(t) \/ TestVerify(t)
             \/ \E s \in Session, k \in Answers \cup AdminActs : Press(t, s, k)
             \/ RestrictFails(t) \/ ReadConfig(t) \/ TakeLock(t) \/ ReadMember(t)
             \/ Capture(t) \/ CreateRefused(t) \/ Restrict(t) \/ Send(t) \/ FinishFails(t)
      PROVE  UNCHANGED <<row, left>>
  BY <1>7 DEF Join, Message, TestVerify, Press, RestrictFails, ReadConfig, TakeLock,
     ReadMember,
     Capture, CreateRefused, Restrict, Send, FinishFails, stored, registry
<1>8. ASSUME NEW w \in Worker,
             \/ Punish(w) \/ Unban(w) \/ Restore(w) \/ FailGone(w) \/ MarkVerified(w)
             \/ Forget(w) \/ EffectFails(w)
      PROVE  UNCHANGED <<row, left>>
  BY <1>8 DEF Punish, Unban, Restore, FailGone, MarkVerified, Forget, EffectFails,
     stored, registry
<1>9. ASSUME \/ SweepStart \/ SweepLook \/ Leave \/ LeftPop \/ Restart \/ UNCHANGED vars
             \/ \E s \in Session : Expire(s)
             \/ \E c \in {"on", "off", "gone"} : SetConfig(c)
      PROVE  UNCHANGED <<row, left>>
  BY <1>9 DEF SweepStart, SweepLook, Leave, LeftPop, Restart, Expire, SetConfig, vars,
     stored,
     registry
<1> QED
  BY <1>1, <1>2, <1>3, <1>4, <1>5, <1>6, <1>7, <1>8, <1>9 DEF Next, Handle, Complete

\* AttemptsSpent: the attempts stored for a session never grow, however many
\* handlers judge its answers at once and however often the bot restarts.
THEOREM AttemptsSpent == Spec => AttemptsNotGivenBack
<1>1. Init => LeftInv
  BY BoundsOK DEF Init, LeftInv
<1>2. TypeInv /\ LeftInv /\ [Next]_vars =>
        LeftInv' /\ (row # None /\ row' # None => (row'.s = row.s => row'.left <= row.left))
  BY NextLeft
<1>3. Spec => [](TypeInv /\ LeftInv)
  BY InitType, NextType, <1>1, <1>2, PTL DEF Spec
<1> QED
  BY <1>2, <1>3, PTL DEF Spec, AttemptsNotGivenBack

----------------------------------------------------------------------------
(* The worlds of MCEnds: whichever component a behaviour is about keeps its  *)
(* own invariant, which its own module proves.                               *)

Ends ==
    /\ about = "mutes" => TypeInv /\ StoredInv
    /\ about = "turns" => Turns!IInv /\ Turns!HeldInv
    /\ about = "health" => Health!Inv

\* The turns of MCEnds are begun by wakes.
LEMMA EndsWakes == Turns!WakesOnly /\ {"wake", "forget"} \subseteq Turns!AllKinds
BY DEF Turns!WakesOnly, Turns!AllKinds

\* It holds at first.
LEMMA InitEnds == WorldInit => Ends
<1> SUFFICES ASSUME WorldInit PROVE Ends
  OBVIOUS
<1>1. CASE about = "mutes"
  BY <1>1, InitType, InitStored DEF WorldInit, Ends
<1>2. CASE about = "turns"
  BY <1>2, EndsAssumption, EndsWakes, Turns!InitIInv, Turns!InitHeld DEF WorldInit, Ends
<1>3. CASE about = "health"
  BY <1>3, EndsAssumption, Health!InitInv DEF WorldInit, Ends
<1> QED BY <1>1, <1>2, <1>3 DEF Ends

\* Every step keeps it.
LEMMA NextEnds == Ends /\ [WorldNext]_all => Ends'
<1> SUFFICES ASSUME Ends, [WorldNext]_all PROVE Ends'
  OBVIOUS
<1>1. about' = about
  BY DEF WorldNext, all
<1>2. CASE about = "mutes"
  <2>1. TypeInv /\ StoredInv /\ [Next]_vars
    BY <1>2 DEF Ends, WorldNext, all, vars, telegram, stored, registry, fates, departures,
                world, s1, s2, s3, s4, s5, s6, s7, s8, s9, s10, s11, s12, s13, s14, s15, s16,
                s17, s18, s19
  <2> QED BY <1>1, <1>2, <2>1, NextType, NextStored DEF Ends
<1>3. CASE about = "turns"
  <2>1. Turns!IInv /\ Turns!HeldInv /\ [Turns!Next]_(Turns!vars)
    BY <1>3 DEF Ends, WorldNext, all, Turns!vars, Turns!locks, Turns!runs, Turns!memory,
                Turns!asks, Turns!queues, Turns!session, s1, s2, s3, s4, s5, s6, s7, s8, s9, s10, s11, s12, s13, s14, s15, s16
  <2> QED BY <1>1, <1>3, <2>1, EndsAssumption, EndsWakes, Turns!NextIInv, Turns!NextHeld DEF Ends
<1>4. CASE about = "health"
  <2>1. Health!Inv /\ [Health!Next]_(Health!vars)
    BY <1>4 DEF Ends, WorldNext, all, Health!vars, s1, s2, s3, s4, s5, s6, s7, s8, s9, s10,
                s11, s12, s13, s14
  <2> QED BY <1>1, <1>4, <2>1, EndsAssumption, Health!NextInv DEF Ends
<1> QED BY <1>1, <1>2, <1>3, <1>4 DEF Ends

\* What must be safe meanwhile.
LEMMA EndsMeans == Ends => MeanwhileSafe
<1>1. Ends => (about = "mutes" => RegisteredIsStored)
  BY StoredMeans DEF Ends
<1>2. Ends => (about = "turns" => /\ Turns!BotTurnsOneAtATime
                                  /\ Turns!WakeLockNotLeaked
                                  /\ Turns!CancelledRunsAreOver)
  BY EndsAssumption, EndsWakes, Turns!SafeMeans, Turns!HeldMeans DEF Ends
<1>3. Ends => (about = "health" => /\ Health!TypeOK
                                   /\ Health!IdleIsLeftAlone
                                   /\ Health!PatientWithMedia)
  BY EndsAssumption, Health!InvMeans DEF Ends
<1> QED BY <1>1, <1>2, <1>3 DEF MeanwhileSafe

\* While mutes, turns and outages are on their way to their ends: a registered
\* session has its row, a bot has one turn at a time, keeps no lock and outlives
\* no /clear_sessions, and no connection is restarted for nothing (session.py,
\* agent.py:1073, session_health.py:184).
THEOREM MeanwhileHolds == WorldSpec => []MeanwhileSafe
BY InitEnds, NextEnds, EndsMeans, PTL DEF WorldSpec
=============================================================================
