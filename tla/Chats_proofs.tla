---------------------------- MODULE Chats_proofs ----------------------------
(***************************************************************************)
(* Proofs about Waifu and ChatConfigs, for every set of users, chats, days *)
(* and handlers, and for every bound; and about the world of MCChats, in   *)
(* which a run checks both.                                                *)
(***************************************************************************)
EXTENDS MCChats, TLAPS

-----------------------------------------------------------------------------
\* The type invariant of Waifu, strengthened: a handler works for somebody who
\* writes in its chat, names users, and asks at least the base for a change.

HandlerOK(g) ==
    /\ g.op \in {"draw", "set", "change"} => <<g.u, g.c>> \in Seat
    /\ g.op \in {"set", "wed", "part"} => g.u \in User /\ g.w \in User
    /\ g.op = "change" => g.k >= Base

\* Its parts: what is stored, and the handlers.
Balances == coins \in [User -> Int] /\ \A u \in User : coins[u] >= -MaxDebt
Rows ==
    /\ member \subseteq Seat /\ waifu \in [Seat -> User \cup {None}]
    /\ \A s \in Seat \ member : waifu[s] = None
Rest ==
    /\ day \in Days /\ married \in [User -> User \cup {None}]
    /\ waiting \subseteq Seat /\ changes \in [Seat -> Nat]
    /\ cleaning \in BOOLEAN /\ proposals \subseteq User \X User \X Chat
    /\ overlap \in BOOLEAN
Handlers == flight \subseteq Handler /\ \A g \in flight : HandlerOK(g)

TypeInv == Balances /\ Rows /\ Rest /\ Handlers

\* It is stronger than the type invariant of the module.
LEMMA TypeInvOK == TypeInv => TypeOK
BY DEF TypeInv, TypeOK, Balances, Rows, Rest, Handlers

\* Somebody who writes in a chat is a user, and the chat is a chat.
LEMMA SeatOfUser ==
  ASSUME NEW s \in Seat
  PROVE  /\ s = <<s[1], s[2]>> /\ s[1] \in User /\ s[2] \in Chat
         /\ s[1] # None /\ s[2] # None
BY WaifuAssumption DEF Chat

\* What a change costs is a number, and never less than the base.
LEMMA CostAtLeastBase ==
  ASSUME NEW n \in Nat, NEW l \in Luck
  PROVE  Cost(n, l) \in Nat /\ Cost(n, l) >= Base
<1>1. Base \in Nat /\ l \in Nat
  BY WaifuAssumption
<1>2. \A i, j \in Nat : i * j \in Nat
  OBVIOUS
<1>3. Base * n \in Nat /\ n * l \in Nat
  BY <1>1, <1>2
<1> DEFINE p == Base * n  q == n * l
<1>4. p + q + Base \in Nat /\ p + q + Base >= Base
  <2> HIDE DEF p, q
  <2>1. p \in Nat /\ q \in Nat
    BY <1>3 DEF p, q
  <2> QED BY <2>1, <1>1
<1> QED BY <1>4 DEF Cost

\* Paying takes something from a user who is not in debt, and no balance falls
\* below the limit.
LEMMA ChargedTakes ==
  ASSUME Balances, NEW u \in User, NEW k \in Nat, k >= Base
  PROVE  /\ Charged(u, k) \in Int /\ Charged(u, k) >= -MaxDebt
         /\ coins[u] >= 0 => Charged(u, k) < coins[u]
BY WaifuAssumption DEF Balances, Charged

\* A handler that may start is added to those in flight.
LEMMA StartsKeeps ==
  ASSUME Handlers, NEW h \in Handler, HandlerOK(h), Starts(h)
  PROVE  Handlers'
BY DEF Handlers, Starts, HandlerOK

\* A handler that goes on is replaced by what follows it.
LEMMA GoesKeeps ==
  ASSUME Handlers, NEW h \in flight, NEW next \in SUBSET Handler,
         \A g \in next : HandlerOK(g), Goes(h, next)
  PROVE  Handlers'
BY DEF Handlers, Goes, HandlerOK

\* A handler that ends leaves the others.
LEMMA EndsKeeps ==
  ASSUME Handlers, NEW h \in flight, Goes(h, {})
  PROVE  Handlers'
BY DEF Handlers, Goes, HandlerOK

\* A row that is gone holds no waifu.
LEMMA RowGoneKeeps ==
  ASSUME Rows, NEW u, NEW c, RowGone(u, c)
  PROVE  Rows'
BY DEF Rows, RowGone

-----------------------------------------------------------------------------
\* A day starts with balances above the limit and nobody married.
THEOREM InitType == Init => TypeInv
<1> SUFFICES ASSUME Init PROVE Balances /\ Rows /\ Rest /\ Handlers
  BY DEF TypeInv
<1>1. Balances
  BY WaifuAssumption DEF Init, Balances
<1>2. Rows /\ Rest /\ Handlers
  BY WaifuAssumption DEF Init, Rows, Rest, Handlers
<1> QED BY <1>1, <1>2

\* /waifu up to its lock gives the sender a row and starts a draw.
LEMMA DrawBeginType ==
  ASSUME TypeInv, NEW s \in Seat, DrawBegin(s[1], s[2])
  PROVE  TypeInv'
<1> DEFINE h == H("draw", s[1], None, s[2], 0)
<1>1. h \in Handler /\ HandlerOK(h)
  BY SeatOfUser DEF H, Handler, HandlerOK
<1>2. Handlers'
  BY <1>1, StartsKeeps DEF DrawBegin, TypeInv
<1>3. Balances' /\ Rows' /\ Rest'
  BY SeatOfUser DEF DrawBegin, Locks, Balances, Rows, Rest, TypeInv
<1> QED BY <1>2, <1>3 DEF TypeInv

\* What a draw takes is a user, or nobody.
LEMMA DrawTakeType ==
  ASSUME TypeInv, NEW h \in flight, NEW w \in User \cup {None}, DrawTake(h, w)
  PROVE  TypeInv'
<1>1. h \in Handler /\ HandlerOK(h) /\ <<h.u, h.c>> \in Seat
  BY DEF Handlers, DrawTake, HandlerOK, TypeInv
<1>2. h.u \in User
  <2>1. <<h.u, h.c>>[1] \in User
    BY <1>1, SeatOfUser
  <2> QED BY <2>1
<1>3. Balances' /\ Rows' /\ Rest'
  BY DEF DrawTake, Unlocks, Balances, Rows, Rest, TypeInv
<1>4. Handlers'
  <2>1. CASE Goes(h, {})
    BY <2>1, EndsKeeps DEF TypeInv
  <2>2. CASE w # None /\ Goes(h, {H("set", h.u, w, h.c, 0)})
    <3> DEFINE g == H("set", h.u, w, h.c, 0)
    <3>1. g \in Handler /\ HandlerOK(g)
      BY <1>1, <1>2, <2>2 DEF H, Handler, HandlerOK
    <3> QED BY <2>2, <3>1, GoesKeeps DEF TypeInv
  <2> QED BY <2>1, <2>2 DEF DrawTake
<1> QED BY <1>3, <1>4 DEF TypeInv

\* A waifu is only written into a row that exists.
LEMMA DrawSetType ==
  ASSUME TypeInv, NEW h \in flight, DrawSet(h)
  PROVE  TypeInv'
<1>1. <<h.u, h.c>> \in Seat /\ h.w \in User
  BY DEF Handlers, DrawSet, HandlerOK, TypeInv
<1>2. Handlers'
  BY EndsKeeps DEF DrawSet, TypeInv
<1>3. Rows'
  BY <1>1 DEF DrawSet, Settable, Rows, TypeInv
<1>4. Balances' /\ Rest'
  BY DEF DrawSet, Unlocks, Balances, Rest, TypeInv
<1> QED BY <1>2, <1>3, <1>4 DEF TypeInv

\* The press of "change" computes the cost it will charge.
LEMMA ChangeBeginType ==
  ASSUME TypeInv, NEW s \in Seat, NEW w \in User, NEW luck \in Luck,
         ChangeBegin(s[1], w, s[2], luck)
  PROVE  TypeInv'
<1> DEFINE k == Cost(changes[<<s[1], s[2]>>], luck)
           h == H("change", s[1], w, s[2], k)
<1>1. changes[<<s[1], s[2]>>] \in Nat
  <2>1. changes[s] \in Nat
    BY DEF Rest, TypeInv
  <2> QED BY <2>1, SeatOfUser
<1>2. k \in Nat /\ k >= Base
  BY <1>1, CostAtLeastBase
<1>3. h \in Handler /\ HandlerOK(h)
  <2> HIDE DEF k
  <2> QED BY <1>2, SeatOfUser DEF H, Handler, HandlerOK
<1>4. Handlers'
  BY <1>3, StartsKeeps DEF ChangeBegin, TypeInv
<1>5. Balances' /\ Rows' /\ Rest'
  BY SeatOfUser DEF ChangeBegin, Locks, Balances, Rows, Rest, TypeInv
<1> QED BY <1>4, <1>5 DEF TypeInv

\* The transaction of a change charges, and writes into a row that exists.
LEMMA ChangeTxType ==
  ASSUME TypeInv, NEW h \in flight, NEW w \in User \cup {None}, ChangeTx(h, w)
  PROVE  TypeInv'
<1>1. h \in Handler /\ <<h.u, h.c>> \in Seat /\ h.k \in Nat /\ h.k >= Base
  BY DEF Handlers, ChangeTx, HandlerOK, Handler, TypeInv
<1>2. h.u \in User
  <2>1. <<h.u, h.c>>[1] \in User
    BY <1>1, SeatOfUser
  <2> QED BY <2>1
<1>3. Handlers'
  BY EndsKeeps DEF ChangeTx, TypeInv
<1>4. Balances'
  <2>1. Charged(h.u, h.k) \in Int /\ Charged(h.u, h.k) >= -MaxDebt
    BY <1>1, <1>2, ChargedTakes DEF TypeInv
  <2>2. coins' = coins \/ coins' = [coins EXCEPT ![h.u] = Charged(h.u, h.k)]
    BY DEF ChangeTx
  <2> HIDE DEF Charged
  <2> QED BY <2>1, <2>2, <1>2 DEF Balances, TypeInv
<1>5. Rows'
  BY <1>1 DEF ChangeTx, Rows, TypeInv
<1>6. Rest'
  BY <1>1 DEF ChangeTx, Unlocks, Rest, TypeInv
<1> QED BY <1>3, <1>4, <1>5, <1>6 DEF TypeInv

\* The two steps of remove_waifu.
LEMMA RemoveType ==
  ASSUME TypeInv,
         \/ \E s \in Seat, w \in User : RemoveUnset(s[1], w, s[2])
         \/ \E h \in flight : RemoveRow(h)
  PROVE  TypeInv'
<1>1. ASSUME NEW s \in Seat, NEW w \in User, RemoveUnset(s[1], w, s[2])
      PROVE  TypeInv'
  <2> DEFINE h == H("remove", s[1], w, s[2], 0)
  <2>1. h \in Handler /\ HandlerOK(h)
    BY SeatOfUser DEF H, Handler, HandlerOK
  <2>2. Handlers'
    BY <1>1, <2>1, StartsKeeps DEF RemoveUnset, TypeInv
  <2>3. Rows' /\ Balances' /\ Rest'
    BY <1>1 DEF RemoveUnset, Rows, Balances, Rest, TypeInv
  <2> QED BY <2>2, <2>3 DEF TypeInv
<1>2. ASSUME NEW h \in flight, RemoveRow(h)
      PROVE  TypeInv'
  <2>1. Handlers' /\ Rows'
    BY <1>2, EndsKeeps, RowGoneKeeps DEF RemoveRow, TypeInv
  <2>2. Balances' /\ Rest'
    BY <1>2 DEF RemoveRow, Balances, Rest, TypeInv
  <2> QED BY <2>1, <2>2 DEF TypeInv
<1> QED BY <1>1, <1>2

\* Proposals, and what becomes of them before a transaction.
LEMMA ProposalType ==
  ASSUME TypeInv, NEW s \in Seat, NEW w \in User,
         \/ Ask(s[1], w, s[2])
         \/ Decline(s[1], w, s[2])
         \/ WeddingRead(s[1], w, s[2])
  PROVE  TypeInv'
<1>1. CASE Ask(s[1], w, s[2])
  <2>1. Rest'
    BY <1>1, SeatOfUser DEF Ask, Rest, TypeInv
  <2>2. Rows' /\ Balances' /\ Handlers'
    BY <1>1 DEF Ask, Rows, Balances, Handlers, HandlerOK, TypeInv
  <2> QED BY <2>1, <2>2 DEF TypeInv
<1>2. CASE Decline(s[1], w, s[2])
  BY <1>2 DEF Decline, Rest, Rows, Balances, Handlers, HandlerOK, TypeInv
<1>3. CASE WeddingRead(s[1], w, s[2])
  <2> DEFINE h == H("wed", s[1], w, s[2], 0)
  <2>1. h \in Handler /\ HandlerOK(h)
    BY SeatOfUser DEF H, Handler, HandlerOK
  <2>2. Handlers'
    BY <1>3, <2>1, StartsKeeps DEF WeddingRead, TypeInv
  <2>3. Rows' /\ Balances' /\ Rest'
    BY <1>3 DEF WeddingRead, Rows, Balances, Rest, TypeInv
  <2> QED BY <2>2, <2>3 DEF TypeInv
<1> QED BY <1>1, <1>2, <1>3

\* The commit of a wedding.
LEMMA WeddingCommitType ==
  ASSUME TypeInv, NEW h \in flight, WeddingCommit(h)
  PROVE  TypeInv'
<1>1. h.u \in User /\ h.w \in User
  BY DEF Handlers, WeddingCommit, HandlerOK, TypeInv
<1>2. Handlers'
  BY EndsKeeps DEF WeddingCommit, TypeInv
<1>3. Rows'
  BY <1>1 DEF WeddingCommit, Rows, TypeInv
<1>4. Balances' /\ Rest'
  BY <1>1 DEF WeddingCommit, Balances, Rest, TypeInv
<1> QED BY <1>2, <1>3, <1>4 DEF TypeInv

\* The two steps of a divorce.
LEMMA PartType ==
  ASSUME TypeInv,
         \/ \E u \in User : PartRead(u)
         \/ \E h \in flight : PartCommit(h)
  PROVE  TypeInv'
<1>1. ASSUME NEW u \in User, PartRead(u)
      PROVE  TypeInv'
  <2> DEFINE h == H("part", u, married[u], None, 0)
  <2>1. married[u] \in User
    BY <1>1 DEF PartRead, Rest, TypeInv
  <2>2. h \in Handler /\ HandlerOK(h)
    BY <2>1 DEF H, Handler, HandlerOK
  <2>3. Handlers'
    BY <1>1, <2>2, StartsKeeps DEF PartRead, TypeInv
  <2>4. Rows' /\ Balances' /\ Rest'
    BY <1>1 DEF PartRead, Rows, Balances, Rest, TypeInv
  <2> QED BY <2>3, <2>4 DEF TypeInv
<1>2. ASSUME NEW h \in flight, PartCommit(h)
      PROVE  TypeInv'
  <2>1. h.u \in User /\ h.w \in User
    BY <1>2 DEF Handlers, PartCommit, HandlerOK, TypeInv
  <2>2. Handlers'
    BY <1>2, EndsKeeps DEF PartCommit, TypeInv
  <2>3. Rows' /\ Balances' /\ Rest'
    BY <1>2, <2>1 DEF PartCommit, Rows, Balances, Rest, TypeInv
  <2> QED BY <2>2, <2>3 DEF TypeInv
<1> QED BY <1>1, <1>2

\* Members leave and come back.
LEMMA FickleType ==
  ASSUME TypeInv, NEW s \in Seat, Leave(s[1], s[2]) \/ Return(s[1], s[2])
  PROVE  TypeInv'
<1>1. CASE Leave(s[1], s[2])
  <2>1. Rows'
    BY <1>1, RowGoneKeeps DEF Leave, TypeInv
  <2>2. Balances' /\ Rest' /\ Handlers'
    BY <1>1 DEF Leave, Balances, Rest, Handlers, HandlerOK, TypeInv
  <2> QED BY <2>1, <2>2 DEF TypeInv
<1>2. CASE Return(s[1], s[2])
  <2>1. Rows'
    BY <1>2, SeatOfUser DEF Return, Rows, TypeInv
  <2>2. Balances' /\ Rest' /\ Handlers'
    BY <1>2 DEF Return, Balances, Rest, Handlers, HandlerOK, TypeInv
  <2> QED BY <2>1, <2>2 DEF TypeInv
<1> QED BY <1>1, <1>2

\* The job at the end of the day.
LEMMA CleanType ==
  ASSUME TypeInv, CleanBegin \/ \E h \in flight : CleanEnd(h)
  PROVE  TypeInv'
<1>1. CASE CleanBegin
  <2> DEFINE h == H("wipe", None, None, None, 0)
  <2>1. h \in Handler /\ HandlerOK(h)
    BY DEF H, Handler, HandlerOK
  <2>2. Handlers'
    BY <1>1, <2>1, StartsKeeps DEF CleanBegin, TypeInv
  <2>3. Rows' /\ Balances' /\ Rest'
    BY <1>1 DEF CleanBegin, Rows, Balances, Rest, TypeInv
  <2> QED BY <2>2, <2>3 DEF TypeInv
<1>2. ASSUME NEW h \in flight, CleanEnd(h)
      PROVE  TypeInv'
  <2>1. Handlers'
    BY <1>2, EndsKeeps DEF CleanEnd, TypeInv
  <2>2. Rows' /\ Balances' /\ Rest'
    BY <1>2 DEF CleanEnd, Rows, Balances, Rest, TypeInv
  <2> QED BY <2>1, <2>2 DEF TypeInv
<1> QED BY <1>1, <1>2

\* The actions, with whoever acts in one of the seats.
LEMMA NextCases ==
  ASSUME TypeInv, Next
  PROVE  \/ \E h \in flight :
              \/ \E w \in User \cup {None} : DrawTake(h, w) \/ ChangeTx(h, w)
              \/ DrawSet(h) \/ RemoveRow(h) \/ WeddingCommit(h)
              \/ PartCommit(h) \/ CleanEnd(h)
         \/ \E s \in Seat : DrawBegin(s[1], s[2])
         \/ \E s \in Seat : Leave(s[1], s[2]) \/ Return(s[1], s[2])
         \/ \E s \in Seat, w \in User :
              \/ \E luck \in Luck : ChangeBegin(s[1], w, s[2], luck)
              \/ RemoveUnset(s[1], w, s[2])
              \/ Ask(s[1], w, s[2]) \/ Decline(s[1], w, s[2])
              \/ WeddingRead(s[1], w, s[2])
         \/ \E u \in User : PartRead(u)
         \/ CleanBegin
<1>1. day.players \subseteq Seat /\ Fickle \subseteq Seat
  BY WaifuAssumption DEF Rest, TypeInv
<1> QED BY <1>1 DEF Next, Step

\* Every step keeps the strengthened type invariant.
THEOREM NextType == TypeInv /\ [Next]_vars => TypeInv'
<1> SUFFICES ASSUME TypeInv, [Next]_vars PROVE TypeInv'
  OBVIOUS
<1>1. CASE UNCHANGED vars
  BY <1>1 DEF vars, TypeInv, Balances, Rows, Rest, Handlers, HandlerOK
<1>2. CASE Next
  BY <1>2, NextCases, DrawBeginType, DrawTakeType, DrawSetType, ChangeBeginType,
     ChangeTxType, RemoveType, ProposalType, WeddingCommitType, PartType,
     FickleType, CleanType
<1> QED BY <1>1, <1>2

\* No balance falls below the limit, nobody outside a chat has a waifu there,
\* and every handler is one of the code's.
THEOREM TypeCorrect == Spec => []TypeOK
<1> QED BY TypeInvOK, InitType, NextType, PTL DEF Spec

-----------------------------------------------------------------------------
\* Marriages.  Between its two steps a wedding or a divorce relies on what it
\* has read; nobody but another such transaction of one of the two can change
\* that, and then the two have met.

ReadStill(g) ==
    /\ g.op = "wed" => married[g.u] = None /\ married[g.w] = None
    /\ g.op = "part" => married[g.u] = g.w /\ married[g.w] = g.u
MutualInv == ~overlap => MarriageMutual /\ \A g \in flight : ReadStill(g)

\* Nobody is married at the start of a behaviour.
LEMMA InitMutual == Init => MutualInv
BY DEF Init, MutualInv, MarriageMutual

\* A step that leaves marriages alone and adds no transaction on them.
LEMMA OthersMutual ==
  ASSUME MutualInv, UNCHANGED <<married, overlap>>,
         \A g \in flight' : g \in flight \/ g.op \notin {"wed", "part"}
  PROVE  MutualInv'
BY DEF MutualInv, MarriageMutual, ReadStill

\* The other transactions that a commit did not meet are of other users.
LEMMA NotMet ==
  ASSUME NEW h \in flight, Goes(h, {}), ~Meets(h),
         NEW g \in flight', g.op \in {"wed", "part"}
  PROVE  g \in flight /\ g.u \notin {h.u, h.w} /\ g.w \notin {h.u, h.w}
BY DEF Goes, Meets

\* A wedding of two who are free makes them each other's partner.
LEMMA WeddingMutual ==
  ASSUME TypeInv, MutualInv, NEW h \in flight, WeddingCommit(h)
  PROVE  MutualInv'
<1> SUFFICES ASSUME ~overlap, ~Meets(h)
             PROVE  MarriageMutual' /\ \A g \in flight' : ReadStill(g)'
  BY DEF MutualInv, WeddingCommit
<1>1. h.op = "wed" /\ h.u \in User /\ h.w \in User /\ None \notin User
  BY WaifuAssumption DEF TypeInv, Handlers, WeddingCommit, HandlerOK
<1>2. /\ married \in [User -> User \cup {None}] /\ Goes(h, {})
      /\ married' = [married EXCEPT ![h.u] = h.w, ![h.w] = h.u]
  BY DEF TypeInv, Rest, WeddingCommit
<1>3. /\ married[h.u] = None /\ married[h.w] = None
      /\ \A v \in User : married[v] # None => married[married[v]] = v
  BY <1>1 DEF MutualInv, ReadStill, MarriageMutual
<1>4. MarriageMutual'
  <2> SUFFICES ASSUME NEW v \in User, married'[v] # None
               PROVE  married'[married'[v]] = v
    BY DEF MarriageMutual
  <2>1. CASE v \in {h.u, h.w}
    BY <2>1, <1>1, <1>2
  <2>2. CASE v \notin {h.u, h.w}
    <3>1. married'[v] = married[v] /\ married[v] \in User
      BY <2>2, <1>1, <1>2
    <3>2. married[v] \notin {h.u, h.w}
      BY <3>1, <2>2, <1>1, <1>3
    <3> QED BY <3>1, <3>2, <1>1, <1>2, <1>3
  <2> QED BY <2>1, <2>2
<1>5. ASSUME NEW g \in flight'
      PROVE  ReadStill(g)'
  <2> SUFFICES ASSUME g.op \in {"wed", "part"}
               PROVE  ReadStill(g)'
    BY DEF ReadStill
  <2>1. g \in flight /\ g.u \notin {h.u, h.w} /\ g.w \notin {h.u, h.w}
    BY <1>2, NotMet
  <2>2. g.u \in User /\ g.w \in User
    BY <2>1 DEF TypeInv, Handlers, HandlerOK
  <2>3. married'[g.u] = married[g.u] /\ married'[g.w] = married[g.w]
    BY <2>1, <2>2, <1>1, <1>2
  <2> QED BY <2>1, <2>3 DEF ReadStill, MutualInv
<1> QED BY <1>4, <1>5

\* A divorce of two who are each other's partner frees both and nobody else.
LEMMA PartMutual ==
  ASSUME TypeInv, MutualInv, NEW h \in flight, PartCommit(h)
  PROVE  MutualInv'
<1> SUFFICES ASSUME ~overlap, ~Meets(h)
             PROVE  MarriageMutual' /\ \A g \in flight' : ReadStill(g)'
  BY DEF MutualInv, PartCommit
<1>1. h.op = "part" /\ h.u \in User /\ h.w \in User /\ None \notin User
  BY WaifuAssumption DEF TypeInv, Handlers, PartCommit, HandlerOK
<1>2. /\ married \in [User -> User \cup {None}] /\ Goes(h, {})
      /\ married' = [married EXCEPT ![h.u] = None, ![h.w] = None]
  BY DEF TypeInv, Rest, PartCommit
<1>3. /\ married[h.u] = h.w /\ married[h.w] = h.u
      /\ \A v \in User : married[v] # None => married[married[v]] = v
  BY <1>1 DEF MutualInv, ReadStill, MarriageMutual
<1>4. MarriageMutual'
  <2> SUFFICES ASSUME NEW v \in User, married'[v] # None
               PROVE  married'[married'[v]] = v
    BY DEF MarriageMutual
  <2>1. v \notin {h.u, h.w}
    BY <1>1, <1>2
  <2>2. married'[v] = married[v] /\ married[v] \in User
    BY <2>1, <1>1, <1>2
  <2>3. married[v] \notin {h.u, h.w}
    BY <2>1, <2>2, <1>1, <1>3
  <2> QED BY <2>2, <2>3, <1>1, <1>2, <1>3
<1>5. ASSUME NEW g \in flight'
      PROVE  ReadStill(g)'
  <2> SUFFICES ASSUME g.op \in {"wed", "part"}
               PROVE  ReadStill(g)'
    BY DEF ReadStill
  <2>1. g \in flight /\ g.u \notin {h.u, h.w} /\ g.w \notin {h.u, h.w}
    BY <1>2, NotMet
  <2>2. g.u \in User /\ g.w \in User
    BY <2>1 DEF TypeInv, Handlers, HandlerOK
  <2>3. married'[g.u] = married[g.u] /\ married'[g.w] = married[g.w]
    BY <2>1, <2>2, <1>1, <1>2
  <2> QED BY <2>1, <2>3 DEF ReadStill, MutualInv
<1> QED BY <1>4, <1>5

\* The first steps of the two have just read what they rely on.
LEMMA ReadsMutual ==
  ASSUME TypeInv, MutualInv,
         \/ \E s \in Seat, w \in User : WeddingRead(s[1], w, s[2])
         \/ \E u \in User : PartRead(u)
  PROVE  MutualInv'
<1> SUFFICES ASSUME NEW h, Starts(h), ReadStill(h), UNCHANGED <<married, overlap>>
             PROVE  MutualInv'
  BY DEF WeddingRead, BothFree, PartRead, ReadStill, H
<1> QED BY DEF MutualInv, MarriageMutual, ReadStill, Starts

\* Every step keeps the marriages mutual, unless two of them have met.
THEOREM NextMutual == TypeInv /\ MutualInv /\ [Next]_vars => MutualInv'
<1> SUFFICES ASSUME TypeInv, MutualInv, [Next]_vars PROVE MutualInv'
  OBVIOUS
<1> DEFINE Other == /\ UNCHANGED <<married, overlap>>
                    /\ \A g \in flight' : g \in flight \/ g.op \notin {"wed", "part"}
<1>1. CASE UNCHANGED vars
  BY <1>1, OthersMutual DEF vars
<1>2. CASE Next
  <2>1. ASSUME NEW h \in flight,
               \/ \E w \in User \cup {None} : DrawTake(h, w) \/ ChangeTx(h, w)
               \/ DrawSet(h) \/ RemoveRow(h) \/ CleanEnd(h)
        PROVE  Other
    <3>1. UNCHANGED <<married, overlap>>
      BY <2>1 DEF DrawTake, ChangeTx, DrawSet, RemoveRow, CleanEnd
    <3>2. Goes(h, {}) \/ \E g : g.op = "set" /\ Goes(h, {g})
      BY <2>1 DEF DrawTake, ChangeTx, DrawSet, RemoveRow, CleanEnd, H
    <3> QED BY <3>1, <3>2 DEF Goes
  <2>2. ASSUME \/ \E s \in Seat : DrawBegin(s[1], s[2])
               \/ \E s \in Seat, w \in User :
                    \/ \E luck \in Luck : ChangeBegin(s[1], w, s[2], luck)
                    \/ RemoveUnset(s[1], w, s[2])
               \/ CleanBegin
        PROVE  Other
    <3>1. UNCHANGED <<married, overlap>>
      BY <2>2 DEF DrawBegin, ChangeBegin, RemoveUnset, CleanBegin
    <3>2. \E g : g.op \notin {"wed", "part"} /\ Starts(g)
      BY <2>2 DEF DrawBegin, ChangeBegin, RemoveUnset, CleanBegin, H
    <3> QED BY <3>1, <3>2 DEF Starts
  <2>3. ASSUME \/ \E s \in Seat : Leave(s[1], s[2]) \/ Return(s[1], s[2])
               \/ \E s \in Seat, w \in User : Ask(s[1], w, s[2]) \/ Decline(s[1], w, s[2])
        PROVE  Other
    BY <2>3 DEF Ask, Decline, Leave, Return
  <2>4. \/ Other
        \/ \E h \in flight : WeddingCommit(h) \/ PartCommit(h)
        \/ \E s \in Seat, w \in User : WeddingRead(s[1], w, s[2])
        \/ \E u \in User : PartRead(u)
    <3> HIDE DEF Other
    <3> QED BY <1>2, NextCases, <2>1, <2>2, <2>3
  <2>5. Other => MutualInv'
    BY OthersMutual
  <2> QED BY <2>4, <2>5, WeddingMutual, PartMutual, ReadsMutual
<1> QED BY <1>1, <1>2

\* However proposals, draws, changes and departures are interleaved, whoever is
\* married is married to somebody who is married to him, unless two weddings
\* or divorces met on one user (association.py: make_wedding, divorce).
THEOREM MarriagesMutual == Spec => []MutualUnlessOverlapped
<1>1. MutualInv => MutualUnlessOverlapped
  BY DEF MutualInv, MutualUnlessOverlapped
<1> QED BY <1>1, InitType, NextType, InitMutual, NextMutual, PTL DEF Spec

-----------------------------------------------------------------------------
\* Paying.

\* Every step that gives somebody another waifu of the day takes his coins or
\* marries him.
THEOREM StepPaysOrWeds == TypeInv /\ [Next]_vars => PaysOrWeds
<1> SUFFICES ASSUME TypeInv, [Next]_vars,
                    NEW s \in Seat, waifu[s] # None, waifu'[s] \notin {waifu[s], None}
             PROVE  coins'[s[1]] < coins[s[1]] \/ married'[s[1]] # None
  BY DEF PaysOrWeds
<1>1. waifu \in [Seat -> User \cup {None}]
  BY DEF TypeInv, Rows
<1>2. waifu' # waifu
  OBVIOUS
<1>3. ASSUME NEW h \in flight, NEW w \in User \cup {None}, ChangeTx(h, w)
      PROVE  coins'[s[1]] < coins[s[1]]
  <2>1. /\ waifu' = [waifu EXCEPT ![<<h.u, h.c>>] = w]
        /\ coins' = [coins EXCEPT ![h.u] = Charged(h.u, h.k)]
        /\ ~InDebt(h.u)
    BY <1>2, <1>3 DEF ChangeTx
  <2>2. s = <<h.u, h.c>>
    BY <1>1, <2>1
  <2>3. h.u \in User /\ s[1] = h.u /\ h.k \in Nat /\ h.k >= Base
    BY <2>2, <1>3, SeatOfUser DEF TypeInv, Handlers, Handler, HandlerOK, ChangeTx
  <2>4. coins[h.u] >= 0
    BY <2>1, <2>3 DEF InDebt, TypeInv, Balances
  <2>5. Charged(h.u, h.k) < coins[h.u]
    BY <2>3, <2>4, ChargedTakes DEF TypeInv
  <2> HIDE DEF Charged
  <2> QED BY <2>1, <2>3, <2>5 DEF TypeInv, Balances
<1>4. ASSUME NEW h \in flight, WeddingCommit(h)
      PROVE  married'[s[1]] # None
  <2>1. h.u \in User /\ h.w \in User /\ None \notin User
    BY <1>4, WaifuAssumption DEF TypeInv, Handlers, HandlerOK, WeddingCommit
  <2>2. s = <<h.u, h.c>> \/ s = <<h.w, h.c>>
    BY <1>4 DEF WeddingCommit
  <2>3. s[1] \in {h.u, h.w}
    BY <2>2
  <2> QED BY <2>1, <2>3, <1>4 DEF WeddingCommit, TypeInv, Rest
<1>5. ASSUME NEW h \in flight, DrawSet(h)
      PROVE  FALSE
  BY <1>1, <1>2, <1>5 DEF DrawSet, Settable
<1>6. ASSUME NEW u, NEW c, RowGone(u, c) \/ waifu' = [waifu EXCEPT ![<<u, c>>] = None]
      PROVE  FALSE
  BY <1>1, <1>6 DEF RowGone
<1>7. ASSUME NEW h \in flight, PartCommit(h) \/ CleanEnd(h)
      PROVE  FALSE
  BY <1>7 DEF PartCommit, CleanEnd
<1>8. CASE Next
  <2>1. \/ \E h \in flight :
             \/ \E w \in User \cup {None} : ChangeTx(h, w)
             \/ DrawSet(h) \/ RowGone(h.w, h.c) \/ WeddingCommit(h)
             \/ PartCommit(h) \/ CleanEnd(h)
        \/ \E t \in Seat : RowGone(t[1], t[2])
        \/ \E t \in Seat : waifu' = [waifu EXCEPT ![<<t[1], t[2]>>] = None]
    BY <1>2, <1>8, NextCases DEF DrawTake, RemoveRow, DrawBegin, Leave, Return,
       ChangeBegin, RemoveUnset, Ask, Decline, WeddingRead, PartRead, CleanBegin
  <2> QED BY <2>1, <1>3, <1>4, <1>5, <1>6, <1>7
<1> QED BY <1>2, <1>8 DEF vars

\* Every step that takes coins takes them from somebody who is not in debt.
THEOREM StepCharges == TypeInv /\ [Next]_vars => ChargedOutOfDebt
<1> SUFFICES ASSUME TypeInv, [Next]_vars, NEW u \in User, coins'[u] < coins[u]
             PROVE  coins[u] >= 0
  BY DEF ChargedOutOfDebt
<1>1. coins' # coins
  BY DEF TypeInv, Balances
<1>2. PICK h \in flight, w \in User \cup {None} : ChangeTx(h, w)
  BY <1>1, NextCases DEF vars, DrawTake, DrawSet, RemoveRow, WeddingCommit,
     PartCommit, CleanEnd, DrawBegin, Leave, Return, ChangeBegin, RemoveUnset, Ask,
     Decline, WeddingRead, PartRead, CleanBegin
<1>3. coins' = [coins EXCEPT ![h.u] = Charged(h.u, h.k)] /\ ~InDebt(h.u)
  BY <1>1, <1>2 DEF ChangeTx
<1>4. coins \in [User -> Int]
  BY DEF TypeInv, Balances
<1>5. u = h.u
  BY <1>3, <1>4
<1> QED BY <1>3, <1>4, <1>5 DEF InDebt

\* A waifu of the day is exchanged for another only by a payment or a wedding,
\* also when a draw, a change and a departure overtake one another.
THEOREM ExchangesPaid == Spec => WaifuPaidFor
BY InitType, NextType, StepPaysOrWeds, PTL DEF Spec, WaifuPaidFor

\* A change that was affordable when it began is not charged to somebody whom
\* another change has put into debt (association.py: change_user_waifu_in_chat).
THEOREM DebtsKept == Spec => DebtNotDeepened
BY InitType, NextType, StepCharges, PTL DEF Spec, DebtNotDeepened

-----------------------------------------------------------------------------
\* ChatConfigs: its type invariant, and what a handler that nobody overtakes
\* and whose commits succeed has in its hands.

Alone == ~raced /\ faults = 0
InHand(w) ==
    /\ pc[w] = "missed" => heap[w] = row
    /\ pc[w] = "holds" => heap[holds[w]] = row
    /\ pc[w] = "reading" => heap[holds[w]].bank = row.bank
    /\ pc[w] = "read" => heap[w] = row /\ holds[w] = w
    /\ pc[w] \in {"writing", "banking"} => writes[w] = heap[holds[w]]
    /\ pc[w] = "writing" => writes[w].bank = row.bank
    /\ pc[w] \in {"holds", "reading", "writing", "banking"} => cached \in {None, holds[w]}
ConfigsInv ==
    Alone => /\ \A v, w \in Configs!InFlight : v = w
             /\ row.bank = saved
             /\ \A w \in Writers : InHand(w)
             /\ Configs!InFlight = {} /\ cached # None => heap[cached] = row

\* No handler has begun, and nothing is stored.
LEMMA InitConfigs == Configs!Init => Configs!TypeOK /\ ConfigsInv
<1> SUFFICES ASSUME Configs!Init PROVE Configs!TypeOK /\ ConfigsInv
  OBVIOUS
<1>1. Configs!Blank \in Configs!Config /\ Configs!Blank.bank = 0
  BY DEF Configs!Blank, Configs!Config
<1>2. Configs!TypeOK
  <2>1. /\ pc \in [Writers -> {"idle", "missed", "holds", "reading", "read",
                            "writing", "banking", "done"}]
        /\ \A w \in Writers : pc[w] = "idle"
    BY DEF Configs!Init
  <2>2. faults \in 0..MaxFaults /\ saved \in Nat
    BY WritersAssumption DEF Configs!Init
  <2>4. raced \in BOOLEAN
    BY DEF Configs!Init
  <2>3. /\ row \in Configs!Config /\ heap \in [Writers -> Configs!Config]
        /\ cached \in Writers \cup {None} /\ holds \in [Writers -> Writers \cup {None}]
        /\ writes \in [Writers -> Configs!Config]
    BY <1>1 DEF Configs!Init
  <2> QED BY <2>1, <2>2, <2>3, <2>4 DEF Configs!TypeOK
<1>3. ConfigsInv
  BY <1>1 DEF Configs!Init, ConfigsInv, InHand, Configs!InFlight
<1> QED BY <1>2, <1>3

\* An update of one field is a configuration, and keeps the bank unless it is
\* the field.
LEMMA FieldSet ==
  ASSUME NEW c \in Configs!Config, NEW f \in {"flags", "bank"}
  PROVE  /\ Configs!Fields(c, f) \in Configs!Config
         /\ f = "flags" => Configs!Fields(c, f).bank = c.bank
BY DEF Configs!Config, Configs!Fields

\* Every step of a handler keeps the types.
LEMMA StepConfigsType ==
  ASSUME Configs!TypeOK, NEW w \in Writers, Configs!Step(w)
  PROVE  Configs!TypeOK'
<1> USE WritersAssumption DEF Configs!TypeOK, Configs!Goes
<1>1. CASE Configs!Hit(w)
  BY <1>1 DEF Configs!Hit
<1>2. CASE Configs!Miss(w)
  BY <1>2 DEF Configs!Miss
<1>3. CASE Configs!Fill(w)
  BY <1>3 DEF Configs!Fill
<1>4. CASE Configs!JustRead(w)
  BY <1>4 DEF Configs!JustRead
<1>5. CASE Configs!Change(w)
  <2>1. holds[w] \in Writers /\ heap[holds[w]] \in Configs!Config
    BY <1>5 DEF Configs!Change
  <2>2. [heap[holds[w]] EXCEPT !.flags = @ + 1] \in Configs!Config
    BY <2>1 DEF Configs!Config
  <2>3. heap' \in [Writers -> Configs!Config]
    BY <2>1, <2>2, <1>5 DEF Configs!Change
  <2> QED BY <2>3, <1>5 DEF Configs!Change
<1>6. CASE Configs!Assign(w)
  BY <1>6 DEF Configs!Assign
<1>7. CASE Configs!ReadRow(w)
  BY <1>7 DEF Configs!ReadRow
<1>8. ASSUME NEW f \in {"flags", "bank"}, Configs!SetFields(w, f)
      PROVE  Configs!TypeOK'
  <2>1. Configs!Fields(heap[w], f) \in Configs!Config
    BY FieldSet
  <2>2. heap' = [heap EXCEPT ![w] = Configs!Fields(heap[w], f)]
    BY <1>8 DEF Configs!SetFields
  <2>3. heap' \in [Writers -> Configs!Config] /\ heap'[w] \in Configs!Config
    BY <2>1, <2>2
  <2>4. writes' \in [Writers -> Configs!Config]
    BY <2>3, <1>8 DEF Configs!SetFields
  <2>5. /\ row' = row /\ cached' = w /\ holds' = holds /\ saved' = saved
        /\ faults' = faults /\ pc[w] = "read" /\ raced' \in BOOLEAN
        /\ \E at \in {"writing", "banking"} : pc' = [pc EXCEPT ![w] = at]
    BY <1>8 DEF Configs!SetFields, Configs!Cache
  <2> QED BY <2>3, <2>4, <2>5
<1>9. CASE Configs!Commit(w)
  BY <1>9 DEF Configs!Commit, Configs!Config
<1>10. CASE Configs!Rollback(w)
  BY <1>10 DEF Configs!Rollback
<1> QED BY <1>1, <1>2, <1>3, <1>4, <1>5, <1>6, <1>7, <1>8, <1>9, <1>10 DEF Configs!Step

\* A handler that nobody overtook was the only one in flight, before its step
\* and after it.
LEMMA NobodyElse ==
  ASSUME Configs!TypeOK, NEW w \in Writers, NEW at, Configs!Goes(w, at), ~raced'
  PROVE  /\ ~raced
         /\ \A v \in Writers : v # w => pc[v] \in {"idle", "done"} /\ pc'[v] = pc[v]
         /\ pc'[w] = at
         /\ Configs!InFlight \subseteq {w} /\ Configs!InFlight' \subseteq {w}
         /\ pc[w] \in {"idle", "done"} => Configs!InFlight = {}
         /\ at \notin {"idle", "done"} => Configs!InFlight' # {}
BY DEF Configs!TypeOK, Configs!Goes, Configs!InFlight

\* Every step of a handler keeps what it has in its hands.
LEMMA StepConfigs ==
  ASSUME Configs!TypeOK, ConfigsInv, NEW w \in Writers, Configs!Step(w)
  PROVE  ConfigsInv'
<1> SUFFICES ASSUME ~raced', faults' = 0
             PROVE  /\ \A u, v \in Configs!InFlight' : u = v
                    /\ row'.bank = saved'
                    /\ \A v \in Writers : InHand(v)'
                    /\ Configs!InFlight' = {} /\ cached' # None => heap'[cached'] = row'
  BY DEF ConfigsInv, Alone
<1>0. PICK at : Configs!Goes(w, at)
  BY DEF Configs!Step, Configs!Hit, Configs!Miss, Configs!Fill, Configs!JustRead,
     Configs!Change, Configs!Assign, Configs!ReadRow, Configs!SetFields,
     Configs!Commit, Configs!Rollback
<1>a. /\ ~raced /\ Configs!InFlight \subseteq {w} /\ Configs!InFlight' \subseteq {w}
      /\ \A v \in Writers : v # w => pc'[v] \in {"idle", "done"}
  BY <1>0, NobodyElse
<1>b. faults \in Nat /\ faults' \in {faults, faults + 1}
  BY WritersAssumption DEF Configs!TypeOK, Configs!Step, Configs!Hit, Configs!Miss,
     Configs!Fill, Configs!JustRead, Configs!Change, Configs!Assign, Configs!ReadRow,
     Configs!SetFields, Configs!Commit, Configs!Rollback
<1>c. Alone
  BY <1>a, <1>b DEF Alone
<1>d. /\ row.bank = saved /\ InHand(w)
      /\ Configs!InFlight = {} /\ cached # None => heap[cached] = row
  BY <1>c DEF ConfigsInv
<1>e. \A v \in Writers : v # w => InHand(v)'
  BY <1>a DEF InHand
<1> DEFINE Kept == /\ row'.bank = saved' /\ InHand(w)'
                   /\ Configs!InFlight' = {} /\ cached' # None => heap'[cached'] = row'
<1> SUFFICES Kept
  BY <1>a, <1>e
<1> USE <1>d DEF Configs!TypeOK
<1>1. CASE Configs!Hit(w)
  <2>1. Configs!InFlight = {} /\ Configs!InFlight' # {} /\ pc'[w] = "holds"
    BY <1>1, NobodyElse DEF Configs!Hit
  <2> QED BY <1>1, <2>1 DEF Configs!Hit, InHand
<1>2. CASE Configs!Miss(w)
  <2>1. Configs!InFlight' # {} /\ pc'[w] = "missed"
    BY <1>2, NobodyElse DEF Configs!Miss
  <2> QED BY <1>2, <2>1 DEF Configs!Miss, InHand
<1>3. CASE Configs!Fill(w)
  <2>1. Configs!InFlight' # {} /\ pc'[w] = "holds"
    BY <1>3, NobodyElse DEF Configs!Fill
  <2> QED BY <1>3, <2>1 DEF Configs!Fill, InHand
<1>4. CASE Configs!JustRead(w)
  <2>1. pc'[w] = "done"
    BY <1>4, NobodyElse DEF Configs!JustRead
  <2> QED BY <1>4, <2>1 DEF Configs!JustRead, InHand
<1>5. CASE Configs!Change(w)
  <2>1. Configs!InFlight' # {} /\ pc'[w] = "reading"
    BY <1>5, NobodyElse DEF Configs!Change
  <2>2. holds[w] \in Writers /\ heap[holds[w]] \in Configs!Config
    BY <1>5 DEF Configs!Change
  <2>3. heap'[holds[w]].bank = heap[holds[w]].bank
    BY <2>2, <1>5 DEF Configs!Change, Configs!Config
  <2> QED BY <1>5, <2>1, <2>3 DEF Configs!Change, InHand
<1>6. CASE Configs!Assign(w)
  <2>1. Configs!InFlight' # {} /\ pc'[w] = "writing"
    BY <1>6, NobodyElse DEF Configs!Assign
  <2> QED BY <1>6, <2>1 DEF Configs!Assign, InHand
<1>7. CASE Configs!ReadRow(w)
  <2>1. Configs!InFlight' # {} /\ pc'[w] = "read"
    BY <1>7, NobodyElse DEF Configs!ReadRow
  <2> QED BY <1>7, <2>1 DEF Configs!ReadRow, InHand
<1>8. ASSUME NEW f \in {"flags", "bank"}, Configs!SetFields(w, f)
      PROVE  Kept
  <2>1. Configs!InFlight' # {} /\ pc'[w] = IF f = "bank" THEN "banking" ELSE "writing"
    BY <1>8, NobodyElse DEF Configs!SetFields
  <2>2. heap'[w] = Configs!Fields(heap[w], f) /\ writes'[w] = heap'[w]
    BY <1>8 DEF Configs!SetFields
  <2>3. f = "flags" => heap'[w].bank = row.bank
    BY <2>2, <1>8, FieldSet DEF Configs!SetFields, InHand
  <2> QED BY <1>8, <2>1, <2>2, <2>3 DEF Configs!SetFields, Configs!Cache, InHand
<1>9. CASE Configs!Commit(w)
  <2>1. pc'[w] = "done"
    BY <1>9, NobodyElse DEF Configs!Commit
  <2> QED BY <1>9, <2>1 DEF Configs!Commit, InHand
<1>10. CASE Configs!Rollback(w)
  BY <1>10, <1>b, WritersAssumption DEF Configs!Rollback
<1> HIDE DEF Kept
<1> QED BY <1>1, <1>2, <1>3, <1>4, <1>5, <1>6, <1>7, <1>8, <1>9, <1>10
    DEF Configs!Step

\* Five minutes pass: the cache forgets, and so nothing in it can be stale.
LEMMA ExpireConfigs ==
  ASSUME Configs!TypeOK, ConfigsInv, Configs!Expire
  PROVE  Configs!TypeOK' /\ ConfigsInv'
<1>1. Configs!TypeOK'
  BY DEF Configs!Expire, Configs!TypeOK
<1>2. ConfigsInv'
  BY DEF Configs!Expire, ConfigsInv, Alone, InHand, Configs!InFlight
<1> QED BY <1>1, <1>2

-----------------------------------------------------------------------------
\* The world of the run, which shows one of the two.

WorldInv == TypeInv /\ MutualInv /\ Configs!TypeOK /\ ConfigsInv

\* Every step of the world is one of Waifu or one of ChatConfigs.
THEOREM WorldSteps ==
  WorldInv /\ [WorldNext]_all => WorldInv' /\ PaysOrWeds /\ ChargedOutOfDebt
<1> SUFFICES ASSUME WorldInv, [WorldNext]_all
             PROVE  WorldInv' /\ PaysOrWeds /\ ChargedOutOfDebt
  OBVIOUS
<1>1. [Next]_vars
  BY DEF WorldNext, all
<1>2. TypeInv' /\ MutualInv' /\ PaysOrWeds /\ ChargedOutOfDebt
  BY <1>1, NextType, NextMutual, StepPaysOrWeds, StepCharges DEF WorldInv
<1>3. Configs!Next \/ UNCHANGED configs
  BY DEF WorldNext, all
<1>4. Configs!TypeOK' /\ ConfigsInv'
  <2>1. CASE Configs!Next
    BY <2>1, StepConfigsType, StepConfigs, ExpireConfigs DEF WorldInv, Configs!Next
  <2>2. CASE UNCHANGED configs
    BY <2>2 DEF configs, WorldInv, Configs!TypeOK, ConfigsInv, Alone, InHand,
       Configs!InFlight
  <2> QED BY <1>3, <2>1, <2>2
<1> QED BY <1>2, <1>4 DEF WorldInv

\* The world starts as its two parts do.
LEMMA WorldStarts == WorldInit => WorldInv
BY InitType, InitMutual, InitConfigs DEF WorldInit, WorldInv

\* A page of the panel or a command cannot wipe the verification bank that
\* another page saved, nor the cache outlive an update, unless handlers overlap
\* or a commit fails; and both modules keep their types.
THEOREM ConfigsKeptHolds == WorldSpec => []ConfigsKept
<1>1. WorldInv => ConfigsKept
  BY TypeInvOK DEF WorldInv, ConfigsInv, ConfigsKept, Alone, Configs!BankKeptAlone,
     Configs!BankKept, Configs!CacheFreshAlone
<1> QED BY <1>1, WorldStarts, WorldSteps, PTL DEF WorldSpec

\* In the world of the run, marriages stay mutual unless two met on a user.
THEOREM WorldMutual == WorldSpec => []MutualUnlessOverlapped
<1>1. WorldInv => MutualUnlessOverlapped
  BY DEF WorldInv, MutualInv, MutualUnlessOverlapped
<1> QED BY <1>1, WorldStarts, WorldSteps, PTL DEF WorldSpec

\* In the world of the run, an exchanged waifu is paid for by somebody who is
\* not in debt, or goes with a wedding.
THEOREM WaifuPaidHolds == WorldSpec => WaifuPaid
BY WorldStarts, WorldSteps, PTL DEF WorldSpec, WaifuPaid

=============================================================================
