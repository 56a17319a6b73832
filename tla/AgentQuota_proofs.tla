--------------------------- MODULE AgentQuota_proofs ---------------------------
(***************************************************************************)
(* Proofs about AgentQuota, for every set of accounts, transactions and    *)
(* subjects and for every bound.                                           *)
(***************************************************************************)
EXTENDS AgentQuota, FiniteSetTheorems, TLAPS

----------------------------------------------------------------------------
\* Constants.

\* What Subject.accounts() returns: one or two accounts.
LEMMA SubjectShape ==
  ASSUME NEW s \in Subjects
  PROVE  /\ s \in Seq(Account)
         /\ Len(s) \in {1, 2}
         /\ \A k \in 1..Len(s) : s[k] \in Account
<1>1. CASE s \in {<<a>> : a \in Account}
  <2>1. PICK a \in Account : s = <<a>>
    BY <1>1
  <2>2. Len(<<a>>) = 1 /\ <<a>>[1] = a /\ <<a>> \in Seq(Account)
    OBVIOUS
  <2> QED
    BY <2>1, <2>2
<1>2. CASE s \in {<<u, c>> : u \in Users, c \in Chats}
  <2>1. PICK u \in Users, c \in Chats : s = <<u, c>>
    BY <1>2
  <2>2. u \in Account /\ c \in Account
    BY DEF Account
  <2>3. /\ Len(<<u, c>>) = 2 /\ <<u, c>>[1] = u /\ <<u, c>>[2] = c
        /\ <<u, c>> \in Seq(Account)
    BY <2>2
  <2> QED
    BY <2>1, <2>2, <2>3
<1> QED
  BY <1>1, <1>2, SubjectsOK

\* The account an operator edits, as a list of payers.
LEMMA SingleShape ==
  ASSUME NEW a \in Account
  PROVE  /\ <<a>> \in Seq(Account)
         /\ Len(<<a>>) = 1
         /\ <<a>>[1] = a
OBVIOUS

\* spend_credit's two effects on a row: the balance and the ledger total.
LEMMA DebitShape ==
  ASSUME NEW c \in CreditRow, NEW n \in Nat
  PROVE  /\ Debit(c, n) \in CreditRow
         /\ Debit(c, n).balance = c.balance - n
         /\ Debit(c, n).spent = c.spent + n /\ Debit(c, n).granted = c.granted
<1> DEFINE d == [c EXCEPT !.balance = c.balance - n]
<1>1. /\ d \in CreditRow /\ d.balance = c.balance - n
      /\ d.granted = c.granted /\ d.spent = c.spent
  BY DEF CreditRow
<1>2. Debit(c, n) = [d EXCEPT !.spent = d.spent + n]
  BY DEF Debit, CreditRow
<1> HIDE DEF d
<1> QED
  BY <1>1, <1>2 DEF CreditRow

\* The same for set_credit and adjust_credits.
LEMMA GrantShape ==
  ASSUME NEW c \in CreditRow, NEW n \in Int
  PROVE  /\ Grant(c, n) \in CreditRow
         /\ Grant(c, n).balance = c.balance + n
         /\ Grant(c, n).granted = c.granted + n /\ Grant(c, n).spent = c.spent
<1> DEFINE d == [c EXCEPT !.balance = c.balance + n]
<1>1. /\ d \in CreditRow /\ d.balance = c.balance + n
      /\ d.granted = c.granted /\ d.spent = c.spent
  BY DEF CreditRow
<1>2. Grant(c, n) = [d EXCEPT !.granted = d.granted + n]
  BY DEF Grant, CreditRow
<1> HIDE DEF d
<1> QED
  BY <1>1, <1>2 DEF CreditRow

\* A payer that is not the last has a successor.
LEMMA NextIndex ==
  ASSUME NEW n \in {1, 2}, NEW k \in 1..n, k # n
  PROVE  k + 1 \in 1..n /\ k + 1 \in {1, 2}
OBVIOUS

----------------------------------------------------------------------------
\* The type invariant, strengthened: a transaction that charges points at one
\* of its payers, and what it has seen lies in the range its next step needs.

Charging == {"record", "freeRead", "freeWrite", "creditRead", "creditCas"}
Setting == {"setCas", "setAgain"}

PointsAtPayer(t) ==
  /\ tx[t].pc \in Charging \cup Setting \cup {"running"} => Len(tx[t].payers) \in {1, 2}
  /\ tx[t].pc \in Charging \cup Setting => tx[t].i \in 1..Len(tx[t].payers)
  /\ tx[t].pc \in Setting \cup {"idle"} => tx[t].i = 1

SeenInRange(t) ==
  /\ tx[t].pc = "freeWrite" => tx[t].seen >= 0 /\ tx[t].seen < tx[t].cap[Payer(t)]
  /\ tx[t].pc = "creditCas" => tx[t].seen > 0 /\ ~LastPayer(t)

TypeInv == TypeOK /\ \A t \in Txn : PointsAtPayer(t) /\ SeenInRange(t)

\* An account that charges is an account.
LEMMA PayerType ==
  ASSUME TypeInv, NEW t \in Txn, tx[t].pc \in Charging \cup Setting
  PROVE  Payer(t) \in Account
<1>1. tx[t] \in TxState
  BY DEF TypeInv, TypeOK
<1>2. tx[t].payers \in Seq(Account) /\ tx[t].i \in 1..Len(tx[t].payers)
  BY <1>1 DEF TypeInv, TxState, PointsAtPayer
<1> QED
  BY <1>2 DEF Payer

\* No row and no transaction at the start breaks the strengthened type invariant.
THEOREM InitType == Init => TypeInv
<1> SUFFICES ASSUME Init PROVE TypeInv
  OBVIOUS
<1>1. 1 \in Day
  BY BoundsOK DEF Day
<1>2. limit \in [Account -> Limit]
  <2>1. PICK n \in UserLimits : limit = [a \in Account |-> IF a \in Users THEN n ELSE 0]
    BY DEF Init
  <2>2. n \in Limit /\ 0 \in Limit
    BY BoundsOK DEF Limit, Unlimited
  <2> QED
    BY <2>1, <2>2
<1>3. usage \in [Row -> UsageRow] /\ credit \in [Account -> CreditRow]
  BY DEF Init, NoUsage, NoCredit, UsageRow, CreditRow
<1>4. \A t \in Txn : tx[t] \in TxState
  <2> TAKE t \in Txn
  <2>1. tx[t] = [pc |-> "idle", payers |-> <<>>, bill |-> FALSE, cap |-> limit, day |-> 1,
                 need |-> 0, rem |-> 0, i |-> 1, seen |-> 0, tries |-> 0]
    BY DEF Init
  <2> QED
    BY <2>1, <1>1, <1>2 DEF TxState
<1>5. tx \in [Txn -> TxState]
  BY <1>4 DEF Init
<1>6. TypeOK
  BY <1>1, <1>2, <1>3, <1>5 DEF Init, TypeOK
<1>7. \A t \in Txn : PointsAtPayer(t) /\ SeenInRange(t)
  BY DEF Init, PointsAtPayer, SeenInRange, Charging, Setting
<1> QED
  BY <1>6, <1>7 DEF TypeInv

----------------------------------------------------------------------------
\* One lemma per action; each moves a single transaction.

\* Only the transaction that moves has its conditions to show again.
LEMMA OneTxMoves ==
  ASSUME TypeInv, NEW t \in Txn,
         tx' = [tx EXCEPT ![t] = tx'[t]],
         tx'[t] \in TxState, PointsAtPayer(t)', SeenInRange(t)'
  PROVE  /\ tx' \in [Txn -> TxState]
         /\ \A u \in Txn : PointsAtPayer(u)' /\ SeenInRange(u)'
<1>1. tx \in [Txn -> TxState]
  BY DEF TypeInv, TypeOK
<1>2. \A u \in Txn : u # t => tx'[u] = tx[u]
  BY <1>1
<1>3. \A u \in Txn : u # t => PointsAtPayer(u)' /\ SeenInRange(u)'
  BY <1>2 DEF TypeInv, PointsAtPayer, SeenInRange, Payer, LastPayer
<1> QED
  BY <1>1, <1>3

\* can_start lets a run begin: its payers are one or two accounts.
LEMMA StartType ==
  ASSUME TypeInv, NEW t \in Runs, NEW s \in Subjects, Start(t, s)
  PROVE  TypeInv'
<1>1. t \in Txn /\ tx \in [Txn -> TxState] /\ tx[t] \in TxState
  BY DEF Txn, TypeInv, TypeOK
<1>2. s \in Seq(Account) /\ Len(s) \in {1, 2}
  BY SubjectShape
<1>3. tx' = [tx EXCEPT ![t] = tx'[t]] /\ tx'[t] = [tx[t] EXCEPT !.pc = "running", !.payers = s]
  BY <1>1 DEF Start
<1>4. tx'[t] \in TxState
  BY <1>1, <1>2, <1>3 DEF TxState
<1>5. PointsAtPayer(t)' /\ SeenInRange(t)'
  BY <1>1, <1>2, <1>3 DEF PointsAtPayer, SeenInRange, Charging, Setting, TxState
<1> QED
  BY <1>1, <1>3, <1>4, <1>5, OneTxMoves DEF Start, rows, TypeInv, TypeOK

\* A run that fails or is cancelled never reaches settle.
LEMMA RunFailsType ==
  ASSUME TypeInv, NEW t \in Runs, RunFails(t)
  PROVE  TypeInv'
<1>1. t \in Txn /\ tx \in [Txn -> TxState] /\ tx[t] \in TxState
  BY DEF Txn, TypeInv, TypeOK
<1>2. tx' = [tx EXCEPT ![t] = tx'[t]] /\ tx'[t] = [tx[t] EXCEPT !.pc = "failed"]
  BY <1>1 DEF RunFails
<1>3. tx'[t] \in TxState /\ PointsAtPayer(t)' /\ SeenInRange(t)'
  BY <1>1, <1>2 DEF TxState, PointsAtPayer, SeenInRange, Charging, Setting
<1> QED
  BY <1>1, <1>2, <1>3, OneTxMoves DEF RunFails, rows, TypeInv, TypeOK

\* settle plans the charge with today's limits.
LEMMA SettleType ==
  ASSUME TypeInv, NEW t \in Runs, NEW n \in 0..MaxTokens, Settle(t, n)
  PROVE  TypeInv'
<1>1. t \in Txn /\ tx \in [Txn -> TxState] /\ tx[t] \in TxState
  BY DEF Txn, TypeInv, TypeOK
<1>2. n \in Nat /\ limit \in [Account -> Limit] /\ today \in Day
  BY BoundsOK DEF TypeInv, TypeOK
<1>3. /\ tx' = [tx EXCEPT ![t] = tx'[t]]
      /\ tx'[t] = [tx[t] EXCEPT !.pc = "record", !.cap = limit, !.day = today,
                                !.bill = tx[t].payers \notin Exempt,
                                !.need = n, !.rem = n, !.i = 1]
  BY <1>1 DEF Settle
<1>4. tx'[t] \in TxState
  BY <1>1, <1>2, <1>3 DEF TxState, InTx
<1>5. Len(tx[t].payers) \in {1, 2}
  BY <1>1 DEF TypeInv, PointsAtPayer, Settle
<1>6. tx'[t].pc = "record" /\ tx'[t].i = 1 /\ tx'[t].payers = tx[t].payers
  BY <1>1, <1>3 DEF TxState
<1>7. PointsAtPayer(t)' /\ SeenInRange(t)'
  BY <1>5, <1>6 DEF PointsAtPayer, SeenInRange
<1> QED
  BY <1>1, <1>3, <1>4, <1>7, OneTxMoves DEF Settle, rows, TypeInv, TypeOK

\* The free loop of charge_tokens stays on the list of payers.
LEMMA FreeGoesOnType ==
  ASSUME TypeInv, NEW t \in Txn, tx[t].pc \in Charging,
         NEW left \in Nat, FreeGoesOn(t, left)
  PROVE  /\ tx' \in [Txn -> TxState]
         /\ \A u \in Txn : PointsAtPayer(u)' /\ SeenInRange(u)'
<1>1. tx \in [Txn -> TxState] /\ tx[t] \in TxState
  BY DEF TypeInv, TypeOK
<1>2. Len(tx[t].payers) \in {1, 2} /\ tx[t].i \in 1..Len(tx[t].payers)
  BY DEF TypeInv, PointsAtPayer
<1>3. /\ tx' = [tx EXCEPT ![t] = tx'[t]]
      /\ tx'[t] = [tx[t] EXCEPT
                     !.rem = left,
                     !.pc = IF left = 0 THEN "commit"
                            ELSE IF LastPayer(t) THEN "creditRead" ELSE "freeRead",
                     !.i = IF LastPayer(t) THEN 1 ELSE @ + 1]
  BY <1>1 DEF FreeGoesOn
<1>4. tx'[t].i \in 1..Len(tx[t].payers) /\ tx'[t].i \in {1, 2}
  <2>1. tx'[t].i = IF LastPayer(t) THEN 1 ELSE tx[t].i + 1
    BY <1>1, <1>3 DEF TxState
  <2>2. CASE LastPayer(t)
    BY <1>2, <2>1, <2>2
  <2>3. CASE ~LastPayer(t)
    BY <1>2, <2>1, <2>3, NextIndex DEF LastPayer
  <2> QED
    BY <2>2, <2>3
<1>5. tx'[t] \in TxState
  <2>1. tx'[t].i \in {1, 2}
    BY <1>4
  <2>2. tx'[t].pc \in InTx
    BY <1>1, <1>3 DEF InTx, TxState
  <2> QED
    BY <1>1, <1>3, <2>1, <2>2 DEF TxState
<1>6. PointsAtPayer(t)' /\ SeenInRange(t)'
  BY <1>1, <1>2, <1>3, <1>4 DEF PointsAtPayer, SeenInRange, Charging, Setting, TxState
<1> QED
  BY <1>1, <1>3, <1>5, <1>6, OneTxMoves

\* record_usage: the written image stays a row, and the loop on the list of payers.
LEMMA RecordUsageType ==
  ASSUME TypeInv, NEW t \in Txn, RecordUsage(t)
  PROVE  TypeInv'
<1>1. tx \in [Txn -> TxState] /\ tx[t] \in TxState /\ tx[t].pc = "record"
  BY DEF TypeInv, TypeOK, RecordUsage
<1>2. Len(tx[t].payers) \in {1, 2} /\ tx[t].i \in 1..Len(tx[t].payers)
  BY <1>1 DEF TypeInv, PointsAtPayer, Charging
<1>3. Payer(t) \in Account
  BY <1>1, PayerType DEF Charging
<1>4. PayerRow(t) \in Row
  BY <1>1, <1>3 DEF PayerRow, Row, TxState
<1>5. usageW' \in [Row -> UsageRow] /\ usageLock' \in [Row -> Txn \cup {None}]
  <2>1. usageW[PayerRow(t)] \in UsageRow /\ tx[t].need \in Nat
    BY <1>1, <1>4 DEF TypeInv, TypeOK, TxState
  <2>2. [usageW[PayerRow(t)] EXCEPT !.tokens = @ + tx[t].need] \in UsageRow
    BY <2>1 DEF UsageRow
  <2> QED
    BY <1>4, <2>2 DEF RecordUsage, TypeInv, TypeOK
<1>6. /\ tx' = [tx EXCEPT ![t] = tx'[t]]
      /\ tx'[t] = [tx[t] EXCEPT
           !.pc = IF ~LastPayer(t) THEN "record"
                  ELSE IF tx[t].bill /\ tx[t].rem > 0 THEN "freeRead" ELSE "commit",
           !.i = IF LastPayer(t) THEN 1 ELSE @ + 1]
  BY <1>1 DEF RecordUsage
<1>7. tx'[t].i \in 1..Len(tx[t].payers) /\ tx'[t].i \in {1, 2}
  <2>1. tx'[t].i = IF LastPayer(t) THEN 1 ELSE tx[t].i + 1
    BY <1>1, <1>6 DEF TxState
  <2>2. CASE LastPayer(t)
    BY <1>2, <2>1, <2>2
  <2>3. CASE ~LastPayer(t)
    BY <1>2, <2>1, <2>3, NextIndex DEF LastPayer
  <2> QED
    BY <2>2, <2>3
<1>8. tx'[t] \in TxState
  <2>1. tx'[t].pc \in InTx
    BY <1>1, <1>6 DEF InTx, TxState
  <2> QED
    BY <1>1, <1>6, <1>7, <2>1 DEF TxState
<1>9. PointsAtPayer(t)' /\ SeenInRange(t)'
  BY <1>1, <1>2, <1>6, <1>7 DEF PointsAtPayer, SeenInRange, Charging, Setting, TxState
<1> QED
  BY <1>5, <1>6, <1>8, <1>9, OneTxMoves DEF RecordUsage, TypeInv, TypeOK

\* spend_free reads: what it found lies below the limit when it goes on to write.
LEMMA FreeReadType ==
  ASSUME TypeInv, NEW t \in Txn, FreeRead(t)
  PROVE  TypeInv'
<1>1. tx \in [Txn -> TxState] /\ tx[t] \in TxState /\ tx[t].pc = "freeRead"
  BY DEF TypeInv, TypeOK, FreeRead
<1>2. Len(tx[t].payers) \in {1, 2} /\ tx[t].i \in 1..Len(tx[t].payers)
  BY <1>1 DEF TypeInv, PointsAtPayer, Charging
<1>3. Payer(t) \in Account
  BY <1>1, PayerType DEF Charging
<1>4. PayerRow(t) \in Row
  BY <1>1, <1>3 DEF PayerRow, Row, TxState
<1> DEFINE now == UsageSeen(t, PayerRow(t)).free
<1>5. now \in Nat
  BY <1>4 DEF UsageSeen, TypeInv, TypeOK, UsageRow
<1> HIDE DEF now
<1>6. tx' \in [Txn -> TxState] /\ \A u \in Txn : PointsAtPayer(u)' /\ SeenInRange(u)'
  <2>1. CASE FreeGoesOn(t, tx[t].rem)
    BY <1>1, <2>1, FreeGoesOnType DEF TxState, Charging
  <2>2. CASE tx' = [tx EXCEPT ![t].pc = "commit"]
    <3>1. tx' = [tx EXCEPT ![t] = tx'[t]] /\ tx'[t] = [tx[t] EXCEPT !.pc = "commit"]
      BY <1>1, <2>2
    <3>2. tx'[t] \in TxState /\ PointsAtPayer(t)' /\ SeenInRange(t)'
      BY <1>1, <3>1 DEF TxState, InTx, PointsAtPayer, SeenInRange, Charging, Setting
    <3> QED
      BY <3>1, <3>2, OneTxMoves
  <2>3. CASE /\ tx[t].cap[Payer(t)] # Unlimited /\ now < tx[t].cap[Payer(t)]
             /\ tx' = [tx EXCEPT ![t].pc = "freeWrite", ![t].seen = now]
    <3>1. /\ tx' = [tx EXCEPT ![t] = tx'[t]]
          /\ tx'[t] = [tx[t] EXCEPT !.pc = "freeWrite", !.seen = now]
      BY <1>1, <2>3
    <3>2. tx'[t] \in TxState
      <4>1. now \in Int /\ "freeWrite" \in InTx
        BY <1>5 DEF InTx
      <4>2. "freeWrite" \in InTx \cup {"idle", "running", "done", "failed"}
        BY <4>1
      <4> QED
        BY <1>1, <3>1, <4>1, <4>2 DEF TxState
    <3>3. /\ tx'[t].pc = "freeWrite" /\ tx'[t].seen = now
          /\ tx'[t].cap = tx[t].cap /\ tx'[t].i = tx[t].i /\ tx'[t].payers = tx[t].payers
      BY <1>1, <3>1 DEF TxState
    <3>4. PointsAtPayer(t)' /\ SeenInRange(t)'
      BY <1>2, <1>5, <2>3, <3>3 DEF PointsAtPayer, SeenInRange, Payer, Setting, Charging
    <3> QED
      BY <3>1, <3>2, <3>4, OneTxMoves
  <2> QED
    BY <2>1, <2>2, <2>3 DEF FreeRead, now
<1> QED
  BY <1>6 DEF FreeRead, rows, TypeInv, TypeOK

\* A transaction that is about to end, or has ended, is under no condition.
LEMMA PcMoves ==
  ASSUME TypeInv, NEW t \in Txn, NEW p \in {"commit", "done", "failed"},
         tx' = [tx EXCEPT ![t].pc = p]
  PROVE  tx' \in [Txn -> TxState] /\ \A u \in Txn : PointsAtPayer(u)' /\ SeenInRange(u)'
<1>1. tx \in [Txn -> TxState] /\ tx[t] \in TxState
  BY DEF TypeInv, TypeOK
<1>2. tx' = [tx EXCEPT ![t] = tx'[t]] /\ tx'[t] = [tx[t] EXCEPT !.pc = p]
  BY <1>1
<1>3. tx'[t] \in TxState /\ PointsAtPayer(t)' /\ SeenInRange(t)'
  BY <1>1, <1>2 DEF TxState, InTx, PointsAtPayer, SeenInRange, Charging, Setting
<1> QED
  BY <1>2, <1>3, OneTxMoves

\* spend_free writes: the take is neither negative nor more than is left to charge.
LEMMA FreeWriteType ==
  ASSUME TypeInv, NEW t \in Txn, FreeWrite(t)
  PROVE  TypeInv'
<1>1. tx[t] \in TxState /\ tx[t].pc = "freeWrite" /\ tx[t].pc \in Charging
  BY DEF TypeInv, TypeOK, FreeWrite, Charging
<1>2. Payer(t) \in Account
  BY <1>1, PayerType
<1>3. PayerRow(t) \in Row
  BY <1>1, <1>2 DEF PayerRow, Row, TxState
<1>4. tx[t].rem \in Nat /\ tx[t].cap[Payer(t)] \in Int /\ tx[t].seen \in Int
  BY <1>1, <1>2 DEF TxState, Limit, Unlimited
<1>5. tx[t].seen < tx[t].cap[Payer(t)]
  BY <1>1 DEF TypeInv, SeenInRange
<1>6. FreeTake(t) \in Nat /\ tx[t].rem - FreeTake(t) \in Nat
  BY <1>4, <1>5 DEF FreeTake, Lesser
<1>7. tx' \in [Txn -> TxState] /\ \A u \in Txn : PointsAtPayer(u)' /\ SeenInRange(u)'
  <2>1. FreeGoesOn(t, tx[t].rem) \/ FreeGoesOn(t, tx[t].rem - FreeTake(t))
    BY DEF FreeWrite
  <2> QED
    BY <1>1, <1>4, <1>6, <2>1, FreeGoesOnType
<1>8. usageW' \in [Row -> UsageRow] /\ usageLock' \in [Row -> Txn \cup {None}]
  <2>1. [usageW[PayerRow(t)] EXCEPT !.free = @ + FreeTake(t)] \in UsageRow
    BY <1>3, <1>6 DEF TypeInv, TypeOK, UsageRow
  <2> QED
    BY <1>3, <2>1 DEF FreeWrite, TypeInv, TypeOK
<1> QED
  BY <1>7, <1>8 DEF FreeWrite, TypeInv, TypeOK

\* The balance loop of charge_tokens stays on the list of payers.
LEMMA CreditGoesOnType ==
  ASSUME TypeInv, NEW t \in Txn, tx[t].pc \in Charging, ~LastPayer(t),
         NEW left \in Nat, CreditGoesOn(t, left)
  PROVE  tx' \in [Txn -> TxState] /\ \A u \in Txn : PointsAtPayer(u)' /\ SeenInRange(u)'
<1>1. tx \in [Txn -> TxState] /\ tx[t] \in TxState
  BY DEF TypeInv, TypeOK
<1>2. Len(tx[t].payers) \in {1, 2} /\ tx[t].i \in 1..Len(tx[t].payers)
  BY DEF TypeInv, PointsAtPayer
<1>3. /\ tx' = [tx EXCEPT ![t] = tx'[t]]
      /\ tx'[t] = [tx[t] EXCEPT !.rem = left, !.tries = 0,
                                !.pc = IF left = 0 THEN "commit" ELSE "creditRead",
                                !.i = IF left = 0 THEN @ ELSE @ + 1]
  BY <1>1 DEF CreditGoesOn
<1>4. tx'[t].i \in 1..Len(tx[t].payers) /\ tx'[t].i \in {1, 2}
  <2>1. tx'[t].i = IF left = 0 THEN tx[t].i ELSE tx[t].i + 1
    BY <1>1, <1>3 DEF TxState
  <2>2. tx[t].i \in {1, 2}
    BY <1>1 DEF TxState
  <2> QED
    BY <1>2, <2>1, <2>2, NextIndex DEF LastPayer
<1>5. tx'[t] \in TxState
  <2> DEFINE p == IF left = 0 THEN "commit" ELSE "creditRead"
             j == IF left = 0 THEN tx[t].i ELSE tx[t].i + 1
  <2>1. tx'[t] = [tx[t] EXCEPT !.rem = left, !.tries = 0, !.pc = p, !.i = j]
    BY <1>3
  <2>2. j \in {1, 2}
    BY <1>1, <1>3, <1>4 DEF TxState
  <2>3. p \in InTx \cup {"idle", "running", "done", "failed"}
    BY DEF InTx
  <2> HIDE DEF p, j
  <2>4. /\ tx'[t].payers \in Seq(Account) /\ tx'[t].bill \in BOOLEAN /\ tx'[t].need \in Nat
        /\ tx'[t].cap \in [Account -> Limit] /\ tx'[t].day \in Day /\ tx'[t].seen \in Int
    BY <1>1, <2>1 DEF TxState
  <2>5. tx'[t] = [pc |-> p, payers |-> tx'[t].payers, bill |-> tx'[t].bill,
                  cap |-> tx'[t].cap, day |-> tx'[t].day, need |-> tx'[t].need,
                  rem |-> left, i |-> j, seen |-> tx'[t].seen, tries |-> 0]
    BY <1>1, <2>1 DEF TxState
  <2> QED
    BY <2>2, <2>3, <2>4, <2>5 DEF TxState
<1>6. PointsAtPayer(t)' /\ SeenInRange(t)'
  BY <1>1, <1>2, <1>3, <1>4 DEF PointsAtPayer, SeenInRange, Charging, Setting, TxState
<1> QED
  BY <1>3, <1>5, <1>6, OneTxMoves

\* spend_credit reads: only a positive balance is drawn on.
LEMMA CreditReadType ==
  ASSUME TypeInv, NEW t \in Txn, CreditRead(t)
  PROVE  TypeInv'
<1>1. /\ tx \in [Txn -> TxState] /\ tx[t] \in TxState
      /\ tx[t].pc = "creditRead" /\ tx[t].pc \in Charging /\ ~LastPayer(t)
  BY DEF TypeInv, TypeOK, CreditRead, Charging
<1>2. Len(tx[t].payers) \in {1, 2} /\ tx[t].i \in 1..Len(tx[t].payers)
  BY <1>1 DEF TypeInv, PointsAtPayer
<1>3. Payer(t) \in Account
  BY <1>1, PayerType
<1> DEFINE now == CreditSeen(t, Payer(t)).balance
<1>4. now \in Int
  BY <1>3 DEF CreditSeen, TypeInv, TypeOK, CreditRow
<1> HIDE DEF now
<1>5. tx' \in [Txn -> TxState] /\ \A u \in Txn : PointsAtPayer(u)' /\ SeenInRange(u)'
  <2>1. CASE CreditGoesOn(t, tx[t].rem)
    BY <1>1, <2>1, CreditGoesOnType DEF TxState
  <2>2. CASE now > 0 /\ tx' = [tx EXCEPT ![t].pc = "creditCas", ![t].seen = now]
    <3>1. /\ tx' = [tx EXCEPT ![t] = tx'[t]]
          /\ tx'[t] = [tx[t] EXCEPT !.pc = "creditCas", !.seen = now]
      BY <1>1, <2>2
    <3>2. "creditCas" \in InTx \cup {"idle", "running", "done", "failed"}
      BY DEF InTx
    <3>3. tx'[t] \in TxState
      BY <1>1, <1>4, <3>1, <3>2 DEF TxState
    <3>4. /\ tx'[t].pc = "creditCas" /\ tx'[t].seen = now
          /\ tx'[t].i = tx[t].i /\ tx'[t].payers = tx[t].payers
      BY <1>1, <3>1 DEF TxState
    <3>5. PointsAtPayer(t)' /\ SeenInRange(t)'
      BY <1>1, <1>2, <2>2, <3>4 DEF PointsAtPayer, SeenInRange, LastPayer, Setting, Charging
    <3> QED
      BY <3>1, <3>3, <3>5, OneTxMoves
  <2>3. now <= 0 \/ now > 0
    BY <1>4
  <2> QED
    BY <2>1, <2>2, <2>3 DEF CreditRead, now
<1> QED
  BY <1>5 DEF CreditRead, rows, TypeInv, TypeOK

\* spend_credit's conditional UPDATE: the take is neither negative nor too large.
LEMMA CreditCasType ==
  ASSUME TypeInv, NEW t \in Txn, CreditCas(t)
  PROVE  TypeInv'
<1>1. /\ tx \in [Txn -> TxState] /\ tx[t] \in TxState
      /\ tx[t].pc = "creditCas" /\ tx[t].pc \in Charging
  BY DEF TypeInv, TypeOK, CreditCas, Charging
<1>2. Payer(t) \in Account
  BY <1>1, PayerType
<1>3. tx[t].seen > 0 /\ ~LastPayer(t)
  BY <1>1 DEF TypeInv, SeenInRange
<1>4. tx[t].rem \in Nat /\ tx[t].seen \in Int /\ tx[t].tries \in Nat
  BY <1>1 DEF TxState
<1> DEFINE take == Lesser(tx[t].rem, tx[t].seen)
<1>5. take \in Nat /\ tx[t].rem - take \in Nat
  BY <1>3, <1>4 DEF Lesser
<1> HIDE DEF take
<1>6. tx' \in [Txn -> TxState] /\ \A u \in Txn : PointsAtPayer(u)' /\ SeenInRange(u)'
  <2>1. CASE CreditGoesOn(t, tx[t].rem) \/ CreditGoesOn(t, tx[t].rem - take)
    BY <1>1, <1>3, <1>4, <1>5, <2>1, CreditGoesOnType
  <2>2. CASE tx' = [tx EXCEPT ![t].pc = "creditRead", ![t].tries = @ + 1]
    <3>1. /\ tx' = [tx EXCEPT ![t] = tx'[t]]
          /\ tx'[t] = [tx[t] EXCEPT !.pc = "creditRead", !.tries = tx[t].tries + 1]
      BY <1>1, <2>2
    <3>2. /\ "creditRead" \in InTx \cup {"idle", "running", "done", "failed"}
          /\ tx[t].tries + 1 \in Nat
      BY <1>4 DEF InTx
    <3>3. tx'[t] \in TxState
      BY <1>1, <3>1, <3>2 DEF TxState
    <3>4. tx'[t].pc = "creditRead" /\ tx'[t].i = tx[t].i /\ tx'[t].payers = tx[t].payers
      BY <1>1, <3>1 DEF TxState
    <3>5. PointsAtPayer(t)' /\ SeenInRange(t)'
      BY <1>1, <3>4 DEF TypeInv, PointsAtPayer, SeenInRange, Setting, Charging
    <3> QED
      BY <3>1, <3>3, <3>5, OneTxMoves
  <2> QED
    BY <2>1, <2>2 DEF CreditCas, take
<1>7. creditW' \in [Account -> CreditRow] /\ creditLock' \in [Account -> Txn \cup {None}]
  <2>1. Debit(creditW[Payer(t)], take) \in CreditRow
    BY <1>2, <1>5, DebitShape DEF TypeInv, TypeOK
  <2>2. \/ creditW' = [creditW EXCEPT ![Payer(t)] = Debit(@, take)]
        \/ creditW' = creditW
    BY DEF CreditCas, take
  <2>3. creditLock' = [creditLock EXCEPT ![Payer(t)] = t] \/ creditLock' = creditLock
    BY DEF CreditCas
  <2> QED
    BY <1>2, <2>1, <2>2, <2>3 DEF TypeInv, TypeOK
<1> QED
  BY <1>6, <1>7 DEF CreditCas, TypeInv, TypeOK

\* The last payer takes all that is left.
LEMMA CreditDebtType ==
  ASSUME TypeInv, NEW t \in Txn, CreditDebt(t)
  PROVE  TypeInv'
<1>1. tx \in [Txn -> TxState] /\ tx[t] \in TxState /\ tx[t].pc \in Charging
  BY DEF TypeInv, TypeOK, CreditDebt, Charging
<1>2. Payer(t) \in Account /\ tx[t].rem \in Nat
  BY <1>1, PayerType DEF TxState
<1>3. /\ tx' = [tx EXCEPT ![t] = tx'[t]]
      /\ tx'[t] = [tx[t] EXCEPT !.rem = 0, !.pc = "commit"]
  BY <1>1 DEF CreditDebt
<1>4. tx'[t] \in TxState /\ PointsAtPayer(t)' /\ SeenInRange(t)'
  <2>1. "commit" \in InTx \cup {"idle", "running", "done", "failed"}
    BY DEF InTx
  <2>2. tx'[t] \in TxState
    <3>1. tx'[t] = [[tx[t] EXCEPT !.rem = 0] EXCEPT !.pc = "commit"]
      BY <1>1, <1>3 DEF TxState
    <3>2. [tx[t] EXCEPT !.rem = 0] \in TxState
      BY <1>1 DEF TxState
    <3> QED
      BY <2>1, <3>1, <3>2 DEF TxState
  <2>3. tx'[t].pc = "commit"
    BY <1>1, <1>3 DEF TxState
  <2> QED
    BY <2>2, <2>3 DEF PointsAtPayer, SeenInRange, Charging, Setting
<1>5. creditW' \in [Account -> CreditRow] /\ creditLock' \in [Account -> Txn \cup {None}]
  <2>1. Debit(creditW[Payer(t)], tx[t].rem) \in CreditRow
    BY <1>2, DebitShape DEF TypeInv, TypeOK
  <2> QED
    BY <1>2, <2>1 DEF CreditDebt, TypeInv, TypeOK
<1> QED
  BY <1>3, <1>4, <1>5, OneTxMoves DEF CreditDebt, TypeInv, TypeOK

----------------------------------------------------------------------------
\* The operators' transactions.

\* What set_credit reads, on its first attempt or a later one.
LEMMA ObserveType ==
  ASSUME TypeInv, NEW t \in Txn, NEW a \in Account, NEW n \in Nat, tx[t].i = 1,
         Observe(t, a, n)
  PROVE  tx' \in [Txn -> TxState] /\ \A u \in Txn : PointsAtPayer(u)' /\ SeenInRange(u)'
<1>1. tx \in [Txn -> TxState] /\ tx[t] \in TxState
  BY DEF TypeInv, TypeOK
<1> DEFINE now == credit[a].balance
           p == IF now = n THEN "done" ELSE "setCas"
           s == <<a>>
<1>2. now \in Int /\ p \in InTx \cup {"idle", "running", "done", "failed"}
  BY DEF TypeInv, TypeOK, CreditRow, InTx
<1>3. s \in Seq(Account) /\ Len(s) \in {1, 2} /\ 1 \in 1..Len(s)
  BY SingleShape
<1>4. /\ tx' = [tx EXCEPT ![t] = tx'[t]]
      /\ tx'[t] = [tx[t] EXCEPT !.payers = s, !.need = n, !.seen = now, !.pc = p]
  BY <1>1 DEF Observe
<1>5. p \notin {"freeWrite", "creditCas", "idle"}
  OBVIOUS
<1> HIDE DEF now, p, s
<1>6. tx'[t] \in TxState
  BY <1>1, <1>2, <1>3, <1>4 DEF TxState
<1>7. tx'[t].pc = p /\ tx'[t].i = 1 /\ tx'[t].payers = s
  BY <1>1, <1>4 DEF TxState
<1>8. PointsAtPayer(t)' /\ SeenInRange(t)'
  BY <1>3, <1>5, <1>7 DEF PointsAtPayer, SeenInRange
<1> QED
  BY <1>4, <1>6, <1>8, OneTxMoves

\* set_credit begins.
LEMMA SetCreditType ==
  ASSUME TypeInv, NEW t \in Edits, NEW a \in Account, NEW n \in Balances, SetCredit(t, a, n)
  PROVE  TypeInv'
<1>1. t \in Txn /\ n \in Nat
  BY BoundsOK DEF Txn
<1>2. tx[t].i = 1
  BY <1>1 DEF SetCredit, TypeInv, PointsAtPayer
<1> QED
  BY <1>1, <1>2, ObserveType DEF SetCredit, rows, TypeInv, TypeOK

\* set_credit begins again after a lost race.
LEMMA SetAgainType ==
  ASSUME TypeInv, NEW t \in Edits, SetAgain(t)
  PROVE  TypeInv'
<1>1. t \in Txn /\ tx[t].i = 1
  BY DEF Txn, SetAgain, TypeInv, PointsAtPayer, Setting
<1>2. Payer(t) \in Account /\ tx[t].need \in Nat
  BY <1>1, PayerType DEF SetAgain, Setting, TypeInv, TypeOK, TxState
<1> QED
  BY <1>1, <1>2, ObserveType DEF SetAgain, rows, TypeInv, TypeOK

\* set_credit's conditional UPDATE.
LEMMA SetCasType ==
  ASSUME TypeInv, NEW t \in Edits, SetCas(t)
  PROVE  TypeInv'
<1>1. /\ t \in Txn /\ tx \in [Txn -> TxState] /\ tx[t] \in TxState
      /\ tx[t].pc = "setCas"
  BY DEF Txn, TypeInv, TypeOK, SetCas
<1>2. Payer(t) \in Account /\ tx[t].tries \in Nat /\ tx[t].need - tx[t].seen \in Int
  BY <1>1, PayerType DEF Setting, TxState
<1>3. tx' \in [Txn -> TxState] /\ \A u \in Txn : PointsAtPayer(u)' /\ SeenInRange(u)'
  <2>1. CASE tx' = [tx EXCEPT ![t].pc = "commit"]
    BY <1>1, <2>1, PcMoves
  <2>2. CASE tx' = [tx EXCEPT ![t].tries = @ + 1,
                     ![t].pc = IF tx[t].tries + 1 = Retries THEN "failed" ELSE "setAgain"]
    <3> DEFINE p == IF tx[t].tries + 1 = Retries THEN "failed" ELSE "setAgain"
               x == [tx[t] EXCEPT !.tries = tx[t].tries + 1]
    <3>1. tx' = [tx EXCEPT ![t] = tx'[t]] /\ tx'[t] = [x EXCEPT !.pc = p]
      BY <1>1, <2>2
    <3>2. p \in InTx \cup {"idle", "running", "done", "failed"} /\ p \in {"failed", "setAgain"}
      BY DEF InTx
    <3>3. x \in TxState /\ x.i = tx[t].i /\ x.payers = tx[t].payers
      <4>1. tx[t].tries + 1 \in Nat
        BY <1>2
      <4> QED
        BY <1>1, <4>1 DEF TxState
    <3> HIDE DEF p, x
    <3>4. /\ tx'[t] \in TxState /\ tx'[t].pc = p
          /\ tx'[t].i = tx[t].i /\ tx'[t].payers = tx[t].payers
      BY <3>1, <3>2, <3>3 DEF TxState
    <3>5. PointsAtPayer(t)' /\ SeenInRange(t)'
      BY <1>1, <3>2, <3>4 DEF TypeInv, PointsAtPayer, SeenInRange, Setting
    <3> QED
      BY <1>1, <3>1, <3>4, <3>5, OneTxMoves
  <2> QED
    BY <2>1, <2>2 DEF SetCas
<1>4. creditW' \in [Account -> CreditRow] /\ creditLock' \in [Account -> Txn \cup {None}]
  <2>1. Grant(creditW[Payer(t)], tx[t].need - tx[t].seen) \in CreditRow
    BY <1>2, GrantShape DEF TypeInv, TypeOK
  <2>2. \/ creditW' = [creditW EXCEPT ![Payer(t)] = Grant(@, tx[t].need - tx[t].seen)]
        \/ creditW' = creditW
    BY DEF SetCas
  <2>3. creditLock' = [creditLock EXCEPT ![Payer(t)] = t] \/ creditLock' = creditLock
    BY DEF SetCas
  <2> QED
    BY <1>1, <1>2, <2>1, <2>2, <2>3 DEF TypeInv, TypeOK
<1> QED
  BY <1>3, <1>4 DEF SetCas, TypeInv, TypeOK

\* adjust_credits, one statement.
LEMMA AdjustCreditsType ==
  ASSUME TypeInv, NEW t \in Edits, NEW a \in Account, NEW n \in TopUps, AdjustCredits(t, a, n)
  PROVE  TypeInv'
<1>1. /\ t \in Txn /\ tx \in [Txn -> TxState] /\ tx[t] \in TxState /\ n \in Int
  BY BoundsOK DEF Txn, TypeInv, TypeOK
<1> DEFINE s == <<a>>
<1>2. s \in Seq(Account)
  BY SingleShape
<1>3. tx' = [tx EXCEPT ![t] = tx'[t]] /\ tx'[t] = [tx[t] EXCEPT !.pc = "commit", !.payers = s]
  BY <1>1 DEF AdjustCredits
<1> HIDE DEF s
<1>4. "commit" \in InTx \cup {"idle", "running", "done", "failed"}
  BY DEF InTx
<1>5. tx'[t] \in TxState /\ tx'[t].pc = "commit"
  BY <1>1, <1>2, <1>3, <1>4 DEF TxState
<1>6. PointsAtPayer(t)' /\ SeenInRange(t)'
  BY <1>5 DEF PointsAtPayer, SeenInRange, Charging, Setting
<1>7. creditW' \in [Account -> CreditRow] /\ creditLock' \in [Account -> Txn \cup {None}]
  BY <1>1, GrantShape DEF AdjustCredits, TypeInv, TypeOK
<1> QED
  BY <1>1, <1>3, <1>5, <1>6, <1>7, OneTxMoves DEF AdjustCredits, TypeInv, TypeOK

----------------------------------------------------------------------------
\* The end of a transaction, and the world around.

\* with_tx commits or rolls back: images of rows replace images of rows.
LEMMA EndType ==
  ASSUME TypeInv, NEW t \in Txn, Commit(t) \/ Rollback(t)
  PROVE  TypeInv'
<1>1. tx' \in [Txn -> TxState] /\ \A u \in Txn : PointsAtPayer(u)' /\ SeenInRange(u)'
  <2>1. tx' = [tx EXCEPT ![t].pc = "done"] \/ tx' = [tx EXCEPT ![t].pc = "failed"]
    BY DEF Commit, Rollback
  <2> QED
    BY <2>1, PcMoves
<1>2. usage' \in [Row -> UsageRow] /\ usageW' \in [Row -> UsageRow]
  BY DEF Commit, Rollback, TypeInv, TypeOK
<1>3. credit' \in [Account -> CreditRow] /\ creditW' \in [Account -> CreditRow]
  BY DEF Commit, Rollback, TypeInv, TypeOK
<1>4. /\ usageLock' \in [Row -> Txn \cup {None}]
      /\ creditLock' \in [Account -> Txn \cup {None}]
  BY DEF Commit, Rollback, TypeInv, TypeOK
<1> QED
  BY <1>1, <1>2, <1>3, <1>4 DEF Commit, Rollback, TypeInv, TypeOK

\* A new day, or a limit changed in the panel.
LEMMA WorldType ==
  ASSUME TypeInv, NewDay \/ \E c \in Chats, n \in ChatLimits : SetChatLimit(c, n)
  PROVE  TypeInv'
<1>1. today' \in Day
  BY BoundsOK DEF NewDay, SetChatLimit, TypeInv, TypeOK, Day
<1>2. limit' \in [Account -> Limit]
  BY BoundsOK DEF NewDay, SetChatLimit, TypeInv, TypeOK, Limit
<1>3. UNCHANGED <<rows, tx>>
  BY DEF NewDay, SetChatLimit
<1> QED
  BY <1>1, <1>2, <1>3
     DEF rows, TypeInv, TypeOK, PointsAtPayer, SeenInRange, Payer, LastPayer

\* The strengthened type invariant is inductive.
THEOREM NextType == TypeInv /\ [Next]_vars => TypeInv'
<1> SUFFICES ASSUME TypeInv, [Next]_vars PROVE TypeInv'
  OBVIOUS
<1>1. CASE NewDay \/ \E c \in Chats, n \in ChatLimits : SetChatLimit(c, n)
  BY <1>1, WorldType
<1>2. ASSUME NEW t \in Runs, NEW s \in Subjects, Start(t, s) PROVE TypeInv'
  BY <1>2, StartType
<1>3. ASSUME NEW t \in Runs, NEW n \in 0..MaxTokens, Settle(t, n) PROVE TypeInv'
  BY <1>3, SettleType
<1>4. ASSUME NEW t \in Runs, RunFails(t) PROVE TypeInv'
  BY <1>4, RunFailsType
<1>5. ASSUME NEW t \in Runs, Charge(t) PROVE TypeInv'
  <2>1. t \in Txn
    BY DEF Txn
  <2> QED
    BY <1>5, <2>1, RecordUsageType, FreeReadType, FreeWriteType, CreditReadType,
       CreditCasType, CreditDebtType DEF Charge
<1>6. ASSUME NEW t \in Edits, NEW a \in Account, NEW n \in Balances, SetCredit(t, a, n)
      PROVE TypeInv'
  BY <1>6, SetCreditType
<1>7. ASSUME NEW t \in Edits, NEW a \in Account, NEW n \in TopUps, AdjustCredits(t, a, n)
      PROVE TypeInv'
  BY <1>7, AdjustCreditsType
<1>8. ASSUME NEW t \in Edits, SetAgain(t) \/ SetCas(t) PROVE TypeInv'
  BY <1>8, SetAgainType, SetCasType
<1>9. ASSUME NEW t \in Txn, Commit(t) \/ Rollback(t) PROVE TypeInv'
  BY <1>9, EndType
<1>10. CASE UNCHANGED vars
  BY <1>10
     DEF vars, rows, TypeInv, TypeOK, PointsAtPayer, SeenInRange, Payer, LastPayer
<1> QED
  BY <1>1, <1>2, <1>3, <1>4, <1>5, <1>6, <1>7, <1>8, <1>9, <1>10 DEF Next

\* Every row keeps its shape, in particular no usage counter and no total spent
\* ever falls below zero, whatever the settlements, edits and races.
THEOREM TypeCorrect == Spec => []TypeOK
<1>1. Spec => []TypeInv
  BY InitType, NextType, PTL DEF Spec
<1>2. TypeInv => TypeOK
  BY DEF TypeInv
<1> QED
  BY <1>1, <1>2, PTL

----------------------------------------------------------------------------
\* Safety: the ledger agrees with the balances, only a last payer goes into
\* debt, no free allowance is overshot, and allowances are spent before
\* balances.  All rest on what a row's write lock protects.


----------------------------------------------------------------------------
\* The ledger and the balances.

Balanced(c) == c.balance = c.granted - c.spent
LedgerInv == \A a \in Account : Balanced(credit[a]) /\ Balanced(creditW[a])

\* A debit or a grant moves the balance and the ledger by the same amount.
LEMMA MovesTogether ==
  ASSUME NEW c \in CreditRow, Balanced(c)
  PROVE  /\ \A n \in Nat : Balanced(Debit(c, n))
         /\ \A n \in Int : Balanced(Grant(c, n))
<1>1. c.balance \in Int /\ c.granted \in Int /\ c.spent \in Nat
  BY DEF CreditRow
<1>2. ASSUME NEW n \in Nat PROVE Balanced(Debit(c, n))
  <2>1. /\ Debit(c, n).balance = c.balance - n
        /\ Debit(c, n).spent = c.spent + n /\ Debit(c, n).granted = c.granted
    BY DebitShape
  <2>2. c.balance - n = c.granted - (c.spent + n)
    BY <1>1 DEF Balanced
  <2> QED
    BY <2>1, <2>2 DEF Balanced
<1>3. ASSUME NEW n \in Int PROVE Balanced(Grant(c, n))
  <2>1. /\ Grant(c, n).balance = c.balance + n
        /\ Grant(c, n).granted = c.granted + n /\ Grant(c, n).spent = c.spent
    BY GrantShape
  <2>2. c.balance + n = (c.granted + n) - c.spent
    BY <1>1 DEF Balanced
  <2> QED
    BY <2>1, <2>2 DEF Balanced
<1> QED
  BY <1>2, <1>3

\* Writing one balanced row keeps every row balanced.
LEMMA BalancedWrite ==
  ASSUME TypeInv, LedgerInv, NEW a \in Account, NEW c, Balanced(c),
         creditW' = [creditW EXCEPT ![a] = c], credit' = credit
  PROVE  LedgerInv'
<1>1. creditW \in [Account -> CreditRow]
  BY DEF TypeInv, TypeOK
<1> QED
  BY <1>1 DEF LedgerInv, Balanced

\* The statements that write a balance log the same amount.
LEMMA StatementsLog ==
  ASSUME TypeInv, LedgerInv, NEW t \in Txn,
         \/ CreditCas(t)
         \/ CreditDebt(t)
         \/ SetCas(t)
         \/ \E a \in Account, n \in TopUps : AdjustCredits(t, a, n)
  PROVE  LedgerInv'
<1>1. creditW \in [Account -> CreditRow] /\ tx[t] \in TxState
  BY DEF TypeInv, TypeOK
<1>2. tx[t].rem \in Nat /\ tx[t].seen \in Int /\ tx[t].need \in Nat
  BY <1>1 DEF TxState
<1>3. CASE CreditCas(t)
  <2>1. Payer(t) \in Account
    BY <1>3, PayerType DEF CreditCas, Charging
  <2> DEFINE take == Lesser(tx[t].rem, tx[t].seen)
  <2>2. tx[t].seen > 0
    BY <1>3 DEF CreditCas, TypeInv, SeenInRange
  <2>3. take \in Nat
    BY <1>2, <2>2 DEF Lesser
  <2>4. Balanced(Debit(creditW[Payer(t)], take))
    BY <1>1, <2>1, <2>3, MovesTogether DEF LedgerInv
  <2>5. credit' = credit
    BY <1>3 DEF CreditCas
  <2>6. CASE creditW' = creditW
    BY <2>5, <2>6 DEF LedgerInv, Balanced
  <2>7. CASE creditW' = [creditW EXCEPT ![Payer(t)] = Debit(creditW[Payer(t)], take)]
    BY <2>1, <2>4, <2>5, <2>7, BalancedWrite
  <2> QED
    BY <1>3, <2>6, <2>7 DEF CreditCas
<1>4. CASE CreditDebt(t)
  <2>1. Payer(t) \in Account
    BY <1>4, PayerType DEF CreditDebt, Charging
  <2>2. Balanced(Debit(creditW[Payer(t)], tx[t].rem))
    BY <1>1, <1>2, <2>1, MovesTogether DEF LedgerInv
  <2> QED
    BY <1>4, <2>1, <2>2, BalancedWrite DEF CreditDebt
<1>5. CASE SetCas(t)
  <2>1. Payer(t) \in Account
    BY <1>5, PayerType DEF SetCas, Setting
  <2>2. Balanced(Grant(creditW[Payer(t)], tx[t].need - tx[t].seen))
    BY <1>1, <1>2, <2>1, MovesTogether DEF LedgerInv
  <2>3. credit' = credit
    BY <1>5 DEF SetCas
  <2>4. CASE creditW' = creditW
    BY <2>3, <2>4 DEF LedgerInv, Balanced
  <2>5. CASE creditW' = [creditW EXCEPT ![Payer(t)]
                           = Grant(creditW[Payer(t)], tx[t].need - tx[t].seen)]
    BY <2>1, <2>2, <2>3, <2>5, BalancedWrite
  <2> QED
    BY <1>5, <2>4, <2>5 DEF SetCas
<1>6. ASSUME NEW a \in Account, NEW n \in TopUps, AdjustCredits(t, a, n)
      PROVE LedgerInv'
  <2>1. n \in Int
    BY BoundsOK
  <2>2. Balanced(Grant(creditW[a], n))
    BY <1>1, <2>1, MovesTogether DEF LedgerInv
  <2> QED
    BY <1>6, <2>2, BalancedWrite DEF AdjustCredits
<1> QED
  BY <1>3, <1>4, <1>5, <1>6

\* No step separates a balance from its ledger rows: a statement moves both, a
\* commit or rollback copies whole rows.
LEMMA LedgerStep ==
  ASSUME TypeInv, LedgerInv, [Next]_vars
  PROVE  LedgerInv'
<1>1. CASE UNCHANGED <<credit, creditW>>
  BY <1>1 DEF LedgerInv, Balanced
<1>2. ASSUME NEW t \in Txn, Commit(t) \/ Rollback(t) PROVE LedgerInv'
  BY <1>2 DEF Commit, Rollback, LedgerInv, Balanced
<1>3. CASE NewDay \/ \E c \in Chats, n \in ChatLimits : SetChatLimit(c, n)
  BY <1>1, <1>3 DEF NewDay, SetChatLimit, rows
<1>4. ASSUME NEW t \in Runs, \/ \E s \in Subjects : Start(t, s)
                             \/ \E n \in 0..MaxTokens : Settle(t, n)
                             \/ RunFails(t)
      PROVE LedgerInv'
  BY <1>1, <1>4 DEF Start, Settle, RunFails, rows
<1>5. ASSUME NEW t \in Runs, Charge(t) PROVE LedgerInv'
  <2>1. CASE RecordUsage(t) \/ FreeRead(t) \/ FreeWrite(t) \/ CreditRead(t)
    BY <1>1, <2>1 DEF RecordUsage, FreeRead, FreeWrite, CreditRead, rows
  <2>2. CASE CreditCas(t) \/ CreditDebt(t)
    BY <2>2, StatementsLog DEF Txn
  <2> QED
    BY <1>5, <2>1, <2>2 DEF Charge
<1>6. ASSUME NEW t \in Edits, \/ \E a \in Account, n \in Balances : SetCredit(t, a, n)
                              \/ SetAgain(t)
      PROVE LedgerInv'
  BY <1>1, <1>6 DEF SetCredit, SetAgain, rows
<1>7. ASSUME NEW t \in Edits, \/ SetCas(t)
                              \/ \E a \in Account, n \in TopUps : AdjustCredits(t, a, n)
      PROVE LedgerInv'
  BY <1>7, StatementsLog DEF Txn
<1>8. CASE UNCHANGED vars
  BY <1>1, <1>8 DEF vars, rows
<1> QED
  BY <1>2, <1>3, <1>4, <1>5, <1>6, <1>7, <1>8 DEF Next

\* agent_credits.balance is what agent_credit_ledger adds up to, at every
\* moment another reader can see it.
THEOREM LedgerCorrect == Spec => []LedgerMatchesBalance
<1>1. Init => LedgerInv
  BY DEF Init, LedgerInv, Balanced, NoCredit
<1>2. LedgerInv => LedgerMatchesBalance
  BY DEF LedgerInv, Balanced, LedgerMatchesBalance
<1>3. Spec => []TypeInv
  BY InitType, NextType, PTL DEF Spec
<1> QED
  BY <1>1, <1>2, <1>3, LedgerStep, PTL DEF Spec
----------------------------------------------------------------------------
\* Only a last payer goes into debt.

\* A transaction that ended, or only has to commit, charges nothing more.
Settled == {"commit", "done"}
SettledStays == \A u \in Txn : tx[u].pc \in Settled => tx'[u] = tx[u]

Owner(a) == \E t \in Runs : tx[t].pc = "done" /\ a = tx[t].payers[Len(tx[t].payers)]

\* An open run that has charged all and holds the row of its last payer.
Owes(t, a) ==
  /\ creditLock[a] = t
  /\ tx[t].pc = "commit"
  /\ a = tx[t].payers[Len(tx[t].payers)]

DebtInv ==
  \A a \in Account :
    /\ creditLock[a] = None => creditW[a] = credit[a]
    /\ credit[a].balance < 0 => Owner(a)
    /\ creditW[a].balance < 0 => Owner(a) \/ \E t \in Runs : Owes(t, a)

\* A step that writes no balance.
LEMMA DebtKept ==
  ASSUME DebtInv, UNCHANGED <<credit, creditW, creditLock>>, SettledStays
  PROVE  DebtInv'
<1>1. \A a \in Account : Owner(a) => Owner(a)'
  BY DEF Owner, SettledStays, Settled, Txn
<1>2. \A a \in Account, t \in Runs : Owes(t, a) => Owes(t, a)'
  BY DEF Owes, SettledStays, Settled, Txn
<1> QED
  BY <1>1, <1>2 DEF DebtInv

\* A step of t that writes a balance, below zero only as the last payer's.
LEMMA DebtWrite ==
  ASSUME TypeInv, DebtInv, SettledStays, NEW t \in Txn, NEW a \in Account, NEW c \in CreditRow,
         MayWriteCredit(t, a),
         creditLock' = [creditLock EXCEPT ![a] = t],
         creditW' = [creditW EXCEPT ![a] = c],
         credit' = credit,
         c.balance < 0 => \/ Owner(a)
                          \/ /\ t \in Runs /\ tx'[t].pc = "commit"
                             /\ a = tx'[t].payers[Len(tx'[t].payers)]
  PROVE  DebtInv'
<1>1. /\ creditW \in [Account -> CreditRow]
      /\ creditLock \in [Account -> Txn \cup {None}]
  BY DEF TypeInv, TypeOK
<1>2. \A b \in Account : Owner(b) => Owner(b)'
  BY DEF Owner, SettledStays, Settled, Txn
<1>3. \A b \in Account, u \in Runs : b # a /\ Owes(u, b) => Owes(u, b)'
  BY <1>1 DEF Owes, SettledStays, Settled, Txn
<1>4. creditLock'[a] = t /\ t # None /\ creditW'[a] = c
  BY <1>1, TxnsDisjoint
<1>5. c.balance < 0 => Owner(a)' \/ \E u \in Runs : Owes(u, a)'
  BY <1>2, <1>4 DEF Owes
<1>6. \A b \in Account : b # a => creditW'[b] = creditW[b] /\ creditLock'[b] = creditLock[b]
  BY <1>1
<1> QED
  BY <1>2, <1>3, <1>4, <1>5, <1>6 DEF DebtInv

\* with_tx ends t: what it wrote is seen by all, or by nobody.
LEMMA DebtEnd ==
  ASSUME TypeInv, DebtInv, NEW t \in Txn, Commit(t) \/ Rollback(t)
  PROVE  DebtInv'
<1>1. /\ tx \in [Txn -> TxState] /\ creditLock \in [Account -> Txn \cup {None}]
      /\ t # None
  BY TxnsDisjoint DEF TypeInv, TypeOK
<1>2. \A u \in Txn : u # t => tx'[u] = tx[u]
  BY <1>1 DEF Commit, Rollback
<1>3. tx[t].pc # "done"
  BY DEF Commit, Rollback, InTx
<1>4. \A a \in Account : Owner(a) => Owner(a)'
  BY <1>2, <1>3 DEF Owner, Txn
<1>5. \A a \in Account, u \in Runs : u # t /\ Owes(u, a) => Owes(u, a)'
  BY <1>1, <1>2 DEF Owes, Commit, Rollback, Txn
<1>6. CASE Commit(t)
  <2>1. tx'[t].pc = "done" /\ tx'[t].payers = tx[t].payers
    BY <1>1, <1>6 DEF Commit, TxState
  <2>2. \A a \in Account : t \in Runs /\ Owes(t, a) => Owner(a)'
    BY <2>1 DEF Owes, Owner
  <2>3. ASSUME NEW a \in Account
        PROVE  creditW[a].balance < 0 /\ creditLock[a] \in {t, None} => Owner(a)'
    BY <1>1, <1>4, <2>2 DEF DebtInv, Owes
  <2>4. ASSUME NEW a \in Account
        PROVE  creditW[a].balance < 0 => Owner(a)' \/ \E u \in Runs : Owes(u, a)'
    BY <1>4, <1>5, <2>2 DEF DebtInv
  <2> QED
    BY <1>4, <1>6, <2>3, <2>4 DEF Commit, DebtInv
<1>7. CASE Rollback(t)
  <2>1. ASSUME NEW a \in Account, creditLock[a] # t
        PROVE  creditW[a].balance < 0 => Owner(a)' \/ \E u \in Runs : Owes(u, a)'
    BY <1>4, <1>5, <2>1 DEF DebtInv, Owes
  <2> QED
    BY <1>4, <1>7, <2>1 DEF Rollback, DebtInv
<1> QED
  BY <1>6, <1>7

\* A step of a transaction that was still at work disturbs no settled one.
LEMMA OthersStay ==
  ASSUME TypeInv, NEW t \in Txn, tx[t].pc \notin Settled,
         \A u \in Txn : u # t => tx'[u] = tx[u]
  PROVE  SettledStays
BY DEF SettledStays
\* spend_credit(allow_debt=False): the balance the UPDATE finds is the one the
\* take was cut to.
LEMMA DebtCas ==
  ASSUME TypeInv, DebtInv, NEW t \in Runs, CreditCas(t)
  PROVE  DebtInv'
<1>1. /\ t \in Txn /\ tx \in [Txn -> TxState] /\ tx[t] \in TxState /\ tx[t].pc = "creditCas"
      /\ creditW \in [Account -> CreditRow]
  BY DEF Txn, TypeInv, TypeOK, CreditCas
<1>2. Payer(t) \in Account /\ tx[t].rem \in Nat /\ tx[t].seen \in Int /\ tx[t].seen > 0
  BY <1>1, PayerType DEF Charging, TxState, TypeInv, SeenInRange
<1> DEFINE a == Payer(t)
           take == Lesser(tx[t].rem, tx[t].seen)
           c == Debit(creditW[a], take)
<1>3. take \in Nat /\ take <= tx[t].seen
  BY <1>2 DEF Lesser
<1>4. \A u \in Txn : u # t => tx'[u] = tx[u]
  BY <1>1 DEF CreditCas, CreditGoesOn
<1>5. SettledStays
  BY <1>1, <1>4, OthersStay DEF Settled
<1>6. CASE UNCHANGED <<creditLock, creditW>>
  BY <1>5, <1>6, DebtKept DEF CreditCas
<1>7. CASE /\ BalanceAsSeen(t)
           /\ creditLock' = [creditLock EXCEPT ![a] = t]
           /\ creditW' = [creditW EXCEPT ![a] = c]
  <2>1. creditW[a] \in CreditRow /\ creditW[a].balance = tx[t].seen
    BY <1>1, <1>2, <1>7 DEF BalanceAsSeen
  <2>2. c \in CreditRow /\ c.balance = tx[t].seen - take
    BY <1>3, <2>1, DebitShape
  <2>3. ~(c.balance < 0)
    BY <1>2, <1>3, <2>2
  <2>4. MayWriteCredit(t, a) /\ credit' = credit
    BY DEF CreditCas
  <2> HIDE DEF c, a
  <2> QED
    BY <1>1, <1>2, <1>5, <1>7, <2>2, <2>3, <2>4, DebtWrite DEF a
<1> QED
  BY <1>6, <1>7 DEF CreditCas

\* allow_debt: the row is the last payer's, and the run has nothing left to do.
LEMMA DebtDebt ==
  ASSUME TypeInv, DebtInv, NEW t \in Runs, CreditDebt(t)
  PROVE  DebtInv'
<1>1. /\ t \in Txn /\ tx \in [Txn -> TxState] /\ tx[t] \in TxState /\ tx[t].pc = "creditRead"
      /\ creditW \in [Account -> CreditRow]
  BY DEF Txn, TypeInv, TypeOK, CreditDebt
<1>2. Payer(t) \in Account /\ tx[t].rem \in Nat
  BY <1>1, PayerType DEF Charging, TxState
<1> DEFINE a == Payer(t)
           c == Debit(creditW[a], tx[t].rem)
<1>3. \A u \in Txn : u # t => tx'[u] = tx[u]
  BY <1>1 DEF CreditDebt
<1>4. SettledStays
  BY <1>1, <1>3, OthersStay DEF Settled
<1>5. c \in CreditRow
  BY <1>1, <1>2, DebitShape
<1>6. tx'[t].pc = "commit" /\ a = tx'[t].payers[Len(tx'[t].payers)]
  BY <1>1 DEF CreditDebt, TxState, Payer, LastPayer
<1>7. /\ MayWriteCredit(t, a) /\ credit' = credit
      /\ creditLock' = [creditLock EXCEPT ![a] = t]
      /\ creditW' = [creditW EXCEPT ![a] = c]
  BY DEF CreditDebt
<1>8. a \in Account
  BY <1>2
<1> HIDE DEF a, c
<1> QED
  BY <1>1, <1>4, <1>5, <1>6, <1>7, <1>8, DebtWrite

\* set_credit leaves the balance it was asked for, which is not below zero.
LEMMA DebtSet ==
  ASSUME TypeInv, DebtInv, NEW t \in Edits, SetCas(t)
  PROVE  DebtInv'
<1>1. /\ t \in Txn /\ tx \in [Txn -> TxState] /\ tx[t] \in TxState /\ tx[t].pc = "setCas"
      /\ creditW \in [Account -> CreditRow]
  BY DEF Txn, TypeInv, TypeOK, SetCas
<1>2. Payer(t) \in Account /\ tx[t].need \in Nat /\ tx[t].seen \in Int
  BY <1>1, PayerType DEF Setting, TxState
<1> DEFINE a == Payer(t)
           n == tx[t].need - tx[t].seen
           c == Grant(creditW[a], n)
<1>3. \A u \in Txn : u # t => tx'[u] = tx[u]
  BY <1>1 DEF SetCas
<1>4. SettledStays
  BY <1>1, <1>3, OthersStay DEF Settled
<1>5. CASE UNCHANGED <<creditLock, creditW>>
  BY <1>4, <1>5, DebtKept DEF SetCas
<1>6. CASE /\ BalanceAsSeen(t)
           /\ creditLock' = [creditLock EXCEPT ![a] = t]
           /\ creditW' = [creditW EXCEPT ![a] = c]
  <2>1. creditW[a] \in CreditRow /\ creditW[a].balance = tx[t].seen /\ n \in Int
    BY <1>1, <1>2, <1>6 DEF BalanceAsSeen
  <2>2. c \in CreditRow /\ c.balance = tx[t].seen + n
    BY <2>1, GrantShape
  <2>3. ~(c.balance < 0)
    BY <1>2, <2>2
  <2>4. MayWriteCredit(t, a) /\ credit' = credit
    BY DEF SetCas
  <2> HIDE DEF c, a
  <2> QED
    BY <1>1, <1>2, <1>4, <1>6, <2>2, <2>3, <2>4, DebtWrite DEF a
<1> QED
  BY <1>5, <1>6 DEF SetCas

\* adjust_credits adds: below zero after it is below zero before it, and then
\* the row was not held by the run that brought it there.
LEMMA DebtAdjust ==
  ASSUME TypeInv, DebtInv, NEW t \in Edits, NEW a \in Account, NEW n \in TopUps,
         AdjustCredits(t, a, n)
  PROVE  DebtInv'
<1>1. /\ t \in Txn /\ t \notin Runs /\ tx \in [Txn -> TxState] /\ tx[t].pc = "idle"
      /\ creditW[a] \in CreditRow /\ n \in Nat
  BY TxnsDisjoint, BoundsOK DEF Txn, TypeInv, TypeOK, AdjustCredits
<1> DEFINE c == Grant(creditW[a], n)
<1>2. \A u \in Txn : u # t => tx'[u] = tx[u]
  BY <1>1 DEF AdjustCredits
<1>3. SettledStays
  BY <1>1, <1>2, OthersStay DEF Settled
<1>4. c \in CreditRow /\ c.balance = creditW[a].balance + n
  BY <1>1, GrantShape
<1>5. creditW[a].balance < 0 => Owner(a)
  BY <1>1, TxnsDisjoint DEF DebtInv, Owes, AdjustCredits, MayWriteCredit, Txn
<1>6. c.balance < 0 => Owner(a)
  <2>1. creditW[a].balance \in Int
    BY <1>1 DEF CreditRow
  <2>2. c.balance < 0 => creditW[a].balance < 0
    BY <1>1, <1>4, <2>1
  <2> QED
    BY <1>5, <2>2
<1>7. /\ MayWriteCredit(t, a) /\ credit' = credit
      /\ creditLock' = [creditLock EXCEPT ![a] = t]
      /\ creditW' = [creditW EXCEPT ![a] = c]
  BY DEF AdjustCredits
<1> HIDE DEF c
<1> QED
  BY <1>1, <1>3, <1>4, <1>6, <1>7, DebtWrite

\* No step puts an account into debt but the end of a run it is last payer of.
LEMMA DebtStep ==
  ASSUME TypeInv, DebtInv, [Next]_vars
  PROVE  DebtInv'
<1>0. tx \in [Txn -> TxState]
  BY DEF TypeInv, TypeOK
<1>1. CASE UNCHANGED tx /\ UNCHANGED rows
  <2>1. SettledStays
    BY <1>1 DEF SettledStays
  <2> QED
    BY <1>1, <2>1, DebtKept DEF rows
<1>2. ASSUME NEW t \in Txn, tx[t].pc \notin Settled,
             \A u \in Txn : u # t => tx'[u] = tx[u],
             UNCHANGED <<credit, creditW, creditLock>>
      PROVE  DebtInv'
  BY <1>2, OthersStay, DebtKept
<1>3. CASE NewDay \/ \E c \in Chats, n \in ChatLimits : SetChatLimit(c, n)
  BY <1>1, <1>3 DEF NewDay, SetChatLimit
<1>4. ASSUME NEW t \in Runs, \/ \E s \in Subjects : Start(t, s)
                             \/ \E n \in 0..MaxTokens : Settle(t, n)
                             \/ RunFails(t)
      PROVE DebtInv'
  <2>1. /\ t \in Txn /\ tx[t].pc \notin Settled
        /\ \A u \in Txn : u # t => tx'[u] = tx[u]
        /\ UNCHANGED <<credit, creditW, creditLock>>
    BY <1>0, <1>4 DEF Start, Settle, RunFails, rows, Settled, Txn
  <2> QED
    BY <1>2, <2>1
<1>5. ASSUME NEW t \in Runs, Charge(t) PROVE DebtInv'
  <2>1. CASE RecordUsage(t) \/ FreeRead(t) \/ FreeWrite(t) \/ CreditRead(t)
    <3>1. /\ t \in Txn /\ tx[t].pc \notin Settled
          /\ UNCHANGED <<credit, creditW, creditLock>>
      BY <2>1 DEF RecordUsage, FreeRead, FreeWrite, CreditRead, rows, Settled, Txn
    <3>2. \A u \in Txn : u # t => tx'[u] = tx[u]
      BY <1>0, <2>1 DEF RecordUsage, FreeRead, FreeWrite, CreditRead, FreeGoesOn, CreditGoesOn
    <3> QED
      BY <1>2, <3>1, <3>2
  <2>2. CASE CreditCas(t) \/ CreditDebt(t)
    BY <2>2, DebtCas, DebtDebt
  <2> QED
    BY <1>5, <2>1, <2>2 DEF Charge
<1>6. ASSUME NEW t \in Edits, \/ \E a \in Account, n \in Balances : SetCredit(t, a, n)
                              \/ SetAgain(t)
      PROVE DebtInv'
  <2>1. /\ t \in Txn /\ tx[t].pc \notin Settled
        /\ \A u \in Txn : u # t => tx'[u] = tx[u]
        /\ UNCHANGED <<credit, creditW, creditLock>>
    BY <1>0, <1>6 DEF SetCredit, SetAgain, Observe, rows, Settled, Txn
  <2> QED
    BY <1>2, <2>1
<1>7. ASSUME NEW t \in Edits, \/ SetCas(t)
                              \/ \E a \in Account, n \in TopUps : AdjustCredits(t, a, n)
      PROVE DebtInv'
  BY <1>7, DebtSet, DebtAdjust
<1>8. ASSUME NEW t \in Txn, Commit(t) \/ Rollback(t) PROVE DebtInv'
  BY <1>8, DebtEnd
<1>9. CASE UNCHANGED vars
  BY <1>1, <1>9 DEF vars
<1> QED
  BY <1>3, <1>4, <1>5, <1>6, <1>7, <1>8, <1>9 DEF Next

\* An account is in debt only if a finished run had it as its last payer:
\* spend_credit(allow_debt=False) never takes what is not there, whoever else
\* writes the balance between its SELECT and its UPDATE.
THEOREM DebtCorrect == Spec => []DebtOnlyOfLastPayer
<1>1. Init => DebtInv
  BY DEF Init, DebtInv, NoCredit
<1>2. DebtInv => DebtOnlyOfLastPayer
  BY DEF DebtInv, Owner, DebtOnlyOfLastPayer
<1>3. Spec => []TypeInv
  BY InitType, NextType, PTL DEF Spec
<1> QED
  BY <1>1, <1>2, <1>3, DebtStep, PTL DEF Spec
----------------------------------------------------------------------------
\* No free allowance is overshot.

\* A locked row belongs to an open run, and what that run raised it to is
\* within the limit the run planned with.
FreeInv ==
  \A r \in Row :
    /\ usageLock[r] = None => usageW[r] = usage[r]
    /\ usageLock[r] # None =>
         /\ usageLock[r] \in Runs
         /\ tx[usageLock[r]].pc \in InTx
         /\ usageW[r].free > usage[r].free =>
              usageW[r].free <= tx[usageLock[r]].cap[r[1]]

\* A transaction keeps the limits it planned with until it ends.
CapKept(t) == tx'[t].pc \in InTx /\ tx'[t].cap = tx[t].cap

\* A step of t that writes no usage row; t, if it holds one, goes on.
LEMMA FreeKept ==
  ASSUME TypeInv, FreeInv, NEW t \in Txn, UNCHANGED <<usage, usageW, usageLock>>,
         \A u \in Txn : u # t => tx'[u] = tx[u],
         tx[t].pc \in InTx => CapKept(t)
  PROVE  FreeInv'
<1>1. usageLock \in [Row -> Txn \cup {None}]
  BY DEF TypeInv, TypeOK
<1> QED
  BY <1>1 DEF FreeInv, CapKept

\* A step of run t that writes a usage row, its free use within the limit if
\* it raised it.
LEMMA FreeRowWritten ==
  ASSUME TypeInv, FreeInv, NEW t \in Runs, NEW r \in Row, NEW w \in UsageRow,
         MayWriteUsage(t, r), usage' = usage,
         usageLock' = [usageLock EXCEPT ![r] = t],
         usageW' = [usageW EXCEPT ![r] = w],
         w.free = usageW[r].free \/ w.free <= tx[t].cap[r[1]],
         \A u \in Txn : u # t => tx'[u] = tx[u],
         CapKept(t)
  PROVE  FreeInv'
<1>1. /\ usageLock \in [Row -> Txn \cup {None}] /\ usageW \in [Row -> UsageRow]
      /\ usage \in [Row -> UsageRow] /\ t \in Txn /\ t # None
  BY TxnsDisjoint DEF TypeInv, TypeOK, Txn
<1>2. \A q \in Row : q # r => usageW'[q] = usageW[q] /\ usageLock'[q] = usageLock[q]
  BY <1>1
<1>3. usageW'[r] = w /\ usageLock'[r] = t
  BY <1>1
<1>4. w.free > usage[r].free => w.free <= tx'[t].cap[r[1]]
  <2>1. w.free \in Nat /\ usage[r].free \in Nat /\ usageW[r].free \in Nat
    BY <1>1 DEF UsageRow
  <2>2. usageW[r].free > usage[r].free => usageW[r].free <= tx[t].cap[r[1]]
    BY <1>1, <2>1 DEF FreeInv, MayWriteUsage
  <2> QED
    BY <2>2 DEF CapKept
<1>5. ASSUME NEW q \in Row, q # r, usageLock[q] # None
      PROVE  /\ tx'[usageLock[q]].pc \in InTx
             /\ tx'[usageLock[q]].cap = tx[usageLock[q]].cap
  BY <1>1, <1>5 DEF FreeInv, CapKept
<1> QED
  BY <1>1, <1>2, <1>3, <1>4, <1>5 DEF FreeInv, CapKept

\* record_usage leaves the free use of the row alone.
LEMMA FreeRecord ==
  ASSUME TypeInv, FreeInv, NEW t \in Runs, RecordUsage(t)
  PROVE  FreeInv'
<1>1. t \in Txn /\ tx \in [Txn -> TxState] /\ tx[t] \in TxState /\ tx[t].pc = "record"
  BY DEF Txn, TypeInv, TypeOK, RecordUsage
<1>2. Payer(t) \in Account
  BY <1>1, PayerType DEF Charging
<1>3. PayerRow(t) \in Row
  BY <1>1, <1>2 DEF PayerRow, Row, TxState
<1> DEFINE r == PayerRow(t)
           w == [usageW[r] EXCEPT !.tokens = usageW[r].tokens + tx[t].need]
<1>4. w \in UsageRow /\ w.free = usageW[r].free
  <2>1. usageW[r] \in UsageRow /\ tx[t].need \in Nat
    BY <1>1, <1>3 DEF TypeInv, TypeOK, TxState
  <2> QED
    BY <2>1 DEF UsageRow
<1>5. (\A u \in Txn : u # t => tx'[u] = tx[u]) /\ CapKept(t)
  BY <1>1 DEF RecordUsage, CapKept, TxState, InTx
<1>6. /\ MayWriteUsage(t, r) /\ usage' = usage
      /\ usageLock' = [usageLock EXCEPT ![r] = t]
      /\ usageW' = [usageW EXCEPT ![r] = w]
  BY DEF RecordUsage
<1>7. r \in Row
  BY <1>3
<1> HIDE DEF r, w
<1> QED
  BY <1>4, <1>5, <1>6, <1>7, FreeRowWritten

\* The free loop moves on within the transaction.
LEMMA FreeGoesOnFrame ==
  ASSUME TypeInv, NEW t \in Txn, NEW left, FreeGoesOn(t, left)
  PROVE  /\ \A u \in Txn : u # t => tx'[u] = tx[u]
         /\ CapKept(t)
<1>1. tx \in [Txn -> TxState] /\ tx[t] \in TxState
  BY DEF TypeInv, TypeOK
<1> QED
  BY <1>1 DEF FreeGoesOn, CapKept, TxState, InTx

\* spend_free's UPDATE writes only what fits under the limit.
LEMMA FreeWriteFits ==
  ASSUME TypeInv, FreeInv, NEW t \in Runs, FreeWrite(t)
  PROVE  FreeInv'
<1>1. t \in Txn /\ tx \in [Txn -> TxState] /\ tx[t] \in TxState /\ tx[t].pc = "freeWrite"
  BY DEF Txn, TypeInv, TypeOK, FreeWrite
<1>2. Payer(t) \in Account
  BY <1>1, PayerType DEF Charging
<1>3. PayerRow(t) \in Row /\ PayerRow(t)[1] = Payer(t)
  BY <1>1, <1>2 DEF PayerRow, Row, TxState
<1> DEFINE r == PayerRow(t)
           w == [usageW[r] EXCEPT !.free = usageW[r].free + FreeTake(t)]
<1>4. (\A u \in Txn : u # t => tx'[u] = tx[u]) /\ CapKept(t)
  <2>1. FreeGoesOn(t, tx[t].rem) \/ FreeGoesOn(t, tx[t].rem - FreeTake(t))
    BY DEF FreeWrite
  <2> QED
    BY <1>1, <2>1, FreeGoesOnFrame
<1>5. CASE UNCHANGED <<usageLock, usageW>>
  BY <1>1, <1>4, <1>5, FreeKept DEF FreeWrite
<1>6. CASE /\ usageW[r].free + FreeTake(t) <= tx[t].cap[Payer(t)]
           /\ usageLock' = [usageLock EXCEPT ![r] = t]
           /\ usageW' = [usageW EXCEPT ![r] = w]
  <2>1. FreeTake(t) \in Nat
    <3>1. tx[t].rem \in Nat /\ tx[t].seen \in Int /\ tx[t].cap[Payer(t)] \in Int
      BY <1>1, <1>2 DEF TxState, Limit, Unlimited
    <3>2. tx[t].seen < tx[t].cap[Payer(t)]
      BY <1>1 DEF TypeInv, SeenInRange
    <3> QED
      BY <3>1, <3>2 DEF FreeTake, Lesser
  <2>2. w \in UsageRow /\ w.free = usageW[r].free + FreeTake(t)
    BY <1>3, <2>1 DEF TypeInv, TypeOK, UsageRow
  <2>3. w.free <= tx[t].cap[r[1]]
    BY <1>3, <1>6, <2>2
  <2>4. MayWriteUsage(t, r) /\ usage' = usage /\ r \in Row
    BY <1>3 DEF FreeWrite
  <2> HIDE DEF r, w
  <2> QED
    BY <1>4, <1>6, <2>2, <2>3, <2>4, FreeRowWritten
<1> QED
  BY <1>5, <1>6 DEF FreeWrite

\* with_tx ends t and frees its rows.
LEMMA FreeEnd ==
  ASSUME TypeInv, FreeInv, NEW t \in Txn, Commit(t) \/ Rollback(t)
  PROVE  FreeInv'
<1>1. /\ usageLock \in [Row -> Txn \cup {None}] /\ tx \in [Txn -> TxState] /\ t # None
  BY TxnsDisjoint DEF TypeInv, TypeOK
<1>2. \A u \in Txn : u # t => tx'[u] = tx[u]
  BY <1>1 DEF Commit, Rollback
<1>3. CASE Commit(t)
  BY <1>1, <1>2, <1>3 DEF Commit, FreeInv
<1>4. CASE Rollback(t)
  BY <1>1, <1>2, <1>4 DEF Rollback, FreeInv
<1> QED
  BY <1>3, <1>4

\* Every step keeps what locked rows hold within the limits.
LEMMA FreeStep ==
  ASSUME TypeInv, FreeInv, [Next]_vars
  PROVE  FreeInv'
<1>0. tx \in [Txn -> TxState]
  BY DEF TypeInv, TypeOK
<1>1. CASE UNCHANGED tx /\ UNCHANGED rows
  BY <1>1 DEF FreeInv, rows
<1>2. ASSUME NEW t \in Txn, tx[t].pc \in InTx => CapKept(t),
             \A u \in Txn : u # t => tx'[u] = tx[u],
             UNCHANGED <<usage, usageW, usageLock>>
      PROVE  FreeInv'
  BY <1>2, FreeKept
<1>3. CASE NewDay \/ \E c \in Chats, n \in ChatLimits : SetChatLimit(c, n)
  BY <1>1, <1>3 DEF NewDay, SetChatLimit
<1>4. ASSUME NEW t \in Runs, \/ \E s \in Subjects : Start(t, s)
                             \/ \E n \in 0..MaxTokens : Settle(t, n)
                             \/ RunFails(t)
      PROVE FreeInv'
  <2>1. t \in Txn /\ tx[t].pc \notin InTx /\ UNCHANGED <<usage, usageW, usageLock>>
    BY <1>4 DEF Start, Settle, RunFails, rows, InTx, Txn
  <2>2. \A u \in Txn : u # t => tx'[u] = tx[u]
    BY <1>0, <1>4 DEF Start, Settle, RunFails
  <2> QED
    BY <1>2, <2>1, <2>2
<1>5. ASSUME NEW t \in Runs, Charge(t) PROVE FreeInv'
  <2>0. t \in Txn /\ tx[t] \in TxState
    BY <1>0 DEF Txn
  <2>1. CASE FreeRead(t)
    <3>1. (\A u \in Txn : u # t => tx'[u] = tx[u]) /\ CapKept(t)
      <4>1. CASE FreeGoesOn(t, tx[t].rem)
        BY <2>0, <4>1, FreeGoesOnFrame
      <4>2. CASE ~FreeGoesOn(t, tx[t].rem)
        BY <1>0, <2>0, <2>1, <4>2 DEF FreeRead, CapKept, TxState, InTx
      <4> QED
        BY <4>1, <4>2
    <3> QED
      BY <1>2, <2>0, <2>1, <3>1 DEF FreeRead, rows
  <2>2. CASE CreditRead(t) \/ CreditCas(t) \/ CreditDebt(t)
    <3>1. UNCHANGED <<usage, usageW, usageLock>>
      BY <2>2 DEF CreditRead, CreditCas, CreditDebt, rows
    <3>2. (\A u \in Txn : u # t => tx'[u] = tx[u]) /\ CapKept(t)
      BY <1>0, <2>0, <2>2
         DEF CreditRead, CreditCas, CreditDebt, CreditGoesOn, CapKept, TxState, InTx
    <3> QED
      BY <1>2, <2>0, <3>1, <3>2
  <2> QED
    BY <1>5, <2>1, <2>2, FreeRecord, FreeWriteFits DEF Charge
<1>6. ASSUME NEW t \in Edits, \/ \E a \in Account, n \in Balances : SetCredit(t, a, n)
                              \/ \E a \in Account, n \in TopUps : AdjustCredits(t, a, n)
                              \/ SetAgain(t)
                              \/ SetCas(t)
      PROVE FreeInv'
  <2>1. /\ t \in Txn /\ UNCHANGED <<usage, usageW, usageLock>>
        /\ \A u \in Txn : u # t => tx'[u] = tx[u]
    BY <1>0, <1>6 DEF SetCredit, AdjustCredits, SetAgain, SetCas, Observe, rows, Txn
  <2>2. t \notin Runs /\ t # None
    BY <1>6, TxnsDisjoint DEF Txn
  <2>3. \A r \in Row : usageLock[r] # t
    BY <2>2 DEF FreeInv
  <2>4. usageLock \in [Row -> Txn \cup {None}]
    BY DEF TypeInv, TypeOK
  <2> QED
    BY <2>1, <2>3, <2>4 DEF FreeInv
<1>7. ASSUME NEW t \in Txn, Commit(t) \/ Rollback(t) PROVE FreeInv'
  BY <1>7, FreeEnd
<1>8. CASE UNCHANGED vars
  BY <1>1, <1>8 DEF vars
<1> QED
  BY <1>3, <1>4, <1>5, <1>6, <1>7, <1>8 DEF Next

\* Only a commit changes what others see of the usage, and it shows no more
\* than FreeInv allows.
LEMMA CommitWithinLimit ==
  ASSUME TypeInv, FreeInv, [Next]_vars, NEW r \in Row, usage'[r].free > usage[r].free
  PROVE  usage'[r].free <= tx[usageLock[r]].cap[r[1]]
<1>1. usage \in [Row -> UsageRow] /\ usage[r].free \in Nat
  BY DEF TypeInv, TypeOK, UsageRow
<1>2. ~UNCHANGED usage
  BY <1>1
<1>3. PICK t \in Txn : Commit(t)
  <2> SUFFICES ASSUME \A t \in Txn : ~Commit(t) PROVE FALSE
    OBVIOUS
  <2>1. ~NewDay /\ \A c \in Chats, n \in ChatLimits : ~SetChatLimit(c, n)
    BY <1>2 DEF NewDay, SetChatLimit, rows
  <2>2. \A t \in Runs : /\ \A s \in Subjects : ~Start(t, s)
                        /\ \A n \in 0..MaxTokens : ~Settle(t, n)
                        /\ ~RunFails(t)
    BY <1>2 DEF Start, Settle, RunFails, rows
  <2>3. \A t \in Runs : ~Charge(t)
    BY <1>2 DEF Charge, RecordUsage, FreeRead, FreeWrite, CreditRead, CreditCas,
       CreditDebt, rows
  <2>4. \A t \in Edits : /\ \A a \in Account, n \in Balances : ~SetCredit(t, a, n)
                         /\ \A a \in Account, n \in TopUps : ~AdjustCredits(t, a, n)
                         /\ ~SetAgain(t) /\ ~SetCas(t)
    BY <1>2 DEF SetCredit, AdjustCredits, SetAgain, SetCas, rows
  <2>5. \A t \in Txn : ~Rollback(t)
    BY <1>2 DEF Rollback
  <2>6. ~UNCHANGED vars
    BY <1>2 DEF vars, rows
  <2> QED
    BY <2>1, <2>2, <2>3, <2>4, <2>5, <2>6 DEF Next
<1>4. usageLock[r] = t /\ usage'[r] = usageW[r] /\ t # None
  BY <1>1, <1>3, TxnsDisjoint DEF Commit
<1> QED
  BY <1>4 DEF FreeInv

\* spend_free never overshoots, whichever runs race for the same allowance.
THEOREM FreeLimitKept == Spec => FreeWithinLimit
<1>1. Init => FreeInv
  BY DEF Init, FreeInv
<1>2. TypeInv /\ FreeInv /\ [Next]_vars
        => [\A r \in Row : usage'[r].free > usage[r].free =>
              usage'[r].free <= tx[usageLock[r]].cap[r[1]]]_vars
  BY CommitWithinLimit
<1>3. Spec => []TypeInv
  BY InitType, NextType, PTL DEF Spec
<1> QED
  BY <1>1, <1>2, <1>3, FreeStep, PTL DEF Spec, FreeWithinLimit
----------------------------------------------------------------------------
\* Free allowances are spent before balances.

RowOf(t, k) == <<tx[t].payers[k], tx[t].day>>
Holds(t, k) == usageLock[RowOf(t, k)] = t
Full(t, k) == usageW[RowOf(t, k)].free >= tx[t].cap[tx[t].payers[k]]
Spending(t) == tx[t].pc \in {"creditRead", "creditCas"} \/ \E a \in Account : creditLock[a] = t

\* Along a settlement: record_usage locks the rows one by one, the free loop
\* leaves full rows behind it and writes what it has read, and the balance
\* loop starts when every row is locked and full.
FirstInv(t) ==
  /\ tx[t].pc = "record" => \A k \in 1..(tx[t].i - 1) : Holds(t, k)
  /\ tx[t].pc \in {"freeRead", "freeWrite"} =>
       /\ \A k \in 1..Len(tx[t].payers) : Holds(t, k)
       /\ \A k \in 1..(tx[t].i - 1) : Full(t, k)
  /\ tx[t].pc = "freeWrite" => tx[t].seen = usageW[PayerRow(t)].free
  /\ Spending(t) =>
       /\ tx[t].pc \in {"creditRead", "creditCas", "commit"}
       /\ \A k \in 1..Len(tx[t].payers) : Holds(t, k) /\ Full(t, k)

\* A step of t leaves another transaction, its rows and its locks alone.
Apart(t) ==
  \A u \in Txn : u # t =>
    /\ tx'[u] = tx[u]
    /\ \A r \in Row : usageLock[r] = u => usageLock'[r] = u /\ usageW'[r] = usageW[r]
    /\ \A a \in Account : creditLock'[a] = u => creditLock[a] = u

\* The rows of a run's payers are rows.
LEMMA RowOfType ==
  ASSUME TypeInv, NEW t \in Txn
  PROVE  /\ \A k \in 1..Len(tx[t].payers) : RowOf(t, k) \in Row
         /\ tx[t].pc \in Charging => tx[t].i - 1 \in 0..(Len(tx[t].payers) - 1)
<1>1. tx[t] \in TxState
  BY DEF TypeInv, TypeOK
<1>2. tx[t].payers \in Seq(Account) /\ tx[t].day \in Day /\ tx[t].i \in {1, 2}
  BY <1>1 DEF TxState
<1>3. \A k \in 1..Len(tx[t].payers) : tx[t].payers[k] \in Account
  BY <1>2
<1>4. Len(tx[t].payers) \in Nat
  BY <1>2
<1>5. tx[t].pc \in Charging => tx[t].i - 1 \in 0..(Len(tx[t].payers) - 1)
  <2>1. tx[t].pc \in Charging => tx[t].i \in 1..Len(tx[t].payers)
    BY DEF TypeInv, PointsAtPayer
  <2> QED
    BY <1>2, <1>4, <2>1
<1> QED
  BY <1>2, <1>3, <1>5 DEF RowOf, Row

\* What a run has reached survives the steps of the others.
LEMMA FirstApart ==
  ASSUME TypeInv, NEW t \in Txn, Apart(t), NEW u \in Runs, u # t, FirstInv(u)
  PROVE  FirstInv(u)'
<1>1. u \in Txn /\ tx'[u] = tx[u]
  BY DEF Apart, Txn
<1>2. \A k \in 1..Len(tx[u].payers) : RowOf(u, k) \in Row /\ RowOf(u, k)' = RowOf(u, k)
  BY <1>1, RowOfType DEF RowOf
<1>3. \A k \in 1..Len(tx[u].payers) :
        /\ Holds(u, k) => Holds(u, k)'
        /\ Holds(u, k) /\ Full(u, k) => Full(u, k)'
  BY <1>1, <1>2 DEF Apart, Holds, Full
<1>4. Spending(u)' => Spending(u)
  BY <1>1 DEF Apart, Spending
<1>5. tx[u].pc \in Charging => \A k \in 1..(tx[u].i - 1) : k \in 1..Len(tx[u].payers)
  <2>1. Len(tx[u].payers) \in Nat
    BY <1>1 DEF TypeInv, TypeOK, TxState
  <2> QED
    BY <1>1, <2>1, RowOfType
<1>6. CASE tx[u].pc = "freeWrite"
  <2>1. PayerRow(u) = RowOf(u, tx[u].i) /\ PayerRow(u)' = PayerRow(u)
    BY <1>1 DEF PayerRow, Payer, RowOf
  <2>2. tx[u].i \in 1..Len(tx[u].payers)
    BY <1>1, <1>6 DEF TypeInv, PointsAtPayer, Charging
  <2>3. usageW'[PayerRow(u)] = usageW[PayerRow(u)]
    BY <1>1, <1>2, <1>6, <2>1, <2>2 DEF FirstInv, Holds, Apart
  <2>4. ~(tx[u].pc \in {"creditRead", "creditCas", "commit", "record"})
    BY <1>6
  <2> QED
    BY <1>1, <1>3, <1>4, <1>5, <1>6, <2>1, <2>3, <2>4 DEF FirstInv, Charging
<1>7. CASE tx[u].pc # "freeWrite"
  BY <1>1, <1>3, <1>4, <1>5, <1>7 DEF FirstInv, Charging
<1> QED
  BY <1>6, <1>7

\* A run outside the charge holds no balance row.
LEMMA NoCreditLock ==
  ASSUME NEW t, FirstInv(t), tx[t].pc \notin {"creditRead", "creditCas", "commit"}
  PROVE  \A a \in Account : creditLock[a] # t
BY DEF FirstInv, Spending

\* A run that is not charging and holds no balance row has nothing to show.
LEMMA FirstIdle ==
  ASSUME NEW t, \A a \in Account : creditLock'[a] # t,
         tx'[t].pc \in {"idle", "running", "commit", "done", "failed"}
  PROVE  FirstInv(t)'
BY DEF FirstInv, Spending

\* record_usage: one more row is held.
LEMMA FirstRecord ==
  ASSUME TypeInv, NEW t \in Runs, FirstInv(t), RecordUsage(t)
  PROVE  FirstInv(t)'
<1>1. t \in Txn /\ tx \in [Txn -> TxState] /\ tx[t] \in TxState /\ tx[t].pc = "record"
  BY DEF Txn, TypeInv, TypeOK, RecordUsage
<1>2. /\ tx[t].payers \in Seq(Account) /\ Len(tx[t].payers) \in {1, 2}
      /\ tx[t].i \in 1..Len(tx[t].payers) /\ tx[t].i \in {1, 2}
  BY <1>1 DEF TypeInv, PointsAtPayer, Charging, TxState
<1>3. /\ PayerRow(t) = RowOf(t, tx[t].i)
      /\ \A k \in 1..Len(tx[t].payers) : RowOf(t, k) \in Row
  BY <1>1, RowOfType DEF PayerRow, Payer, RowOf
<1>4. /\ tx'[t].payers = tx[t].payers /\ tx'[t].day = tx[t].day
      /\ tx'[t].i = IF LastPayer(t) THEN 1 ELSE tx[t].i + 1
      /\ tx'[t].pc = IF ~LastPayer(t) THEN "record"
                     ELSE IF tx[t].bill /\ tx[t].rem > 0 THEN "freeRead" ELSE "commit"
  BY <1>1 DEF RecordUsage, TxState
<1>5. \A a \in Account : creditLock'[a] # t
  BY <1>1, NoCreditLock DEF RecordUsage
<1>6. \A k \in 1..Len(tx[t].payers) : RowOf(t, k)' = RowOf(t, k)
  BY <1>4 DEF RowOf
<1>7. \A k \in 1..tx[t].i : Holds(t, k)'
  <2>1. usageLock \in [Row -> Txn \cup {None}]
    BY DEF TypeInv, TypeOK
  <2>2. \A k \in 1..Len(tx[t].payers) :
          k = tx[t].i \/ Holds(t, k) => Holds(t, k)'
    BY <1>3, <1>6, <2>1 DEF Holds, RecordUsage
  <2>3. \A k \in 1..tx[t].i : k \in 1..Len(tx[t].payers) /\ (k = tx[t].i \/ k \in 1..(tx[t].i - 1))
    BY <1>2
  <2>4. \A k \in 1..(tx[t].i - 1) : Holds(t, k)
    BY <1>1 DEF FirstInv
  <2> QED
    BY <2>2, <2>3, <2>4
<1>8. CASE LastPayer(t)
  <2>1. \A k \in 1..Len(tx'[t].payers) : Holds(t, k)'
    BY <1>4, <1>7, <1>8 DEF LastPayer
  <2>2. tx'[t].i = 1 /\ tx'[t].pc \in {"freeRead", "commit"}
    BY <1>4, <1>8
  <2> QED
    BY <1>5, <2>1, <2>2 DEF FirstInv, Spending
<1>9. CASE ~LastPayer(t)
  <2>1. tx'[t].i - 1 = tx[t].i /\ tx'[t].pc = "record"
    BY <1>2, <1>4, <1>9
  <2> QED
    BY <1>5, <1>7, <2>1 DEF FirstInv, Spending
<1> QED
  BY <1>8, <1>9

\* The free loop leaves a full row behind it.
LEMMA FirstGoesOn ==
  ASSUME TypeInv, NEW t \in Runs, tx[t].pc \in {"freeRead", "freeWrite"},
         NEW left \in Nat, FreeGoesOn(t, left),
         \A a \in Account : creditLock'[a] # t,
         \A k \in 1..Len(tx[t].payers) : Holds(t, k)',
         left # 0 => \A k \in 1..tx[t].i : Full(t, k)'
  PROVE  FirstInv(t)'
<1>1. t \in Txn /\ tx \in [Txn -> TxState] /\ tx[t] \in TxState
  BY DEF Txn, TypeInv, TypeOK
<1>2. tx[t].i \in 1..Len(tx[t].payers) /\ tx[t].i \in {1, 2}
  BY <1>1 DEF TypeInv, PointsAtPayer, Charging, TxState
<1>3. /\ tx'[t].payers = tx[t].payers
      /\ tx'[t].i = IF LastPayer(t) THEN 1 ELSE tx[t].i + 1
      /\ tx'[t].pc = IF left = 0 THEN "commit"
                     ELSE IF LastPayer(t) THEN "creditRead" ELSE "freeRead"
  BY <1>1 DEF FreeGoesOn, TxState
<1>4. CASE left = 0
  BY <1>3, <1>4, FirstIdle
<1>5. CASE left # 0 /\ LastPayer(t)
  <2>1. tx'[t].pc = "creditRead" /\ \A k \in 1..Len(tx'[t].payers) : Full(t, k)' /\ Holds(t, k)'
    BY <1>3, <1>5 DEF LastPayer
  <2> QED
    BY <2>1 DEF FirstInv
<1>6. CASE left # 0 /\ ~LastPayer(t)
  <2>1. tx'[t].pc = "freeRead" /\ tx'[t].i - 1 = tx[t].i
    BY <1>2, <1>3, <1>6
  <2>2. ~Spending(t)'
    BY <2>1 DEF Spending
  <2> QED
    BY <1>3, <1>6, <2>1, <2>2 DEF FirstInv
<1> QED
  BY <1>4, <1>5, <1>6

\* spend_free reads a row the run holds: nobody can change what it saw.
LEMMA FirstFreeRead ==
  ASSUME TypeInv, NEW t \in Runs, FirstInv(t), FreeRead(t)
  PROVE  FirstInv(t)'
<1>1. /\ t \in Txn /\ tx \in [Txn -> TxState] /\ tx[t] \in TxState
      /\ tx[t].pc = "freeRead" /\ tx[t].pc \in Charging
  BY DEF Txn, TypeInv, TypeOK, FreeRead, Charging
<1>2. tx[t].i \in 1..Len(tx[t].payers) /\ tx[t].i \in {1, 2} /\ tx[t].rem \in Nat
  BY <1>1 DEF TypeInv, PointsAtPayer, TxState
<1>3. \A k \in 1..Len(tx[t].payers) : Holds(t, k)
  BY <1>1 DEF FirstInv
<1>4. PayerRow(t) = RowOf(t, tx[t].i) /\ UsageSeen(t, PayerRow(t)) = usageW[PayerRow(t)]
  BY <1>2, <1>3 DEF PayerRow, Payer, RowOf, Holds, UsageSeen
<1>5. UNCHANGED <<usage, usageW, usageLock, credit, creditW, creditLock>>
  BY DEF FreeRead, rows
<1>6. \A a \in Account : creditLock'[a] # t
  BY <1>1, <1>5, NoCreditLock
<1> DEFINE now == UsageSeen(t, PayerRow(t)).free
           cap == tx[t].cap[Payer(t)]
<1>7. CASE tx' = [tx EXCEPT ![t].pc = "commit"]
  <2>1. tx'[t].pc = "commit"
    BY <1>1, <1>7 DEF TxState
  <2> QED
    BY <1>6, <2>1, FirstIdle
<1>8. CASE now >= cap /\ FreeGoesOn(t, tx[t].rem)
  <2>1. tx'[t].payers = tx[t].payers /\ tx'[t].day = tx[t].day /\ tx'[t].cap = tx[t].cap
    BY <1>1, <1>8 DEF FreeGoesOn, TxState
  <2>2. Full(t, tx[t].i)
    BY <1>4, <1>8 DEF Full, Payer
  <2>3. \A k \in 1..tx[t].i : k = tx[t].i \/ k \in 1..(tx[t].i - 1)
    BY <1>2
  <2>4. \A k \in 1..tx[t].i : Full(t, k)
    BY <1>1, <2>2, <2>3 DEF FirstInv
  <2>5. \A k : RowOf(t, k)' = RowOf(t, k)
    BY <2>1 DEF RowOf
  <2>6. \A k \in 1..tx[t].i : Full(t, k)'
    BY <1>5, <2>1, <2>4, <2>5 DEF Full
  <2>7. \A k \in 1..Len(tx[t].payers) : Holds(t, k)'
    BY <1>3, <1>5, <2>5 DEF Holds
  <2> QED
    BY <1>1, <1>2, <1>6, <1>8, <2>6, <2>7, FirstGoesOn
<1>9. CASE tx' = [tx EXCEPT ![t].pc = "freeWrite", ![t].seen = now]
  <2> HIDE DEF now
  <2>1. /\ tx'[t].pc = "freeWrite" /\ tx'[t].seen = now /\ tx'[t].i = tx[t].i
        /\ tx'[t].payers = tx[t].payers /\ tx'[t].day = tx[t].day /\ tx'[t].cap = tx[t].cap
    BY <1>1, <1>9 DEF TxState
  <2>2. PayerRow(t)' = PayerRow(t) /\ \A k : RowOf(t, k)' = RowOf(t, k)
    BY <2>1 DEF PayerRow, Payer, RowOf
  <2>3. tx'[t].seen = usageW'[PayerRow(t)'].free
    BY <1>4, <1>5, <2>1, <2>2 DEF now
  <2>4. \A k \in 1..Len(tx'[t].payers) : Holds(t, k)'
    BY <1>3, <1>5, <2>1, <2>2 DEF Holds
  <2>5. \A k \in 1..(tx'[t].i - 1) : Full(t, k)'
    BY <1>1, <1>5, <2>1, <2>2 DEF FirstInv, Full
  <2>6. ~Spending(t)'
    BY <1>6, <2>1 DEF Spending
  <2> QED
    BY <2>1, <2>3, <2>4, <2>5, <2>6 DEF FirstInv
<1>10. /\ now \in Nat /\ cap \in Int
  <2>1. PayerRow(t) \in Row /\ Payer(t) \in Account
    BY <1>1, <1>2, <1>4, RowOfType, PayerType
  <2> QED
    BY <1>1, <1>4, <2>1 DEF TypeInv, TypeOK, UsageRow, TxState, Limit, Unlimited
<1> QED
  BY <1>7, <1>8, <1>9, <1>10 DEF FreeRead
\* spend_free's UPDATE never loses the race it guards against: the row is held,
\* so it either covers what is left or fills the allowance.
LEMMA FirstFreeWrite ==
  ASSUME TypeInv, NEW t \in Runs, FirstInv(t), FreeWrite(t)
  PROVE  FirstInv(t)'
<1>1. /\ t \in Txn /\ tx \in [Txn -> TxState] /\ tx[t] \in TxState
      /\ tx[t].pc = "freeWrite" /\ tx[t].pc \in Charging
  BY DEF Txn, TypeInv, TypeOK, FreeWrite, Charging
<1>2. tx[t].i \in 1..Len(tx[t].payers) /\ tx[t].i \in {1, 2} /\ tx[t].rem \in Nat
  BY <1>1 DEF TypeInv, PointsAtPayer, TxState
<1>3. /\ \A k \in 1..Len(tx[t].payers) : Holds(t, k)
      /\ \A k \in 1..(tx[t].i - 1) : Full(t, k)
      /\ tx[t].seen = usageW[PayerRow(t)].free
  BY <1>1 DEF FirstInv
<1>4. /\ PayerRow(t) = RowOf(t, tx[t].i)
      /\ \A k \in 1..Len(tx[t].payers) : RowOf(t, k) \in Row
  BY <1>1, RowOfType DEF PayerRow, Payer, RowOf
<1>5. \A a \in Account : creditLock'[a] # t
  BY <1>1, NoCreditLock DEF FreeWrite
<1> DEFINE r == PayerRow(t)
           cap == tx[t].cap[Payer(t)]
           take == FreeTake(t)
           left == tx[t].rem - take
<1>6. cap \in Int /\ tx[t].seen \in Int /\ tx[t].seen < cap
  BY <1>1, PayerType DEF TxState, Limit, Unlimited, TypeInv, SeenInRange
<1>7. /\ take \in Nat /\ left \in Nat /\ tx[t].seen + take <= cap
      /\ left # 0 => tx[t].seen + take = cap
  <2> DEFINE room == cap - tx[t].seen
  <2>1. room \in Nat /\ tx[t].seen + room = cap
    BY <1>6
  <2>2. take = Lesser(tx[t].rem, room)
    BY DEF FreeTake
  <2>3. /\ take \in Nat /\ take <= room /\ left \in Nat
        /\ left # 0 => take = room
    <3> HIDE DEF room
    <3>1. CASE tx[t].rem < room
      <4>1. take = tx[t].rem
        BY <2>2, <3>1 DEF Lesser
      <4> QED
        BY <1>2, <2>1, <3>1, <4>1
    <3>2. CASE ~(tx[t].rem < room)
      <4>1. take = room
        BY <2>2, <3>2 DEF Lesser
      <4> QED
        BY <1>2, <2>1, <3>2, <4>1
    <3> QED
      BY <3>1, <3>2
  <2> QED
    BY <1>6, <2>1, <2>3
<1>8. /\ usageLock' = [usageLock EXCEPT ![r] = t]
      /\ usageW' = [usageW EXCEPT ![r].free = @ + take]
      /\ FreeGoesOn(t, left)
  BY <1>3, <1>7 DEF FreeWrite
<1>9. tx'[t].payers = tx[t].payers /\ tx'[t].day = tx[t].day /\ tx'[t].cap = tx[t].cap
  BY <1>1, <1>8 DEF FreeGoesOn, TxState
<1>10. \A k : RowOf(t, k)' = RowOf(t, k)
  BY <1>9 DEF RowOf
<1>11. /\ usageW \in [Row -> UsageRow] /\ usageLock \in [Row -> Txn \cup {None}]
       /\ r \in Row
  BY <1>2, <1>4 DEF TypeInv, TypeOK
<1>12. \A k \in 1..Len(tx[t].payers) : Holds(t, k)'
  BY <1>3, <1>4, <1>8, <1>10, <1>11 DEF Holds
<1>13. ASSUME left # 0, NEW k \in 1..tx[t].i PROVE Full(t, k)'
  <2> DEFINE q == RowOf(t, k)
             limitK == tx[t].cap[tx[t].payers[k]]
  <2>1. q \in Row /\ k \in 1..Len(tx[t].payers)
    BY <1>2, <1>4
  <2>2. usageW'[r].free = tx[t].seen + take
    BY <1>3, <1>8, <1>11 DEF UsageRow
  <2>3. usageW'[q].free >= usageW[q].free
    <3>1. usageW[q].free \in Nat /\ usageW[r].free \in Nat
      BY <1>11, <2>1 DEF UsageRow
    <3>2. CASE q = r
      <4>1. usageW[q].free = tx[t].seen
        BY <1>3, <3>2
      <4> QED
        BY <1>6, <1>7, <2>2, <3>1, <3>2, <4>1
    <3>3. CASE q # r
      BY <1>8, <1>11, <2>1, <3>1, <3>3
    <3> QED
      BY <3>2, <3>3
  <2>4. CASE k = tx[t].i
    <3>1. limitK = cap /\ q = r
      BY <1>4, <2>4 DEF Payer
    <3>2. usageW'[q].free = cap
      BY <1>7, <1>13, <2>2, <3>1
    <3> QED
      BY <1>6, <1>9, <1>10, <3>1, <3>2 DEF Full
  <2>5. CASE k # tx[t].i
    <3>1. Full(t, k)
      BY <1>2, <1>3, <2>5
    <3>2. limitK \in Int /\ usageW[q].free \in Int /\ usageW'[q].free \in Int
      <4>1. usageW' \in [Row -> UsageRow]
        BY FreeWriteType, <1>1 DEF TypeInv, TypeOK
      <4>2. tx[t].payers[k] \in Account
        BY <1>1, <2>1 DEF TxState
      <4> QED
        BY <1>1, <1>11, <2>1, <4>1, <4>2 DEF UsageRow, TxState, Limit, Unlimited
    <3>3. usageW[q].free >= limitK
      BY <3>1 DEF Full
    <3>4. usageW'[q].free >= limitK
      BY <2>3, <3>2, <3>3
    <3> QED
      BY <1>9, <1>10, <3>4 DEF Full
  <2> QED
    BY <2>4, <2>5
<1> HIDE DEF left, take, r, cap
<1> QED
  BY <1>1, <1>5, <1>7, <1>8, <1>12, <1>13, FirstGoesOn

\* The balance loop touches no usage row.
LEMMA FirstCredit ==
  ASSUME TypeInv, NEW t \in Runs, FirstInv(t), CreditRead(t) \/ CreditCas(t) \/ CreditDebt(t)
  PROVE  FirstInv(t)'
<1>1. /\ t \in Txn /\ tx \in [Txn -> TxState] /\ tx[t] \in TxState
      /\ tx[t].pc \in {"creditRead", "creditCas"}
  BY DEF Txn, TypeInv, TypeOK, CreditRead, CreditCas, CreditDebt
<1>2. \A k \in 1..Len(tx[t].payers) : Holds(t, k) /\ Full(t, k)
  BY <1>1 DEF FirstInv, Spending
<1>3. UNCHANGED <<usageW, usageLock>>
  BY DEF CreditRead, CreditCas, CreditDebt, rows
<1>4. /\ tx'[t].payers = tx[t].payers /\ tx'[t].day = tx[t].day /\ tx'[t].cap = tx[t].cap
      /\ tx'[t].pc \in {"creditRead", "creditCas", "commit"}
  BY <1>1 DEF CreditRead, CreditCas, CreditDebt, CreditGoesOn, TxState
<1>5. \A k \in 1..Len(tx'[t].payers) : Holds(t, k)' /\ Full(t, k)'
  BY <1>2, <1>3, <1>4 DEF Holds, Full, RowOf
<1> QED
  BY <1>4, <1>5 DEF FirstInv

\* Every action of t leaves the others' rows, locks and progress alone.
LEMMA ActionsApart ==
  ASSUME TypeInv, NEW t \in Txn,
         \/ \E s \in Subjects : Start(t, s)
         \/ \E n \in 0..MaxTokens : Settle(t, n)
         \/ RunFails(t)
         \/ Charge(t)
         \/ \E a \in Account, n \in Balances : SetCredit(t, a, n)
         \/ \E a \in Account, n \in TopUps : AdjustCredits(t, a, n)
         \/ SetAgain(t)
         \/ SetCas(t)
         \/ Commit(t) \/ Rollback(t)
  PROVE  Apart(t)
<1>1. /\ tx \in [Txn -> TxState] /\ t # None
      /\ usageW \in [Row -> UsageRow] /\ usageLock \in [Row -> Txn \cup {None}]
      /\ creditLock \in [Account -> Txn \cup {None}]
  BY TxnsDisjoint DEF TypeInv, TypeOK
<1>2. CASE \/ \E s \in Subjects : Start(t, s)
           \/ \E n \in 0..MaxTokens : Settle(t, n)
           \/ RunFails(t)
           \/ \E a \in Account, n \in Balances : SetCredit(t, a, n)
           \/ SetAgain(t)
  BY <1>1, <1>2 DEF Apart, Start, Settle, RunFails, SetCredit, SetAgain, Observe, rows
<1>3. CASE FreeRead(t) \/ CreditRead(t)
  <2>1. \A u \in Txn : u # t => tx'[u] = tx[u]
    BY <1>1, <1>3 DEF FreeRead, FreeGoesOn, CreditRead, CreditGoesOn
  <2> QED
    BY <1>3, <2>1 DEF Apart, FreeRead, CreditRead, rows
<1>4. CASE RecordUsage(t) \/ FreeWrite(t)
  <2>1. \A u \in Txn : u # t => tx'[u] = tx[u]
    BY <1>1, <1>4 DEF RecordUsage, FreeWrite, FreeGoesOn
  <2>2. \A u \in Txn, r \in Row : u # t /\ usageLock[r] = u =>
          usageLock'[r] = u /\ usageW'[r] = usageW[r]
    <3> SUFFICES ASSUME NEW u \in Txn, NEW r \in Row, u # t, usageLock[r] = u
                 PROVE  usageLock'[r] = u /\ usageW'[r] = usageW[r]
      OBVIOUS
    <3>1. r # PayerRow(t)
      BY <1>4, TxnsDisjoint DEF RecordUsage, FreeWrite, MayWriteUsage
    <3> QED
      BY <1>1, <1>4, <3>1 DEF RecordUsage, FreeWrite
  <2> QED
    BY <1>4, <2>1, <2>2 DEF Apart, RecordUsage, FreeWrite
<1>5. CASE \/ CreditCas(t) \/ CreditDebt(t) \/ SetCas(t)
           \/ \E a \in Account, n \in TopUps : AdjustCredits(t, a, n)
  <2>1. \A u \in Txn : u # t => tx'[u] = tx[u]
    BY <1>1, <1>5 DEF CreditCas, CreditGoesOn, CreditDebt, SetCas, AdjustCredits
  <2>2. \A u \in Txn, a \in Account : u # t /\ creditLock'[a] = u => creditLock[a] = u
    BY <1>1, <1>5 DEF CreditCas, CreditDebt, SetCas, AdjustCredits
  <2>3. UNCHANGED <<usageW, usageLock>>
    BY <1>5 DEF CreditCas, CreditDebt, SetCas, AdjustCredits
  <2> QED
    BY <2>1, <2>2, <2>3 DEF Apart
<1>6. CASE Commit(t) \/ Rollback(t)
  <2>1. \A u \in Txn : u # t => tx'[u] = tx[u]
    BY <1>1, <1>6 DEF Commit, Rollback
  <2>2. \A a \in Account : creditLock'[a] = IF creditLock[a] = t THEN None ELSE creditLock[a]
    BY <1>6 DEF Commit, Rollback
  <2>3. \A r \in Row : usageLock[r] # t =>
          usageLock'[r] = usageLock[r] /\ usageW'[r] = usageW[r]
    BY <1>6 DEF Commit, Rollback
  <2> QED
    BY <2>1, <2>2, <2>3, TxnsDisjoint DEF Apart
<1> QED
  BY <1>2, <1>3, <1>4, <1>5, <1>6 DEF Charge

\* No step breaks the order of a settlement, its own or another's.
LEMMA FirstStep ==
  ASSUME TypeInv, \A t \in Runs : FirstInv(t), [Next]_vars
  PROVE  \A t \in Runs : FirstInv(t)'
<1>1. CASE UNCHANGED <<tx, usageW, usageLock, creditLock>>
  BY <1>1 DEF FirstInv, Spending, Holds, Full, RowOf, PayerRow, Payer
<1>2. ASSUME NEW t \in Txn, Apart(t), t \in Runs => FirstInv(t)'
      PROVE  \A u \in Runs : FirstInv(u)'
  <2> TAKE u \in Runs
  <2> QED
    BY <1>2, FirstApart
<1>3. CASE NewDay \/ \E c \in Chats, n \in ChatLimits : SetChatLimit(c, n)
  BY <1>1, <1>3 DEF NewDay, SetChatLimit, rows
<1>4. ASSUME NEW t \in Runs, \/ \E s \in Subjects : Start(t, s)
                             \/ RunFails(t)
      PROVE \A u \in Runs : FirstInv(u)'
  <2>1. t \in Txn /\ tx \in [Txn -> TxState] /\ tx[t].pc \in {"idle", "running"}
    BY <1>4 DEF Txn, TypeInv, TypeOK, Start, RunFails
  <2>2. \A a \in Account : creditLock'[a] # t
    BY <1>4, <2>1, NoCreditLock DEF Start, RunFails, rows
  <2>3. tx'[t].pc \in {"running", "failed"}
    BY <1>4, <2>1 DEF Start, RunFails, TypeInv, TypeOK, TxState
  <2>4. FirstInv(t)'
    BY <2>2, <2>3, FirstIdle
  <2> QED
    BY <1>2, <1>4, <2>1, <2>4, ActionsApart
<1>5. ASSUME NEW t \in Runs, NEW n \in 0..MaxTokens, Settle(t, n)
      PROVE \A u \in Runs : FirstInv(u)'
  <2>1. t \in Txn /\ tx \in [Txn -> TxState] /\ tx[t] \in TxState /\ tx[t].pc = "running"
    BY <1>5 DEF Txn, TypeInv, TypeOK, Settle
  <2>2. \A a \in Account : creditLock'[a] # t
    BY <1>5, <2>1, NoCreditLock DEF Settle, rows
  <2>3. tx'[t].pc = "record" /\ tx'[t].i = 1
    BY <1>5, <2>1 DEF Settle, TxState
  <2>4. \A k \in 1..(tx'[t].i - 1) : Holds(t, k)'
    BY <2>3
  <2>5. FirstInv(t)'
    BY <2>2, <2>3, <2>4 DEF FirstInv, Spending
  <2> QED
    BY <1>2, <1>5, <2>1, <2>5, ActionsApart
<1>6. ASSUME NEW t \in Runs, Charge(t) PROVE \A u \in Runs : FirstInv(u)'
  <2>1. t \in Txn
    BY DEF Txn
  <2>2. FirstInv(t)'
    BY <1>6, FirstRecord, FirstFreeRead, FirstFreeWrite, FirstCredit DEF Charge
  <2> QED
    BY <1>2, <1>6, <2>1, <2>2, ActionsApart
<1>7. ASSUME NEW t \in Edits, \/ \E a \in Account, n \in Balances : SetCredit(t, a, n)
                              \/ \E a \in Account, n \in TopUps : AdjustCredits(t, a, n)
                              \/ SetAgain(t)
                              \/ SetCas(t)
      PROVE \A u \in Runs : FirstInv(u)'
  <2>1. t \in Txn /\ t \notin Runs
    BY TxnsDisjoint DEF Txn
  <2> QED
    BY <1>2, <1>7, <2>1, ActionsApart
<1>8. ASSUME NEW t \in Txn, Commit(t) \/ Rollback(t) PROVE \A u \in Runs : FirstInv(u)'
  <2>1. tx \in [Txn -> TxState] /\ t # None
    BY TxnsDisjoint DEF TypeInv, TypeOK
  <2>2. tx'[t].pc \in {"done", "failed"}
    BY <1>8, <2>1 DEF Commit, Rollback, TxState
  <2>3. \A a \in Account : creditLock'[a] # t
    BY <1>8, <2>1 DEF Commit, Rollback
  <2>4. FirstInv(t)'
    BY <2>2, <2>3, FirstIdle
  <2> QED
    BY <1>2, <1>8, <2>4, ActionsApart
<1>9. CASE UNCHANGED vars
  BY <1>1, <1>9 DEF vars, rows
<1> QED
  BY <1>3, <1>4, <1>5, <1>6, <1>7, <1>8, <1>9 DEF Next

\* A run draws on a balance only when every payer's free allowance is used up,
\* and no other run can change that before it commits.
THEOREM FreeFirst == Spec => []FreeSpentFirst
<1> DEFINE AllFirst == \A t \in Runs : FirstInv(t)
<1>1. Init => AllFirst
  <2> SUFFICES ASSUME Init, NEW t \in Runs PROVE FirstInv(t)
    OBVIOUS
  <2>1. t \in Txn /\ tx[t].pc = "idle" /\ \A a \in Account : creditLock[a] # t
    BY TxnsDisjoint DEF Init, Txn
  <2> QED
    BY <2>1 DEF FirstInv, Spending
<1>2. AllFirst => FreeSpentFirst
  BY DEF FirstInv, Spending, Full, RowOf, FreeSpentFirst
<1>3. TypeInv /\ AllFirst /\ [Next]_vars => AllFirst'
  BY FirstStep
<1>4. Spec => []TypeInv
  BY InitType, NextType, PTL DEF Spec
<1> HIDE DEF AllFirst
<1> QED
  BY <1>1, <1>2, <1>3, <1>4, PTL DEF Spec

-----------------------------------------------------------------------------
\* AgentQuota implements QuotaLedger: whatever transactions are open, what is
\* committed changes only as the ledger charges, grants and lets days pass.  The
\* invariant says, for each open settlement, how the images it wrote differ
\* from the committed ones; a commit then is one charge.

\* spend_credit's and set_credit's effects as records.
Minus(c, n) == [balance |-> c.balance - n, granted |-> c.granted, spent |-> c.spent + n]
Plus(c, n) == [balance |-> c.balance + n, granted |-> c.granted + n, spent |-> c.spent]

\* What payer k of t gives from its allowance, from what is committed.
Room(t, k) ==
  LET free == usage[RowOf(t, k)].free
      cap == tx[t].cap[tx[t].payers[k]]
  IN IF cap > free THEN cap - free ELSE 0
First(t) == Lesser(tx[t].need, Room(t, 1))
Share(t, k) == IF k = 1 THEN First(t) ELSE Lesser(tx[t].need - First(t), Room(t, k))
Rest(t) == tx[t].need - First(t) - (IF Len(tx[t].payers) = 2 THEN Share(t, 2) ELSE 0)

\* t has written row k: the run's tokens, g of them free.
Image(t, k, g) == [free |-> usage[RowOf(t, k)].free + g,
                   tokens |-> usage[RowOf(t, k)].tokens + tx[t].need]
Wrote(t, k, g) == Holds(t, k) /\ usageW[RowOf(t, k)] = Image(t, k, g)

\* t has taken own from the first of two payers and last from the last one.
Part(t, own, last, a) ==
  IF a = tx[t].payers[Len(tx[t].payers)] THEN last
  ELSE IF a = tx[t].payers[1] THEN own ELSE 0
Paid(t, own, last) == \A a \in Account :
  IF creditLock[a] = t THEN creditW[a] = Minus(credit[a], Part(t, own, last, a))
                       ELSE Part(t, own, last, a) = 0
MayGive(t, own) ==
  own > 0 => Len(tx[t].payers) = 2 /\ own <= credit[tx[t].payers[1]].balance

Billed(t) == tx[t].bill /\ tx[t].cap[tx[t].payers[1]] # Unlimited

----------------------------------------------------------------------------
\* The invariant.

\* What settle fixes before the transaction.
Planned(t) ==
  /\ tx[t].pc # "idle" => tx[t].payers \in Subjects
  /\ tx[t].pc \in InTx =>
       /\ tx[t].bill <=> tx[t].payers \notin Exempt
       /\ tx[t].need \in 0..MaxTokens
       /\ \A u \in Users : tx[t].cap[u] = limit[u]
       /\ \A c \in Chats : tx[t].cap[c] \in ChatLimits \cup {0}

OwnRows(t) ==
  /\ \A r \in Row : usageLock[r] = t =>
       tx[t].pc \in InTx /\ \E k \in 1..Len(tx[t].payers) : r = RowOf(t, k)
  /\ \A a \in Account : creditLock[a] = t => tx[t].pc \in {"creditRead", "creditCas", "commit"}

Recording(t) == tx[t].pc = "record" =>
  /\ tx[t].rem = tx[t].need
  /\ \A k \in 1..Len(tx[t].payers) : IF k < tx[t].i THEN Wrote(t, k, 0) ELSE ~Holds(t, k)

FreeLoop(t) == tx[t].pc \in {"freeRead", "freeWrite"} =>
  /\ tx[t].bill /\ tx[t].rem > 0 /\ (tx[t].i = 2 => Billed(t))
  /\ tx[t].rem = tx[t].need - (IF tx[t].i = 1 THEN 0 ELSE First(t))
  /\ \A k \in 1..Len(tx[t].payers) : Wrote(t, k, IF k < tx[t].i THEN Share(t, k) ELSE 0)

\* t has taken what it could from the balances before that of payer i, and
\* from all of them.
Draws(t, own) == /\ tx[t].rem = Rest(t) - own /\ (tx[t].i = 1 => own = 0)
                 /\ MayGive(t, own) /\ Paid(t, own, 0)
Drawing(t) == \E own \in 0..Rest(t) : Draws(t, own)
Drawn(t) == \E own \in 0..Rest(t) : MayGive(t, own) /\ Paid(t, own, Rest(t) - own)

CreditLoop(t) == tx[t].pc \in {"creditRead", "creditCas"} =>
  /\ Billed(t) /\ tx[t].rem > 0
  /\ \A k \in 1..Len(tx[t].payers) : Wrote(t, k, Share(t, k))
  /\ Drawing(t)

AtCommit(t) == tx[t].pc = "commit" =>
  \/ /\ Billed(t)
     /\ \A k \in 1..Len(tx[t].payers) : Wrote(t, k, Share(t, k))
     /\ Drawn(t)
  \/ /\ ~Billed(t)
     /\ \A k \in 1..Len(tx[t].payers) : Wrote(t, k, 0)
     /\ \A a \in Account : creditLock[a] # t

RunInv(t) == FirstInv(t) /\ Planned(t) /\ OwnRows(t) /\ Recording(t) /\ FreeLoop(t)
             /\ CreditLoop(t) /\ AtCommit(t)

\* An operator's edit changes one balance, by what the ledger may grant.
EditInv(t) ==
  /\ tx[t].pc \in Setting => tx[t].need \in Balances
  /\ \A r \in Row : usageLock[r] # t
  /\ \A a \in Account : creditLock[a] = t =>
       /\ tx[t].pc = "commit" /\ a = tx[t].payers[1]
       /\ \E x \in TopUps \cup {m - credit[a].balance : m \in Balances} :
            creditW[a] = Plus(credit[a], x)

Images ==
  /\ \A r \in Row : usageLock[r] = None => usageW[r] = usage[r]
  /\ \A a \in Account : creditLock[a] = None => creditW[a] = credit[a]
  /\ \A c \in Chats : limit[c] \in ChatLimits \cup {0}

RefInv == /\ TypeInv /\ Images
          /\ \A t \in Runs : RunInv(t)
          /\ \A t \in Edits : EditInv(t)

----------------------------------------------------------------------------
\* Records, payers and shares.

\* The two effects, written as records.
LEMMA Effects ==
  ASSUME NEW c \in CreditRow
  PROVE  /\ \A n \in Nat : Debit(c, n) = Minus(c, n) /\ Minus(c, n) \in CreditRow
         /\ \A n \in Nat : [c EXCEPT !.balance = @ - n, !.spent = @ + n] = Minus(c, n)
         /\ \A n \in Int : Grant(c, n) = Plus(c, n)
         /\ \A n \in Int : [c EXCEPT !.balance = @ + n, !.granted = @ + n] = Plus(c, n)
         /\ Minus(c, 0) = c
<1>1. c = [balance |-> c.balance, granted |-> c.granted, spent |-> c.spent]
      /\ c.balance \in Int /\ c.granted \in Int /\ c.spent \in Nat
  BY DEF CreditRow
<1>2. \A n \in Nat : Debit(c, n) = Minus(c, n) /\ Minus(c, n) \in CreditRow
  <2> TAKE n \in Nat
  <2>1. c.balance - n \in Int /\ c.spent + n \in Nat BY <1>1
  <2>2. Minus(c, n) \in CreditRow BY <1>1, <2>1 DEF Minus, CreditRow
  <2>3. Debit(c, n) \in CreditRow /\ Debit(c, n).balance = c.balance - n
        /\ Debit(c, n).spent = c.spent + n /\ Debit(c, n).granted = c.granted
    BY DebitShape
  <2> QED BY <2>2, <2>3 DEF Minus, CreditRow
<1>3. \A n \in Nat : [c EXCEPT !.balance = @ - n, !.spent = @ + n] = Minus(c, n)
  BY <1>2 DEF Debit
<1>4. \A n \in Int : Grant(c, n) = Plus(c, n)
  <2> TAKE n \in Int
  <2>1. c.balance + n \in Int /\ c.granted + n \in Int BY <1>1
  <2>2. Plus(c, n) \in CreditRow BY <1>1, <2>1 DEF Plus, CreditRow
  <2>3. Grant(c, n) \in CreditRow /\ Grant(c, n).balance = c.balance + n
        /\ Grant(c, n).granted = c.granted + n /\ Grant(c, n).spent = c.spent
    BY GrantShape
  <2> QED BY <2>2, <2>3 DEF Plus, CreditRow
<1>5. \A n \in Int : [c EXCEPT !.balance = @ + n, !.granted = @ + n] = Plus(c, n)
  BY <1>4 DEF Grant
<1>6. Minus(c, 0) = c
  <2>1. c.balance - 0 = c.balance /\ c.spent + 0 = c.spent BY <1>1
  <2> QED BY <1>1, <2>1 DEF Minus
<1> QED BY <1>2, <1>3, <1>4, <1>5, <1>6

\* One payer, or a speaker and the group.
LEMMA PayersOf ==
  ASSUME TypeInv, NEW t \in Runs, tx[t].payers \in Subjects
  PROVE  /\ Len(tx[t].payers) \in {1, 2}
         /\ \A k \in 1..Len(tx[t].payers) : tx[t].payers[k] \in Account /\ RowOf(t, k) \in Row
         /\ Len(tx[t].payers) = 2 => /\ tx[t].payers[1] \in Users /\ tx[t].payers[2] \in Chats
                                     /\ tx[t].payers[1] # tx[t].payers[2]
                                     /\ RowOf(t, 1) # RowOf(t, 2)
<1> DEFINE s == tx[t].payers
<1>1. /\ Len(s) \in {1, 2} /\ \A k \in 1..Len(s) : s[k] \in Account
  BY SubjectShape
<1>2. Len(s) = 2 => s[1] \in Users /\ s[2] \in Chats
  <2>1. s \in {<<a>> : a \in Account} => Len(s) = 1
    OBVIOUS
  <2>2. s \in {<<u, c>> : u \in Users, c \in Chats} => s[1] \in Users /\ s[2] \in Chats
    OBVIOUS
  <2> QED BY <2>1, <2>2, SubjectsOK
<1>3. t \in Txn /\ tx[t].day \in Day BY DEF Txn, TypeInv, TypeOK, TxState
<1> HIDE DEF s
<1>4. Len(s) = 2 => s[1] # s[2] BY <1>2, AccountsDisjoint
<1>5. \A k \in 1..Len(s) : RowOf(t, k) \in Row BY <1>1, <1>3 DEF RowOf, Row, s
<1>6. Len(s) = 2 => RowOf(t, 1) # RowOf(t, 2) BY <1>4 DEF RowOf, s
<1> QED BY <1>1, <1>2, <1>4, <1>5, <1>6 DEF s

\* No share exceeds what is left to pay.
LEMMA Shares ==
  ASSUME TypeInv, NEW t \in Runs, tx[t].payers \in Subjects
  PROVE  /\ First(t) \in 0..tx[t].need
         /\ \A k \in 1..Len(tx[t].payers) : Room(t, k) \in Nat /\ Share(t, k) \in Nat
         /\ Len(tx[t].payers) = 2 => Share(t, 2) \in 0..(tx[t].need - First(t))
         /\ Rest(t) \in Nat /\ Share(t, 1) = First(t) /\ tx[t].need \in Nat
<1>1. /\ Len(tx[t].payers) \in {1, 2}
      /\ \A k \in 1..Len(tx[t].payers) : tx[t].payers[k] \in Account /\ RowOf(t, k) \in Row
  BY PayersOf
<1>2. t \in Txn /\ tx[t].need \in Nat /\ tx[t].cap \in [Account -> Limit]
  BY DEF Txn, TypeInv, TypeOK, TxState
<1>3. \A k \in 1..Len(tx[t].payers) : Room(t, k) \in Nat
  <2> TAKE k \in 1..Len(tx[t].payers)
  <2>1. usage[RowOf(t, k)].free \in Nat BY <1>1 DEF TypeInv, TypeOK, UsageRow
  <2>2. tx[t].cap[tx[t].payers[k]] \in Int BY <1>1, <1>2 DEF Limit, Unlimited
  <2> QED BY <2>1, <2>2 DEF Room
<1>4. \A m, n \in Nat : Lesser(m, n) \in 0..m BY DEF Lesser
<1>5. Room(t, 1) \in Nat BY <1>1, <1>3
<1>6. First(t) \in 0..tx[t].need BY <1>2, <1>4, <1>5 DEF First
<1>7. tx[t].need - First(t) \in Nat BY <1>2, <1>6
<1>8. Len(tx[t].payers) = 2 => Share(t, 2) \in 0..(tx[t].need - First(t))
  <2> SUFFICES ASSUME Len(tx[t].payers) = 2 PROVE Share(t, 2) \in 0..(tx[t].need - First(t))
    OBVIOUS
  <2>1. Room(t, 2) \in Nat BY <1>3
  <2>2. Share(t, 2) = Lesser(tx[t].need - First(t), Room(t, 2)) BY DEF Share
  <2> QED BY <1>4, <1>7, <2>1, <2>2
<1>9. Rest(t) \in Nat BY <1>1, <1>2, <1>6, <1>7, <1>8 DEF Rest
<1>10. \A k \in 1..Len(tx[t].payers) : Share(t, k) \in Nat
  <2> HIDE DEF Share
  <2>1. Share(t, 1) = First(t) BY DEF Share
  <2> QED BY <1>1, <1>6, <1>8, <2>1
<1> QED BY <1>2, <1>3, <1>6, <1>8, <1>9, <1>10 DEF Share

----------------------------------------------------------------------------
\* What a step of one transaction leaves to the others.

Unmoved(u) ==
  /\ tx'[u] = tx[u]
  /\ \A r \in Row : /\ usageLock'[r] = u <=> usageLock[r] = u
                    /\ usageLock[r] = u => usageW'[r] = usageW[r] /\ usage'[r] = usage[r]
  /\ \A a \in Account : /\ creditLock'[a] = u <=> creditLock[a] = u
                        /\ creditLock[a] = u => creditW'[a] = creditW[a] /\ credit'[a] = credit[a]
  /\ \A v \in Users : limit'[v] = limit[v]

\* No action of t writes, locks or releases what another transaction holds.
LEMMA ActionsUnmove ==
  ASSUME TypeInv, NEW t \in Txn, NEW u \in Txn, u # t,
         \/ \E s \in Subjects : Start(t, s)
         \/ \E n \in 0..MaxTokens : Settle(t, n)
         \/ RunFails(t)
         \/ Charge(t)
         \/ \E a \in Account, n \in Balances : SetCredit(t, a, n)
         \/ \E a \in Account, n \in TopUps : AdjustCredits(t, a, n)
         \/ SetAgain(t)
         \/ SetCas(t)
         \/ Commit(t) \/ Rollback(t)
  PROVE  Unmoved(u)
<1>1. /\ tx \in [Txn -> TxState] /\ u # None /\ t # None
      /\ usage \in [Row -> UsageRow] /\ usageW \in [Row -> UsageRow]
      /\ usageLock \in [Row -> Txn \cup {None}]
      /\ credit \in [Account -> CreditRow] /\ creditW \in [Account -> CreditRow]
      /\ creditLock \in [Account -> Txn \cup {None}]
  BY TxnsDisjoint DEF TypeInv, TypeOK
<1>2. tx'[u] = tx[u] BY ActionsApart DEF Apart
<1>3. limit' = limit
  BY DEF Start, Settle, RunFails, Charge, RecordUsage, FreeRead, FreeWrite, CreditRead, CreditCas,
     CreditDebt, SetCredit, AdjustCredits, SetAgain, SetCas, Commit, Rollback
<1>4. CASE UNCHANGED rows BY <1>2, <1>3, <1>4 DEF Unmoved, rows
<1>5. CASE RecordUsage(t) \/ FreeWrite(t)
  <2>1. UNCHANGED <<usage, credit, creditW, creditLock>> BY <1>5 DEF RecordUsage, FreeWrite
  <2>2. \A r \in Row : r # PayerRow(t) => usageLock'[r] = usageLock[r] /\ usageW'[r] = usageW[r]
    BY <1>1, <1>5 DEF RecordUsage, FreeWrite
  <2>3. \A r \in Row : r = PayerRow(t) => usageLock[r] # u /\ usageLock'[r] # u
    BY <1>1, <1>5 DEF RecordUsage, FreeWrite, MayWriteUsage
  <2> QED BY <1>2, <1>3, <2>1, <2>2, <2>3 DEF Unmoved
<1>6. CASE \/ CreditCas(t) \/ CreditDebt(t) \/ SetCas(t)
           \/ \E a \in Account, n \in TopUps : AdjustCredits(t, a, n)
  <2>1. UNCHANGED <<usage, usageW, usageLock, credit>>
    BY <1>6 DEF CreditCas, CreditDebt, SetCas, AdjustCredits
  <2>2. PICK b : /\ \A a \in Account : a # b => creditLock'[a] = creditLock[a] /\ creditW'[a] = creditW[a]
                 /\ \A a \in Account : a = b => creditLock[a] # u /\ creditLock'[a] # u
    <3>1. CASE CreditCas(t) \/ CreditDebt(t) \/ SetCas(t)
      <4>1. /\ \A a \in Account : a # Payer(t) => creditLock'[a] = creditLock[a] /\ creditW'[a] = creditW[a]
            /\ \A a \in Account : a = Payer(t) => creditLock[a] # u /\ creditLock'[a] # u
        BY <1>1, <3>1 DEF CreditCas, CreditDebt, SetCas, MayWriteCredit
      <4> QED BY <4>1
    <3>2. ASSUME NEW b \in Account, NEW n \in TopUps, AdjustCredits(t, b, n)
          PROVE  /\ \A a \in Account : a # b => creditLock'[a] = creditLock[a] /\ creditW'[a] = creditW[a]
                 /\ \A a \in Account : a = b => creditLock[a] # u /\ creditLock'[a] # u
      BY <1>1, <3>2 DEF AdjustCredits, MayWriteCredit
    <3> QED BY <1>6, <3>1, <3>2
  <2> QED BY <1>2, <1>3, <2>1, <2>2 DEF Unmoved
<1>7. CASE Commit(t) \/ Rollback(t)
  <2>1. \A r \in Row : usageLock[r] = u =>
          usageLock'[r] = u /\ usageW'[r] = usageW[r] /\ usage'[r] = usage[r]
    BY <1>1, <1>7 DEF Commit, Rollback
  <2>2. \A r \in Row : usageLock[r] # u => usageLock'[r] # u
    BY <1>1, <1>7 DEF Commit, Rollback
  <2>3. \A a \in Account : creditLock[a] = u =>
          creditLock'[a] = u /\ creditW'[a] = creditW[a] /\ credit'[a] = credit[a]
    BY <1>1, <1>7 DEF Commit, Rollback
  <2>4. \A a \in Account : creditLock[a] # u => creditLock'[a] # u
    BY <1>1, <1>7 DEF Commit, Rollback
  <2> QED BY <1>2, <1>3, <2>1, <2>2, <2>3, <2>4 DEF Unmoved
<1> QED
  BY <1>4, <1>5, <1>6, <1>7 DEF Start, Settle, RunFails, Charge, FreeRead, CreditRead, SetCredit, SetAgain

\* A run that is not moved keeps what the invariant says of it.
LEMMA RunUnmoved ==
  ASSUME TypeInv, NEW u \in Runs, RunInv(u), Unmoved(u), FirstInv(u)'
  PROVE  RunInv(u)'
<1>1. tx'[u] = tx[u] /\ u \in Txn BY DEF Unmoved, Txn
<1>2. tx[u].pc # "idle" => tx[u].payers \in Subjects BY DEF RunInv, Planned
<1>3. \A k : RowOf(u, k)' = RowOf(u, k) BY <1>1 DEF RowOf
<1>4. CASE tx[u].pc = "idle"
  <2>1. \A r \in Row : usageLock'[r] # u BY <1>4 DEF RunInv, OwnRows, Unmoved, InTx
  <2>2. \A a \in Account : creditLock'[a] # u BY <1>4 DEF RunInv, OwnRows, Unmoved
  <2> QED
    BY <2>2, <1>1, <1>4, <2>1 DEF RunInv, Planned, OwnRows, Recording, FreeLoop, CreditLoop, AtCommit, InTx
<1>5. CASE tx[u].pc # "idle"
  <2> DEFINE K == 1..Len(tx[u].payers)
  <2>1. \A k \in K : RowOf(u, k) \in Row BY <1>2, <1>5, PayersOf
  <2>2. \A k \in K : Holds(u, k)' <=> Holds(u, k)
    BY <1>3, <2>1 DEF Holds, Unmoved
  <2>3. \A k \in K : Holds(u, k) =>
          /\ \A g : Wrote(u, k, g)' <=> Wrote(u, k, g)
          /\ Room(u, k)' = Room(u, k)
    <3> SUFFICES ASSUME NEW k \in K, Holds(u, k)
                 PROVE  /\ \A g : Wrote(u, k, g)' <=> Wrote(u, k, g)
                        /\ Room(u, k)' = Room(u, k)
      OBVIOUS
    <3>1. usage'[RowOf(u, k)] = usage[RowOf(u, k)] /\ usageW'[RowOf(u, k)] = usageW[RowOf(u, k)]
      BY <2>1 DEF Unmoved, Holds
    <3>2. \A g : Wrote(u, k, g)' <=> Wrote(u, k, g)
      <4> TAKE g
      <4>1. Image(u, k, g)' = Image(u, k, g) BY <1>1, <1>3, <3>1 DEF Image
      <4> QED BY <1>3, <2>2, <3>1, <4>1 DEF Wrote
    <3>3. Room(u, k)' = Room(u, k) BY <1>1, <1>3, <3>1 DEF Room
    <3> QED BY <3>2, <3>3
  <2>4. Len(tx[u].payers) \in {1, 2} /\ 1 \in K
    <3>1. Len(tx[u].payers) \in {1, 2} BY <1>2, <1>5, PayersOf
    <3> QED BY <3>1
  <2>5. (\A k \in K : Holds(u, k)) =>
          /\ First(u)' = First(u) /\ Rest(u)' = Rest(u)
          /\ \A k \in K : Share(u, k)' = Share(u, k)
    <3> SUFFICES ASSUME \A k \in K : Holds(u, k)
                 PROVE  /\ First(u)' = First(u) /\ Rest(u)' = Rest(u)
                        /\ \A k \in K : Share(u, k)' = Share(u, k)
      OBVIOUS
    <3>1. \A k \in K : Room(u, k)' = Room(u, k) BY <2>3
    <3>2. First(u)' = First(u) BY <1>1, <2>4, <3>1 DEF First
    <3>3. \A k \in K : Share(u, k)' = Share(u, k) BY <1>1, <3>1, <3>2 DEF Share
    <3>4. Len(tx[u].payers) = 2 => 2 \in K OBVIOUS
    <3>5. Rest(u)' = Rest(u) BY <1>1, <3>2, <3>3, <3>4 DEF Rest
    <3> QED BY <3>2, <3>3, <3>5
  <2>6. \A own, last : Paid(u, own, last)' <=> Paid(u, own, last)
    BY <1>1 DEF Unmoved, Paid, Part
  <2>7. ASSUME NEW own \in Nat, NEW last, Paid(u, own, last), MayGive(u, own) PROVE MayGive(u, own)'
    <3>1. CASE own > 0
      <4>1. Len(tx[u].payers) = 2 /\ own <= credit[tx[u].payers[1]].balance BY <2>7, <3>1 DEF MayGive
      <4>2. tx[u].payers[1] \in Account /\ tx[u].payers[1] # tx[u].payers[2]
        BY <1>2, <1>5, <4>1, PayersOf
      <4>3. creditLock[tx[u].payers[1]] = u
        BY <2>7, <3>1, <4>1, <4>2 DEF Paid, Part
      <4> QED BY <1>1, <4>1, <4>2, <4>3 DEF Unmoved, MayGive
    <3>2. CASE ~(own > 0) BY <3>2 DEF MayGive
    <3> QED BY <3>1, <3>2
  <2>8. Billed(u)' <=> Billed(u) BY <1>1 DEF Billed
  <2>9. Planned(u)' BY <1>1 DEF RunInv, Planned, Unmoved
  <2>10. OwnRows(u)' BY <1>1, <1>3 DEF RunInv, OwnRows, Unmoved
  <2>11. Recording(u)'
    BY <1>1, <2>2, <2>3 DEF RunInv, Recording, Wrote
  <2>12. FreeLoop(u)'
    <3> SUFFICES ASSUME tx[u].pc \in {"freeRead", "freeWrite"} PROVE FreeLoop(u)'
      BY <1>1 DEF FreeLoop
    <3>1. \A k \in K : Holds(u, k) BY DEF RunInv, FreeLoop, Wrote
    <3>2. First(u)' = First(u) /\ \A k \in K : Share(u, k)' = Share(u, k) BY <2>5, <3>1
    <3>3. \A k \in K : Wrote(u, k, IF k < tx[u].i THEN Share(u, k) ELSE 0)'
      <4> TAKE k \in K
      <4>1. Wrote(u, k, IF k < tx[u].i THEN Share(u, k) ELSE 0) BY DEF RunInv, FreeLoop
      <4> QED BY <1>1, <1>3, <2>1, <2>2, <3>1, <3>2, <4>1 DEF Wrote, Image, Unmoved, Holds
    <3> QED BY <1>1, <2>8, <3>2, <3>3 DEF RunInv, FreeLoop
  <2>13. CreditLoop(u)'
    <3> SUFFICES ASSUME tx[u].pc \in {"creditRead", "creditCas"} PROVE CreditLoop(u)'
      BY <1>1 DEF CreditLoop
    <3>1. \A k \in K : Holds(u, k) BY DEF RunInv, CreditLoop, Wrote
    <3>2. Rest(u)' = Rest(u) /\ \A k \in K : Share(u, k)' = Share(u, k) BY <2>5, <3>1
    <3>3. \A k \in K : Wrote(u, k, Share(u, k))'
      <4> TAKE k \in K
      <4>1. Wrote(u, k, Share(u, k)) BY DEF RunInv, CreditLoop
      <4> QED BY <1>1, <1>3, <2>1, <2>2, <3>1, <3>2, <4>1 DEF Wrote, Image, Unmoved, Holds
    <3>4. PICK own \in 0..Rest(u) : /\ tx[u].rem = Rest(u) - own
                                    /\ tx[u].i = 1 => own = 0
                                    /\ MayGive(u, own) /\ Paid(u, own, 0)
      <4>1. Drawing(u) BY DEF RunInv, CreditLoop
      <4> QED BY <4>1 DEF Drawing, Draws
    <3>6. own \in Nat BY <1>2, <1>5, <3>4, Shares
    <3>5. /\ tx'[u].rem = Rest(u)' - own /\ (tx'[u].i = 1 => own = 0)
          /\ MayGive(u, own)' /\ Paid(u, own, 0)'
      BY <1>1, <2>6, <2>7, <3>2, <3>4, <3>6
    <3>7. Draws(u, own)' BY <3>5 DEF Draws
    <3>8. Drawing(u)' BY <3>2, <3>4, <3>7 DEF Drawing
    <3> QED BY <1>1, <2>8, <3>3, <3>8 DEF RunInv, CreditLoop
  <2>14. AtCommit(u)'
    <3> SUFFICES ASSUME tx[u].pc = "commit" PROVE AtCommit(u)'
      BY <1>1 DEF AtCommit
    <3>1. CASE Billed(u)
      <4>1. \A k \in K : Wrote(u, k, Share(u, k)) BY <3>1 DEF RunInv, AtCommit
      <4>2. \A k \in K : Holds(u, k) BY <4>1 DEF Wrote
      <4>3. Rest(u)' = Rest(u) /\ \A k \in K : Share(u, k)' = Share(u, k) BY <2>5, <4>2
      <4>4. \A k \in K : Wrote(u, k, Share(u, k))'
        BY <1>1, <1>3, <2>1, <2>2, <4>1, <4>2, <4>3 DEF Wrote, Image, Unmoved, Holds
      <4>5. PICK own \in 0..Rest(u) : MayGive(u, own) /\ Paid(u, own, Rest(u) - own)
        <5>1. Drawn(u) BY <3>1 DEF RunInv, AtCommit
        <5> QED BY <5>1 DEF Drawn
      <4>6. Rest(u) \in Nat BY <1>2, <1>5, Shares
      <4>7. own \in Nat BY <4>5, <4>6
      <4>8. MayGive(u, own)' BY <2>7, <4>5, <4>7
      <4>9. Paid(u, own, Rest(u) - own)' BY <1>1, <4>3, <4>5 DEF Paid, Part, Unmoved
      <4>10. Drawn(u)' BY <4>3, <4>5, <4>8, <4>9 DEF Drawn
      <4> QED BY <1>1, <2>8, <3>1, <4>4, <4>10 DEF AtCommit
    <3>2. CASE ~Billed(u)
      <4>1. \A k \in K : Wrote(u, k, 0) BY <3>2 DEF RunInv, AtCommit
      <4>2. \A k \in K : Wrote(u, k, 0)' BY <2>3, <4>1 DEF Wrote
      <4>3. \A a \in Account : creditLock'[a] # u BY <3>2 DEF RunInv, AtCommit, Unmoved
      <4> QED BY <1>1, <2>8, <3>2, <4>2, <4>3 DEF AtCommit
    <3> QED BY <3>1, <3>2
  <2> QED BY <2>9, <2>10, <2>11, <2>12, <2>13, <2>14 DEF RunInv
<1> QED BY <1>4, <1>5

\* So does an edit.
LEMMA EditUnmoved ==
  ASSUME NEW u \in Edits, EditInv(u), Unmoved(u)
  PROVE  EditInv(u)'
BY DEF EditInv, Unmoved

----------------------------------------------------------------------------
\* The steps of a run, before and inside its settlement.

\* A statement of t changes neither the plan nor what is committed.
Steady(t) ==
  /\ tx'[t].payers = tx[t].payers /\ tx'[t].day = tx[t].day /\ tx'[t].need = tx[t].need
  /\ tx'[t].cap = tx[t].cap /\ tx'[t].bill = tx[t].bill
  /\ usage' = usage /\ credit' = credit /\ limit' = limit

\* So the shares are what they were.
LEMMA SteadyKeeps ==
  ASSUME NEW t, Steady(t)
  PROVE  /\ \A k : RowOf(t, k)' = RowOf(t, k) /\ Share(t, k)' = Share(t, k)
         /\ \A k, g : Image(t, k, g)' = Image(t, k, g)
         /\ First(t)' = First(t) /\ Rest(t)' = Rest(t) /\ (Billed(t)' <=> Billed(t))
         /\ \A own : MayGive(t, own)' <=> MayGive(t, own)
         /\ \A own, last, a : Part(t, own, last, a)' = Part(t, own, last, a)
<1>1. \A k : RowOf(t, k)' = RowOf(t, k) BY DEF Steady, RowOf
<1>2. \A k : Room(t, k)' = Room(t, k) BY <1>1 DEF Steady, Room
<1>3. First(t)' = First(t) BY <1>2 DEF Steady, First
<1>4. \A k : Share(t, k)' = Share(t, k) BY <1>2, <1>3 DEF Steady, Share
<1>5. Rest(t)' = Rest(t) BY <1>3, <1>4 DEF Steady, Rest
<1>6. \A k, g : Image(t, k, g)' = Image(t, k, g) BY <1>1 DEF Steady, Image
<1>7. Billed(t)' <=> Billed(t) BY DEF Steady, Billed
<1>8. \A own : MayGive(t, own)' <=> MayGive(t, own) BY DEF Steady, MayGive
<1>9. \A own, last, a : Part(t, own, last, a)' = Part(t, own, last, a) BY DEF Steady, Part
<1> QED BY <1>1, <1>3, <1>4, <1>5, <1>6, <1>7, <1>8, <1>9

\* The plan stays as long as the transaction is open.
LEMMA SteadyPlanned ==
  ASSUME NEW t \in Runs, Steady(t), Planned(t), tx[t].pc \in InTx
  PROVE  Planned(t)'
<1>1. tx[t].pc # "idle" BY DEF InTx
<1> QED BY <1>1 DEF Planned, Steady

\* A row's image stays written when neither lock nor image move.
LEMMA SteadyWrote ==
  ASSUME NEW t \in Runs, Steady(t), NEW k, NEW g, Wrote(t, k, g),
         usageLock'[RowOf(t, k)] = usageLock[RowOf(t, k)], usageW'[RowOf(t, k)] = usageW[RowOf(t, k)]
  PROVE  Wrote(t, k, g)'
BY SteadyKeeps DEF Wrote, Holds

\* Before a run settles it owns nothing.
LEMMA RefStart ==
  ASSUME TypeInv, NEW t \in Runs, RunInv(t), FirstInv(t)',
         (\E s \in Subjects : Start(t, s)) \/ RunFails(t)
  PROVE  RunInv(t)'
<1>1. tx \in [Txn -> TxState] /\ t \in Txn BY DEF TypeInv, TypeOK, Txn
<1>2. UNCHANGED rows /\ tx[t].pc \in {"idle", "running"} BY DEF Start, RunFails
<1>3. /\ tx'[t].pc \in {"running", "failed"} /\ tx'[t].payers \in Subjects
  <2>1. CASE RunFails(t)
    <3>1. tx'[t].pc = "failed" /\ tx'[t].payers = tx[t].payers BY <1>1, <2>1 DEF RunFails, TxState
    <3>2. tx[t].payers \in Subjects BY <2>1 DEF RunFails, RunInv, Planned
    <3> QED BY <3>1, <3>2
  <2>2. ASSUME NEW s \in Subjects, Start(t, s)
        PROVE  tx'[t].pc \in {"running", "failed"} /\ tx'[t].payers \in Subjects
    <3>1. tx'[t].pc = "running" /\ tx'[t].payers = s BY <1>1, <2>2 DEF Start, TxState
    <3> QED BY <3>1
  <2> QED BY <2>1, <2>2
<1>4. (\A r \in Row : usageLock'[r] # t) /\ \A a \in Account : creditLock'[a] # t
  BY <1>2 DEF RunInv, OwnRows, rows, InTx
<1> QED
  BY <1>3, <1>4 DEF RunInv, Planned, OwnRows, Recording, FreeLoop, CreditLoop, AtCommit, InTx

\* settle fixes limits, day and exemption.
LEMMA RefSettle ==
  ASSUME TypeInv, Images, NEW t \in Runs, RunInv(t), FirstInv(t)',
         NEW n \in 0..MaxTokens, Settle(t, n)
  PROVE  RunInv(t)'
<1>1. tx \in [Txn -> TxState] /\ t \in Txn BY DEF TypeInv, TypeOK, Txn
<1>2. UNCHANGED rows /\ limit' = limit /\ tx[t].pc = "running" BY DEF Settle
<1>3. /\ tx'[t].pc = "record" /\ tx'[t].payers = tx[t].payers /\ tx'[t].cap = limit
      /\ tx'[t].day = today /\ (tx'[t].bill <=> tx[t].payers \notin Exempt)
      /\ tx'[t].need = n /\ tx'[t].rem = n /\ tx'[t].i = 1
  BY <1>1 DEF Settle, TxState
<1>4. tx[t].payers \in Subjects BY <1>2 DEF RunInv, Planned
<1>5. (\A r \in Row : usageLock'[r] # t) /\ \A a \in Account : creditLock'[a] # t
  BY <1>2 DEF RunInv, OwnRows, rows, InTx
<1>6. \A k \in 1..Len(tx[t].payers) : RowOf(t, k)' \in Row
  <2>1. \A k \in 1..Len(tx[t].payers) : tx[t].payers[k] \in Account BY <1>4, PayersOf
  <2>2. today \in Day BY DEF TypeInv, TypeOK
  <2> QED BY <1>3, <2>1, <2>2 DEF RowOf, Row
<1>7. Planned(t)' BY <1>2, <1>3, <1>4 DEF Planned, Images
<1>8. Recording(t)'
  <2>1. \A k \in 1..Len(tx[t].payers) : Holds(t, k)' = FALSE BY <1>5, <1>6 DEF Holds
  <2>2. \A k \in 1..Len(tx[t].payers) : ~(k < 1) OBVIOUS
  <2> QED BY <1>3, <2>1, <2>2 DEF Recording
<1> QED
  BY <1>3, <1>5, <1>7, <1>8 DEF RunInv, OwnRows, FreeLoop, CreditLoop, AtCommit

\* record_usage: one more row is locked, with the run's tokens.
LEMMA RefRecord ==
  ASSUME TypeInv, Images, NEW t \in Runs, RunInv(t), FirstInv(t)', RecordUsage(t)
  PROVE  RunInv(t)'
<1> DEFINE N == Len(tx[t].payers)
           r == PayerRow(t)
<1>1. /\ tx \in [Txn -> TxState] /\ t \in Txn /\ t # None
      /\ usage \in [Row -> UsageRow] /\ usageW \in [Row -> UsageRow]
      /\ usageLock \in [Row -> Txn \cup {None}]
  BY TxnsDisjoint DEF TypeInv, TypeOK, Txn
<1>2. tx[t].pc = "record" /\ tx[t].payers \in Subjects /\ tx[t].pc \in InTx
  BY DEF RecordUsage, RunInv, Planned, InTx
<1>3. /\ N \in {1, 2} /\ \A k \in 1..N : RowOf(t, k) \in Row
      /\ N = 2 => RowOf(t, 1) # RowOf(t, 2)
  BY <1>2, PayersOf
<1>4. tx[t].i \in 1..N /\ tx[t].i \in Nat
  BY <1>1, <1>2, <1>3 DEF TypeInv, PointsAtPayer, Charging
<1> PICK i \in 1..N : i = tx[t].i BY <1>4
<1>5. r = RowOf(t, i) /\ r \in Row BY <1>3 DEF PayerRow, Payer, RowOf
<1> HIDE DEF r
<1>6. /\ Steady(t) /\ UNCHANGED <<credit, creditW, creditLock>>
      /\ tx'[t].rem = tx[t].rem
      /\ tx'[t].pc = IF ~LastPayer(t) THEN "record"
                     ELSE IF tx[t].bill /\ tx[t].rem > 0 THEN "freeRead" ELSE "commit"
      /\ tx'[t].i = IF LastPayer(t) THEN 1 ELSE i + 1
  BY <1>1 DEF RecordUsage, Steady, TxState
<1>7. /\ usageLock'[r] = t /\ \A q \in Row : q # r => usageLock'[q] = usageLock[q] /\ usageW'[q] = usageW[q]
      /\ usageLock[r] \in {t, None}
  BY <1>1, <1>5 DEF RecordUsage, MayWriteUsage, r
<1>8. usageW'[r] = [usageW[r] EXCEPT !.tokens = @ + tx[t].need]
  BY <1>1, <1>5 DEF RecordUsage, r
<1>9. tx[t].rem = tx[t].need /\ \A k \in 1..N : IF k < i THEN Wrote(t, k, 0) ELSE ~Holds(t, k)
  BY <1>2 DEF RunInv, Recording
<1>10. usageW[r] = usage[r] /\ usage[r] \in UsageRow /\ tx[t].need \in Nat
  <2>1. usageLock[r] # t BY <1>4, <1>5, <1>9 DEF Holds
  <2> QED BY <1>1, <1>5, <1>7, <2>1 DEF Images, TxState
<1>11. usageW'[r] = Image(t, i, 0)
  <2>1. usage[r] = [free |-> usage[r].free, tokens |-> usage[r].tokens] /\ usage[r].free \in Nat
    BY <1>10 DEF UsageRow
  <2>2. usageW'[r] = [free |-> usage[r].free, tokens |-> usage[r].tokens + tx[t].need]
    BY <1>8, <1>10 DEF UsageRow
  <2>3. usage[r].free + 0 = usage[r].free BY <2>1
  <2> QED BY <1>5, <2>2, <2>3 DEF Image
<1>12. Wrote(t, i, 0)'
  <2>1. RowOf(t, i)' = r /\ Image(t, i, 0)' = Image(t, i, 0)
    <3>1. /\ \A k : RowOf(t, k)' = RowOf(t, k)
          /\ \A k, g : Image(t, k, g)' = Image(t, k, g)
      BY <1>6, SteadyKeeps
    <3> QED BY <1>5, <3>1
  <2> QED BY <1>7, <1>11, <2>1 DEF Wrote, Holds
<1>13. \A k \in 1..N : k # i => RowOf(t, k) # r
  <2> TAKE k \in 1..N
  <2> HAVE k # i
  <2> HIDE DEF N
  <2>1. N = 2 /\ ((k = 1 /\ i = 2) \/ (k = 2 /\ i = 1)) BY <1>3, <1>4
  <2> QED BY <1>3, <1>5, <2>1
<1>14. \A k \in 1..N : k < i => Wrote(t, k, 0)'
  <2> TAKE k \in 1..N
  <2> HAVE k < i
  <2>1. RowOf(t, k) # r /\ RowOf(t, k) \in Row BY <1>3, <1>13
  <2> QED BY <1>6, <1>7, <1>9, <2>1, SteadyWrote
<1>15. \A k \in 1..N : k > i => ~Holds(t, k)'
  <2> TAKE k \in 1..N
  <2> HAVE k > i
  <2>1. RowOf(t, k) # r /\ RowOf(t, k) \in Row BY <1>3, <1>13
  <2>2. RowOf(t, k)' = RowOf(t, k) BY <1>6, SteadyKeeps
  <2>3. ~Holds(t, k) BY <1>4, <1>9
  <2> QED BY <1>7, <2>1, <2>2, <2>3 DEF Holds
<1>16. Planned(t)' BY <1>2, <1>6, SteadyPlanned DEF RunInv
<1>17. \A a \in Account : creditLock'[a] # t BY <1>2, <1>6 DEF RunInv, OwnRows
<1>18. OwnRows(t)'
  <2>1. \A q \in Row : usageLock'[q] = t => \E k \in 1..N : q = RowOf(t, k)
    BY <1>4, <1>5, <1>7 DEF RunInv, OwnRows
  <2>2. tx'[t].payers = tx[t].payers /\ \A k : RowOf(t, k)' = RowOf(t, k) BY <1>6, SteadyKeeps DEF Steady
  <2>3. tx'[t].pc \in InTx BY <1>6 DEF InTx
  <2> QED BY <1>17, <2>1, <2>2, <2>3 DEF OwnRows
<1>19. CASE ~LastPayer(t)
  <2>1. /\ tx'[t].pc = "record" /\ tx'[t].i = i + 1 /\ tx'[t].rem = tx'[t].need
        /\ tx'[t].payers = tx[t].payers
    BY <1>6, <1>9, <1>19 DEF Steady
  <2>2. \A k \in 1..N : IF k < i + 1 THEN Wrote(t, k, 0)' ELSE ~Holds(t, k)'
    <3> TAKE k \in 1..N
    <3> HIDE DEF N
    <3>1. CASE k > i
      <4>1. ~(k < i + 1) BY <1>4, <3>1
      <4> QED BY <1>15, <3>1, <4>1
    <3>2. CASE ~(k > i)
      <4>1. k < i + 1 /\ (k = i \/ k < i) BY <1>4, <3>2
      <4>2. Wrote(t, k, 0)' BY <1>12, <1>14, <4>1
      <4> QED BY <4>1, <4>2
    <3> QED BY <3>1, <3>2
  <2>3. Recording(t)' BY <2>1, <2>2 DEF Recording
  <2> QED BY <1>16, <1>18, <2>1, <2>3 DEF RunInv, FreeLoop, CreditLoop, AtCommit
<1>20. CASE LastPayer(t)
  <2>1. tx'[t].payers = tx[t].payers /\ tx'[t].bill = tx[t].bill /\ tx'[t].need = tx[t].need
    BY <1>6 DEF Steady
  <2>2. i = N BY <1>20 DEF LastPayer
  <2>3. \A k \in 1..N : Wrote(t, k, 0)'
    <3> TAKE k \in 1..N
    <3> HIDE DEF N
    <3>1. k = i \/ k < i BY <1>3, <2>2
    <3> QED BY <1>12, <1>14, <3>1
  <2>4. CASE tx[t].bill /\ tx[t].rem > 0
    <3>1. tx'[t].pc = "freeRead" /\ tx'[t].i = 1 BY <1>6, <1>20, <2>4
    <3>2. tx'[t].rem = tx'[t].need - 0 BY <1>6, <1>9, <1>10, <2>1
    <3>3. \A k \in 1..N : ~(k < 1) OBVIOUS
    <3>4. FreeLoop(t)' BY <1>6, <2>1, <2>3, <2>4, <3>1, <3>2, <3>3 DEF FreeLoop
    <3> QED BY <1>16, <1>18, <3>1, <3>4 DEF RunInv, Recording, CreditLoop, AtCommit
  <2>5. CASE ~(tx[t].bill /\ tx[t].rem > 0)
    <3>1. tx'[t].pc = "commit" BY <1>6, <1>20, <2>5
    <3>2. CASE ~Billed(t)
      <4>1. ~Billed(t)' BY <1>6, <3>2, SteadyKeeps
      <4>2. AtCommit(t)' BY <1>17, <2>1, <2>3, <4>1 DEF AtCommit
      <4> QED BY <1>16, <1>18, <3>1, <4>2 DEF RunInv, Recording, CreditLoop, FreeLoop
    <3>3. CASE Billed(t)
      <4>1. tx[t].need = 0 BY <1>9, <1>10, <2>5, <3>3 DEF Billed
      <4>2. /\ First(t) \in 0..0 /\ Share(t, 1) = First(t) /\ (N = 2 => Share(t, 2) \in 0..(0 - First(t)))
        BY <1>2, <4>1, Shares
      <4>3. First(t) = 0 /\ Share(t, 1) = 0 /\ (N = 2 => Share(t, 2) = 0) BY <4>2
      <4>4. \A k \in 1..N : Share(t, k) = 0
        <5> TAKE k \in 1..N
        <5> HIDE DEF N
        <5>1. k = 1 \/ (k = 2 /\ N = 2) BY <1>3
        <5> QED BY <4>3, <5>1
      <4>5. Rest(t) = 0 BY <1>3, <4>1, <4>3 DEF Rest
      <4>6. /\ \A k : Share(t, k)' = Share(t, k)
            /\ Rest(t)' = 0 /\ Billed(t)'
        BY <1>6, <3>3, <4>5, SteadyKeeps
      <4>7. \A k \in 1..N : Wrote(t, k, Share(t, k))' BY <2>3, <4>4, <4>6 DEF Wrote
      <4>8. MayGive(t, 0)' /\ Paid(t, 0, 0)' BY <1>17 DEF MayGive, Paid, Part
      <4>9. Drawn(t)' BY <4>6, <4>8 DEF Drawn
      <4>10. AtCommit(t)' BY <2>1, <4>6, <4>7, <4>9 DEF AtCommit
      <4> QED BY <1>16, <1>18, <3>1, <4>10 DEF RunInv, Recording, CreditLoop, FreeLoop
    <3> QED BY <3>2, <3>3
  <2> QED BY <2>4, <2>5
<1> QED BY <1>19, <1>20

\* A statement on the rows of t leaves it the owner of the same rows.
LEMMA SteadyOwns ==
  ASSUME NEW t \in Runs, Steady(t), OwnRows(t), usageLock' = usageLock, tx'[t].pc \in InTx,
         \A a \in Account : creditLock'[a] = t => tx'[t].pc \in {"creditRead", "creditCas", "commit"}
  PROVE  OwnRows(t)'
<1>1. \A k : RowOf(t, k)' = RowOf(t, k) BY SteadyKeeps
<1> QED BY <1>1 DEF OwnRows, Steady

\* The free loop has taken payer i's share and goes on, to the next payer, to
\* the balances, or to the end.
LEMMA FreeOn ==
  ASSUME TypeInv, NEW t \in Runs, RunInv(t), FirstInv(t)', tx[t].pc \in {"freeRead", "freeWrite"},
         Steady(t), creditLock' = creditLock, usageLock' = usageLock, Billed(t),
         NEW i \in 1..Len(tx[t].payers), i = tx[t].i,
         NEW left, left = tx[t].rem - Share(t, i), FreeGoesOn(t, left),
         Wrote(t, i, Share(t, i))',
         \A q \in Row : q # RowOf(t, i) => usageW'[q] = usageW[q]
  PROVE  RunInv(t)'
<1> DEFINE N == Len(tx[t].payers)
<1>1. tx \in [Txn -> TxState] /\ t \in Txn BY DEF TypeInv, TypeOK, Txn
<1>2. tx[t].pc \in InTx /\ tx[t].payers \in Subjects BY DEF RunInv, Planned, InTx
<1>3. /\ N \in {1, 2} /\ \A k \in 1..N : RowOf(t, k) \in Row
      /\ N = 2 => RowOf(t, 1) # RowOf(t, 2)
  BY <1>2, PayersOf
<1>4. /\ First(t) \in 0..tx[t].need /\ Share(t, 1) = First(t) /\ tx[t].need \in Nat
      /\ N = 2 => Share(t, 2) \in 0..(tx[t].need - First(t))
  BY <1>2, Shares
<1>5. /\ tx[t].bill /\ tx[t].rem > 0
      /\ tx[t].rem = tx[t].need - (IF tx[t].i = 1 THEN 0 ELSE First(t))
      /\ \A k \in 1..N : Wrote(t, k, IF k < i THEN Share(t, k) ELSE 0)
  BY DEF RunInv, FreeLoop
<1>6. /\ tx'[t].rem = left
      /\ tx'[t].pc = IF left = 0 THEN "commit" ELSE IF LastPayer(t) THEN "creditRead" ELSE "freeRead"
      /\ tx'[t].i = IF LastPayer(t) THEN 1 ELSE i + 1
  BY <1>1 DEF FreeGoesOn, TxState
<1>7. /\ \A k : RowOf(t, k)' = RowOf(t, k) /\ Share(t, k)' = Share(t, k)
      /\ First(t)' = First(t) /\ Rest(t)' = Rest(t) /\ Billed(t)'
      /\ tx'[t].payers = tx[t].payers /\ tx'[t].need = tx[t].need /\ tx'[t].bill
  BY <1>5, SteadyKeeps DEF Steady
<1>8. (LastPayer(t) <=> i = N) /\ i \in 1..N BY DEF LastPayer
<1> HIDE DEF N
<1>9. (i = 1 /\ N \in {1, 2}) \/ (i = 2 /\ N = 2) BY <1>3, <1>8
<1>10. left \in Nat BY <1>4, <1>5, <1>9
<1>11. \A k \in 1..N : Wrote(t, k, IF k <= i THEN Share(t, k) ELSE 0)'
  <2> SUFFICES ASSUME NEW k \in 1..N PROVE Wrote(t, k, IF k <= i THEN Share(t, k) ELSE 0)'
    OBVIOUS
  <2>1. CASE k = i BY <2>1
  <2>2. CASE k # i
    <3>1. RowOf(t, k) # RowOf(t, i) /\ RowOf(t, k) \in Row
      <4>1. N = 2 /\ ((k = 1 /\ i = 2) \/ (k = 2 /\ i = 1)) BY <1>3, <1>9, <2>2
      <4> QED BY <1>3, <4>1
    <3>2. (k < i <=> k <= i) BY <1>9, <2>2
    <3>3. Wrote(t, k, IF k <= i THEN Share(t, k) ELSE 0) BY <1>5, <3>2
    <3>4. \A g : Wrote(t, k, g) => Wrote(t, k, g)'
      <4> TAKE g
      <4> HAVE Wrote(t, k, g)
      <4>1. usageW'[RowOf(t, k)] = usageW[RowOf(t, k)] BY <3>1
      <4> QED BY <4>1, SteadyWrote
    <3> QED BY <1>7, <3>3, <3>4
  <2> QED BY <2>1, <2>2
<1>12. \A a \in Account : creditLock'[a] # t BY DEF RunInv, OwnRows
<1>13. Planned(t)' BY <1>2, SteadyPlanned DEF RunInv
<1>14. OwnRows(t)'
  <2>1. tx'[t].pc \in InTx BY <1>6 DEF InTx
  <2> QED BY <1>12, <2>1, SteadyOwns DEF RunInv
<1>15. MayGive(t, 0)' /\ Paid(t, 0, 0)' BY <1>12 DEF MayGive, Paid, Part
<1>16. CASE left = 0
  <2>1. N = 2 /\ i = 1 => Share(t, 2) = 0 BY <1>4, <1>5, <1>9, <1>16
  <2>2. Rest(t) = 0 BY <1>4, <1>5, <1>9, <1>16, <2>1 DEF Rest, N
  <2>3. \A k \in 1..N : Wrote(t, k, Share(t, k))'
    <3> TAKE k \in 1..N
    <3>1. (IF k <= i THEN Share(t, k) ELSE 0) = Share(t, k)
      <4>1. k <= i \/ (k = 2 /\ N = 2 /\ i = 1) BY <1>9
      <4> QED BY <1>9, <2>1, <4>1
    <3> QED BY <1>7, <1>11, <3>1
  <2>4. 0 \in 0..Rest(t)' /\ Rest(t)' - 0 = 0 BY <1>7, <2>2
  <2>5. Drawn(t)' BY <1>15, <2>4 DEF Drawn
  <2>6. AtCommit(t)' BY <1>7, <2>3, <2>5 DEF AtCommit, N
  <2> QED
    BY <1>6, <1>13, <1>14, <1>16, <2>6 DEF RunInv, Recording, FreeLoop, CreditLoop
<1>17. CASE left # 0 /\ i # N
  <2>1. i = 1 /\ N = 2 BY <1>9, <1>17
  <2>2. tx'[t].pc = "freeRead" /\ tx'[t].i = 2 /\ tx'[t].rem = tx[t].need - First(t)
    BY <1>4, <1>5, <1>6, <1>8, <1>17, <2>1
  <2>3. \A k \in 1..N : Wrote(t, k, IF k < 2 THEN Share(t, k) ELSE 0)'
    <3> TAKE k \in 1..N
    <3>1. k < 2 <=> k <= i BY <2>1
    <3> QED BY <1>11, <3>1
  <2>4. tx'[t].rem > 0 BY <1>6, <1>10, <1>17
  <2>5. FreeLoop(t)' BY <1>7, <2>2, <2>3, <2>4 DEF FreeLoop, N
  <2> QED BY <1>13, <1>14, <2>2, <2>5 DEF RunInv, Recording, CreditLoop, AtCommit
<1>18. CASE left # 0 /\ i = N
  <2>1. tx'[t].pc = "creditRead" /\ tx'[t].i = 1 /\ tx'[t].rem = left
    BY <1>6, <1>8, <1>18
  <2>2. Rest(t) = left
    <3>1. Rest(t) = tx[t].need - First(t) - (IF N = 2 THEN Share(t, 2) ELSE 0) BY DEF Rest, N
    <3> QED BY <1>4, <1>5, <1>9, <1>18, <3>1
  <2>3. \A k \in 1..N : Wrote(t, k, Share(t, k))'
    <3> TAKE k \in 1..N
    <3>1. k <= i BY <1>9, <1>18
    <3> QED BY <1>7, <1>11, <3>1
  <2>4. 0 \in 0..Rest(t)' /\ tx'[t].rem = Rest(t)' - 0 BY <1>7, <1>10, <2>1, <2>2
  <2>5. Drawing(t)'
    <3>1. Draws(t, 0)' BY <1>15, <2>4 DEF Draws
    <3> QED BY <2>4, <3>1 DEF Drawing
  <2>6. tx'[t].rem > 0
    <3>1. left > 0
      <4> \A x \in Nat : x # 0 => x > 0 OBVIOUS
      <4> QED BY <1>10, <1>18
    <3> QED BY <2>1, <3>1
  <2>7. CreditLoop(t)' BY <1>7, <2>3, <2>5, <2>6 DEF CreditLoop, N
  <2> QED BY <1>13, <1>14, <2>1, <2>7 DEF RunInv, Recording, FreeLoop, AtCommit
<1> QED BY <1>16, <1>17, <1>18

\* What the free loop knows of the payer it looks at.
LEMMA FreePayer ==
  ASSUME TypeInv, NEW t \in Runs, RunInv(t), tx[t].pc \in {"freeRead", "freeWrite"},
         NEW i, i = tx[t].i
  PROVE  /\ i \in 1..Len(tx[t].payers) /\ Payer(t) = tx[t].payers[i]
         /\ PayerRow(t) = RowOf(t, i) /\ RowOf(t, i) \in Row
         /\ Wrote(t, i, 0) /\ usageLock[RowOf(t, i)] = t
         /\ usageW[RowOf(t, i)].free = usage[RowOf(t, i)].free /\ usage[RowOf(t, i)].free \in Nat
         /\ tx[t].cap[Payer(t)] \in Limit /\ tx[t].rem \in Nat
         /\ i = 2 => Billed(t) /\ tx[t].cap[Payer(t)] # Unlimited
         /\ tx[t].cap[Payer(t)] # Unlimited => Billed(t)
         /\ Share(t, i) = Lesser(tx[t].rem, Room(t, i))
<1>1. /\ t \in Txn /\ tx[t].cap \in [Account -> Limit] /\ tx[t].rem \in Nat
      /\ usage \in [Row -> UsageRow]
  BY DEF TypeInv, TypeOK, Txn, TxState
<1>2. tx[t].pc \in InTx /\ tx[t].payers \in Subjects BY DEF RunInv, Planned, InTx
<1>3. i \in 1..Len(tx[t].payers) BY <1>1 DEF TypeInv, PointsAtPayer, Charging
<1>4. /\ Len(tx[t].payers) \in {1, 2} /\ tx[t].payers[i] \in Account /\ RowOf(t, i) \in Row
      /\ Len(tx[t].payers) = 2 => tx[t].payers[2] \in Chats
  BY <1>2, <1>3, PayersOf
<1>5. Payer(t) = tx[t].payers[i] /\ PayerRow(t) = RowOf(t, i) BY DEF Payer, PayerRow, RowOf
<1>6. /\ tx[t].bill /\ (tx[t].i = 2 => Billed(t))
      /\ tx[t].rem = tx[t].need - (IF tx[t].i = 1 THEN 0 ELSE First(t))
      /\ \A k \in 1..Len(tx[t].payers) : Wrote(t, k, IF k < tx[t].i THEN Share(t, k) ELSE 0)
  BY DEF RunInv, FreeLoop
<1>7. Wrote(t, i, 0)
  <2>1. ~(i < i) BY <1>3
  <2> QED BY <1>3, <1>6, <2>1
<1>8. usage[RowOf(t, i)].free \in Nat BY <1>1, <1>4 DEF UsageRow
<1>9. usageW[RowOf(t, i)].free = usage[RowOf(t, i)].free /\ usageLock[RowOf(t, i)] = t
  <2>1. usageW[RowOf(t, i)].free = usage[RowOf(t, i)].free + 0 BY <1>7 DEF Wrote, Image
  <2> QED BY <1>7, <1>8, <2>1 DEF Wrote, Holds
<1>10. (i = 1) \/ (i = 2 /\ Len(tx[t].payers) = 2)
  <2> DEFINE N == Len(tx[t].payers)
  <2>1. i \in 1..N /\ N \in {1, 2} BY <1>3, <1>4
  <2> HIDE DEF N
  <2>2. i = 1 \/ (i = 2 /\ N = 2) BY <2>1
  <2> QED BY <2>2 DEF N
<1>11. i = 2 => Billed(t) /\ tx[t].cap[Payer(t)] # Unlimited
  <2> SUFFICES ASSUME i = 2 PROVE Billed(t) /\ tx[t].cap[Payer(t)] # Unlimited
    OBVIOUS
  <2>1. Payer(t) \in Chats BY <1>4, <1>5, <1>10
  <2>2. tx[t].cap[Payer(t)] \in ChatLimits \cup {0} BY <1>2, <2>1 DEF RunInv, Planned
  <2> QED BY <1>6, <2>2, BoundsOK DEF Unlimited
<1>12. tx[t].cap[Payer(t)] # Unlimited => Billed(t)
  BY <1>5, <1>6, <1>10, <1>11 DEF Billed
<1>13. Share(t, i) = Lesser(tx[t].rem, Room(t, i))
  <2>1. CASE i = 1
    <3>1. tx[t].need \in Nat BY <1>1 DEF TypeInv, TypeOK, TxState
    <3>2. tx[t].rem = tx[t].need BY <1>6, <2>1, <3>1
    <3>3. Share(t, i) = First(t) BY <2>1 DEF Share
    <3> QED BY <2>1, <3>2, <3>3 DEF First
  <2>2. CASE i = 2
    <3>1. tx[t].rem = tx[t].need - First(t) BY <1>6, <2>2
    <3> QED BY <2>2, <3>1 DEF Share
  <2> QED BY <1>10, <2>1, <2>2
<1> QED BY <1>1, <1>3, <1>4, <1>5, <1>7, <1>8, <1>9, <1>11, <1>12, <1>13

\* spend_free's SELECT.
LEMMA RefFreeRead ==
  ASSUME TypeInv, NEW t \in Runs, RunInv(t), FirstInv(t)', FreeRead(t)
  PROVE  RunInv(t)'
<1> DEFINE N == Len(tx[t].payers)
           cap == tx[t].cap[Payer(t)]
           now == UsageSeen(t, PayerRow(t)).free
<1>1. tx \in [Txn -> TxState] /\ t \in Txn BY DEF TypeInv, TypeOK, Txn
<1>2. tx[t].pc = "freeRead" /\ tx[t].pc \in InTx BY DEF FreeRead, InTx
<1> PICK i : i = tx[t].i OBVIOUS
<1>3. /\ i \in 1..N /\ Payer(t) = tx[t].payers[i] /\ PayerRow(t) = RowOf(t, i) /\ RowOf(t, i) \in Row
      /\ Wrote(t, i, 0) /\ usageLock[RowOf(t, i)] = t
      /\ usageW[RowOf(t, i)].free = usage[RowOf(t, i)].free /\ usage[RowOf(t, i)].free \in Nat
      /\ cap \in Limit /\ tx[t].rem \in Nat
      /\ i = 2 => Billed(t) /\ cap # Unlimited
      /\ cap # Unlimited => Billed(t)
      /\ Share(t, i) = Lesser(tx[t].rem, Room(t, i))
  BY <1>2, FreePayer
<1>4. now = usage[RowOf(t, i)].free BY <1>3 DEF UsageSeen
<1>5. UNCHANGED rows BY DEF FreeRead
<1>6. Steady(t) BY <1>1, <1>5 DEF FreeRead, FreeGoesOn, Steady, rows, TxState
<1>7. /\ \A k : RowOf(t, k)' = RowOf(t, k) /\ Share(t, k)' = Share(t, k)
      /\ First(t)' = First(t) /\ (Billed(t)' <=> Billed(t))
      /\ tx'[t].payers = tx[t].payers /\ tx'[t].need = tx[t].need /\ tx'[t].bill = tx[t].bill
  BY <1>6, SteadyKeeps DEF Steady
<1>8. /\ tx[t].bill /\ tx[t].rem > 0 /\ (tx[t].i = 2 => Billed(t))
      /\ tx[t].rem = tx[t].need - (IF tx[t].i = 1 THEN 0 ELSE First(t))
      /\ \A k \in 1..N : Wrote(t, k, IF k < i THEN Share(t, k) ELSE 0)
  BY <1>2 DEF RunInv, FreeLoop
<1>9. \A k, g : Wrote(t, k, g) => Wrote(t, k, g)'
  <2> TAKE k, g
  <2> HAVE Wrote(t, k, g)
  <2>1. /\ usageLock'[RowOf(t, k)] = usageLock[RowOf(t, k)]
        /\ usageW'[RowOf(t, k)] = usageW[RowOf(t, k)]
    BY <1>5 DEF rows
  <2> QED BY <1>6, <2>1, SteadyWrote
<1>10. Planned(t)' BY <1>2, <1>6, SteadyPlanned DEF RunInv
<1>11. \A a \in Account : creditLock'[a] # t BY <1>2, <1>5 DEF RunInv, OwnRows, rows
<1>12. tx'[t].pc \in InTx BY <1>1 DEF FreeRead, FreeGoesOn, InTx, TxState
<1>13. OwnRows(t)' BY <1>5, <1>6, <1>11, <1>12, SteadyOwns DEF RunInv, rows
<1>14. CASE cap = Unlimited /\ tx' = [tx EXCEPT ![t].pc = "commit"]
  <2>1. tx'[t].pc = "commit" BY <1>1, <1>14 DEF TxState
  <2>2. i = 1
    <3>1. Len(tx[t].payers) \in {1, 2} BY <1>1, <1>2 DEF TypeInv, PointsAtPayer, Charging
    <3>2. i # 2 BY <1>3, <1>14
    <3> HIDE DEF cap
    <3> QED BY <1>3, <3>1, <3>2
  <2>3. ~Billed(t)' BY <1>3, <1>7, <1>14, <2>2 DEF Billed
  <2>4. \A k \in 1..N : Wrote(t, k, 0)'
    <3> TAKE k \in 1..N
    <3>1. ~(k < i) BY <2>2
    <3> QED BY <1>8, <1>9, <3>1
  <2>5. AtCommit(t)' BY <1>7, <1>11, <2>3, <2>4 DEF AtCommit
  <2> QED BY <1>10, <1>13, <2>1, <2>5 DEF RunInv, Recording, FreeLoop, CreditLoop
<1>15. CASE cap # Unlimited /\ now >= cap /\ FreeGoesOn(t, tx[t].rem)
  <2>1. Room(t, i) = 0 BY <1>3, <1>4, <1>15 DEF Room, Limit, Unlimited
  <2>2. Share(t, i) = 0 BY <1>3, <2>1 DEF Lesser
  <2>3. tx[t].rem = tx[t].rem - Share(t, i) BY <1>3, <2>2
  <2>4. Wrote(t, i, Share(t, i))' BY <1>3, <1>7, <1>9, <2>2
  <2>5. Billed(t) BY <1>3, <1>15
  <2>6. usageLock' = usageLock /\ creditLock' = creditLock /\ usageW' = usageW BY <1>5 DEF rows
  <2> HIDE DEF cap, now
  <2> PICK left : left = tx[t].rem OBVIOUS
  <2>7. FreeGoesOn(t, left) BY <1>15
  <2>8. left = tx[t].rem - Share(t, i) BY <2>3
  <2> QED BY <1>2, <1>3, <1>6, <2>4, <2>5, <2>6, <2>7, <2>8, FreeOn
<1>16. CASE tx' = [tx EXCEPT ![t].pc = "freeWrite", ![t].seen = now]
  <2>1. tx'[t].pc = "freeWrite" /\ tx'[t].i = i /\ tx'[t].rem = tx[t].rem
    BY <1>1, <1>16 DEF TxState
  <2>2. \A k \in 1..N : Wrote(t, k, IF k < i THEN Share(t, k) ELSE 0)'
    BY <1>7, <1>8, <1>9
  <2>3. FreeLoop(t)' BY <1>7, <1>8, <2>1, <2>2 DEF FreeLoop
  <2> QED BY <1>10, <1>13, <2>1, <2>3 DEF RunInv, Recording, CreditLoop, AtCommit
<1> QED BY <1>14, <1>15, <1>16 DEF FreeRead

\* spend_free's UPDATE: the row is held, so its WHERE does not fail, and what is
\* taken is the payer's share.
LEMMA RefFreeWrite ==
  ASSUME TypeInv, NEW t \in Runs, RunInv(t), FirstInv(t)', FreeWrite(t)
  PROVE  RunInv(t)'
<1> DEFINE N == Len(tx[t].payers)
           cap == tx[t].cap[Payer(t)]
<1>1. /\ tx \in [Txn -> TxState] /\ t \in Txn
      /\ usage \in [Row -> UsageRow] /\ usageW \in [Row -> UsageRow]
      /\ usageLock \in [Row -> Txn \cup {None}]
  BY DEF TypeInv, TypeOK, Txn
<1>2. tx[t].pc = "freeWrite" /\ tx[t].pc \in {"freeRead", "freeWrite"} BY DEF FreeWrite
<1> PICK i : i = tx[t].i OBVIOUS
<1>3. /\ i \in 1..N /\ Payer(t) = tx[t].payers[i] /\ PayerRow(t) = RowOf(t, i) /\ RowOf(t, i) \in Row
      /\ Wrote(t, i, 0) /\ usageLock[RowOf(t, i)] = t
      /\ usageW[RowOf(t, i)].free = usage[RowOf(t, i)].free /\ usage[RowOf(t, i)].free \in Nat
      /\ cap \in Limit /\ tx[t].rem \in Nat
      /\ i = 2 => Billed(t) /\ cap # Unlimited
      /\ cap # Unlimited => Billed(t)
      /\ Share(t, i) = Lesser(tx[t].rem, Room(t, i))
  BY <1>2, FreePayer
<1>4. tx[t].seen >= 0 /\ tx[t].seen < cap /\ tx[t].seen \in Int
  BY <1>1, <1>2 DEF TypeInv, SeenInRange, TxState
<1>5. tx[t].seen = usage[RowOf(t, i)].free BY <1>2, <1>3 DEF RunInv, FirstInv
<1> HIDE DEF cap
<1>6. Room(t, i) = cap - tx[t].seen /\ Room(t, i) \in Nat /\ cap # Unlimited
  <2>1. cap \in Int BY <1>3 DEF Limit, Unlimited
  <2>2. Room(t, i) = IF cap > usage[RowOf(t, i)].free THEN cap - usage[RowOf(t, i)].free ELSE 0
    BY <1>3 DEF Room, cap
  <2> QED BY <1>4, <1>5, <2>1, <2>2 DEF Unlimited
<1>7. FreeTake(t) = Share(t, i)
  <2>1. FreeTake(t) = Lesser(tx[t].rem, cap - tx[t].seen) BY DEF FreeTake, cap
  <2> QED BY <1>3, <1>6, <2>1
<1>8. Share(t, i) \in Nat /\ Share(t, i) <= Room(t, i) BY <1>3, <1>6 DEF Lesser
<1>9. usageW[RowOf(t, i)].free + FreeTake(t) <= cap
  <2>1. cap \in Int BY <1>3 DEF Limit, Unlimited
  <2> QED BY <1>3, <1>4, <1>5, <1>6, <1>7, <1>8, <2>1
<1>10. /\ usageLock' = [usageLock EXCEPT ![RowOf(t, i)] = t]
       /\ usageW' = [usageW EXCEPT ![RowOf(t, i)].free = @ + FreeTake(t)]
       /\ FreeGoesOn(t, tx[t].rem - FreeTake(t))
       /\ UNCHANGED <<today, limit, usage, credit, creditW, creditLock>>
  BY <1>3, <1>9 DEF FreeWrite, cap
<1>11. usageLock' = usageLock
  <2>1. \A q \in Row : usageLock'[q] = usageLock[q] BY <1>1, <1>3, <1>10
  <2> QED BY <1>1, <1>10, <2>1
<1>12. Steady(t) BY <1>1, <1>10 DEF FreeGoesOn, Steady, TxState
<1>13. \A q \in Row : q # RowOf(t, i) => usageW'[q] = usageW[q] BY <1>1, <1>10
<1>14. usageW'[RowOf(t, i)] = Image(t, i, Share(t, i))
  <2> DEFINE w == usageW[RowOf(t, i)]
  <2>1. usageW'[RowOf(t, i)] = [w EXCEPT !.free = @ + FreeTake(t)] BY <1>1, <1>3, <1>10
  <2>2. w = Image(t, i, 0) BY <1>3 DEF Wrote
  <2>3. w.free = usage[RowOf(t, i)].free /\ w.tokens = usage[RowOf(t, i)].tokens + tx[t].need
        /\ w = [free |-> w.free, tokens |-> w.tokens]
    <3>1. w \in UsageRow BY <1>1, <1>3
    <3>2. w = [free |-> w.free, tokens |-> w.tokens] BY <3>1 DEF UsageRow
    <3>3. w.tokens = usage[RowOf(t, i)].tokens + tx[t].need BY <2>2 DEF Image
    <3> QED BY <1>3, <3>2, <3>3
  <2> HIDE DEF w
  <2>4. usageW'[RowOf(t, i)] = [free |-> w.free + FreeTake(t), tokens |-> w.tokens]
    BY <2>1, <2>3
  <2> QED BY <1>7, <2>3, <2>4 DEF Image
<1>15. Wrote(t, i, Share(t, i))'
  <2>1. /\ \A k : RowOf(t, k)' = RowOf(t, k) /\ Share(t, k)' = Share(t, k)
        /\ \A k, g : Image(t, k, g)' = Image(t, k, g)
    BY <1>12, SteadyKeeps
  <2>2. Holds(t, i)' BY <1>3, <1>11, <2>1 DEF Holds
  <2>3. Image(t, i, Share(t, i))' = Image(t, i, Share(t, i))
    BY <1>12, <2>1 DEF Image, Steady
  <2>4. usageW'[RowOf(t, i)'] = Image(t, i, Share(t, i))' BY <1>14, <2>1, <2>3
  <2> QED BY <2>2, <2>4 DEF Wrote
<1>16. Billed(t) BY <1>3, <1>6
<1> PICK left : left = tx[t].rem - FreeTake(t) OBVIOUS
<1>17. FreeGoesOn(t, left) /\ left = tx[t].rem - Share(t, i) BY <1>7, <1>10
<1>18. creditLock' = creditLock BY <1>10
<1>19. i \in 1..Len(tx[t].payers) BY <1>3
<1> QED BY <1>2, <1>11, <1>12, <1>13, <1>15, <1>16, <1>17, <1>18, <1>19, FreeOn

\* In the balance loop: what is drawn, from whom, and what every step keeps.
LEMMA CreditPayer ==
  ASSUME TypeInv, NEW t \in Runs, RunInv(t), tx[t].pc \in {"creditRead", "creditCas"}
  PROVE  /\ tx[t].i \in {1, 2} /\ tx[t].i \in 1..Len(tx[t].payers) /\ Len(tx[t].payers) \in {1, 2}
         /\ LastPayer(t) <=> tx[t].i = Len(tx[t].payers)
         /\ Payer(t) = tx[t].payers[tx[t].i] /\ Payer(t) \in Account
         /\ Len(tx[t].payers) = 2 => tx[t].payers[1] # tx[t].payers[2]
         /\ Billed(t) /\ tx[t].rem > 0 /\ tx[t].rem \in Nat /\ Rest(t) \in Nat
         /\ \A k \in 1..Len(tx[t].payers) : Wrote(t, k, Share(t, k))
         /\ \E own \in 0..Rest(t) : Draws(t, own)
<1>1. /\ t \in Txn /\ tx[t].rem \in Nat BY DEF TypeInv, TypeOK, Txn, TxState
<1>2. tx[t].payers \in Subjects BY DEF RunInv, Planned
<1>3. /\ Len(tx[t].payers) \in {1, 2}
      /\ Len(tx[t].payers) = 2 => tx[t].payers[1] # tx[t].payers[2]
      /\ \A k \in 1..Len(tx[t].payers) : tx[t].payers[k] \in Account
  BY <1>2, PayersOf
<1>4. tx[t].i \in 1..Len(tx[t].payers) /\ tx[t].i \in {1, 2}
  BY <1>1 DEF TypeInv, TypeOK, TxState, PointsAtPayer, Charging
<1>5. Payer(t) = tx[t].payers[tx[t].i] /\ Payer(t) \in Account BY <1>3, <1>4 DEF Payer
<1>6. /\ Billed(t) /\ tx[t].rem > 0
      /\ \A k \in 1..Len(tx[t].payers) : Wrote(t, k, Share(t, k))
      /\ Drawing(t)
  BY DEF RunInv, CreditLoop
<1>7. Rest(t) \in Nat BY <1>2, Shares
<1>8. \E own \in 0..Rest(t) : Draws(t, own) BY <1>6 DEF Drawing
<1> QED BY <1>1, <1>3, <1>4, <1>5, <1>6, <1>7, <1>8 DEF LastPayer

\* The plan, the rows and the shares are not touched by the balance loop.
LEMMA CreditFrame ==
  ASSUME TypeInv, NEW t \in Runs, RunInv(t), tx[t].pc \in {"creditRead", "creditCas"},
         Steady(t), usageLock' = usageLock, usageW' = usageW,
         tx'[t].pc \in {"creditRead", "creditCas", "commit"}
  PROVE  /\ Planned(t)' /\ OwnRows(t)' /\ Billed(t)' /\ Rest(t)' = Rest(t)
         /\ \A k \in 1..Len(tx'[t].payers) : Wrote(t, k, Share(t, k))'
         /\ \A own : MayGive(t, own)' <=> MayGive(t, own)
         /\ \A own, last, a : Part(t, own, last, a)' = Part(t, own, last, a)
<1>1. tx[t].pc \in InTx /\ tx'[t].pc \in InTx BY DEF InTx
<1>2. Planned(t)' BY <1>1, SteadyPlanned DEF RunInv
<1>3. OwnRows(t)' BY <1>1, SteadyOwns DEF RunInv
<1>4. /\ \A k : RowOf(t, k)' = RowOf(t, k) /\ Share(t, k)' = Share(t, k)
      /\ Rest(t)' = Rest(t) /\ (Billed(t)' <=> Billed(t)) /\ tx'[t].payers = tx[t].payers
      /\ \A own : MayGive(t, own)' <=> MayGive(t, own)
      /\ \A own, last, a : Part(t, own, last, a)' = Part(t, own, last, a)
  BY SteadyKeeps DEF Steady
<1>5. Billed(t) /\ \A k \in 1..Len(tx[t].payers) : Wrote(t, k, Share(t, k))
  BY DEF RunInv, CreditLoop
<1>6. \A k \in 1..Len(tx[t].payers) : Wrote(t, k, Share(t, k))'
  <2> TAKE k \in 1..Len(tx[t].payers)
  <2>1. \A g : Wrote(t, k, g) => Wrote(t, k, g)'
    <3> TAKE g
    <3> HAVE Wrote(t, k, g)
    <3>1. usageLock'[RowOf(t, k)] = usageLock[RowOf(t, k)] /\ usageW'[RowOf(t, k)] = usageW[RowOf(t, k)]
      OBVIOUS
    <3> QED BY <3>1, SteadyWrote
  <2> QED BY <1>4, <1>5, <2>1
<1> QED BY <1>2, <1>3, <1>4, <1>5, <1>6

\* A read, or a lost race, leaves what was drawn.
LEMMA CreditStays ==
  ASSUME TypeInv, NEW t \in Runs, RunInv(t), FirstInv(t)', tx[t].pc \in {"creditRead", "creditCas"},
         Steady(t), UNCHANGED rows, tx'[t].pc \in {"creditRead", "creditCas"},
         tx'[t].rem = tx[t].rem, tx'[t].i = 1 => tx[t].i = 1
  PROVE  RunInv(t)'
<1>1. usageLock' = usageLock /\ usageW' = usageW /\ creditLock' = creditLock /\ creditW' = creditW
      /\ credit' = credit
  BY DEF rows
<1>2. /\ Planned(t)' /\ OwnRows(t)' /\ Billed(t)' /\ Rest(t)' = Rest(t)
      /\ \A k \in 1..Len(tx'[t].payers) : Wrote(t, k, Share(t, k))'
      /\ \A own : MayGive(t, own)' <=> MayGive(t, own)
      /\ \A own, last, a : Part(t, own, last, a)' = Part(t, own, last, a)
  BY <1>1, CreditFrame
<1>3. PICK own \in 0..Rest(t) : Draws(t, own) BY CreditPayer
<1>4. tx[t].rem > 0 BY CreditPayer
<1>5. Paid(t, own, 0)' BY <1>1, <1>2, <1>3 DEF Draws, Paid
<1>6. Draws(t, own)' BY <1>2, <1>3, <1>5 DEF Draws
<1>7. Drawing(t)' BY <1>2, <1>3, <1>6 DEF Drawing
<1>8. tx'[t].rem > 0 BY <1>4
<1>9. CreditLoop(t)' BY <1>2, <1>7, <1>8 DEF CreditLoop
<1> QED BY <1>2, <1>9 DEF RunInv, Recording, FreeLoop, AtCommit

\* spend_credit's SELECT.
LEMMA RefCreditRead ==
  ASSUME TypeInv, NEW t \in Runs, RunInv(t), FirstInv(t)', CreditRead(t)
  PROVE  RunInv(t)'
<1>1. tx \in [Txn -> TxState] /\ t \in Txn BY DEF TypeInv, TypeOK, Txn
<1>2. tx[t].pc = "creditRead" /\ tx[t].pc \in {"creditRead", "creditCas"} /\ UNCHANGED rows
  BY DEF CreditRead
<1>3. tx[t].rem > 0 /\ tx[t].i \in {1, 2} BY <1>2, CreditPayer
<1>4. Steady(t) BY <1>1, <1>2 DEF CreditRead, CreditGoesOn, Steady, TxState, rows
<1>5. tx'[t].pc \in {"creditRead", "creditCas"} /\ tx'[t].rem = tx[t].rem
      /\ tx'[t].i \in {tx[t].i, tx[t].i + 1}
  BY <1>1, <1>3 DEF CreditRead, CreditGoesOn, TxState
<1>6. tx'[t].i = 1 => tx[t].i = 1 BY <1>3, <1>5
<1> QED BY <1>2, <1>4, <1>5, <1>6, CreditStays

\* spend_credit's conditional UPDATE: what it takes is there.
LEMMA RefCreditCas ==
  ASSUME TypeInv, Images, NEW t \in Runs, RunInv(t), FirstInv(t)', CreditCas(t)
  PROVE  RunInv(t)'
<1> DEFINE N == Len(tx[t].payers)
           take == Lesser(tx[t].rem, tx[t].seen)
<1>1. /\ tx \in [Txn -> TxState] /\ t \in Txn /\ t # None
      /\ credit \in [Account -> CreditRow] /\ creditW \in [Account -> CreditRow]
      /\ creditLock \in [Account -> Txn \cup {None}]
  BY TxnsDisjoint DEF TypeInv, TypeOK, Txn
<1>2. tx[t].pc = "creditCas" /\ tx[t].pc \in {"creditRead", "creditCas"} BY DEF CreditCas
<1>3. /\ tx[t].i \in {1, 2} /\ tx[t].i \in 1..N /\ N \in {1, 2}
      /\ LastPayer(t) <=> tx[t].i = N
      /\ Payer(t) = tx[t].payers[tx[t].i] /\ Payer(t) \in Account
      /\ N = 2 => tx[t].payers[1] # tx[t].payers[2]
      /\ Billed(t) /\ tx[t].rem > 0 /\ tx[t].rem \in Nat /\ Rest(t) \in Nat
  BY <1>2, CreditPayer
<1>4. tx[t].seen > 0 /\ tx[t].seen \in Int /\ ~LastPayer(t)
  BY <1>1, <1>2 DEF TypeInv, SeenInRange, TxState
<1>5. tx[t].i = 1 /\ N = 2
  <2> HIDE DEF N
  <2> QED BY <1>3, <1>4
<1> PICK a : a = Payer(t) OBVIOUS
<1>6. a = tx[t].payers[1] /\ a \in Account /\ a # tx[t].payers[N] BY <1>3, <1>5
<1>7. Steady(t) /\ usageLock' = usageLock /\ usageW' = usageW /\ credit' = credit
  BY <1>1 DEF CreditCas, CreditGoesOn, Steady, TxState
<1>8. /\ tx[t].rem = Rest(t) /\ Paid(t, 0, 0)
  <2>1. PICK own \in 0..Rest(t) : Draws(t, own) BY <1>2, CreditPayer
  <2>2. own = 0 BY <1>5, <2>1 DEF Draws
  <2> QED BY <1>3, <2>1, <2>2 DEF Draws
<1>9. CASE BalanceAsSeen(t)
  <2>1. /\ creditLock' = [creditLock EXCEPT ![a] = t]
        /\ creditW' = [creditW EXCEPT ![a] = Debit(@, take)]
        /\ CreditGoesOn(t, tx[t].rem - take) /\ creditLock[a] \in {None, t}
    BY <1>9 DEF CreditCas, MayWriteCredit
  <2>2. creditW[a] = credit[a]
    <3>1. CASE creditLock[a] = None BY <1>6, <3>1 DEF Images
    <3>2. CASE creditLock[a] = t
      <4>1. creditW[a] = Minus(credit[a], Part(t, 0, 0, a)) BY <1>6, <1>8, <3>2 DEF Paid
      <4>2. Part(t, 0, 0, a) = 0 BY DEF Part
      <4> QED BY <1>1, <1>6, <4>1, <4>2, Effects
    <3> QED BY <2>1, <3>1, <3>2
  <2>3. take \in Nat /\ take <= tx[t].rem /\ take <= credit[a].balance
    <3>1. credit[a].balance = tx[t].seen BY <1>9, <2>2 DEF BalanceAsSeen
    <3> QED BY <1>3, <1>4, <3>1 DEF Lesser
  <2> HIDE DEF take
  <2>4. creditW'[a] = Minus(credit[a], take) /\ creditLock'[a] = t
    <3>1. creditW'[a] = Debit(creditW[a], take) /\ creditLock'[a] = t BY <1>1, <1>6, <2>1
    <3>2. credit[a] \in CreditRow BY <1>1, <1>6
    <3>3. \A m \in Nat : Debit(credit[a], m) = Minus(credit[a], m) BY <3>2, Effects
    <3> QED BY <2>2, <2>3, <3>1, <3>3
  <2>5. \A b \in Account : b # a => creditLock'[b] = creditLock[b] /\ creditW'[b] = creditW[b]
    BY <1>1, <2>1
  <2> PICK n : n = take OBVIOUS
  <2>6. /\ tx'[t].rem = tx[t].rem - n
        /\ tx'[t].pc = IF tx[t].rem - n = 0 THEN "commit" ELSE "creditRead"
        /\ tx[t].rem - n # 0 => tx'[t].i = 2
    BY <1>1, <1>5, <2>1 DEF CreditGoesOn, TxState
  <2>7. /\ Planned(t)' /\ OwnRows(t)' /\ Billed(t)' /\ Rest(t)' = Rest(t)
        /\ \A k \in 1..Len(tx'[t].payers) : Wrote(t, k, Share(t, k))'
        /\ \A own : MayGive(t, own)' <=> MayGive(t, own)
        /\ \A own, last, b : Part(t, own, last, b)' = Part(t, own, last, b)
    BY <1>2, <1>7, <2>6, CreditFrame
  <2>8. MayGive(t, n) /\ n \in 0..Rest(t)
    BY <1>3, <1>5, <1>6, <1>8, <2>3 DEF MayGive
  <2>9. Paid(t, n, 0)'
    <3> SUFFICES ASSUME NEW b \in Account
                 PROVE  IF creditLock'[b] = t THEN creditW'[b] = Minus(credit[b], Part(t, n, 0, b))
                                              ELSE Part(t, n, 0, b) = 0
      BY <1>7, <2>7 DEF Paid
    <3>1. CASE b = a
      <4>1. Part(t, n, 0, b) = n BY <1>6, <3>1 DEF Part
      <4> QED BY <2>4, <3>1, <4>1
    <3>2. CASE b # a
      <4>1. Part(t, n, 0, b) = Part(t, 0, 0, b) BY <1>6, <3>2 DEF Part
      <4> QED BY <1>8, <2>5, <3>2, <4>1 DEF Paid
    <3> QED BY <3>1, <3>2
  <2>10. CASE tx[t].rem - n = 0
    <3>1. Rest(t)' - n = 0 BY <1>8, <2>7, <2>10
    <3>2. Drawn(t)' BY <2>7, <2>8, <2>9, <3>1 DEF Drawn
    <3>3. AtCommit(t)' BY <2>7, <3>2 DEF AtCommit
    <3> QED BY <2>6, <2>7, <2>10, <3>3 DEF RunInv, Recording, FreeLoop, CreditLoop
  <2>11. CASE tx[t].rem - n # 0
    <3>1. tx'[t].rem = Rest(t)' - n /\ tx'[t].rem > 0 BY <1>3, <1>8, <2>3, <2>6, <2>7, <2>11
    <3>2. tx'[t].i # 1 BY <2>6, <2>11
    <3>3. Draws(t, n)' BY <2>7, <2>8, <2>9, <3>1, <3>2 DEF Draws
    <3>4. Drawing(t)' BY <2>7, <2>8, <3>3 DEF Drawing
    <3>5. CreditLoop(t)' BY <2>7, <3>1, <3>4 DEF CreditLoop
    <3> QED BY <2>6, <2>7, <2>11, <3>5 DEF RunInv, Recording, FreeLoop, AtCommit
  <2> QED BY <2>10, <2>11
<1>10. CASE ~BalanceAsSeen(t)
  <2>1. UNCHANGED rows BY <1>10 DEF CreditCas, rows
  <2>2. tx'[t].pc \in {"creditRead", "creditCas"} /\ tx'[t].rem = tx[t].rem
    BY <1>1, <1>3, <1>10 DEF CreditCas, CreditGoesOn, TxState
  <2> QED BY <1>2, <1>5, <1>7, <2>1, <2>2, CreditStays
<1> QED BY <1>9, <1>10

\* spend_credit with allow_debt: the last payer pays what is left.
LEMMA RefCreditDebt ==
  ASSUME TypeInv, Images, NEW t \in Runs, RunInv(t), FirstInv(t)', CreditDebt(t)
  PROVE  RunInv(t)'
<1> DEFINE N == Len(tx[t].payers)
<1>1. /\ tx \in [Txn -> TxState] /\ t \in Txn /\ t # None
      /\ credit \in [Account -> CreditRow] /\ creditW \in [Account -> CreditRow]
      /\ creditLock \in [Account -> Txn \cup {None}]
  BY TxnsDisjoint DEF TypeInv, TypeOK, Txn
<1>2. tx[t].pc = "creditRead" /\ tx[t].pc \in {"creditRead", "creditCas"} BY DEF CreditDebt
<1>3. /\ LastPayer(t) <=> tx[t].i = N
      /\ Payer(t) = tx[t].payers[tx[t].i] /\ Payer(t) \in Account
      /\ Billed(t) /\ tx[t].rem \in Nat /\ Rest(t) \in Nat
  BY <1>2, CreditPayer
<1>4. tx[t].i = N BY <1>3 DEF CreditDebt
<1> PICK a : a = Payer(t) OBVIOUS
<1>5. a = tx[t].payers[N] /\ a \in Account BY <1>3, <1>4
<1>6. PICK own \in 0..Rest(t) : Draws(t, own) BY <1>2, CreditPayer
<1>7. tx[t].rem = Rest(t) - own /\ MayGive(t, own) /\ Paid(t, own, 0) BY <1>6 DEF Draws
<1>8. /\ creditLock' = [creditLock EXCEPT ![a] = t] /\ creditLock[a] \in {None, t}
      /\ creditW' = [creditW EXCEPT ![a] = Debit(@, tx[t].rem)]
      /\ tx'[t].pc = "commit"
  BY <1>1 DEF CreditDebt, MayWriteCredit, TxState
<1>9. Steady(t) /\ usageLock' = usageLock /\ usageW' = usageW /\ credit' = credit
  BY <1>1 DEF CreditDebt, Steady, TxState
<1>10. /\ Planned(t)' /\ OwnRows(t)' /\ Billed(t)' /\ Rest(t)' = Rest(t)
       /\ \A k \in 1..Len(tx'[t].payers) : Wrote(t, k, Share(t, k))'
       /\ \A x : MayGive(t, x)' <=> MayGive(t, x)
       /\ \A x, last, b : Part(t, x, last, b)' = Part(t, x, last, b)
  BY <1>2, <1>8, <1>9, CreditFrame
<1>11. creditW[a] = credit[a]
  <2>1. CASE creditLock[a] = None BY <1>5, <2>1 DEF Images
  <2>2. CASE creditLock[a] = t
    <3>1. creditW[a] = Minus(credit[a], Part(t, own, 0, a)) BY <1>5, <1>7, <2>2 DEF Paid
    <3>2. Part(t, own, 0, a) = 0 BY <1>5 DEF Part
    <3>3. credit[a] \in CreditRow BY <1>1, <1>5
    <3> QED BY <3>1, <3>2, <3>3, Effects
  <2> QED BY <1>8, <2>1, <2>2
<1> PICK rest : rest = tx[t].rem OBVIOUS
<1>12. creditW'[a] = Minus(credit[a], rest) /\ creditLock'[a] = t
  <2>1. creditW'[a] = Debit(creditW[a], rest) /\ creditLock'[a] = t BY <1>1, <1>5, <1>8
  <2>2. credit[a] \in CreditRow BY <1>1, <1>5
  <2>3. \A m \in Nat : Debit(credit[a], m) = Minus(credit[a], m) BY <2>2, Effects
  <2> QED BY <1>3, <1>11, <2>1, <2>3
<1>13. \A b \in Account : b # a => creditLock'[b] = creditLock[b] /\ creditW'[b] = creditW[b]
  BY <1>1, <1>8
<1>14. Paid(t, own, rest)'
  <2> SUFFICES ASSUME NEW b \in Account
               PROVE  IF creditLock'[b] = t THEN creditW'[b] = Minus(credit[b], Part(t, own, rest, b))
                                            ELSE Part(t, own, rest, b) = 0
    BY <1>9, <1>10 DEF Paid
  <2>1. CASE b = a
    <3>1. Part(t, own, rest, b) = rest BY <1>5, <2>1 DEF Part
    <3> QED BY <1>12, <2>1, <3>1
  <2>2. CASE b # a
    <3>1. Part(t, own, rest, b) = Part(t, own, 0, b) BY <1>5, <2>2 DEF Part
    <3> QED BY <1>7, <1>13, <2>2, <3>1 DEF Paid
  <2> QED BY <2>1, <2>2
<1>15. rest = Rest(t)' - own /\ own \in 0..Rest(t)' BY <1>7, <1>10
<1>16. Drawn(t)' BY <1>7, <1>10, <1>14, <1>15 DEF Drawn
<1>17. AtCommit(t)' BY <1>10, <1>16 DEF AtCommit
<1> QED BY <1>8, <1>10, <1>17 DEF RunInv, Recording, FreeLoop, CreditLoop

----------------------------------------------------------------------------
\* The steps of an edit, and the end of a transaction.

\* set_credit reads.
LEMMA RefSetRead ==
  ASSUME TypeInv, NEW t \in Edits, EditInv(t),
         (\E a \in Account, n \in Balances : SetCredit(t, a, n)) \/ SetAgain(t)
  PROVE  EditInv(t)'
<1>1. tx \in [Txn -> TxState] /\ t \in Txn BY DEF TypeInv, TypeOK, Txn
<1>2. UNCHANGED rows /\ tx[t].pc \in {"idle", "setAgain"} BY DEF SetCredit, SetAgain
<1>3. tx'[t].need \in Balances
  <2>1. ASSUME NEW a \in Account, NEW n \in Balances, SetCredit(t, a, n) PROVE tx'[t].need \in Balances
    BY <1>1, <2>1 DEF SetCredit, Observe, TxState
  <2>2. ASSUME SetAgain(t) PROVE tx'[t].need \in Balances
    <3>1. tx[t].need \in Balances BY <2>2 DEF SetAgain, EditInv, Setting
    <3>2. tx'[t].need = tx[t].need BY <1>1, <2>2 DEF SetAgain, Observe, TxState
    <3> QED BY <3>1, <3>2
  <2> QED BY <2>1, <2>2
<1>4. /\ \A r \in Row : usageLock'[r] # t
      /\ \A a \in Account : creditLock'[a] # t
  BY <1>2 DEF rows, EditInv
<1> QED BY <1>3, <1>4 DEF EditInv

\* set_credit's conditional UPDATE sets the balance to what was asked for.
LEMMA RefSetCas ==
  ASSUME TypeInv, Images, NEW t \in Edits, EditInv(t), SetCas(t)
  PROVE  EditInv(t)'
<1>1. /\ tx \in [Txn -> TxState] /\ t \in Txn /\ t # None
      /\ credit \in [Account -> CreditRow] /\ creditW \in [Account -> CreditRow]
      /\ creditLock \in [Account -> Txn \cup {None}]
  BY TxnsDisjoint DEF TypeInv, TypeOK, Txn
<1>2. /\ tx[t].pc = "setCas" /\ tx[t].need \in Balances
      /\ usageLock' = usageLock /\ credit' = credit
  BY DEF SetCas, EditInv, Setting
<1>3. \A a \in Account : creditLock[a] # t BY <1>2 DEF EditInv
<1> PICK a : a = Payer(t) OBVIOUS
<1>4. a \in Account /\ a = tx[t].payers[1]
  <2>1. tx[t].i = 1 BY <1>1, <1>2 DEF TypeInv, PointsAtPayer, Setting
  <2>2. Payer(t) \in Account BY <1>1, <1>2, PayerType DEF Setting
  <2> QED BY <2>1, <2>2 DEF Payer
<1>5. tx'[t].payers = tx[t].payers /\ tx'[t].need = tx[t].need BY <1>1 DEF SetCas, TxState
<1>6. CASE BalanceAsSeen(t)
  <2>1. /\ creditLock' = [creditLock EXCEPT ![a] = t] /\ creditLock[a] \in {None, t}
        /\ creditW' = [creditW EXCEPT ![a] = Grant(@, tx[t].need - tx[t].seen)]
        /\ tx'[t].pc = "commit"
    BY <1>1, <1>6 DEF SetCas, MayWriteCredit, TxState
  <2>2. creditW[a] = credit[a] /\ credit[a] \in CreditRow BY <1>1, <1>3, <1>4, <2>1 DEF Images
  <2>3. tx[t].seen = credit[a].balance BY <1>6, <2>2 DEF BalanceAsSeen
  <2> PICK x : x = tx[t].need - credit[a].balance OBVIOUS
  <2>4. x \in Int
    <3>1. tx[t].need \in Nat /\ credit[a].balance \in Int BY <1>2, <2>2, BoundsOK DEF CreditRow
    <3> QED BY <3>1
  <2>5. creditW'[a] = Plus(credit[a], x)
    <3>1. creditW'[a] = Grant(credit[a], x) BY <1>1, <1>4, <2>1, <2>2, <2>3
    <3>2. \A n \in Int : Grant(credit[a], n) = Plus(credit[a], n) BY <2>2, Effects
    <3> QED BY <2>4, <3>1, <3>2
  <2>6. \A b \in Account : creditLock'[b] = t => b = a BY <1>1, <1>3, <2>1
  <2>7. x \in TopUps \cup {m - credit[a].balance : m \in Balances} BY <1>2
  <2> QED BY <1>2, <1>4, <1>5, <2>1, <2>5, <2>6, <2>7 DEF EditInv, Setting
<1>7. CASE ~BalanceAsSeen(t)
  <2>1. creditLock' = creditLock BY <1>7 DEF SetCas
  <2> QED BY <1>2, <1>3, <1>5, <2>1 DEF EditInv
<1> QED BY <1>6, <1>7

\* adjust_credits' UPDATE adds to what is committed.
LEMMA RefAdjust ==
  ASSUME TypeInv, Images, NEW t \in Edits, EditInv(t),
         NEW a \in Account, NEW n \in TopUps, AdjustCredits(t, a, n)
  PROVE  EditInv(t)'
<1>1. /\ tx \in [Txn -> TxState] /\ t \in Txn /\ t # None
      /\ credit \in [Account -> CreditRow] /\ creditW \in [Account -> CreditRow]
      /\ creditLock \in [Account -> Txn \cup {None}]
  BY TxnsDisjoint DEF TypeInv, TypeOK, Txn
<1>2. /\ tx[t].pc = "idle" /\ usageLock' = usageLock /\ credit' = credit
      /\ creditLock' = [creditLock EXCEPT ![a] = t] /\ creditLock[a] \in {None, t}
      /\ creditW' = [creditW EXCEPT ![a] = Grant(@, n)]
  BY DEF AdjustCredits, MayWriteCredit
<1>3. tx'[t].pc = "commit" /\ tx'[t].payers = <<a>> BY <1>1 DEF AdjustCredits, TxState
<1>4. \A b \in Account : creditLock[b] # t BY <1>2 DEF EditInv
<1>5. creditW[a] = credit[a] /\ credit[a] \in CreditRow BY <1>1, <1>2, <1>4 DEF Images
<1>6. creditW'[a] = Plus(credit[a], n)
  <2>1. creditW'[a] = Grant(credit[a], n) BY <1>1, <1>2, <1>5
  <2>2. n \in Int BY BoundsOK
  <2>3. \A m \in Int : Grant(credit[a], m) = Plus(credit[a], m) BY <1>5, Effects
  <2> QED BY <2>1, <2>2, <2>3
<1>7. \A b \in Account : creditLock'[b] = t => b = a BY <1>1, <1>2, <1>4
<1>8. <<a>>[1] = a OBVIOUS
<1> QED BY <1>2, <1>3, <1>6, <1>7, <1>8 DEF EditInv, Setting

\* Commit and rollback give every row back.
LEMMA RefEnd ==
  ASSUME TypeInv, NEW t \in Txn, Commit(t) \/ Rollback(t),
         t \in Runs => RunInv(t) /\ FirstInv(t)'
  PROVE  (t \in Runs => RunInv(t)') /\ (t \in Edits => EditInv(t)')
<1>1. tx \in [Txn -> TxState] /\ t # None BY TxnsDisjoint DEF TypeInv, TypeOK
<1>2. tx[t].pc \in InTx /\ tx[t].pc # "idle" BY DEF Commit, Rollback, InTx
<1>3. tx'[t].pc \in {"done", "failed"} /\ tx'[t].payers = tx[t].payers
  BY <1>1 DEF Commit, Rollback, TxState
<1>4. /\ \A r \in Row : usageLock'[r] # t
      /\ \A a \in Account : creditLock'[a] # t
  BY <1>1 DEF Commit, Rollback
<1>5. t \in Runs => RunInv(t)'
  <2> HAVE t \in Runs
  <2>1. tx[t].payers \in Subjects BY <1>2 DEF RunInv, Planned
  <2> QED
    BY <1>3, <1>4, <2>1 DEF RunInv, Planned, OwnRows, Recording, FreeLoop, CreditLoop, AtCommit, InTx
<1>6. t \in Edits => EditInv(t)' BY <1>3, <1>4 DEF EditInv, Setting
<1> QED BY <1>5, <1>6

\* Outside a transaction's rows the two images agree; a chat's limit is one the
\* panel gives.
LEMMA ImagesStep == TypeInv /\ Images /\ [Next]_vars => Images'
<1> SUFFICES ASSUME TypeInv, Images, [Next]_vars PROVE Images'
  OBVIOUS
<1>1. /\ usage \in [Row -> UsageRow] /\ usageW \in [Row -> UsageRow]
      /\ usageLock \in [Row -> Txn \cup {None}] /\ limit \in [Account -> Limit]
      /\ credit \in [Account -> CreditRow] /\ creditW \in [Account -> CreditRow]
      /\ creditLock \in [Account -> Txn \cup {None}]
  BY DEF TypeInv, TypeOK
<1>2. CASE UNCHANGED <<limit, rows>> BY <1>2 DEF Images, rows
<1>3. ASSUME NEW c \in Chats, NEW n \in ChatLimits, SetChatLimit(c, n) PROVE Images'
  <2>1. \A d \in Chats : limit'[d] \in {limit[d], n} BY <1>1, <1>3 DEF SetChatLimit
  <2> QED BY <1>3, <2>1 DEF Images, SetChatLimit, rows
<1>4. ASSUME NEW t \in Txn, RecordUsage(t) \/ FreeWrite(t) PROVE Images'
  <2>1. UNCHANGED <<limit, usage, credit, creditW, creditLock>> BY <1>4 DEF RecordUsage, FreeWrite
  <2>2. \A r \in Row : usageLock'[r] = None => usageLock'[r] = usageLock[r] /\ usageW'[r] = usageW[r]
    BY <1>1, <1>4, TxnsDisjoint DEF RecordUsage, FreeWrite
  <2> QED BY <2>1, <2>2 DEF Images
<1>5. ASSUME NEW t \in Txn,
             \/ CreditCas(t) \/ CreditDebt(t) \/ SetCas(t)
             \/ \E a \in Account, n \in TopUps : AdjustCredits(t, a, n)
      PROVE Images'
  <2>1. UNCHANGED <<limit, usage, usageW, usageLock, credit>>
    BY <1>5 DEF CreditCas, CreditDebt, SetCas, AdjustCredits
  <2>2. \A b \in Account : creditLock'[b] = None => creditLock'[b] = creditLock[b] /\ creditW'[b] = creditW[b]
    <3>1. CASE CreditCas(t) \/ CreditDebt(t) \/ SetCas(t)
      BY <1>1, <3>1, TxnsDisjoint DEF CreditCas, CreditDebt, SetCas
    <3>2. ASSUME NEW a \in Account, NEW n \in TopUps, AdjustCredits(t, a, n)
          PROVE  \A b \in Account : creditLock'[b] = None =>
                    creditLock'[b] = creditLock[b] /\ creditW'[b] = creditW[b]
      BY <1>1, <3>2, TxnsDisjoint DEF AdjustCredits
    <3> QED BY <1>5, <3>1, <3>2
  <2> QED BY <2>1, <2>2 DEF Images
<1>6. ASSUME NEW t \in Txn, Commit(t) \/ Rollback(t) PROVE Images'
  <2>1. limit' = limit BY <1>6 DEF Commit, Rollback
  <2>2. \A r \in Row : usageLock'[r] = None => usageW'[r] = usage'[r]
    BY <1>1, <1>6 DEF Commit, Rollback, Images
  <2>3. \A a \in Account : creditLock'[a] = None => creditW'[a] = credit'[a]
    BY <1>1, <1>6 DEF Commit, Rollback, Images
  <2> QED BY <2>1, <2>2, <2>3 DEF Images
<1>7. ASSUME NEW t \in Runs, \/ \E s \in Subjects : Start(t, s)
                             \/ \E n \in 0..MaxTokens : Settle(t, n)
                             \/ RunFails(t) \/ Charge(t)
      PROVE Images'
  BY <1>2, <1>4, <1>5, <1>7 DEF Start, Settle, RunFails, Charge, FreeRead, CreditRead, Txn, rows
<1>8. ASSUME NEW t \in Edits, \/ \E a \in Account, n \in Balances : SetCredit(t, a, n)
                              \/ \E a \in Account, n \in TopUps : AdjustCredits(t, a, n)
                              \/ SetAgain(t) \/ SetCas(t)
      PROVE Images'
  BY <1>2, <1>5, <1>8 DEF SetCredit, SetAgain, Txn, rows
<1>9. CASE NewDay BY <1>2, <1>9 DEF NewDay, rows
<1>10. CASE UNCHANGED vars BY <1>2, <1>10 DEF vars
<1> QED BY <1>3, <1>6, <1>7, <1>8, <1>9, <1>10 DEF Next

\* A step of one transaction keeps what the invariant says of all.
LEMMA OneMoves ==
  ASSUME RefInv, TypeInv', Images', NEW t \in Txn, \A u \in Txn : u # t => Unmoved(u),
         \A u \in Runs : FirstInv(u)',
         t \in Runs => RunInv(t)', t \in Edits => EditInv(t)'
  PROVE  RefInv'
<1>1. \A u \in Runs : RunInv(u)'
  <2> TAKE u \in Runs
  <2>1. CASE u = t BY <2>1
  <2>2. CASE u # t BY <2>2, RunUnmoved DEF RefInv, Txn
  <2> QED BY <2>1, <2>2
<1>2. \A u \in Edits : EditInv(u)'
  <2> TAKE u \in Edits
  <2>1. CASE u = t BY <2>1
  <2>2. CASE u # t BY <2>2, EditUnmoved DEF RefInv, Txn
  <2> QED BY <2>1, <2>2
<1> QED BY <1>1, <1>2 DEF RefInv

\* The invariant holds at the start ...
LEMMA InitRef == Init => RefInv
<1> SUFFICES ASSUME Init PROVE RefInv
  OBVIOUS
<1>1. TypeInv BY InitType
<1>2. \A t \in Txn : tx[t].pc = "idle" /\ t # None BY TxnsDisjoint DEF Init
<1>3. /\ \A r \in Row : usageLock[r] = None /\ usageW[r] = usage[r]
      /\ \A a \in Account : creditLock[a] = None /\ creditW[a] = credit[a]
  BY DEF Init
<1>4. \A c \in Chats : limit[c] = 0
  <2>1. PICK n \in UserLimits : limit = [a \in Account |-> IF a \in Users THEN n ELSE 0] BY DEF Init
  <2>2. \A c \in Chats : c \in Account /\ c \notin Users BY AccountsDisjoint DEF Account
  <2> QED BY <2>1, <2>2
<1>5. Images BY <1>3, <1>4 DEF Images
<1>6. \A t \in Runs : RunInv(t)
  <2> TAKE t \in Runs
  <2>1. tx[t].pc = "idle" /\ t # None BY <1>2 DEF Txn
  <2>2. FirstInv(t) BY <1>3, <2>1 DEF FirstInv, Spending
  <2> QED
    BY <1>3, <2>1, <2>2 DEF RunInv, Planned, OwnRows, Recording, FreeLoop, CreditLoop, AtCommit, InTx
<1>7. \A t \in Edits : EditInv(t)
  BY <1>2, <1>3 DEF EditInv, Setting, Txn
<1> QED BY <1>1, <1>5, <1>6, <1>7 DEF RefInv

\* ... and every step keeps it.
LEMMA NextRef == RefInv /\ [Next]_vars => RefInv'
<1> SUFFICES ASSUME RefInv, [Next]_vars PROVE RefInv'
  OBVIOUS
<1>1. TypeInv /\ Images /\ (\A t \in Runs : RunInv(t)) /\ \A t \in Edits : EditInv(t) BY DEF RefInv
<1>2. TypeInv' BY <1>1, NextType
<1>3. \A u \in Runs : FirstInv(u)' BY <1>1, FirstStep DEF RunInv
<1>4. Images' BY <1>1, ImagesStep
<1>5. CASE UNCHANGED vars \/ NewDay \/ \E c \in Chats, n \in ChatLimits : SetChatLimit(c, n)
  <2>1. UNCHANGED <<rows, tx>> BY <1>5 DEF vars, NewDay, SetChatLimit
  <2>2. \A v \in Users : limit'[v] = limit[v]
    <3>1. limit \in [Account -> Limit] BY <1>1 DEF TypeInv, TypeOK
    <3>2. \A c \in Chats, v \in Users : c # v /\ v \in Account BY AccountsDisjoint DEF Account
    <3> QED BY <1>5, <3>1, <3>2 DEF vars, NewDay, SetChatLimit
  <2>3. \A u \in Txn : Unmoved(u) BY <2>1, <2>2 DEF Unmoved, rows
  <2>4. \A u \in Runs : RunInv(u)' BY <1>1, <1>3, <2>3, RunUnmoved DEF Txn
  <2>5. \A u \in Edits : EditInv(u)' BY <1>1, <2>3, EditUnmoved DEF Txn
  <2> QED BY <1>2, <1>4, <2>4, <2>5 DEF RefInv
<1>6. ASSUME NEW t \in Runs, \/ \E s \in Subjects : Start(t, s)
                             \/ \E n \in 0..MaxTokens : Settle(t, n)
                             \/ RunFails(t) \/ Charge(t)
      PROVE RefInv'
  <2>1. t \in Txn /\ t \notin Edits BY TxnsDisjoint DEF Txn
  <2>2. \A u \in Txn : u # t => Unmoved(u) BY <1>1, <1>6, <2>1, ActionsUnmove
  <2>3. RunInv(t) /\ FirstInv(t)' BY <1>1, <1>3
  <2>4. RunInv(t)'
    <3>1. CASE (\E s \in Subjects : Start(t, s)) \/ RunFails(t) BY <1>1, <2>3, <3>1, RefStart
    <3>2. CASE \E n \in 0..MaxTokens : Settle(t, n) BY <1>1, <2>3, <3>2, RefSettle
    <3>3. CASE Charge(t)
      BY <1>1, <2>3, <3>3, RefRecord, RefFreeRead, RefFreeWrite, RefCreditRead, RefCreditCas, RefCreditDebt
      DEF Charge
    <3> QED BY <1>6, <3>1, <3>2, <3>3
  <2> QED BY <1>2, <1>3, <1>4, <2>1, <2>2, <2>4, OneMoves
<1>7. ASSUME NEW t \in Edits, \/ \E a \in Account, n \in Balances : SetCredit(t, a, n)
                              \/ \E a \in Account, n \in TopUps : AdjustCredits(t, a, n)
                              \/ SetAgain(t) \/ SetCas(t)
      PROVE RefInv'
  <2>1. t \in Txn /\ t \notin Runs BY TxnsDisjoint DEF Txn
  <2>2. \A u \in Txn : u # t => Unmoved(u) BY <1>1, <1>7, <2>1, ActionsUnmove
  <2>3. EditInv(t) BY <1>1
  <2>4. EditInv(t)'
    <3>1. CASE (\E a \in Account, n \in Balances : SetCredit(t, a, n)) \/ SetAgain(t)
      BY <1>1, <2>3, <3>1, RefSetRead
    <3>2. CASE SetCas(t) BY <1>1, <2>3, <3>2, RefSetCas
    <3>3. CASE \E a \in Account, n \in TopUps : AdjustCredits(t, a, n)
      BY <1>1, <2>3, <3>3, RefAdjust
    <3> QED BY <1>7, <3>1, <3>2, <3>3
  <2> QED BY <1>2, <1>3, <1>4, <2>1, <2>2, <2>4, OneMoves
<1>8. ASSUME NEW t \in Txn, Commit(t) \/ Rollback(t) PROVE RefInv'
  <2>1. \A u \in Txn : u # t => Unmoved(u) BY <1>1, <1>8, ActionsUnmove
  <2>2. t \in Runs => RunInv(t) /\ FirstInv(t)' BY <1>1, <1>3
  <2>3. (t \in Runs => RunInv(t)') /\ (t \in Edits => EditInv(t)') BY <1>1, <1>8, <2>2, RefEnd
  <2> QED BY <1>2, <1>3, <1>4, <2>1, <2>3, OneMoves
<1> QED BY <1>5, <1>6, <1>7, <1>8 DEF Next

----------------------------------------------------------------------------
\* The simulation.

\* The ledger computes the shares that the free loop took.
LEMMA SameShares ==
  ASSUME TypeInv, NEW t \in Runs, tx[t].payers \in Subjects
  PROVE  LET share == Ledger!FreeShare(tx[t].payers, tx[t].day, tx[t].cap, tx[t].need)
         IN /\ \A k \in 1..Len(tx[t].payers) : share[k] = Share(t, k)
            /\ tx[t].need - share[1] - (IF Len(tx[t].payers) = 2 THEN share[2] ELSE 0) = Rest(t)
<1> DEFINE s == tx[t].payers
           share == Ledger!FreeShare(s, tx[t].day, tx[t].cap, tx[t].need)
<1>1. Len(s) \in {1, 2} BY PayersOf
<1>2. \A k \in 1..Len(s) : Ledger!Left(s[k], tx[t].day, tx[t].cap) = Room(t, k)
  BY DEF Ledger!Left, Room, RowOf
<1>3. \A m, n : Ledger!Lesser(m, n) = Lesser(m, n) BY DEF Ledger!Lesser, Lesser
<1>4. 1 \in 1..Len(s) /\ (Len(s) = 2 => 2 \in 1..Len(s))
  <2> DEFINE N == Len(s)
  <2>1. N \in {1, 2} BY <1>1
  <2> HIDE DEF N
  <2>2. 1 \in 1..N /\ (N = 2 => 2 \in 1..N) BY <2>1
  <2> QED BY <2>2 DEF N
<1>5. Ledger!Lesser(tx[t].need, Ledger!Left(s[1], tx[t].day, tx[t].cap)) = First(t)
  BY <1>2, <1>3, <1>4 DEF First
<1>6. \A k \in 1..Len(s) : share[k] = Share(t, k)
  <2> TAKE k \in 1..Len(s)
  <2>1. share[k] = IF k = 1 THEN First(t)
                   ELSE Ledger!Lesser(tx[t].need - First(t), Ledger!Left(s[2], tx[t].day, tx[t].cap))
    BY <1>5 DEF Ledger!FreeShare
  <2>2. CASE k = 1 BY <2>1, <2>2 DEF Share
  <2>3. CASE k # 1
    <3>1. k = 2
      <4> DEFINE N == Len(s)
      <4>1. N \in {1, 2} /\ k \in 1..N BY <1>1
      <4> HIDE DEF N
      <4> QED BY <2>3, <4>1
    <3> QED BY <1>2, <1>3, <2>1, <3>1 DEF Share
  <2> QED BY <2>2, <2>3
<1>7. share[1] = First(t) BY <1>4, <1>6 DEF Share
<1>8. tx[t].need - share[1] - (IF Len(s) = 2 THEN share[2] ELSE 0) = Rest(t)
  <2> HIDE DEF share
  <2>1. Len(s) = 2 => share[2] = Share(t, 2) BY <1>4, <1>6
  <2> QED BY <1>7, <2>1 DEF Rest
<1> QED BY <1>6, <1>8

\* What a run's commit makes of the usage rows is what the ledger records.
LEMMA CommitRecords ==
  ASSUME TypeInv, NEW t \in Runs, RunInv(t), Commit(t), tx[t].payers \in Subjects,
         NEW share, \A k \in 1..Len(tx[t].payers) : Wrote(t, k, share[k])
  PROVE  Ledger!Record(tx[t].payers, tx[t].day, tx[t].need, share)
<1> DEFINE s == tx[t].payers
           d == tx[t].day
           n == tx[t].need
           New(r) == IF \E k \in 1..Len(s) : r = <<s[k], d>>
                       THEN LET k == CHOOSE k \in 1..Len(s) : r = <<s[k], d>>
                            IN [free |-> usage[r].free + share[k], tokens |-> usage[r].tokens + n]
                       ELSE usage[r]
<1>1. usage' = [r \in Row |-> IF usageLock[r] = t THEN usageW[r] ELSE usage[r]] BY DEF Commit
<1>2. \A k : RowOf(t, k) = <<s[k], d>> BY DEF RowOf
<1>3. ASSUME NEW r \in Row PROVE (IF usageLock[r] = t THEN usageW[r] ELSE usage[r]) = New(r)
  <2>1. CASE \E k \in 1..Len(s) : r = <<s[k], d>>
    <3> DEFINE j == CHOOSE k \in 1..Len(s) : r = <<s[k], d>>
    <3>1. j \in 1..Len(s) /\ r = <<s[j], d>> BY <2>1
    <3> HIDE DEF j
    <3>2. Wrote(t, j, share[j]) /\ r = RowOf(t, j) BY <1>2, <3>1
    <3>3. usageLock[r] = t
          /\ usageW[r] = [free |-> usage[r].free + share[j], tokens |-> usage[r].tokens + n]
      BY <3>2 DEF Wrote, Holds, Image
    <3>4. New(r) = [free |-> usage[r].free + share[j], tokens |-> usage[r].tokens + n]
      BY <2>1 DEF j
    <3> QED BY <3>3, <3>4
  <2>2. CASE ~\E k \in 1..Len(s) : r = <<s[k], d>>
    <3>1. usageLock[r] # t BY <1>2, <2>2 DEF RunInv, OwnRows
    <3> QED BY <2>2, <3>1
  <2> QED BY <2>1, <2>2
<1>4. usage' = [r \in Row |-> New(r)] BY <1>1, <1>3
<1>5. Ledger!Account \X Ledger!Day = Row BY DEF Ledger!Account, Ledger!Day, Row, Account, Day
<1> QED BY <1>4, <1>5 DEF Ledger!Record

\* What it makes of the balances is what the ledger debits.
LEMMA CommitDebits ==
  ASSUME TypeInv, NEW t \in Runs, Commit(t), NEW own, NEW last, Paid(t, own, last),
         own \in Nat, last \in Nat
  PROVE  Ledger!Debit(tx[t].payers, own, last)
<1> DEFINE s == tx[t].payers
           part(a) == IF a = s[Len(s)] THEN last ELSE IF a = s[1] THEN own ELSE 0
           New(a) == [credit[a] EXCEPT !.balance = @ - part(a), !.spent = @ + part(a)]
<1>1. credit' = [a \in Account |-> IF creditLock[a] = t THEN creditW[a] ELSE credit[a]] BY DEF Commit
<1>2. ASSUME NEW a \in Account PROVE (IF creditLock[a] = t THEN creditW[a] ELSE credit[a]) = New(a)
  <2>1. part(a) = Part(t, own, last, a) /\ part(a) \in Nat BY DEF Part
  <2>2. credit[a] \in CreditRow BY DEF TypeInv, TypeOK
  <2> HIDE DEF part
  <2>3. \A m \in Nat : [credit[a] EXCEPT !.balance = @ - m, !.spent = @ + m] = Minus(credit[a], m)
    BY <2>2, Effects
  <2>4. New(a) = Minus(credit[a], part(a)) BY <2>1, <2>3
  <2>5. Minus(credit[a], 0) = credit[a] BY <2>2, Effects
  <2>6. CASE creditLock[a] = t BY <2>1, <2>4, <2>6 DEF Paid
  <2>7. CASE creditLock[a] # t
    <3>1. part(a) = 0 BY <2>1, <2>7 DEF Paid
    <3> QED BY <2>4, <2>5, <2>7, <3>1
  <2> QED BY <2>6, <2>7
<1>3. credit' = [a \in Account |-> New(a)] BY <1>1, <1>2
<1>4. Ledger!Account = Account BY DEF Ledger!Account, Account
<1> QED BY <1>3, <1>4 DEF Ledger!Debit

\* The commit of a run is one charge of the ledger.
LEMMA CommitIsCharge ==
  ASSUME RefInv, NEW t \in Runs, Commit(t)
  PROVE  \E s \in Subjects, d \in Ledger!Day, cap \in Ledger!Plans, n \in 0..MaxTokens :
           Ledger!Settle(s, d, cap, n)
<1> DEFINE s == tx[t].payers
           d == tx[t].day
           cap == tx[t].cap
           n == tx[t].need
           share == Ledger!FreeShare(s, d, cap, n)
           rest == n - share[1] - (IF Len(s) = 2 THEN share[2] ELSE 0)
<1>1. /\ TypeInv /\ RunInv(t) /\ tx[t].pc = "commit" /\ tx[t].pc \in InTx /\ s \in Subjects
      /\ limit' = limit /\ today' = today
  BY DEF RefInv, Commit, InTx, RunInv, Planned
<1>2. tx \in [Txn -> TxState] /\ t \in Txn /\ cap \in [Account -> Limit] /\ d \in Day
  BY <1>1 DEF TypeInv, TypeOK, Txn, TxState
<1>3. n \in 0..MaxTokens /\ (tx[t].bill <=> s \notin Exempt) BY <1>1 DEF RunInv, Planned
<1>4. cap \in Ledger!Plans
  <2> DEFINE lim == [c \in Chats |-> cap[c]]
  <2>1. lim \in [Chats -> ChatLimits \cup {0}] BY <1>1 DEF RunInv, Planned
  <2>2. \A a \in Account : cap[a] = IF a \in Users THEN limit[a] ELSE lim[a]
    BY <1>1 DEF RunInv, Planned, Account
  <2>3. cap = [a \in Account |-> IF a \in Users THEN limit[a] ELSE lim[a]] BY <1>2, <2>2
  <2>4. Ledger!Account = Account BY DEF Ledger!Account, Account
  <2> HIDE DEF lim
  <2> QED BY <2>1, <2>3, <2>4 DEF Ledger!Plans
<1>5. d \in Ledger!Day BY <1>2 DEF Ledger!Day, Day
<1>6. (\A k \in 1..Len(s) : share[k] = Share(t, k)) /\ rest = Rest(t)
  BY <1>1, SameShares
<1>7. Billed(t) <=> ~(s \in Exempt \/ cap[s[1]] = Ledger!Unlimited)
  BY <1>3 DEF Billed, Ledger!Unlimited, Unlimited
<1> HIDE DEF share
<1>8. CASE Billed(t)
  <2>1. (\A k \in 1..Len(s) : Wrote(t, k, Share(t, k))) /\ Drawn(t)
    BY <1>1, <1>8 DEF RunInv, AtCommit
  <2>2. Ledger!Record(s, d, n, share) BY <1>1, <1>6, <2>1, CommitRecords
  <2>3. PICK own \in 0..Rest(t) : MayGive(t, own) /\ Paid(t, own, Rest(t) - own)
    BY <2>1 DEF Drawn
  <2>4. Rest(t) \in Nat BY <1>1, Shares
  <2>5. own \in Nat /\ Rest(t) - own \in Nat BY <2>3, <2>4
  <2>6. Ledger!Debit(s, own, Rest(t) - own) BY <1>1, <2>3, <2>5, CommitDebits
  <2>7. own > 0 => Len(s) = 2 /\ own <= credit[s[1]].balance BY <2>3 DEF MayGive
  <2>8. own \in 0..rest /\ Ledger!Debit(s, own, rest - own) BY <1>6, <2>3, <2>6
  <2> HIDE DEF rest
  <2>9. Ledger!Settle(s, d, cap, n)
    BY <1>1, <1>7, <1>8, <2>2, <2>7, <2>8 DEF Ledger!Settle, share, rest
  <2> HIDE DEF s, d, cap, n
  <2> QED BY <1>1, <1>3, <1>4, <1>5, <2>9
<1>9. CASE ~Billed(t)
  <2> DEFINE none == [k \in 1..Len(s) |-> 0]
  <2>1. \A k \in 1..Len(s) : Wrote(t, k, none[k]) BY <1>1, <1>9 DEF RunInv, AtCommit
  <2>2. Ledger!Record(s, d, n, none) BY <1>1, <2>1, CommitRecords
  <2>3. credit' = credit
    <3>1. \A a \in Account : creditLock[a] # t BY <1>1, <1>9 DEF RunInv, AtCommit
    <3>2. credit' = [a \in Account |-> credit[a]] BY <3>1 DEF Commit
    <3> QED BY <1>1, <3>2 DEF TypeInv, TypeOK
  <2>4. Ledger!Settle(s, d, cap, n) BY <1>1, <1>7, <1>9, <2>2, <2>3 DEF Ledger!Settle
  <2> HIDE DEF s, d, cap, n
  <2> QED BY <1>1, <1>3, <1>4, <1>5, <2>4
<1> QED BY <1>8, <1>9

\* The commit of an edit grants a difference, or nothing.
LEMMA CommitIsGrant ==
  ASSUME RefInv, NEW t \in Edits, Commit(t)
  PROVE  \/ UNCHANGED Ledger!vars
         \/ \E a \in Ledger!Account, n \in TopUps : Ledger!Grant(a, n)
         \/ \E a \in Ledger!Account, n \in Balances : Ledger!Grant(a, n - credit[a].balance)
<1>1. TypeInv /\ EditInv(t) /\ today' = today /\ limit' = limit BY DEF RefInv, Commit
<1>2. usage \in [Row -> UsageRow] /\ credit \in [Account -> CreditRow] BY <1>1 DEF TypeInv, TypeOK
<1>3. usage' = usage
  <2>1. \A r \in Row : usageLock[r] # t BY <1>1 DEF EditInv
  <2>2. usage' = [r \in Row |-> usage[r]] BY <2>1 DEF Commit
  <2> QED BY <1>2, <2>2
<1>4. CASE \A a \in Account : creditLock[a] # t
  <2>1. credit' = [a \in Account |-> credit[a]] BY <1>4 DEF Commit
  <2> QED BY <1>1, <1>2, <1>3, <2>1 DEF Ledger!vars
<1>5. ASSUME NEW a \in Account, creditLock[a] = t
      PROVE  \/ \E b \in Ledger!Account, n \in TopUps : Ledger!Grant(b, n)
             \/ \E b \in Ledger!Account, n \in Balances : Ledger!Grant(b, n - credit[b].balance)
  <2>1. PICK x \in TopUps \cup {m - credit[a].balance : m \in Balances} :
          creditW[a] = Plus(credit[a], x)
    BY <1>1, <1>5 DEF EditInv
  <2>2. \A b \in Account : creditLock[b] = t => b = a BY <1>1, <1>5 DEF EditInv
  <2>3. x \in Int /\ credit[a] \in CreditRow
    <3>1. credit[a] \in CreditRow BY <1>2
    <3>2. credit[a].balance \in Int BY <3>1 DEF CreditRow
    <3>3. CASE x \in TopUps BY <3>1, <3>3, BoundsOK
    <3>4. ASSUME NEW m \in Balances, x = m - credit[a].balance PROVE x \in Int
      BY <3>2, <3>4, BoundsOK
    <3> QED BY <2>1, <3>1, <3>3, <3>4
  <2>4. credit' = [credit EXCEPT ![a] = Plus(credit[a], x)] BY <1>2, <1>5, <2>1, <2>2 DEF Commit
  <2>5. [credit[a] EXCEPT !.balance = @ + x, !.granted = @ + x] = Plus(credit[a], x)
    BY <2>3, Effects
  <2>6. credit' = [credit EXCEPT ![a].balance = @ + x, ![a].granted = @ + x]
    <3> DEFINE c1 == [credit EXCEPT ![a] = [credit[a] EXCEPT !.balance = credit[a].balance + x]]
    <3>1. c1[a] = [credit[a] EXCEPT !.balance = credit[a].balance + x] BY <1>2
    <3>2. [c1 EXCEPT ![a] = [c1[a] EXCEPT !.granted = c1[a].granted + x]]
            = [credit EXCEPT ![a] = Plus(credit[a], x)]
      BY <1>2, <2>3, <2>5, <3>1 DEF CreditRow
    <3> QED BY <2>4, <3>2
  <2>7. Ledger!Grant(a, x) BY <1>1, <1>3, <2>6 DEF Ledger!Grant
  <2>8. a \in Ledger!Account BY DEF Ledger!Account, Account
  <2> QED BY <2>1, <2>7, <2>8
<1> QED BY <1>4, <1>5

\* Every step is a step of the ledger or none.
LEMMA LedgerSimulates == RefInv /\ [Next]_vars => [Ledger!Next]_(Ledger!vars)
<1> SUFFICES ASSUME RefInv, [Next]_vars PROVE [Ledger!Next]_(Ledger!vars)
  OBVIOUS
<1>1. CASE UNCHANGED vars BY <1>1 DEF vars, rows, Ledger!vars
<1>2. CASE NewDay BY <1>2 DEF NewDay, rows, Ledger!Next, Ledger!NewDay
<1>3. CASE \E c \in Chats, n \in ChatLimits : SetChatLimit(c, n)
  BY <1>3 DEF SetChatLimit, rows, Ledger!Next, Ledger!SetChatLimit
<1>4. ASSUME NEW t \in Runs, \/ \E s \in Subjects : Start(t, s)
                             \/ \E n \in 0..MaxTokens : Settle(t, n)
                             \/ RunFails(t) \/ Charge(t)
      PROVE  UNCHANGED Ledger!vars
  BY <1>4 DEF Start, Settle, RunFails, Charge, RecordUsage, FreeRead, FreeWrite, CreditRead,
     CreditCas, CreditDebt, rows, Ledger!vars
<1>5. ASSUME NEW t \in Edits, \/ \E a \in Account, n \in Balances : SetCredit(t, a, n)
                              \/ \E a \in Account, n \in TopUps : AdjustCredits(t, a, n)
                              \/ SetAgain(t) \/ SetCas(t)
      PROVE  UNCHANGED Ledger!vars
  BY <1>5 DEF SetCredit, AdjustCredits, SetAgain, SetCas, rows, Ledger!vars
<1>6. ASSUME NEW t \in Txn, Rollback(t) PROVE UNCHANGED Ledger!vars
  BY <1>6 DEF Rollback, Ledger!vars
<1>7. ASSUME NEW t \in Txn, Commit(t) PROVE [Ledger!Next]_(Ledger!vars)
  <2>1. CASE t \in Runs BY <1>7, <2>1, CommitIsCharge DEF Ledger!Next
  <2>2. CASE t \in Edits BY <1>7, <2>2, CommitIsGrant DEF Ledger!Next
  <2> QED BY <2>1, <2>2 DEF Txn
<1> QED BY <1>1, <1>2, <1>3, <1>4, <1>5, <1>6, <1>7 DEF Next

\* What is committed is a ledger: every settlement and every edit takes effect
\* in one step, as charge_tokens and set_credit promise.
THEOREM Implements == Spec => ImplementsLedger
<1>1. Init => Ledger!Init
  <2>1. Ledger!Account = Account /\ Ledger!Account \X Ledger!Day = Row
    BY DEF Ledger!Account, Ledger!Day, Account, Day, Row
  <2> QED BY <2>1 DEF Init, Ledger!Init, NoUsage, NoCredit
<1> QED BY <1>1, InitRef, NextRef, LedgerSimulates, PTL DEF Spec, ImplementsLedger, Ledger!Spec

----------------------------------------------------------------------------
\* Sums over finite sets.  SumFunctionOnSet is a fold, defined by a recursive
\* function on the subsets of its set; that there is such a function, and what
\* it does, follow from every set of finite sets having a least one.

\* What a sum adds first, and what it is to be that function.
One(s) == CHOOSE x \in s : TRUE
Without(s) == s \ {One(s)}
Adds(g, f, D) ==
  g = [s \in SUBSET D |-> IF s = {} THEN 0 ELSE f[One(s)] + g[Without(s)]]
Adder(f, D) == CHOOSE g : Adds(g, f, D)

\* A sum is the value of that function, if there is one.
LEMMA SumIs ==
  ASSUME NEW f, NEW D
  PROVE  SumFunctionOnSet(f, D) = Adder(f, D)[D]
BY Zenon DEF SumFunctionOnSet, FoldFunctionOnSet, MapThenFoldSet, Adder, Adds, Without, One

\* Among subsets of a finite set one has none of the others below it.
LEMMA Least ==
  ASSUME NEW D, IsFiniteSet(D), NEW T \in SUBSET (SUBSET D), T # {}
  PROVE  \E s \in T : \A t \in T : ~(t \subseteq s /\ t # s)
<1>1. T \subseteq FiniteSubsetsOf(D)
  BY FS_Subset DEF FiniteSubsetsOf
<1>2. IsWellFoundedOn(StrictSubsetOrdering(D), FiniteSubsetsOf(D))
  BY FS_StrictSubsetOrderingWellFounded
<1>3. PICK s \in T : \A t \in T : <<t, s>> \notin StrictSubsetOrdering(D)
  BY <1>1, <1>2, WFMin
<1> QED BY <1>3 DEF StrictSubsetOrdering

\* The element a sum takes is one of the set's, and leaves a smaller set.
LEMMA OneOf ==
  ASSUME NEW s, s # {}
  PROVE  One(s) \in s /\ Without(s) \subseteq s /\ Without(s) # s
BY DEF One, Without

\* There are no two such functions.
LEMMA AddersAgree ==
  ASSUME NEW D, IsFiniteSet(D), NEW T \in SUBSET D, NEW U \in SUBSET D, NEW f,
         NEW g, Adds(g, f, T), NEW h, Adds(h, f, U)
  PROVE  \A s \in SUBSET (T \cap U) : g[s] = h[s]
<1> DEFINE Bad == {s \in SUBSET (T \cap U) : g[s] # h[s]}
<1>1. SUFFICES ASSUME Bad # {} PROVE FALSE
  OBVIOUS
<1>2. PICK s \in Bad : \A t \in Bad : ~(t \subseteq s /\ t # s)
  <2>1. Bad \in SUBSET (SUBSET D)
    OBVIOUS
  <2> HIDE DEF Bad
  <2> QED BY <1>1, <2>1, Least
<1>3. /\ g[s] = IF s = {} THEN 0 ELSE f[One(s)] + g[Without(s)]
      /\ h[s] = IF s = {} THEN 0 ELSE f[One(s)] + h[Without(s)]
  BY <1>2 DEF Adds
<1>4. s # {} /\ Without(s) \in SUBSET (T \cap U) /\ Without(s) \notin Bad
  BY <1>2, <1>3, OneOf
<1> QED BY <1>2, <1>3, <1>4

\* There is one.
LEMMA AdderAdds ==
  ASSUME NEW D, IsFiniteSet(D), NEW f
  PROVE  Adds(Adder(f, D), f, D)
<1> DEFINE Bad == {T \in SUBSET D : ~Adds(Adder(f, T), f, T)}
<1>1. SUFFICES ASSUME Bad # {} PROVE FALSE
  OBVIOUS
<1>2. PICK T \in Bad : \A U \in Bad : ~(U \subseteq T /\ U # T)
  <2>1. Bad \in SUBSET (SUBSET D)
    OBVIOUS
  <2> HIDE DEF Bad
  <2> QED BY <1>1, <2>1, Least
<1> DEFINE sum(s) == Adder(f, s)[s]
           h == [s \in SUBSET T |-> IF s = {} THEN 0 ELSE f[One(s)] + sum(Without(s))]
<1>3. ASSUME NEW u \in SUBSET T, u # T PROVE h[u] = sum(u)
  <2>1. Adds(Adder(f, u), f, u)
    BY <1>2, <1>3
  <2>2. sum(u) = IF u = {} THEN 0 ELSE f[One(u)] + Adder(f, u)[Without(u)]
    BY <2>1, OneOf DEF Adds
  <2>3. CASE u = {}
    BY <2>2, <2>3
  <2>4. CASE u # {}
    <3>1. Without(u) \in SUBSET u /\ Without(u) \in SUBSET T /\ Without(u) # T
      BY <1>3, <2>4, OneOf
    <3>2. Adds(Adder(f, Without(u)), f, Without(u))
      BY <1>2, <3>1
    <3>3. sum(Without(u)) = Adder(f, u)[Without(u)]
      BY <2>1, <3>1, <3>2, <1>2, AddersAgree
    <3> QED BY <2>2, <2>4, <3>3
  <2> QED BY <2>3, <2>4
<1>4. ASSUME NEW s \in SUBSET T PROVE h[s] = IF s = {} THEN 0 ELSE f[One(s)] + h[Without(s)]
  <2>1. s # {} => Without(s) \in SUBSET T /\ Without(s) # T
    BY OneOf
  <2> QED BY <1>3, <2>1
<1>5. Adds(h, f, T)
  <2>. HIDE DEF sum
  <2> QED BY <1>4, Zenon DEF Adds
<1>6. Adds(Adder(f, T), f, T)
  BY <1>5, Zenon DEF Adder
<1> QED BY <1>2, <1>6

\* The sum of nothing is 0; that of a set takes one element and goes on.
LEMMA SumStep ==
  ASSUME NEW D, IsFiniteSet(D), NEW f
  PROVE  SumFunctionOnSet(f, D) =
           IF D = {} THEN 0 ELSE f[One(D)] + SumFunctionOnSet(f, Without(D))
<1>1. Adds(Adder(f, D), f, D)
  BY AdderAdds
<1>2. Adder(f, D)[D] = IF D = {} THEN 0 ELSE f[One(D)] + Adder(f, D)[Without(D)]
  BY <1>1 DEF Adds
<1>3. ASSUME D # {} PROVE Adder(f, D)[Without(D)] = Adder(f, Without(D))[Without(D)]
  <2>1. Without(D) \in SUBSET D /\ IsFiniteSet(Without(D))
    BY FS_Subset DEF Without
  <2>2. Adds(Adder(f, Without(D)), f, Without(D))
    BY <2>1, AdderAdds
  <2> QED BY <1>1, <2>1, <2>2, AddersAgree
<1> QED BY <1>2, <1>3, SumIs

\* A sum of integers is one.
LEMMA SumType ==
  ASSUME NEW D, IsFiniteSet(D), NEW f, \A x \in D : f[x] \in Int
  PROVE  SumFunctionOnSet(f, D) \in Int
<1> DEFINE Bad == {s \in SUBSET D : SumFunctionOnSet(f, s) \notin Int}
<1>1. SUFFICES ASSUME Bad # {} PROVE FALSE
  OBVIOUS
<1>2. PICK s \in Bad : \A t \in Bad : ~(t \subseteq s /\ t # s)
  <2>1. Bad \in SUBSET (SUBSET D)
    OBVIOUS
  <2> HIDE DEF Bad
  <2> QED BY <1>1, <2>1, Least
<1>3. SumFunctionOnSet(f, s) = IF s = {} THEN 0 ELSE f[One(s)] + SumFunctionOnSet(f, Without(s))
  BY <1>2, SumStep, FS_Subset
<1>4. s # {} => /\ One(s) \in D /\ Without(s) \in SUBSET D
                /\ Without(s) \notin Bad
  BY <1>2, OneOf
<1> QED BY <1>2, <1>3, <1>4

\* Any element may be taken first.
LEMMA SumTakes ==
  ASSUME NEW D, IsFiniteSet(D), NEW f, \A x \in D : f[x] \in Int, NEW x \in D
  PROVE  SumFunctionOnSet(f, D) = f[x] + SumFunctionOnSet(f, D \ {x})
<1> DEFINE Sum(s) == SumFunctionOnSet(f, s)
           Bad == {s \in SUBSET D : \E y \in s : Sum(s) # f[y] + Sum(s \ {y})}
<1>1. SUFFICES ASSUME Bad # {} PROVE FALSE
  OBVIOUS
<1>2. PICK s \in Bad : \A t \in Bad : ~(t \subseteq s /\ t # s)
  <2>1. Bad \in SUBSET (SUBSET D)
    OBVIOUS
  <2> HIDE DEF Bad
  <2> QED BY <1>1, <2>1, Least
<1>3. PICK y \in s : Sum(s) # f[y] + Sum(s \ {y})
  BY <1>2
<1>4. \A t \in SUBSET D : /\ Sum(t) \in Int
                          /\ t # {} => Sum(t) = f[One(t)] + Sum(Without(t))
  BY SumStep, SumType, FS_Subset
<1>5. One(s) \in s /\ Sum(s) = f[One(s)] + Sum(s \ {One(s)}) /\ s \in SUBSET D
  BY <1>2, <1>3, <1>4, OneOf DEF Without
<1>6. CASE y = One(s)
  BY <1>3, <1>5, <1>6
<1>7. CASE y # One(s)
  <2> DEFINE z == One(s)
  <2>1. s \ {z} \in SUBSET D /\ s \ {z} \notin Bad /\ y \in s \ {z}
    BY <1>2, <1>5, <1>7
  <2>2. s \ {y} \in SUBSET D /\ s \ {y} \notin Bad /\ z \in s \ {y}
    BY <1>2, <1>3, <1>5, <1>7
  <2> DEFINE r == (s \ {z}) \ {y}
  <2>3. r = (s \ {y}) \ {z} /\ r \in SUBSET D
    BY <1>5
  <2>4. Sum(s \ {z}) = f[y] + Sum(r)
    BY <2>1
  <2>5. Sum(s \ {y}) = f[z] + Sum(r)
    BY <2>2, <2>3
  <2>6. f[y] \in Int /\ f[z] \in Int /\ Sum(r) \in Int
    BY <1>3, <1>4, <1>5, <2>3
  <2>7. Sum(s) = f[z] + Sum(s \ {z})
    BY <1>5
  <2> HIDE DEF Sum, z, r
  <2>8. Sum(s) = f[y] + Sum(s \ {y})
    BY <2>4, <2>5, <2>6, <2>7
  <2> QED BY <1>3, <2>8 DEF Sum
<1> QED BY <1>6, <1>7

\* A sum depends on the values in its set alone.
LEMMA SumSame ==
  ASSUME NEW D, IsFiniteSet(D), NEW f, NEW g, \A x \in D : f[x] = g[x]
  PROVE  SumFunctionOnSet(f, D) = SumFunctionOnSet(g, D)
<1> DEFINE Bad == {s \in SUBSET D : SumFunctionOnSet(f, s) # SumFunctionOnSet(g, s)}
<1>1. SUFFICES ASSUME Bad # {} PROVE FALSE
  OBVIOUS
<1>2. PICK s \in Bad : \A t \in Bad : ~(t \subseteq s /\ t # s)
  <2>1. Bad \in SUBSET (SUBSET D)
    OBVIOUS
  <2> HIDE DEF Bad
  <2> QED BY <1>1, <2>1, Least
<1>3. /\ SumFunctionOnSet(f, s) = IF s = {} THEN 0 ELSE f[One(s)] + SumFunctionOnSet(f, Without(s))
      /\ SumFunctionOnSet(g, s) = IF s = {} THEN 0 ELSE g[One(s)] + SumFunctionOnSet(g, Without(s))
  BY <1>2, SumStep, FS_Subset
<1>4. s # {} => /\ One(s) \in D /\ Without(s) \in SUBSET D
                /\ Without(s) \notin Bad
  BY <1>2, OneOf
<1> QED BY <1>2, <1>3, <1>4

\* A sum whose set gains an element grows by its value.
LEMMA SumGrows ==
  ASSUME NEW D, IsFiniteSet(D), NEW f, NEW x, x \notin D, \A y \in D \cup {x} : f[y] \in Int
  PROVE  SumFunctionOnSet(f, D \cup {x}) = f[x] + SumFunctionOnSet(f, D)
<1>1. IsFiniteSet(D \cup {x}) /\ (D \cup {x}) \ {x} = D
  BY FS_AddElement
<1> QED BY <1>1, SumTakes

\* A sum of which one value changes, changes by as much.
LEMMA SumChanges ==
  ASSUME NEW D, IsFiniteSet(D), NEW f, NEW g, NEW x \in D,
         \A y \in D : f[y] \in Int /\ g[y] \in Int,
         \A y \in D : y # x => g[y] = f[y]
  PROVE  SumFunctionOnSet(g, D) = SumFunctionOnSet(f, D) + (g[x] - f[x])
<1>1. IsFiniteSet(D \ {x})
  BY FS_RemoveElement
<1>2. SumFunctionOnSet(f, D \ {x}) = SumFunctionOnSet(g, D \ {x})
  BY <1>1, SumSame
<1>3. /\ SumFunctionOnSet(f, D) = f[x] + SumFunctionOnSet(f, D \ {x})
      /\ SumFunctionOnSet(g, D) = g[x] + SumFunctionOnSet(g, D \ {x})
  BY SumTakes
<1>4. SumFunctionOnSet(f, D \ {x}) \in Int
  BY <1>1, SumType
<1> QED BY <1>2, <1>3, <1>4

\* f and g are integers on D and differ at most at x, or at x and y.
DifferAt(f, g, D, x) ==
  x \in D /\ \A z \in D : f[z] \in Int /\ g[z] \in Int /\ (z # x => g[z] = f[z])
DifferAtTwo(f, g, D, x, y) ==
  /\ x \in D /\ y \in D /\ x # y
  /\ \A z \in D : f[z] \in Int /\ g[z] \in Int /\ (z # x /\ z # y => g[z] = f[z])

\* Their sums differ by as much.
LEMMA SumDiffers ==
  ASSUME NEW D, IsFiniteSet(D), NEW f, NEW g, NEW x, DifferAt(f, g, D, x)
  PROVE  SumFunctionOnSet(g, D) = SumFunctionOnSet(f, D) + (g[x] - f[x])
BY SumChanges DEF DifferAt

\* A sum of which two values change, changes by both.
LEMMA SumDiffersTwice ==
  ASSUME NEW D, IsFiniteSet(D), NEW f, NEW g, NEW x, NEW y, DifferAtTwo(f, g, D, x, y)
  PROVE  SumFunctionOnSet(g, D) = SumFunctionOnSet(f, D) + (g[x] - f[x]) + (g[y] - f[y])
<1> DEFINE h == [z \in D |-> IF z = x THEN g[x] ELSE f[z]]
<1>1. \A z \in D : h[z] = IF z = x THEN g[x] ELSE f[z]
  OBVIOUS
<1>2. x \in D /\ y \in D /\ x # y
  BY DEF DifferAtTwo
<1> HIDE DEF h
<1>3. SumFunctionOnSet(h, D) = SumFunctionOnSet(f, D) + (h[x] - f[x])
  <2>1. DifferAt(f, h, D, x)
    BY <1>1 DEF DifferAt, DifferAtTwo
  <2> QED BY <2>1, SumDiffers
<1>4. SumFunctionOnSet(g, D) = SumFunctionOnSet(h, D) + (g[y] - h[y])
  <2>1. DifferAt(h, g, D, y)
    BY <1>1 DEF DifferAt, DifferAtTwo
  <2> QED BY <2>1, SumDiffers
<1>5. \A z \in D : f[z] \in Int /\ g[z] \in Int
  BY DEF DifferAtTwo
<1>6. SumFunctionOnSet(f, D) \in Int
  BY <1>5, SumType
<1> QED BY <1>1, <1>2, <1>3, <1>4, <1>5, <1>6

-----------------------------------------------------------------------------
\* Conservation: the settlements that are committed were charged what they used,
\* all of them together.  A commit adds one run to them and, by AtCommit, as
\* much to the rows; no other step changes either.

\* The rows are finitely many.
LEMMA RowsFinite == IsFiniteSet(Row)
<1>1. IsFiniteSet(Day)
  BY BoundsOK, FS_Interval DEF Day
<1> QED BY <1>1, FS_Product, FinitelyMany DEF Row

\* What is summed are integers.
LEMMA SumsTyped ==
  ASSUME TypeInv
  PROVE  /\ \A r \in Row : usage[r].free \in Int /\ usage[r].tokens \in Int
         /\ \A a \in Account : credit[a].spent \in Int
         /\ \A t \in Runs : tx[t].need \in Int
BY DEF TypeInv, TypeOK, UsageRow, CreditRow, TxState, Txn

\* A step that changes no usage, takes from no balance and ends no run.
Leaves == /\ \A r \in Row : usage'[r] = usage[r]
          /\ \A a \in Account : credit'[a].spent = credit[a].spent
          /\ \A t \in Runs : /\ tx'[t].pc = "done" <=> tx[t].pc = "done"
                             /\ tx[t].pc = "done" => tx'[t] = tx[t]

\* The needs of committed runs do not change.
LEMMA NeedsStay ==
  ASSUME NEW T \in SUBSET Runs, \A t \in T : tx'[t].need = tx[t].need
  PROVE  SumFunctionOnSet([t \in Runs |-> tx'[t].need], T)
           = SumFunctionOnSet([t \in Runs |-> tx[t].need], T)
<1>1. IsFiniteSet(T)
  BY FS_Subset, FinitelyMany
<1> QED BY <1>1, SumSame

\* Such a step keeps what was charged.
LEMMA LeavesSettled ==
  ASSUME SettledInFull, Leaves
  PROVE  SettledInFull'
<1>1. [r \in Row |-> usage'[r].free] = [r \in Row |-> usage[r].free]
  BY DEF Leaves
<1>2. [a \in Account |-> credit'[a].spent] = [a \in Account |-> credit[a].spent]
  BY DEF Leaves
<1>3. Needs(Charged)' = Needs(Charged)
  <2>1. Charged' = Charged /\ Charged \in SUBSET Runs /\ \A t \in Charged : tx'[t].need = tx[t].need
    BY DEF Leaves, Charged
  <2> QED BY <2>1, NeedsStay DEF Needs
<1>4. ChargedInFull'
  BY <1>1, <1>2, <1>3 DEF ChargedInFull, SettledInFull
<1>5. ASSUME NEW r \in Row PROVE usage'[r].tokens = Needs(Recorded(r))'
  <2>1. Recorded(r)' = Recorded(r) /\ Recorded(r) \in SUBSET Runs
        /\ \A t \in Recorded(r) : tx'[t].need = tx[t].need
    BY DEF Leaves, Recorded
  <2> QED BY <2>1, NeedsStay DEF Leaves, SettledInFull, RecordedOnce, Needs
<1> QED BY <1>4, <1>5 DEF SettledInFull, RecordedOnce

\* The needs of the runs in a set that gains t.
LEMMA NeedsGrow ==
  ASSUME TypeInv, NEW T \in SUBSET Runs, NEW t \in Runs, t \notin T,
         \A u \in T \cup {t} : tx'[u].need = tx[u].need
  PROVE  SumFunctionOnSet([u \in Runs |-> tx'[u].need], T \cup {t})
           = SumFunctionOnSet([u \in Runs |-> tx[u].need], T) + tx[t].need
<1> DEFINE f == [u \in Runs |-> tx[u].need]
<1>1. IsFiniteSet(T) /\ T \cup {t} \in SUBSET Runs
  BY FS_Subset, FinitelyMany
<1>2. SumFunctionOnSet([u \in Runs |-> tx'[u].need], T \cup {t}) = SumFunctionOnSet(f, T \cup {t})
  BY <1>1, NeedsStay
<1>3. \A u \in T \cup {t} : f[u] = tx[u].need /\ f[u] \in Int
  BY <1>1, SumsTyped
<1> HIDE DEF f
<1>4. SumFunctionOnSet(f, T \cup {t}) = f[t] + SumFunctionOnSet(f, T) /\ SumFunctionOnSet(f, T) \in Int
  BY <1>1, <1>3, SumGrows, SumType
<1>5. SumFunctionOnSet(f, T \cup {t}) = SumFunctionOnSet(f, T) + tx[t].need
  BY <1>3, <1>4
<1> QED BY <1>2, <1>5 DEF f

----------------------------------------------------------------------------
\* The commit of a run.

\* What payer k gives for free.
Gives(t, k) == IF Billed(t) THEN Share(t, k) ELSE 0

\* It makes committed what it wrote, and nothing else of the usage.
LEMMA CommitUsage ==
  ASSUME RefInv, NEW t \in Runs, Commit(t)
  PROVE  /\ \A k \in 1..Len(tx[t].payers) :
              /\ usage'[RowOf(t, k)].free = usage[RowOf(t, k)].free + Gives(t, k)
              /\ usage'[RowOf(t, k)].tokens = usage[RowOf(t, k)].tokens + tx[t].need
         /\ \A r \in Row : (\A k \in 1..Len(tx[t].payers) : r # RowOf(t, k))
                             => usage'[r] = usage[r]
<1>1. RunInv(t) /\ tx[t].pc = "commit" /\ tx[t].pc \in InTx /\ TypeInv /\ tx[t].payers \in Subjects
  BY DEF RefInv, Commit, InTx, RunInv, Planned
<1>2. \A r \in Row : usage'[r] = IF usageLock[r] = t THEN usageW[r] ELSE usage[r]
  BY DEF Commit
<1>3. \A k \in 1..Len(tx[t].payers) : Wrote(t, k, Gives(t, k)) /\ RowOf(t, k) \in Row
  BY <1>1, PayersOf DEF RunInv, AtCommit, Gives
<1>4. \A r \in Row : usageLock[r] = t => \E k \in 1..Len(tx[t].payers) : r = RowOf(t, k)
  BY <1>1 DEF RunInv, OwnRows
<1>5. ASSUME NEW k \in 1..Len(tx[t].payers)
      PROVE  /\ usage'[RowOf(t, k)].free = usage[RowOf(t, k)].free + Gives(t, k)
             /\ usage'[RowOf(t, k)].tokens = usage[RowOf(t, k)].tokens + tx[t].need
  <2>1. RowOf(t, k) \in Row /\ usageLock[RowOf(t, k)] = t
        /\ usageW[RowOf(t, k)] = Image(t, k, Gives(t, k))
    BY <1>3 DEF Wrote, Holds
  <2>2. usage'[RowOf(t, k)] = Image(t, k, Gives(t, k))
    BY <1>2, <2>1
  <2> QED BY <2>2 DEF Image
<1> QED BY <1>2, <1>4, <1>5

\* What it takes from the balances.
LEMMA CommitCredit ==
  ASSUME RefInv, NEW t \in Runs, Commit(t)
  PROVE  IF Billed(t)
           THEN \E own \in 0..Rest(t) :
                  /\ own > 0 => Len(tx[t].payers) = 2
                  /\ \A a \in Account :
                       credit'[a].spent = credit[a].spent + Part(t, own, Rest(t) - own, a)
           ELSE \A a \in Account : credit'[a].spent = credit[a].spent
<1>1. RunInv(t) /\ tx[t].pc = "commit" /\ TypeInv
  BY DEF RefInv, Commit
<1>2. \A a \in Account : credit'[a] = IF creditLock[a] = t THEN creditW[a] ELSE credit[a]
  BY DEF Commit
<1>3. CASE ~Billed(t)
  BY <1>1, <1>2, <1>3 DEF RunInv, AtCommit
<1>4. CASE Billed(t)
  <2>1. PICK own \in 0..Rest(t) : MayGive(t, own) /\ Paid(t, own, Rest(t) - own)
    BY <1>1, <1>4 DEF RunInv, AtCommit, Drawn
  <2>2. ASSUME NEW a \in Account
        PROVE  credit'[a].spent = credit[a].spent + Part(t, own, Rest(t) - own, a)
    <3>1. CASE creditLock[a] = t
      <4>1. credit'[a] = Minus(credit[a], Part(t, own, Rest(t) - own, a))
        BY <1>2, <2>1, <3>1 DEF Paid
      <4> QED BY <4>1 DEF Minus
    <3>2. CASE creditLock[a] # t
      BY <1>1, <1>2, <2>1, <3>2, SumsTyped DEF Paid
    <3> QED BY <3>1, <3>2
  <2> QED BY <1>4, <2>1, <2>2 DEF MayGive
<1> QED BY <1>3, <1>4

\* What its payers give for free, added up.
LEMMA FreeAdds ==
  ASSUME RefInv, NEW t \in Runs, Commit(t)
  PROVE  SumFunctionOnSet([r \in Row |-> usage'[r].free], Row)
           = SumFunctionOnSet([r \in Row |-> usage[r].free], Row)
             + Gives(t, 1) + (IF Len(tx[t].payers) = 2 THEN Gives(t, 2) ELSE 0)
<1> DEFINE f == [r \in Row |-> usage[r].free]
           g == [r \in Row |-> usage'[r].free]
           s == tx[t].payers
<1>1. RunInv(t) /\ TypeInv /\ s \in Subjects
  BY DEF RefInv, Commit, InTx, RunInv, Planned
<1>2. TypeInv' /\ t \in Txn
  BY <1>1, NextType DEF Next, Txn
<1>3. \A r \in Row : f[r] \in Int /\ g[r] \in Int /\ f[r] = usage[r].free /\ g[r] = usage'[r].free
  BY <1>1, <1>2, SumsTyped DEF TypeInv, TypeOK, UsageRow
<1>4. IsFiniteSet(Row)
  BY RowsFinite
<1>5. Len(s) \in {1, 2} /\ 1 \in 1..Len(s) /\ (Len(s) = 2 => 2 \in 1..Len(s))
  BY <1>1, PayersOf
<1>6. SumFunctionOnSet(f, Row) \in Int /\ Gives(t, 1) \in Int /\ (Len(s) = 2 => Gives(t, 2) \in Int)
  BY <1>1, <1>3, <1>4, <1>5, Shares, SumType DEF Gives
<1>7. CASE Len(s) = 1
  <2>1. RowOf(t, 1) \in Row /\ g[RowOf(t, 1)] = f[RowOf(t, 1)] + Gives(t, 1)
    BY <1>1, <1>3, <1>5, CommitUsage, PayersOf
  <2>2. \A r \in Row : r # RowOf(t, 1) => g[r] = f[r]
    <3>1. \A k \in 1..Len(s) : k = 1
      BY <1>7
    <3> QED BY <1>3, <3>1, CommitUsage
  <2> HIDE DEF f, g
  <2>3. SumFunctionOnSet(g, Row) = SumFunctionOnSet(f, Row) + (g[RowOf(t, 1)] - f[RowOf(t, 1)])
    <3>1. DifferAt(f, g, Row, RowOf(t, 1))
      BY <1>3, <2>1, <2>2 DEF DifferAt
    <3> QED BY <1>4, <3>1, SumDiffers
  <2>4. SumFunctionOnSet(g, Row) = SumFunctionOnSet(f, Row) + Gives(t, 1) + 0
    BY <1>3, <1>6, <2>1, <2>3
  <2> QED BY <1>7, <2>4 DEF f, g
<1>8. CASE Len(s) = 2
  <2>1. /\ RowOf(t, 1) \in Row /\ g[RowOf(t, 1)] = f[RowOf(t, 1)] + Gives(t, 1)
        /\ RowOf(t, 2) \in Row /\ g[RowOf(t, 2)] = f[RowOf(t, 2)] + Gives(t, 2)
        /\ RowOf(t, 1) # RowOf(t, 2)
    BY <1>1, <1>3, <1>5, <1>8, CommitUsage, PayersOf
  <2>2. \A r \in Row : r # RowOf(t, 1) /\ r # RowOf(t, 2) => g[r] = f[r]
    <3>1. \A k \in 1..Len(s) : k = 1 \/ k = 2
      BY <1>8
    <3> QED BY <1>3, <3>1, CommitUsage
  <2> HIDE DEF f, g
  <2>3. SumFunctionOnSet(g, Row) = SumFunctionOnSet(f, Row) + (g[RowOf(t, 1)] - f[RowOf(t, 1)])
                                     + (g[RowOf(t, 2)] - f[RowOf(t, 2)])
    <3>1. DifferAtTwo(f, g, Row, RowOf(t, 1), RowOf(t, 2))
      BY <1>3, <2>1, <2>2 DEF DifferAtTwo
    <3> QED BY <1>4, <3>1, SumDiffersTwice
  <2>4. SumFunctionOnSet(g, Row) = SumFunctionOnSet(f, Row) + Gives(t, 1) + Gives(t, 2)
    BY <1>3, <1>6, <1>8, <2>1, <2>3
  <2> QED BY <1>8, <2>4 DEF f, g
<1> QED BY <1>5, <1>7, <1>8

\* What it takes from the balances, added up.
LEMMA SpentAdds ==
  ASSUME RefInv, NEW t \in Runs, Commit(t)
  PROVE  SumFunctionOnSet([a \in Account |-> credit'[a].spent], Account)
           = SumFunctionOnSet([a \in Account |-> credit[a].spent], Account)
             + (IF Billed(t) THEN Rest(t) ELSE 0)
<1> DEFINE f == [a \in Account |-> credit[a].spent]
           g == [a \in Account |-> credit'[a].spent]
           s == tx[t].payers
<1>1. RunInv(t) /\ TypeInv /\ s \in Subjects
  BY DEF RefInv, Commit, InTx, RunInv, Planned
<1>2. TypeInv'
  BY <1>1, NextType DEF Next, Txn
<1>3. \A a \in Account : f[a] \in Int /\ g[a] \in Int /\ f[a] = credit[a].spent /\ g[a] = credit'[a].spent
  BY <1>1, <1>2, SumsTyped DEF TypeInv, TypeOK, CreditRow
<1>4. IsFiniteSet(Account) /\ Rest(t) \in Nat
  BY <1>1, Shares, FinitelyMany
<1>5. Len(s) \in {1, 2} /\ s[1] \in Account /\ (Len(s) = 2 => s[2] \in Account /\ s[1] # s[2])
  BY <1>1, PayersOf
<1>6. SumFunctionOnSet(f, Account) \in Int
  BY <1>3, <1>4, SumType
<1>7. CASE ~Billed(t)
  <2>1. f = g
    BY <1>7, CommitCredit
  <2> QED BY <1>6, <1>7, <2>1
<1>8. CASE Billed(t)
  <2>1. PICK own \in 0..Rest(t) :
          /\ own > 0 => Len(s) = 2
          /\ \A a \in Account : credit'[a].spent = credit[a].spent + Part(t, own, Rest(t) - own, a)
    BY <1>8, CommitCredit
  <2>2. \A a \in Account : f[a] \in Int /\ g[a] \in Int
    BY <1>3
  <2>3. CASE Len(s) = 1
    <3>1. own = 0
      BY <1>4, <2>1, <2>3
    <3>2. \A a \in Account : Part(t, own, Rest(t) - own, a) = IF a = s[1] THEN Rest(t) ELSE 0
      BY <1>4, <2>3, <3>1 DEF Part
    <3>3. /\ g[s[1]] = f[s[1]] + Rest(t)
          /\ \A a \in Account : a # s[1] => g[a] = f[a]
      BY <1>3, <1>5, <2>1, <3>2
    <3> HIDE DEF f, g, s
    <3>4. SumFunctionOnSet(g, Account) = SumFunctionOnSet(f, Account) + (g[s[1]] - f[s[1]])
      <4>1. DifferAt(f, g, Account, s[1])
        BY <1>5, <2>2, <3>3 DEF DifferAt
      <4> QED BY <1>4, <4>1, SumDiffers
    <3>5. SumFunctionOnSet(g, Account) = SumFunctionOnSet(f, Account) + Rest(t)
      BY <1>4, <1>5, <1>6, <2>2, <3>3, <3>4
    <3> QED BY <1>8, <3>5 DEF f, g
  <2>4. CASE Len(s) = 2
    <3>1. \A a \in Account : Part(t, own, Rest(t) - own, a) =
            IF a = s[2] THEN Rest(t) - own ELSE IF a = s[1] THEN own ELSE 0
      BY <2>4 DEF Part
    <3>2. /\ g[s[1]] = f[s[1]] + own /\ g[s[2]] = f[s[2]] + (Rest(t) - own)
          /\ \A a \in Account : a # s[1] /\ a # s[2] => g[a] = f[a]
      BY <1>3, <1>5, <2>1, <2>4, <3>1
    <3> DEFINE x == s[1]
               y == s[2]
    <3>3. x \in Account /\ y \in Account /\ x # y
      BY <1>5, <2>4
    <3>4. g[x] = f[x] + own /\ g[y] = f[y] + (Rest(t) - own)
          /\ \A a \in Account : a # x /\ a # y => g[a] = f[a]
      BY <3>2
    <3> HIDE DEF f, g, s, x, y
    <3>5. SumFunctionOnSet(g, Account) = SumFunctionOnSet(f, Account) + (g[x] - f[x]) + (g[y] - f[y])
      <4>1. DifferAtTwo(f, g, Account, x, y)
        BY <2>2, <3>3, <3>4 DEF DifferAtTwo
      <4> QED BY <1>4, <4>1, SumDiffersTwice
    <3>6. SumFunctionOnSet(g, Account) = SumFunctionOnSet(f, Account) + Rest(t)
      BY <1>4, <1>6, <2>1, <2>2, <3>3, <3>4, <3>5
    <3> QED BY <1>8, <3>6 DEF f, g
  <2> QED BY <1>5, <2>3, <2>4
<1> QED BY <1>7, <1>8

\* So the commit of a run charges and records it in full.
LEMMA CommitSettled ==
  ASSUME RefInv, SettledInFull, NEW t \in Runs, Commit(t)
  PROVE  SettledInFull'
<1> DEFINE s == tx[t].payers
<1>1. RunInv(t) /\ TypeInv /\ s \in Subjects /\ tx[t].pc = "commit" /\ t \in Txn
  BY DEF RefInv, Commit, InTx, RunInv, Planned, Txn
<1>2. tx' = [tx EXCEPT ![t].pc = "done"] /\ tx \in [Txn -> TxState] /\ Runs \subseteq Txn
  BY <1>1 DEF Commit, TypeInv, TypeOK, Txn
<1>3. /\ tx'[t].pc = "done" /\ tx'[t].payers = tx[t].payers /\ tx'[t].bill = tx[t].bill
      /\ tx'[t].cap = tx[t].cap /\ tx'[t].day = tx[t].day /\ tx'[t].need = tx[t].need
      /\ \A u \in Runs : u # t => tx'[u] = tx[u]
  BY <1>1, <1>2 DEF TxState
<1>4. Charged' = (IF Billed(t) THEN Charged \cup {t} ELSE Charged) /\ t \notin Charged
      /\ Charged \in SUBSET Runs
  BY <1>1, <1>3 DEF Charged, Billed
<1>5. Needs(Charged)' = Needs(Charged) + (IF Billed(t) THEN tx[t].need ELSE 0)
  <2>1. CASE Billed(t)
    <3>1. \A u \in Charged \cup {t} : tx'[u].need = tx[u].need
      BY <1>3, <1>4
    <3> QED BY <1>1, <1>4, <2>1, <3>1, NeedsGrow DEF Needs
  <2>2. CASE ~Billed(t)
    <3>1. \A u \in Charged : tx'[u].need = tx[u].need
      BY <1>3, <1>4
    <3>2. SumFunctionOnSet([u \in Runs |-> tx[u].need], Charged) \in Int
      BY <1>1, <1>4, FS_Subset, SumsTyped, SumType, FinitelyMany
    <3> QED BY <1>1, <1>4, <2>2, <3>1, <3>2, NeedsStay DEF Needs
  <2> QED BY <2>1, <2>2
<1>6. ChargedInFull'
  <2> DEFINE F == SumFunctionOnSet([r \in Row |-> usage[r].free], Row)
             C == SumFunctionOnSet([a \in Account |-> credit[a].spent], Account)
             G == Gives(t, 1) + (IF Len(s) = 2 THEN Gives(t, 2) ELSE 0)
  <2>1. F \in Int /\ C \in Int
    BY <1>1, RowsFinite, SumsTyped, SumType, FinitelyMany
  <2>2. F' = F + Gives(t, 1) + (IF Len(s) = 2 THEN Gives(t, 2) ELSE 0)
    BY FreeAdds
  <2>3. C' = C + (IF Billed(t) THEN Rest(t) ELSE 0)
    BY SpentAdds
  <2>4. F + C = Needs(Charged)
    BY DEF SettledInFull, ChargedInFull
  <2>5. Gives(t, 1) \in Int /\ (Len(s) = 2 => Gives(t, 2) \in Int) /\ Rest(t) \in Int /\ tx[t].need \in Int
        /\ First(t) \in Int /\ (Len(s) = 2 => Share(t, 2) \in Int)
    BY <1>1, Shares DEF Gives
  <2>6. Gives(t, 1) + (IF Len(s) = 2 THEN Gives(t, 2) ELSE 0) + (IF Billed(t) THEN Rest(t) ELSE 0)
          = IF Billed(t) THEN tx[t].need ELSE 0
    <3>1. Share(t, 1) = First(t)
      BY <1>1, Shares
    <3> QED BY <2>5, <3>1 DEF Gives, Rest
  <2> HIDE DEF F, C
  <2>7. F' + C' = Needs(Charged)'
    BY <1>5, <2>1, <2>2, <2>3, <2>4, <2>5, <2>6
  <2> QED BY <2>7 DEF F, C, ChargedInFull
<1>7. ASSUME NEW r \in Row PROVE usage'[r].tokens = Needs(Recorded(r))'
  <2>1. usage[r].tokens = Needs(Recorded(r)) /\ usage[r].tokens \in Int /\ tx[t].need \in Int
    BY <1>1, SumsTyped DEF SettledInFull, RecordedOnce
  <2>2. Recorded(r) \in SUBSET Runs /\ t \notin Recorded(r)
    BY <1>1 DEF Recorded
  <2>3. CASE \E k \in 1..Len(s) : r = RowOf(t, k)
    <3>1. Recorded(r)' = Recorded(r) \cup {t}
      BY <1>3, <2>3 DEF Recorded, RowOf
    <3>2. \A u \in Recorded(r) \cup {t} : tx'[u].need = tx[u].need
      BY <1>3, <2>2
    <3>3. Needs(Recorded(r))' = Needs(Recorded(r)) + tx[t].need
      BY <1>1, <2>2, <3>1, <3>2, NeedsGrow DEF Needs
    <3>4. usage'[r].tokens = usage[r].tokens + tx[t].need
      BY <2>3, CommitUsage
    <3> QED BY <2>1, <3>3, <3>4
  <2>4. CASE ~\E k \in 1..Len(s) : r = RowOf(t, k)
    <3>1. Recorded(r)' = Recorded(r)
      <4>1. ~(tx[t].day = r[2] /\ \E k \in 1..Len(s) : s[k] = r[1])
        <5>1. r = <<r[1], r[2]>>
          BY DEF Row
        <5> QED BY <2>4, <5>1 DEF RowOf
      <4> QED BY <1>3, <2>2, <4>1 DEF Recorded
    <3>2. \A u \in Recorded(r) : tx'[u].need = tx[u].need
      BY <1>3, <2>2
    <3>3. Needs(Recorded(r))' = Needs(Recorded(r))
      BY <2>2, <3>1, <3>2, NeedsStay DEF Needs
    <3>4. usage'[r] = usage[r]
      BY <2>4, CommitUsage
    <3> QED BY <2>1, <3>3, <3>4
  <2> QED BY <2>3, <2>4
<1> QED BY <1>6, <1>7 DEF SettledInFull, RecordedOnce

\* Every other step leaves it alone.
LEMMA OthersLeave ==
  ASSUME RefInv, [Next]_vars, \A t \in Runs : ~Commit(t)
  PROVE  Leaves
<1>1. TypeInv /\ Runs \subseteq Txn /\ Runs \cap Edits = {}
  BY TxnsDisjoint DEF RefInv, Txn
<1>2. tx \in [Txn -> TxState] /\ usage \in [Row -> UsageRow] /\ credit \in [Account -> CreditRow]
  BY <1>1 DEF TypeInv, TypeOK
<1>3. CASE UNCHANGED vars
  BY <1>3 DEF vars, rows, Leaves
<1>4. CASE NewDay \/ \E c \in Chats, n \in ChatLimits : SetChatLimit(c, n)
  BY <1>4 DEF NewDay, SetChatLimit, rows, Leaves
<1>5. ASSUME NEW t \in Runs, \/ \E s \in Subjects : Start(t, s)
                             \/ \E n \in 0..MaxTokens : Settle(t, n)
                             \/ RunFails(t) \/ Charge(t)
      PROVE  Leaves
  <2>1. usage' = usage /\ credit' = credit
    BY <1>5 DEF Start, Settle, RunFails, Charge, RecordUsage, FreeRead, FreeWrite, CreditRead,
       CreditCas, CreditDebt, rows
  <2>2. tx[t].pc # "done" /\ tx'[t].pc # "done" /\ \A u \in Txn : u # t => tx'[u] = tx[u]
    <3>1. CASE (\E s \in Subjects : Start(t, s)) \/ (\E n \in 0..MaxTokens : Settle(t, n)) \/ RunFails(t)
      <4>1. CASE \E s \in Subjects : Start(t, s)
        <5>1. PICK s \in Subjects : Start(t, s)
          BY <4>1
        <5> QED BY <1>1, <1>2, <5>1 DEF Start, TxState
      <4>2. CASE \E n \in 0..MaxTokens : Settle(t, n)
        <5>1. PICK n \in 0..MaxTokens : Settle(t, n)
          BY <4>2
        <5> QED BY <1>1, <1>2, <5>1 DEF Settle, TxState
      <4>3. CASE RunFails(t)
        BY <1>1, <1>2, <4>3 DEF RunFails, TxState
      <4> QED BY <3>1, <4>1, <4>2, <4>3
    <3>2. CASE RecordUsage(t)
      BY <1>1, <1>2, <3>2 DEF RecordUsage, TxState
    <3>3. CASE FreeRead(t)
      BY <1>1, <1>2, <3>3 DEF FreeRead, FreeGoesOn, TxState
    <3>4. CASE FreeWrite(t)
      BY <1>1, <1>2, <3>4 DEF FreeWrite, FreeGoesOn, TxState
    <3>5. CASE CreditRead(t)
      BY <1>1, <1>2, <3>5 DEF CreditRead, CreditGoesOn, TxState
    <3>6. CASE CreditCas(t)
      BY <1>1, <1>2, <3>6 DEF CreditCas, CreditGoesOn, TxState
    <3>7. CASE CreditDebt(t)
      BY <1>1, <1>2, <3>7 DEF CreditDebt, TxState
    <3> QED BY <1>5, <3>1, <3>2, <3>3, <3>4, <3>5, <3>6, <3>7 DEF Charge
  <2> QED BY <1>1, <2>1, <2>2 DEF Leaves
<1>6. ASSUME NEW t \in Edits, \/ \E a \in Account, n \in Balances : SetCredit(t, a, n)
                              \/ \E a \in Account, n \in TopUps : AdjustCredits(t, a, n)
                              \/ SetAgain(t) \/ SetCas(t)
      PROVE  Leaves
  <2>1. usage' = usage /\ credit' = credit
    BY <1>6 DEF SetCredit, AdjustCredits, SetAgain, SetCas, rows
  <2>2. \A u \in Runs : tx'[u] = tx[u]
    BY <1>1, <1>2, <1>6 DEF SetCredit, AdjustCredits, SetAgain, SetCas, Observe
  <2> QED BY <1>1, <2>1, <2>2 DEF Leaves
<1>7. ASSUME NEW t \in Txn, Rollback(t) PROVE Leaves
  <2>1. tx[t].pc # "done" /\ tx'[t].pc # "done" /\ \A u \in Txn : u # t => tx'[u] = tx[u]
    BY <1>2, <1>7 DEF Rollback, InTx, TxState
  <2> QED BY <1>1, <1>7, <2>1 DEF Rollback, Leaves
<1>8. ASSUME NEW t \in Edits, Commit(t) PROVE Leaves
  <2>1. EditInv(t) /\ t \in Txn
    BY <1>8 DEF RefInv, Txn
  <2>2. \A r \in Row : usage'[r] = usage[r]
    BY <1>8, <2>1 DEF Commit, EditInv
  <2>3. ASSUME NEW a \in Account PROVE credit'[a].spent = credit[a].spent
    <3>1. CASE creditLock[a] = t
      <4>1. credit'[a] = creditW[a]
        BY <1>8, <3>1 DEF Commit
      <4>2. PICK n : creditW[a] = Plus(credit[a], n)
        BY <1>8, <2>1, <3>1 DEF EditInv
      <4> QED BY <4>1, <4>2 DEF Plus
    <3>2. CASE creditLock[a] # t
      BY <1>8, <3>2 DEF Commit
    <3> QED BY <3>1, <3>2
  <2>4. \A u \in Runs : tx'[u] = tx[u]
    BY <1>1, <1>2, <1>8 DEF Commit
  <2> QED BY <2>2, <2>3, <2>4 DEF Leaves
<1> QED BY <1>3, <1>4, <1>5, <1>6, <1>7, <1>8 DEF Next, Txn

\* Nothing is charged and nothing needed at first.
LEMMA InitSettled == Init => SettledInFull
<1> SUFFICES ASSUME Init PROVE SettledInFull
  OBVIOUS
<1>1. Charged = {} /\ \A r \in Row : Recorded(r) = {}
  BY DEF Init, Charged, Recorded, Txn
<1>2. \A T : T = {} => Needs(T) = 0
  BY FS_EmptySet, SumStep DEF Needs
<1>3. ASSUME NEW D, IsFiniteSet(D), NEW f, \A x \in D : f[x] = 0
      PROVE  SumFunctionOnSet(f, D) = 0
  <2> DEFINE Bad == {s \in SUBSET D : SumFunctionOnSet(f, s) # 0}
  <2>1. SUFFICES ASSUME Bad # {} PROVE FALSE
    OBVIOUS
  <2>2. PICK s \in Bad : \A u \in Bad : ~(u \subseteq s /\ u # s)
    <3>1. Bad \in SUBSET (SUBSET D)
      OBVIOUS
    <3> HIDE DEF Bad
    <3> QED BY <1>3, <2>1, <3>1, Least
  <2>3. SumFunctionOnSet(f, s) = IF s = {} THEN 0 ELSE f[One(s)] + SumFunctionOnSet(f, Without(s))
    BY <1>3, <2>2, SumStep, FS_Subset
  <2>4. s # {} => One(s) \in D /\ Without(s) \in SUBSET D /\ Without(s) \notin Bad
    BY <2>2, OneOf
  <2> QED BY <1>3, <2>2, <2>3, <2>4
<1>4. IsFiniteSet(Row) /\ IsFiniteSet(Account)
  BY RowsFinite, FinitelyMany
<1>5. SumFunctionOnSet([r \in Row |-> usage[r].free], Row) = 0
  BY <1>3, <1>4 DEF Init, NoUsage
<1>6. SumFunctionOnSet([a \in Account |-> credit[a].spent], Account) = 0
  BY <1>3, <1>4 DEF Init, NoCredit
<1>7. \A r \in Row : usage[r].tokens = 0
  BY DEF Init, NoUsage
<1> QED BY <1>1, <1>2, <1>5, <1>6, <1>7 DEF SettledInFull, ChargedInFull, RecordedOnce

\* No step breaks it.
LEMMA NextSettled == RefInv /\ SettledInFull /\ [Next]_vars => SettledInFull'
<1> SUFFICES ASSUME RefInv, SettledInFull, [Next]_vars PROVE SettledInFull'
  OBVIOUS
<1>1. CASE \E t \in Runs : Commit(t)
  <2>1. PICK t \in Runs : Commit(t)
    BY <1>1
  <2> QED BY <2>1, CommitSettled
<1>2. CASE \A t \in Runs : ~Commit(t)
  BY <1>2, OthersLeave, LeavesSettled
<1> QED BY <1>1, <1>2

\* Whatever transactions overlap, what free allowances and balances gave to the
\* committed settlements is what the billed ones used, and every row carries each
\* run once (agent_quota.py:264 and 296).
THEOREM ChargedAndRecorded == Spec => []SettledInFull
<1>1. Spec => []RefInv
  BY InitRef, NextRef, PTL DEF Spec
<1> QED
  BY <1>1, InitSettled, NextSettled, PTL DEF Spec
=============================================================================
