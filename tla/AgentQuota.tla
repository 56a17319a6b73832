----------------------------- MODULE AgentQuota -----------------------------
(***************************************************************************)
(* The token quota of the agent: database/agent_quota.py, driven by        *)
(* plugins/agent/quota.py (can_start before a run, settle after it) and by *)
(* the operators' panel (set_credit, chat policies).                       *)
(*                                                                         *)
(* Each settlement is ONE database transaction of many statements.  Rows   *)
(* are modelled as a READ COMMITTED engine keeps them: a committed image,  *)
(* an image written by the transaction that holds the row's write lock,    *)
(* and the lock, which is held until commit or rollback.  A SELECT does    *)
(* not wait and sees the committed image (or the reader's own writes); an  *)
(* UPDATE waits for the lock and re-evaluates its WHERE on what it then    *)
(* finds.  SQLite's single writer is a special case with less concurrency. *)
(***************************************************************************)
EXTENDS Integers, Sequences, FiniteSets, Functions

CONSTANTS
  Users,       \* accounts of scope "user"
  Chats,       \* accounts of scope "chat" (groups)
  Subjects,    \* what Subject.accounts() may return: payers in charging order
  Exempt,      \* the subjects that are owners, global admins or exempt chats
  Runs,        \* transactions that settle one agent run each
  Edits,       \* transactions of the operators: one set_credit or adjust_credits each
  UserLimits,  \* what agent_quota_free_daily_tokens may be, Unlimited for 0
  ChatLimits,  \* values the panel gives to a chat's daily free tokens
  Balances,    \* values the panel sets a balance to
  TopUps,      \* values adjust_credits adds
  MaxTokens,   \* bound: tokens one run uses
  MaxDay,      \* bound: days that pass
  Retries,     \* _CREDIT_CAS_RETRIES
  None         \* no transaction (a row nobody has locked)

Account == Users \cup Chats
Txn == Runs \cup Edits
Day == 1..MaxDay
Unlimited == -1                    \* ChargeAccount.free_limit is None
Limit == Nat \cup {Unlimited}

ASSUME AccountsDisjoint == Users \cap Chats = {}
ASSUME TxnsDisjoint == Runs \cap Edits = {} /\ None \notin Txn
ASSUME FinitelyMany == IsFiniteSet(Account) /\ IsFiniteSet(Runs)
ASSUME BoundsOK == /\ MaxTokens \in Nat /\ MaxDay \in Nat \ {0}
                   /\ Retries \in Nat \ {0}
                   /\ Balances \subseteq Nat /\ ChatLimits \subseteq Nat
                   /\ TopUps \subseteq Nat
                   /\ UserLimits \subseteq (Nat \ {0}) \cup {Unlimited}
\* A speaker, the group spoken in, or the speaker followed by the group.
ASSUME SubjectsOK ==
  /\ Subjects \subseteq {<<a>> : a \in Account}
                         \cup {<<u, c>> : u \in Users, c \in Chats}
  /\ Exempt \subseteq Subjects

VARIABLES
  today,       \* utc_day()
  limit,       \* free daily tokens of each account, as configured now
  usage,       \* agent_usage_daily, committed: [account, day] -> free, tokens
  usageW,      \*   the image its lock holder wrote
  usageLock,   \*   the transaction that holds the row
  credit,      \* agent_credits with the totals of agent_credit_ledger
  creditW,
  creditLock,
  tx           \* the local state of each transaction

rows == <<usage, usageW, usageLock, credit, creditW, creditLock>>
vars == <<today, limit, rows, tx>>

Row == Account \X Day
NoUsage == [free |-> 0, tokens |-> 0]
\* granted and spent: the ledger's deltas, summed by sign of their reason
NoCredit == [balance |-> 0, granted |-> 0, spent |-> 0]
InTx == {"record", "freeRead", "freeWrite", "creditRead", "creditCas",
         "setCas", "setAgain", "commit"}

Lesser(m, n) == IF m < n THEN m ELSE n

Init ==
  /\ today = 1
  /\ \E n \in UserLimits : limit = [a \in Account |-> IF a \in Users THEN n ELSE 0]
  /\ usage = [r \in Row |-> NoUsage] /\ usageW = usage
  /\ usageLock = [r \in Row |-> None]
  /\ credit = [a \in Account |-> NoCredit] /\ creditW = credit
  /\ creditLock = [a \in Account |-> None]
  /\ tx = [t \in Txn |->
       [pc |-> "idle", payers |-> <<>>, bill |-> FALSE, cap |-> limit, day |-> 1,
        need |-> 0, rem |-> 0, i |-> 1, seen |-> 0, tries |-> 0]]

\* What a SELECT of t sees.
UsageSeen(t, r) == IF usageLock[r] = t THEN usageW[r] ELSE usage[r]
CreditSeen(t, a) == IF creditLock[a] = t THEN creditW[a] ELSE credit[a]

\* Mutant: a statement of the settlement runs on a connection of its own.
MayWriteUsage_OtherSession(t, r) == usageLock[r] = None

\* An UPDATE of t gets the row (otherwise it waits).
MayWriteUsage(t, r) == usageLock[r] \in {None, t}
MayWriteCredit(t, a) == creditLock[a] \in {None, t}

Payer(t) == tx[t].payers[tx[t].i]
PayerRow(t) == <<Payer(t), tx[t].day>>
LastPayer(t) == tx[t].i = Len(tx[t].payers)

----------------------------------------------------------------------------
\* The configuration and the clock.

NewDay ==
  /\ today < MaxDay
  /\ today' = today + 1
  /\ UNCHANGED <<limit, rows, tx>>

\* set_chat_policy from the panel; a user's limit is fixed by the config file.
SetChatLimit(c, n) ==
  /\ limit' = [limit EXCEPT ![c] = n]
  /\ UNCHANGED <<today, rows, tx>>

----------------------------------------------------------------------------
\* The gate before a run.

HasCapacity(s) ==
  \E k \in 1..Len(s) : LET a == s[k] IN
    \/ limit[a] = Unlimited
    \/ usage[<<a, today>>].free < limit[a]
    \/ credit[a].balance > 0

CanStart(s) == s \in Exempt \/ HasCapacity(s)

Start(t, s) ==
  /\ tx[t].pc = "idle"
  /\ CanStart(s)
  /\ tx' = [tx EXCEPT ![t].pc = "running", ![t].payers = s]
  /\ UNCHANGED <<today, limit, rows>>

\* A failed or cancelled run costs nothing: settle is never reached.
RunFails(t) ==
  /\ tx[t].pc = "running"
  /\ tx' = [tx EXCEPT ![t].pc = "failed"]
  /\ UNCHANGED <<today, limit, rows>>

----------------------------------------------------------------------------
\* settle -> record_and_charge, one transaction.

\* _plan: the limits and the exemption are read before the transaction opens.
Settle(t, n) ==
  /\ tx[t].pc = "running"
  /\ tx' = [tx EXCEPT ![t].pc = "record", ![t].cap = limit, ![t].day = today,
                      ![t].bill = tx[t].payers \notin Exempt,
                      ![t].need = n, ![t].rem = n, ![t].i = 1]
  /\ UNCHANGED <<today, limit, rows>>

\* Mutant: record_usage commits on its own, before the charge.
RecordUsage_OwnTx(t) ==
  /\ tx[t].pc = "record" /\ usageLock[PayerRow(t)] = None
  /\ usage' = [usage EXCEPT ![PayerRow(t)].tokens = @ + tx[t].need]
  /\ usageW' = [usageW EXCEPT ![PayerRow(t)].tokens = @ + tx[t].need]
  /\ tx' = [tx EXCEPT
       ![t].pc = IF ~LastPayer(t) THEN "record"
                 ELSE IF tx[t].bill /\ tx[t].rem > 0 THEN "freeRead" ELSE "commit",
       ![t].i = IF LastPayer(t) THEN 1 ELSE @ + 1]
  /\ UNCHANGED <<today, limit, usageLock, credit, creditW, creditLock>>

\* record_usage, one account per step; then charge_tokens if there is a charge.
RecordUsage(t) ==
  /\ tx[t].pc = "record"
  /\ MayWriteUsage(t, PayerRow(t))
  /\ usageLock' = [usageLock EXCEPT ![PayerRow(t)] = t]
  /\ usageW' = [usageW EXCEPT ![PayerRow(t)].tokens = @ + tx[t].need]
  /\ tx' = [tx EXCEPT
       ![t].pc = IF ~LastPayer(t) THEN "record"
                 ELSE IF tx[t].bill /\ tx[t].rem > 0 THEN "freeRead" ELSE "commit",
       ![t].i = IF LastPayer(t) THEN 1 ELSE @ + 1]
  /\ UNCHANGED <<today, limit, usage, credit, creditW, creditLock>>

\* Mutant: what an account took is not subtracted.
FreeGoesOn_NotSubtracted(t, left) ==
  tx' = [tx EXCEPT
    ![t].pc = IF left = 0 THEN "commit" ELSE IF LastPayer(t) THEN "creditRead" ELSE "freeRead",
    ![t].i = IF LastPayer(t) THEN 1 ELSE @ + 1]

\* The first loop of charge_tokens moves on with `left` tokens to charge.
FreeGoesOn(t, left) ==
  tx' = [tx EXCEPT
    ![t].rem = left,
    ![t].pc = IF left = 0 THEN "commit" ELSE IF LastPayer(t) THEN "creditRead" ELSE "freeRead",
    ![t].i = IF LastPayer(t) THEN 1 ELSE @ + 1]

\* Mutant: the whole remaining allowance is taken, needed or not.
FreeTake_Whole(t) == tx[t].cap[Payer(t)] - tx[t].seen

FreeTake(t) ==
  Lesser(tx[t].rem, tx[t].cap[Payer(t)] - tx[t].seen)

\* An unlimited account ends the charge; a used-up one is passed over.
FreeRead(t) ==
  LET cap == tx[t].cap[Payer(t)]
      now == UsageSeen(t, PayerRow(t)).free
  IN /\ tx[t].pc = "freeRead"
     /\ \/ /\ cap = Unlimited
           /\ tx' = [tx EXCEPT ![t].pc = "commit"]
        \/ /\ cap # Unlimited /\ now >= cap
           /\ FreeGoesOn(t, tx[t].rem)
        \/ /\ cap # Unlimited /\ now < cap
           /\ tx' = [tx EXCEPT ![t].pc = "freeWrite", ![t].seen = now]
     /\ UNCHANGED <<today, limit, rows>>

\* Mutant: the UPDATE adds all that is left, without the WHERE.
FreeWrite_Uncapped(t) ==
  /\ tx[t].pc = "freeWrite" /\ MayWriteUsage(t, PayerRow(t))
  /\ usageLock' = [usageLock EXCEPT ![PayerRow(t)] = t]
  /\ usageW' = [usageW EXCEPT ![PayerRow(t)].free = @ + tx[t].rem]
  /\ FreeGoesOn(t, 0)
  /\ UNCHANGED <<today, limit, usage, credit, creditW, creditLock>>

\* UPDATE ... WHERE free_used_tokens + take <= limit; 0 rows means 0 taken.
FreeWrite(t) ==
  LET r == PayerRow(t)
      fits == usageW[r].free + FreeTake(t) <= tx[t].cap[Payer(t)]
  IN /\ tx[t].pc = "freeWrite"
     /\ MayWriteUsage(t, r)
     /\ IF fits
          THEN /\ usageLock' = [usageLock EXCEPT ![r] = t]
               /\ usageW' = [usageW EXCEPT ![r].free = @ + FreeTake(t)]
               /\ FreeGoesOn(t, tx[t].rem - FreeTake(t))
          ELSE /\ UNCHANGED <<usageLock, usageW>>
               /\ FreeGoesOn(t, tx[t].rem)
     /\ UNCHANGED <<today, limit, usage, credit, creditW, creditLock>>

\* The second loop moves on; what is left goes to the next payer.
CreditGoesOn(t, left) ==
  tx' = [tx EXCEPT ![t].rem = left, ![t].tries = 0,
                   ![t].pc = IF left = 0 THEN "commit" ELSE "creditRead",
                   ![t].i = IF left = 0 THEN @ ELSE @ + 1]

\* A payer before the last: the balance read is the condition of the UPDATE.
CreditRead(t) ==
  /\ tx[t].pc = "creditRead" /\ ~LastPayer(t)
  /\ LET now == CreditSeen(t, Payer(t)).balance IN
       IF now <= 0 THEN CreditGoesOn(t, tx[t].rem)
       ELSE tx' = [tx EXCEPT ![t].pc = "creditCas", ![t].seen = now]
  /\ UNCHANGED <<today, limit, rows>>

\* Mutant: the balance read is not the condition of the UPDATE.
BalanceAsSeen_Unchecked(t) == TRUE

\* WHERE balance = the balance read.
BalanceAsSeen(t) == creditW[Payer(t)].balance = tx[t].seen

Debit(c, n) == [c EXCEPT !.balance = @ - n, !.spent = @ + n]

CreditCas(t) ==
  LET a == Payer(t)
      take == Lesser(tx[t].rem, tx[t].seen)
  IN /\ tx[t].pc = "creditCas"
     /\ MayWriteCredit(t, a)
     /\ IF BalanceAsSeen(t)
          THEN /\ creditLock' = [creditLock EXCEPT ![a] = t]
               /\ creditW' = [creditW EXCEPT ![a] = Debit(@, take)]
               /\ CreditGoesOn(t, tx[t].rem - take)
          ELSE /\ UNCHANGED <<creditLock, creditW>>
               /\ IF tx[t].tries + 1 = Retries
                    THEN CreditGoesOn(t, tx[t].rem)
                    ELSE tx' = [tx EXCEPT ![t].pc = "creditRead", ![t].tries = @ + 1]
     /\ UNCHANGED <<today, limit, usage, usageW, usageLock, credit>>

\* allow_debt: the last payer takes all that is left, below zero if need be.
CreditDebt(t) ==
  LET a == Payer(t)
  IN /\ tx[t].pc = "creditRead" /\ LastPayer(t)
     /\ MayWriteCredit(t, a)
     /\ creditLock' = [creditLock EXCEPT ![a] = t]
     /\ creditW' = [creditW EXCEPT ![a] = Debit(@, tx[t].rem)]
     /\ tx' = [tx EXCEPT ![t].rem = 0, ![t].pc = "commit"]
     /\ UNCHANGED <<today, limit, usage, usageW, usageLock, credit>>

----------------------------------------------------------------------------
\* Changes made outside a run: set_credit (the panel) and adjust_credits, each
\* its own transaction.

Observe(t, a, n) ==
  LET now == credit[a].balance IN
  tx' = [tx EXCEPT ![t].payers = <<a>>, ![t].need = n, ![t].seen = now,
                   ![t].pc = IF now = n THEN "done" ELSE "setCas"]

SetCredit(t, a, n) ==
  /\ tx[t].pc = "idle"
  /\ Observe(t, a, n)
  /\ UNCHANGED <<today, limit, rows>>

SetAgain(t) ==
  /\ tx[t].pc = "setAgain"
  /\ Observe(t, Payer(t), tx[t].need)
  /\ UNCHANGED <<today, limit, rows>>

\* Mutant: the balance moves without its ledger row.
Grant_Unlogged(c, n) == [c EXCEPT !.balance = @ + n]

Grant(c, n) == [c EXCEPT !.balance = @ + n, !.granted = @ + n]

\* A lost race reads again; the last one raises RuntimeError.
SetCas(t) ==
  LET a == Payer(t)
  IN /\ tx[t].pc = "setCas"
     /\ MayWriteCredit(t, a)
     /\ IF BalanceAsSeen(t)
          THEN /\ creditLock' = [creditLock EXCEPT ![a] = t]
               /\ creditW' = [creditW EXCEPT ![a] = Grant(@, tx[t].need - tx[t].seen)]
               /\ tx' = [tx EXCEPT ![t].pc = "commit"]
          ELSE /\ UNCHANGED <<creditLock, creditW>>
               /\ tx' = [tx EXCEPT
                    ![t].tries = @ + 1,
                    ![t].pc = IF tx[t].tries + 1 = Retries THEN "failed" ELSE "setAgain"]
     /\ UNCHANGED <<today, limit, usage, usageW, usageLock, credit>>

\* adjust_credits: one UPDATE ... RETURNING, no read before it.
AdjustCredits(t, a, n) ==
  /\ tx[t].pc = "idle"
  /\ MayWriteCredit(t, a)
  /\ creditLock' = [creditLock EXCEPT ![a] = t]
  /\ creditW' = [creditW EXCEPT ![a] = Grant(@, n)]
  /\ tx' = [tx EXCEPT ![t].pc = "commit", ![t].payers = <<a>>]
  /\ UNCHANGED <<today, limit, usage, usageW, usageLock, credit>>

----------------------------------------------------------------------------
\* with_tx: the end of a transaction releases every row it locked.

Commit(t) ==
  /\ tx[t].pc = "commit"
  /\ usage' = [r \in Row |-> IF usageLock[r] = t THEN usageW[r] ELSE usage[r]]
  /\ credit' = [a \in Account |-> IF creditLock[a] = t THEN creditW[a] ELSE credit[a]]
  /\ usageLock' = [r \in Row |-> IF usageLock[r] = t THEN None ELSE usageLock[r]]
  /\ creditLock' = [a \in Account |-> IF creditLock[a] = t THEN None ELSE creditLock[a]]
  /\ tx' = [tx EXCEPT ![t].pc = "done"]
  /\ UNCHANGED <<today, limit, usageW, creditW>>

\* An error, a lost connection or a cancelled task rolls everything back.
Rollback(t) ==
  /\ tx[t].pc \in InTx
  /\ usageW' = [r \in Row |-> IF usageLock[r] = t THEN usage[r] ELSE usageW[r]]
  /\ creditW' = [a \in Account |-> IF creditLock[a] = t THEN credit[a] ELSE creditW[a]]
  /\ usageLock' = [r \in Row |-> IF usageLock[r] = t THEN None ELSE usageLock[r]]
  /\ creditLock' = [a \in Account |-> IF creditLock[a] = t THEN None ELSE creditLock[a]]
  /\ tx' = [tx EXCEPT ![t].pc = "failed"]
  /\ UNCHANGED <<today, limit, usage, credit>>

----------------------------------------------------------------------------
Charge(t) ==
  \/ RecordUsage(t)
  \/ FreeRead(t)
  \/ FreeWrite(t)
  \/ CreditRead(t)
  \/ CreditCas(t)
  \/ CreditDebt(t)

Next ==
  \/ NewDay
  \/ \E c \in Chats, n \in ChatLimits : SetChatLimit(c, n)
  \/ \E t \in Runs : \/ \E s \in Subjects : Start(t, s)
                     \/ \E n \in 0..MaxTokens : Settle(t, n)
                     \/ RunFails(t)
                     \/ Charge(t)
  \/ \E t \in Edits : \/ \E a \in Account, n \in Balances : SetCredit(t, a, n)
                      \/ \E a \in Account, n \in TopUps : AdjustCredits(t, a, n)
                      \/ SetAgain(t)
                      \/ SetCas(t)
  \/ \E t \in Txn : Commit(t) \/ Rollback(t)

Spec == Init /\ [][Next]_vars

\* The event loop and the database keep working on an open transaction.
Proceed(t) == Charge(t) \/ SetAgain(t) \/ SetCas(t) \/ Commit(t)
FairSpec == Spec /\ \A t \in Txn : WF_vars(Proceed(t))
----------------------------------------------------------------------------
\* Properties.

TxState == [pc : InTx \cup {"idle", "running", "done", "failed"},
            payers : Seq(Account), bill : BOOLEAN, cap : [Account -> Limit],
            day : Day, need : Nat, rem : Nat, i : {1, 2}, seen : Int, tries : Nat]
UsageRow == [free : Nat, tokens : Nat]
CreditRow == [balance : Int, granted : Int, spent : Nat]

\* Every row keeps its shape: usage counters never fall below zero (a take is
\* never larger than what is left to charge), only balances may.
TypeOK ==
  /\ today \in Day
  /\ limit \in [Account -> Limit]
  /\ usage \in [Row -> UsageRow] /\ usageW \in [Row -> UsageRow]
  /\ usageLock \in [Row -> Txn \cup {None}]
  /\ credit \in [Account -> CreditRow] /\ creditW \in [Account -> CreditRow]
  /\ creditLock \in [Account -> Txn \cup {None}]
  /\ tx \in [Txn -> TxState]

\* agent_credits.balance and agent_credit_ledger tell the same story: no
\* settlement, panel edit, lost race or rollback moves one without the other.
LedgerMatchesBalance ==
  \A a \in Account : credit[a].balance = credit[a].granted - credit[a].spent

\* spend_credit(allow_debt=False): a balance is below zero only if a finished
\* run had that account as its last payer.  A speaker whose run the group also
\* pays for is never pushed into debt, whoever else writes the balance.
DebtOnlyOfLastPayer ==
  \A a \in Account : credit[a].balance < 0 =>
    \E t \in Runs : tx[t].pc = "done" /\ a = tx[t].payers[Len(tx[t].payers)]

\* spend_free never overshoots: a commit raises an account's free use to at
\* most the limit that the committing run planned with.
FreeWithinLimit ==
  [][\A r \in Row : usage'[r].free > usage[r].free =>
        usage'[r].free <= tx[usageLock[r]].cap[r[1]]]_vars

\* A run draws on balances only once the free allowance of EVERY payer is used
\* up, and nobody can give it back or take it before the run commits: the rows
\* record_usage wrote stay locked, so spend_free's conditional UPDATE, which
\* would hand the rest on to a balance when it loses a race, never loses one.
FreeSpentFirst ==
  \A t \in Runs :
    (tx[t].pc \in {"creditRead", "creditCas"} \/ \E a \in Account : creditLock[a] = t)
      => \A k \in 1..Len(tx[t].payers) :
           usageW[<<tx[t].payers[k], tx[t].day>>].free >= tx[t].cap[tx[t].payers[k]]

\* The settlements that are committed: those that were billed, and those that
\* recorded their tokens in a row.  The tokens of some of them.
Charged == {t \in Runs : /\ tx[t].pc = "done" /\ tx[t].bill
                         /\ tx[t].cap[tx[t].payers[1]] # Unlimited}
Recorded(r) == {t \in Runs : /\ tx[t].pc = "done" /\ tx[t].day = r[2]
                             /\ \E k \in 1..Len(tx[t].payers) : tx[t].payers[k] = r[1]}
Needs(T) == SumFunctionOnSet([t \in Runs |-> tx[t].need], T)

\* Conservation across settle: the free tokens and the balances the committed
\* settlements took add up to the tokens of the runs they billed - nothing is
\* charged twice when a race is lost, nothing is dropped between two payers.
ChargedInFull ==
  SumFunctionOnSet([r \in Row |-> usage[r].free], Row)
    + SumFunctionOnSet([a \in Account |-> credit[a].spent], Account) = Needs(Charged)

\* record_and_charge: every account a run involved carries its tokens exactly
\* once, on the day it was planned, and only if the charge committed too.
RecordedOnce == \A r \in Row : usage[r].tokens = Needs(Recorded(r))

\* Every run that was settled is charged in full and recorded once, whatever
\* conditional UPDATEs lost their race (agent_quota.py:264 and 296).
SettledInFull == ChargedInFull /\ RecordedOnce

\* Row locks are always taken in one order (speaker, group; usage, balance), so
\* every settlement that opened a transaction finishes: no deadlock, no
\* endless race.
SettleTerminates ==
  \A t \in Runs : tx[t].pc \in InTx ~> tx[t].pc \in {"done", "failed"}

\* Each settlement takes effect as one atomic charge of the abstract ledger,
\* whose state is what is committed; what open transactions wrote (usageW,
\* creditW), locks and program counters have no counterpart there.
Ledger == INSTANCE QuotaLedger WITH
            today <- today, limit <- limit, usage <- usage, credit <- credit
ImplementsLedger == Ledger!Spec
=============================================================================
