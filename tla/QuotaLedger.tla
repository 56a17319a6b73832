---------------------------- MODULE QuotaLedger -----------------------------
(***************************************************************************)
(* What the quota promises, with no transactions, locks or races: a run is *)
(* charged in one step, free allowances first and in payer order, then the *)
(* balances, of which only the last payer's may go below zero.  This is    *)
(* the contract of charge_tokens and set_credit (database/agent_quota.py). *)
(***************************************************************************)
EXTENDS Integers, Sequences

CONSTANTS Users, Chats, Subjects, Exempt, UserLimits, ChatLimits, Balances,
          TopUps, MaxTokens, MaxDay

VARIABLES today, limit, usage, credit
vars == <<today, limit, usage, credit>>

Account == Users \cup Chats
Day == 1..MaxDay
Unlimited == -1
Lesser(m, n) == IF m < n THEN m ELSE n

Init ==
  /\ today = 1
  /\ \E n \in UserLimits : limit = [a \in Account |-> IF a \in Users THEN n ELSE 0]
  /\ usage = [r \in Account \X Day |-> [free |-> 0, tokens |-> 0]]
  /\ credit = [a \in Account |-> [balance |-> 0, granted |-> 0, spent |-> 0]]

NewDay ==
  /\ today < MaxDay
  /\ today' = today + 1
  /\ UNCHANGED <<limit, usage, credit>>

SetChatLimit(c, n) ==
  /\ limit' = [limit EXCEPT ![c] = n]
  /\ UNCHANGED <<today, usage, credit>>

\* set_credit and adjust_credits: a ledger row for the difference.
Grant(a, n) ==
  /\ credit' = [credit EXCEPT ![a].balance = @ + n, ![a].granted = @ + n]
  /\ UNCHANGED <<today, limit, usage>>

\* The tokens of n that s[k] pays from its free allowance.
Left(a, d, cap) ==
  IF cap[a] > usage[<<a, d>>].free THEN cap[a] - usage[<<a, d>>].free ELSE 0
FreeShare(s, d, cap, n) ==
  LET first == Lesser(n, Left(s[1], d, cap))
  IN [k \in 1..Len(s) |->
        IF k = 1 THEN first ELSE Lesser(n - first, Left(s[2], d, cap))]

\* One run of s used n tokens on day d.  share: what each payer gives for free,
\* own: what the speaker gives from its balance when the group pays the rest.
Record(s, d, n, share) ==
  usage' = [r \in Account \X Day |->
    IF \E k \in 1..Len(s) : r = <<s[k], d>>
      THEN LET k == CHOOSE k \in 1..Len(s) : r = <<s[k], d>>
           IN [free |-> usage[r].free + share[k], tokens |-> usage[r].tokens + n]
      ELSE usage[r]]

Debit(s, own, rest) ==
  credit' = [a \in Account |->
    LET part == IF a = s[Len(s)] THEN rest ELSE IF a = s[1] THEN own ELSE 0
    IN [credit[a] EXCEPT !.balance = @ - part, !.spent = @ + part]]

\* cap: the limits in force when the run was planned, d: the day it was.
Settle(s, d, cap, n) ==
  /\ LET share == FreeShare(s, d, cap, n)
         rest == n - share[1] - (IF Len(s) = 2 THEN share[2] ELSE 0)
     IN IF s \in Exempt \/ cap[s[1]] = Unlimited
          THEN /\ Record(s, d, n, [k \in 1..Len(s) |-> 0])
               /\ UNCHANGED credit
          ELSE /\ Record(s, d, n, share)
               /\ \E own \in 0..rest :
                    /\ own > 0 => Len(s) = 2 /\ own <= credit[s[1]].balance
                    /\ Debit(s, own, rest - own)
  /\ UNCHANGED <<today, limit>>

\* A user's limit never changes; a chat's may have been any.
Plans == {[a \in Account |-> IF a \in Users THEN limit[a] ELSE lim[a]] :
            lim \in [Chats -> ChatLimits \cup {0}]}

Next ==
  \/ NewDay
  \/ \E c \in Chats, n \in ChatLimits : SetChatLimit(c, n)
  \/ \E a \in Account, n \in TopUps : Grant(a, n)
  \/ \E a \in Account, n \in Balances : Grant(a, n - credit[a].balance)
  \/ \E s \in Subjects, d \in Day, cap \in Plans, n \in 0..MaxTokens : Settle(s, d, cap, n)

Spec == Init /\ [][Next]_vars
=============================================================================
