---------------------------- MODULE MCQuotaGroup ----------------------------
(* Two speakers of one group settle concurrently while an operator changes  *)
(* a balance; one of the speakers may also use the bot in private.          *)
EXTENDS AgentQuota

CONSTANTS alice, bob, group

Pairs == {<<alice, group>>, <<bob, group>>}
PairAndPrivate == Pairs \cup {<<alice>>}
NoExemption == {}
LimitedOrNot == {1, Unlimited}
ExemptBob == {<<bob, group>>}
=============================================================================
