------------------------------- MODULE MCChats -------------------------------
(* Groups: the waifu of the day and marriages, or the configuration of a     *)
(* group.  They share no state, so a behaviour shows one of them (`about`).  *)
EXTENDS Waifu

CONSTANTS a, b, d, x, Writers, MaxFaults

ASSUME WritersAssumption == None \notin Writers /\ MaxFaults \in Nat

VARIABLES about, row, heap, cached, pc, holds, writes, saved, raced, faults

Configs == INSTANCE ChatConfigs

Seats == {a, b, d, x} \X {"c", "e", "f"}
Fickles == {<<d, "c">>}
\* Three members of one chat who propose to one another; a member of two chats
\* who can pay for less than he asks.
Love == [member |-> {a, b, d} \X {"c"}, asked |-> 2, players |-> {a, b} \X {"c"},
         coins |-> [u \in User |-> 0]]
Money == [member |-> {a, x} \X {"e", "f"} \cup {<<b, "e">>}, asked |-> 0, players |-> {a} \X {"e", "f"},
          coins |-> [u \in User |-> IF u = a THEN 2 ELSE 0]]
TwoDays == {Love, Money}

configs == <<row, heap, cached, pc, holds, writes, saved, raced, faults>>
all == <<about, vars, configs>>
WorldInit == /\ Init /\ Configs!Init
             /\ about \in {"waifu", "configs"}
             /\ about = "configs" => day = Love
WorldNext == \/ about = "waifu" /\ Next /\ UNCHANGED <<about, configs>>
             \/ about = "configs" /\ Configs!Next /\ UNCHANGED <<about, vars>>
WorldSpec == WorldInit /\ [][WorldNext]_all /\ Live

-----------------------------------------------------------------------------
(* Saving one page of a group's configuration, or a command, cannot wipe     *)
(* what another page saved, and the cache does not outlive an update, unless *)
(* handlers overlap (chat.py:221).                                           *)
ConfigsKept == /\ TypeOK
               /\ Configs!TypeOK
               /\ Configs!BankKeptAlone
               /\ Configs!CacheFreshAlone

(* A member exchanges his waifu of the day only by a payment that he could   *)
(* afford when it is made, or by a wedding (waifu.py, user.py:278).          *)
WaifuPaid == [][PaysOrWeds /\ ChargedOutOfDebt]_all
=============================================================================
