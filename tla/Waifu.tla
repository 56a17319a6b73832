-------------------------------- MODULE Waifu --------------------------------
(***************************************************************************)
(* The waifu of the day and marriage: plugins/waifu/waifu.py over          *)
(* database/association.py and database/user.py.                           *)
(*                                                                         *)
(* A handler is a record of `flight` from its first await that lets others *)
(* run until its last one; a database transaction that reads and writes    *)
(* one row is one step, the two that read and write two users              *)
(* (make_wedding, divorce) are a step that reads and a step that commits.  *)
(* `overlap` is a history variable: two such transactions met on a user.   *)
(***************************************************************************)
EXTENDS Integers, FiniteSets

CONSTANTS User,       \* members, bots and channels that wrote in a group
          Fickle,     \* the seats whose users leave and come back
          Bots,       \* those that are bots
          Channels,   \* those that are channels: is_real_user is false
          Seat,       \* pairs <<user, chat>>: who writes in which group
          Base,       \* cost_user_change_waifu_base
          Luck,       \* what random.choice adds per change already made
          MaxDebt,    \* no balance falls below -MaxDebt, 144 * 16 in the code
          Days,       \* how a day can start: rows, balances, whose users act,
                      \* and how many proposals are open at a time
          MaxFlight,  \* handlers in flight at a time
          None

ASSUME WaifuAssumption ==
    /\ Base \in Nat \ {0} /\ Luck \subseteq Nat /\ MaxDebt \in Nat \ {0}
    /\ \A d \in Days :
         /\ d.member \cup d.players \subseteq Seat
         /\ d.coins \in [User -> Int] /\ \A u \in User : d.coins[u] >= -MaxDebt
    /\ MaxFlight \in Nat /\ Fickle \subseteq Seat /\ Bots \cup Channels \subseteq User
    /\ None \notin User /\ \A s \in Seat : s = <<s[1], s[2]>> /\ s[1] \in User /\ s[2] # None

VARIABLES day,       \* the day, a parameter of the behaviour
          married,   \* married_waifu_id; is_married is always set with it
          coins,     \* UserConfig.coins
          member,    \* pairs <<user, chat>> with a user_chat_association row
          waifu,     \* waifu_id of those rows
          waiting,   \* pairs whose waifu_waiting_key is set
          changes,   \* change_waifu_count of the day
          cleaning,  \* GLockKey.CLEANING
          proposals, \* <<user, waifu, chat>>: messages with marry_markup
          flight,    \* handlers between two of their awaits
          overlap    \* history: weddings or divorces of one user overlapped

vars == <<day, married, coins, member, waifu, waiting, changes, cleaning, proposals,
          flight, overlap>>

Chat == {s[2] : s \in Seat}
Acting == UNION {d.players : d \in Days}
Handler ==
    [op : {"draw", "set", "change", "remove", "wed", "part", "wipe"},
     u : User \cup {None}, w : User \cup {None}, c : Chat \cup {None},
     k : Nat]
H(op, u, w, c, k) == [op |-> op, u |-> u, w |-> w, c |-> c, k |-> k]

TypeOK ==
    /\ day \in Days
    /\ married \in [User -> User \cup {None}]
    /\ coins \in [User -> Int] /\ \A u \in User : coins[u] >= -MaxDebt
    /\ member \subseteq Seat /\ waifu \in [Seat -> User \cup {None}]
    /\ \A s \in Seat \ member : waifu[s] = None
    /\ waiting \subseteq Seat /\ changes \in [Seat -> Nat]
    /\ cleaning \in BOOLEAN
    /\ proposals \subseteq User \X User \X Chat
    /\ flight \subseteq Handler /\ overlap \in BOOLEAN

Init ==
    /\ married = [u \in User |-> None]
    /\ day \in Days /\ member = day.member /\ coins = day.coins
    /\ waifu = [s \in Seat |-> None]
    /\ waiting = {} /\ changes = [s \in Seat |-> 0] /\ cleaning = FALSE
    /\ proposals = {} /\ flight = {} /\ overlap = FALSE

-----------------------------------------------------------------------------
(* What the queries of database/association.py select. *)

\* get_user_waifu_in_chat: the partner before the waifu of the day.
WaifuInChat(u, c) == IF married[u] # None THEN married[u] ELSE waifu[<<u, c>>]

\* take_waifu_for_user_in_chat: the users one of whom it draws.
Takable(u, c) ==
    {w \in User \ {u} : <<w, c>> \in member /\ w \notin Bots /\ married[w] = None}

\* The rows of the weddings and divorces that name one of a pair.
Ties(u, w) == {s \in Seat : s[1] \in {u, w} \/ waifu[s] \in {u, w}}

\* The cost of a change; the exponent of the setting is 1 here.
Cost(count, luck) == Base * count + count * luck + Base

\* Two transactions on marriages meet when one commits while another that
\* names one of its users has read.
Meets(h) == \E g \in flight \ {h} :
    g.op \in {"wed", "part"} /\ {g.u, g.w} \cap {h.u, h.w} # {}

Starts(h) == Cardinality(flight) < MaxFlight /\ flight' = flight \cup {h}
Goes(h, next) == h \in flight /\ flight' = (flight \ {h}) \cup next
Locks(u, c) == <<u, c>> \notin waiting /\ waiting' = waiting \cup {<<u, c>>}
\* Mutant: the return for a married user jumps over the finally.
Unlocks_Single(h) ==
    waiting' = IF married[h.u] = None THEN waiting \ {<<h.u, h.c>>} ELSE waiting

Unlocks(h) == waiting' = waiting \ {<<h.u, h.c>>}

-----------------------------------------------------------------------------
(* /waifu *)

\* waifu_markup: cards of earlier draws keep their buttons, so a user may hold
\* one of anybody he can have drawn.
Card(u, w) == u # w /\ w \notin Bots

\* today_waifu up to its lock (memstore does not suspend); the middleware has
\* given the sender a row.
DrawBegin(u, c) ==
    /\ ~cleaning
    /\ Locks(u, c)
    /\ Starts(H("draw", u, None, c, 0))
    /\ member' = member \cup {<<u, c>>}
    /\ UNCHANGED <<day, married, coins, waifu, changes, cleaning, proposals, overlap>>

\* get_waifu_for_user: the waifu it has, or one drawn. With none, with the one
\* it had, or with one who married somebody else the handler only answers.
DrawTake(h, w) ==
    /\ h.op = "draw"
    /\ w \in IF WaifuInChat(h.u, h.c) # None THEN {WaifuInChat(h.u, h.c)}
             ELSE IF Takable(h.u, h.c) = {} THEN {None} ELSE Takable(h.u, h.c)
    /\ IF w = None \/ waifu[<<h.u, h.c>>] # None \/ married[w] \notin {None, h.u}
         THEN /\ Goes(h, {}) /\ Unlocks(h)
         ELSE /\ Goes(h, {H("set", h.u, w, h.c, 0)}) /\ UNCHANGED waiting
    /\ UNCHANGED <<day, married, coins, member, waifu, changes, cleaning, proposals, overlap>>

\* set_user_waifu_in_chat raises without a row or with a waifu set.
Settable(u, c) == <<u, c>> \in member /\ waifu[<<u, c>>] = None

DrawSet(h) ==
    /\ h.op = "set"
    /\ Goes(h, {}) /\ Unlocks(h)
    /\ IF Settable(h.u, h.c)
         THEN waifu' = [waifu EXCEPT ![<<h.u, h.c>>] = h.w]
         ELSE UNCHANGED waifu
    /\ UNCHANGED <<day, married, coins, member, changes, cleaning, proposals, overlap>>

(* change_waifu *)

\* The checks of the handler: the presser's own card, not married, no other
\* draw of his in this chat, enough coins.
MayChange(u, c) == married[u] = None /\ coins[u] >= Base

ChangeBegin(u, old, c, luck) ==
    /\ Card(u, old) /\ ~cleaning
    /\ MayChange(u, c)
    /\ Locks(u, c)
    /\ Starts(H("change", u, old, c, Cost(changes[<<u, c>>], luck)))
    /\ UNCHANGED <<day, married, coins, member, waifu, changes, cleaning, proposals, overlap>>

\* change_user_waifu_in_chat: it raises, and nothing is changed, without a
\* row or in debt; without anybody to take the coins are spent all the same.
\* Mutants: the balance is trusted as the handler read it; nothing is paid.
InDebt_Trusted(u) == FALSE
Charged_Nothing(u, k) == coins[u]
Charged_NoFloor(u, k) == coins[u] - k

InDebt(u) == coins[u] < 0
Charged(u, k) == IF coins[u] - k < -MaxDebt THEN -MaxDebt ELSE coins[u] - k

ChangeTx(h, w) ==
    /\ h.op = "change"
    /\ w \in IF Takable(h.u, h.c) = {} THEN {None} ELSE Takable(h.u, h.c)
    /\ Goes(h, {}) /\ Unlocks(h)
    /\ IF <<h.u, h.c>> \notin member \/ InDebt(h.u)
         THEN UNCHANGED <<coins, waifu, changes>>
         ELSE /\ coins' = [coins EXCEPT ![h.u] = Charged(h.u, h.k)]
              /\ waifu' = [waifu EXCEPT ![<<h.u, h.c>>] = w]
              /\ changes' = IF w \in {None, h.w} THEN changes
                            ELSE [changes EXCEPT ![<<h.u, h.c>>] = @ + 1]
    /\ UNCHANGED <<day, married, member, cleaning, proposals, overlap>>

(* remove_waifu, confirmed by somebody who manages the bot in the chat *)

\* unset_user_waifu_in_chat raises when there is nothing to unset, and the
\* card's waifu then stays in the chat.
RemoveUnset(u, w, c) ==
    /\ Card(u, w)
    /\ <<u, c>> \in member /\ waifu[<<u, c>>] # None
    /\ waifu' = [waifu EXCEPT ![<<u, c>>] = None]
    /\ Starts(H("remove", u, w, c, 0))
    /\ UNCHANGED <<day, married, coins, member, waiting, changes, cleaning, proposals, overlap>>

\* remove_association of the waifu.
RowGone(u, c) == /\ member' = member \ {<<u, c>>}
                 /\ waifu' = [waifu EXCEPT ![<<u, c>>] = None]

RemoveRow(h) ==
    /\ h.op = "remove" /\ Goes(h, {}) /\ RowGone(h.w, h.c)
    /\ UNCHANGED <<day, married, coins, waiting, changes, cleaning, proposals, overlap>>

-----------------------------------------------------------------------------
(* marry_waifu *)

Ask(u, w, c) ==
    /\ Card(u, w) /\ w \notin Channels /\ Cardinality(proposals) < day.asked
    /\ married[w] = None
    /\ proposals' = proposals \cup {<<u, w, c>>}
    /\ UNCHANGED <<day, married, coins, member, waifu, waiting, changes, cleaning, flight, overlap>>

\* Refused by the waifu or cancelled by either: the keyboard goes.
Decline(u, w, c) ==
    /\ <<u, w, c>> \in proposals
    /\ proposals' = proposals \ {<<u, w, c>>}
    /\ UNCHANGED <<day, married, coins, member, waifu, waiting, changes, cleaning, flight, overlap>>

\* The reads of make_wedding: it raises when one of the two is married.
\* Mutant: only the one who agrees is looked at, as in the handler.
BothFree_WaifuOnly(u, w) == married[w] = None

BothFree(u, w) == married[u] = None /\ married[w] = None

WeddingRead(u, w, c) ==
    /\ <<u, w, c>> \in proposals
    /\ BothFree(u, w)
    /\ Starts(H("wed", u, w, c, 0))
    /\ UNCHANGED <<day, married, coins, member, waifu, waiting, changes, cleaning, proposals, overlap>>

\* Both rows are written, every tie of the two is cut, and in this chat they
\* become each other's waifu.
WeddingCommit(h) ==
    /\ h.op = "wed" /\ Goes(h, {})
    /\ overlap' = (overlap \/ Meets(h))
    /\ married' = [married EXCEPT ![h.u] = h.w, ![h.w] = h.u]
    /\ waifu' = [s \in Seat |->
                   IF s = <<h.u, h.c>> /\ s \in member THEN h.w
                   ELSE IF s = <<h.w, h.c>> /\ s \in member THEN h.u
                   ELSE IF s \in Ties(h.u, h.w) THEN None ELSE waifu[s]]
    /\ proposals' = proposals \ {<<h.u, h.w, h.c>>}
    /\ UNCHANGED <<day, coins, member, waiting, changes, cleaning>>

\* divorce: it raises when the two are not each other's partner.
PartRead(u) ==
    /\ married[u] # None /\ married[married[u]] = u
    /\ Starts(H("part", u, married[u], None, 0))
    /\ UNCHANGED <<day, married, coins, member, waifu, waiting, changes, cleaning, proposals, overlap>>

PartCommit(h) ==
    /\ h.op = "part" /\ Goes(h, {})
    /\ overlap' = (overlap \/ Meets(h))
    /\ married' = [married EXCEPT ![h.u] = None, ![h.w] = None]
    /\ waifu' = [s \in Seat |-> IF s \in Ties(h.u, h.w) THEN None ELSE waifu[s]]
    /\ UNCHANGED <<day, coins, member, waiting, changes, cleaning, proposals>>

-----------------------------------------------------------------------------
(* The rest of the bot *)

\* A member leaves, or writes (and gets a row) again.
Leave(u, c) ==
    /\ <<u, c>> \in member /\ RowGone(u, c)
    /\ UNCHANGED <<day, married, coins, waiting, changes, cleaning, proposals, flight, overlap>>
Return(u, c) ==
    /\ <<u, c>> \notin member /\ member' = member \cup {<<u, c>>}
    /\ UNCHANGED <<day, married, coins, waifu, waiting, changes, cleaning, proposals, flight, overlap>>

\* The job at the end of the day; the flag stops draws that have not begun.
CleanBegin ==
    /\ ~cleaning /\ cleaning' = TRUE /\ Starts(H("wipe", None, None, None, 0))
    /\ UNCHANGED <<day, married, coins, member, waifu, waiting, changes, proposals, overlap>>
CleanEnd(h) ==
    /\ h.op = "wipe" /\ Goes(h, {}) /\ cleaning' = FALSE
    /\ waifu' = [s \in Seat |-> None]
    /\ UNCHANGED <<day, married, coins, member, waiting, changes, proposals, overlap>>

Step(h) ==
    \/ \E w \in User \cup {None} : DrawTake(h, w) \/ ChangeTx(h, w)
    \/ DrawSet(h) \/ RemoveRow(h) \/ WeddingCommit(h) \/ PartCommit(h) \/ CleanEnd(h)

Next ==
    \/ \E h \in flight : Step(h)
    \/ \E s \in day.players : DrawBegin(s[1], s[2])
    \/ \E s \in Fickle : Leave(s[1], s[2]) \/ Return(s[1], s[2])
    \/ \E s \in day.players, w \in User : LET u == s[1] c == s[2] IN
         \/ \E luck \in Luck : ChangeBegin(u, w, c, luck)
         \/ RemoveUnset(u, w, c) \/ Ask(u, w, c) \/ Decline(u, w, c) \/ WeddingRead(u, w, c)
    \/ \E u \in User : PartRead(u)
    \/ CleanBegin

Spec == Init /\ [][Next]_vars

\* The loop runs every handler that may go on.
Live == \A s \in Acting :
    WF_vars(\E h \in flight : <<h.u, h.c>> = s /\ h.op \in {"draw", "set", "change"} /\ Step(h))
FairSpec == Spec /\ Live

-----------------------------------------------------------------------------
(* Properties *)

\* Whoever is married is married to somebody who is married to him: otherwise
\* divorce refuses him and he can never draw a waifu again.
MarriageMutual == \A u \in User : married[u] # None => married[married[u]] = u

\* The checks of the handlers and of make_wedding and divorce keep marriages
\* mutual however proposals, draws, changes and departures are interleaved,
\* as long as no two of their transactions meet on one user.
MutualUnlessOverlapped == overlap \/ MarriageMutual

\* A waifu of the day is exchanged for another only by somebody who pays for
\* it or weds; a second draw, a draw overtaken by a change or a departure
\* never does it.
PaysOrWeds == \A s \in Seat :
    waifu[s] # None /\ waifu'[s] \notin {waifu[s], None}
      => coins'[s[1]] < coins[s[1]] \/ married'[s[1]] # None
WaifuPaidFor == [][PaysOrWeds]_vars

\* A change that was affordable when it began, in another chat too, is not
\* charged to a user who is in debt when it is carried out.
ChargedOutOfDebt == \A u \in User : coins'[u] < coins[u] => coins[u] >= 0
DebtNotDeepened == [][ChargedOutOfDebt]_vars

\* The flag that keeps a user's draws apart is always cleared again.
WaitEnds == \A s \in Acting : s \in waiting ~> s \notin waiting
=============================================================================
