------------------------------- MODULE Quotes -------------------------------
(* Quotes of messages, one row per link (plugins/quote/quote.py,             *)
(* database/quote.py, the panel's lists): made by /q, deleted by /d, by the  *)
(* panel and by the buttons of the quoted member's list.  Every handler      *)
(* looks at the row first and acts on it after other awaits.                 *)
EXTENDS Integers, FiniteSets, Sequences, SequencesExt

CONSTANTS Link, Person,
          Author,    \* Author[l]: whose message the link is
          Managers,  \* may manage the bot in the links' chat
          Hand,      \* handlers that run at the same time
          PageSize, MaxMade, MaxRemoved, None

VARIABLES quote,     \* quote[l]: who quoted it (qer_id), or None
          hand,      \* what each handler is doing
          card,      \* each member's list of quotes in the private chat
          made, removed,
          added,     \* (history) rows added per link
          rewards,   \* (history) times a link's maker was in for a reward
          racing,    \* (history) links two makers were at
          remade,    \* (history) links made again while a deletion was on its way
          wronged    \* (history) a row went on behalf of one not entitled to it

vars == <<quote, hand, card, made, removed, added, rewards, racing, remade, wronged>>

Idle == [pc |-> "idle", who |-> None, of |-> None, page |-> 1]
Op(pc, who, l, page) == [pc |-> pc, who |-> who, of |-> l, page |-> page]
At(h) == hand[h].pc
Set(h, op) == hand' = [hand EXCEPT ![h] = op]
Free(h) == At(h) = "idle"

Init == /\ quote = [l \in Link |-> None] /\ hand = [h \in Hand |-> Idle]
        /\ card = [p \in Person |-> [page |-> 1, shows |-> {}]]
        /\ made = 0 /\ removed = 0
        /\ added = [l \in Link |-> 0] /\ rewards = [l \in Link |-> 0]
        /\ racing = {} /\ remade = {} /\ wronged = FALSE

-----------------------------------------------------------------------------
(* /q: a link with a quote is refused; the image is sent, the message is     *)
(* pinned, and add_quote looks again.  Mutant: only add_quote looks.         *)
MayMake_Always(l) == TRUE
MayMake(l) == quote[l] = None
MakeBegin(h, p, l) ==
    /\ Free(h) /\ made < MaxMade /\ MayMake(l)
    /\ made' = made + 1 /\ Set(h, Op("make", p, l, 1))
    /\ racing' = racing \cup {k \in {l} : \E o \in Hand : At(o) = "make" /\ hand[o].of = k}
    /\ UNCHANGED <<quote, card, removed, added, rewards, remade, wronged>>

(* The row, and then the rewards, also for a row that was there already. *)
AddQuote(h) ==
    LET l == hand[h].of
    IN /\ At(h) = "make"
       /\ IF quote[l] # None THEN UNCHANGED <<quote, added, remade>>
          ELSE /\ quote' = [quote EXCEPT ![l] = hand[h].who]
               /\ added' = [added EXCEPT ![l] = @ + 1]
               /\ remade' = remade \cup
                    {k \in {l} : \E o \in Hand : At(o) \in {"delete", "press"} /\ hand[o].of = k}
       /\ rewards' = [rewards EXCEPT ![l] = @ + 1]
       /\ Set(h, Idle)
       /\ UNCHANGED <<card, made, removed, racing, wronged>>

-----------------------------------------------------------------------------
(* The quoted, the one who quoted, and a manager of the chat may delete;     *)
(* the panel lets the quoted and the manager.  Mutant: who quoted it is not  *)
(* compared.                                                                 *)
Entitled(p, l) == p \in {Author[l], quote[l]} \cup Managers
MayDelete_Any(p, l) == TRUE
MayDelete(p, l) == Entitled(p, l)
DeleteBegin(h, p, l) ==
    /\ Free(h) /\ removed < MaxRemoved /\ quote[l] # None /\ MayDelete(p, l)
    /\ removed' = removed + 1 /\ Set(h, Op("delete", p, l, 1))
    /\ UNCHANGED <<quote, card, made, added, rewards, racing, remade, wronged>>

(* delete_quote by the link; a row that is gone makes it raise. *)
DeleteRow(h) ==
    LET l == hand[h].of
    IN /\ At(h) = "delete" /\ Set(h, Idle)
       /\ quote' = [quote EXCEPT ![l] = None]
       /\ wronged' = (wronged \/ (quote[l] # None /\ ~Entitled(hand[h].who, l)))
       /\ UNCHANGED <<card, made, removed, added, rewards, racing, remade>>

-----------------------------------------------------------------------------
(* The list of a member's quotes, in pages.  The rows come in some order     *)
(* that does not change while they do not.                                   *)
Own(p) == {l \in Link : quote[l] # None /\ Author[l] = p}
Pages(n) == (n + PageSize - 1) \div PageSize
PageOf(p, page) ==
    LET rows == SetToSeq(Own(p))
    IN {rows[i] : i \in {i \in DOMAIN rows : Pages(i) = page}}

(* user_quote_manage counts, and reads the page in another transaction.  A   *)
(* page that is not there leaves the card as it is.  Mutant: the page is     *)
(* added to what the card shows.                                             *)
Shown_Added(p, page) == card[p].shows \cup PageOf(p, page)
Shown(p, page) == PageOf(p, page)
Open(h, p, page) ==
    /\ Free(h) /\ removed < MaxRemoved /\ page \in 1..Cardinality(Link)
    /\ removed' = removed + 1 /\ Set(h, Op("count", p, None, page))
    /\ UNCHANGED <<quote, card, made, added, rewards, racing, remade, wronged>>
Count(h) ==
    LET p == hand[h].who
        n == Cardinality(Own(p))
    IN /\ At(h) = "count"
       /\ IF n = 0 THEN /\ Set(h, Idle) /\ card' = [card EXCEPT ![p] = [page |-> 1, shows |-> {}]]
          ELSE /\ Set(h, IF hand[h].page > Pages(n) THEN Idle
                         ELSE Op("list", p, hand[h].of, hand[h].page))
               /\ UNCHANGED card
       /\ UNCHANGED <<quote, made, removed, added, rewards, racing, remade, wronged>>
List(h) ==
    LET p == hand[h].who
    IN /\ At(h) = "list" /\ Set(h, Idle)
       /\ card' = [card EXCEPT ![p] = [page |-> hand[h].page, shows |-> Shown(p, hand[h].page)]]
       /\ UNCHANGED <<quote, made, removed, added, rewards, racing, remade, wronged>>

(* A button of the list deletes by its link, without a look at the row, and  *)
(* shows the page again; for a row that is gone the handler ends there.      *)
Press(h, p, l) ==
    /\ Free(h) /\ removed < MaxRemoved /\ l \in card[p].shows
    /\ removed' = removed + 1 /\ Set(h, Op("press", p, l, card[p].page))
    /\ UNCHANGED <<quote, card, made, added, rewards, racing, remade, wronged>>
Pressed(h) ==
    LET l == hand[h].of
    IN /\ At(h) = "press"
       /\ Set(h, IF quote[l] = None THEN Idle ELSE Op("count", hand[h].who, l, hand[h].page))
       /\ quote' = [quote EXCEPT ![l] = None]
       /\ wronged' = (wronged \/ (quote[l] # None /\ ~Entitled(hand[h].who, l)))
       /\ UNCHANGED <<card, made, removed, added, rewards, racing, remade>>

Next == \E h \in Hand :
            \/ AddQuote(h) \/ DeleteRow(h) \/ Count(h) \/ List(h) \/ Pressed(h)
            \/ \E p \in Person :
                 \/ \E l \in Link : MakeBegin(h, p, l) \/ DeleteBegin(h, p, l) \/ Press(h, p, l)
                 \/ \E page \in 1..Cardinality(Link) : Open(h, p, page)
Spec == Init /\ [][Next]_vars

-----------------------------------------------------------------------------
(* Variables keep to their types; a list has one page of the member's own.   *)
TypeOK == /\ quote \in [Link -> Person \cup {None}]
          /\ \A p \in Person : /\ Cardinality(card[p].shows) <= PageSize
                               /\ \A l \in card[p].shows : Author[l] = p

(* Coins for a quote are given for rows that were added, unless two members  *)
(* quoted the message at the same time (quote.py:65).                        *)
RewardedForRows == \A l \in Link : l \notin racing => rewards[l] <= added[l]

(* Nobody's request removes a row he was not entitled to remove, unless the  *)
(* link was deleted and quoted again between his look and the deletion.      *)
RemovedByEntitled == remade = {} => ~wronged

(* The list that a button's deletion ends with does not show the quote it    *)
(* deleted, unless it was quoted again.  (Emptying a page after the first    *)
(* leaves the old list: the page asked for is not there any more.)           *)
GoneFromList == \A h \in Hand :
    At(h) = "list" /\ hand[h].of # None /\ quote[hand[h].of] = None /\ List(h)
        => hand[h].of \notin card'[hand[h].who].shows
PressedIsGone == [][GoneFromList]_vars
=============================================================================
