------------------------------- MODULE Bottles -------------------------------
(***************************************************************************)
(* Drift bottles: plugins/bottle.py and database/bottle.py.                *)
(*                                                                         *)
(* Cards are messages that show a bottle and stay in a chat after it is    *)
(* gone; they name it by its id.  To answer, a user presses buttons of a   *)
(* card, which stores an intent under his id, and then replies to it.      *)
(* Coins and the counters behind the price are in Economy; picks and       *)
(* reports are only counted and left out, as is the text of a bottle.      *)
(***************************************************************************)
EXTENDS Integers, FiniteSets

CONSTANTS User,
          Ids,       \* a bottle's primary key
          ReuseIds,  \* a new row takes the largest id plus one (SQLite)
          MaxThrown, \* bottles ever thrown
          Cards,     \* messages
          MaxAsked,  \* times a card is used to answer
          Tides,     \* what may happen in a behaviour: subsets of {"bans",
                     \* "destroys", "answers"}, to keep the instances small
          None

VARIABLES tide,     \* the one of Tides
          bottles,  \* [by, no] by id, no: which bottle it is; or None
          thrown,   \* bottles ever thrown
          cards,    \* cards that were sent
          intent,   \* _REPLY_INTENT_PREFIX: [id, anon], or None
          banned,   \* _BOTTLE_BAN_PREFIX
          throwing, \* throwers past the check of the ban
          erasing,  \* users whose bottles /banseapest has deleted
          answers,  \* bottle_replies, with what was meant
          late,     \* history: a throw overlapped a ban
          reused,   \* history: an id was used again
          wronged   \* history: somebody destroyed another's bottle

vars == <<tide, bottles, thrown, cards, intent, banned, throwing, erasing, answers, late,
          reused, wronged>>

Id == 1..Ids
Bottle == [by : User, no : 1..MaxThrown]
Card == [user : User, id : Id, no : 1..MaxThrown, own : BOOLEAN,
         at : {"shown", "menu", "waiting", "gone"}, anon : BOOLEAN, asked : Nat]
Choice == [id : Id, anon : BOOLEAN]
Here == {i \in Id : bottles[i] # None}

\* What the constants have to be.
Parameters == Ids \in Nat /\ MaxThrown \in Nat /\ None \notin Bottle \cup Card \cup Choice

TypeOK ==
    /\ bottles \in [Id -> Bottle \cup {None}] /\ thrown \in 0..MaxThrown
    /\ cards \in [Cards -> Card \cup {None}]
    /\ intent \in [User -> Choice \cup {None}]
    /\ banned \subseteq User /\ throwing \subseteq User /\ erasing \subseteq User
    /\ \A a \in answers : a.card \in Cards /\ a.meant \in 1..MaxThrown /\ a.got \in 1..MaxThrown
    /\ {late, reused, wronged} \subseteq BOOLEAN

Init ==
    /\ tide \in Tides /\ bottles = [i \in Id |-> None] /\ thrown = 0
    /\ cards = [c \in Cards |-> None] /\ intent = [u \in User |-> None]
    /\ banned = {} /\ throwing = {} /\ erasing = {} /\ answers = {}
    /\ late = FALSE /\ reused = FALSE /\ wronged = FALSE

sea == <<tide, bottles, thrown, throwing, reused>>
people == <<banned, erasing, late>>

-----------------------------------------------------------------------------
(* /bottle *)

\* Mutant: nobody is kept from throwing.
MayThrow_Always(u) == TRUE
MayThrow(u) == u \notin banned

\* The message is read and checked, the user and his coins are looked up.
ThrowBegin(u) ==
    /\ u \notin throwing /\ MayThrow(u)
    /\ throwing' = throwing \cup {u}
    /\ UNCHANGED <<tide, bottles, thrown, cards, intent, people, answers, reused, wronged>>

NewId == IF ReuseIds THEN 1 + Cardinality({i \in Id : \E j \in Here : j >= i}) ELSE thrown + 1

\* add_bottle; it may also refuse a thrower without coins.
AddBottle(u) ==
    /\ u \in throwing /\ throwing' = throwing \ {u}
    /\ \/ UNCHANGED <<bottles, thrown, reused, late>>
       \/ /\ NewId \in Id /\ thrown < MaxThrown
          /\ bottles' = [bottles EXCEPT ![NewId] = [by |-> u, no |-> thrown + 1]]
          /\ thrown' = thrown + 1
          /\ reused' = (reused \/ NewId <= thrown)
          /\ late' = (late \/ u \in erasing)
    /\ UNCHANGED <<tide, cards, intent, banned, erasing, answers, wronged>>

-----------------------------------------------------------------------------
(* Cards *)

Shows(c, u, i, own) ==
    /\ cards[c] = None
    /\ cards' = [cards EXCEPT ![c] =
          [user |-> u, id |-> i, no |-> bottles[i].no, own |-> own, at |-> "shown",
           anon |-> FALSE, asked |-> 0]]

\* Mutant: the button to destroy is on every card.
IsOwner_Any(u, i) == TRUE
IsOwner(u, i) == bottles[i].by = u

\* /pickbottle draws any bottle; its sender gets a button to destroy it,
\* others one to answer it.
Pick(c, u, i) ==
    /\ u \notin banned /\ i \in Here
    /\ Shows(c, u, i, IsOwner(u, i))
    /\ UNCHANGED <<sea, intent, people, answers, wronged>>

\* /start view_bottle_<id>, the link in the notice of an answer.
View(c, i) ==
    /\ i \in Here /\ \E a \in answers : a.told /\ a.got = bottles[i].no
    /\ Shows(c, bottles[i].by, i, TRUE)
    /\ UNCHANGED <<sea, intent, people, answers, wronged>>

ThrowBack(c) ==
    /\ cards[c] # None /\ cards[c].at = "shown"
    /\ cards' = [cards EXCEPT ![c].at = "gone"]
    /\ UNCHANGED <<sea, intent, people, answers, wronged>>

\* delete_bottle deletes whatever bottle has the id.
\* Mutant: the row stays, without its sender.
Destroyed_Orphaned(u, i) ==
    /\ bottles' = [bottles EXCEPT ![i] = [by |-> None, no |-> 1]]
    /\ wronged' = wronged /\ UNCHANGED <<tide, thrown, throwing, reused>>
Destroyed(u, i) ==
    /\ bottles' = [bottles EXCEPT ![i] = None]
    /\ wronged' = (wronged \/ (i \in Here /\ bottles[i].by # u))
    /\ UNCHANGED <<tide, thrown, throwing, reused>>

Destroy(c) ==
    /\ "destroys" \in tide /\ cards[c] # None /\ cards[c].at = "shown" /\ cards[c].own
    /\ Destroyed(cards[c].user, cards[c].id)
    /\ cards' = [cards EXCEPT ![c].at = "gone"]
    /\ UNCHANGED <<intent, people, answers>>

\* The same button on the notice of an answer, which goes to the sender.
DestroyNotice(a, u) ==
    /\ "destroys" \in tide /\ a \in answers /\ a.told /\ u = a.sender
    /\ Destroyed(u, a.id)
    /\ UNCHANGED <<cards, intent, people, answers>>

-----------------------------------------------------------------------------
(* Answers *)

Menu(c) ==
    /\ "answers" \in tide /\ cards[c] # None /\ cards[c].at = "shown" /\ ~cards[c].own
    /\ cards[c].id \in Here /\ bottles[cards[c].id].by # cards[c].user
    /\ cards' = [cards EXCEPT ![c].at = "menu"]
    /\ UNCHANGED <<sea, intent, people, answers, wronged>>

\* reply_bottle_start: the last choice of a user replaces one before.
Start(c, anon) ==
    /\ cards[c] # None /\ cards[c].at = "menu" /\ cards[c].id \in Here
    /\ cards[c].asked < MaxAsked
    /\ intent' = [intent EXCEPT ![cards[c].user] = [id |-> cards[c].id, anon |-> anon]]
    /\ cards' = [cards EXCEPT ![c].at = "waiting", ![c].anon = anon, ![c].asked = @ + 1]
    /\ UNCHANGED <<sea, people, answers, wronged>>

\* The card is left without buttons.
Cancel(c) ==
    /\ cards[c] # None /\ cards[c].at = "waiting"
    /\ intent' = [intent EXCEPT ![cards[c].user] = None]
    /\ cards' = [cards EXCEPT ![c].at = "gone"]
    /\ UNCHANGED <<sea, people, answers, wronged>>

IntentExpires(u) ==
    /\ intent[u] # None /\ intent' = [intent EXCEPT ![u] = None]
    /\ UNCHANGED <<sea, cards, people, answers, wronged>>

\* _bottle_reply_filter: the card replied to shows the bottle of the intent.
\* Mutants: any intent will do; the intent is kept.
Matches_Any(c) == cards[c] # None /\ intent[cards[c].user] # None
SpentIntent_Kept(c) == intent

Matches(c) ==
    /\ cards[c] # None /\ intent[cards[c].user] # None
    /\ intent[cards[c].user].id = cards[c].id
SpentIntent(c) == [intent EXCEPT ![cards[c].user] = None]

\* add_bottle_reply stores the answer; what it was meant to be, and whether its
\* sender was told of it.
Answer(c, told) ==
    [card |-> c, turn |-> cards[c].asked, id |-> cards[c].id, meant |-> cards[c].no,
     got |-> bottles[cards[c].id].no, sender |-> bottles[cards[c].id].by,
     anon |-> intent[cards[c].user].anon, chose |-> cards[c].anon,
     told |-> told, n |-> Cardinality(answers)]

\* Once the sender was told the card is shown as it was.
Restored(c) == cards' = [cards EXCEPT ![c].at = "shown"]

\* handle_bottle_reply_message: the intent is spent whatever comes of it, and
\* each step may fail and leave what was done before.
Reply(c, ok) ==
    /\ Matches(c)
    /\ intent' = SpentIntent(c)
    /\ IF ok /\ cards[c].id \in Here
         THEN \E told \in BOOLEAN : /\ answers' = answers \cup {Answer(c, told)}
                                    /\ (told /\ Restored(c)) \/ UNCHANGED cards
         ELSE UNCHANGED <<answers, cards>>
    /\ UNCHANGED <<sea, people, wronged>>

-----------------------------------------------------------------------------
(* /banseapest: the bottles go, then the ban is set. *)

BottlesBut(u) == [i \in Id |-> IF i \in Here /\ bottles[i].by = u THEN None ELSE bottles[i]]
EraseBottles(u) ==
    /\ "bans" \in tide /\ u \notin banned \cup erasing
    /\ bottles' = BottlesBut(u)
    /\ erasing' = erasing \cup {u}
    /\ UNCHANGED <<tide, thrown, cards, intent, banned, throwing, answers, late, reused, wronged>>

SetBan(u) ==
    /\ u \in erasing
    /\ erasing' = erasing \ {u} /\ banned' = banned \cup {u}
    /\ late' = (late \/ u \in throwing)
    /\ UNCHANGED <<sea, cards, intent, answers, wronged>>

Next ==
    \/ \E u \in User : \/ ThrowBegin(u) \/ AddBottle(u) \/ IntentExpires(u)
                       \/ EraseBottles(u) \/ SetBan(u)
                       \/ \E a \in answers : DestroyNotice(a, u)
                       \/ \E c \in Cards, i \in Id : Pick(c, u, i)
    \/ \E c \in Cards : \/ ThrowBack(c) \/ Destroy(c) \/ Menu(c) \/ Cancel(c)
                        \/ \E i \in Id : View(c, i)
                        \/ \E anon \in BOOLEAN : Start(c, anon)
                        \/ \E ok \in BOOLEAN : Reply(c, ok)

Spec == Init /\ [][Next]_vars

-----------------------------------------------------------------------------
(* Properties *)

\* A card, however old, destroys only bottles of the one it was shown to, as
\* long as ids are not used again.
OwnBottlesOnly == wronged => reused

\* After /banseapest none of the user's bottles is left or comes back, unless
\* one was being thrown meanwhile.
BannedBottlesGone == ~late => \A u \in banned, i \in Here : bottles[i].by # u

\* Another card of the same user shows the same bottle.
Twin(a) == \E c \in Cards \ {a.card} :
    cards[c] # None /\ cards[c].user = cards[a.card].user /\ cards[c].no = a.meant

\* An answer goes to the bottle its card shows, and as anonymous as chosen on
\* it, although intents of several cards replace one another: unless an id is
\* used again, or two cards of a user show the same bottle.
AnswerAsMeant == \A a \in answers :
    reused \/ Twin(a) \/ (a.got = a.meant /\ a.anon = a.chose)

\* One choice of how to answer makes at most one answer, with the same
\* exceptions.
OneAnswerPerChoice == \A a, b \in answers :
    a.card = b.card /\ a.turn = b.turn => a = b \/ reused \/ Twin(a)
=============================================================================
