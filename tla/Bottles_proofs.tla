--------------------------- MODULE Bottles_proofs ---------------------------
(***************************************************************************)
(* Proofs about Bottles, for any users, cards, ids and bounds.             *)
(***************************************************************************)
EXTENDS Bottles, FiniteSetTheorems, TLAPS

-----------------------------------------------------------------------------
\* The inductive invariant.

Sent(c) == cards[c] # None

\* An answer comes from a card that was sent, and from one of its choices.
FromCard(a) ==
    /\ a.card \in Cards /\ Sent(a.card)
    /\ a.turn \in Nat /\ a.turn <= cards[a.card].asked
    /\ a.meant = cards[a.card].no /\ a.id = cards[a.card].id
Typed ==
    /\ tide \in Tides
    /\ bottles \in [Id -> Bottle \cup {None}] /\ thrown \in 0..MaxThrown
    /\ cards \in [Cards -> Card \cup {None}]
    /\ intent \in [User -> Choice \cup {None}]
    /\ banned \subseteq User /\ throwing \subseteq User /\ erasing \subseteq User
    /\ \A a \in answers : FromCard(a) /\ a.got \in 1..MaxThrown
    /\ late \in BOOLEAN /\ reused \in BOOLEAN /\ wronged \in BOOLEAN

\* As long as no id is used again a bottle's id is its number, and a card with
\* the button to destroy, like the notice of an answer, is with its sender.
CardFits(c) ==
    /\ cards[c].id <= thrown /\ cards[c].no = cards[c].id
    /\ cards[c].own /\ cards[c].id \in Here => bottles[cards[c].id].by = cards[c].user
AnswerFits(a) == a.got = a.meant /\ (a.id \in Here => bottles[a.id].by = a.sender)
FreshInv == ~reused =>
    /\ ~wronged
    /\ \A i \in Here : i <= thrown /\ bottles[i].no = i
    /\ \A c \in Cards : Sent(c) => CardFits(c)
    /\ \A a \in answers : AnswerFits(a)

\* As long as no throw overlapped a ban, those banned have no bottles, and
\* those that are being banned have none either.
BanInv == ~late =>
    /\ \A i \in Here : bottles[i].by \notin banned \cup erasing
    /\ banned \cap throwing = {}

\* Another card of the same user shows the same bottle.
Twinned(c) == \E e \in Cards \ {c} :
    Sent(e) /\ cards[e].user = cards[c].user /\ cards[e].no = cards[c].no

\* The intent of its user is for the bottle of this card.
Chosen(c) ==
    /\ Sent(c) /\ intent[cards[c].user] # None
    /\ intent[cards[c].user].id = cards[c].id

\* An intent was chosen on a card, and on this one if it has no twin; then no
\* answer was given with it yet.
ChosenHere(c) ==
    /\ intent[cards[c].user].anon = cards[c].anon
    /\ \A a \in answers : a.card = c => a.turn < cards[c].asked
HasCard(w) == \E c \in Cards : Sent(c) /\ cards[c].user = w /\ cards[c].id = intent[w].id
IntentInv ==
    /\ \A w \in User : intent[w] # None => HasCard(w)
    /\ ~reused =>
         /\ \A c \in Cards : Chosen(c) /\ ~Twinned(c) => ChosenHere(c)
         /\ \A a \in answers : Twinned(a.card) \/ a.anon = a.chose
         /\ \A a, b \in answers :
              a.card = b.card /\ a.turn = b.turn => a = b \/ Twinned(a.card)

Inv == Typed /\ FreshInv /\ BanInv /\ IntentInv

\* The invariant holds before the first bottle.
THEOREM InitInv == ASSUME Parameters PROVE Init => Inv
<1> SUFFICES ASSUME Init PROVE Inv
  OBVIOUS
<1>1. Typed
  <2>1. 0 \in 0..MaxThrown
    BY DEF Parameters
  <2>2. late \in BOOLEAN /\ reused \in BOOLEAN /\ wronged \in BOOLEAN
    BY DEF Init
  <2> QED BY <2>1, <2>2 DEF Init, Typed
<1>2. FreshInv /\ BanInv /\ IntentInv
  BY DEF Init, FreshInv, BanInv, IntentInv, Here, Sent, Chosen
<1> QED BY <1>1, <1>2 DEF Inv

-----------------------------------------------------------------------------
\* What a step may do to a card.

\* It keeps its user and its bottle.
SameCard(c) ==
    /\ cards'[c].user = cards[c].user /\ cards'[c].id = cards[c].id
    /\ cards'[c].no = cards[c].no /\ cards'[c].own = cards[c].own

\* Its buttons change.
Marked(c) ==
    /\ c \in Cards /\ Sent(c) /\ Sent(c)' /\ SameCard(c)
    /\ cards'[c].anon = cards[c].anon /\ cards'[c].asked = cards[c].asked
    /\ \A e \in Cards : e # c => cards'[e] = cards[e]

\* It is sent.
Posted(c, u, i, own) ==
    /\ c \in Cards /\ ~Sent(c) /\ Sent(c)'
    /\ cards'[c].user = u /\ cards'[c].id = i /\ cards'[c].no = bottles[i].no
    /\ cards'[c].own = own
    /\ \A e \in Cards : e # c => cards'[e] = cards[e]

\* A choice is made on it.
Asked(c, anon) ==
    /\ c \in Cards /\ Sent(c) /\ Sent(c)' /\ SameCard(c)
    /\ cards'[c].anon = anon /\ cards'[c].asked = cards[c].asked + 1
    /\ \A e \in Cards : e # c => cards'[e] = cards[e]

\* A bottle that is there is one; a card that was sent is one.
LEMMA TypedMembers ==
  ASSUME Typed
  PROVE  /\ \A i \in Here : i \in Id /\ bottles[i] \in Bottle
         /\ \A c \in Cards : Sent(c) => cards[c] \in Card
BY DEF Typed, Here, Sent

\* Pick and View send a card.
LEMMA ShowsPosts ==
  ASSUME Parameters, Typed, NEW c \in Cards, NEW u \in User, NEW i \in Here,
         NEW own \in BOOLEAN, Shows(c, u, i, own)
  PROVE  Posted(c, u, i, own) /\ cards' \in [Cards -> Card \cup {None}]
<1> DEFINE card == [user |-> u, id |-> i, no |-> bottles[i].no, own |-> own,
                    at |-> "shown", anon |-> FALSE, asked |-> 0]
<1>1. bottles[i] \in Bottle /\ i \in Id
  BY TypedMembers
<1>0. bottles[i].no \in 1..MaxThrown
  BY <1>1 DEF Bottle
<1>a. card \in Card
  BY <1>0, <1>1 DEF Card
<1>2. card \in Card /\ card # None
  BY <1>a DEF Parameters
<1>3. cards' = [cards EXCEPT ![c] = card] /\ cards[c] = None
  BY DEF Shows
<1>4. cards'[c] = card /\ \A e \in Cards : e # c => cards'[e] = cards[e]
  BY <1>3 DEF Typed
<1>5. cards' \in [Cards -> Card \cup {None}]
  BY <1>2, <1>3 DEF Typed
<1> QED BY <1>2, <1>3, <1>4, <1>5 DEF Posted, Sent

\* A press that only changes the buttons.
LEMMA AtMarks ==
  ASSUME Parameters, Typed, NEW c \in Cards, Sent(c),
         NEW at \in {"shown", "menu", "waiting", "gone"},
         cards' = [cards EXCEPT ![c].at = at]
  PROVE  Marked(c) /\ cards' \in [Cards -> Card \cup {None}]
<1> DEFINE card == [cards[c] EXCEPT !.at = at]
<1>1. cards[c] \in Card
  BY TypedMembers
<1>2. card \in Card /\ card # None
  BY <1>1 DEF Card, Parameters
<1>3. /\ card.user = cards[c].user /\ card.id = cards[c].id /\ card.no = cards[c].no
      /\ card.own = cards[c].own /\ card.anon = cards[c].anon
      /\ card.asked = cards[c].asked
  BY <1>1 DEF Card
<1>4. cards' = [cards EXCEPT ![c] = card]
  OBVIOUS
<1>5. cards'[c] = card /\ \A e \in Cards : e # c => cards'[e] = cards[e]
  BY <1>4 DEF Typed
<1>6. cards' \in [Cards -> Card \cup {None}]
  BY <1>2, <1>4 DEF Typed
<1> QED BY <1>2, <1>3, <1>5, <1>6 DEF Marked, SameCard, Sent

\* A choice of how to answer.
LEMMA StartAsks ==
  ASSUME Parameters, Typed, NEW c \in Cards, NEW anon \in BOOLEAN, Start(c, anon)
  PROVE  Asked(c, anon) /\ cards' \in [Cards -> Card \cup {None}]
<1> DEFINE card == [cards[c] EXCEPT !.at = "waiting", !.anon = anon, !.asked = @ + 1]
<1>1. cards[c] \in Card /\ Sent(c)
  BY TypedMembers DEF Start, Sent
<1>a. cards[c].asked \in Nat /\ cards[c].asked + 1 \in Nat
  BY <1>1 DEF Card
<1>b. card = [cards[c] EXCEPT !.at = "waiting", !.anon = anon, !.asked = cards[c].asked + 1]
  BY <1>1 DEF Card
<1>c. card \in Card
  <2> DEFINE n == cards[c].asked + 1
  <2> HIDE DEF n
  <2>1. [cards[c] EXCEPT !.at = "waiting", !.anon = anon, !.asked = n] \in Card
    BY <1>1, <1>a DEF Card, n
  <2> QED BY <2>1, <1>b DEF n
<1>2. card \in Card /\ card # None
  BY <1>c DEF Parameters
<1>3. /\ card.user = cards[c].user /\ card.id = cards[c].id /\ card.no = cards[c].no
      /\ card.own = cards[c].own /\ card.anon = anon
      /\ card.asked = cards[c].asked + 1
  BY <1>1 DEF Card
<1>4. cards' = [cards EXCEPT ![c] = card]
  BY DEF Start, Typed
<1>5. cards'[c] = card /\ \A e \in Cards : e # c => cards'[e] = cards[e]
  BY <1>4 DEF Typed
<1>6. cards' \in [Cards -> Card \cup {None}]
  BY <1>2, <1>4 DEF Typed
<1> QED BY <1>1, <1>2, <1>3, <1>5, <1>6 DEF Asked, SameCard, Sent

\* In none of these ways a card that was sent becomes one of another user, or
\* of another bottle, or forgets choices.
Carried == \A e \in Cards : Sent(e) =>
    Sent(e)' /\ SameCard(e) /\ cards'[e].asked >= cards[e].asked

\* Each of the ways carries the cards over.
LEMMA CardsCarried ==
  ASSUME Typed,
         \/ UNCHANGED cards
         \/ \E c \in Cards : Marked(c)
         \/ \E c \in Cards, anon \in BOOLEAN : Asked(c, anon)
         \/ \E c \in Cards, u \in User, i \in Here, own \in BOOLEAN : Posted(c, u, i, own)
  PROVE  Carried
<1>1. \A e \in Cards : Sent(e) => cards[e].asked \in Nat
  BY TypedMembers DEF Card
<1>2. CASE UNCHANGED cards
  BY <1>1, <1>2 DEF Carried, SameCard, Sent
<1>3. ASSUME NEW c \in Cards, Marked(c)
      PROVE  Carried
  BY <1>1, <1>3 DEF Marked, Carried, SameCard, Sent
<1>4. ASSUME NEW c \in Cards, NEW anon \in BOOLEAN, Asked(c, anon)
      PROVE  Carried
  BY <1>1, <1>4 DEF Asked, Carried, SameCard, Sent
<1>5. ASSUME NEW c \in Cards, NEW u \in User, NEW i \in Here, NEW own \in BOOLEAN,
             Posted(c, u, i, own)
      PROVE  Carried
  BY <1>1, <1>5 DEF Posted, Carried, SameCard, Sent
<1> QED BY <1>2, <1>3, <1>4, <1>5

\* An answer stays one of a card that is carried over.
LEMMA AnswersCarried ==
  ASSUME Typed, Carried, cards' \in [Cards -> Card \cup {None}]
  PROVE  \A a \in answers : FromCard(a)' /\ a.got \in 1..MaxThrown
<1> SUFFICES ASSUME NEW a \in answers PROVE FromCard(a)' /\ a.got \in 1..MaxThrown
  OBVIOUS
<1> DEFINE c == a.card
<1>1. FromCard(a) /\ a.got \in 1..MaxThrown
  BY DEF Typed
<1>2. c \in Cards /\ Sent(c) /\ Sent(c)' /\ SameCard(c) /\ cards'[c].asked >= cards[c].asked
  BY <1>1 DEF FromCard, Carried
<1>3. cards[c] \in Card /\ cards'[c] \in Card
  BY <1>2, TypedMembers DEF Sent
<1>4. cards[c].asked \in Nat /\ cards'[c].asked \in Nat
  BY <1>3 DEF Card
<1>5. a.turn \in Nat /\ a.turn <= cards'[c].asked
  BY <1>1, <1>2, <1>4 DEF FromCard
<1> QED BY <1>1, <1>2, <1>5 DEF FromCard, SameCard

-----------------------------------------------------------------------------
\* Every action, and how it treats the cards.

\* Throwing, bans and time leave cards, answers and intents to others.
LEMMA SeaSteps ==
  ASSUME Parameters, Typed, NEW u \in User,
         \/ ThrowBegin(u) \/ AddBottle(u) \/ IntentExpires(u)
         \/ EraseBottles(u) \/ SetBan(u)
         \/ \E a \in answers : DestroyNotice(a, u)
  PROVE  Typed' /\ UNCHANGED <<cards, answers>>
<1>1. UNCHANGED <<cards, answers>>
  BY DEF ThrowBegin, AddBottle, IntentExpires, EraseBottles, BottlesBut, SetBan, DestroyNotice
<1>2. \A a \in answers' : FromCard(a)' /\ a.got \in 1..MaxThrown
  BY <1>1 DEF Typed, FromCard, Sent
<1>3. CASE ThrowBegin(u)
  BY <1>2, <1>3 DEF ThrowBegin, people, Typed
<1>4. CASE AddBottle(u)
  <2>1. bottles' \in [Id -> Bottle \cup {None}] /\ thrown' \in 0..MaxThrown
    <3>1. CASE UNCHANGED <<bottles, thrown>>
      BY <3>1 DEF Typed
    <3>2. CASE /\ thrown < MaxThrown /\ thrown' = thrown + 1
               /\ bottles' = [bottles EXCEPT ![NewId] = [by |-> u, no |-> thrown + 1]]
      <4>1. thrown + 1 \in 1..MaxThrown /\ thrown + 1 \in 0..MaxThrown
        BY <3>2 DEF Typed, Parameters
      <4>2. [by |-> u, no |-> thrown + 1] \in Bottle
        BY <4>1 DEF Bottle
      <4> QED BY <3>2, <4>1, <4>2 DEF Typed
    <3> QED BY <1>4, <3>1, <3>2 DEF AddBottle
  <2>2. late' \in BOOLEAN /\ reused' \in BOOLEAN
    BY <1>4 DEF AddBottle, Typed
  <2>3. /\ tide' = tide /\ intent' = intent /\ banned' = banned /\ erasing' = erasing
        /\ throwing' \subseteq throwing /\ wronged' = wronged
    BY <1>4 DEF AddBottle
  <2> QED BY <1>1, <1>2, <2>1, <2>2, <2>3 DEF Typed
<1>5. CASE IntentExpires(u)
  BY <1>2, <1>5 DEF IntentExpires, sea, people, Typed
<1>6. CASE EraseBottles(u)
  <2>1. bottles' \in [Id -> Bottle \cup {None}]
    BY <1>6 DEF EraseBottles, BottlesBut, Typed
  <2> QED BY <1>2, <1>6, <2>1 DEF EraseBottles, BottlesBut, Typed
<1>7. CASE SetBan(u)
  <2>1. late' \in BOOLEAN
    BY <1>7 DEF SetBan, Typed
  <2> QED BY <1>2, <1>7, <2>1 DEF SetBan, sea, Typed
<1>8. ASSUME NEW a \in answers, DestroyNotice(a, u)
      PROVE  Typed'
  <2>1. wronged' \in BOOLEAN
    BY <1>8 DEF DestroyNotice, Destroyed, Typed
  <2>2. bottles' \in [Id -> Bottle \cup {None}]
    BY <1>8 DEF DestroyNotice, Destroyed, Typed
  <2> QED BY <1>2, <1>8, <2>1, <2>2 DEF DestroyNotice, Destroyed, people, Typed
<1> QED BY <1>1, <1>3, <1>4, <1>5, <1>6, <1>7, <1>8

\* Sending a card.
LEMMA ShowSteps ==
  ASSUME Parameters, Typed, NEW c \in Cards, NEW i \in Id,
         View(c, i) \/ \E u \in User : Pick(c, u, i)
  PROVE  /\ Typed' /\ UNCHANGED <<sea, intent, people, answers, wronged>> /\ i \in Here
         /\ \E u \in User, own \in BOOLEAN :
              Posted(c, u, i, own) /\ (own => bottles[i].by = u)
<1>1. UNCHANGED <<sea, intent, people, answers, wronged>> /\ i \in Here
  BY DEF View, Pick
<1>2. \E u \in User, own \in BOOLEAN : Shows(c, u, i, own) /\ (own => bottles[i].by = u)
  <2>1. ASSUME NEW u \in User, Pick(c, u, i)
        PROVE  \E v \in User, own \in BOOLEAN :
                 Shows(c, v, i, own) /\ (own => bottles[i].by = v)
    BY <2>1 DEF Pick, IsOwner
  <2>2. CASE View(c, i)
    <3>1. bottles[i].by \in User
      BY <1>1, TypedMembers DEF Bottle
    <3> QED BY <2>2, <3>1 DEF View
  <2> QED BY <2>1, <2>2
<1>3. PICK u \in User, own \in BOOLEAN : Shows(c, u, i, own) /\ (own => bottles[i].by = u)
  BY <1>2
<1>4. Posted(c, u, i, own) /\ cards' \in [Cards -> Card \cup {None}]
  BY <1>1, <1>3, ShowsPosts
<1>5. Carried
  BY <1>1, <1>4, CardsCarried
<1>6. Typed'
  BY <1>1, <1>4, <1>5, AnswersCarried DEF Typed, sea, people
<1> QED BY <1>1, <1>3, <1>4, <1>6

\* Presses that change the buttons, and at most spend the intent.
LEMMA PressSteps ==
  ASSUME Parameters, Typed, NEW c \in Cards,
         ThrowBack(c) \/ Destroy(c) \/ Menu(c) \/ Cancel(c)
  PROVE  /\ Typed' /\ Marked(c) /\ UNCHANGED <<answers, people>>
         /\ \A w \in User : intent'[w] \in {intent[w], None}
<1>0. Sent(c) /\ \E at \in {"menu", "gone"} : cards' = [cards EXCEPT ![c].at = at]
  BY DEF ThrowBack, Destroy, Menu, Cancel, Sent
<1>1. Marked(c) /\ cards' \in [Cards -> Card \cup {None}]
  BY <1>0, AtMarks
<1>2. UNCHANGED <<answers, people>>
  BY DEF ThrowBack, Destroy, Menu, Cancel
<1>3. \A a \in answers' : FromCard(a)' /\ a.got \in 1..MaxThrown
  BY <1>1, <1>2, CardsCarried, AnswersCarried
<1>4. /\ intent' \in [User -> Choice \cup {None}]
      /\ \A w \in User : intent'[w] \in {intent[w], None}
  BY DEF ThrowBack, Destroy, Menu, Cancel, Typed
<1>5. bottles' \in [Id -> Bottle \cup {None}]
  BY DEF ThrowBack, Destroy, Destroyed, Menu, Cancel, sea, Typed
<1>6. wronged' \in BOOLEAN
  BY DEF ThrowBack, Destroy, Destroyed, Menu, Cancel, Typed
<1>7. UNCHANGED <<tide, thrown, throwing, reused>>
  BY DEF ThrowBack, Destroy, Destroyed, Menu, Cancel, sea
<1>8. Typed'
  BY <1>1, <1>2, <1>3, <1>4, <1>5, <1>6, <1>7 DEF Typed, people
<1> QED BY <1>1, <1>2, <1>4, <1>8

\* The choice of how to answer.
LEMMA StartStep ==
  ASSUME Parameters, Typed, NEW c \in Cards, NEW anon \in BOOLEAN, Start(c, anon)
  PROVE  /\ Typed' /\ Asked(c, anon) /\ UNCHANGED <<sea, people, answers, wronged>>
         /\ intent' = [intent EXCEPT ![cards[c].user] = [id |-> cards[c].id, anon |-> anon]]
         /\ cards[c].user \in User /\ [id |-> cards[c].id, anon |-> anon] # None
<1>1. Asked(c, anon) /\ cards' \in [Cards -> Card \cup {None}]
  BY StartAsks
<1>2. UNCHANGED <<sea, people, answers, wronged>>
  BY DEF Start
<1>3. \A a \in answers' : FromCard(a)' /\ a.got \in 1..MaxThrown
  BY <1>1, <1>2, CardsCarried, AnswersCarried
<1>4. cards[c].user \in User /\ cards[c].id \in Id
  BY <1>1, TypedMembers DEF Asked, Card
<1>5. [id |-> cards[c].id, anon |-> anon] \in Choice
  BY <1>4 DEF Choice
<1>6. intent' = [intent EXCEPT ![cards[c].user] = [id |-> cards[c].id, anon |-> anon]]
  BY DEF Start
<1>7. Typed'
  BY <1>1, <1>2, <1>3, <1>5, <1>6 DEF Typed, sea, people
<1> QED BY <1>1, <1>2, <1>4, <1>5, <1>6, <1>7 DEF Parameters

\* A reply spends the intent, and may store an answer.
LEMMA ReplyStep ==
  ASSUME Parameters, Typed, NEW c \in Cards, NEW ok \in BOOLEAN, Reply(c, ok)
  PROVE  /\ Typed' /\ UNCHANGED <<sea, people, wronged>>
         /\ Chosen(c) /\ cards[c].user \in User
         /\ intent' = [intent EXCEPT ![cards[c].user] = None]
         /\ \/ UNCHANGED <<answers, cards>>
            \/ /\ cards[c].id \in Here /\ Marked(c)
               /\ \E told \in BOOLEAN : answers' = answers \cup {Answer(c, told)}
<1>1. UNCHANGED <<sea, people, wronged>> /\ Chosen(c)
  BY DEF Reply, Matches, Chosen, Sent
<1>2. cards[c] \in Card /\ cards[c].user \in User /\ Sent(c)
  BY <1>1, TypedMembers DEF Chosen, Card
<1>3. intent' = [intent EXCEPT ![cards[c].user] = None]
  BY DEF Reply, SpentIntent
<1>4. CASE UNCHANGED <<answers, cards>>
  <2>1. Typed'
    BY <1>1, <1>3, <1>4 DEF Typed, FromCard, Sent, sea, people
  <2> QED BY <1>1, <1>2, <1>3, <1>4, <2>1
<1>5. ASSUME cards[c].id \in Here, Restored(c) \/ UNCHANGED cards,
             NEW told \in BOOLEAN, answers' = answers \cup {Answer(c, told)}
      PROVE  Typed' /\ Marked(c)
  <2> DEFINE Goal == Marked(c) /\ cards' \in [Cards -> Card \cup {None}]
  <2>0. ASSUME Restored(c) PROVE Goal
    <3>1. cards' = [cards EXCEPT ![c].at = "shown"]
      BY <2>0 DEF Restored
    <3> QED BY <1>2, <3>1, AtMarks
  <2>a. ASSUME UNCHANGED cards PROVE Goal
    BY <1>2, <2>a DEF Marked, SameCard, Sent, Typed
  <2>1. Marked(c) /\ cards' \in [Cards -> Card \cup {None}]
    BY <1>5, <2>0, <2>a
  <2>2. \A a \in answers : FromCard(a)' /\ a.got \in 1..MaxThrown
    BY <2>1, CardsCarried, AnswersCarried
  <2>3. ASSUME NEW a, a = Answer(c, told)
        PROVE  FromCard(a)' /\ a.got \in 1..MaxThrown
    <3>1. /\ a.card = c /\ a.turn = cards[c].asked /\ a.id = cards[c].id
          /\ a.meant = cards[c].no /\ a.got = bottles[cards[c].id].no
      BY <2>3 DEF Answer
    <3>2. a.got \in 1..MaxThrown
      BY <1>5, <3>1, TypedMembers DEF Bottle
    <3>3. cards[c].asked \in Nat
      BY <1>2 DEF Card
    <3>4. FromCard(a)'
      BY <2>1, <3>1, <3>3 DEF FromCard, Marked, SameCard
    <3> QED BY <3>2, <3>4
  <2>4. Typed'
    <3>1. \A a \in answers' : FromCard(a)' /\ a.got \in 1..MaxThrown
      BY <1>5, <2>2, <2>3
    <3> QED BY <1>1, <1>3, <2>1, <3>1 DEF Typed, sea, people
  <2> QED BY <2>1, <2>4
<1>6. \/ UNCHANGED <<answers, cards>>
      \/ /\ cards[c].id \in Here /\ (Restored(c) \/ UNCHANGED cards)
         /\ \E told \in BOOLEAN : answers' = answers \cup {Answer(c, told)}
  BY DEF Reply
<1> QED BY <1>1, <1>2, <1>3, <1>4, <1>5, <1>6

\* These are all the actions.
LEMMA NextCases ==
  ASSUME Next
  PROVE  \/ \E u \in User :
              \/ ThrowBegin(u) \/ AddBottle(u) \/ IntentExpires(u)
              \/ EraseBottles(u) \/ SetBan(u)
              \/ \E a \in answers : DestroyNotice(a, u)
         \/ \E c \in Cards :
              \/ \E i \in Id : View(c, i) \/ \E u \in User : Pick(c, u, i)
              \/ ThrowBack(c) \/ Destroy(c) \/ Menu(c) \/ Cancel(c)
              \/ \E anon \in BOOLEAN : Start(c, anon)
              \/ \E ok \in BOOLEAN : Reply(c, ok)
BY DEF Next

-----------------------------------------------------------------------------
\* Ids.

\* While ids are not used again, the next one follows the bottles ever thrown.
LEMMA NewIdNext ==
  ASSUME Parameters, Typed, \A i \in Here : i <= thrown, ~(NewId <= thrown), NewId \in Id
  PROVE  NewId = thrown + 1
<1>1. thrown \in Nat /\ Ids \in Nat
  BY DEF Typed, Parameters
<1> DEFINE below == {i \in Id : \E j \in Here : j >= i}
<1>2. below \subseteq 1..thrown
  <2> SUFFICES ASSUME NEW i \in Id, NEW j \in Here, j >= i PROVE i \in 1..thrown
    OBVIOUS
  <2>1. i \in 1..Ids /\ j \in 1..Ids /\ j <= thrown
    BY TypedMembers DEF Id
  <2> QED BY <1>1, <2>1
<1>3. IsFiniteSet(1..thrown) /\ Cardinality(1..thrown) = thrown
  BY <1>1, FS_Interval
<1>4. Cardinality(below) \in Nat /\ Cardinality(below) <= thrown
  BY <1>2, <1>3, FS_Subset, FS_CardinalityType
<1>5. NewId = 1 + Cardinality(below) \/ NewId = thrown + 1
  BY DEF NewId
<1> HIDE DEF below
<1>6. NewId \in Nat
  BY <1>1, <1>4, <1>5
<1> QED BY <1>1, <1>4, <1>5, <1>6

\* A bottle that goes takes nothing from what fits.
LEMMA FitsWithout ==
  ASSUME Typed, FreshInv, reused' = reused, wronged' = wronged, UNCHANGED <<cards, answers>>,
         thrown' = thrown,
         Here' \subseteq Here, \A i \in Here' : bottles'[i] = bottles[i]
  PROVE  FreshInv'
BY DEF FreshInv, CardFits, AnswerFits, Sent

\* Throwing, and what leaves the cards alone.
LEMMA SeaFresh ==
  ASSUME Parameters, Typed, FreshInv, NEW u \in User,
         \/ ThrowBegin(u) \/ AddBottle(u) \/ IntentExpires(u)
         \/ EraseBottles(u) \/ SetBan(u)
         \/ \E a \in answers : DestroyNotice(a, u)
  PROVE  FreshInv'
<1>1. UNCHANGED <<cards, answers>>
  BY SeaSteps
<1>2. CASE UNCHANGED <<bottles, thrown, reused, wronged>>
  BY <1>1, <1>2, FitsWithout DEF Here
<1>3. CASE AddBottle(u) /\ ~UNCHANGED <<bottles, thrown, reused, late>>
  <2> SUFFICES ASSUME ~reused' PROVE FreshInv'
    BY DEF FreshInv
  <2> DEFINE i == NewId  b == [by |-> u, no |-> thrown + 1]
  <2>1. /\ NewId \in Id /\ bottles' = [bottles EXCEPT ![i] = b] /\ thrown' = thrown + 1
        /\ ~reused /\ ~(NewId <= thrown) /\ wronged' = wronged /\ thrown < MaxThrown
    BY <1>3 DEF AddBottle
  <2>2. /\ ~wronged /\ \A j \in Here : j <= thrown /\ bottles[j].no = j
        /\ \A c \in Cards : Sent(c) => CardFits(c)
        /\ \A a \in answers : AnswerFits(a)
    BY <2>1 DEF FreshInv
  <2>3. i = thrown + 1 /\ thrown \in Nat
    BY <2>1, <2>2, NewIdNext DEF Typed, Parameters
  <2> HIDE DEF i
  <2>4. Here' \subseteq Here \cup {i} /\ \A j \in Id : j # i => bottles'[j] = bottles[j]
    BY <2>1 DEF Here, Typed, i
  <2>5. bottles'[i] = b
    BY <2>1 DEF Typed, i
  <2>6. \A j \in Here' : j <= thrown' /\ bottles'[j].no = j
    <3> SUFFICES ASSUME NEW j \in Here' PROVE j <= thrown' /\ bottles'[j].no = j
      OBVIOUS
    <3>1. CASE j = i
      BY <3>1, <2>1, <2>3, <2>5
    <3>2. CASE j # i
      <4>1. j \in Here /\ j \in Int
        BY <3>2, <2>4, TypedMembers DEF Id
      <4> QED BY <4>1, <3>2, <2>1, <2>2, <2>3, <2>4, TypedMembers
    <3> QED BY <3>1, <3>2
  <2>7. ASSUME NEW c \in Cards, Sent(c)
        PROVE  CardFits(c)'
    <3>1. cards[c].id \in Id /\ cards[c].id \in Int /\ cards[c].id <= thrown
      BY <2>2, <2>7, TypedMembers DEF Card, CardFits, Id
    <3>2. cards[c].id # i /\ cards[c].id <= thrown'
      BY <3>1, <2>1, <2>3
    <3> QED BY <1>1, <2>2, <2>4, <2>7, <3>1, <3>2 DEF CardFits
  <2>8. ASSUME NEW a \in answers
        PROVE  AnswerFits(a)'
    <3>1. a.id = cards[a.card].id /\ a.card \in Cards /\ Sent(a.card)
      BY <2>8 DEF Typed, FromCard
    <3>2. a.id \in Id /\ a.id \in Int /\ a.id <= thrown
      BY <2>2, <3>1, TypedMembers DEF Card, CardFits, Id
    <3>3. a.id # i
      BY <3>2, <2>3
    <3> QED BY <2>2, <2>4, <3>2, <3>3 DEF AnswerFits
  <2> QED BY <1>1, <2>1, <2>2, <2>6, <2>7, <2>8 DEF FreshInv, Sent
<1>4. CASE EraseBottles(u)
  BY <1>1, <1>4, FitsWithout DEF EraseBottles, BottlesBut, Here, Typed
<1>5. ASSUME NEW a \in answers, DestroyNotice(a, u)
      PROVE  FreshInv'
  <2>1. /\ bottles' = [bottles EXCEPT ![a.id] = None] /\ u = a.sender
        /\ wronged' = (wronged \/ (a.id \in Here /\ bottles[a.id].by # u))
        /\ thrown' = thrown /\ reused' = reused
    BY <1>5 DEF DestroyNotice, Destroyed
  <2> SUFFICES ASSUME ~reused PROVE FreshInv'
    BY <2>1 DEF FreshInv
  <2>2. AnswerFits(a)
    BY <1>5 DEF FreshInv
  <2>3. wronged' = wronged
    BY <2>1, <2>2 DEF AnswerFits, Typed
  <2>4. Here' \subseteq Here /\ \A i \in Here' : bottles'[i] = bottles[i]
    BY <2>1 DEF Here, Typed
  <2> QED BY <1>1, <2>1, <2>3, <2>4, FitsWithout
<1> QED BY <1>2, <1>3, <1>4, <1>5 DEF ThrowBegin, AddBottle, IntentExpires, SetBan, sea, people

\* A card that is sent fits its bottle.
LEMMA ShowFresh ==
  ASSUME Parameters, Typed, FreshInv, NEW c \in Cards, NEW i \in Id,
         View(c, i) \/ \E u \in User : Pick(c, u, i)
  PROVE  FreshInv'
<1>1. UNCHANGED <<sea, answers, wronged>> /\ i \in Here
  BY ShowSteps
<1>2. PICK u \in User, own \in BOOLEAN : Posted(c, u, i, own) /\ (own => bottles[i].by = u)
  BY ShowSteps
<1>3. UNCHANGED <<bottles, thrown, reused>> /\ Here' = Here
  BY <1>1 DEF sea, Here
<1> SUFFICES ASSUME ~reused PROVE FreshInv'
  BY <1>3 DEF FreshInv
<1>4. CardFits(c)'
  BY <1>1, <1>2, <1>3 DEF FreshInv, Posted, CardFits
<1>5. ASSUME NEW e \in Cards, Sent(e)' PROVE CardFits(e)'
  BY <1>2, <1>3, <1>4, <1>5 DEF FreshInv, Posted, CardFits, Sent
<1> QED BY <1>1, <1>3, <1>5 DEF FreshInv, AnswerFits

\* A card whose buttons change fits as before; one that destroys its bottle
\* destroys one of its own user.
LEMMA PressFresh ==
  ASSUME Parameters, Typed, FreshInv, NEW c \in Cards,
         ThrowBack(c) \/ Destroy(c) \/ Menu(c) \/ Cancel(c)
  PROVE  FreshInv'
<1>1. Marked(c) /\ UNCHANGED answers
  BY PressSteps
<1>2. UNCHANGED <<thrown, reused>>
  BY DEF ThrowBack, Destroy, Destroyed, Menu, Cancel, sea
<1> SUFFICES ASSUME ~reused PROVE FreshInv'
  BY <1>2 DEF FreshInv
<1>3. wronged' = wronged /\ Here' \subseteq Here /\ \A i \in Here' : bottles'[i] = bottles[i]
  <2>1. CASE Destroy(c)
    <3>1. /\ bottles' = [bottles EXCEPT ![cards[c].id] = None] /\ cards[c].own
          /\ wronged' = (wronged \/ (cards[c].id \in Here
                                       /\ bottles[cards[c].id].by # cards[c].user))
      BY <2>1 DEF Destroy, Destroyed
    <3>2. CardFits(c)
      BY <1>1 DEF FreshInv, Marked
    <3>3. wronged' = wronged
      BY <3>1, <3>2 DEF CardFits, Typed
    <3> QED BY <3>1, <3>3 DEF Here, Typed
  <2>2. CASE ThrowBack(c) \/ Menu(c) \/ Cancel(c)
    BY <2>2 DEF ThrowBack, Menu, Cancel, sea, Here
  <2> QED BY <2>1, <2>2
<1>4. ASSUME NEW e \in Cards, Sent(e)' PROVE CardFits(e)'
  <2>1. Sent(e) /\ SameCard(e)
    BY <1>1, <1>4 DEF Marked, SameCard, Sent
  <2> QED BY <1>2, <1>3, <2>1 DEF FreshInv, CardFits, SameCard
<1> QED BY <1>1, <1>2, <1>3, <1>4 DEF FreshInv, AnswerFits

\* Neither a choice nor a reply unmakes it.
LEMMA AnswerFresh ==
  ASSUME Parameters, Typed, FreshInv, NEW c \in Cards,
         \/ \E anon \in BOOLEAN : Start(c, anon)
         \/ \E ok \in BOOLEAN : Reply(c, ok)
  PROVE  FreshInv'
<1>1. UNCHANGED <<sea, wronged>>
  BY StartStep, ReplyStep
<1>2. UNCHANGED <<bottles, thrown, reused>> /\ Here' = Here
  BY <1>1 DEF sea, Here
<1> SUFFICES ASSUME ~reused PROVE FreshInv'
  BY <1>2 DEF FreshInv
<1>3. Carried /\ \A e \in Cards : Sent(e)' => Sent(e)
  <2>1. (\E anon \in BOOLEAN : Asked(c, anon)) \/ Marked(c) \/ UNCHANGED cards
    BY StartStep, ReplyStep
  <2>2. Carried
    BY <2>1, CardsCarried
  <2> QED BY <2>1, <2>2 DEF Asked, Marked, Sent
<1>4. ASSUME NEW e \in Cards, Sent(e)' PROVE CardFits(e)'
  BY <1>2, <1>3, <1>4 DEF FreshInv, CardFits, Carried, SameCard
<1>5. \A a \in answers : AnswerFits(a)'
  BY <1>2 DEF FreshInv, AnswerFits
<1>6. CASE UNCHANGED answers
  BY <1>1, <1>2, <1>4, <1>5, <1>6 DEF FreshInv
<1>7. ASSUME cards[c].id \in Here, Sent(c),
             NEW told \in BOOLEAN, answers' = answers \cup {Answer(c, told)}
      PROVE  FreshInv'
  <2>1. ASSUME NEW a, a = Answer(c, told)
        PROVE  AnswerFits(a)'
    <3>1. /\ a.meant = cards[c].no /\ a.got = bottles[cards[c].id].no
          /\ a.id = cards[c].id /\ a.sender = bottles[cards[c].id].by
      BY <2>1 DEF Answer
    <3> QED BY <1>2, <1>7, <3>1 DEF FreshInv, CardFits, AnswerFits
  <2> QED BY <1>1, <1>2, <1>4, <1>5, <1>7, <2>1 DEF FreshInv
<1>8. \/ UNCHANGED answers
      \/ /\ cards[c].id \in Here /\ Sent(c)
         /\ \E told \in BOOLEAN : answers' = answers \cup {Answer(c, told)}
  BY StartStep, ReplyStep DEF Chosen
<1> QED BY <1>6, <1>7, <1>8

-----------------------------------------------------------------------------
\* Bans.

\* A ban begins by taking the bottles, and nobody who is banned throws.
LEMMA NextBan ==
  ASSUME Parameters, Typed, BanInv, Next
  PROVE  BanInv'
<1> SUFFICES ASSUME ~late'
             PROVE  /\ \A i \in Here' : bottles'[i].by \notin banned' \cup erasing'
                    /\ banned' \cap throwing' = {}
  BY DEF BanInv
<1> DEFINE Fewer == /\ Here' \subseteq Here /\ \A i \in Here' : bottles'[i] = bottles[i]
                    /\ UNCHANGED <<banned, erasing, late, throwing>>
<1>1. CASE Fewer
  BY <1>1 DEF BanInv
<1>2. ASSUME NEW c \in Cards, \E i \in Id : View(c, i) \/ \E u \in User : Pick(c, u, i)
      PROVE  Fewer
  BY <1>2 DEF View, Pick, sea, people, Here
<1>3. ASSUME NEW c \in Cards, ThrowBack(c) \/ Menu(c) \/ Cancel(c)
      PROVE  Fewer
  BY <1>3 DEF ThrowBack, Menu, Cancel, sea, people, Here
<1>4. ASSUME NEW c \in Cards, Destroy(c)
      PROVE  Fewer
  BY <1>4 DEF Destroy, Destroyed, people, Here, Typed
<1>5. ASSUME NEW c \in Cards, \/ \E anon \in BOOLEAN : Start(c, anon)
                              \/ \E ok \in BOOLEAN : Reply(c, ok)
      PROVE  Fewer
  BY <1>5 DEF Start, Reply, sea, people, Here
<1>6. ASSUME NEW u \in User, IntentExpires(u)
      PROVE  Fewer
  BY <1>6 DEF IntentExpires, sea, people, Here
<1>7. ASSUME NEW u \in User, NEW a \in answers, DestroyNotice(a, u)
      PROVE  Fewer
  BY <1>7 DEF DestroyNotice, Destroyed, people, Here, Typed
<1>8. ASSUME NEW u \in User, ThrowBegin(u)
      PROVE  BanInv'
  BY <1>8 DEF ThrowBegin, MayThrow, people, BanInv, Here
<1>9. ASSUME NEW u \in User, AddBottle(u)
      PROVE  BanInv'
  <2>1. /\ u \in throwing /\ throwing' \subseteq throwing /\ UNCHANGED <<banned, erasing>>
        /\ \/ UNCHANGED <<bottles, late>>
           \/ /\ NewId \in Id /\ u \notin erasing /\ ~late
              /\ bottles' = [bottles EXCEPT ![NewId] = [by |-> u, no |-> thrown + 1]]
    BY <1>9 DEF AddBottle
  <2>2. CASE UNCHANGED <<bottles, late>>
    BY <2>1, <2>2 DEF BanInv, Here
  <2>3. CASE /\ NewId \in Id /\ u \notin erasing /\ ~late
             /\ bottles' = [bottles EXCEPT ![NewId] = [by |-> u, no |-> thrown + 1]]
    <3>1. u \notin banned
      BY <2>1, <2>3 DEF BanInv
    <3>2. \A i \in Here' : bottles'[i].by = u \/ (i \in Here /\ bottles'[i] = bottles[i])
      BY <2>3 DEF Here, Typed
    <3> QED BY <2>1, <2>3, <3>1, <3>2 DEF BanInv
  <2> QED BY <2>1, <2>2, <2>3
<1>10. ASSUME NEW u \in User, EraseBottles(u)
       PROVE  BanInv'
  <2>1. \A i \in Here' : i \in Here /\ bottles'[i] = bottles[i] /\ bottles[i].by # u
    BY <1>10 DEF EraseBottles, BottlesBut, Here, Typed
  <2> QED BY <1>10, <2>1 DEF EraseBottles, BottlesBut, BanInv
<1>11. ASSUME NEW u \in User, SetBan(u)
       PROVE  BanInv'
  BY <1>11 DEF SetBan, sea, BanInv, Here
<1> HIDE DEF Fewer
<1>12. Fewer \/ BanInv'
  BY NextCases, <1>2, <1>3, <1>4, <1>5, <1>6, <1>7, <1>8, <1>9, <1>10, <1>11
<1> QED BY <1>1, <1>12 DEF BanInv

-----------------------------------------------------------------------------
\* Intents.

\* Two cards of a user that show the same bottle keep showing it.
LEMMA TwinnedStays ==
  ASSUME Carried, NEW c \in Cards, Sent(c), Twinned(c)
  PROVE  Twinned(c)'
<1>1. PICK e \in Cards \ {c} :
        Sent(e) /\ cards[e].user = cards[c].user /\ cards[e].no = cards[c].no
  BY DEF Twinned
<1>2. Sent(e)' /\ cards'[e].user = cards'[c].user /\ cards'[e].no = cards'[c].no
  BY <1>1 DEF Carried, SameCard
<1> QED BY <1>1, <1>2 DEF Twinned

\* A card that answers an intent goes on answering it.
LEMMA HasCardStays ==
  ASSUME Carried, NEW w \in User, HasCard(w), intent'[w] = intent[w]
  PROVE  HasCard(w)'
BY DEF HasCard, Carried, SameCard

\* The answers that were given stay as they were chosen.
LEMMA AnswersStay ==
  ASSUME Typed, Carried, IntentInv, ~reused
  PROVE  /\ \A a \in answers : Twinned(a.card)' \/ a.anon = a.chose
         /\ \A a, b \in answers :
              a.card = b.card /\ a.turn = b.turn => a = b \/ Twinned(a.card)'
<1>1. \A a \in answers : Twinned(a.card) => Twinned(a.card)'
  <2> SUFFICES ASSUME NEW a \in answers, Twinned(a.card) PROVE Twinned(a.card)'
    OBVIOUS
  <2> DEFINE c == a.card
  <2>1. c \in Cards /\ Sent(c) /\ Twinned(c)
    BY DEF Typed, FromCard
  <2> HIDE DEF c
  <2>2. Twinned(c)'
    BY <2>1, TwinnedStays
  <2> QED BY <2>2 DEF c
<1> QED BY <1>1 DEF IntentInv

\* What only ends intents keeps the rest of them.
LEMMA IntentsEnd ==
  ASSUME Typed, IntentInv, Carried, UNCHANGED answers, reused => reused',
         \A e \in Cards : Sent(e)' =>
             Sent(e) /\ cards'[e].anon = cards[e].anon /\ cards'[e].asked = cards[e].asked,
         \A w \in User : intent'[w] \in {intent[w], None}
  PROVE  IntentInv'
<1>1. \A w \in User : intent'[w] # None => HasCard(w)'
  BY HasCardStays DEF IntentInv
<1> SUFFICES ASSUME ~reused'
             PROVE  /\ \A c \in Cards : Chosen(c)' /\ ~Twinned(c)' => ChosenHere(c)'
                    /\ \A a \in answers' : Twinned(a.card)' \/ a.anon = a.chose
                    /\ \A a, b \in answers' :
                         a.card = b.card /\ a.turn = b.turn => a = b \/ Twinned(a.card)'
  BY <1>1 DEF IntentInv
<1>2. ASSUME NEW c \in Cards, Chosen(c)', ~Twinned(c)'
      PROVE  ChosenHere(c)'
  <2>1. Sent(c) /\ SameCard(c) /\ cards[c].user \in User
    BY <1>2, TypedMembers DEF Chosen, Carried, Card
  <2>2. intent'[cards[c].user] = intent[cards[c].user]
    BY <1>2, <2>1 DEF Chosen, SameCard
  <2>3. Chosen(c) /\ ~Twinned(c)
    BY <1>2, <2>1, <2>2, TwinnedStays DEF Chosen, SameCard
  <2>4. ChosenHere(c)
    BY <2>3 DEF IntentInv
  <2> QED BY <1>2, <2>1, <2>2, <2>4 DEF ChosenHere, Chosen, SameCard
<1> QED BY <1>2, AnswersStay

\* Throwing, bans and time.
LEMMA SeaIntents ==
  ASSUME Parameters, Typed, IntentInv, NEW u \in User,
         \/ ThrowBegin(u) \/ AddBottle(u) \/ IntentExpires(u)
         \/ EraseBottles(u) \/ SetBan(u)
         \/ \E a \in answers : DestroyNotice(a, u)
  PROVE  IntentInv'
<1>1. UNCHANGED <<cards, answers>>
  BY SeaSteps
<1>2. Carried
  BY <1>1, CardsCarried
<1>3. reused => reused'
  BY DEF ThrowBegin, AddBottle, IntentExpires, EraseBottles, BottlesBut, SetBan, DestroyNotice, Destroyed,
         sea
<1>4. \A w \in User : intent'[w] \in {intent[w], None}
  BY DEF ThrowBegin, AddBottle, IntentExpires, EraseBottles, BottlesBut, SetBan, DestroyNotice, Typed
<1> QED BY <1>1, <1>2, <1>3, <1>4, IntentsEnd DEF Sent

\* Presses that change the buttons.
LEMMA PressIntents ==
  ASSUME Parameters, Typed, IntentInv, NEW c \in Cards,
         ThrowBack(c) \/ Destroy(c) \/ Menu(c) \/ Cancel(c)
  PROVE  IntentInv'
<1>1. Marked(c) /\ UNCHANGED answers /\ \A w \in User : intent'[w] \in {intent[w], None}
  BY PressSteps
<1>2. Carried
  BY <1>1, CardsCarried
<1>3. reused' = reused
  BY DEF ThrowBack, Destroy, Destroyed, Menu, Cancel, sea
<1> QED BY <1>1, <1>2, <1>3, IntentsEnd DEF Marked, Sent

\* A card sent while there is an intent for its bottle is another one of the
\* card the intent was chosen on.
LEMMA ShowIntents ==
  ASSUME Parameters, Typed, FreshInv, IntentInv, NEW c \in Cards, NEW i \in Id,
         View(c, i) \/ \E u \in User : Pick(c, u, i)
  PROVE  IntentInv'
<1>1. UNCHANGED <<sea, intent, answers>> /\ i \in Here
  BY ShowSteps
<1>2. PICK u \in User, own \in BOOLEAN : Posted(c, u, i, own)
  BY ShowSteps
<1>3. Carried /\ reused' = reused
  BY <1>1, <1>2, CardsCarried DEF sea
<1>4. \A w \in User : intent'[w] # None => HasCard(w)'
  BY <1>1, <1>3, HasCardStays DEF IntentInv
<1> SUFFICES ASSUME ~reused
             PROVE  /\ \A e \in Cards : Chosen(e)' /\ ~Twinned(e)' => ChosenHere(e)'
                    /\ \A a \in answers' : Twinned(a.card)' \/ a.anon = a.chose
                    /\ \A a, b \in answers' :
                         a.card = b.card /\ a.turn = b.turn => a = b \/ Twinned(a.card)'
  BY <1>3, <1>4 DEF IntentInv
<1>5. ASSUME NEW e \in Cards, Chosen(e)', ~Twinned(e)', e # c
      PROVE  ChosenHere(e)'
  <2>1. cards'[e] = cards[e] /\ Sent(e)
    BY <1>2, <1>5 DEF Posted, Chosen, Sent
  <2>2. Chosen(e) /\ ~Twinned(e)
    BY <1>1, <1>3, <1>5, <2>1, TwinnedStays DEF Chosen
  <2>3. ChosenHere(e)
    BY <2>2 DEF IntentInv
  <2> QED BY <1>1, <2>1, <2>3 DEF ChosenHere
<1>6. ASSUME Chosen(c)'
      PROVE  Twinned(c)'
  <2>1. intent[u] # None /\ intent[u].id = i /\ cards'[c].user = u /\ cards'[c].no = bottles[i].no
    BY <1>1, <1>2, <1>6 DEF Chosen, Posted
  <2>2. PICK e \in Cards : Sent(e) /\ cards[e].user = u /\ cards[e].id = i
    BY <2>1 DEF IntentInv, HasCard
  <2>3. cards[e].no = i /\ bottles[i].no = i
    BY <1>1, <2>2 DEF FreshInv, CardFits
  <2>4. e # c /\ cards'[e] = cards[e] /\ Sent(e)'
    BY <1>2, <2>2 DEF Posted, Sent
  <2> QED BY <2>1, <2>2, <2>3, <2>4 DEF Twinned
<1> QED BY <1>1, <1>3, <1>5, <1>6, AnswersStay

\* A choice on a card is for that card, and for no other without a twin; it has
\* no answers yet.
LEMMA StartIntents ==
  ASSUME Parameters, Typed, FreshInv, IntentInv, NEW c \in Cards, NEW anon \in BOOLEAN,
         Start(c, anon)
  PROVE  IntentInv'
<1> DEFINE u == cards[c].user  choice == [id |-> cards[c].id, anon |-> anon]
<1>1. /\ Asked(c, anon) /\ UNCHANGED <<sea, answers>> /\ u \in User
      /\ intent' = [intent EXCEPT ![u] = choice]
  BY StartStep
<1>2. intent'[u] = choice /\ \A w \in User : w # u => intent'[w] = intent[w]
  BY <1>1 DEF Typed
<1>3. /\ Sent(c) /\ Sent(c)' /\ SameCard(c) /\ cards'[c].anon = anon
      /\ cards'[c].asked = cards[c].asked + 1
      /\ \A e \in Cards : e # c => cards'[e] = cards[e]
  BY <1>1 DEF Asked
<1>4. Carried /\ reused' = reused
  BY <1>1, CardsCarried DEF sea
<1>5. \A w \in User : intent'[w] # None => HasCard(w)'
  <2>1. \A w \in User : w = u => HasCard(w)'
    BY <1>2, <1>3 DEF HasCard, SameCard
  <2>2. \A w \in User : w # u /\ intent'[w] # None => HasCard(w)'
    BY <1>2, <1>4, HasCardStays DEF IntentInv
  <2> QED BY <2>1, <2>2
<1> SUFFICES ASSUME ~reused
             PROVE  /\ \A e \in Cards : Chosen(e)' /\ ~Twinned(e)' => ChosenHere(e)'
                    /\ \A a \in answers' : Twinned(a.card)' \/ a.anon = a.chose
                    /\ \A a, b \in answers' :
                         a.card = b.card /\ a.turn = b.turn => a = b \/ Twinned(a.card)'
  BY <1>4, <1>5 DEF IntentInv
<1>6. ChosenHere(c)'
  <2>1. intent'[cards'[c].user].anon = cards'[c].anon
    BY <1>2, <1>3 DEF SameCard
  <2>2. ASSUME NEW a \in answers, a.card = c
        PROVE  a.turn < cards'[c].asked
    <3>1. a.turn \in Nat /\ a.turn <= cards[c].asked
      BY <2>2 DEF Typed, FromCard
    <3>2. cards[c].asked \in Nat
      BY <1>3, TypedMembers DEF Card
    <3> QED BY <1>3, <3>1, <3>2
  <2> QED BY <1>1, <2>1, <2>2 DEF ChosenHere
<1>7. ASSUME NEW e \in Cards, Chosen(e)', ~Twinned(e)', e # c
      PROVE  ChosenHere(e)'
  <2>1. cards'[e] = cards[e] /\ Sent(e)
    BY <1>3, <1>7 DEF Chosen, Sent
  <2>2. cards[e].user # u
    <3> SUFFICES ASSUME cards[e].user = u PROVE FALSE
      OBVIOUS
    <3>1. cards[e].id = cards[c].id
      BY <1>2, <1>7, <2>1 DEF Chosen
    <3>2. cards[e].no = cards[c].no
      BY <1>3, <2>1, <3>1 DEF FreshInv, CardFits
    <3>3. Twinned(e)'
      BY <1>3, <1>7, <2>1, <3>2 DEF Twinned, SameCard
    <3> QED BY <1>7, <3>3
  <2>3. cards[e].user \in User
    BY <2>1, TypedMembers DEF Card
  <2>4. intent'[cards[e].user] = intent[cards[e].user]
    BY <1>2, <2>2, <2>3
  <2>5. Chosen(e) /\ ~Twinned(e)
    BY <1>4, <1>7, <2>1, <2>4, TwinnedStays DEF Chosen
  <2>6. ChosenHere(e)
    BY <2>5 DEF IntentInv
  <2> QED BY <1>1, <2>1, <2>4, <2>6 DEF ChosenHere
<1> QED BY <1>1, <1>4, <1>6, <1>7, AnswersStay

\* An answer spends the intent it was given with.
LEMMA ReplyIntents ==
  ASSUME Parameters, Typed, IntentInv, NEW c \in Cards, NEW ok \in BOOLEAN, Reply(c, ok)
  PROVE  IntentInv'
<1> DEFINE u == cards[c].user
<1>1. /\ UNCHANGED <<sea, people, wronged>> /\ Chosen(c) /\ u \in User
      /\ intent' = [intent EXCEPT ![u] = None]
  BY ReplyStep
<1>2. intent'[u] = None /\ \A w \in User : w # u => intent'[w] = intent[w]
  BY <1>1 DEF Typed
<1>3. reused' = reused
  BY <1>1 DEF sea
<1>4. CASE UNCHANGED <<answers, cards>>
  <2>1. Carried
    BY <1>4, CardsCarried
  <2> QED BY <1>2, <1>3, <1>4, <2>1, IntentsEnd DEF Sent
<1>5. ASSUME Marked(c), NEW told \in BOOLEAN, NEW g, g = Answer(c, told),
             answers' = answers \cup {g}
      PROVE  IntentInv'
  <2>1. Carried
    BY <1>5, CardsCarried
  <2>2. \A w \in User : intent'[w] # None => HasCard(w)'
    BY <1>2, <2>1, HasCardStays DEF IntentInv
  <2>3. g.card = c /\ g.turn = cards[c].asked /\ g.anon = intent[u].anon /\ g.chose = cards[c].anon
    BY <1>5 DEF Answer
  <2> SUFFICES ASSUME ~reused
               PROVE  /\ \A e \in Cards : Chosen(e)' /\ ~Twinned(e)' => ChosenHere(e)'
                      /\ \A a \in answers' : Twinned(a.card)' \/ a.anon = a.chose
                      /\ \A a, b \in answers' :
                           a.card = b.card /\ a.turn = b.turn => a = b \/ Twinned(a.card)'
    BY <1>3, <2>2 DEF IntentInv
  <2>4. ASSUME NEW e \in Cards, Chosen(e)', ~Twinned(e)'
        PROVE  ChosenHere(e)'
    <3>1. Sent(e) /\ SameCard(e) /\ cards[e].user # u
      BY <1>2, <1>5, <2>4 DEF Marked, SameCard, Chosen, Sent
    <3>2. cards[e].user \in User
      BY <3>1, TypedMembers DEF Card
    <3>3. intent'[cards[e].user] = intent[cards[e].user] /\ e # c
      BY <1>2, <3>1, <3>2
    <3>4. Chosen(e) /\ ~Twinned(e)
      BY <2>1, <2>4, <3>1, <3>3, TwinnedStays DEF Chosen, SameCard
    <3>5. ChosenHere(e) /\ cards'[e] = cards[e]
      BY <1>5, <3>3, <3>4 DEF IntentInv, Marked
    <3> QED BY <1>5, <2>3, <3>3, <3>5 DEF ChosenHere
  <2>5. ASSUME ~Twinned(c)'
        PROVE  g.anon = g.chose /\ \A a \in answers : a.card = c => a.turn # g.turn
    <3>1. ~Twinned(c)
      BY <1>5, <2>1, <2>5, TwinnedStays DEF Marked
    <3>2. ChosenHere(c)
      BY <1>1, <3>1 DEF IntentInv
    <3>3. cards[c].asked \in Nat
      BY <1>5, TypedMembers DEF Marked, Card
    <3>4. ASSUME NEW a \in answers, a.card = c
          PROVE  a.turn # g.turn
      <4>1. a.turn < cards[c].asked /\ a.turn \in Nat
        BY <3>2, <3>4 DEF ChosenHere, Typed, FromCard
      <4> QED BY <2>3, <3>3, <4>1
    <3> QED BY <2>3, <3>2, <3>4 DEF ChosenHere
  <2>6. \A a \in answers' : Twinned(a.card)' \/ a.anon = a.chose
    <3>1. \A a \in answers : Twinned(a.card)' \/ a.anon = a.chose
      BY <2>1, AnswersStay
    <3>2. ASSUME NEW a, a = g PROVE Twinned(a.card)' \/ a.anon = a.chose
      BY <2>3, <2>5, <3>2
    <3> QED BY <1>5, <3>1, <3>2
  <2>7. \A a, b \in answers' :
          a.card = b.card /\ a.turn = b.turn => a = b \/ Twinned(a.card)'
    <3> SUFFICES ASSUME NEW a \in answers', NEW b \in answers',
                        a.card = b.card, a.turn = b.turn
                 PROVE  a = b \/ Twinned(a.card)'
      OBVIOUS
    <3>1. CASE a \in answers /\ b \in answers
      BY <2>1, <3>1, AnswersStay
    <3>2. CASE a = g \/ b = g
      <4>1. a.card = c
        BY <2>3, <3>2
      <4>2. a = b \/ Twinned(c)'
        BY <1>5, <2>3, <2>5, <3>2
      <4>3. Twinned(c)' => Twinned(a.card)'
        BY <4>1 DEF Twinned
      <4> QED BY <4>2, <4>3
    <3> QED BY <1>5, <3>1, <3>2
  <2> QED BY <2>4, <2>6, <2>7
<1> QED BY <1>4, <1>5, ReplyStep

-----------------------------------------------------------------------------
\* Every step keeps the invariant.
THEOREM NextInv == ASSUME Parameters PROVE Inv /\ [Next]_vars => Inv'
<1> SUFFICES ASSUME Inv, [Next]_vars PROVE Inv'
  OBVIOUS
<1> USE DEF Inv
<1>1. CASE UNCHANGED vars
  <2>1. Typed'
    BY <1>1 DEF vars, Typed, FromCard, Sent
  <2>2. FreshInv' /\ BanInv'
    BY <1>1 DEF vars, FreshInv, BanInv, CardFits, AnswerFits, Here, Sent
  <2>3. Carried
    BY <1>1, CardsCarried DEF vars
  <2>4. IntentInv'
    BY <1>1, <2>3, IntentsEnd DEF vars, Sent
  <2> QED BY <2>1, <2>2, <2>4
<1>2. ASSUME Next PROVE Inv'
  <2>1. BanInv'
    BY <1>2, NextBan
  <2>2. ASSUME NEW u \in User,
               \/ ThrowBegin(u) \/ AddBottle(u) \/ IntentExpires(u)
               \/ EraseBottles(u) \/ SetBan(u)
               \/ \E a \in answers : DestroyNotice(a, u)
        PROVE  Typed' /\ FreshInv' /\ IntentInv'
    BY <2>2, SeaSteps, SeaFresh, SeaIntents
  <2>3. ASSUME NEW c \in Cards, NEW i \in Id, View(c, i) \/ \E u \in User : Pick(c, u, i)
        PROVE  Typed' /\ FreshInv' /\ IntentInv'
    BY <2>3, ShowSteps, ShowFresh, ShowIntents
  <2>4. ASSUME NEW c \in Cards, ThrowBack(c) \/ Destroy(c) \/ Menu(c) \/ Cancel(c)
        PROVE  Typed' /\ FreshInv' /\ IntentInv'
    BY <2>4, PressSteps, PressFresh, PressIntents
  <2>5. ASSUME NEW c \in Cards, NEW anon \in BOOLEAN, Start(c, anon)
        PROVE  Typed' /\ FreshInv' /\ IntentInv'
    BY <2>5, StartStep, AnswerFresh, StartIntents
  <2>6. ASSUME NEW c \in Cards, NEW ok \in BOOLEAN, Reply(c, ok)
        PROVE  Typed' /\ FreshInv' /\ IntentInv'
    BY <2>6, ReplyStep, AnswerFresh, ReplyIntents
  <2> QED BY <1>2, <2>1, <2>2, <2>3, <2>4, <2>5, <2>6, NextCases
<1> QED BY <1>1, <1>2

\* The invariant says what is promised.
LEMMA InvMeans ==
  ASSUME Inv
  PROVE  /\ TypeOK /\ OwnBottlesOnly /\ BannedBottlesGone
         /\ AnswerAsMeant /\ OneAnswerPerChoice
<1>1. TypeOK
  <2>1. ASSUME NEW a \in answers
        PROVE  a.card \in Cards /\ a.meant \in 1..MaxThrown /\ a.got \in 1..MaxThrown
    <3>1. FromCard(a) /\ a.got \in 1..MaxThrown
      BY <2>1 DEF Inv, Typed
    <3>2. cards[a.card].no \in 1..MaxThrown
      BY <3>1, TypedMembers DEF Inv, FromCard, Card
    <3> QED BY <3>1, <3>2 DEF FromCard
  <2>2. {late, reused, wronged} \subseteq BOOLEAN
    BY DEF Inv, Typed
  <2> QED BY <2>1, <2>2 DEF Inv, Typed, TypeOK
<1>2. OwnBottlesOnly /\ BannedBottlesGone
  BY DEF Inv, FreshInv, BanInv, OwnBottlesOnly, BannedBottlesGone
<1>3. AnswerAsMeant /\ OneAnswerPerChoice
  <2>1. \A a \in answers : Twinned(a.card) => Twin(a)
    BY DEF Inv, Typed, FromCard, Twinned, Twin, Sent
  <2>2. \A a \in answers : ~reused => a.got = a.meant
    BY DEF Inv, FreshInv, AnswerFits
  <2> QED BY <2>1, <2>2 DEF Inv, IntentInv, AnswerAsMeant, OneAnswerPerChoice
<1> QED BY <1>1, <1>2, <1>3

\* Every reachable state satisfies the inductive invariant.
THEOREM Invariant == ASSUME Parameters PROVE Spec => []Inv
BY InitInv, NextInv, PTL DEF Spec

\* The types of the state: add_bottle, the cards and reply_bottle_start.
THEOREM TypeCorrect == ASSUME Parameters PROVE Spec => []TypeOK
BY InvMeans, Invariant, PTL

\* Nobody destroys a bottle that is not his with a card that outlived its own,
\* as long as the database does not use an id again (delete_bottle).
THEOREM OwnOnly == ASSUME Parameters PROVE Spec => []OwnBottlesOnly
BY InvMeans, Invariant, PTL

\* /banseapest leaves nothing of the user in the sea for good, unless a throw
\* of his was under way.
THEOREM BannedGone == ASSUME Parameters PROVE Spec => []BannedBottlesGone
BY InvMeans, Invariant, PTL

\* handle_bottle_reply_message gives an answer to the bottle of its card, as
\* anonymous as it was chosen on that card, and one for each choice: unless an
\* id is used again or the user has two cards of the bottle.
THEOREM AnswersMeant ==
  ASSUME Parameters PROVE Spec => [](AnswerAsMeant /\ OneAnswerPerChoice)
BY InvMeans, Invariant, PTL

=============================================================================
