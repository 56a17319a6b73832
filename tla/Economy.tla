------------------------------- MODULE Economy -------------------------------
(***************************************************************************)
(* Coins, gifts and affection of one user: database/user.py, gift.py and   *)
(* affection.py, gift/service.py, plugins/gift, plugins/agent/user_memory. *)
(*                                                                         *)
(* Coins, affection and language are one JSON document of the user's row.  *)
(* Every change reads the document in a transaction (or, for the language  *)
(* and the panel's coins, before it), and writes it back whole.  `hands`   *)
(* are the handlers between the two.                                       *)
(***************************************************************************)
EXTENDS Integers, Sequences, FiniteSets, FiniteSetsExt

CONSTANTS Purse,     \* coins at first
          Floor,     \* -144 * 16, the most one can owe
          Goods,     \* gifts: subset of {"grass", "lamp", "bell"}
          Price(_),  \* of a kind
          Bonus,     \* add_affection of the lamp, rarity included
          Peak,      \* of affection, 2000
          Daily,     \* coin_daily_add_count
          Amounts,   \* rewards, prices and balances typed in the panel
          Changes,   \* of affection
          Fortunes,  \* scenarios: [may, aff, postgres, redis]: what may happen, the
                     \* affection at first, the database, and the caches
          MaxHands, MaxSteps, MaxCrashes, None

VARIABLES luck,     \* the one of Fortunes
          row,      \* user_data.config: [coins, aff, lang]
          hands,    \* handlers that have read: [op, n, saw]
          gifts,    \* gifts of the user, by number: [kind, sent, used]
          sending,  \* the gift whose sender holds _gift_send_lock: [g, at]
          lamp,     \* user_affection:<id>, the temporary affection
          memory,   \* agent_user_memory: "none", "old", "new"
          pondering,\* update_user_memory is running, with the memory it read
          daily,    \* user:<id>:daily_coins_reset
          hist,     \* affection_histogram
          people,   \* other rows of user_data, affection 0
          steps,    \* bounds the changes
          owed, earned, raced, drifted, lit, crashes, paid, keen, revived \* history

money == <<row, hist, owed, earned, raced, drifted>>
things == <<gifts, sending, lamp, memory, pondering, lit, crashes, revived>>
pay == <<daily, paid, keen>>
vars == <<luck, hands, people, steps, money, things, pay>>

Clamp(low, x, high) == Max({low, Min({x, high})})
\* What a handler does; a gift's kind: it buys it.
Ops == {"reward", "daily", "mark", "spend", "lang", "coins", "feel", "aff"} \cup Goods

-----------------------------------------------------------------------------
(* The histogram of affections *)

\* The buckets of database/affection.py; \div rounds down, as Python's // does.
affection_bucket(x) ==
    IF x < -200 THEN x \div 50
    ELSE IF x < 200 THEN x \div 2
    ELSE IF x < 500 THEN 100 + (x - 200) \div 5
    ELSE IF x < 1000 THEN 160 + (x - 500) \div 10
    ELSE IF x < 2000 THEN 210 + (x - 1000) \div 20
    ELSE 260 + (x - 2000) \div 50

\* PostgreSQL's / rounds to zero.
Bucket(x) ==
    IF luck.postgres /\ x < 0
      THEN IF x < -200 THEN -((-x) \div 50) ELSE -((-x) \div 2)
      ELSE affection_bucket(x)

Reach == {affection_bucket(x) : x \in (-Peak - Bonus)..(Peak + Bonus)}

\* Mutant: the bucket left is not counted down.
Moved_OneSided(old, new) == [hist EXCEPT ![Bucket(new)] = @ + 1]
\* The affection moves from one bucket to another; both ways of keeping the
\* histogram stop at none.
Moved(old, new) ==
    IF Bucket(old) = Bucket(new) THEN hist
    ELSE [hist EXCEPT ![Bucket(old)] = Max({0, @ - 1}), ![Bucket(new)] = @ + 1]

\* rebuild_histogram when the table is empty, in Python for every engine.
Counted(aff, others) ==
    [b \in Reach |-> (IF b = affection_bucket(aff) THEN 1 ELSE 0) + (IF b = 0 THEN others ELSE 0)]

-----------------------------------------------------------------------------
\* What the constants have to be.
Fate == [may : SUBSET {"coins", "config", "daily", "gifts", "affection", "people", "stop"},
         aff : (-Peak)..Peak, postgres : BOOLEAN, redis : BOOLEAN]
Sending == [g : Nat, at : {"effect", "mark"}]
Parameters ==
    /\ Purse \in Int /\ Floor \in Int /\ Floor <= 0 /\ Floor <= Purse
    /\ Goods \subseteq {"grass", "lamp", "bell"} /\ \A k \in Goods : Price(k) \in Nat
    /\ Bonus \in Nat /\ Peak \in Nat /\ Daily \in Nat
    /\ Amounts \subseteq Nat /\ Changes \subseteq Int
    /\ Fortunes \subseteq Fate /\ None \notin {"none", "old", "new"} \cup Sending
    /\ MaxHands \in Nat /\ MaxSteps \in Nat /\ MaxCrashes \in Nat

TypeOK ==
    /\ luck \in Fortunes
    /\ row.coins >= Floor /\ row.aff \in (-Peak - Bonus)..(Peak + Bonus)
    /\ Cardinality(hands) <= MaxHands /\ \A h \in hands : h.op \in Ops
    /\ \A g \in DOMAIN gifts : gifts[g].kind \in Goods
    /\ sending = None \/ sending.g \in DOMAIN gifts
    /\ memory \in {"none", "old", "new"} /\ pondering \in {None, "none", "old", "new"}
    /\ {daily, raced, drifted, lit, keen, revived} \subseteq BOOLEAN
    /\ \A b \in Reach : hist[b] >= 0
    /\ people \in Nat /\ steps \in 0..MaxSteps /\ paid \in Nat

Init ==
    /\ luck \in Fortunes
    /\ row = [coins |-> Purse, aff |-> luck.aff, lang |-> "zh"]
    /\ hands = {} /\ people = 1
    /\ gifts = << >> /\ sending = None /\ lamp = None
    /\ memory = "old" /\ pondering = None
    /\ daily = FALSE /\ hist = Counted(luck.aff, 1) /\ steps = 0
    /\ owed = Purse /\ earned = luck.aff /\ raced = FALSE
    /\ drifted = (luck.postgres /\ luck.aff < 0) /\ lit = FALSE
    /\ crashes = 0 /\ paid = 0 /\ keen = FALSE /\ revived = FALSE

Takes(op, n, by) ==
    /\ steps < MaxSteps /\ steps' = steps + 1
    /\ Cardinality(hands) < MaxHands
    /\ LET h == [op |-> op, n |-> n, by |-> by, saw |-> row, no |-> steps] IN hands' = hands \cup {h}

-----------------------------------------------------------------------------
(* Reading the document *)

\* add_user_coins: messages, slash actions and quotes.
Reward(n) == "coins" \in luck.may /\ Takes("reward", n, 0) /\ UNCHANGED <<luck, people, money, things, pay>>
\* cost_user_coins and add_bottle.
Spend(n) == "coins" \in luck.may /\ Takes("spend", n, 0) /\ UNCHANGED <<luck, people, money, things, pay>>
\* plugins/lang.py and PATCH /config: the document is read in another session.
ChangeLang == "config" \in luck.may /\ Takes("lang", 0, 0) /\ UNCHANGED <<luck, people, money, things, pay>>
\* The panel's edit of the coins.
SetCoins(n) == "config" \in luck.may /\ Takes("coins", n, 0) /\ UNCHANGED <<luck, people, money, things, pay>>
\* /buygift and POST /gifts/buy look at the coins once more inside.
Buy(k) ==
    /\ "gifts" \in luck.may /\ row.coins >= Price(k) /\ Takes(k, 0, 0)
    /\ UNCHANGED <<luck, people, money, things, pay>>

\* on_m: the first message of a day.
DailyBegin ==
    /\ "daily" \in luck.may /\ ~daily /\ Takes("daily", Daily, 0)
    /\ keen' = (keen \/ \E h \in hands : h.op \in {"daily", "mark"})
    /\ UNCHANGED <<luck, people, money, things, daily, paid>>

\* update_user_affection: what it starts from is the temporary affection
\* while there is one.
Feel(n) ==
    /\ "affection" \in luck.may
    /\ LET now == IF lamp # None THEN lamp ELSE row.aff IN
       Takes("feel", Clamp(-Peak, now + n, Peak), n)
    /\ lit' = (lit \/ lamp # None)
    /\ UNCHANGED <<luck, people, money, gifts, sending, lamp, memory, pondering, crashes, revived, pay>>

\* The transaction that sets it reads the document anew.
FeelRead(h) ==
    /\ h \in hands /\ h.op = "feel"
    /\ hands' = (hands \ {h}) \cup {[h EXCEPT !.op = "aff", !.saw = row]}
    /\ raced' = (raced \/ h.saw.aff # row.aff)
    /\ UNCHANGED <<luck, people, steps, row, hist, owed, earned, drifted, things, pay>>

-----------------------------------------------------------------------------
(* Writing it *)

\* Mutant: a balance goes below the floor.
Paid_NoFloor(c, n) == c - n
Paid(c, n) == Max({Floor, c - n})

\* The coins after a change, of what is there.
Coins(h, c) ==
    CASE h.op \in {"reward", "daily"} -> c + h.n
      [] h.op = "spend" -> Paid(c, h.n)
      [] h.op \in Goods -> Paid(c, Price(h.op))
      [] h.op = "coins" -> h.n
      [] OTHER -> c

\* Mutant: a document is built anew around the change.
Written_Anew(h) == [coins |-> Coins(h, Purse), aff |-> IF h.op = "aff" THEN h.n ELSE 0, lang |-> "zh"]
Written(h) == [coins |-> Coins(h, h.saw.coins), aff |-> IF h.op = "aff" THEN h.n ELSE h.saw.aff,
               lang |-> IF h.op = "lang" THEN "en" ELSE h.saw.lang]

\* Only update_user_affection keeps the histogram, by the affection it read;
\* PostgreSQL's trigger goes by the row.
Histogram(h, new) ==
    IF luck.postgres THEN Moved(row.aff, new.aff)
    ELSE IF h.op = "aff" THEN Moved(h.saw.aff, new.aff) ELSE hist

\* Nothing is written where nothing changed, but for the language.
Kept(h) == h.op # "lang" /\ Written(h) = h.saw

\* A purchase that finds too few coins fails.
Refused(h) == h.op \in Goods /\ h.saw.coins < Price(h.op)

Commit(h) ==
    /\ h \in hands /\ h.op \notin {"mark", "feel"} /\ ~Refused(h)
    /\ hands' = (hands \ {h}) \cup (IF h.op = "daily" THEN {[h EXCEPT !.op = "mark"]} ELSE {})
    /\ LET new == IF Kept(h) THEN row ELSE Written(h) IN
       /\ row' = new
       /\ hist' = IF Kept(h) THEN hist ELSE Histogram(h, new)
       /\ drifted' = (drifted \/ (luck.postgres /\ (new.aff < 0 \/ row.aff < 0))
                              \/ (~luck.postgres /\ ~Kept(h) /\ h.saw.aff # row.aff))
    /\ owed' = Coins(h, owed) /\ earned' = Clamp(-Peak, earned + h.by, Peak)
    /\ raced' = (raced \/ h.saw # row)
    /\ gifts' = IF h.op \in Goods THEN Append(gifts, [kind |-> h.op, sent |-> FALSE, used |-> 0]) ELSE gifts
    /\ paid' = IF h.op = "daily" THEN paid + 1 ELSE paid
    /\ UNCHANGED <<luck, people, steps, sending, lamp, memory, pondering, lit, crashes,
                   revived, daily, keen>>

\* Mutant: the mark is not kept.
Marked_Not == FALSE
Marked == TRUE
Mark(h) ==
    /\ h \in hands /\ h.op = "mark" /\ hands' = hands \ {h} /\ daily' = Marked
    /\ UNCHANGED <<luck, people, steps, money, things, paid, keen>>

NewDay ==
    /\ daily /\ daily' = FALSE /\ paid' = 0
    /\ UNCHANGED <<luck, hands, people, steps, money, things, keen>>

\* upsert_user inserts a row: only PostgreSQL's trigger counts it.
Newcomer ==
    /\ "people" \in luck.may /\ people < 2 /\ people' = people + 1
    /\ hist' = IF luck.postgres THEN [hist EXCEPT ![0] = @ + 1] ELSE hist
    /\ drifted' = (drifted \/ ~luck.postgres)
    /\ UNCHANGED <<luck, hands, steps, row, owed, earned, raced, things, pay>>

-----------------------------------------------------------------------------
(* send_gift_to_bot *)

\* Mutant: without the lock.
MaySend_Unlocked(g) == ~(sending # None /\ sending.g # g)
MaySend(g) == sending = None

SendBegin(g) ==
    /\ g \in DOMAIN gifts /\ ~gifts[g].sent /\ MaySend(g)
    /\ sending' = [g |-> g, at |-> "effect"]
    /\ UNCHANGED <<luck, hands, people, steps, money, gifts, lamp, memory, pondering, lit, crashes, revived, pay>>

\* What the gift does, before it is marked as sent.
Effect ==
    /\ sending # None /\ sending.at = "effect"
    /\ gifts' = [gifts EXCEPT ![sending.g].used = @ + 1]
    /\ sending' = [sending EXCEPT !.at = "mark"]
    /\ CASE gifts[sending.g].kind = "grass" ->
              /\ memory' = "none" /\ UNCHANGED lamp
              /\ revived' = (revived \/ pondering = "old")
         [] gifts[sending.g].kind = "lamp" ->
              /\ lamp' = Bonus + (IF lamp # None THEN lamp ELSE row.aff)
              /\ UNCHANGED <<memory, revived>>
         [] OTHER -> UNCHANGED <<memory, lamp, revived>>
    /\ UNCHANGED <<luck, hands, people, steps, money, pondering, lit, crashes, pay>>

\* A failing effect does not consume the gift.
EffectFails ==
    /\ sending # None /\ sending.at = "effect" /\ sending' = None
    /\ UNCHANGED <<luck, hands, people, steps, money, gifts, lamp, memory, pondering, lit, crashes, revived, pay>>

MarkSent ==
    /\ sending # None /\ sending.at = "mark"
    /\ gifts' = [gifts EXCEPT ![sending.g].sent = TRUE]
    /\ sending' = None
    /\ UNCHANGED <<luck, hands, people, steps, money, lamp, memory, pondering, lit, crashes, revived, pay>>

LampOut ==
    /\ lamp # None /\ lamp' = None
    /\ UNCHANGED <<luck, hands, people, steps, money, gifts, sending, memory, pondering, lit, crashes, revived, pay>>

\* update_user_memory, one at a time for a user: what it stores is what it
\* read merged with what is new.
Ponder ==
    /\ "gifts" \in luck.may /\ pondering = None /\ pondering' = memory
    /\ UNCHANGED <<luck, hands, people, steps, money, gifts, sending, lamp, memory, lit, crashes, revived, pay>>

\* Mutant: what was there at first is merged in again.
Merged_Always == "old"
Merged == IF pondering = "old" THEN "old" ELSE "new"

Remember ==
    /\ pondering # None /\ memory' = Merged /\ pondering' = None
    /\ UNCHANGED <<luck, hands, people, steps, money, gifts, sending, lamp, lit, crashes, revived, pay>>

\* The process stops.  The caches are lost with it, unless they are Redis'.
Crash ==
    /\ "stop" \in luck.may /\ crashes < MaxCrashes /\ crashes' = crashes + 1
    /\ sending' = None /\ pondering' = None /\ hands' = {}
    /\ raced' = (raced \/ hands # {})
    /\ IF luck.redis THEN UNCHANGED <<lamp, memory, daily>>
       ELSE lamp' = None /\ memory' = "none" /\ daily' = FALSE
    /\ UNCHANGED <<luck, people, steps, row, hist, owed, earned, drifted, gifts, lit, revived,
                   paid, keen>>

Fail(h) ==
    /\ h \in hands /\ Refused(h) /\ hands' = hands \ {h}
    /\ UNCHANGED <<luck, people, steps, money, things, pay>>

Next ==
    \/ \E n \in Amounts : Reward(n) \/ Spend(n) \/ SetCoins(n)
    \/ ChangeLang \/ DailyBegin \/ NewDay \/ Newcomer
    \/ \E k \in Goods : Buy(k)
    \/ \E n \in Changes : Feel(n)
    \/ \E h \in hands : FeelRead(h) \/ Commit(h) \/ Mark(h) \/ Fail(h)
    \/ \E g \in DOMAIN gifts : SendBegin(g)
    \/ Effect \/ EffectFails \/ MarkSent \/ LampOut \/ Ponder \/ Remember \/ Crash

Spec == Init /\ [][Next]_vars
-----------------------------------------------------------------------------
(* Properties *)

\* Whoever writes the document keeps the coins: they are what the changes add
\* up to, unless one read it before another wrote.
CoinsAddUp == ~raced => row.coins = owed

\* So is the affection, unless it changed while a temporary one was there.
AffectionAddsUp == ~raced /\ ~lit => row.aff = earned

\* The histogram counts every row in its bucket.  It drifts by rows that are
\* inserted without the trigger, by documents written over a newer affection,
\* and at PostgreSQL by affections below zero, whose buckets differ.
HistogramExact == ~drifted => hist = Counted(row.aff, people)

\* A gift has its effect once, or once more after a stop, and is not used up
\* without it, however often its button is pressed.
GiftUsedOnce == \A g \in DOMAIN gifts :
    gifts[g].used <= 1 + crashes /\ (gifts[g].sent => gifts[g].used > 0)

\* The coins of a day are given once, unless two messages come at once.
DailyOnce == ~keen /\ crashes = 0 => paid <= 1

\* What a gift made the bot forget stays forgotten, unless the memory was being
\* updated.
ForgottenStays ==
    ~revived /\ (\E g \in DOMAIN gifts : gifts[g].kind = "grass" /\ gifts[g].used > 0)
       => memory # "old"

=============================================================================
