---------------------------- MODULE Economy_proofs ----------------------------
(***************************************************************************)
(* Proofs about Economy, for any prices, limits, changes and bounds.       *)
(***************************************************************************)
EXTENDS MCTown, FiniteSetTheorems, SequenceTheorems, WellFoundedInduction, TLAPS

-----------------------------------------------------------------------------
(* What is true of the buckets for every affection. *)

\* From -200 on buckets are in the order of the affections, so that a rank
\* counted by buckets (get_affection_percentile) never falls as one rises.
THEOREM BucketsOrdered ==
    \A x, y \in Int : -200 <= x /\ x <= y => affection_bucket(x) <= affection_bucket(y)
BY SMTT(60) DEF affection_bucket

\* Buckets below -200 lie above some that follow: the order breaks there.
THEOREM BucketsFold ==
    \A x \in Int : -5000 <= x /\ x < -200 => affection_bucket(-200) <= affection_bucket(x)
BY SMTT(60) DEF affection_bucket

\* A bucket is a whole number.
LEMMA BucketsWhole == \A x \in Int : affection_bucket(x) \in Int
BY SMTT(60) DEF affection_bucket

\* The histogram has a bucket for every affection within the limits.
LEMMA BucketsThere ==
  ASSUME Parameters
  PROVE  0 \in Reach /\ \A x \in (-Peak)..Peak : affection_bucket(x) \in Reach
<1>1. \A x \in (-Peak)..Peak : x \in (-Peak - Bonus)..(Peak + Bonus)
  BY DEF Parameters
<1>2. affection_bucket(0) = 0
  BY DEF affection_bucket
<1>3. 0 \in (-Peak)..Peak
  BY DEF Parameters
<1> QED BY <1>1, <1>2, <1>3 DEF Reach

-----------------------------------------------------------------------------
(* Limits. *)

\* The greater of two numbers.
LEMMA MaxOfTwo ==
  ASSUME NEW x \in Int, NEW y \in Int
  PROVE  Max({x, y}) = IF x >= y THEN x ELSE y
<1>1. \E z \in {x, y} : \A w \in {x, y} : z >= w
  OBVIOUS
<1> DEFINE m == CHOOSE z \in {x, y} : \A w \in {x, y} : z >= w
<1>2. m \in {x, y} /\ \A w \in {x, y} : m >= w
  BY <1>1
<1>3. Max({x, y}) = m
  BY DEF Max
<1> HIDE DEF m
<1> QED BY <1>2, <1>3

\* The smaller of two numbers.
LEMMA MinOfTwo ==
  ASSUME NEW x \in Int, NEW y \in Int
  PROVE  Min({x, y}) = IF x <= y THEN x ELSE y
<1>1. \E z \in {x, y} : \A w \in {x, y} : z <= w
  OBVIOUS
<1> DEFINE m == CHOOSE z \in {x, y} : \A w \in {x, y} : z <= w
<1>2. m \in {x, y} /\ \A w \in {x, y} : m <= w
  BY <1>1
<1>3. Min({x, y}) = m
  BY DEF Min
<1> HIDE DEF m
<1> QED BY <1>2, <1>3

\* An affection is kept within its limits and left alone there.
LEMMA ClampKeeps ==
  ASSUME NEW n \in Nat, NEW x \in Int
  PROVE  Clamp(-n, x, n) \in (-n)..n /\ (x \in (-n)..n => Clamp(-n, x, n) = x)
<1> DEFINE m == Min({x, n})
<1>1. m = IF x <= n THEN x ELSE n
  BY MinOfTwo
<1>2. m \in Int
  BY <1>1
<1> HIDE DEF m
<1>3. Max({-n, m}) = IF -n >= m THEN -n ELSE m
  BY <1>2, MaxOfTwo
<1>4. Clamp(-n, x, n) = Max({-n, m})
  BY DEF Clamp, m
<1> QED BY <1>1, <1>2, <1>3, <1>4

\* A balance stops at the floor.
LEMMA PaidKeeps ==
  ASSUME Parameters, NEW c \in Int, NEW n \in Int
  PROVE  Paid(c, n) \in Int /\ Paid(c, n) >= Floor
BY MaxOfTwo DEF Paid, Parameters

-----------------------------------------------------------------------------
(* The inductive invariant. *)

Doc == [coins : Int, aff : (-Peak)..Peak, lang : {"zh", "en"}]
Gift == [kind : Goods, sent : BOOLEAN, used : Nat]
Hand == [op : Ops, n : Int, by : Int, saw : Doc, no : Nat]

\* What a handler carries: a document somebody wrote, an amount, or an
\* affection within its limits.
Carries(h) ==
    /\ h \in Hand /\ h.saw.coins >= Floor
    /\ IF h.op \in {"feel", "aff"} THEN h.n \in (-Peak)..Peak ELSE h.n \in Nat /\ h.by = 0
HandsInv == IsFiniteSet(hands) /\ Cardinality(hands) <= MaxHands /\ \A h \in hands : Carries(h)
RowInv == row \in Doc /\ row.coins >= Floor
ThingsInv ==
    /\ gifts \in Seq(Gift)
    /\ sending = None \/ (sending \in Sending /\ sending.g \in DOMAIN gifts)
    /\ lamp = None \/ lamp \in Int
    /\ memory \in {"none", "old", "new"} /\ pondering \in {None, "none", "old", "new"}
    /\ lit \in BOOLEAN /\ revived \in BOOLEAN /\ crashes \in Nat
CountsInv ==
    /\ luck \in Fortunes /\ hist \in [Reach -> Nat] /\ people \in Nat \ {0}
    /\ steps \in 0..MaxSteps /\ paid \in Nat
    /\ daily \in BOOLEAN /\ keen \in BOOLEAN /\ raced \in BOOLEAN /\ drifted \in BOOLEAN
Typed == HandsInv /\ RowInv /\ ThingsInv /\ CountsInv

\* A change of affection in flight is the one that is due, if it is written
\* over the document it was computed from.
Meant(h) == h.op \in {"feel", "aff"} => h.n = Clamp(-Peak, h.saw.aff + h.by, Peak)
SumInv ==
    /\ CoinsAddUp /\ AffectionAddsUp
    /\ ~raced /\ ~lit => \A h \in hands : Meant(h)

\* The gift whose sender is past the effect.
Past(g) == sending # None /\ sending.at = "mark" /\ sending.g = g
GiftInv ==
    /\ \A g \in DOMAIN gifts :
         /\ gifts[g].used <= crashes + (IF gifts[g].sent \/ Past(g) THEN 1 ELSE 0)
         /\ gifts[g].sent \/ Past(g) => gifts[g].used > 0
    /\ sending # None => ~gifts[sending.g].sent

\* At most one handler gives the coins of the day, and none once it is marked.
Greets(h) == h.op \in {"daily", "mark"}
DailyInv == ~keen /\ crashes = 0 =>
    /\ \A h, i \in hands : Greets(h) /\ Greets(i) => h = i
    /\ daily => \A h \in hands : ~Greets(h)
    /\ ~daily /\ (\A h \in hands : h.op # "mark") => paid = 0
    /\ paid <= 1

\* Nobody is about to bring back what a gift made the bot forget.
Grazed == \E g \in DOMAIN gifts : gifts[g].kind = "grass" /\ gifts[g].used > 0
ForgetInv == ~revived /\ Grazed => memory # "old" /\ pondering # "old"

Inv == Typed /\ SumInv /\ HistogramExact /\ GiftInv /\ DailyInv /\ ForgetInv

\* It holds at first.
THEOREM InitInv == ASSUME Parameters PROVE Init => Inv
<1> SUFFICES ASSUME Init PROVE Inv
  OBVIOUS
<1>1. luck \in Fate
  BY DEF Init, Parameters
<1>2. luck.aff \in (-Peak)..Peak /\ luck.postgres \in BOOLEAN
  BY <1>1 DEF Fate
<1>3. RowInv
  BY <1>2 DEF Init, RowInv, Doc, Parameters
<1>4. HandsInv
  BY FS_EmptySet DEF Init, HandsInv, Parameters
<1>5. ThingsInv
  <2>1. << >> \in Seq(Gift)
    OBVIOUS
  <2>2. gifts = << >> /\ sending = None /\ lamp = None /\ memory = "old" /\ pondering = None /\ crashes = 0
        /\ lit = FALSE /\ revived = FALSE
    BY DEF Init
  <2> QED BY <2>1, <2>2 DEF ThingsInv
<1>6. CountsInv
  <2>1. hist \in [Reach -> Nat]
    BY DEF Init, Counted
  <2>2. drifted \in BOOLEAN
    BY <1>2 DEF Init
  <2>3. daily \in BOOLEAN /\ keen \in BOOLEAN /\ raced \in BOOLEAN
    BY DEF Init
  <2>4. luck \in Fortunes /\ steps \in 0..MaxSteps /\ paid \in Nat /\ people \in Nat \ {0}
    BY DEF Init, Parameters
  <2> QED BY <2>1, <2>2, <2>3, <2>4 DEF CountsInv
<1>7. SumInv /\ HistogramExact
  BY DEF Init, SumInv, CoinsAddUp, AffectionAddsUp, HistogramExact
<1>8. GiftInv /\ DailyInv /\ ForgetInv
  BY DEF Init, GiftInv, DailyInv, ForgetInv, Grazed
<1> QED BY <1>3, <1>4, <1>5, <1>6, <1>7, <1>8 DEF Inv, Typed

-----------------------------------------------------------------------------
(* The hands. *)

\* A handler that begins carries what it was begun with.
LEMMA TakesCarries ==
  ASSUME Parameters, Typed, NEW op \in Ops, NEW n \in Int, NEW by \in Int, Takes(op, n, by),
         IF op \in {"feel", "aff"} THEN n \in (-Peak)..Peak ELSE n \in Nat /\ by = 0
  PROVE  /\ HandsInv' /\ steps' \in 0..MaxSteps
         /\ \E h : /\ hands' = hands \cup {h} /\ Carries(h)
                   /\ h.op = op /\ h.n = n /\ h.by = by /\ h.saw = row
<1> DEFINE h == [op |-> op, n |-> n, by |-> by, saw |-> row, no |-> steps]
<1>1. hands' = hands \cup {h} /\ steps < MaxSteps /\ steps' = steps + 1
      /\ Cardinality(hands) < MaxHands
  BY DEF Takes
<1>2. steps \in Nat /\ steps' \in 0..MaxSteps
  BY <1>1 DEF Typed, CountsInv, Parameters
<1>3. h \in Hand /\ h.saw.coins >= Floor
  BY <1>2 DEF Hand, Typed, RowInv
<1>4. Carries(h)
  BY <1>3 DEF Carries
<1>5. IsFiniteSet(hands') /\ Cardinality(hands') <= MaxHands
  <2> HIDE DEF h
  <2>1. IsFiniteSet(hands) /\ Cardinality(hands) \in Nat
    BY FS_CardinalityType DEF Typed, HandsInv
  <2>2. /\ IsFiniteSet(hands \cup {h})
        /\ Cardinality(hands \cup {h}) = IF h \in hands THEN Cardinality(hands)
                                                       ELSE Cardinality(hands) + 1
    BY <2>1, FS_AddElement
  <2> QED BY <1>1, <2>1, <2>2 DEF Parameters
<1>6. HandsInv'
  BY <1>1, <1>4, <1>5 DEF HandsInv, Typed, Carries
<1>7. h.op = op /\ h.n = n /\ h.by = by /\ h.saw = row
  OBVIOUS
<1> HIDE DEF h
<1> QED BY <1>1, <1>2, <1>4, <1>6, <1>7

\* A handler goes on as another one, or ends.
LEMMA HandsGo ==
  ASSUME Parameters, HandsInv, NEW h \in hands, NEW next,
         next = {} \/ \E i : next = {i} /\ Carries(i),
         hands' = (hands \ {h}) \cup next
  PROVE  HandsInv'
<1>1. IsFiniteSet(hands) /\ Cardinality(hands) \in Nat /\ Cardinality(hands) <= MaxHands
  BY FS_CardinalityType DEF HandsInv
<1>2. /\ IsFiniteSet(hands \ {h}) /\ Cardinality(hands \ {h}) \in Nat
      /\ Cardinality(hands \ {h}) = Cardinality(hands) - 1
  <2>1. IsFiniteSet(hands \ {h}) /\ Cardinality(hands \ {h}) = Cardinality(hands) - 1
    BY <1>1, FS_RemoveElement
  <2> QED BY <2>1, FS_CardinalityType
<1>3. IsFiniteSet(hands') /\ Cardinality(hands') <= MaxHands
  <2>1. CASE next = {}
    <3>1. hands' = hands \ {h}
      BY <2>1
    <3>2. Cardinality(hands) - 1 <= MaxHands
      BY <1>1 DEF Parameters
    <3> QED BY <1>2, <3>1, <3>2
  <2>2. ASSUME NEW i, next = {i}
        PROVE  IsFiniteSet(hands') /\ Cardinality(hands') <= MaxHands
    <3>1. hands' = (hands \ {h}) \cup {i}
      BY <2>2
    <3> DEFINE rest == hands \ {h}
    <3>2. IsFiniteSet(rest) /\ Cardinality(rest) \in Nat /\ Cardinality(rest) + 1 <= MaxHands
      BY <1>1, <1>2 DEF Parameters
    <3> HIDE DEF rest
    <3>3. /\ IsFiniteSet(rest \cup {i})
          /\ Cardinality(rest \cup {i}) = IF i \in rest THEN Cardinality(rest)
                                                     ELSE Cardinality(rest) + 1
      BY <3>2, FS_AddElement
    <3>4. hands' = rest \cup {i}
      BY <3>1 DEF rest
    <3>5. IsFiniteSet(hands') /\ Cardinality(hands') = Cardinality(rest \cup {i})
      BY <3>3, <3>4
    <3>6. MaxHands \in Int
      BY DEF Parameters
    <3> QED BY <3>2, <3>3, <3>5, <3>6
  <2> QED BY <2>1, <2>2
<1>4. \A i \in hands' : Carries(i)
  BY DEF HandsInv
<1> QED BY <1>3, <1>4 DEF HandsInv, Carries

-----------------------------------------------------------------------------
(* Handlers that begin. *)

\* A handler that has read the document begins.
Begun(h) ==
    /\ hands' = hands \cup {h} /\ Carries(h) /\ h.saw = row /\ h.op # "mark"
    /\ lit' \/ Meant(h)
    /\ Greets(h) => ~daily /\ (keen' \/ \A i \in hands : ~Greets(i))

\* What nobody who begins touches.
resting == <<luck, people, money, gifts, sending, memory, pondering, crashes, revived, daily, paid>>

\* The seven that begin.
LEMMA BeginsBegun ==
  ASSUME Parameters, Typed,
         \/ \E n \in Amounts : Reward(n) \/ Spend(n) \/ SetCoins(n)
         \/ ChangeLang \/ DailyBegin
         \/ \E k \in Goods : Buy(k)
         \/ \E n \in Changes : Feel(n)
  PROVE  /\ HandsInv' /\ steps' \in 0..MaxSteps /\ UNCHANGED resting
         /\ lit' \in BOOLEAN /\ (lit => lit') /\ keen' \in BOOLEAN /\ (keen => keen')
         /\ \E h : Begun(h)
<1> DEFINE Goal == /\ HandsInv' /\ steps' \in 0..MaxSteps /\ UNCHANGED resting
                   /\ lit' \in BOOLEAN /\ (lit => lit') /\ keen' \in BOOLEAN /\ (keen => keen')
                   /\ \E h : Begun(h)
<1>0. /\ {"reward", "daily", "spend", "lang", "coins", "feel"} \cup Goods \subseteq Ops
      /\ lit \in BOOLEAN /\ keen \in BOOLEAN
  BY DEF Ops, Typed, ThingsInv, CountsInv
<1>1. ASSUME NEW op \in {"reward", "spend", "coins", "lang"} \cup Goods, NEW n \in Nat,
             Takes(op, n, 0), UNCHANGED <<luck, people, money, things, pay>>
      PROVE  Goal
  <2>1. op \notin {"feel", "aff", "daily", "mark"} /\ op \in Ops /\ n \in Int
    BY <1>0, <1>1 DEF Parameters
  <2>2. PICK h : /\ hands' = hands \cup {h} /\ Carries(h)
                 /\ h.op = op /\ h.n = n /\ h.by = 0 /\ h.saw = row
    BY <1>1, <2>1, TakesCarries
  <2>3. Begun(h)
    BY <2>1, <2>2 DEF Begun, Meant, Greets
  <2>4. HandsInv' /\ steps' \in 0..MaxSteps
    BY <1>1, <2>1, TakesCarries
  <2> QED BY <1>0, <1>1, <2>3, <2>4 DEF resting, things, pay
<1>2. ASSUME DailyBegin
      PROVE  Goal
  <2>1. /\ Takes("daily", Daily, 0) /\ ~daily
        /\ keen' = (keen \/ \E h \in hands : h.op \in {"daily", "mark"})
        /\ UNCHANGED <<luck, people, money, things, daily, paid>>
    BY <1>2 DEF DailyBegin
  <2>2. "daily" \in Ops /\ Daily \in Nat /\ Daily \in Int
    BY DEF Ops, Parameters
  <2>3. PICK h : /\ hands' = hands \cup {h} /\ Carries(h)
                 /\ h.op = "daily" /\ h.n = Daily /\ h.by = 0 /\ h.saw = row
    BY <2>1, <2>2, TakesCarries
  <2>4. Begun(h)
    BY <2>1, <2>3 DEF Begun, Meant, Greets
  <2>5. HandsInv' /\ steps' \in 0..MaxSteps
    BY <2>1, <2>2, TakesCarries
  <2> QED BY <1>0, <2>1, <2>4, <2>5 DEF resting, things
<1>3. ASSUME NEW n \in Changes, Feel(n)
      PROVE  Goal
  <2> DEFINE now == IF lamp # None THEN lamp ELSE row.aff
             m == Clamp(-Peak, now + n, Peak)
  <2>1. /\ Takes("feel", m, n) /\ lit' = (lit \/ lamp # None)
        /\ UNCHANGED <<luck, people, money, gifts, sending, lamp, memory, pondering, crashes,
                       revived, pay>>
    BY <1>3 DEF Feel
  <2>2. "feel" \in Ops /\ n \in Int /\ Peak \in Nat
    BY <1>3 DEF Ops, Parameters
  <2>3. now \in Int /\ now + n \in Int
    BY <2>2 DEF Typed, ThingsInv, RowInv, Doc, Parameters
  <2>4. m \in (-Peak)..Peak /\ m \in Int
    BY <2>2, <2>3, ClampKeeps
  <2>5. lamp = None => m = Clamp(-Peak, row.aff + n, Peak)
    OBVIOUS
  <2> HIDE DEF m
  <2>6. PICK h : /\ hands' = hands \cup {h} /\ Carries(h)
                 /\ h.op = "feel" /\ h.n = m /\ h.by = n /\ h.saw = row
    BY <2>1, <2>2, <2>4, TakesCarries
  <2>7. Begun(h)
    BY <2>1, <2>5, <2>6 DEF Begun, Meant, Greets
  <2>8. HandsInv' /\ steps' \in 0..MaxSteps
    BY <2>1, <2>2, <2>4, TakesCarries
  <2>9. lit' \in BOOLEAN /\ (lit => lit')
    BY <1>0, <2>1
  <2>10. UNCHANGED resting /\ UNCHANGED keen
    BY <2>1 DEF resting, pay
  <2> QED BY <1>0, <2>7, <2>8, <2>9, <2>10
<1>4. ASSUME NEW n \in Amounts, Reward(n) \/ Spend(n) \/ SetCoins(n)
      PROVE  Goal
  <2>1. n \in Nat
    BY <1>4 DEF Parameters
  <2> QED BY <1>1, <1>4, <2>1 DEF Reward, Spend, SetCoins
<1>5. ASSUME ChangeLang \/ \E k \in Goods : Buy(k)
      PROVE  Goal
  BY <1>1, <1>5 DEF ChangeLang, Buy
<1> HIDE DEF Goal
<1>6. Goal
  BY <1>2, <1>3, <1>4, <1>5
<1> QED BY <1>6 DEF Goal

\* Nothing that is kept is touched by a handler that begins.
LEMMA BeginsInv ==
  ASSUME Parameters, Inv,
         \/ \E n \in Amounts : Reward(n) \/ Spend(n) \/ SetCoins(n)
         \/ ChangeLang \/ DailyBegin
         \/ \E k \in Goods : Buy(k)
         \/ \E n \in Changes : Feel(n)
  PROVE  Inv'
<1>1. /\ HandsInv' /\ steps' \in 0..MaxSteps /\ UNCHANGED resting
      /\ lit' \in BOOLEAN /\ (lit => lit') /\ keen' \in BOOLEAN /\ (keen => keen')
  BY BeginsBegun DEF Inv
<1>2. PICK h : Begun(h)
  BY BeginsBegun DEF Inv
<1>3. UNCHANGED lamp
  BY DEF Reward, Spend, SetCoins, ChangeLang, DailyBegin, Buy, Feel, things
<1>4. /\ UNCHANGED <<luck, people, row, hist, owed, earned, raced, drifted>>
      /\ UNCHANGED <<gifts, sending, memory, pondering, crashes, revived, daily, paid>>
  BY <1>1 DEF resting, money
<1>5. Typed'
  BY <1>1, <1>3, <1>4 DEF Inv, Typed, RowInv, ThingsInv, CountsInv
<1>6. SumInv'
  <2>1. ASSUME ~raced', ~lit', NEW i \in hands'
        PROVE  Meant(i)'
    <3>1. i = h \/ i \in hands
      BY <1>2, <2>1 DEF Begun
    <3> QED BY <1>1, <1>2, <1>4, <2>1, <3>1 DEF Begun, Inv, SumInv, Meant
  <2> QED BY <1>1, <1>4, <2>1 DEF Inv, SumInv, CoinsAddUp, AffectionAddsUp
<1>7. HistogramExact'
  BY <1>4 DEF Inv, HistogramExact, Counted
<1>8. GiftInv' /\ ForgetInv'
  BY <1>4 DEF Inv, GiftInv, Past, ForgetInv, Grazed
<1>9. DailyInv'
  <2> SUFFICES ASSUME ~keen', crashes' = 0
               PROVE  /\ \A i, j \in hands' : Greets(i) /\ Greets(j) => i = j
                      /\ daily' => \A i \in hands' : ~Greets(i)
                      /\ ~daily' /\ (\A i \in hands' : i.op # "mark") => paid' = 0
                      /\ paid' <= 1
    BY DEF DailyInv, Greets
  <2>1. /\ \A i, j \in hands : Greets(i) /\ Greets(j) => i = j
        /\ daily => \A i \in hands : ~Greets(i)
        /\ ~daily /\ (\A i \in hands : i.op # "mark") => paid = 0
        /\ paid <= 1
    BY <1>1, <1>4 DEF Inv, DailyInv
  <2>2. hands' = hands \cup {h} /\ h.op # "mark"
        /\ (Greets(h) => ~daily /\ \A i \in hands : ~Greets(i))
    BY <1>2 DEF Begun
  <2> QED BY <1>4, <2>1, <2>2
<1> QED BY <1>5, <1>6, <1>7, <1>8, <1>9 DEF Inv

-----------------------------------------------------------------------------
(* Gifts, the lamp and the memory. *)

\* What giving leaves alone.
aside == <<luck, hands, people, steps, money, pay>>

\* The money and the day are not touched by what happens to things.
LEMMA AsideStays ==
  ASSUME Parameters, Inv, UNCHANGED aside, crashes' = crashes, lit' = lit
  PROVE  HandsInv' /\ RowInv' /\ CountsInv' /\ SumInv' /\ HistogramExact' /\ DailyInv'
<1>1. /\ UNCHANGED <<luck, hands, people, steps, row, hist, owed, earned, raced, drifted>>
      /\ UNCHANGED <<daily, paid, keen>>
  BY DEF aside, money, pay
<1>2. HandsInv' /\ RowInv' /\ CountsInv'
  BY <1>1 DEF Inv, Typed, HandsInv, Carries, RowInv, CountsInv
<1>3. SumInv' /\ HistogramExact'
  BY <1>1 DEF Inv, SumInv, Meant, CoinsAddUp, AffectionAddsUp, HistogramExact, Counted
<1>4. DailyInv'
  BY <1>1 DEF Inv, DailyInv, Greets
<1> QED BY <1>2, <1>3, <1>4

\* A gift keeps its kind, and is used once more or marked as sent.
LEMMA GiftChanges ==
  ASSUME Typed, NEW g \in DOMAIN gifts, NEW x \in Gift, gifts' = [gifts EXCEPT ![g] = x]
  PROVE  /\ gifts' \in Seq(Gift) /\ DOMAIN gifts' = DOMAIN gifts /\ gifts'[g] = x
         /\ \A i \in DOMAIN gifts : i # g => gifts'[i] = gifts[i]
BY DEF Typed, ThingsInv

\* A gift is one.
LEMMA GiftsTyped == ASSUME Typed, NEW g \in DOMAIN gifts PROVE gifts[g] \in Gift
BY DEF Typed, ThingsInv

\* One gift at a time is sent.
LEMMA SendBeginInv ==
  ASSUME Parameters, Inv, NEW g \in DOMAIN gifts, SendBegin(g)
  PROVE  Inv'
<1>1. /\ ~gifts[g].sent /\ sending = None /\ sending' = [g |-> g, at |-> "effect"]
      /\ UNCHANGED <<aside, gifts, lamp, memory, pondering, lit, crashes, revived>>
  BY DEF SendBegin, MaySend, aside
<1>2. ThingsInv'
  BY <1>1 DEF Inv, Typed, ThingsInv, Sending
<1>3. GiftInv'
  BY <1>1 DEF Inv, GiftInv, Past
<1>4. ForgetInv'
  BY <1>1 DEF Inv, ForgetInv, Grazed
<1> QED BY <1>1, <1>2, <1>3, <1>4, AsideStays DEF Inv, Typed

\* The effect comes before the mark.
LEMMA EffectInv ==
  ASSUME Parameters, Inv, Effect
  PROVE  Inv'
<1> DEFINE g == sending.g  x == [gifts[g] EXCEPT !.used = @ + 1]
<1>1. /\ sending # None /\ sending.at = "effect" /\ sending' = [sending EXCEPT !.at = "mark"]
      /\ gifts' = [gifts EXCEPT ![sending.g].used = @ + 1]
      /\ UNCHANGED <<aside, pondering, lit, crashes>>
  BY DEF Effect, aside
<1>2. g \in DOMAIN gifts /\ gifts[g] \in Gift
  BY <1>1, GiftsTyped DEF Inv, Typed, ThingsInv
<1>3. x \in Gift /\ x.kind = gifts[g].kind /\ x.sent = gifts[g].sent /\ x.used = gifts[g].used + 1
      /\ gifts[g].used \in Nat
  BY <1>2 DEF Gift
<1>4. gifts' = [gifts EXCEPT ![g] = x]
  BY <1>1, <1>2
<1>5. /\ gifts' \in Seq(Gift) /\ DOMAIN gifts' = DOMAIN gifts /\ gifts'[g] = x
      /\ \A i \in DOMAIN gifts : i # g => gifts'[i] = gifts[i]
  BY <1>2, <1>3, <1>4, GiftChanges DEF Inv
<1>6. /\ sending' \in Sending /\ sending'.g = g /\ sending'.at = "mark"
  BY <1>1 DEF Inv, Typed, ThingsInv, Sending
<1> HIDE DEF x
<1>7. GiftInv'
  <2>1. ~gifts[g].sent /\ ~gifts'[g].sent
    BY <1>1, <1>3, <1>5 DEF Inv, GiftInv
  <2>2. crashes \in Nat
    BY DEF Inv, Typed, ThingsInv
  <2>3. gifts[g].used <= crashes /\ gifts[g].used \in Nat
    <3>1. ~Past(g)
      BY <1>1 DEF Past
    <3>2. gifts[g].used <= crashes + 0
      BY <1>2, <2>1, <3>1 DEF Inv, GiftInv
    <3> QED BY <1>3, <2>2, <3>2
  <2>4. ASSUME NEW i \in DOMAIN gifts'
        PROVE  /\ gifts'[i].used <= crashes' + (IF gifts'[i].sent \/ Past(i)' THEN 1 ELSE 0)
               /\ gifts'[i].sent \/ Past(i)' => gifts'[i].used > 0
    <3>1. CASE i = g
      <4>1. Past(i)'
        BY <1>6, <3>1 DEF Past, Parameters
      <4>2. gifts'[i].used = gifts[g].used + 1
        BY <1>3, <1>5, <3>1
      <4> QED BY <1>1, <2>2, <2>3, <4>1, <4>2
    <3>2. CASE i # g
      <4>1. i \in DOMAIN gifts /\ gifts'[i] = gifts[i] /\ ~Past(i) /\ ~Past(i)'
        BY <1>1, <1>5, <1>6, <2>4, <3>2 DEF Past
      <4> QED BY <1>1, <4>1 DEF Inv, GiftInv
    <3> QED BY <3>1, <3>2
  <2> QED BY <1>6, <2>1, <2>4 DEF GiftInv
<1>8. (\/ gifts[g].kind = "grass" /\ memory' = "none" /\ UNCHANGED lamp
          /\ revived' = (revived \/ pondering = "old")
       \/ gifts[g].kind # "grass" /\ UNCHANGED <<memory, revived>>
          /\ lamp' \in {lamp, Bonus + (IF lamp # None THEN lamp ELSE row.aff)})
  BY DEF Effect
<1>9. ThingsInv'
  <2>1. lamp' = None \/ lamp' \in Int
    BY <1>8 DEF Inv, Typed, ThingsInv, RowInv, Doc, Parameters
  <2>2. memory' \in {"none", "old", "new"} /\ revived' \in BOOLEAN
    BY <1>8 DEF Inv, Typed, ThingsInv
  <2> QED BY <1>1, <1>2, <1>5, <1>6, <2>1, <2>2 DEF Inv, Typed, ThingsInv
<1>10. ForgetInv'
  <2>1. CASE gifts[g].kind = "grass"
    BY <1>1, <1>8, <2>1 DEF ForgetInv
  <2>2. CASE gifts[g].kind # "grass"
    <3>1. Grazed' => Grazed
      BY <1>3, <1>5, <2>2 DEF Grazed
    <3> QED BY <1>1, <1>8, <2>2, <3>1 DEF Inv, ForgetInv
  <2> QED BY <2>1, <2>2
<1> QED BY <1>1, <1>7, <1>9, <1>10, AsideStays DEF Inv, Typed

\* A sender that fails or is done, and the rest of what befalls things.
LEMMA ThingsSteps ==
  ASSUME Parameters, Inv, EffectFails \/ MarkSent \/ LampOut \/ Ponder \/ Remember
  PROVE  Inv'
<1>1. UNCHANGED aside /\ crashes' = crashes /\ lit' = lit /\ revived' = revived
  BY DEF EffectFails, MarkSent, LampOut, Ponder, Remember, aside
<1>2. ASSUME UNCHANGED gifts, sending' \in {sending, None}, sending' = None => ~(sending # None /\ sending.at = "mark")
      PROVE  GiftInv' /\ (Grazed' => Grazed)
  BY <1>1, <1>2 DEF Inv, GiftInv, Past, Grazed
<1>3. CASE EffectFails
  <2>1. UNCHANGED <<gifts, lamp, memory, pondering>> /\ sending' = None /\ sending # None
        /\ sending.at = "effect"
    BY <1>3 DEF EffectFails
  <2> QED BY <1>1, <1>2, <2>1, AsideStays DEF Inv, Typed, ThingsInv, ForgetInv
<1>4. CASE MarkSent
  <2> DEFINE g == sending.g  x == [gifts[g] EXCEPT !.sent = TRUE]
  <2>1. /\ sending # None /\ sending.at = "mark" /\ sending' = None
        /\ gifts' = [gifts EXCEPT ![sending.g].sent = TRUE]
        /\ UNCHANGED <<lamp, memory, pondering>>
    BY <1>4 DEF MarkSent
  <2>2. g \in DOMAIN gifts /\ gifts[g] \in Gift
    BY <2>1, GiftsTyped DEF Inv, Typed, ThingsInv
  <2>3. x \in Gift /\ x.kind = gifts[g].kind /\ x.used = gifts[g].used /\ x.sent
    BY <2>2 DEF Gift
  <2>4. gifts' = [gifts EXCEPT ![g] = x]
    BY <2>1, <2>2
  <2>5. /\ gifts' \in Seq(Gift) /\ DOMAIN gifts' = DOMAIN gifts /\ gifts'[g] = x
        /\ \A i \in DOMAIN gifts : i # g => gifts'[i] = gifts[i]
    BY <2>2, <2>3, <2>4, GiftChanges DEF Inv
  <2> HIDE DEF x
  <2>6. GiftInv'
    <3>1. ASSUME NEW i \in DOMAIN gifts'
          PROVE  /\ gifts'[i].used <= crashes + (IF gifts'[i].sent \/ Past(i)' THEN 1 ELSE 0)
                 /\ gifts'[i].sent \/ Past(i)' => gifts'[i].used > 0
      <4>1. ~Past(i)' /\ i \in DOMAIN gifts
        BY <2>1, <2>5, <3>1 DEF Past
      <4>2. CASE i = g
        <5>1. Past(g)
          BY <2>1 DEF Past
        <5>2. gifts[g].used <= crashes + 1 /\ gifts[g].used > 0
          BY <2>2, <5>1 DEF Inv, GiftInv
        <5> QED BY <2>3, <2>5, <4>2, <5>2
      <4>3. CASE i # g
        <5>1. ~Past(i) /\ gifts'[i] = gifts[i]
          BY <2>5, <4>1, <4>3 DEF Past
        <5> QED BY <4>1, <5>1 DEF Inv, GiftInv
      <4> QED BY <4>2, <4>3
    <3> QED BY <1>1, <2>1, <3>1 DEF GiftInv
  <2>7. Grazed' => Grazed
    BY <2>3, <2>5 DEF Grazed
  <2>8. ThingsInv' /\ ForgetInv'
    BY <1>1, <2>1, <2>5, <2>7 DEF Inv, Typed, ThingsInv, ForgetInv
  <2> QED BY <1>1, <2>6, <2>8, AsideStays DEF Inv, Typed
<1>5. CASE LampOut \/ Ponder \/ Remember
  <2>1. UNCHANGED <<gifts, sending>> /\ lamp' \in {lamp, None}
    BY <1>5 DEF LampOut, Ponder, Remember
  <2>2. memory' \in {"none", "old", "new"} /\ pondering' \in {None, "none", "old", "new"}
    BY <1>5 DEF LampOut, Ponder, Remember, Merged, Inv, Typed, ThingsInv
  <2>3. memory # "old" /\ pondering # "old" => memory' # "old" /\ pondering' # "old"
    BY <1>5 DEF LampOut, Ponder, Remember, Merged, Parameters
  <2>4. ThingsInv'
    BY <1>1, <2>1, <2>2 DEF Inv, Typed, ThingsInv
  <2>5. GiftInv' /\ (Grazed' => Grazed)
    BY <1>1, <2>1 DEF Inv, GiftInv, Past, Grazed
  <2>6. ForgetInv'
    BY <1>1, <2>3, <2>5 DEF Inv, ForgetInv
  <2> QED BY <1>1, <2>4, <2>5, <2>6, AsideStays DEF Inv, Typed
<1> QED BY <1>3, <1>4, <1>5

\* The process stops.
LEMMA CrashInv ==
  ASSUME Parameters, Inv, Crash
  PROVE  Inv'
<1>1. /\ sending' = None /\ pondering' = None /\ hands' = {} /\ crashes' = crashes + 1
      /\ raced' = (raced \/ hands # {}) /\ crashes < MaxCrashes
      /\ UNCHANGED <<luck, people, steps, row, hist, owed, earned, drifted, gifts, lit, revived,
                     paid, keen>>
  BY DEF Crash
<1>2. lamp' \in {lamp, None} /\ memory' \in {memory, "none"} /\ daily' \in {daily, FALSE}
  BY DEF Crash
<1>3. HandsInv' /\ RowInv'
  BY <1>1, FS_EmptySet DEF Inv, Typed, HandsInv, RowInv, Parameters
<1>4. ThingsInv'
  BY <1>1, <1>2 DEF Inv, Typed, ThingsInv
<1>5. CountsInv'
  <2>1. raced' \in BOOLEAN /\ daily' \in BOOLEAN
    BY <1>1, <1>2 DEF Inv, Typed, CountsInv
  <2> QED BY <1>1, <2>1 DEF Inv, Typed, CountsInv
<1>6. SumInv'
  BY <1>1 DEF Inv, SumInv, CoinsAddUp, AffectionAddsUp
<1>7. HistogramExact'
  BY <1>1 DEF Inv, HistogramExact, Counted
<1>8. GiftInv'
  <2>1. \A g \in DOMAIN gifts : gifts[g] \in Gift
    BY GiftsTyped DEF Inv
  <2>2. ASSUME NEW g \in DOMAIN gifts
        PROVE  /\ gifts[g].used <= crashes + 1 + (IF gifts[g].sent \/ Past(g)' THEN 1 ELSE 0)
               /\ gifts[g].sent \/ Past(g)' => gifts[g].used > 0
    <3>1. /\ gifts[g].used <= crashes + (IF gifts[g].sent \/ Past(g) THEN 1 ELSE 0)
          /\ gifts[g].sent \/ Past(g) => gifts[g].used > 0
          /\ gifts[g].used \in Nat /\ crashes \in Nat
      BY <2>1 DEF Inv, GiftInv, Gift, Typed, ThingsInv
    <3>2. ~Past(g)'
      BY <1>1 DEF Past
    <3> QED BY <3>1, <3>2
  <2> QED BY <1>1, <2>2 DEF GiftInv
<1>9. DailyInv'
  BY <1>1 DEF Inv, Typed, ThingsInv, DailyInv
<1>10. ForgetInv'
  BY <1>1, <1>2 DEF Inv, ForgetInv, Grazed, Parameters
<1> QED BY <1>3, <1>4, <1>5, <1>6, <1>7, <1>8, <1>9, <1>10 DEF Inv, Typed

-----------------------------------------------------------------------------
(* The histogram. *)

\* Every affection has a bucket, in Python and at PostgreSQL; they are the same
\* from zero up.
LEMMA BucketsAgree ==
  ASSUME Parameters, Typed, NEW x \in Int, ~(luck.postgres /\ x < 0)
  PROVE  Bucket(x) = affection_bucket(x)
BY DEF Bucket

\* The move of a row never makes a bucket negative.
LEMMA MovedTyped ==
  ASSUME Parameters, Typed, NEW old, NEW new
  PROVE  Moved(old, new) \in [Reach -> Nat]
<1>1. hist \in [Reach -> Nat]
  BY DEF Typed, CountsInv
<1>2. ASSUME NEW n \in Nat
      PROVE  Max({0, n - 1}) \in Nat
  <2>1. Max({0, n - 1}) = IF 0 >= n - 1 THEN 0 ELSE n - 1
    BY MaxOfTwo
  <2> QED BY <2>1
<1>3. CASE Bucket(old) = Bucket(new)
  BY <1>1, <1>3 DEF Moved
<1>4. CASE Bucket(old) # Bucket(new)
  <2> DEFINE f == [hist EXCEPT ![Bucket(old)] = Max({0, @ - 1})]
  <2>1. f \in [Reach -> Nat]
    BY <1>1, <1>2
  <2> DEFINE b == Bucket(new)
  <2>2. Moved(old, new) = [f EXCEPT ![b] = f[b] + 1]
    BY <1>1, <1>4 DEF Moved
  <2> HIDE DEF f, b
  <2>3. CASE b \in Reach
    <3>1. f[b] + 1 \in Nat
      BY <2>1, <2>3
    <3> QED BY <2>1, <2>2, <3>1
  <2>4. CASE b \notin Reach
    BY <2>1, <2>2, <2>4
  <2> QED BY <2>3, <2>4
<1> QED BY <1>3, <1>4

\* A move keeps the count exact.
LEMMA MovedCounts ==
  ASSUME Parameters, Typed, NEW old \in (-Peak)..Peak, NEW new \in (-Peak)..Peak,
         hist = Counted(old, people), ~(luck.postgres /\ (old < 0 \/ new < 0))
  PROVE  Moved(old, new) = Counted(new, people)
<1> DEFINE b == affection_bucket(old)  c == affection_bucket(new)
<1>0. old \in Int /\ new \in Int
  BY DEF Parameters
<1>1. Bucket(old) = b /\ Bucket(new) = c
  BY <1>0, BucketsAgree
<1>2. b \in Reach /\ c \in Reach /\ b \in Int /\ c \in Int
  BY <1>0, BucketsThere, BucketsWhole
<1>3. people \in Nat \ {0}
  BY DEF Typed, CountsInv
<1> HIDE DEF b, c
<1>4. Counted(old, people) =
        [d \in Reach |-> (IF d = b THEN 1 ELSE 0) + (IF d = 0 THEN people ELSE 0)]
  BY DEF Counted, b
<1>5. Counted(new, people) =
        [d \in Reach |-> (IF d = c THEN 1 ELSE 0) + (IF d = 0 THEN people ELSE 0)]
  BY DEF Counted, c
<1>6. CASE b = c
  BY <1>1, <1>4, <1>5, <1>6 DEF Moved
<1>7. CASE b # c
  <2>1. Moved(old, new) = [hist EXCEPT ![b] = Max({0, @ - 1}), ![c] = @ + 1]
    BY <1>1, <1>7 DEF Moved
  <2>2. hist[b] = 1 + (IF b = 0 THEN people ELSE 0)
    BY <1>2, <1>4
  <2>3. Max({0, hist[b] - 1}) = hist[b] - 1
    <3>1. hist[b] - 1 \in Nat
      BY <1>3, <2>2
    <3> QED BY <3>1, MaxOfTwo
  <2>4. hist[c] = IF c = 0 THEN people ELSE 0
    BY <1>2, <1>3, <1>4, <1>7
  <2>5. Moved(old, new) = [d \in Reach |-> IF d = c THEN hist[c] + 1
                                          ELSE IF d = b THEN hist[b] - 1 ELSE hist[d]]
    BY <1>2, <1>4, <1>7, <2>1, <2>3
  <2>6. ASSUME NEW d \in Reach
        PROVE  Moved(old, new)[d] = Counted(new, people)[d]
    BY <1>3, <1>4, <1>5, <1>7, <2>2, <2>4, <2>5, <2>6
  <2> QED BY <1>5, <2>5, <2>6
<1> QED BY <1>6, <1>7

-----------------------------------------------------------------------------
(* Handlers that go on. *)

\* What is written is a document.
LEMMA WrittenDoc ==
  ASSUME Parameters, NEW h, Carries(h)
  PROVE  /\ Written(h) \in Doc /\ Written(h).coins >= Floor
         /\ Written(h).coins = Coins(h, h.saw.coins)
         /\ Written(h).aff = IF h.op = "aff" THEN h.n ELSE h.saw.aff
<1>0. \A k \in Goods : k \notin {"reward", "daily", "spend", "coins"}
  BY DEF Parameters
<1>1. /\ h.op \in Ops /\ h.n \in Int /\ h.saw.coins \in Int /\ h.saw.aff \in (-Peak)..Peak
      /\ h.saw.lang \in {"zh", "en"} /\ h.saw.coins >= Floor /\ Floor \in Int /\ Floor <= 0
  BY DEF Carries, Hand, Doc, Parameters
<1>2. Coins(h, h.saw.coins) \in Int /\ Coins(h, h.saw.coins) >= Floor
  <2>1. CASE h.op \in {"reward", "daily"}
    <3>1. h.n \in Nat
      BY <2>1 DEF Carries
    <3>2. Coins(h, h.saw.coins) = h.saw.coins + h.n
      BY <1>0, <2>1 DEF Coins
    <3> QED BY <1>1, <3>1, <3>2
  <2>2. CASE h.op = "spend"
    <3>1. Coins(h, h.saw.coins) = Paid(h.saw.coins, h.n)
      BY <1>0, <2>2 DEF Coins
    <3> QED BY <1>1, <3>1, PaidKeeps
  <2>3. CASE h.op \in Goods
    <3>1. Price(h.op) \in Nat
      BY <2>3 DEF Parameters
    <3>2. Coins(h, h.saw.coins) = Paid(h.saw.coins, Price(h.op))
      BY <1>0, <2>3 DEF Coins
    <3> DEFINE price == Price(h.op)  saw == h.saw.coins
    <3>3. price \in Int /\ saw \in Int
      BY <1>1, <3>1
    <3> HIDE DEF price, saw
    <3>4. Paid(saw, price) \in Int /\ Paid(saw, price) >= Floor
      BY <3>3, PaidKeeps
    <3> QED BY <3>2, <3>4 DEF price, saw
  <2>4. CASE h.op = "coins"
    <3>1. h.n \in Nat
      BY <2>4 DEF Carries
    <3>2. Coins(h, h.saw.coins) = h.n
      BY <1>0, <2>4 DEF Coins
    <3> QED BY <1>1, <3>1, <3>2
  <2>5. CASE h.op \notin {"reward", "daily", "spend", "coins"} \cup Goods
    <3>1. Coins(h, h.saw.coins) = h.saw.coins
      BY <2>5 DEF Coins
    <3> QED BY <1>1, <3>1
  <2> QED BY <2>1, <2>2, <2>3, <2>4, <2>5
<1>3. Written(h).aff \in (-Peak)..Peak
  BY <1>1 DEF Written, Carries
<1> QED BY <1>1, <1>2, <1>3 DEF Written, Doc

\* update_user_affection reads again.
LEMMA FeelReadInv ==
  ASSUME Parameters, Inv, NEW h \in hands, FeelRead(h)
  PROVE  Inv'
<1> DEFINE i == [h EXCEPT !.op = "aff", !.saw = row]
<1>1. /\ h.op = "feel" /\ hands' = (hands \ {h}) \cup {i}
      /\ raced' = (raced \/ h.saw.aff # row.aff)
      /\ UNCHANGED <<luck, people, steps, row, hist, owed, earned, drifted, things, pay>>
  BY DEF FeelRead
<1>2. Carries(h) /\ h \in Hand /\ row \in Doc /\ row.coins >= Floor
  BY DEF Inv, Typed, HandsInv, RowInv, Carries
<1>3. i \in Hand /\ i.op = "aff" /\ i.saw = row /\ i.n = h.n /\ i.by = h.by
  BY <1>2 DEF Hand, Ops
<1> HIDE DEF i
<1>4. Carries(i)
  BY <1>1, <1>2, <1>3 DEF Carries
<1>5. HandsInv'
  BY <1>1, <1>4, HandsGo DEF Inv, Typed
<1>6. RowInv' /\ ThingsInv' /\ CountsInv'
  <2>1. raced' \in BOOLEAN
    BY <1>1 DEF Inv, Typed, CountsInv
  <2> QED BY <1>1, <2>1 DEF Inv, Typed, RowInv, ThingsInv, CountsInv, things, pay
<1>7. SumInv'
  <2>1. ASSUME ~raced', ~lit', NEW j \in hands'
        PROVE  Meant(j)'
    <3>1. ~raced /\ ~lit /\ h.saw.aff = row.aff
      BY <1>1, <2>1 DEF things
    <3>2. Meant(h) /\ \A k \in hands : Meant(k)
      BY <3>1 DEF Inv, SumInv
    <3>3. Meant(i)
      BY <1>1, <1>3, <3>1, <3>2 DEF Meant
    <3> QED BY <1>1, <2>1, <3>2, <3>3 DEF Meant
  <2> QED BY <1>1, <2>1 DEF Inv, SumInv, CoinsAddUp, AffectionAddsUp, things
<1>8. HistogramExact' /\ GiftInv' /\ ForgetInv'
  BY <1>1 DEF Inv, HistogramExact, Counted, GiftInv, Past, ForgetInv, Grazed, things
<1>9. DailyInv'
  <2>1. ~Greets(h) /\ ~Greets(i) /\ h.op # "mark" /\ i.op # "mark"
    BY <1>1, <1>3 DEF Greets
  <2>2. UNCHANGED <<daily, keen, paid, crashes>>
    BY <1>1 DEF things, pay
  <2> QED BY <1>1, <2>1, <2>2 DEF Inv, DailyInv, Greets
<1> QED BY <1>5, <1>6, <1>7, <1>8, <1>9 DEF Inv, Typed

\* A handler that ends without writing: the day is marked, or a purchase fails.
LEMMA EndsInv ==
  ASSUME Parameters, Inv, NEW h \in hands, Mark(h) \/ Fail(h)
  PROVE  Inv'
<1>1. /\ hands' = hands \ {h}
      /\ UNCHANGED <<luck, people, steps, money, things, paid, keen>>
      /\ \/ h.op = "mark" /\ daily' = TRUE
         \/ ~Greets(h) /\ daily' = daily
  <2>1. Fail(h) => ~Greets(h)
    BY DEF Fail, Refused, Greets, Parameters
  <2> QED BY <2>1 DEF Mark, Marked, Fail, pay
<1>2. HandsInv'
  <2>1. hands' = (hands \ {h}) \cup {}
    BY <1>1
  <2> QED BY <2>1, HandsGo DEF Inv, Typed
<1>3. RowInv' /\ ThingsInv' /\ CountsInv'
  <2>1. daily' \in BOOLEAN
    BY <1>1 DEF Inv, Typed, CountsInv
  <2> QED BY <1>1, <2>1 DEF Inv, Typed, RowInv, ThingsInv, CountsInv, things, money
<1>4. SumInv'
  BY <1>1 DEF Inv, SumInv, CoinsAddUp, AffectionAddsUp, Meant, things, money
<1>5. HistogramExact' /\ GiftInv' /\ ForgetInv'
  BY <1>1 DEF Inv, HistogramExact, Counted, GiftInv, Past, ForgetInv, Grazed, things, money
<1>6. DailyInv'
  <2> SUFFICES ASSUME ~keen, crashes = 0
               PROVE  /\ \A i, j \in hands' : Greets(i) /\ Greets(j) => i = j
                      /\ daily' => \A i \in hands' : ~Greets(i)
                      /\ ~daily' /\ (\A i \in hands' : i.op # "mark") => paid = 0
                      /\ paid <= 1
    BY <1>1 DEF DailyInv, Greets, things
  <2>1. /\ \A i, j \in hands : Greets(i) /\ Greets(j) => i = j
        /\ daily => \A i \in hands : ~Greets(i)
        /\ ~daily /\ (\A i \in hands : i.op # "mark") => paid = 0
        /\ paid <= 1
    BY DEF Inv, DailyInv
  <2>2. CASE h.op = "mark" /\ daily' = TRUE
    <3>1. Greets(h)
      BY <2>2 DEF Greets
    <3> QED BY <1>1, <2>1, <2>2, <3>1
  <2>3. CASE ~Greets(h) /\ daily' = daily
    <3>1. h.op # "mark"
      BY <2>3 DEF Greets
    <3> QED BY <1>1, <2>1, <2>3, <3>1
  <2> QED BY <1>1, <2>2, <2>3
<1> QED BY <1>2, <1>3, <1>4, <1>5, <1>6 DEF Inv, Typed

\* A handler writes the document.
LEMMA CommitInv ==
  ASSUME Parameters, Inv, NEW h \in hands, Commit(h)
  PROVE  Inv'
<1> DEFINE next == IF h.op = "daily" THEN {[h EXCEPT !.op = "mark"]} ELSE {}
           new == IF Kept(h) THEN row ELSE Written(h)
           gift == [kind |-> h.op, sent |-> FALSE, used |-> 0]
<1>1. /\ h.op \notin {"mark", "feel"} /\ hands' = (hands \ {h}) \cup next
      /\ row' = new /\ hist' = IF Kept(h) THEN hist ELSE Histogram(h, new)
      /\ drifted' = (drifted \/ (luck.postgres /\ (new.aff < 0 \/ row.aff < 0))
                             \/ (~luck.postgres /\ ~Kept(h) /\ h.saw.aff # row.aff))
      /\ owed' = Coins(h, owed) /\ earned' = Clamp(-Peak, earned + h.by, Peak)
      /\ raced' = (raced \/ h.saw # row)
      /\ gifts' = IF h.op \in Goods THEN Append(gifts, gift) ELSE gifts
      /\ paid' = IF h.op = "daily" THEN paid + 1 ELSE paid
      /\ UNCHANGED <<luck, people, steps, sending, lamp, memory, pondering, lit, crashes,
                     revived, daily, keen>>
  BY DEF Commit
<1>2. Carries(h) /\ h \in Hand /\ row \in Doc /\ row.coins >= Floor
  BY DEF Inv, Typed, HandsInv, RowInv, Carries
<1>3. /\ Written(h) \in Doc /\ Written(h).coins >= Floor
      /\ Written(h).coins = Coins(h, h.saw.coins)
      /\ Written(h).aff = IF h.op = "aff" THEN h.n ELSE h.saw.aff
  BY <1>2, WrittenDoc
<1>4. new \in Doc /\ new.coins >= Floor
  BY <1>2, <1>3
<1>5. \A i \in next : Carries(i) /\ i.op = "mark" /\ h.op = "daily"
  <2> SUFFICES ASSUME h.op = "daily", NEW i, i = [h EXCEPT !.op = "mark"]
               PROVE  Carries(i) /\ i.op = "mark"
    OBVIOUS
  <2>1. i \in Hand /\ i.op = "mark" /\ i.saw = h.saw /\ i.n = h.n /\ i.by = h.by
    BY <1>2 DEF Hand, Ops
  <2> QED BY <1>2, <2>1 DEF Carries
<1>6. HandsInv'
  <2>1. next = {} \/ \E i : next = {i} /\ Carries(i)
    BY <1>5
  <2> HIDE DEF next
  <2> QED BY <1>1, <2>1, HandsGo DEF Inv, Typed
<1>7. /\ gifts \in Seq(Gift) /\ (h.op \in Goods => gift \in Gift)
      /\ sending = None \/ (sending \in Sending /\ sending.g \in DOMAIN gifts)
  BY DEF Inv, Typed, ThingsInv, Gift
<1> HIDE DEF next, new, gift
<1>8. /\ gifts' \in Seq(Gift) /\ DOMAIN gifts \subseteq DOMAIN gifts'
      /\ \A g \in DOMAIN gifts : gifts'[g] = gifts[g]
      /\ \A g \in DOMAIN gifts' : g \in DOMAIN gifts \/ gifts'[g] = gift
  <2>1. CASE h.op \in Goods
    BY <1>1, <1>7, <2>1
  <2>2. CASE h.op \notin Goods
    BY <1>1, <1>7, <2>2
  <2> QED BY <2>1, <2>2
<1>9. Typed'
  <2>1. RowInv'
    BY <1>1, <1>4 DEF RowInv
  <2>2. ThingsInv'
    BY <1>1, <1>7, <1>8 DEF Inv, Typed, ThingsInv
  <2>3. hist' \in [Reach -> Nat]
    <3>1. \A x, y : Moved(x, y) \in [Reach -> Nat]
      BY MovedTyped DEF Inv
    <3>2. hist \in [Reach -> Nat]
      BY DEF Inv, Typed, CountsInv
    <3> QED BY <1>1, <3>1, <3>2 DEF Histogram
  <2>4. raced' \in BOOLEAN /\ drifted' \in BOOLEAN /\ paid' \in Nat
    BY <1>1 DEF Inv, Typed, CountsInv
  <2>5. CountsInv'
    BY <1>1, <2>3, <2>4 DEF Inv, Typed, CountsInv
  <2> QED BY <1>6, <2>1, <2>2, <2>5 DEF Typed
<1>10. SumInv'
  <2> SUFFICES ASSUME ~raced'
               PROVE  /\ row'.coins = owed'
                      /\ ~lit => row'.aff = earned' /\ \A i \in hands' : Meant(i)
    BY <1>1 DEF SumInv, CoinsAddUp, AffectionAddsUp, Meant
  <2>1. ~raced /\ h.saw = row
    BY <1>1
  <2>2. row' = Written(h)
    BY <1>1, <2>1 DEF new, Kept
  <2>3. row.coins = owed
    BY <2>1 DEF Inv, SumInv, CoinsAddUp
  <2>4. row'.coins = owed'
    BY <1>1, <1>3, <2>1, <2>2, <2>3
  <2>5. ASSUME ~lit
        PROVE  row'.aff = earned'
    <3>1. row.aff = earned /\ Meant(h)
      BY <2>1, <2>5 DEF Inv, SumInv, AffectionAddsUp
    <3>2. CASE h.op = "aff"
      BY <1>1, <1>3, <2>1, <2>2, <3>1, <3>2 DEF Meant
    <3>3. CASE h.op # "aff"
      <4>1. h.by = 0 /\ row.aff \in (-Peak)..Peak /\ row.aff + 0 = row.aff /\ Peak \in Nat
            /\ row.aff \in Int
        BY <1>1, <1>2, <3>3 DEF Carries, Doc, Parameters
      <4>2. earned' = row.aff
        BY <1>1, <3>1, <4>1, ClampKeeps
      <4> QED BY <1>3, <2>1, <2>2, <3>3, <4>2
    <3> QED BY <3>2, <3>3
  <2>6. ASSUME ~lit, NEW i \in hands'
        PROVE  Meant(i)
    <3>1. i \in hands \/ i.op = "mark"
      BY <1>1, <1>5, <2>6 DEF next
    <3> QED BY <2>1, <2>6, <3>1 DEF Inv, SumInv, Meant
  <2> QED BY <2>4, <2>5, <2>6
<1>11. HistogramExact'
  <2> SUFFICES ASSUME ~drifted'
               PROVE  hist' = Counted(row'.aff, people')
    BY DEF HistogramExact
  <2>1. /\ ~drifted /\ (luck.postgres => ~(new.aff < 0 \/ row.aff < 0))
        /\ luck.postgres \/ Kept(h) \/ h.saw.aff = row.aff
    BY <1>1
  <2>2. hist = Counted(row.aff, people) /\ people' = people /\ row' = new
    BY <1>1, <2>1 DEF Inv, HistogramExact
  <2>3. CASE Kept(h)
    BY <1>1, <2>2, <2>3 DEF new
  <2>4. CASE ~Kept(h)
    <3>1. /\ new = Written(h) /\ hist' = Histogram(h, new)
          /\ row.aff \in (-Peak)..Peak /\ new.aff \in (-Peak)..Peak
      BY <1>1, <1>2, <1>4, <2>4 DEF new, Doc
    <3>2. Moved(row.aff, new.aff) = Counted(new.aff, people)
      BY <2>1, <2>2, <3>1, MovedCounts DEF Inv
    <3>3. CASE luck.postgres
      BY <2>2, <3>1, <3>2, <3>3 DEF Histogram
    <3>4. CASE ~luck.postgres /\ h.op = "aff"
      BY <2>1, <2>2, <2>4, <3>1, <3>2, <3>4 DEF Histogram
    <3>5. CASE ~luck.postgres /\ h.op # "aff"
      <4>1. new.aff = row.aff
        BY <1>3, <2>1, <2>4, <3>1, <3>5
      <4> QED BY <2>2, <3>1, <3>5, <4>1 DEF Histogram
    <3> QED BY <3>3, <3>4, <3>5
  <2> QED BY <2>3, <2>4
<1>12. \A g \in DOMAIN gifts' :
          /\ Past(g)' = Past(g)
          /\ g \in DOMAIN gifts \/ (gifts'[g].used = 0 /\ ~gifts'[g].sent /\ ~Past(g))
  <2>1. gift.used = 0 /\ gift.sent = FALSE
    BY DEF gift
  <2> QED BY <1>1, <1>7, <1>8, <2>1 DEF Past
<1>13. GiftInv'
  <2>1. crashes \in Nat /\ crashes' = crashes
    BY <1>1 DEF Inv, Typed, ThingsInv
  <2>2. ASSUME NEW g \in DOMAIN gifts'
        PROVE  /\ gifts'[g].used <= crashes' + (IF gifts'[g].sent \/ Past(g)' THEN 1 ELSE 0)
               /\ gifts'[g].sent \/ Past(g)' => gifts'[g].used > 0
    <3>1. CASE g \in DOMAIN gifts
      BY <1>8, <1>12, <2>1, <2>2, <3>1 DEF Inv, GiftInv
    <3>2. CASE g \notin DOMAIN gifts
      <4>1. gifts'[g].used = 0 /\ ~gifts'[g].sent /\ ~Past(g)'
        BY <1>12, <2>2, <3>2
      <4> QED BY <2>1, <4>1
    <3> QED BY <3>1, <3>2
  <2>3. sending' # None => ~gifts'[sending'.g].sent
    BY <1>1, <1>7, <1>8 DEF Inv, GiftInv
  <2> QED BY <2>2, <2>3 DEF GiftInv
<1>14. ForgetInv'
  <2>1. Grazed' => Grazed
    BY <1>8, <1>12 DEF Grazed
  <2> QED BY <1>1, <2>1 DEF Inv, ForgetInv
<1>15. DailyInv'
  <2> SUFFICES ASSUME ~keen, crashes = 0
               PROVE  /\ \A i, j \in hands' : Greets(i) /\ Greets(j) => i = j
                      /\ daily => \A i \in hands' : ~Greets(i)
                      /\ ~daily /\ (\A i \in hands' : i.op # "mark") => paid' = 0
                      /\ paid' <= 1
    BY <1>1 DEF DailyInv, Greets
  <2>1. /\ \A i, j \in hands : Greets(i) /\ Greets(j) => i = j
        /\ daily => \A i \in hands : ~Greets(i)
        /\ ~daily /\ (\A i \in hands : i.op # "mark") => paid = 0
        /\ paid <= 1
    BY DEF Inv, DailyInv
  <2>2. CASE h.op = "daily"
    <3>1. Greets(h) /\ ~daily
      BY <2>1, <2>2 DEF Greets
    <3>2. \A i \in hands \ {h} : ~Greets(i)
      BY <2>1, <3>1
    <3>3. paid = 0
      <4>1. \A i \in hands : i.op # "mark"
        BY <2>2, <3>2 DEF Greets
      <4> QED BY <2>1, <3>1, <4>1
    <3>4. PICK i : next = {i}
      BY <2>2 DEF next
    <3>5. paid' = 1
      BY <1>1, <2>2, <3>3
    <3>6. hands' = (hands \ {h}) \cup {i} /\ i.op = "mark"
      BY <1>1, <1>5, <3>4
    <3>7. \A j \in hands' : j = i \/ ~Greets(j)
      BY <3>2, <3>6
    <3>8. ~(\A j \in hands' : j.op # "mark")
      BY <3>6
    <3> QED BY <3>1, <3>5, <3>7, <3>8
  <2>3. CASE h.op # "daily"
    <3>1. ~Greets(h) /\ h.op # "mark" /\ hands' = hands \ {h} /\ paid' = paid
      BY <1>1, <2>3 DEF Greets, next
    <3> QED BY <2>1, <3>1
  <2> QED BY <2>2, <2>3
<1> QED BY <1>9, <1>10, <1>11, <1>13, <1>14, <1>15 DEF Inv

-----------------------------------------------------------------------------
(* Days and people. *)

\* A new day, and a new row.
LEMMA OthersInv ==
  ASSUME Parameters, Inv, NewDay \/ Newcomer
  PROVE  Inv'
<1>1. CASE NewDay
  <2>1. /\ daily /\ daily' = FALSE /\ paid' = 0
        /\ UNCHANGED <<luck, hands, people, steps, row, hist, owed, earned, raced, drifted>>
        /\ UNCHANGED <<gifts, sending, lamp, memory, pondering, lit, crashes, revived, keen>>
    BY <1>1 DEF NewDay, money, things
  <2>2. Typed'
    BY <2>1 DEF Inv, Typed, HandsInv, Carries, RowInv, ThingsInv, CountsInv
  <2>3. SumInv' /\ HistogramExact'
    BY <2>1 DEF Inv, SumInv, CoinsAddUp, AffectionAddsUp, Meant, HistogramExact, Counted
  <2>4. GiftInv' /\ ForgetInv'
    BY <2>1 DEF Inv, GiftInv, Past, ForgetInv, Grazed
  <2>5. DailyInv'
    BY <2>1 DEF Inv, DailyInv, Greets
  <2> QED BY <2>2, <2>3, <2>4, <2>5 DEF Inv
<1>2. CASE Newcomer
  <2>1. /\ people' = people + 1
        /\ hist' = IF luck.postgres THEN [hist EXCEPT ![0] = @ + 1] ELSE hist
        /\ drifted' = (drifted \/ ~luck.postgres)
        /\ UNCHANGED <<luck, hands, steps, row, owed, earned, raced, daily, paid, keen>>
        /\ UNCHANGED <<gifts, sending, lamp, memory, pondering, lit, crashes, revived>>
    BY <1>2 DEF Newcomer, things, pay
  <2>2. hist \in [Reach -> Nat] /\ 0 \in Reach /\ people \in Nat \ {0}
    BY BucketsThere DEF Inv, Typed, CountsInv
  <2>3. HandsInv' /\ RowInv' /\ ThingsInv'
    BY <2>1 DEF Inv, Typed, HandsInv, Carries, RowInv, ThingsInv
  <2>4. CountsInv'
    <3>1. hist' \in [Reach -> Nat]
      <4>1. hist[0] + 1 \in Nat
        BY <2>2
      <4> QED BY <2>1, <2>2, <4>1
    <3>2. drifted' \in BOOLEAN /\ people' \in Nat \ {0}
      BY <2>1, <2>2 DEF Inv, Typed, CountsInv
    <3> QED BY <2>1, <3>1, <3>2 DEF Inv, Typed, CountsInv
  <2>5. SumInv'
    BY <2>1 DEF Inv, SumInv, CoinsAddUp, AffectionAddsUp, Meant
  <2>6. HistogramExact'
    <3> SUFFICES ASSUME ~drifted' PROVE hist' = Counted(row.aff, people + 1)
      BY <2>1 DEF HistogramExact
    <3>1. ~drifted /\ luck.postgres
      BY <2>1
    <3>2. hist = Counted(row.aff, people)
      BY <3>1 DEF Inv, HistogramExact
    <3>3. hist' = [d \in Reach |-> IF d = 0 THEN hist[0] + 1 ELSE hist[d]]
      BY <2>1, <2>2, <3>1
    <3>4. ASSUME NEW d \in Reach
          PROVE  hist'[d] = Counted(row.aff, people + 1)[d]
      BY <2>2, <3>2, <3>3, <3>4 DEF Counted
    <3> QED BY <3>3, <3>4 DEF Counted
  <2>7. GiftInv' /\ ForgetInv' /\ DailyInv'
    BY <2>1 DEF Inv, GiftInv, Past, ForgetInv, Grazed, DailyInv, Greets
  <2> QED BY <2>3, <2>4, <2>5, <2>6, <2>7 DEF Inv, Typed
<1> QED BY <1>1, <1>2

\* Nothing happens.
LEMMA StutterInv == ASSUME Inv, UNCHANGED vars PROVE Inv'
<1>1. /\ UNCHANGED <<luck, hands, people, steps, row, hist, owed, earned, raced, drifted>>
      /\ UNCHANGED <<gifts, sending, lamp, memory, pondering, lit, crashes, revived>>
      /\ UNCHANGED <<daily, paid, keen>>
  BY DEF vars, money, things, pay
<1>2. Typed'
  BY <1>1 DEF Inv, Typed, HandsInv, Carries, RowInv, ThingsInv, CountsInv
<1>3. SumInv' /\ HistogramExact'
  BY <1>1 DEF Inv, SumInv, CoinsAddUp, AffectionAddsUp, Meant, HistogramExact, Counted
<1>4. GiftInv' /\ ForgetInv' /\ DailyInv'
  BY <1>1 DEF Inv, GiftInv, Past, ForgetInv, Grazed, DailyInv, Greets
<1> QED BY <1>2, <1>3, <1>4 DEF Inv

\* Every step keeps the invariant.
LEMMA NextInv == ASSUME Parameters, Inv, [Next]_vars PROVE Inv'
<1>1. CASE \/ \E n \in Amounts : Reward(n) \/ Spend(n) \/ SetCoins(n)
           \/ ChangeLang \/ DailyBegin
           \/ \E k \in Goods : Buy(k)
           \/ \E n \in Changes : Feel(n)
  BY <1>1, BeginsInv
<1>2. CASE NewDay \/ Newcomer
  BY <1>2, OthersInv
<1>3. ASSUME NEW h \in hands, FeelRead(h) \/ Commit(h) \/ Mark(h) \/ Fail(h)
      PROVE  Inv'
  BY <1>3, FeelReadInv, CommitInv, EndsInv
<1>4. ASSUME NEW g \in DOMAIN gifts, SendBegin(g)
      PROVE  Inv'
  BY <1>4, SendBeginInv
<1>5. CASE Effect \/ EffectFails \/ MarkSent \/ LampOut \/ Ponder \/ Remember \/ Crash
  BY <1>5, EffectInv, ThingsSteps, CrashInv
<1>6. CASE UNCHANGED vars
  BY <1>6, StutterInv
<1> QED BY <1>1, <1>2, <1>3, <1>4, <1>5, <1>6 DEF Next

-----------------------------------------------------------------------------
(* What follows. *)

\* What the invariant says of types: no balance is below the floor, no bucket
\* below zero.
LEMMA InvTypes == ASSUME Parameters, Inv PROVE TypeOK
<1>1. luck \in Fortunes /\ people \in Nat /\ steps \in 0..MaxSteps /\ paid \in Nat
  BY DEF Inv, Typed, CountsInv
<1>2. row.coins >= Floor /\ row.aff \in (-Peak - Bonus)..(Peak + Bonus)
  BY DEF Inv, Typed, RowInv, Doc, Parameters
<1>3. Cardinality(hands) <= MaxHands /\ \A h \in hands : h.op \in Ops
  BY DEF Inv, Typed, HandsInv, Carries, Hand
<1>4. \A g \in DOMAIN gifts : gifts[g].kind \in Goods
  BY GiftsTyped DEF Inv, Gift
<1>5. /\ sending = None \/ sending.g \in DOMAIN gifts
      /\ memory \in {"none", "old", "new"} /\ pondering \in {None, "none", "old", "new"}
      /\ lit \in BOOLEAN /\ revived \in BOOLEAN
  BY DEF Inv, Typed, ThingsInv
<1>6. {daily, raced, drifted, lit, keen, revived} \subseteq BOOLEAN
  BY <1>5 DEF Inv, Typed, CountsInv
<1>7. \A b \in Reach : hist[b] >= 0
  BY DEF Inv, Typed, CountsInv
<1> QED BY <1>1, <1>2, <1>3, <1>4, <1>5, <1>6, <1>7 DEF TypeOK

\* What it says of coins, affection and the histogram.
LEMMA InvSums == ASSUME Inv PROVE CoinsAddUp /\ AffectionAddsUp /\ HistogramExact
BY DEF Inv, SumInv

\* What it says of what is given.
LEMMA InvGives == ASSUME Inv PROVE GiftUsedOnce /\ DailyOnce /\ ForgottenStays
<1>1. ASSUME NEW g \in DOMAIN gifts
      PROVE  gifts[g].used <= 1 + crashes /\ (gifts[g].sent => gifts[g].used > 0)
  <2>1. gifts[g].used \in Nat /\ crashes \in Nat
    BY GiftsTyped DEF Inv, Gift, Typed, ThingsInv
  <2> QED BY <2>1 DEF Inv, GiftInv
<1>2. DailyOnce
  BY DEF Inv, DailyInv, DailyOnce
<1>3. ForgottenStays
  BY DEF Inv, ForgetInv, Grazed, ForgottenStays
<1> QED BY <1>1, <1>2, <1>3 DEF GiftUsedOnce

\* The invariant holds in every reachable state.
THEOREM Invariant == ASSUME Parameters PROVE Spec => []Inv
BY InitInv, NextInv, PTL DEF Spec

\* Every variable keeps its type; no balance is below the floor, no bucket
\* below zero.
THEOREM TypeCorrect == ASSUME Parameters PROVE Spec => []TypeOK
BY InvTypes, Invariant, PTL

\* No handler loses another's coins, unless it read the document before the
\* other wrote it.
THEOREM CoinsExact == ASSUME Parameters PROVE Spec => []CoinsAddUp
BY InvSums, Invariant, PTL

\* Nor is a change of affection lost, unless so or under a lamp.
THEOREM AffectionExact == ASSUME Parameters PROVE Spec => []AffectionAddsUp
BY InvSums, Invariant, PTL

\* The histogram counts every row in its bucket, but for the ways it drifts.
THEOREM HistogramKept == ASSUME Parameters PROVE Spec => []HistogramExact
BY InvSums, Invariant, PTL

\* A gift has its effect once, or once more after each stop, and never none.
THEOREM GiftOnce == ASSUME Parameters PROVE Spec => []GiftUsedOnce
BY InvGives, Invariant, PTL

\* The coins of a day are given once, unless two messages come at once.
THEOREM DailyGivenOnce == ASSUME Parameters PROVE Spec => []DailyOnce
BY InvGives, Invariant, PTL

\* What a gift made the bot forget stays forgotten, unless the memory was being
\* updated at the time.
THEOREM ForgottenForGood == ASSUME Parameters PROVE Spec => []ForgottenStays
BY InvGives, Invariant, PTL

-----------------------------------------------------------------------------
(* The sticker memory.  A writer deletes what it found old when it looked;   *)
(* nobody makes it young in between, since who does needs the lock.          *)

\* Ages of rows, and where each writer is.
StickersTyped ==
    /\ s1 \in [Artwork -> 0..Lifetime + 1 \cup {None}]
    /\ s4 \in [Tasks -> [pc : {"idle", "exists", "touch", "fetch", "open", "evict", "store"},
                         of : Artwork \cup {None}, old : SUBSET Artwork]]

\* While a writer is between its statements, what it is going to delete is as
\* old as it was when it looked.
OldStayOld ==
    \A t \in Tasks : Stickers!At(t) = "evict" =>
        \A s \in s4[t].old : s \in Stickers!Stored /\ s1[s] > Lifetime
\* What is true of the sticker memory.
StickersInv ==
    /\ StickersTyped
    /\ Stickers!TypeOK
    /\ Stickers!VectorsMatch
    /\ Stickers!FreshKept
    /\ OldStayOld

\* It is true at first.
LEMMA StickersInit == ASSUME Stickers!Parameters, Stickers!Init PROVE StickersInv
BY DEF Stickers!Parameters, Stickers!Init, StickersInv, StickersTyped, Stickers!TypeOK, Stickers!VectorsMatch, Stickers!FreshKept, OldStayOld,
   Stickers!At, Stickers!Idle, Stickers!Stored

\* Every step keeps it: who is about to delete has the lock.
LEMMA StickersNext ==
  ASSUME Stickers!Parameters, StickersInv, [Stickers!Next]_(Stickers!vars)
  PROVE  StickersInv'
<1> USE DEF Stickers!Parameters, StickersInv, StickersTyped, Stickers!TypeOK, Stickers!VectorsMatch,
            Stickers!FreshKept, OldStayOld, Stickers!At, Stickers!Go, Stickers!Idle, Stickers!Stored,
            Stickers!LockFree
<1>1. ASSUME NEW t \in Tasks, NEW s \in Artwork, Stickers!Send(t, s) PROVE StickersInv'
  BY <1>1 DEF Stickers!Send
<1>2. ASSUME NEW t \in Tasks, Stickers!Exists(t) PROVE StickersInv'
  BY <1>2 DEF Stickers!Exists
<1>3. ASSUME NEW t \in Tasks, Stickers!Touch(t) PROVE StickersInv'
  <2>0. 0 # None /\ 0 \in 0..Lifetime + 1
    OBVIOUS
  <2>1. StickersTyped' /\ Stickers!TypeOK'
    BY <1>3, <2>0 DEF Stickers!Touch
  <2>2. Stickers!VectorsMatch' /\ Stickers!FreshKept'
    BY <1>3, <2>0 DEF Stickers!Touch
  <2>3. OldStayOld'
    BY <1>3, <2>0 DEF Stickers!Touch
  <2> QED BY <2>1, <2>2, <2>3
<1>4. ASSUME NEW t \in Tasks, Stickers!Fetch(t) PROVE StickersInv'
  BY <1>4 DEF Stickers!Fetch
<1>5. ASSUME NEW t \in Tasks, Stickers!Search(t) PROVE StickersInv'
  BY <1>5 DEF Stickers!Search
<1>6. ASSUME NEW t \in Tasks, Stickers!Open(t) PROVE StickersInv'
  <2>0. Stickers!ToEvict \subseteq {s \in Artwork : s1[s] # None /\ s1[s] > Lifetime}
    BY DEF Stickers!ToEvict, Stickers!Expired
  <2>1. StickersTyped'
    <3>1. Stickers!ToEvict \in SUBSET Artwork
      BY <2>0
    <3> DEFINE next == [pc |-> "evict", of |-> s4[t].of, old |-> Stickers!ToEvict]
    <3>2. s4' = [s4 EXCEPT ![t] = next] /\ s1' = s1
      BY <1>6 DEF Stickers!Open
    <3>3. next \in
            [pc : {"idle", "exists", "touch", "fetch", "open", "evict", "store"},
             of : Artwork \cup {None}, old : SUBSET Artwork]
      BY <3>1
    <3> HIDE DEF next
    <3> QED BY <3>2, <3>3
  <2>2. Stickers!TypeOK'
    BY <1>6 DEF Stickers!Open
  <2>3. Stickers!VectorsMatch' /\ Stickers!FreshKept'
    BY <1>6 DEF Stickers!Open
  <2>4. OldStayOld'
    <3>1. s4'[t].old \subseteq {s \in Artwork : s1[s] # None /\ s1[s] > Lifetime} /\ s1' = s1
      BY <1>6, <2>0 DEF Stickers!Open
    <3>2. \A u \in Tasks : s4'[u].pc = "evict" => u = t
      BY <1>6, <2>2 DEF Stickers!Open
    <3> QED BY <3>1, <3>2
  <2> QED BY <2>1, <2>2, <2>3, <2>4
<1>7. ASSUME NEW t \in Tasks, Stickers!Evict(t) PROVE StickersInv'
  <2>1. StickersTyped'
    BY <1>7 DEF Stickers!Evict, Stickers!Erased
  <2>2. Stickers!TypeOK'
    BY <1>7 DEF Stickers!Evict, Stickers!Erased
  <2>3. Stickers!VectorsMatch'
    BY <1>7 DEF Stickers!Evict, Stickers!Erased
  <2>4. Stickers!FreshKept'
    <3>1. \A s \in s4[t].old : s1[s] \in 0..Lifetime + 1 /\ ~(s1[s] <= Lifetime)
      BY <1>7 DEF Stickers!Evict
    <3> QED BY <1>7, <3>1 DEF Stickers!Evict
  <2>5. OldStayOld'
    BY <1>7 DEF Stickers!Evict, Stickers!Erased
  <2> QED BY <2>1, <2>2, <2>3, <2>4, <2>5
<1>8. ASSUME NEW t \in Tasks, Stickers!Store(t) PROVE StickersInv'
  BY <1>8 DEF Stickers!Store
<1>9. ASSUME NEW gone \in SUBSET Artwork, Stickers!Remove(gone) PROVE StickersInv'
  BY <1>9 DEF Stickers!Remove, Stickers!Erased
<1>10. ASSUME Stickers!Tick PROVE StickersInv'
  BY <1>10 DEF Stickers!Tick
<1>11. ASSUME Stickers!Crash PROVE StickersInv'
  BY <1>11 DEF Stickers!Crash
<1>12. ASSUME UNCHANGED Stickers!vars PROVE StickersInv'
  BY <1>12 DEF Stickers!vars
<1> QED BY <1>1, <1>2, <1>3, <1>4, <1>5, <1>6, <1>7, <1>8, <1>9, <1>10, <1>11, <1>12 DEF Stickers!Next

-----------------------------------------------------------------------------
(* The cached workspaces.  Handles are apart; while no session was opened     *)
(* twice at a time none is lost, and while edits of a session did not overlap *)
(* each is kept.                                                             *)

\* What is cached: a session and its handle, at most one of a session.
Held == [session : Sessions, handle : Nat]
Once(q) == \A i, j \in DOMAIN q : q[i].session = q[j].session => i = j

\* Removing what is at a place.
LEMMA RemovedAt ==
  ASSUME NEW S, NEW q \in Seq(S), NEW k \in DOMAIN q
  PROVE  LET r == SubSeq(q, 1, k - 1) \o SubSeq(q, k + 1, Len(q)) IN
         /\ r \in Seq(S) /\ Len(r) = Len(q) - 1
         /\ \A i \in DOMAIN r : r[i] = IF i < k THEN q[i] ELSE q[i + 1]
<1> DEFINE a == SubSeq(q, 1, k - 1)
           b == SubSeq(q, k + 1, Len(q))
<1>1. k \in 1..Len(q) /\ Len(q) \in Nat
  OBVIOUS
<1>2. a \in Seq(S) /\ Len(a) = k - 1 /\ \A i \in 1..k - 1 : a[i] = q[i]
  BY <1>1
<1>3. b \in Seq(S) /\ Len(b) = Len(q) - k /\ \A i \in 1..Len(q) - k : b[i] = q[i + k]
  BY <1>1
<1> HIDE DEF a, b
<1>4. /\ a \o b \in Seq(S) /\ Len(a \o b) = Len(q) - 1
      /\ \A i \in 1..Len(q) - 1 : (a \o b)[i] = IF i < k THEN a[i] ELSE b[i - (k - 1)]
  <2>1. a \o b \in Seq(S) /\ Len(a \o b) = Len(a) + Len(b)
    BY <1>2, <1>3, ConcatProperties
  <2>2. \A i \in 1..Len(a) + Len(b) : (a \o b)[i] = IF i <= Len(a) THEN a[i] ELSE b[i - Len(a)]
    BY <1>2, <1>3, ConcatProperties
  <2>3. Len(a) = k - 1 /\ Len(a) + Len(b) = Len(q) - 1
    BY <1>1, <1>2, <1>3
  <2>4. \A i \in 1..Len(q) - 1 : i <= k - 1 <=> i < k
    BY <1>1
  <2> QED BY <2>1, <2>2, <2>3, <2>4
<1>5. ASSUME NEW i \in 1..Len(q) - 1
      PROVE  (a \o b)[i] = IF i < k THEN q[i] ELSE q[i + 1]
  <2>1. CASE i < k
    BY <1>1, <1>2, <1>4, <2>1
  <2>2. CASE ~(i < k)
    <3>1. i - (k - 1) \in 1..Len(q) - k /\ (i - (k - 1)) + k = i + 1
      BY <1>1, <2>2
    <3>2. b[i - (k - 1)] = q[i + 1]
      BY <1>3, <3>1
    <3> QED BY <1>4, <2>2, <3>2
  <2> QED BY <2>1, <2>2
<1>6. DOMAIN (a \o b) = 1..Len(q) - 1
  BY <1>4
<1> QED BY <1>4, <1>5, <1>6 DEF a, b

\* The cache without a session: its entry is gone, the others are there.
LEMMA OthersLeft ==
  ASSUME s1 \in Seq(Held), Once(s1), NEW s \in Sessions
  PROVE  LET q == Files!Others(s) IN
         /\ q \in Seq(Held) /\ Len(q) <= Len(s1) /\ Once(q)
         /\ \A e : (\E i \in DOMAIN q : q[i] = e)
                     <=> (e.session # s /\ \E i \in DOMAIN s1 : s1[i] = e)
<1>1. CASE Files!Cached(s) = {}
  <2>1. \A i \in DOMAIN s1 : s1[i].session # s
    BY <1>1 DEF Files!Cached, Files!Range
  <2> QED BY <1>1, <2>1 DEF Files!Others
<1>2. CASE Files!Cached(s) # {}
  <2> DEFINE k == CHOOSE i \in DOMAIN s1 : s1[i].session = s
  <2>1. k \in DOMAIN s1 /\ s1[k].session = s
    BY <1>2 DEF Files!Cached, Files!Range
  <2> HIDE DEF k
  <2> DEFINE q == SubSeq(s1, 1, k - 1) \o SubSeq(s1, k + 1, Len(s1))
  <2>2. Files!Others(s) = q
    BY <1>2 DEF Files!Others, Files!RemoveAt, k
  <2>3. /\ q \in Seq(Held) /\ Len(q) = Len(s1) - 1
        /\ \A i \in DOMAIN q : q[i] = IF i < k THEN s1[i] ELSE s1[i + 1]
    BY <2>1, RemovedAt
  <2> HIDE DEF q
  <2>4. Once(q)
    <3> SUFFICES ASSUME NEW i \in DOMAIN q, NEW j \in DOMAIN q, q[i].session = q[j].session
                 PROVE  i = j
      BY DEF Once
    <3> DEFINE x == IF i < k THEN i ELSE i + 1
               y == IF j < k THEN j ELSE j + 1
    <3>1. x \in DOMAIN s1 /\ y \in DOMAIN s1 /\ i \in Int /\ j \in Int /\ k \in Int
      BY <2>1, <2>3
    <3>2. q[i] = s1[x] /\ q[j] = s1[y]
      BY <2>3
    <3>3. x = y
      BY <3>1, <3>2 DEF Once
    <3> QED BY <3>1, <3>3
  <2>5. ASSUME NEW i \in DOMAIN q PROVE q[i].session # s /\ \E j \in DOMAIN s1 : s1[j] = q[i]
    <3>1. (IF i < k THEN i ELSE i + 1) \in DOMAIN s1 /\ (IF i < k THEN i ELSE i + 1) # k
      BY <2>1, <2>3
    <3> QED BY <2>1, <2>3, <3>1 DEF Once
  <2>6. ASSUME NEW j \in DOMAIN s1, s1[j].session # s PROVE \E i \in DOMAIN q : q[i] = s1[j]
    <3>1. j # k
      BY <2>1, <2>6
    <3>2. (IF j < k THEN j ELSE j - 1) \in DOMAIN q
      BY <2>1, <2>3, <3>1
    <3> QED BY <2>1, <2>3, <3>1, <3>2
  <2> QED BY <2>2, <2>3, <2>4, <2>5, <2>6
<1> QED BY <1>1, <1>2

\* The cache with a session as the newest, the oldest gone if there was one too many.
Put(s, h) == Append(Files!Others(s), Files!Entry(s, h))
\* Once it is there, and what went out is closed.
LEMMA PutKept ==
  ASSUME Files!Parameters, s1 \in Seq(Held), Once(s1), Len(s1) <= CacheSize, NEW s \in Sessions, NEW h \in Nat
  PROVE  /\ Files!Kept(Put(s, h)) \in Seq(Held) /\ Len(Files!Kept(Put(s, h))) <= CacheSize
         /\ Once(Files!Kept(Put(s, h)))
         /\ \E out : /\ Files!Closed(Put(s, h)) = {e.handle : e \in out}
                     /\ Files!Range(Files!Kept(Put(s, h)))
                           = ({e \in Files!Range(s1) : e.session # s} \cup {Files!Entry(s, h)}) \ out
                     /\ out \subseteq {e \in Files!Range(s1) : e.session # s}
<1> DEFINE o == Files!Others(s)
           e0 == Files!Entry(s, h)
           q == Append(o, e0)
<1>1. /\ o \in Seq(Held) /\ Len(o) <= Len(s1) /\ Once(o)
      /\ \A e : (\E i \in DOMAIN o : o[i] = e) <=> (e.session # s /\ \E i \in DOMAIN s1 : s1[i] = e)
  BY OthersLeft
<1>2. e0 \in Held /\ e0.session = s
  BY DEF Files!Entry, Held
<1> HIDE DEF o, e0
<1>3. /\ q \in Seq(Held) /\ Len(q) = Len(o) + 1 /\ q[Len(q)] = e0
      /\ \A i \in 1..Len(o) : q[i] = o[i]
  BY <1>1, <1>2
<1>4. Len(o) \in Nat /\ DOMAIN o = 1..Len(o) /\ DOMAIN q = 1..Len(q) /\ Len(s1) \in Nat /\ DOMAIN s1 = 1..Len(s1)
  BY <1>1, <1>3
<1> HIDE DEF q
<1>5. Put(s, h) = q
  BY DEF Put, q, o, e0
<1>6. \A i \in DOMAIN o : o[i].session # s
  BY <1>1
<1>7. Once(q)
  BY <1>1, <1>2, <1>3, <1>4, <1>6 DEF Once
<1>8. Files!Range(q) = {e \in Files!Range(s1) : e.session # s} \cup {e0}
  <2>1. ASSUME NEW i \in DOMAIN q PROVE q[i] \in {e \in Files!Range(s1) : e.session # s} \cup {e0}
    <3>1. CASE i = Len(q)
      BY <1>3, <3>1
    <3>2. CASE i \in DOMAIN o
      BY <1>1, <1>3, <1>4, <3>2 DEF Files!Range
    <3> QED BY <1>3, <1>4, <3>1, <3>2
  <2>2. ASSUME NEW e \in Files!Range(s1), e.session # s PROVE e \in Files!Range(q)
    <3>1. PICK i \in DOMAIN o : o[i] = e
      BY <1>1, <2>2 DEF Files!Range
    <3> QED BY <1>3, <1>4, <3>1 DEF Files!Range
  <2>3. e0 \in Files!Range(q)
    BY <1>3, <1>4 DEF Files!Range
  <2> QED BY <2>1, <2>2, <2>3 DEF Files!Range
<1>9. CASE ~Files!Full(q)
  <2>1. Files!Kept(q) = q /\ Files!Closed(q) = {} /\ Len(q) <= CacheSize
    BY <1>9, <1>3, <1>4 DEF Files!Kept, Files!Closed, Files!Full, Files!Parameters
  <2>2. Files!Closed(q) = {e.handle : e \in {}} /\ {} \subseteq {e \in Files!Range(s1) : e.session # s}
    BY <2>1
  <2>3. Files!Range(Files!Kept(q)) = ({e \in Files!Range(s1) : e.session # s} \cup {e0}) \ {}
    BY <2>1, <1>8
  <2> QED BY <1>3, <1>5, <1>7, <2>1, <2>2, <2>3 DEF e0
<1>10. CASE Files!Full(q)
  <2>1. Files!Kept(q) = Tail(q) /\ Files!Closed(q) = {Head(q).handle}
    BY <1>10 DEF Files!Kept, Files!Closed
  <2>2. Len(o) > 0 /\ Len(q) = CacheSize + 1
    BY <1>1, <1>3, <1>4, <1>10 DEF Files!Full, Files!Parameters
  <2>3. /\ Tail(q) \in Seq(Held) /\ Len(Tail(q)) = Len(q) - 1 /\ DOMAIN Tail(q) = 1..Len(q) - 1
        /\ \A i \in 1..Len(q) - 1 : Tail(q)[i] = q[i + 1]
    BY <1>3, <1>4, <2>2
  <2>4. Head(q) = q[1] /\ q[1] = o[1] /\ 1 \in DOMAIN o
    BY <1>3, <1>4, <2>2
  <2>5. Once(Tail(q))
    BY <1>3, <1>4, <1>7, <2>3 DEF Once
  <2>6. Files!Range(Tail(q)) = Files!Range(q) \ {q[1]}
    <3>1. ASSUME NEW i \in 1..Len(q) - 1 PROVE q[i + 1] \in Files!Range(q) /\ q[i + 1] # q[1]
      BY <1>3, <1>4, <1>7 DEF Once, Files!Range
    <3>2. ASSUME NEW i \in DOMAIN q, q[i] # q[1] PROVE q[i] \in Files!Range(Tail(q))
      <4>1. i - 1 \in 1..Len(q) - 1
        BY <1>3, <1>4, <3>2
      <4>2. Tail(q)[i - 1] = q[i]
        BY <1>3, <1>4, <2>3, <4>1
      <4> QED BY <2>3, <4>1, <4>2 DEF Files!Range
    <3> QED BY <2>3, <3>1, <3>2 DEF Files!Range
  <2>7. q[1] \in {e \in Files!Range(s1) : e.session # s}
    BY <1>1, <2>4 DEF Files!Range
  <2>8. {Head(q).handle} = {e.handle : e \in {q[1]}}
    BY <2>4
  <2>9. Len(Tail(q)) <= CacheSize
    BY <2>2, <2>3 DEF Files!Parameters
  <2> QED BY <1>5, <1>8, <2>1, <2>3, <2>5, <2>6, <2>7, <2>8, <2>9 DEF e0
<1> QED BY <1>9, <1>10

\* Where a call is, and with which handle.
Doings == [at : {"idle", "opening", "using", "writing", "edited", "failed"},
           session : Sessions, handle : Nat, seen : SUBSET Calls]
Cached == Files!Range(s1)
Handles == {e.handle : e \in Cached}
Opening(c) == s4[c].at = "opening"
Busy(c) == s4[c].at \in {"opening", "using", "writing"}
FilesTyped ==
    /\ s1 \in Seq(Held) /\ Len(s1) <= CacheSize
    /\ s3 \in Seq(Nat)
    /\ s4 \in [Calls -> [at : {"idle", "opening", "using", "writing", "edited", "failed"},
                         session : Sessions, handle : Nat, seen : SUBSET Calls]]
    /\ s5 \in [Sessions -> [life : Nat, edits : SUBSET Calls]]
    /\ s6 \subseteq s9 /\ s9 \subseteq Sessions

\* A handle is cached for one session, or opened by one call, and then open.
Apart ==
    /\ Once(s1) /\ s2 \subseteq 1..Len(s3)
    /\ Handles \subseteq s2
    /\ \A d, e \in Cached : d.handle = e.handle => d = e
    /\ \A c \in Calls : Busy(c) => s4[c].handle \in 1..Len(s3)
    /\ \A c \in Calls : Opening(c) => s4[c].handle \in s2 \ Handles
    /\ \A c, d \in Calls : Opening(c) /\ Opening(d) /\ s4[c].handle = s4[d].handle => c = d

\* If no session was opened twice at a time, a call that opens one is the only
\* one, and what is open is known.
Quiet == s8 = {} =>
    /\ \A c \in Calls : Opening(c) => \A e \in Cached : e.session # s4[c].session
    /\ \A c, d \in Calls : Opening(c) /\ Opening(d) /\ s4[c].session = s4[d].session => c = d
    /\ s2 \subseteq Handles \cup {s4[c].handle : c \in {x \in Calls : Opening(x)}}

\* Of a session that was not removed, and whose edits did not overlap, every
\* handle is of its file, one call at most writes, and has read all edits.
Whole(s) ==
    /\ \A e \in Cached : e.session = s => s3[e.handle] = s5[s].life
    /\ \A c \in Calls : Busy(c) /\ s4[c].session = s => s3[s4[c].handle] = s5[s].life
    /\ \A c, d \in Calls : s4[c].at = "writing" /\ s4[c].session = s
                           /\ s4[d].at = "writing" /\ s4[d].session = s => c = d
    /\ \A c \in Calls : s4[c].at = "writing" /\ s4[c].session = s => s5[s].edits \subseteq s4[c].seen
    /\ \A c \in Calls : s4[c].at = "edited" /\ s4[c].session = s => c \in s5[s].edits
\* What is true of the workspaces.
FilesInv == FilesTyped /\ Apart /\ Quiet /\ \A s \in Sessions \ s9 : Whole(s)

\* It is true at first.
LEMMA FilesInit == ASSUME Files!Parameters, Files!Init PROVE FilesInv
<1>0. Files!Idle \in [at : {"idle", "opening", "using", "writing", "edited", "failed"},
                         session : Sessions, handle : Nat, seen : SUBSET Calls]
  BY DEF Files!Idle, Files!Parameters
<1>1. Cached = {} /\ Handles = {}
  BY DEF Files!Init, Cached, Handles, Files!Range
<1>2. \A c \in Calls : s4[c].at = "idle"
  BY DEF Files!Init, Files!Idle
<1>3. FilesTyped
  BY <1>0 DEF FilesTyped, Files!Init, Files!Parameters
<1>4. Apart
  BY <1>1, <1>2 DEF Files!Init, Apart, Opening, Busy, Once
<1>5. Quiet
  BY <1>1, <1>2 DEF Files!Init, Quiet, Opening
<1>6. \A s \in Sessions \ s9 : Whole(s)
  BY <1>1, <1>2 DEF Whole, Busy
<1> QED BY <1>3, <1>4, <1>5, <1>6 DEF FilesInv

\* A call goes on without a change of what is open.
LEMMA AskInv ==
  ASSUME Files!Parameters, FilesInv, NEW c \in Calls, NEW s \in Sessions, Files!Ask(c, s)
  PROVE  FilesInv'
<1> DEFINE n == Len(s3) + 1
<1>1. /\ Cached' = Cached /\ Handles' = Handles /\ s2' = s2 \cup {n} /\ s3' = Append(s3, s5[s].life)
      /\ UNCHANGED <<s1, s5, s6, s7, s9>> /\ s4[c].at = "idle"
      /\ \A e \in Cached : e.session # s
  BY DEF Files!Ask, Cached, Handles, Files!Range, Files!Cached, Files!At
<1>2. s4' = [s4 EXCEPT ![c] = [at |-> "opening", session |-> s, handle |-> n, seen |-> {}]]
  BY DEF Files!Ask, Files!Moves
<1>3. Len(s3) \in Nat /\ s5[s].life \in Nat
  BY DEF FilesInv, FilesTyped
<1>4. /\ s3' \in Seq(Nat) /\ Len(s3') = n /\ s3'[n] = s5[s].life
      /\ \A i \in 1..Len(s3) : s3'[i] = s3[i]
  BY <1>1, <1>3 DEF FilesInv, FilesTyped
<1>5. s4'[c] = [at |-> "opening", session |-> s, handle |-> n, seen |-> {}]
      /\ \A d \in Calls \ {c} : s4'[d] = s4[d]
  BY <1>2 DEF FilesInv, FilesTyped
<1>6. FilesTyped'
  <2>1. n \in Nat
    BY <1>3
  <2>2. s4' \in [Calls -> [at : {"idle", "opening", "using", "writing", "edited", "failed"},
                         session : Sessions, handle : Nat, seen : SUBSET Calls]]
    BY <1>2, <2>1 DEF FilesInv, FilesTyped
  <2> QED BY <1>1, <1>4, <2>2 DEF FilesInv, FilesTyped
<1>7. Apart'
  <2>0. s2 \subseteq 1..Len(s3) /\ Handles \subseteq s2
    BY DEF FilesInv, Apart
  <2>1. s2' \subseteq 1..Len(s3') /\ Handles' \subseteq s2' /\ n \notin Handles
    <3>1. n \in 1..n /\ n \notin 1..Len(s3) /\ 1..Len(s3) \subseteq 1..n
      BY <1>3
    <3> QED BY <1>1, <1>4, <2>0, <3>1
  <2>2. \A d \in Calls : Busy(d)' => s4'[d].handle \in 1..Len(s3')
    BY <1>1, <1>3, <1>4, <1>5 DEF FilesInv, Apart, Busy
  <2>3. \A d \in Calls : Opening(d)' => s4'[d].handle \in s2' \ Handles'
    BY <1>1, <1>5, <2>1 DEF FilesInv, Apart, Opening
  <2>4. \A d \in Calls \ {c} : Opening(d) => s4[d].handle # n
    BY <1>3 DEF FilesInv, Apart, Opening, Busy
  <2>5. \A d, e \in Calls : Opening(d)' /\ Opening(e)' /\ s4'[d].handle = s4'[e].handle => d = e
    BY <1>1, <1>5, <2>4 DEF FilesInv, Apart, Opening
  <2> QED BY <1>1, <2>1, <2>2, <2>3, <2>5 DEF FilesInv, Apart, Once
<1>8. Quiet'
  <2>1. s8' = {} => s8 = {} /\ \A d \in Calls : Opening(d) => s4[d].session # s
    BY DEF Files!Ask, Files!Does, Files!At, Opening
  <2> QED BY <1>1, <1>5, <2>1 DEF FilesInv, Quiet, Opening
<1>9. \A t \in Sessions \ s9' : Whole(t)'
  <2> SUFFICES ASSUME NEW t \in Sessions \ s9 PROVE Whole(t)'
    BY <1>1
  <2>1. Whole(t)
    BY DEF FilesInv
  <2>2. \A e \in Cached' : e.session = t => s3'[e.handle] = s5'[t].life
    BY <1>1, <1>4, <2>1 DEF FilesInv, Apart, Handles, Whole
  <2>3. \A d \in Calls : Busy(d)' /\ s4'[d].session = t => s3'[s4'[d].handle] = s5'[t].life
    BY <1>1, <1>3, <1>4, <1>5, <2>1 DEF FilesInv, Apart, Whole, Busy
  <2>4. \A d \in Calls : s4'[d].at \in {"writing", "edited"} => s4'[d] = s4[d]
    BY <1>5
  <2>5. \A d, e \in Calls : s4'[d].at = "writing" /\ s4'[d].session = t
                            /\ s4'[e].at = "writing" /\ s4'[e].session = t => d = e
    BY <2>1, <2>4 DEF Whole
  <2>6. \A d \in Calls : s4'[d].at = "writing" /\ s4'[d].session = t => s5'[t].edits \subseteq s4'[d].seen
    BY <1>1, <2>1, <2>4 DEF Whole
  <2>7. \A d \in Calls : s4'[d].at = "edited" /\ s4'[d].session = t => d \in s5'[t].edits
    BY <1>1, <2>1, <2>4 DEF Whole
  <2> QED BY <2>2, <2>3, <2>5, <2>6, <2>7 DEF Whole
<1> QED BY <1>6, <1>7, <1>8, <1>9 DEF FilesInv

\* Into the cache: by a call that has opened the session, or found it there.
LEMMA PutInv ==
  ASSUME Files!Parameters, FilesInv, NEW c \in Calls, NEW s \in Sessions, NEW h \in Nat,
         Files!Put(c, s, h), UNCHANGED <<s3, s5, s6, s7, s8, s9>>,
         \/ Opening(c) /\ s = s4[c].session /\ h = s4[c].handle
         \/ s4[c].at = "idle" /\ Files!Entry(s, h) \in Cached
  PROVE  FilesInv'
<1> DEFINE e0 == Files!Entry(s, h)
           base == {e \in Cached : e.session # s}
<1>1. e0.session = s /\ e0.handle = h /\ e0 \in Held
  BY DEF Files!Entry, Held
<1>2. s1' = Files!Kept(Put(s, h)) /\ s2' = s2 \ Files!Closed(Put(s, h))
  BY DEF Files!Put, Put
<1>3. s4' = [s4 EXCEPT ![c] = [at |-> "using", session |-> s, handle |-> h, seen |-> {}]]
  BY DEF Files!Put, Files!Moves
<1>4. s1 \in Seq(Held) /\ Once(s1) /\ Len(s1) <= CacheSize
  BY DEF FilesInv, FilesTyped, Apart
<1>5. PICK out : /\ Files!Closed(Put(s, h)) = {e.handle : e \in out}
                 /\ Files!Range(Files!Kept(Put(s, h))) = (base \cup {e0}) \ out
                 /\ out \subseteq base
  BY <1>4, PutKept DEF Cached
<1>6. Cached' = (base \cup {e0}) \ out /\ s2' = s2 \ {e.handle : e \in out}
  BY <1>2, <1>5 DEF Cached
<1>7. s1' \in Seq(Held) /\ Once(s1') /\ Len(s1') <= CacheSize
  BY <1>2, <1>4, PutKept
<1>8. s4'[c] = [at |-> "using", session |-> s, handle |-> h, seen |-> {}] /\ \A d \in Calls \ {c} : s4'[d] = s4[d]
  BY <1>3 DEF FilesInv, FilesTyped
<1> HIDE DEF e0
<1>9. \A d, e \in Cached : d.session = e.session => d = e
  BY <1>4 DEF Cached, Files!Range, Once
<1>10. e0 \in Cached' /\ e0 \notin out /\ out \subseteq Cached /\ \A e \in Cached' : e = e0 \/ e \in base \ out
  BY <1>1, <1>5, <1>6
<1>11. h \in s2 /\ h \in 1..Len(s3) /\ \A e \in Cached : e.handle = h => e = e0
  <2>1. CASE Opening(c) /\ s = s4[c].session /\ h = s4[c].handle
    BY <2>1 DEF FilesInv, Apart, Handles, Opening
  <2>2. CASE e0 \in Cached
    BY <2>2, <1>1 DEF FilesInv, Apart, Handles
  <2> QED BY <2>1, <2>2 DEF e0
<1>12. FilesTyped'
  BY <1>3, <1>7 DEF FilesInv, FilesTyped
<1>13. Apart'
  <2>1. \A d, e \in Cached : d.handle = e.handle => d = e
    BY DEF FilesInv, Apart
  <2>2. \A d, e \in Cached' : d.handle = e.handle => d = e
    BY <1>1, <1>10, <1>11, <2>1
  <2>3. Handles' \subseteq s2'
    <3>1. SUFFICES ASSUME NEW e \in Cached' PROVE e.handle \in s2'
      BY DEF Handles
    <3>2. e.handle \in s2
      BY <1>1, <1>10, <1>11 DEF FilesInv, Apart, Handles
    <3>3. \A o \in out : o.handle # e.handle
      BY <1>1, <1>10, <1>11, <2>1
    <3> QED BY <1>6, <3>2, <3>3
  <2>4. s2' \subseteq 1..Len(s3')
    BY <1>6 DEF FilesInv, Apart
  <2>5. \A d \in Calls : Busy(d)' => s4'[d].handle \in 1..Len(s3')
    BY <1>8, <1>11 DEF FilesInv, Apart, Busy
  <2>6. \A d \in Calls : Opening(d)' => d # c /\ Opening(d) /\ s4'[d] = s4[d]
    BY <1>8 DEF Opening
  <2>7. \A d \in Calls \ {c} : Opening(d) => s4[d].handle # h
    <3>1. CASE Opening(c) /\ s = s4[c].session /\ h = s4[c].handle
      BY <3>1 DEF FilesInv, Apart
    <3>2. CASE e0 \in Cached
      BY <3>2, <1>1 DEF FilesInv, Apart, Handles
    <3> QED BY <3>1, <3>2 DEF e0
  <2>8. \A d \in Calls : Opening(d)' => s4'[d].handle \in s2' \ Handles'
    <3>1. SUFFICES ASSUME NEW d \in Calls, Opening(d)' PROVE s4[d].handle \in s2' \ Handles'
      BY <2>6
    <3>2. s4[d].handle \in s2 \ Handles /\ s4[d].handle # h
      BY <2>6, <2>7, <3>1 DEF FilesInv, Apart
    <3>3. \A e \in Cached : e.handle # s4[d].handle
      BY <3>2 DEF Handles
    <3> QED BY <1>1, <1>6, <1>10, <3>2, <3>3 DEF Handles
  <2>9. \A d, e \in Calls : Opening(d)' /\ Opening(e)' /\ s4'[d].handle = s4'[e].handle => d = e
    BY <2>6 DEF FilesInv, Apart
  <2> QED BY <1>7, <2>2, <2>3, <2>4, <2>5, <2>8, <2>9 DEF Apart
<1>14. Quiet'
  <2> SUFFICES ASSUME s8 = {} PROVE Quiet'
    BY DEF Quiet
  <2>1. \A d \in Calls : Opening(d)' => d # c /\ Opening(d) /\ s4'[d] = s4[d]
    BY <1>8 DEF Opening
  <2>2. \A d \in Calls \ {c} : Opening(d) => s4[d].session # s
    <3>1. CASE Opening(c) /\ s = s4[c].session /\ h = s4[c].handle
      BY <3>1 DEF FilesInv, Quiet
    <3>2. CASE e0 \in Cached
      BY <3>2, <1>1 DEF FilesInv, Quiet
    <3> QED BY <3>1, <3>2 DEF e0
  <2>3. \A d \in Calls : Opening(d)' => \A e \in Cached' : e.session # s4'[d].session
    BY <1>1, <1>10, <2>1, <2>2 DEF FilesInv, Quiet
  <2>4. \A d, e \in Calls : Opening(d)' /\ Opening(e)' /\ s4'[d].session = s4'[e].session => d = e
    BY <2>1 DEF FilesInv, Quiet
  <2>5. ASSUME NEW x \in s2' PROVE x \in Handles' \cup {s4'[d].handle : d \in {y \in Calls : Opening(y)'}}
    <3>1. x \in s2 /\ \A o \in out : o.handle # x
      BY <1>6, <2>5
    <3>2. CASE x \in Handles
      <4>1. PICK e \in Cached : e.handle = x
        BY <3>2 DEF Handles
      <4>2. CASE e.session # s
        BY <1>6, <3>1, <4>1, <4>2 DEF Handles
      <4>3. CASE e.session = s
        <5>1. ~Opening(c) \/ s # s4[c].session
          BY <4>3 DEF FilesInv, Quiet
        <5>2. e0 \in Cached
          BY <5>1 DEF e0
        <5>3. e = e0
          BY <1>1, <1>9, <4>3, <5>2
        <5> QED BY <1>10, <4>1, <5>3 DEF Handles
      <4> QED BY <4>2, <4>3
    <3>3. CASE \E d \in Calls : Opening(d) /\ x = s4[d].handle
      <4>1. PICK d \in Calls : Opening(d) /\ x = s4[d].handle
        BY <3>3
      <4>2. CASE d # c
        BY <1>8, <4>1, <4>2 DEF Opening
      <4>3. CASE d = c
        <5>1. x = h
          BY <4>1, <4>3 DEF Opening
        <5> QED BY <1>1, <1>10, <5>1 DEF Handles
      <4> QED BY <4>2, <4>3
    <3> QED BY <3>1, <3>2, <3>3 DEF FilesInv, Quiet
  <2> QED BY <2>3, <2>4, <2>5 DEF Quiet
<1>15. ASSUME NEW t \in Sessions \ s9 PROVE Whole(t)'
  <2>1. Whole(t)
    BY DEF FilesInv
  <2>2. s = t => s3[h] = s5[t].life
    <3>1. CASE Opening(c) /\ s = s4[c].session /\ h = s4[c].handle
      BY <2>1, <3>1 DEF Whole, Busy, Opening
    <3>2. CASE e0 \in Cached
      BY <1>1, <2>1, <3>2 DEF Whole
    <3> QED BY <3>1, <3>2 DEF e0
  <2>3. \A e \in Cached' : e.session = t => s3'[e.handle] = s5'[t].life
    BY <1>1, <1>10, <2>1, <2>2 DEF Whole
  <2>4. \A d \in Calls : Busy(d)' /\ s4'[d].session = t => s3'[s4'[d].handle] = s5'[t].life
    BY <1>8, <2>1, <2>2 DEF Whole, Busy
  <2>5. \A d \in Calls : s4'[d].at \in {"writing", "edited"} => s4'[d] = s4[d]
    BY <1>8
  <2>6. \A d, e \in Calls : s4'[d].at = "writing" /\ s4'[d].session = t
                            /\ s4'[e].at = "writing" /\ s4'[e].session = t => d = e
    BY <2>1, <2>5 DEF Whole
  <2>7. \A d \in Calls : s4'[d].at = "writing" /\ s4'[d].session = t => s5'[t].edits \subseteq s4'[d].seen
    BY <2>1, <2>5 DEF Whole
  <2>8. \A d \in Calls : s4'[d].at = "edited" /\ s4'[d].session = t => d \in s5'[t].edits
    BY <2>1, <2>5 DEF Whole
  <2> QED BY <2>3, <2>4, <2>6, <2>7, <2>8 DEF Whole
<1> QED BY <1>12, <1>13, <1>14, <1>15 DEF FilesInv

\* A call that goes on with its handle, or is done with it, keeps handles apart.
LEMMA CallKeeps ==
  ASSUME FilesInv, NEW c \in Calls, ~Opening(c), NEW r \in Doings, r.at # "opening",
         r.at \in {"using", "writing"} => Busy(c) /\ r.handle = s4[c].handle,
         s4' = [s4 EXCEPT ![c] = r], UNCHANGED <<s1, s2, s3, s8>>
  PROVE  /\ Apart' /\ Quiet' /\ Cached' = Cached
         /\ s4' \in [Calls -> Doings] /\ s4'[c] = r /\ \A d \in Calls \ {c} : s4'[d] = s4[d]
<1>1. s4' \in [Calls -> Doings] /\ s4'[c] = r /\ \A d \in Calls \ {c} : s4'[d] = s4[d]
  BY DEF FilesInv, FilesTyped, Doings
<1>2. Cached' = Cached /\ Handles' = Handles
  BY DEF Cached, Handles, Files!Range
<1>3. \A d \in Calls : Opening(d)' <=> Opening(d)
  BY <1>1 DEF Opening
<1>4. \A d \in Calls : Opening(d) => s4'[d] = s4[d]
  BY <1>1
<1>5. \A d \in Calls : Busy(d)' => s4'[d].handle \in 1..Len(s3')
  BY <1>1 DEF Busy, FilesInv, Apart
<1>6. Apart'
  BY <1>2, <1>3, <1>4, <1>5 DEF FilesInv, Apart, Once
<1>7. Quiet'
  <2> SUFFICES ASSUME s8 = {} PROVE Quiet'
    BY DEF Quiet
  <2>1. {s4'[d].handle : d \in {x \in Calls : Opening(x)'}} = {s4[d].handle : d \in {x \in Calls : Opening(x)}}
    BY <1>3, <1>4
  <2> QED BY <1>2, <1>3, <1>4, <2>1 DEF FilesInv, Quiet
<1> QED BY <1>1, <1>2, <1>6, <1>7

\* A call whose handle was closed fails.
LEMMA BrokenInv ==
  ASSUME Files!Parameters, FilesInv, NEW c \in Calls, Files!Broken(c)
  PROVE  FilesInv'
<1> DEFINE r == [Files!Idle EXCEPT !.at = "failed"]
<1>1. r \in Doings /\ r.at = "failed"
  BY DEF Files!Idle, Files!Parameters, Doings
<1>2. ~Opening(c) /\ s4' = [s4 EXCEPT ![c] = r] /\ UNCHANGED <<s1, s2, s3, s5, s6, s7, s8, s9>>
  BY DEF Files!Broken, Files!Moves, Opening
<1> HIDE DEF r
<1>3. /\ Apart' /\ Quiet' /\ Cached' = Cached
      /\ s4' \in [Calls -> Doings] /\ s4'[c] = r /\ \A d \in Calls \ {c} : s4'[d] = s4[d]
  BY <1>1, <1>2, CallKeeps
<1>4. FilesTyped'
  BY <1>2, <1>3 DEF FilesInv, FilesTyped, Doings
<1>5. ASSUME NEW t \in Sessions \ s9 PROVE Whole(t)'
  <2>1. \A d \in Calls : s4'[d].at # "failed" => s4'[d] = s4[d]
    BY <1>1, <1>3
  <2> QED BY <1>2, <1>3, <2>1 DEF FilesInv, Whole, Busy
<1> QED BY <1>2, <1>3, <1>4, <1>5 DEF FilesInv

\* A file is read.
LEMMA ReadInv ==
  ASSUME Files!Parameters, FilesInv, NEW c \in Calls, Files!Read(c)
  PROVE  FilesInv'
<1> DEFINE s == s4[c].session
           seen == IF Files!InPlace(c) THEN s5[s].edits ELSE {}
           r == [at |-> "writing", session |-> s, handle |-> s4[c].handle, seen |-> seen]
<1>1. s4[c] \in Doings /\ s \in Sessions /\ seen \in SUBSET Calls
  BY DEF FilesInv, FilesTyped, Doings
<1>2. s4[c].at = "using" /\ s4' = [s4 EXCEPT ![c] = r] /\ UNCHANGED <<s1, s2, s3, s5, s6, s7, s8>>
  <2>1. [s4[c] EXCEPT !.at = "writing", !.seen = seen] = r
    <3> HIDE DEF seen
    <3> DEFINE x == s4[c]
               y == [x EXCEPT !.at = "writing", !.seen = seen]
    <3>1. /\ DOMAIN x = {"at", "session", "handle", "seen"}
          /\ x.session = s /\ x.handle = s4[c].handle
      BY <1>1 DEF Doings
    <3> HIDE DEF x
    <3>2. /\ DOMAIN y = {"at", "session", "handle", "seen"} /\ y = [i \in DOMAIN y |-> y[i]]
          /\ y.at = "writing" /\ y.session = s /\ y.handle = s4[c].handle /\ y.seen = seen
      BY <3>1
    <3> HIDE DEF y
    <3>3. y = r
      BY <3>2
    <3> QED BY <3>3 DEF y, x
  <2> QED BY <2>1 DEF Files!Read, Files!Moves, Files!At
<1>3. s9' = IF \E d \in Calls : s4[d].at = "writing" /\ s4[d].session = s THEN s9 \cup {s} ELSE s9
  BY DEF Files!Read, Files!Does, Files!At
<1>4. r \in Doings
  BY <1>1 DEF Doings
<1>5. r.at = "writing" /\ r.session = s /\ r.handle = s4[c].handle /\ r.seen = seen
  OBVIOUS
<1> HIDE DEF r, seen
<1>6. /\ Apart' /\ Quiet' /\ Cached' = Cached
      /\ s4' \in [Calls -> Doings] /\ s4'[c] = r /\ \A d \in Calls \ {c} : s4'[d] = s4[d]
  BY <1>2, <1>4, <1>5, CallKeeps DEF Opening, Busy
<1>7. FilesTyped'
  BY <1>1, <1>2, <1>3, <1>6 DEF FilesInv, FilesTyped, Doings
<1>8. ASSUME NEW t \in Sessions \ s9' PROVE Whole(t)'
  <2>1. Whole(t)
    BY <1>3 DEF FilesInv
  <2>2. \A d \in Calls : s4[d].at = "writing" => s4[d].session # t \/ s # t
    BY <1>3
  <2>3. s = t => seen = s5[t].edits
    BY <1>2, <2>1 DEF seen, Files!InPlace, Whole, Busy
  <2>4. \A d \in Calls : Busy(d)' /\ s4'[d].session = t => s3'[s4'[d].handle] = s5'[t].life
    BY <1>2, <1>5, <1>6, <2>1 DEF Whole, Busy
  <2>5. \A d, e \in Calls : s4'[d].at = "writing" /\ s4'[d].session = t
                            /\ s4'[e].at = "writing" /\ s4'[e].session = t => d = e
    BY <1>5, <1>6, <2>1, <2>2 DEF Whole
  <2>6. \A d \in Calls : s4'[d].at = "writing" /\ s4'[d].session = t => s5'[t].edits \subseteq s4'[d].seen
    BY <1>2, <1>5, <1>6, <2>1, <2>3 DEF Whole
  <2>7. \A d \in Calls : s4'[d].at = "edited" /\ s4'[d].session = t => d \in s5'[t].edits
    BY <1>2, <1>5, <1>6, <2>1 DEF Whole
  <2>8. \A e \in Cached' : e.session = t => s3'[e.handle] = s5'[t].life
    BY <1>2, <1>6, <2>1 DEF Whole
  <2> QED BY <2>4, <2>5, <2>6, <2>7, <2>8 DEF Whole
<1> QED BY <1>6, <1>7, <1>8 DEF FilesInv

\* What was read is written with the edit.
LEMMA WriteInv ==
  ASSUME Files!Parameters, FilesInv, NEW c \in Calls, Files!Write(c)
  PROVE  FilesInv'
<1> DEFINE s == s4[c].session
           r == [at |-> "edited", session |-> s, handle |-> s4[c].handle, seen |-> s4[c].seen]
           new == s4[c].seen \cup {c}
<1>1. s4[c] \in Doings /\ s \in Sessions /\ new \in SUBSET Calls /\ s5 \in [Sessions -> [life : Nat, edits : SUBSET Calls]]
  BY DEF FilesInv, FilesTyped, Doings
<1>2. s4[c].at = "writing" /\ s4' = [s4 EXCEPT ![c] = r] /\ UNCHANGED <<s1, s2, s3, s6, s7, s8, s9>>
  <2>1. [s4[c] EXCEPT !.at = "edited"] = r
    BY <1>1 DEF Doings
  <2> QED BY <2>1 DEF Files!Write, Files!Moves, Files!At
<1>3. s5' = IF Files!InPlace(c) THEN [s5 EXCEPT ![s].edits = new] ELSE s5
  BY DEF Files!Write, Files!Edited
<1>4. r \in Doings
  BY <1>1 DEF Doings
<1>5. r.at = "edited" /\ r.session = s
  OBVIOUS
<1> HIDE DEF r, new
<1>6. /\ Apart' /\ Quiet' /\ Cached' = Cached
      /\ s4' \in [Calls -> Doings] /\ s4'[c] = r /\ \A d \in Calls \ {c} : s4'[d] = s4[d]
  BY <1>2, <1>4, <1>5, CallKeeps DEF Opening
<1>7. /\ s5' \in [Sessions -> [life : Nat, edits : SUBSET Calls]]
      /\ \A t \in Sessions : s5'[t].life = s5[t].life
      /\ \A t \in Sessions \ {s} : s5'[t] = s5[t]
      /\ Files!InPlace(c) => s5'[s].edits = new
  BY <1>1, <1>3
<1>8. FilesTyped'
  BY <1>2, <1>6, <1>7 DEF FilesInv, FilesTyped, Doings
<1>9. ASSUME NEW t \in Sessions \ s9' PROVE Whole(t)'
  <2>1. Whole(t) /\ t \in Sessions
    BY <1>2 DEF FilesInv
  <2>2. \A d \in Calls : s4'[d].at = "writing" => d # c /\ s4'[d] = s4[d]
    BY <1>5, <1>6
  <2>3. s = t => \A d \in Calls : ~(s4'[d].at = "writing" /\ s4'[d].session = t)
    BY <1>2, <2>1, <2>2 DEF Whole
  <2>4. \A d \in Calls : s4'[d].at = "writing" /\ s4'[d].session = t => s5'[t].edits \subseteq s4'[d].seen
    BY <1>7, <2>1, <2>2, <2>3 DEF Whole
  <2>5. \A d \in Calls : Busy(d)' /\ s4'[d].session = t => s3'[s4'[d].handle] = s5'[t].life
    BY <1>2, <1>5, <1>6, <1>7, <2>1 DEF Whole, Busy
  <2>6. s = t => Files!InPlace(c) /\ s5[t].edits \subseteq new /\ c \in new
    BY <1>2, <2>1 DEF Files!InPlace, Whole, Busy, new
  <2>7. \A d \in Calls : s4'[d].at = "edited" /\ s4'[d].session = t => d \in s5'[t].edits
    <3>1. CASE s = t
      BY <1>6, <1>7, <2>1, <2>6, <3>1 DEF Whole
    <3>2. CASE s # t
      BY <1>5, <1>6, <1>7, <2>1, <3>2 DEF Whole
    <3> QED BY <3>1, <3>2
  <2>8. \A e \in Cached' : e.session = t => s3'[e.handle] = s5'[t].life
    BY <1>2, <1>6, <1>7, <2>1 DEF Whole
  <2>9. \A d, e \in Calls : s4'[d].at = "writing" /\ s4'[d].session = t
                            /\ s4'[e].at = "writing" /\ s4'[e].session = t => d = e
    BY <2>1, <2>2 DEF Whole
  <2> QED BY <2>4, <2>5, <2>7, <2>8, <2>9 DEF Whole
<1> QED BY <1>6, <1>8, <1>9 DEF FilesInv

\* A session's handle leaves the cache and is closed.
LEMMA DeleteInv ==
  ASSUME Files!Parameters, FilesInv, NEW s \in Sessions, Files!DeleteSession(s)
  PROVE  FilesInv'
<1> DEFINE base == {e \in Cached : e.session # s}
           gone == {e \in Cached : e.session = s}
<1>1. s1 \in Seq(Held) /\ Once(s1) /\ Len(s1) <= CacheSize
  BY DEF FilesInv, FilesTyped, Apart
<1>2. /\ s1' \in Seq(Held) /\ Len(s1') <= Len(s1) /\ Once(s1')
      /\ \A e : (\E i \in DOMAIN s1' : s1'[i] = e) <=> (e.session # s /\ \E i \in DOMAIN s1 : s1[i] = e)
  BY <1>1, OthersLeft DEF Files!DeleteSession
<1>3. Cached' = base
  BY <1>2 DEF Cached, Files!Range
<1>4. s2' = s2 \ {e.handle : e \in gone} /\ s6' = s6 \cup {s} /\ s9' = s9 \cup {s} /\ UNCHANGED <<s3, s4, s5, s8>>
  BY DEF Files!DeleteSession, Files!Cached, Cached
<1>5. FilesTyped'
  BY <1>1, <1>2, <1>4 DEF FilesInv, FilesTyped, Files!Parameters
<1>6. Handles' = Handles \ {e.handle : e \in gone}
  BY <1>3 DEF Handles, FilesInv, Apart
<1>7. Apart'
  <2>1. \A d, e \in Cached' : d.handle = e.handle => d = e
    BY <1>3 DEF FilesInv, Apart
  <2>2. Handles' \subseteq s2' /\ s2' \subseteq 1..Len(s3')
    BY <1>4, <1>6 DEF FilesInv, Apart
  <2>3. \A c \in Calls : Opening(c)' => s4'[c].handle \in s2' \ Handles'
    <3>1. SUFFICES ASSUME NEW c \in Calls, Opening(c) PROVE s4[c].handle \in s2' \ Handles'
      BY <1>4 DEF Opening
    <3>2. s4[c].handle \in s2 \ Handles
      BY <3>1 DEF FilesInv, Apart
    <3>3. \A e \in gone : e.handle # s4[c].handle
      BY <3>2 DEF Handles
    <3> QED BY <1>4, <1>6, <3>2, <3>3
  <2> QED BY <1>2, <1>4, <2>1, <2>2, <2>3 DEF FilesInv, Apart, Opening, Busy
<1>8. Quiet'
  BY <1>3, <1>4, <1>6 DEF FilesInv, Quiet, Opening
<1>9. ASSUME NEW t \in Sessions \ s9' PROVE Whole(t)'
  <2>1. Whole(t)
    BY <1>4 DEF FilesInv
  <2> QED BY <1>3, <1>4, <2>1 DEF Whole, Busy
<1> QED BY <1>5, <1>7, <1>8, <1>9 DEF FilesInv

\* The files of a removed session go.
LEMMA UnlinkInv ==
  ASSUME Files!Parameters, FilesInv, NEW s \in Sessions, Files!Unlink(s)
  PROVE  FilesInv'
<1>1. /\ s \in s9 /\ s6' = s6 \ {s} /\ UNCHANGED <<s1, s2, s3, s4, s8, s9>>
      /\ s5' = [s5 EXCEPT ![s] = [life |-> @.life + 1, edits |-> {}]]
  BY DEF Files!Unlink, FilesInv, FilesTyped
<1>2. /\ s5' \in [Sessions -> [life : Nat, edits : SUBSET Calls]]
      /\ \A t \in Sessions \ {s} : s5'[t] = s5[t]
  BY <1>1 DEF FilesInv, FilesTyped
<1>3. Cached' = Cached /\ Handles' = Handles /\ \A c \in Calls : Opening(c)' = Opening(c) /\ Busy(c)' = Busy(c)
  BY <1>1 DEF Cached, Handles, Files!Range, Opening, Busy
<1>4. FilesTyped'
  BY <1>1, <1>2 DEF FilesInv, FilesTyped
<1>5. Apart'
  BY <1>1, <1>3 DEF FilesInv, Apart, Opening, Busy, Once
<1>6. Quiet'
  BY <1>1, <1>3 DEF FilesInv, Quiet, Opening
<1>7. ASSUME NEW t \in Sessions \ s9' PROVE Whole(t)'
  <2>1. Whole(t) /\ s5'[t] = s5[t]
    BY <1>1, <1>2 DEF FilesInv
  <2> QED BY <1>1, <1>3, <2>1 DEF Whole, Busy
<1> QED BY <1>4, <1>5, <1>6, <1>7 DEF FilesInv

\* Every step of the workspaces keeps it.
LEMMA FilesNext ==
  ASSUME Files!Parameters, FilesInv, [Files!Next]_(Files!vars)
  PROVE  FilesInv'
<1>1. ASSUME NEW c \in Calls, Files!Opened(c) PROVE FilesInv'
  <2>1. Opening(c) /\ s4[c].session \in Sessions /\ s4[c].handle \in Nat
    BY <1>1 DEF Files!Opened, Files!At, Opening, FilesInv, FilesTyped
  <2>2. Files!Put(c, s4[c].session, s4[c].handle) /\ UNCHANGED <<s3, s5, s6, s7, s8, s9>>
    BY <1>1 DEF Files!Opened
  <2> QED BY <2>1, <2>2, PutInv
<1>2. ASSUME NEW c \in Calls, NEW s \in Sessions, Files!Found(c, s) PROVE FilesInv'
  <2>1. PICK e \in Files!Cached(s) : Files!Put(c, s, e.handle)
    BY <1>2 DEF Files!Found
  <2>2. e \in Held /\ e.session = s /\ e \in Cached
    BY DEF FilesInv, FilesTyped, Files!Cached, Files!Range, Cached
  <2>3. e.handle \in Nat /\ Files!Entry(s, e.handle) = e
    BY <2>2 DEF Files!Entry, Held
  <2>4. s4[c].at = "idle" /\ UNCHANGED <<s3, s5, s6, s7, s8, s9>>
    BY <1>2 DEF Files!Found, Files!At
  <2> QED BY <2>1, <2>2, <2>3, <2>4, PutInv
<1>3. ASSUME UNCHANGED Files!vars PROVE FilesInv'
  <2>1. UNCHANGED <<s1, s2, s3, s4, s5, s6, s8, s9>>
    BY <1>3 DEF Files!vars
  <2>2. Cached' = Cached /\ Handles' = Handles
    BY <2>1 DEF Cached, Handles, Files!Range
  <2>3. FilesTyped' /\ Apart'
    BY <2>1, <2>2 DEF FilesInv, FilesTyped, Apart, Opening, Busy, Once
  <2>4. Quiet'
    BY <2>1, <2>2 DEF FilesInv, Quiet, Opening
  <2>5. \A s \in Sessions \ s9' : Whole(s)'
    BY <2>1, <2>2 DEF FilesInv, Whole, Busy
  <2> QED BY <2>3, <2>4, <2>5 DEF FilesInv
<1> QED BY <1>1, <1>2, <1>3, AskInv, BrokenInv, ReadInv, WriteInv, DeleteInv, UnlinkInv DEF Files!Next

\* What the run checks of the workspaces.
LEMMA FilesMeans ==
  ASSUME FilesInv
  PROVE  Files!TypeOK /\ Files!CachedAreOpen /\ Files!NoneLeakedUnlessDoubled /\ Files!EditsKept
<1>1. Files!TypeOK
  BY DEF FilesInv, FilesTyped, Apart, Once, Files!TypeOK
<1>2. Files!CachedAreOpen
  BY DEF FilesInv, Apart, Handles, Cached, Files!CachedAreOpen
<1>3. Files!NoneLeakedUnlessDoubled
  BY DEF FilesInv, Quiet, Handles, Cached, Opening, Files!NoneLeakedUnlessDoubled, Files!NoneLeaked,
     Files!Leaked, Files!At
<1>4. Files!EditsKept
  BY DEF FilesInv, FilesTyped, Whole, Files!EditsKept, Files!At
<1> QED BY <1>1, <1>2, <1>3, <1>4

-----------------------------------------------------------------------------
(* The limiter of requests.  For a key it did not drop it knows the times of  *)
(* what was let through, so that it counts what it should.                   *)

\* Times of a key, oldest first.
Falling(q) == \A i, j \in DOMAIN q : i <= j => q[i] >= q[j]
\* Where the stale end.
Cut(q, f) ==
    /\ \A j \in 1..f - 1 : ~Limiter!Recent(q[j])
    /\ \A j \in f..Len(q) : Limiter!Recent(q[j])

\* There is one place at most where the stale end.
LEMMA CutOnce ==
  ASSUME NEW q \in Seq(Nat), NEW f \in 1..Len(q) + 1, NEW g \in 1..Len(q) + 1, Cut(q, f), Cut(q, g)
  PROVE  f = g
<1>1. Len(q) \in Nat
  OBVIOUS
<1>2. ASSUME f < g PROVE FALSE
  <2>1. f \in 1..g - 1 /\ f \in f..Len(q)
    BY <1>1, <1>2
  <2> QED BY <2>1 DEF Cut
<1>3. ASSUME g < f PROVE FALSE
  <2>1. g \in 1..f - 1 /\ g \in g..Len(q)
    BY <1>1, <1>3
  <2> QED BY <2>1 DEF Cut
<1> QED BY <1>1, <1>2, <1>3

\* What is left of times is what is not stale.
LEMMA PrunedIs ==
  ASSUME NEW q \in Seq(Nat), Falling(q)
  PROVE  \E f \in 1..Len(q) + 1 : Cut(q, f) /\ Limiter!Pruned(q) = SubSeq(q, f, Len(q))
<1> DEFINE n == Len(q)
           P(i) == /\ \A j \in 1..i - 1 : ~Limiter!Recent(q[j])
                   /\ i \in DOMAIN q => Limiter!Recent(q[i])
           Fr == {i \in 1..n + 1 : i \in DOMAIN q => Limiter!Recent(q[i])}
           first == CHOOSE i \in 1..n + 1 : P(i)
<1>1. n \in Nat /\ DOMAIN q = 1..n /\ \A i \in 1..n : q[i] \in Nat
  OBVIOUS
<1>2. n + 1 \in Fr /\ Fr \subseteq Nat
  BY <1>1
<1>3. PICK m \in Fr : \A x \in Fr : <<x, m>> \notin OpToRel(<, Nat)
  <2>1. IsWellFoundedOn(OpToRel(<, Nat), Nat)
    BY NatLessThanWellFounded
  <2> HIDE DEF Fr
  <2> QED BY <1>2, <2>1, WFMin
<1>4. \A x \in Fr : ~(x < m)
  BY <1>2, <1>3 DEF OpToRel
<1>5. P(m)
  <2>1. \A j \in 1..m - 1 : j \in 1..n /\ j \notin Fr
    BY <1>1, <1>2, <1>4
  <2> QED BY <1>1, <2>1
<1>6. first \in 1..n + 1 /\ P(first)
  <2>1. m \in 1..n + 1
    OBVIOUS
  <2> HIDE DEF P
  <2> QED BY <1>5, <2>1
<1> HIDE DEF first
<1>7. Cut(q, first)
  <2>1. ASSUME NEW j \in first..n PROVE Limiter!Recent(q[j])
    <3>1. first \in 1..n /\ j \in 1..n /\ q[first] >= q[j]
      BY <1>1, <1>6, <2>1 DEF Falling
    <3>2. Limiter!Parameters
      BY TownAssumption
    <3> QED BY <1>1, <1>6, <3>1, <3>2 DEF Limiter!Recent, Limiter!Parameters
  <2> QED BY <1>6, <2>1 DEF Cut
<1>8. Limiter!Pruned(q) = SubSeq(q, first, n)
  BY DEF Limiter!Pruned, first
<1> QED BY <1>6, <1>7, <1>8

Ages == 0..Span - 1     \* of a request that counts
\* What is left of times.
Row(q) == q \in Seq(Ages) /\ Falling(q)

\* What is pruned: its times count, are in the same order, and no more.
LEMMA PrunedRow ==
  ASSUME NEW q \in Seq(Nat), Falling(q)
  PROVE  /\ Row(Limiter!Pruned(q)) /\ Len(Limiter!Pruned(q)) <= Len(q)
         /\ q # <<>> /\ Limiter!Recent(q[1]) => Limiter!Pruned(q) = q
         /\ q # <<>> /\ ~Limiter!Recent(q[1]) => Len(Limiter!Pruned(q)) < Len(q)
         /\ q # <<>> /\ ~Limiter!Recent(q[Len(q)]) => Limiter!Pruned(q) = <<>>
         /\ q = <<>> => Limiter!Pruned(q) = <<>>
<1>1. PICK f \in 1..Len(q) + 1 : Cut(q, f) /\ Limiter!Pruned(q) = SubSeq(q, f, Len(q))
  BY PrunedIs
<1> DEFINE p == SubSeq(q, f, Len(q))
           n == Len(q)
<1>2. n \in Nat /\ DOMAIN q = 1..n /\ \A i \in 1..n : q[i] \in Nat
  OBVIOUS
<1>3. /\ p \in Seq(Nat) /\ Len(p) = n + 1 - f /\ DOMAIN p = 1..n + 1 - f
      /\ \A i \in 1..n + 1 - f : p[i] = q[i + f - 1]
  <2>1. p \in Seq(Nat) /\ Len(p) = (IF f <= n THEN n - f + 1 ELSE 0)
    BY <1>2
  <2> QED BY <1>2, <2>1
<1> HIDE DEF p
<1>4. \A i \in 1..n + 1 - f : i + f - 1 \in f..n
  BY <1>2
<1>5. \A i \in 1..n + 1 - f : p[i] \in Ages
  <2> SUFFICES ASSUME NEW i \in 1..n + 1 - f PROVE p[i] \in Ages
    OBVIOUS
  <2> DEFINE k == i + f - 1
  <2>1. k \in f..n /\ k \in 1..n
    BY <1>2
  <2> HIDE DEF k
  <2>2. q[k] \in Nat /\ Limiter!Recent(q[k])
    BY <1>1, <1>2, <2>1 DEF Cut
  <2>3. q[k] \in Ages
    BY <2>2, TownAssumption DEF Ages, Limiter!Recent, Limiter!Parameters
  <2> QED BY <1>3, <2>3 DEF k
<1>6. p \in Seq(Ages)
  BY <1>2, <1>3, <1>5
<1>7. Falling(p)
  <2> SUFFICES ASSUME NEW i \in DOMAIN p, NEW j \in DOMAIN p, i <= j PROVE p[i] >= p[j]
    BY DEF Falling
  <2> DEFINE k == i + f - 1
             l == j + f - 1
  <2>0. i \in 1..n + 1 - f /\ j \in 1..n + 1 - f
    BY <1>3
  <2>1. k \in 1..n /\ l \in 1..n /\ k <= l
    BY <1>2, <2>0
  <2>2. p[i] = q[k] /\ p[j] = q[l]
    BY <1>3, <2>0
  <2> HIDE DEF k, l
  <2> QED BY <1>2, <2>1, <2>2 DEF Falling
<1>8. ASSUME q # <<>>, Limiter!Recent(q[1]) PROVE p = q
  <2>1. n > 0
    BY <1>2, <1>8
  <2>2. f = 1
    BY <1>1, <1>2, <1>8, <2>1 DEF Cut
  <2> QED BY <2>2 DEF p
<1>9. ASSUME q # <<>>, ~Limiter!Recent(q[1]) PROVE Len(p) < n
  <2>1. n > 0
    BY <1>2, <1>9
  <2>2. f # 1
    BY <1>1, <1>2, <1>9, <2>1 DEF Cut
  <2> QED BY <1>2, <1>3, <2>2
<1>10. ASSUME q # <<>>, ~Limiter!Recent(q[n]) PROVE p = <<>>
  <2>1. n > 0
    BY <1>2, <1>10
  <2>2. f = n + 1
    BY <1>1, <1>2, <1>10, <2>1 DEF Cut
  <2> QED BY <1>2, <1>3, <2>2
<1>11. q = <<>> => p = <<>>
  BY <1>2, <1>3
<1> QED BY <1>1, <1>2, <1>3, <1>6, <1>7, <1>8, <1>9, <1>10, <1>11 DEF p, Row

\* Times that count lose nothing.
LEMMA RowStays == ASSUME NEW q, Row(q) PROVE q \in Seq(Nat) /\ Limiter!Pruned(q) = q
<1>1. q \in Seq(Nat)
  BY TownAssumption DEF Row, Ages, Limiter!Parameters
<1>2. CASE q = <<>>
  BY <1>1, <1>2, PrunedRow DEF Row
<1>3. CASE q # <<>>
  <2>1. q[1] \in Ages
    BY <1>3 DEF Row
  <2>2. Limiter!Recent(q[1])
    BY <2>1, TownAssumption DEF Ages, Limiter!Recent, Limiter!Parameters
  <2> QED BY <1>1, <1>3, <2>2, PrunedRow DEF Row
<1> QED BY <1>1, <1>2, <1>3

\* A new request is the youngest.
LEMMA RowGrows ==
  ASSUME NEW q, Row(q)
  PROVE  Row(Append(q, 0)) /\ Len(Append(q, 0)) = Len(q) + 1 /\ Append(q, 0) # <<>>
<1>1. 0 \in Ages /\ q \in Seq(Ages) /\ Len(q) \in Nat
  BY TownAssumption DEF Row, Ages, Limiter!Parameters
<1>2. /\ Append(q, 0) \in Seq(Ages) /\ Len(Append(q, 0)) = Len(q) + 1
      /\ Append(q, 0)[Len(q) + 1] = 0 /\ \A i \in 1..Len(q) : Append(q, 0)[i] = q[i]
  BY <1>1
<1>3. \A i \in 1..Len(q) : q[i] \in Int /\ q[i] >= 0
  <2>1. \A i \in 1..Len(q) : q[i] \in Ages
    BY <1>1
  <2> QED BY <2>1, TownAssumption DEF Ages, Limiter!Parameters
<1>4. Falling(Append(q, 0))
  BY <1>1, <1>2, <1>3 DEF Row, Falling
<1> QED BY <1>2, <1>4 DEF Row

\* What counts after a tick is what is left, a tick later, of what counted.
Later(q) == [i \in DOMAIN q |-> q[i] + 1]
\* The same times when those that count no more are not told apart.
Aged(q) == [i \in DOMAIN q |-> Limiter!Older(q[i])]
\* A tick later their order is the same.
LEMMA LaterRow ==
  ASSUME NEW q \in Seq(Nat), Falling(q)
  PROVE  Later(q) \in Seq(Nat) /\ Falling(Later(q)) /\ Len(Later(q)) = Len(q)
<1>1. Len(q) \in Nat /\ DOMAIN q = 1..Len(q) /\ \A i \in 1..Len(q) : q[i] \in Nat
  OBVIOUS
<1>2. DOMAIN Later(q) = 1..Len(q) /\ \A i \in 1..Len(q) : Later(q)[i] = q[i] + 1 /\ q[i] + 1 \in Nat
  BY <1>1 DEF Later
<1>3. Later(q) = [i \in 1..Len(q) |-> q[i] + 1]
  BY <1>1 DEF Later
<1>4. Later(q) \in Seq(Nat) /\ Len(Later(q)) = Len(q)
  BY <1>1, <1>2, <1>3
<1>5. Falling(Later(q))
  BY <1>1, <1>2 DEF Falling
<1> QED BY <1>4, <1>5

\* So it is when ages are bounded.
LEMMA AgedRow ==
  ASSUME NEW q \in Seq(0..Span), Falling(q)
  PROVE  Aged(q) \in Seq(0..Span) /\ Falling(Aged(q)) /\ Len(Aged(q)) = Len(q)
<1>1. Len(q) \in Nat /\ DOMAIN q = 1..Len(q) /\ \A i \in 1..Len(q) : q[i] \in 0..Span
  <2> DEFINE S == 0..Span
  <2>1. q \in Seq(S)
    OBVIOUS
  <2> HIDE DEF S
  <2>2. Len(q) \in Nat /\ DOMAIN q = 1..Len(q) /\ \A i \in 1..Len(q) : q[i] \in S
    BY <2>1
  <2> QED BY <2>2 DEF S
<1>2. \A x \in 0..Span : Limiter!Older(x) = IF x < Span THEN x + 1 ELSE x
  BY DEF Limiter!Older
<1>3. \A x \in 0..Span : Limiter!Older(x) \in 0..Span
  BY <1>2, TownAssumption DEF Limiter!Parameters
<1>4. \A x, y \in 0..Span : x >= y => Limiter!Older(x) >= Limiter!Older(y)
  BY <1>2, TownAssumption DEF Limiter!Parameters
<1>5. Aged(q) = [i \in 1..Len(q) |-> Limiter!Older(q[i])]
  BY <1>1 DEF Aged
<1>6. Aged(q) \in Seq(0..Span) /\ Len(Aged(q)) = Len(q) /\ DOMAIN Aged(q) = 1..Len(q)
  BY <1>1, <1>3, <1>5
<1>7. Falling(Aged(q))
  BY <1>1, <1>4, <1>5, <1>6 DEF Falling
<1> QED BY <1>6, <1>7

\* Pruning sees no difference between the two.
LEMMA TickPrunes ==
  ASSUME NEW q \in Seq(0..Span), Falling(q)
  PROVE  Limiter!Pruned(Aged(q)) = Limiter!Pruned(Later(Limiter!Pruned(q)))
<1> DEFINE n == Len(q)
           p == Limiter!Pruned(q)
           a == Aged(q)
           b == Later(p)
<1>0. q \in Seq(Nat) /\ n \in Nat /\ DOMAIN q = 1..n /\ \A i \in 1..n : q[i] \in 0..Span
  BY TownAssumption DEF Limiter!Parameters
<1>1. PICK f \in 1..n + 1 : Cut(q, f) /\ p = SubSeq(q, f, n)
  BY <1>0, PrunedIs
<1>2. p \in Seq(Nat) /\ Falling(p) /\ Len(p) = n + 1 - f /\ \A i \in 1..n + 1 - f : p[i] = q[i + f - 1]
  <2>1. Len(SubSeq(q, f, n)) = (IF f <= n THEN n - f + 1 ELSE 0)
    BY <1>0
  <2>2. Len(SubSeq(q, f, n)) = n + 1 - f
    BY <1>0, <2>1
  <2>3. \A i \in 1..n + 1 - f : SubSeq(q, f, n)[i] = q[i + f - 1]
    BY <1>0, <2>2
  <2>4. Row(p)
    BY <1>0, PrunedRow
  <2> QED BY <1>1, <2>2, <2>3, <2>4, RowStays DEF Row
<1> HIDE DEF p
<1>3. b \in Seq(Nat) /\ Falling(b) /\ Len(b) = n + 1 - f /\ \A i \in 1..n + 1 - f : b[i] = q[i + f - 1] + 1
  <2>1. b \in Seq(Nat) /\ Falling(b) /\ Len(b) = Len(p)
    BY <1>2, LaterRow
  <2>2. DOMAIN p = 1..n + 1 - f
    BY <1>2
  <2> QED BY <1>2, <2>1, <2>2 DEF Later
<1>4. /\ a \in Seq(Nat) /\ Falling(a) /\ Len(a) = n
      /\ \A i \in 1..n : a[i] = IF q[i] < Span THEN q[i] + 1 ELSE q[i]
  <2>1. a \in Seq(0..Span) /\ Falling(a) /\ Len(a) = n
    BY AgedRow
  <2>2. a \in Seq(Nat)
    BY <2>1, TownAssumption DEF Limiter!Parameters
  <2> QED BY <1>0, <2>1, <2>2 DEF Aged, Limiter!Older
<1> HIDE DEF a, b
<1>5. PICK g \in 1..n + 2 - f : Cut(b, g) /\ Limiter!Pruned(b) = SubSeq(b, g, n + 1 - f)
  <2>1. \E x \in 1..Len(b) + 1 : Cut(b, x) /\ Limiter!Pruned(b) = SubSeq(b, x, Len(b))
    BY <1>3, PrunedIs
  <2>2. Len(b) + 1 = n + 2 - f
    BY <1>0, <1>3
  <2> QED BY <1>3, <2>1, <2>2
<1>6. PICK h \in 1..n + 1 : Cut(a, h) /\ Limiter!Pruned(a) = SubSeq(a, h, n)
  BY <1>4, PrunedIs
<1> DEFINE k == f + g - 1
<1>7. k \in 1..n + 1
  BY <1>0
<1>8. Cut(a, k)
  <2>1. ASSUME NEW j \in 1..k - 1 PROVE ~Limiter!Recent(a[j])
    <3>1. CASE j < f
      <4>1. j \in 1..f - 1 /\ j \in 1..n
        BY <1>0, <1>7, <2>1, <3>1
      <4>2. ~(q[j] < Span) /\ a[j] = q[j]
        BY <1>1, <1>4, <4>1 DEF Cut, Limiter!Recent
      <4> QED BY <4>2 DEF Limiter!Recent
    <3>2. CASE ~(j < f)
      <4> DEFINE i == j - f + 1
      <4>1. i \in 1..g - 1 /\ i \in 1..n + 1 - f /\ j \in f..n /\ j \in 1..n /\ i + f - 1 = j
        BY <1>0, <1>7, <2>1, <3>2
      <4> HIDE DEF i
      <4>2. ~(b[i] < Span) /\ b[i] = q[j] + 1 /\ q[j] < Span
        BY <1>1, <1>3, <1>5, <4>1 DEF Cut, Limiter!Recent
      <4> QED BY <1>4, <4>1, <4>2 DEF Limiter!Recent
    <3> QED BY <3>1, <3>2
  <2>2. ASSUME NEW j \in k..n PROVE Limiter!Recent(a[j])
    <3> DEFINE i == j - f + 1
    <3>1. i \in g..n + 1 - f /\ i \in 1..n + 1 - f /\ j \in f..n /\ j \in 1..n /\ i + f - 1 = j
      BY <1>0, <1>7, <2>2
    <3> HIDE DEF i
    <3>2. b[i] < Span /\ b[i] = q[j] + 1 /\ q[j] < Span
      BY <1>1, <1>3, <1>5, <3>1 DEF Cut, Limiter!Recent
    <3> QED BY <1>4, <3>1, <3>2 DEF Limiter!Recent
  <2> HIDE DEF k
  <2> QED BY <1>4, <2>1, <2>2 DEF Cut
<1>9. h = k
  <2> HIDE DEF k
  <2> QED BY <1>4, <1>6, <1>7, <1>8, CutOnce
<1>10. \A i \in 1..n + 1 - k : SubSeq(a, k, n)[i] = SubSeq(b, g, n + 1 - f)[i]
  <2> SUFFICES ASSUME NEW i \in 1..n + 1 - k PROVE SubSeq(a, k, n)[i] = SubSeq(b, g, n + 1 - f)[i]
    OBVIOUS
  <2> DEFINE x == i + k - 1
             y == i + g - 1
  <2>1. x \in k..n /\ x \in f..n /\ x \in 1..n /\ y \in 1..n + 1 - f /\ y + f - 1 = x
    BY <1>0, <1>7
  <2>2. SubSeq(a, k, n)[i] = a[x]
    <3> HIDE DEF k
    <3> QED BY <1>0, <1>4, <1>7
  <2>3. SubSeq(b, g, n + 1 - f)[i] = b[y]
    <3>1. i \in 1..(n + 1 - f) - g + 1
      BY <1>0
    <3> HIDE DEF k
    <3> QED BY <1>0, <1>3, <3>1
  <2> HIDE DEF x, y
  <2>4. a[x] = q[x] + 1 /\ b[y] = q[x] + 1
    BY <1>1, <1>3, <1>4, <2>1 DEF Cut, Limiter!Recent
  <2> QED BY <2>2, <2>3, <2>4
<1>11. /\ SubSeq(a, k, n) \in Seq(Nat) /\ Len(SubSeq(a, k, n)) = n + 1 - k
       /\ SubSeq(b, g, n + 1 - f) \in Seq(Nat) /\ Len(SubSeq(b, g, n + 1 - f)) = n + 1 - k
  <2>1. SubSeq(a, k, n) \in Seq(Nat) /\ Len(SubSeq(a, k, n)) = IF k <= n THEN n - k + 1 ELSE 0
    <3> HIDE DEF k
    <3> QED BY <1>0, <1>4, <1>7
  <2>2. /\ SubSeq(b, g, n + 1 - f) \in Seq(Nat)
        /\ Len(SubSeq(b, g, n + 1 - f)) = IF g <= n + 1 - f THEN (n + 1 - f) - g + 1 ELSE 0
    <3>1. \A x \in g..n + 1 - f : x \in 1..n + 1 - f
      BY <1>0
    <3>2. g \in Int /\ n + 1 - f \in Int
      BY <1>0
    <3> HIDE DEF k
    <3> QED BY <1>3, <3>1, <3>2
  <2>3. Len(SubSeq(a, k, n)) = n + 1 - k
    <3> HIDE DEF k
    <3> QED BY <1>0, <1>7, <2>1
  <2>4. Len(SubSeq(b, g, n + 1 - f)) = n + 1 - k
    <3>1. CASE g <= n + 1 - f
      BY <1>0, <2>2, <3>1
    <3>2. CASE ~(g <= n + 1 - f)
      <4>1. g = n + 2 - f
        BY <1>0, <3>2
      <4> QED BY <1>0, <2>2, <3>2, <4>1
    <3> QED BY <3>1, <3>2
  <2> QED BY <2>1, <2>2, <2>3, <2>4
<1>12. SubSeq(a, k, n) = SubSeq(b, g, n + 1 - f)
  <2> HIDE DEF k
  <2> QED BY <1>10, <1>11, SeqEqual
<1> QED BY <1>5, <1>6, <1>9, <1>12 DEF a, b, p

\* The table is bounded, its times are in order, and no more than allowed.
LimiterTyped ==
    /\ DOMAIN s1 \subseteq Clients /\ Limiter!IsFiniteSet(DOMAIN s1) /\ Limiter!Cardinality(DOMAIN s1) <= MaxClients
    /\ \A k \in DOMAIN s1 : s1[k] \in Seq(0..Span) /\ Falling(s1[k]) /\ Len(s1[k]) <= PerSpan
    /\ s2 \in [Clients -> Seq(Ages)] /\ \A k \in Clients : Falling(s2[k])
    /\ s3 \in [Clients -> Int] /\ s4 \subseteq Clients

\* What the limiter knows of a key it did not drop is what was let through.
Agreed == \A k \in Clients \ s4 : s2[k] = Limiter!Times(k)

\* Who was refused waits for the oldest of his requests, until when there are
\* as many as he may have, and then fewer.
Awaited(k) ==
    /\ s3[k] > 0 => s2[k] # <<>> /\ s3[k] = Span - s2[k][1]
    /\ k \notin s4 => /\ s3[k] > 0 => Len(s2[k]) >= PerSpan
                      /\ s3[k] = 0 => Len(s2[k]) < PerSpan
\* What is true of the limiter.
LimiterInv == LimiterTyped /\ Agreed /\ \A k \in Clients : Awaited(k)

\* It is true at first.
LEMMA LimiterInit == ASSUME Limiter!Init PROVE LimiterInv
<1>1. s1 = <<>> /\ DOMAIN s1 = {} /\ s2 = [k \in Clients |-> <<>>] /\ s3 = [k \in Clients |-> -1] /\ s4 = {}
  BY DEF Limiter!Init
<1>2. LimiterTyped
  BY <1>1, Limiter!FS_EmptySet, TownAssumption DEF LimiterTyped, Falling, Limiter!Parameters
<1>3. Agreed
  BY <1>1 DEF Agreed, Limiter!Times
<1>4. \A k \in Clients : Awaited(k)
  BY <1>1 DEF Awaited
<1> QED BY <1>2, <1>3, <1>4 DEF LimiterInv

\* There is room for a key, once the stale are gone or the oldest half is.
LEMMA RoomFits ==
  ASSUME LimiterTyped, NEW k \in Clients, NEW keys \in Limiter!Room(k)
  PROVE  /\ keys \subseteq DOMAIN s1 /\ Limiter!IsFiniteSet(keys \cup {k})
         /\ Limiter!Cardinality(keys \cup {k}) <= MaxClients
<1> DEFINE d == DOMAIN s1
           f == Limiter!Fresh
<1>1. Limiter!IsFiniteSet(d) /\ Limiter!Cardinality(d) \in Nat /\ Limiter!Cardinality(d) <= MaxClients /\ MaxClients \in Nat /\ MaxClients > 1
  BY Limiter!FS_CardinalityType, TownAssumption DEF LimiterTyped, Limiter!Parameters
<1>2. f \subseteq d
  BY DEF Limiter!Fresh
<1>3. Limiter!IsFiniteSet(f) /\ Limiter!Cardinality(f) \in Nat /\ Limiter!Cardinality(f) <= Limiter!Cardinality(d)
  BY <1>1, <1>2, Limiter!FS_Subset, Limiter!FS_CardinalityType
<1> HIDE DEF d, f
<1>4. CASE keys = d /\ k \in d
  <2>1. keys \cup {k} = d
    BY <1>4
  <2> QED BY <1>1, <1>4, <2>1 DEF d
<1>5. CASE keys \subseteq d /\ Limiter!Cardinality(keys) < MaxClients
  <2>1. Limiter!IsFiniteSet(keys) /\ Limiter!Cardinality(keys) \in Nat
    BY <1>1, <1>5, Limiter!FS_Subset, Limiter!FS_CardinalityType
  <2>2. Limiter!IsFiniteSet(keys \cup {k}) /\ Limiter!Cardinality(keys \cup {k}) <= Limiter!Cardinality(keys) + 1
    BY <2>1, Limiter!FS_AddElement
  <2>3. Limiter!Cardinality(keys \cup {k}) \in Nat
    BY <2>2, Limiter!FS_CardinalityType
  <2> QED BY <1>1, <1>5, <2>1, <2>2, <2>3 DEF d
<1>6. CASE k \in d \/ Limiter!Cardinality(d) < MaxClients
  <2>1. keys = d
    BY <1>6 DEF Limiter!Room, d
  <2> QED BY <1>4, <1>5, <1>6, <2>1
<1>7. CASE ~(k \in d \/ Limiter!Cardinality(d) < MaxClients)
  <2>1. keys \in Limiter!Kept
    BY <1>7 DEF Limiter!Room, d
  <2>2. CASE Limiter!Cardinality(f) < MaxClients
    <3>1. keys = f
      BY <2>1, <2>2 DEF Limiter!Kept, f
    <3> QED BY <1>2, <1>5, <2>2, <3>1
  <2>3. CASE ~(Limiter!Cardinality(f) < MaxClients)
    <3>1. PICK half \in Limiter!OldestHalf(f) : keys = f \ half
      BY <2>1, <2>3 DEF Limiter!Kept, f
    <3>2. half \subseteq f /\ Limiter!Cardinality(half) = Limiter!Cardinality(f) \div 2
      BY DEF Limiter!OldestHalf
    <3>3. Limiter!Cardinality(half) \in Nat /\ Limiter!Cardinality(half) > 0
      <4>1. \A n \in Nat : n > 1 => n \div 2 \in Nat /\ n \div 2 > 0
        OBVIOUS
      <4> QED BY <1>1, <1>3, <2>3, <3>2, <4>1
    <3>4. Limiter!Cardinality(keys) = Limiter!Cardinality(f) - Limiter!Cardinality(f \cap half) /\ f \cap half = half
      BY <1>3, <3>1, <3>2, Limiter!FS_Difference
    <3>5. Limiter!Cardinality(keys) < MaxClients
      <4>1. Limiter!Cardinality(keys) = Limiter!Cardinality(f) - Limiter!Cardinality(half)
        BY <3>4
      <4>2. \A x, y, z, m \in Nat : x <= y /\ y <= m /\ z > 0 => x - z < m
        OBVIOUS
      <4> QED BY <1>1, <1>3, <3>3, <4>1, <4>2
    <3> QED BY <1>2, <1>5, <3>1, <3>5
  <2> QED BY <2>2, <2>3
<1> QED BY <1>6, <1>7

\* What is known of a key, pruned.
LEMMA TimesRow ==
  ASSUME LimiterTyped, NEW k \in Clients
  PROVE  Row(Limiter!Times(k)) /\ Len(Limiter!Times(k)) <= PerSpan
<1>1. CASE k \in DOMAIN s1
  <2>1. s1[k] \in Seq(Nat) /\ Falling(s1[k]) /\ Len(s1[k]) <= PerSpan
    BY <1>1, TownAssumption DEF LimiterTyped, Limiter!Parameters
  <2>2. Row(Limiter!Pruned(s1[k])) /\ Len(Limiter!Pruned(s1[k])) <= Len(s1[k])
    BY <2>1, PrunedRow
  <2>3. Len(Limiter!Pruned(s1[k])) \in Nat /\ Len(s1[k]) \in Nat
    BY <2>1, <2>2 DEF Row
  <2> QED BY <1>1, <2>1, <2>2, <2>3, TownAssumption DEF Limiter!Times, Limiter!Live, Limiter!Parameters
<1>2. CASE k \notin DOMAIN s1
  <2>1. Row(<<>>)
    BY DEF Row, Falling
  <2> QED BY <1>2, <2>1, TownAssumption DEF Limiter!Times, Limiter!Parameters
<1> QED BY <1>1, <1>2

\* A key that has nothing fresh has no times that count.
LEMMA StaleRow ==
  ASSUME LimiterTyped, NEW k \in DOMAIN s1, k \notin Limiter!Fresh
  PROVE  Limiter!Times(k) = <<>>
<1>1. s1[k] \in Seq(Nat) /\ Falling(s1[k])
  BY TownAssumption DEF LimiterTyped, Limiter!Parameters
<1>2. s1[k] = <<>> \/ ~Limiter!Recent(s1[k][Len(s1[k])])
  BY DEF Limiter!Fresh, Limiter!LastHit
<1> QED BY <1>1, <1>2, PrunedRow DEF Limiter!Times, Limiter!Live

\* What the table holds of keys after a request of k, and what is known of them.
LEMMA TimesAfter ==
  ASSUME LimiterTyped, NEW k \in Clients, NEW keys \in Limiter!Room(k), NEW times, Row(times),
         Len(times) <= PerSpan, s1' = Limiter!Put(keys, k, times)
  PROVE  /\ DOMAIN s1' \subseteq Clients /\ Limiter!IsFiniteSet(DOMAIN s1') /\ Limiter!Cardinality(DOMAIN s1') <= MaxClients
         /\ \A x \in DOMAIN s1' : s1'[x] \in Seq(0..Span) /\ Falling(s1'[x]) /\ Len(s1'[x]) <= PerSpan
         /\ Limiter!Times(k)' = times
         /\ \A x \in Clients \ {k} : x \notin Limiter!Fresh \ (keys \cup {k})
                                      => Limiter!Times(x)' = Limiter!Times(x)
<1>1. keys \subseteq DOMAIN s1 /\ Limiter!IsFiniteSet(keys \cup {k}) /\ Limiter!Cardinality(keys \cup {k}) <= MaxClients
  BY RoomFits
<1>2. s1' = [x \in keys \cup {k} |-> IF x = k THEN times ELSE s1[x]]
  BY DEF Limiter!Put
<1>3. DOMAIN s1' = keys \cup {k} /\ s1'[k] = times /\ \A x \in keys \ {k} : s1'[x] = s1[x]
  BY <1>2
<1>4. times \in Seq(0..Span)
  BY TownAssumption DEF Row, Ages, Limiter!Parameters
<1>5. \A x \in DOMAIN s1' : s1'[x] \in Seq(0..Span) /\ Falling(s1'[x]) /\ Len(s1'[x]) <= PerSpan
  BY <1>1, <1>3, <1>4 DEF LimiterTyped, Row
<1>6. Limiter!Times(k)' = times
  <2>1. Limiter!Times(k)' = Limiter!Pruned(times)
    BY <1>3 DEF Limiter!Times, Limiter!Live
  <2> QED BY <2>1, RowStays
<1>7. ASSUME NEW x \in Clients \ {k}, x \notin Limiter!Fresh \ (keys \cup {k})
      PROVE  Limiter!Times(x)' = Limiter!Times(x)
  <2>1. CASE x \in keys
    BY <1>1, <1>3, <2>1 DEF Limiter!Times, Limiter!Live
  <2>2. CASE x \notin keys
    <3>1. Limiter!Times(x)' = <<>>
      BY <1>3, <1>7, <2>2 DEF Limiter!Times
    <3>2. CASE x \in DOMAIN s1
      BY <1>7, <2>2, <3>1, <3>2, StaleRow
    <3>3. CASE x \notin DOMAIN s1
      BY <3>1, <3>3 DEF Limiter!Times
    <3> QED BY <3>2, <3>3
  <2> QED BY <2>1, <2>2
<1> QED BY <1>1, <1>3, <1>5, <1>6, <1>7 DEF LimiterTyped

\* Time passes.
LEMMA LimiterTick == ASSUME LimiterInv, Limiter!Tick PROVE LimiterInv'
<1>1. s1' = [k \in DOMAIN s1 |-> Aged(s1[k])]
  BY DEF Limiter!Tick, Aged
<1>2. s2' = [k \in Clients |-> Limiter!Pruned(Later(s2[k]))]
  BY DEF Limiter!Tick, Later
<1>3. s3' = [k \in Clients |-> IF s3[k] > 0 THEN s3[k] - 1 ELSE s3[k]]
  BY DEF Limiter!Tick
<1>4. s4' = {k \in s4 : s2'[k] # <<>> \/ (k \in DOMAIN s1 /\ Limiter!Live(k) # <<>>)}
  BY DEF Limiter!Tick
<1>5. DOMAIN s1' = DOMAIN s1 /\ \A k \in DOMAIN s1 : s1'[k] = Aged(s1[k])
  BY <1>1
<1>6. \A k \in Clients : /\ s2[k] \in Seq(Nat) /\ Falling(s2[k]) /\ Row(s2[k])
                         /\ Later(s2[k]) \in Seq(Nat) /\ Falling(Later(s2[k])) /\ Len(Later(s2[k])) = Len(s2[k])
                         /\ s2'[k] = Limiter!Pruned(Later(s2[k]))
                         /\ Row(s2'[k]) /\ Len(s2'[k]) <= Len(s2[k])
  <2> SUFFICES ASSUME NEW k \in Clients
               PROVE  /\ s2[k] \in Seq(Nat) /\ Falling(s2[k]) /\ Row(s2[k])
                      /\ Later(s2[k]) \in Seq(Nat) /\ Falling(Later(s2[k])) /\ Len(Later(s2[k])) = Len(s2[k])
                      /\ s2'[k] = Limiter!Pruned(Later(s2[k]))
                      /\ Row(s2'[k]) /\ Len(s2'[k]) <= Len(s2[k])
    OBVIOUS
  <2>1. Row(s2[k])
    BY DEF LimiterInv, LimiterTyped, Row
  <2>2. s2[k] \in Seq(Nat) /\ Falling(s2[k])
    BY <2>1, RowStays DEF Row
  <2>3. Later(s2[k]) \in Seq(Nat) /\ Falling(Later(s2[k])) /\ Len(Later(s2[k])) = Len(s2[k])
    BY <2>2, LaterRow
  <2>4. s2'[k] = Limiter!Pruned(Later(s2[k]))
    BY <1>2
  <2>5. Row(s2'[k]) /\ Len(s2'[k]) <= Len(s2[k])
    BY <2>3, <2>4, PrunedRow
  <2> QED BY <2>1, <2>2, <2>3, <2>4, <2>5
<1>7. \A k \in DOMAIN s1 : /\ Aged(s1[k]) \in Seq(0..Span) /\ Falling(Aged(s1[k])) /\ Len(Aged(s1[k])) = Len(s1[k])
                           /\ Limiter!Pruned(Aged(s1[k])) = Limiter!Pruned(Later(Limiter!Pruned(s1[k])))
  BY AgedRow, TickPrunes DEF LimiterInv, LimiterTyped
<1>8. LimiterTyped'
  <2>1. /\ DOMAIN s1' \subseteq Clients /\ Limiter!IsFiniteSet(DOMAIN s1') /\ Limiter!Cardinality(DOMAIN s1') <= MaxClients
    BY <1>5 DEF LimiterInv, LimiterTyped
  <2>2. \A k \in DOMAIN s1' : s1'[k] \in Seq(0..Span) /\ Falling(s1'[k]) /\ Len(s1'[k]) <= PerSpan
    BY <1>5, <1>7 DEF LimiterInv, LimiterTyped
  <2>3. s2' \in [Clients -> Seq(Ages)] /\ \A k \in Clients : Falling(s2'[k])
    BY <1>2, <1>6 DEF Row
  <2>4. s3' \in [Clients -> Int]
    BY <1>3 DEF LimiterInv, LimiterTyped
  <2>5. s4' \subseteq Clients
    BY <1>4 DEF LimiterInv, LimiterTyped
  <2> QED BY <2>1, <2>2, <2>3, <2>4, <2>5 DEF LimiterTyped
<1>9. Agreed'
  <2> SUFFICES ASSUME NEW k \in Clients \ s4' PROVE s2'[k] = Limiter!Times(k)'
    BY DEF Agreed
  <2>1. Limiter!Times(k)' = IF k \in DOMAIN s1 THEN Limiter!Pruned(Later(Limiter!Live(k))) ELSE <<>>
    <3>1. Limiter!Times(k)' = IF k \in DOMAIN s1' THEN Limiter!Pruned(s1'[k]) ELSE <<>>
      BY DEF Limiter!Times, Limiter!Live
    <3> QED BY <1>5, <1>7, <3>1 DEF Limiter!Live
  <2>2. Limiter!Pruned(Later(<<>>)) = <<>>
    <3>1. <<>> \in Seq(Nat) /\ Falling(<<>>) /\ Later(<<>>) = <<>>
      BY DEF Falling, Later
    <3> QED BY <3>1, PrunedRow
  <2>3. CASE k \notin s4
    <3>1. s2[k] = Limiter!Times(k)
      BY <2>3 DEF LimiterInv, Agreed
    <3> QED BY <1>6, <2>1, <2>2, <3>1 DEF Limiter!Times
  <2>4. CASE k \in s4
    <3>1. s2'[k] = <<>> /\ (k \in DOMAIN s1 => Limiter!Live(k) = <<>>)
      BY <1>4, <2>4
    <3> QED BY <2>1, <2>2, <3>1
  <2> QED BY <2>3, <2>4
<1>10. ASSUME NEW k \in Clients PROVE Awaited(k)'
  <2>1. Awaited(k) /\ s3[k] \in Int /\ Len(s2[k]) \in Nat /\ Len(s2'[k]) \in Nat
    BY <1>6 DEF LimiterInv, LimiterTyped, Row
  <2>2. s3'[k] = IF s3[k] > 0 THEN s3[k] - 1 ELSE s3[k]
    BY <1>3
  <2>3. k \notin s4' => k \notin s4 \/ s2'[k] = <<>>
    BY <1>4
  <2>4. k \notin s4 => Len(s2[k]) <= PerSpan
    BY TimesRow DEF LimiterInv, Agreed
  <2>5. PerSpan \in Nat /\ PerSpan > 0 /\ Span \in Nat
    BY TownAssumption DEF Limiter!Parameters
  <2>6. s2[k] # <<>> => /\ s2[k][1] \in Nat /\ Later(s2[k])[1] = s2[k][1] + 1 /\ Later(s2[k]) # <<>>
    BY <1>6 DEF Later
  <2>7. CASE s3[k] > 1
    <3>1. s2[k] # <<>> /\ s3[k] = Span - s2[k][1]
      BY <2>1, <2>7 DEF Awaited
    <3>2. Limiter!Recent(Later(s2[k])[1])
      BY <2>5, <2>6, <2>7, <3>1 DEF Limiter!Recent
    <3>3. s2'[k] = Later(s2[k])
      BY <1>6, <2>6, <3>1, <3>2, PrunedRow
    <3>4. s3'[k] > 0 /\ s3'[k] = Span - s2'[k][1] /\ s2'[k] # <<>> /\ Len(s2'[k]) = Len(s2[k])
      <4>1. Len(s2'[k]) = Len(s2[k]) /\ s2'[k] # <<>> /\ s2'[k][1] = s2[k][1] + 1
        BY <1>6, <2>6, <3>1, <3>3
      <4>2. s3'[k] = s3[k] - 1 /\ s3[k] > 1
        BY <2>1, <2>2, <2>7
      <4>3. s2[k][1] \in Nat
        BY <2>6, <3>1
      <4> QED BY <2>1, <2>5, <3>1, <4>1, <4>2, <4>3
    <3> QED BY <2>1, <2>3, <2>7, <3>4 DEF Awaited
  <2>8. CASE s3[k] = 1
    <3>1. s2[k] # <<>> /\ s3[k] = Span - s2[k][1]
      BY <2>1, <2>8 DEF Awaited
    <3>2. ~Limiter!Recent(Later(s2[k])[1])
      BY <2>5, <2>6, <2>8, <3>1 DEF Limiter!Recent
    <3>3. Len(s2'[k]) < Len(s2[k])
      BY <1>6, <2>6, <3>1, <3>2, PrunedRow
    <3>4. s3'[k] = 0
      BY <2>1, <2>2, <2>8
    <3>5. k \notin s4' => Len(s2'[k]) < PerSpan
      BY <2>1, <2>3, <2>4, <2>5, <3>3
    <3> QED BY <3>4, <3>5 DEF Awaited
  <2>9. CASE ~(s3[k] > 0)
    <3>1. s3'[k] = s3[k] /\ ~(s3'[k] > 0)
      BY <2>2, <2>9
    <3>2. k \notin s4' /\ s3[k] = 0 => Len(s2'[k]) < PerSpan
      BY <1>6, <2>1, <2>3, <2>5 DEF Awaited
    <3> QED BY <3>1, <3>2 DEF Awaited
  <2> QED BY <2>1, <2>7, <2>8, <2>9
<1> QED BY <1>8, <1>9, <1>10 DEF LimiterInv

\* A request comes.
LEMMA LimiterCheck == ASSUME LimiterInv, NEW k \in Clients, Limiter!Check(k) PROVE LimiterInv'
<1> DEFINE times == Limiter!Times(k)
<1>1. PICK keys \in Limiter!Room(k) :
        LET gone == Limiter!Fresh \ (keys \cup {k})
        IN /\ s4' = s4 \cup gone
           /\ IF Limiter!Full(times)
              THEN /\ s1' = Limiter!Put(keys, k, times)
                   /\ s3' = [s3 EXCEPT ![k] = IF k \in s4 THEN -1 ELSE Limiter!RetryAfter(times)]
                   /\ UNCHANGED s2
              ELSE /\ s1' = Limiter!Put(keys, k, Append(times, 0))
                   /\ s2' = IF k \in s4 THEN s2 ELSE [s2 EXCEPT ![k] = Append(@, 0)]
                   /\ s3' = [x \in Clients |-> IF x \in gone \cup {k} THEN -1 ELSE s3[x]]
  BY DEF Limiter!Check
<1> DEFINE gone == Limiter!Fresh \ (keys \cup {k})
           after == IF Limiter!Full(times) THEN times ELSE Append(times, 0)
<1>2. LimiterTyped /\ Agreed /\ \A x \in Clients : Awaited(x)
  BY DEF LimiterInv
<1>3. Row(times) /\ Len(times) <= PerSpan /\ Len(times) \in Nat
  BY <1>2, TimesRow DEF Row
<1>4. PerSpan \in Nat /\ PerSpan > 0 /\ Span \in Nat
  BY TownAssumption DEF Limiter!Parameters
<1>5. gone \subseteq Clients /\ k \notin gone
  BY <1>2 DEF LimiterTyped, Limiter!Fresh
<1> HIDE DEF times, gone
<1>6. Row(after) /\ Len(after) <= PerSpan
  BY <1>3, <1>4, RowGrows DEF Limiter!Full
<1>7. s1' = Limiter!Put(keys, k, after)
  BY <1>1 DEF times
<1> HIDE DEF after
<1>8. /\ DOMAIN s1' \subseteq Clients /\ Limiter!IsFiniteSet(DOMAIN s1') /\ Limiter!Cardinality(DOMAIN s1') <= MaxClients
      /\ \A x \in DOMAIN s1' : s1'[x] \in Seq(0..Span) /\ Falling(s1'[x]) /\ Len(s1'[x]) <= PerSpan
      /\ Limiter!Times(k)' = after
      /\ \A x \in Clients \ {k} : x \notin gone => Limiter!Times(x)' = Limiter!Times(x)
  BY <1>2, <1>6, <1>7, TimesAfter DEF gone
<1>9. s4' = s4 \cup gone
  BY <1>1 DEF gone
<1>10. k \notin s4 => s2[k] = times
  BY <1>2 DEF Agreed, times
<1>11. /\ s2' \in [Clients -> Seq(Ages)] /\ \A x \in Clients : Falling(s2'[x])
       /\ \A x \in Clients \ {k} : s2'[x] = s2[x]
       /\ k \notin s4 => s2'[k] = after
  <2>1. s2' = s2 \/ (k \notin s4 /\ s2' = [s2 EXCEPT ![k] = after])
    BY <1>1, <1>10 DEF after, times
  <2>2. k \notin s4 => (s2' = s2 /\ after = times) \/ s2' = [s2 EXCEPT ![k] = after]
    BY <1>1, <1>10 DEF after, times
  <2> QED BY <1>2, <1>6, <1>10, <2>1, <2>2 DEF LimiterTyped, Row
<1>12. s3' \in [Clients -> Int] /\ (Limiter!Full(times) => Limiter!RetryAfter(times) \in Int)
  <2>1. CASE Limiter!Full(times)
    <3>1. times # <<>> /\ times[1] \in Nat
      BY <1>3, <1>4, <2>1, RowStays DEF Limiter!Full, Row
    <3>2. Limiter!RetryAfter(times) \in Int
      BY <1>4, <3>1 DEF Limiter!RetryAfter
    <3> QED BY <1>1, <1>2, <2>1, <3>2 DEF LimiterTyped, times
  <2>2. CASE ~Limiter!Full(times)
    <3>1. s3' = [x \in Clients |-> IF x \in gone \cup {k} THEN -1 ELSE s3[x]]
      BY <1>1, <2>2 DEF times, gone
    <3> QED BY <1>2, <2>2, <3>1 DEF LimiterTyped
  <2> QED BY <2>1, <2>2
<1>13. LimiterTyped'
  BY <1>2, <1>5, <1>8, <1>9, <1>11, <1>12 DEF LimiterTyped
<1>14. Agreed'
  BY <1>2, <1>8, <1>9, <1>11 DEF Agreed
<1>15. ASSUME NEW x \in Clients PROVE Awaited(x)'
  <2>1. CASE x = k
    <3>1. CASE Limiter!Full(times) /\ k \notin s4
      <4>1. s3'[k] = Span - times[1] /\ s2'[k] = times
        BY <1>1, <1>2, <1>11, <3>1 DEF LimiterTyped, Limiter!RetryAfter, times, after
      <4>2. Len(times) >= PerSpan /\ times # <<>>
        BY <1>3, <1>4, <3>1 DEF Limiter!Full
      <4>3. times[1] \in Nat /\ times[1] < Span
        BY <1>3, <1>4, <4>2 DEF Row, Ages
      <4>4. s3'[k] > 0
        BY <1>4, <4>1, <4>3
      <4> QED BY <2>1, <4>1, <4>2, <4>4 DEF Awaited
    <3>2. CASE ~(Limiter!Full(times) /\ k \notin s4)
      <4>1. s3'[k] = -1
        BY <1>1, <1>2, <3>2 DEF LimiterTyped, times
      <4> QED BY <2>1, <4>1 DEF Awaited
    <3> QED BY <3>1, <3>2
  <2>2. CASE x # k
    <3>1. s2'[x] = s2[x] /\ (x \notin s4' => x \notin s4)
      BY <1>9, <1>11, <2>2
    <3>2. s3'[x] = s3[x] \/ s3'[x] = -1
      BY <1>1, <1>2, <2>2 DEF LimiterTyped, times
    <3> QED BY <1>2, <3>1, <3>2 DEF Awaited
  <2> QED BY <2>1, <2>2
<1> QED BY <1>13, <1>14, <1>15 DEF LimiterInv

\* Every step of the limiter keeps it.
LEMMA LimiterNext == ASSUME LimiterInv, [Limiter!Next]_(Limiter!vars) PROVE LimiterInv'
<1>1. CASE UNCHANGED Limiter!vars
  BY <1>1 DEF Limiter!vars, LimiterInv, LimiterTyped, Agreed, Awaited, Limiter!Times, Limiter!Live
<1> QED BY <1>1, LimiterTick, LimiterCheck DEF Limiter!Next

\* What the run checks of the limiter.
LEMMA LimiterMeans ==
  ASSUME LimiterInv
  PROVE  Limiter!TypeOK /\ Limiter!AtMostBudget /\ Limiter!RetryIsExact
<1>1. Limiter!TypeOK
  BY DEF LimiterInv, LimiterTyped, Limiter!TypeOK
<1>2. Limiter!AtMostBudget
  BY TimesRow DEF LimiterInv, Agreed, Limiter!AtMostBudget
<1>3. Limiter!RetryIsExact
  <2> SUFFICES ASSUME NEW k \in Clients \ s4
               PROVE  /\ s3[k] > 0 => Limiter!Full(Limiter!Times(k)) /\ s3[k] = Span - Limiter!Times(k)[1]
                      /\ s3[k] = 0 => ~Limiter!Full(Limiter!Times(k))
    BY DEF Limiter!RetryIsExact
  <2>1. s2[k] = Limiter!Times(k) /\ Awaited(k)
    BY DEF LimiterInv, Agreed
  <2>2. Len(Limiter!Times(k)) \in Nat /\ PerSpan \in Nat
    BY TimesRow, TownAssumption DEF LimiterInv, Row, Limiter!Parameters
  <2>3. Limiter!Full(Limiter!Times(k)) <=> Len(s2[k]) >= PerSpan
    BY <2>1 DEF Limiter!Full
  <2>4. s3[k] > 0 => Len(s2[k]) >= PerSpan /\ s3[k] = Span - s2[k][1]
    <3>1. Awaited(k) /\ k \notin s4
      BY <2>1
    <3>2. s3[k] > 0 => Len(s2[k]) >= PerSpan
      BY <3>1 DEF Awaited
    <3>3. s3[k] > 0 => s3[k] = Span - s2[k][1]
      BY <3>1 DEF Awaited
    <3> QED BY <3>2, <3>3
  <2>5. s3[k] = 0 => Len(s2[k]) < PerSpan
    BY <2>1 DEF Awaited
  <2>6. Len(s2[k]) < PerSpan => ~(Len(s2[k]) >= PerSpan)
    BY <2>1, <2>2
  <2> QED BY <2>1, <2>3, <2>4, <2>5, <2>6
<1> QED BY <1>1, <1>2, <1>3

-----------------------------------------------------------------------------
(* Answers.  What has arrived lies before the next part, so that the rest    *)
(* comes behind it; while nobody else counts, the count read is the count.   *)

Piece == (Nat \ {0}) \X {"rich", "plain"}
Stages == {"idle", "rich", "counting", "plain", "tail", "record", "done"}
\* Counts are natural, and a stage is one of them.
RepliesTyped ==
    /\ s1 \in Nat /\ s2 \in BOOLEAN /\ s9 \in Nat /\ s10 \in Nat /\ s11 \in BOOLEAN /\ s12 \in Nat
    /\ s3 \in [Spoken -> Stages] /\ s4 \in [Spoken -> Nat \ {0}] /\ s5 \in [Spoken -> Seq(Piece)]
    /\ s6 \in [Spoken -> Nat] /\ s7 \in [Spoken -> Nat]

\* Where an answer is.
Somewhere(r) ==
    /\ s4[r] <= Chunks[r] + 1
    /\ s3[r] \in {"idle", "rich", "counting", "plain", "tail"} => s4[r] <= Chunks[r]
    /\ s3[r] = "idle" => s4[r] = 1
    /\ s3[r] = "tail" => s4[r] > 1
    /\ s3[r] \in {"rich", "counting", "tail"} /\ s4[r] > 1 => s7[r] # 0
    /\ s3[r] = "record" => s7[r] # 0
    /\ s3[r] = "done" /\ s5[r] = <<>> => s4[r] = Chunks[r] + 1

\* What has arrived of it: no part before one that came earlier, none from the
\* next one on, and the one that is known.
Ordered(q, losses) ==
    \A i, j \in DOMAIN q : i < j => q[i][1] <= q[j][1] /\ (losses = 0 => q[i][1] # q[j][1])
Below(q, n, losses) == \A i \in DOMAIN q : q[i][1] <= n /\ (losses = 0 => q[i][1] < n)
Has(q, n) == \E i \in DOMAIN q : q[i][1] = n
Starts(q, p) == \A i \in DOMAIN q : i \in DOMAIN p /\ p[i] = q[i]
Arrived(r) == Ordered(s5[r], s12) /\ Below(s5[r], s4[r], s12) /\ (s7[r] # 0 => Has(s5[r], s7[r]))

\* What is counted has happened, and so has what who counts has read.
Tallied == ~s11 =>
    /\ s1 <= s9 /\ (s2 => s10 >= Patience)
    /\ \A r \in Spoken : s3[r] = "counting" => s6[r] < s9
    /\ \A r, o \in Spoken : s3[r] = "counting" /\ s3[o] = "counting" => r = o
\* The part that is remembered has arrived.
Remembers == \A l \in s8 : l.reply \in Spoken /\ Has(s5[l.reply], l.part)
\* What is true of the answers.
RepliesInv == /\ RepliesTyped /\ Tallied /\ Remembers
              /\ \A r \in Spoken : Somewhere(r) /\ Arrived(r)

\* It is true at first.
LEMMA RepliesInit == ASSUME Replies!Parameters, Replies!Init PROVE RepliesInv
<1>1. RepliesTyped
  <2>1. s1 \in Nat /\ s2 \in BOOLEAN /\ s9 \in Nat /\ s10 \in Nat /\ s11 \in BOOLEAN /\ s12 \in Nat
    BY DEF Replies!Init
  <2>2. s3 \in [Spoken -> Stages] /\ s4 \in [Spoken -> Nat \ {0}]
    BY DEF Replies!Init, Stages
  <2>3. s6 \in [Spoken -> Nat] /\ s7 \in [Spoken -> Nat]
    BY DEF Replies!Init
  <2>4. s5 \in [Spoken -> Seq(Piece)]
    BY DEF Replies!Init
  <2> QED BY <2>1, <2>2, <2>3, <2>4 DEF RepliesTyped
<1>2. \A r \in Spoken : s3[r] = "idle" /\ s4[r] = 1 /\ s5[r] = <<>> /\ s7[r] = 0 /\ Chunks[r] \in Nat \ {0}
  BY DEF Replies!Init, Replies!Parameters
<1>3. Tallied /\ Remembers
  BY <1>2 DEF Replies!Init, Tallied, Remembers
<1>4. \A r \in Spoken : Somewhere(r)
  BY <1>2 DEF Somewhere
<1>5. \A r \in Spoken : Arrived(r)
  BY <1>2 DEF Arrived, Ordered, Below
<1> QED BY <1>1, <1>3, <1>4, <1>5 DEF RepliesInv

\* One more part behind those that have arrived.
LEMMA OneMore ==
  ASSUME NEW q \in Seq(Piece), NEW n \in Nat \ {0}, NEW form \in {"rich", "plain"},
         NEW d \in Nat, NEW m \in {n, n + 1}, d = 0 => m = n + 1,
         Ordered(q, d), Below(q, n, d), NEW p, p = Append(q, <<n, form>>)
  PROVE  p \in Seq(Piece) /\ Ordered(p, d) /\ Below(p, m, d) /\ Starts(q, p) /\ p # <<>> /\ Has(p, n)
<1> DEFINE k == Len(q)
<1>1. k \in Nat /\ DOMAIN q = 1..k
  OBVIOUS
<1>2. <<n, form>> \in Piece /\ <<n, form>>[1] = n
  BY DEF Piece
<1>3. p \in Seq(Piece) /\ DOMAIN p = 1..k + 1 /\ p # <<>>
  BY <1>1, <1>2
<1>4. p[k + 1] = <<n, form>> /\ \A i \in 1..k : p[i] = q[i]
  BY <1>1, <1>2
<1>5. \A i \in 1..k : q[i][1] \in Nat
  BY <1>1 DEF Piece
<1> HIDE DEF k
<1>6. p[k + 1][1] = n
  BY <1>2, <1>4, Zenon
<1>7. \A i \in 1..k : p[i][1] = q[i][1] /\ p[i][1] \in Nat /\ p[i][1] <= n /\ (d = 0 => p[i][1] < n)
  BY <1>1, <1>4, <1>5 DEF Below
<1>8. ASSUME NEW i \in DOMAIN p, NEW j \in DOMAIN p, i < j
      PROVE  p[i][1] <= p[j][1] /\ (d = 0 => p[i][1] # p[j][1])
  <2>0. i \in 1..k + 1 /\ j \in 1..k + 1 /\ k \in Nat
    BY <1>1, <1>3
  <2>1. i \in 1..k /\ (j \in 1..k \/ j = k + 1)
    BY <1>8, <2>0
  <2>2. CASE j \in 1..k
    <3>1. q[i][1] <= q[j][1] /\ (d = 0 => q[i][1] # q[j][1])
      BY <1>1, <1>8, <2>1, <2>2 DEF Ordered
    <3>2. p[i] = q[i] /\ p[j] = q[j]
      BY <1>4, <2>1, <2>2
    <3> QED BY <3>1, <3>2
  <2>3. CASE j = k + 1
    BY <1>6, <1>7, <2>1, <2>3
  <2> QED BY <2>1, <2>2, <2>3
<1>9. ASSUME NEW i \in DOMAIN p PROVE p[i][1] <= m /\ (d = 0 => p[i][1] < m)
  <2>1. i \in 1..k \/ i = k + 1
    BY <1>1, <1>3
  <2> QED BY <1>6, <1>7, <2>1
<1>10. k + 1 \in DOMAIN p /\ \A i \in DOMAIN q : i \in DOMAIN p
  BY <1>1, <1>3
<1>11. Ordered(p, d) /\ Below(p, m, d)
  BY <1>8, <1>9 DEF Ordered, Below
<1> QED BY <1>1, <1>3, <1>4, <1>6, <1>10, <1>11 DEF Has, Starts

\* A step of one answer: what of the rest is to be looked at.
Stepped(r) ==
    /\ s3' \in [Spoken -> Stages] /\ s4' \in [Spoken -> Nat \ {0}] /\ s5' \in [Spoken -> Seq(Piece)]
    /\ s6' \in [Spoken -> Nat] /\ s7' \in [Spoken -> Nat]
    /\ \A o \in Spoken \ {r} : /\ s3'[o] = s3[o] /\ s4'[o] = s4[o] /\ s5'[o] = s5[o]
                               /\ s6'[o] = s6[o] /\ s7'[o] = s7[o]
    /\ s12' \in Nat /\ (s12' = 0 => s12 = 0)
    /\ Starts(s5[r], s5'[r])

\* The others are where they were.
LEMMA OthersStay ==
  ASSUME RepliesInv, NEW r \in Spoken, Stepped(r), Somewhere(r)', Arrived(r)'
  PROVE  /\ \A o \in Spoken : Somewhere(o)' /\ Arrived(o)'
         /\ s8' = s8 => Remembers'
<1>1. ASSUME NEW o \in Spoken PROVE Somewhere(o)' /\ Arrived(o)'
  <2>1. CASE o = r
    BY <2>1
  <2>2. CASE o # r
    <3>1. /\ s3'[o] = s3[o] /\ s4'[o] = s4[o] /\ s5'[o] = s5[o] /\ s7'[o] = s7[o]
          /\ s12' = 0 => s12 = 0
      BY <2>2 DEF Stepped
    <3>2. Somewhere(o) /\ Arrived(o)
      BY DEF RepliesInv
    <3>3. Somewhere(o)'
      BY <3>1, <3>2 DEF Somewhere
    <3>4. Arrived(o)'
      BY <3>1, <3>2 DEF Arrived, Ordered, Below
    <3> QED BY <3>3, <3>4
  <2> QED BY <2>1, <2>2
<1>2. ASSUME s8' = s8 PROVE Remembers'
  <2> SUFFICES ASSUME NEW l \in s8 PROVE l.reply \in Spoken /\ Has(s5'[l.reply], l.part)
    BY <1>2 DEF Remembers
  <2>1. l.reply \in Spoken /\ Has(s5[l.reply], l.part)
    BY DEF RepliesInv, Remembers
  <2>2. CASE l.reply = r
    BY <2>1, <2>2 DEF Stepped, Starts, Has
  <2>3. CASE l.reply # r
    BY <2>1, <2>3 DEF Stepped
  <2> QED BY <2>1, <2>2, <2>3
<1> QED BY <1>1, <1>2

\* Who is where others count has none of them counting beside it.
LEMMA CountsOn ==
  ASSUME RepliesInv, NEW r \in Spoken, Stepped(r), s3'[r] # "counting",
         UNCHANGED <<s1, s2, s9, s10, s11>>
  PROVE  Tallied'
<1> SUFFICES ASSUME ~s11' PROVE
      /\ s1' <= s9' /\ (s2' => s10' >= Patience)
      /\ \A x \in Spoken : s3'[x] = "counting" => s6'[x] < s9'
      /\ \A x, o \in Spoken : s3'[x] = "counting" /\ s3'[o] = "counting" => x = o
  BY DEF Tallied
<1>1. /\ s1 <= s9 /\ (s2 => s10 >= Patience)
      /\ \A x \in Spoken : s3[x] = "counting" => s6[x] < s9
      /\ \A x, o \in Spoken : s3[x] = "counting" /\ s3[o] = "counting" => x = o
  BY DEF RepliesInv, Tallied
<1>2. \A x \in Spoken : s3'[x] = "counting" => s3[x] = "counting" /\ s6'[x] = s6[x]
  BY DEF Stepped
<1> QED BY <1>1, <1>2

\* An answer begins as a rich message, or as plain text.
LEMMA BeginInv ==
  ASSUME Replies!Parameters, RepliesInv, NEW r \in Spoken, Replies!Begin(r)
  PROVE  RepliesInv'
<1>1. s3[r] = "idle" /\ s3'[r] \in {"rich", "plain"}
      /\ s3' = [s3 EXCEPT ![r] = s3'[r]]
  BY DEF RepliesInv, RepliesTyped, Replies!Begin, Replies!Put
<1>2. UNCHANGED <<s1, s2, s4, s5, s6, s7, s8, s9, s10, s11, s12>>
  BY DEF Replies!Begin
<1>3. Stepped(r)
  BY <1>1, <1>2 DEF RepliesInv, RepliesTyped, Stepped, Starts, Stages
<1>4. Somewhere(r) /\ Arrived(r)
  BY DEF RepliesInv
<1>5. Somewhere(r)' /\ Arrived(r)'
  BY <1>1, <1>2, <1>4 DEF Somewhere, Arrived
<1>6. Tallied'
  BY <1>1, <1>2, <1>3, CountsOn
<1>7. RepliesTyped'
  BY <1>2, <1>3 DEF RepliesInv, RepliesTyped, Stepped
<1> QED BY <1>2, <1>3, <1>5, <1>6, <1>7, OthersStay DEF RepliesInv

\* A part arrives.
LEMMA ArrivesNext ==
  ASSUME RepliesInv, NEW r \in Spoken, NEW form \in {"rich", "plain"},
         s5' = [s5 EXCEPT ![r] = Append(s5[r], <<s4[r], form>>)],
         s4'[r] \in {s4[r], s4[r] + 1}, s7'[r] \in {s7[r], s4[r]}, s12' \in Nat,
         s12' = 0 => s12 = 0 /\ s4'[r] = s4[r] + 1
  PROVE  /\ s5' \in [Spoken -> Seq(Piece)] /\ s5'[r] # <<>> /\ \A o \in Spoken \ {r} : s5'[o] = s5[o]
         /\ Starts(s5[r], s5'[r]) /\ Arrived(r)'
<1>1. s5[r] \in Seq(Piece) /\ s4[r] \in Nat \ {0} /\ s12 \in Nat
  BY DEF RepliesInv, RepliesTyped
<1>2. Ordered(s5[r], s12) /\ Below(s5[r], s4[r], s12) /\ (s7[r] # 0 => Has(s5[r], s7[r]))
  BY DEF RepliesInv, Arrived
<1>3. s5'[r] = Append(s5[r], <<s4[r], form>>) /\ \A o \in Spoken \ {r} : s5'[o] = s5[o]
  BY DEF RepliesInv, RepliesTyped
<1>4. Ordered(s5[r], s12') /\ Below(s5[r], s4[r], s12')
  BY <1>2 DEF Ordered, Below
<1>5. /\ s5'[r] \in Seq(Piece) /\ Ordered(s5'[r], s12') /\ Below(s5'[r], s4'[r], s12')
      /\ Starts(s5[r], s5'[r]) /\ s5'[r] # <<>> /\ Has(s5'[r], s4[r])
  <2>1. s4'[r] \in {s4[r], s4[r] + 1} /\ (s12' = 0 => s4'[r] = s4[r] + 1)
    OBVIOUS
  <2> DEFINE p == s5'[r]  q == s5[r]  n == s4[r]  m == s4'[r]  d == s12'
  <2>2. /\ q \in Seq(Piece) /\ n \in Nat \ {0} /\ d \in Nat /\ m \in {n, n + 1} /\ (d = 0 => m = n + 1)
        /\ Ordered(q, d) /\ Below(q, n, d) /\ p = Append(q, <<n, form>>)
    BY <1>1, <1>3, <1>4, <2>1
  <2> HIDE DEF p, q, n, m, d
  <2>3. p \in Seq(Piece) /\ Ordered(p, d) /\ Below(p, m, d) /\ Starts(q, p) /\ p # <<>> /\ Has(p, n)
    BY <2>2, OneMore
  <2> QED BY <2>3 DEF p, q, n, m, d
<1>6. s5' \in [Spoken -> Seq(Piece)]
  <2> DEFINE p == Append(s5[r], <<s4[r], form>>)
  <2>1. p \in Seq(Piece)
    BY <1>3, <1>5
  <2> HIDE DEF p
  <2>2. s5' = [s5 EXCEPT ![r] = p]
    BY DEF p
  <2> QED BY <2>1, <2>2 DEF RepliesInv, RepliesTyped
<1>7. s7'[r] # 0 => Has(s5'[r], s7'[r])
  BY <1>2, <1>5 DEF Has, Starts
<1> QED BY <1>3, <1>5, <1>6, <1>7 DEF Arrived

\* A rich part arrives; the last one ends the count.
LEMMA RichArrivesInv ==
  ASSUME Replies!Parameters, RepliesInv, NEW r \in Spoken, Replies!RichArrives(r)
  PROVE  RepliesInv'
<1>0. /\ s3 \in [Spoken -> Stages] /\ s4 \in [Spoken -> Nat \ {0}] /\ s5 \in [Spoken -> Seq(Piece)]
      /\ s6 \in [Spoken -> Nat] /\ s7 \in [Spoken -> Nat]
      /\ s1 \in Nat /\ s2 \in BOOLEAN /\ s9 \in Nat /\ s10 \in Nat /\ s11 \in BOOLEAN /\ s12 \in Nat
      /\ Chunks[r] \in Nat
  BY DEF RepliesInv, RepliesTyped, Replies!Parameters
<1>1. /\ s3[r] = "rich" /\ s5' = [s5 EXCEPT ![r] = Append(s5[r], <<s4[r], "rich">>)]
      /\ s7' = [s7 EXCEPT ![r] = s4[r]] /\ s4' = [s4 EXCEPT ![r] = s4[r] + 1]
      /\ UNCHANGED <<s6, s8, s10, s12>>
      /\ \/ s4[r] < Chunks[r] /\ UNCHANGED <<s1, s2, s3, s9, s11>>
         \/ /\ ~(s4[r] < Chunks[r]) /\ s1' = 0 /\ s2' = FALSE /\ s9' = 0
            /\ s3' = [s3 EXCEPT ![r] = "record"] /\ s11' = (s11 \/ Replies!Counting(r))
  BY DEF Replies!RichArrives, Replies!Put, Replies!Arrives, Replies!Hears, Replies!Cleared
<1>2. Somewhere(r) /\ Arrived(r)
  BY DEF RepliesInv
<1>3. /\ s5' \in [Spoken -> Seq(Piece)] /\ s5'[r] # <<>> /\ \A o \in Spoken \ {r} : s5'[o] = s5[o]
      /\ Starts(s5[r], s5'[r])
      /\ Arrived(r)'
  <2>1. s4'[r] = s4[r] + 1 /\ s7'[r] = s4[r] /\ s12' = s12
    BY <1>0, <1>1
  <2> QED BY <1>0, <1>1, <2>1, ArrivesNext
<1>4. /\ s3' \in [Spoken -> Stages] /\ s4' \in [Spoken -> Nat \ {0}]
      /\ s6' \in [Spoken -> Nat] /\ s7' \in [Spoken -> Nat]
      /\ \A o \in Spoken \ {r} : s3'[o] = s3[o] /\ s4'[o] = s4[o] /\ s6'[o] = s6[o] /\ s7'[o] = s7[o]
  <2>1. s3' \in [Spoken -> Stages] /\ \A o \in Spoken \ {r} : s3'[o] = s3[o]
    <3>1. s3' = s3 \/ s3' = [s3 EXCEPT ![r] = "record"]
      BY <1>1
    <3> QED BY <1>0, <3>1 DEF Stages
  <2>2. s4' \in [Spoken -> Nat \ {0}] /\ \A o \in Spoken \ {r} : s4'[o] = s4[o]
    <3>1. s4[r] + 1 \in Nat \ {0}
      BY <1>0
    <3> QED BY <1>0, <1>1, <3>1
  <2> QED BY <1>0, <1>1, <2>1, <2>2
<1>5. Stepped(r)
  BY <1>0, <1>1, <1>3, <1>4 DEF Stepped
<1>6. Somewhere(r)'
  <2>1. s4'[r] = s4[r] + 1 /\ s4[r] \in Nat \ {0} /\ s7'[r] = s4[r] /\ s4[r] <= Chunks[r]
    BY <1>0, <1>1, <1>2 DEF Somewhere
  <2>2. CASE s4[r] < Chunks[r] /\ s3' = s3
    BY <1>0, <1>1, <2>1, <2>2 DEF Somewhere
  <2>3. CASE s3'[r] = "record"
    BY <1>0, <2>1, <2>3 DEF Somewhere
  <2> QED BY <1>0, <1>1, <2>2, <2>3
<1>7. Tallied'
  <2>1. CASE UNCHANGED <<s1, s2, s3, s9, s11>>
    BY <1>1, <1>5, <2>1, CountsOn
  <2>2. CASE s1' = 0 /\ s2' = FALSE /\ s9' = 0 /\ s3' = [s3 EXCEPT ![r] = "record"]
             /\ s11' = (s11 \/ Replies!Counting(r))
    <3>1. s3'[r] = "record" /\ \A o \in Spoken \ {r} : s3'[o] = s3[o]
      BY <1>0, <2>2
    <3>2. ~s11' => \A o \in Spoken : s3'[o] # "counting"
      BY <2>2, <3>1 DEF Replies!Counting
    <3> QED BY <2>2, <3>2 DEF Tallied
  <2> QED BY <1>1, <2>1, <2>2
<1>8. RepliesTyped'
  <2>1. s1' \in Nat /\ s2' \in BOOLEAN /\ s9' \in Nat /\ s10' \in Nat /\ s11' \in BOOLEAN /\ s12' \in Nat
    <3>1. s11' \in BOOLEAN
      BY <1>0, <1>1, Zenon
    <3>2. s1' \in Nat /\ s9' \in Nat
      BY <1>0, <1>1
    <3>3. s2' \in BOOLEAN
      BY <1>0, <1>1, Zenon
    <3> QED BY <1>0, <1>1, <3>1, <3>2, <3>3
  <2> QED BY <1>3, <1>4, <2>1 DEF RepliesTyped
<1> QED BY <1>1, <1>3, <1>5, <1>6, <1>7, <1>8, OthersStay DEF RepliesInv

\* A rich part fails, though it may have arrived.
LEMMA RichFailsInv ==
  ASSUME Replies!Parameters, RepliesInv, NEW r \in Spoken, Replies!RichFails(r)
  PROVE  RepliesInv'
<1>0. /\ s3 \in [Spoken -> Stages] /\ s4 \in [Spoken -> Nat \ {0}] /\ s5 \in [Spoken -> Seq(Piece)]
      /\ s6 \in [Spoken -> Nat] /\ s7 \in [Spoken -> Nat]
      /\ s1 \in Nat /\ s2 \in BOOLEAN /\ s9 \in Nat /\ s10 \in Nat /\ s11 \in BOOLEAN /\ s12 \in Nat
      /\ Chunks[r] \in Nat
  BY DEF RepliesInv, RepliesTyped, Replies!Parameters
<1>1. Somewhere(r) /\ Arrived(r)
  BY DEF RepliesInv
<1>2. /\ s3[r] = "rich" /\ s3' = [s3 EXCEPT ![r] = "counting"] /\ s6' = [s6 EXCEPT ![r] = s1]
      /\ s9' = s9 + 1 /\ s11' = (s11 \/ Replies!Counting(r))
      /\ UNCHANGED <<s1, s2, s4, s7, s8, s10>>
      /\ \/ UNCHANGED <<s5, s12>>
         \/ s12' = s12 + 1 /\ s5' = [s5 EXCEPT ![r] = Append(s5[r], <<s4[r], "rich">>)]
  BY DEF Replies!RichFails, Replies!Put, Replies!Arrives
<1>3. /\ s5' \in [Spoken -> Seq(Piece)] /\ \A o \in Spoken \ {r} : s5'[o] = s5[o]
      /\ Starts(s5[r], s5'[r]) /\ Arrived(r)' /\ s12' \in Nat /\ (s12' = 0 => s12 = 0)
  <2>1. CASE UNCHANGED <<s5, s12>>
    BY <1>0, <1>1, <1>2, <2>1 DEF Starts, Arrived, Ordered, Below
  <2>2. CASE s12' = s12 + 1 /\ s5' = [s5 EXCEPT ![r] = Append(s5[r], <<s4[r], "rich">>)]
    <3>1. s12' \in Nat /\ s12' # 0 /\ s4'[r] = s4[r] /\ s7'[r] = s7[r]
      BY <1>0, <1>2, <2>2
    <3> QED BY <2>2, <3>1, ArrivesNext
  <2> QED BY <1>2, <2>1, <2>2
<1>4. /\ s3' \in [Spoken -> Stages] /\ s6' \in [Spoken -> Nat] /\ s3'[r] = "counting" /\ s6'[r] = s1
      /\ \A o \in Spoken \ {r} : s3'[o] = s3[o] /\ s6'[o] = s6[o]
  BY <1>0, <1>2 DEF Stages
<1>5. Stepped(r)
  BY <1>0, <1>2, <1>3, <1>4 DEF Stepped
<1>6. Somewhere(r)'
  BY <1>0, <1>1, <1>2, <1>4 DEF Somewhere
<1>7. Tallied'
  <2> SUFFICES ASSUME ~s11' PROVE
        /\ s1' <= s9' /\ (s2' => s10' >= Patience)
        /\ \A x \in Spoken : s3'[x] = "counting" => s6'[x] < s9'
        /\ \A x, o \in Spoken : s3'[x] = "counting" /\ s3'[o] = "counting" => x = o
    BY DEF Tallied
  <2>1. ~s11 /\ \A o \in Spoken \ {r} : s3'[o] # "counting"
    BY <1>2, <1>4 DEF Replies!Counting
  <2>2. s1 <= s9 /\ (s2 => s10 >= Patience)
    BY <2>1 DEF RepliesInv, Tallied
  <2> QED BY <1>0, <1>2, <1>4, <2>1, <2>2
<1>8. RepliesTyped'
  <2>1. s11' \in BOOLEAN
    BY <1>0, <1>2, Zenon
  <2>2. s9' \in Nat
    BY <1>0, <1>2
  <2> QED BY <1>0, <1>2, <1>3, <1>4, <2>1, <2>2 DEF RepliesTyped
<1> QED BY <1>2, <1>3, <1>5, <1>6, <1>7, <1>8, OthersStay DEF RepliesInv

\* The failure is counted, and what is left goes out as plain text.
LEMMA CountInv ==
  ASSUME Replies!Parameters, RepliesInv, NEW r \in Spoken, Replies!Count(r)
  PROVE  RepliesInv'
<1>0. /\ s3 \in [Spoken -> Stages] /\ s4 \in [Spoken -> Nat \ {0}] /\ s5 \in [Spoken -> Seq(Piece)]
      /\ s6 \in [Spoken -> Nat] /\ s7 \in [Spoken -> Nat]
      /\ s1 \in Nat /\ s2 \in BOOLEAN /\ s9 \in Nat /\ s10 \in Nat /\ s11 \in BOOLEAN /\ s12 \in Nat
      /\ Chunks[r] \in Nat
  BY DEF RepliesInv, RepliesTyped, Replies!Parameters
<1>1. Somewhere(r) /\ Arrived(r)
  BY DEF RepliesInv
<1>2. /\ s3[r] = "counting" /\ s1' = s6[r] + 1
      /\ s3' = [s3 EXCEPT ![r] = IF s4[r] = 1 THEN "plain" ELSE "tail"]
      /\ s4' = [s4 EXCEPT ![r] = s4[r]]
      /\ UNCHANGED <<s5, s6, s7, s8, s9, s11, s12>>
      /\ IF s1' >= Patience THEN s2' = TRUE /\ s10' = s9 ELSE UNCHANGED <<s2, s10>>
  BY DEF Replies!Count, Replies!Put, Replies!Rest
<1>3. s4' = s4
  BY <1>0, <1>2
<1>4. /\ s3' \in [Spoken -> Stages] /\ s3'[r] = IF s4[r] = 1 THEN "plain" ELSE "tail"
      /\ \A o \in Spoken \ {r} : s3'[o] = s3[o]
  <2>1. (IF s4[r] = 1 THEN "plain" ELSE "tail") \in Stages
    BY DEF Stages
  <2> QED BY <1>0, <1>2, <2>1
<1>5. Stepped(r)
  BY <1>0, <1>2, <1>3, <1>4 DEF Stepped, Starts
<1>6. Somewhere(r)'
  BY <1>0, <1>1, <1>2, <1>3, <1>4 DEF Somewhere
<1>7. Tallied'
  <2> SUFFICES ASSUME ~s11' PROVE
        /\ s1' <= s9' /\ (s2' => s10' >= Patience)
        /\ \A x \in Spoken : s3'[x] = "counting" => s6'[x] < s9'
        /\ \A x, o \in Spoken : s3'[x] = "counting" /\ s3'[o] = "counting" => x = o
    BY DEF Tallied
  <2>1. /\ s1 <= s9 /\ (s2 => s10 >= Patience)
        /\ \A x \in Spoken : s3[x] = "counting" => s6[x] < s9
        /\ \A x, o \in Spoken : s3[x] = "counting" /\ s3[o] = "counting" => x = o
    BY <1>2 DEF RepliesInv, Tallied
  <2>2. \A x \in Spoken : s3'[x] = "counting" => s3[x] = "counting"
    BY <1>4
  <2>3. s6[r] \in Nat /\ s6[r] < s9 /\ s9' = s9 /\ s6' = s6
    BY <1>0, <1>2, <2>1
  <2>4. s1' <= s9'
    BY <1>0, <1>2, <2>3
  <2>5. s2' => s10' >= Patience
    <3>1. CASE s1' >= Patience
      <4>1. s10' = s9 /\ Patience \in Nat /\ s1' \in Nat
        BY <1>0, <1>2, <3>1 DEF Replies!Parameters
      <4> QED BY <1>0, <2>3, <2>4, <3>1, <4>1
    <3>2. CASE ~(s1' >= Patience)
      BY <1>2, <2>1, <3>2
    <3> QED BY <3>1, <3>2
  <2> QED BY <2>1, <2>2, <2>3, <2>4, <2>5
<1>8. RepliesTyped'
  <2>1. s1' \in Nat /\ s10' \in Nat
    BY <1>0, <1>2
  <2>2. s2' \in BOOLEAN
    BY <1>0, <1>2, Zenon
  <2> QED BY <1>0, <1>2, <1>3, <1>4, <2>1, <2>2 DEF RepliesTyped
<1>9. Arrived(r)'
  BY <1>1, <1>2, <1>3 DEF Arrived
<1> QED BY <1>2, <1>5, <1>6, <1>7, <1>8, <1>9, OthersStay DEF RepliesInv

\* A plain part arrives, or arrives twice.
LEMMA PlainArrivesInv ==
  ASSUME Replies!Parameters, RepliesInv, NEW r \in Spoken, Replies!PlainArrives(r)
  PROVE  RepliesInv'
<1>0. /\ s3 \in [Spoken -> Stages] /\ s4 \in [Spoken -> Nat \ {0}] /\ s5 \in [Spoken -> Seq(Piece)]
      /\ s6 \in [Spoken -> Nat] /\ s7 \in [Spoken -> Nat]
      /\ s1 \in Nat /\ s2 \in BOOLEAN /\ s9 \in Nat /\ s10 \in Nat /\ s11 \in BOOLEAN /\ s12 \in Nat
      /\ Chunks[r] \in Nat
  BY DEF RepliesInv, RepliesTyped, Replies!Parameters
<1>1. Somewhere(r) /\ Arrived(r)
  BY DEF RepliesInv
<1>2. /\ s3[r] = "plain" /\ s4' = [s4 EXCEPT ![r] = s4[r] + 1] /\ s7' = [s7 EXCEPT ![r] = s4[r]]
      /\ s3' = [s3 EXCEPT ![r] = IF s4[r] = Chunks[r] THEN "record" ELSE "plain"]
      /\ UNCHANGED <<s1, s2, s6, s8, s9, s10, s11>>
      /\ \/ s5' = [s5 EXCEPT ![r] = Append(s5[r], <<s4[r], "plain">>)] /\ s12' = s12
         \/ /\ s12' = s12 + 1
            /\ s5' = [s5 EXCEPT ![r] = s5[r] \o <<<<s4[r], "plain">>, <<s4[r], "plain">>>>]
  BY DEF Replies!PlainArrives, Replies!Put, Replies!Arrives, Replies!Hears, Replies!Onward
<1>4. /\ s3' \in [Spoken -> Stages] /\ s4' \in [Spoken -> Nat \ {0}] /\ s7' \in [Spoken -> Nat]
      /\ \A o \in Spoken \ {r} : s3'[o] = s3[o] /\ s4'[o] = s4[o] /\ s7'[o] = s7[o]
      /\ s4'[r] = s4[r] + 1 /\ s7'[r] = s4[r] /\ s3'[r] = IF s4[r] = Chunks[r] THEN "record" ELSE "plain"
  <2>1. (IF s4[r] = Chunks[r] THEN "record" ELSE "plain") \in Stages
    BY DEF Stages
  <2>2. s4[r] + 1 \in Nat \ {0} /\ s4[r] \in Nat
    BY <1>0
  <2> QED BY <1>0, <1>2, <2>1, <2>2
<1>3. /\ s5' \in [Spoken -> Seq(Piece)] /\ \A o \in Spoken \ {r} : s5'[o] = s5[o]
      /\ Starts(s5[r], s5'[r]) /\ Arrived(r)' /\ s12' \in Nat /\ (s12' = 0 => s12 = 0)
  <2>1. CASE s5' = [s5 EXCEPT ![r] = Append(s5[r], <<s4[r], "plain">>)] /\ s12' = s12
    BY <1>0, <1>4, <2>1, ArrivesNext
  <2>2. CASE s12' = s12 + 1 /\ s5' = [s5 EXCEPT ![r] = s5[r] \o <<<<s4[r], "plain">>, <<s4[r], "plain">>>>]
    <3> DEFINE q == s5[r]
               n == s4[r]
               p == Append(q, <<n, "plain">>)
               t == Append(p, <<n, "plain">>)
               d == s12'
    <3>1. s12' \in Nat /\ d # 0 /\ d \in Nat /\ n \in Nat \ {0} /\ q \in Seq(Piece)
      BY <1>0, <2>2
    <3>2. s5'[r] = t /\ \A o \in Spoken \ {r} : s5'[o] = s5[o]
      <4>1. <<n, "plain">> \in Piece
        BY <3>1 DEF Piece
      <4>2. q \o <<<<n, "plain">>, <<n, "plain">>>> = t
        BY <3>1, <4>1
      <4>3. s5'[r] = q \o <<<<n, "plain">>, <<n, "plain">>>> /\ \A o \in Spoken \ {r} : s5'[o] = s5[o]
        BY <1>0, <2>2
      <4> QED BY <4>2, <4>3
    <3>3. Ordered(q, d) /\ Below(q, n, d)
      BY <1>1, <3>1 DEF Arrived, Ordered, Below
    <3> HIDE DEF q, n, d
    <3>4. p \in Seq(Piece) /\ Ordered(p, d) /\ Below(p, n, d) /\ Starts(q, p)
      BY <3>1, <3>3, OneMore
    <3> HIDE DEF p
    <3>5. t \in Seq(Piece) /\ Ordered(t, d) /\ Below(t, n + 1, d) /\ Starts(p, t) /\ Has(t, n)
      BY <3>1, <3>4, OneMore
    <3> HIDE DEF t
    <3>6. Starts(q, t)
      BY <3>4, <3>5 DEF Starts
    <3>7. s5' \in [Spoken -> Seq(Piece)]
      BY <1>0, <2>2, <3>2, <3>5
    <3>8. Arrived(r)'
      BY <1>4, <3>2, <3>5 DEF Arrived, n, d
    <3>9. s12' = 0 => s12 = 0
      BY <3>1 DEF d
    <3> QED BY <3>1, <3>2, <3>6, <3>7, <3>8, <3>9 DEF q
  <2> QED BY <1>2, <2>1, <2>2
<1>5. Stepped(r)
  BY <1>0, <1>2, <1>3, <1>4 DEF Stepped
<1>6. Somewhere(r)'
  <2>1. s4[r] <= Chunks[r] /\ s4[r] \in Nat \ {0}
    BY <1>0, <1>1, <1>2 DEF Somewhere
  <2> QED BY <1>0, <1>4, <2>1 DEF Somewhere
<1>7. Tallied'
  BY <1>2, <1>4, <1>5, CountsOn
<1>8. RepliesTyped'
  BY <1>0, <1>2, <1>3, <1>4 DEF RepliesTyped
<1> QED BY <1>2, <1>3, <1>5, <1>6, <1>7, <1>8, OthersStay DEF RepliesInv

\* A plain part fails twice, and the next one is tried.
LEMMA PlainFailsInv ==
  ASSUME Replies!Parameters, RepliesInv, NEW r \in Spoken, Replies!PlainFails(r)
  PROVE  RepliesInv'
<1>0. /\ s3 \in [Spoken -> Stages] /\ s4 \in [Spoken -> Nat \ {0}] /\ s5 \in [Spoken -> Seq(Piece)]
      /\ s6 \in [Spoken -> Nat] /\ s7 \in [Spoken -> Nat]
      /\ s1 \in Nat /\ s2 \in BOOLEAN /\ s9 \in Nat /\ s10 \in Nat /\ s11 \in BOOLEAN /\ s12 \in Nat
      /\ Chunks[r] \in Nat
  BY DEF RepliesInv, RepliesTyped, Replies!Parameters
<1>1. Somewhere(r) /\ Arrived(r)
  BY DEF RepliesInv
<1> DEFINE to == IF s4[r] < Chunks[r] THEN "plain" ELSE IF s7[r] = 0 THEN "done" ELSE "record"
<1>2. /\ s3[r] = "plain" /\ s4' = [s4 EXCEPT ![r] = s4[r] + 1] /\ s3' = [s3 EXCEPT ![r] = to]
      /\ UNCHANGED <<s1, s2, s5, s6, s7, s8, s9, s10, s11, s12>>
  BY DEF Replies!PlainFails, Replies!Put, Replies!Skips, Replies!Onward
<1>3. to \in Stages
  BY DEF Stages
<1> HIDE DEF to
<1>4. /\ s3' \in [Spoken -> Stages] /\ s4' \in [Spoken -> Nat \ {0}]
      /\ \A o \in Spoken \ {r} : s3'[o] = s3[o] /\ s4'[o] = s4[o]
      /\ s4'[r] = s4[r] + 1 /\ s3'[r] = to
  <2>1. s4[r] + 1 \in Nat \ {0}
    BY <1>0
  <2> QED BY <1>0, <1>2, <1>3, <2>1
<1>5. Stepped(r)
  BY <1>0, <1>2, <1>4 DEF Stepped, Starts
<1>6. Somewhere(r)'
  <2>1. s4[r] <= Chunks[r] /\ s4[r] \in Nat \ {0}
    BY <1>0, <1>1, <1>2 DEF Somewhere
  <2> QED BY <1>0, <1>2, <1>4, <2>1 DEF Somewhere, to
<1>7. Tallied'
  <2>1. s3'[r] # "counting"
    BY <1>4 DEF to
  <2> QED BY <1>2, <1>5, <2>1, CountsOn
<1>8. RepliesTyped'
  BY <1>0, <1>2, <1>4 DEF RepliesTyped
<1>9. Arrived(r)'
  <2>1. Ordered(s5'[r], s12') /\ (s7'[r] # 0 => Has(s5'[r], s7'[r]))
    BY <1>1, <1>2 DEF Arrived
  <2>2. Below(s5'[r], s4'[r], s12')
    <3> SUFFICES ASSUME NEW i \in DOMAIN s5[r]
                 PROVE  s5[r][i][1] <= s4[r] + 1 /\ (s12 = 0 => s5[r][i][1] < s4[r] + 1)
      BY <1>2, <1>4 DEF Below
    <3>1. s5[r][i] \in Piece /\ s5[r][i][1] <= s4[r] /\ (s12 = 0 => s5[r][i][1] < s4[r])
      BY <1>0, <1>1 DEF Arrived, Below
    <3>2. s5[r][i][1] \in Nat /\ s4[r] \in Nat
      BY <1>0, <3>1 DEF Piece
    <3> QED BY <3>1, <3>2
  <2> QED BY <2>1, <2>2 DEF Arrived
<1> QED BY <1>2, <1>5, <1>6, <1>7, <1>8, <1>9, OthersStay DEF RepliesInv

\* A part of the rest arrives.
LEMMA TailArrivesInv ==
  ASSUME Replies!Parameters, RepliesInv, NEW r \in Spoken, Replies!TailArrives(r)
  PROVE  RepliesInv'
<1>0. /\ s3 \in [Spoken -> Stages] /\ s4 \in [Spoken -> Nat \ {0}] /\ s5 \in [Spoken -> Seq(Piece)]
      /\ s6 \in [Spoken -> Nat] /\ s7 \in [Spoken -> Nat]
      /\ s1 \in Nat /\ s2 \in BOOLEAN /\ s9 \in Nat /\ s10 \in Nat /\ s11 \in BOOLEAN /\ s12 \in Nat
      /\ Chunks[r] \in Nat
  BY DEF RepliesInv, RepliesTyped, Replies!Parameters
<1>1. Somewhere(r) /\ Arrived(r)
  BY DEF RepliesInv
<1>2. /\ s3[r] = "tail" /\ s4' = [s4 EXCEPT ![r] = s4[r] + 1]
      /\ s5' = [s5 EXCEPT ![r] = Append(s5[r], <<s4[r], "plain">>)]
      /\ s3' = [s3 EXCEPT ![r] = IF s4[r] = Chunks[r] THEN "record" ELSE "tail"]
      /\ UNCHANGED <<s1, s2, s6, s7, s8, s9, s10, s11, s12>>
  BY DEF Replies!TailArrives, Replies!Put, Replies!Arrives, Replies!Onward
<1>4. /\ s3' \in [Spoken -> Stages] /\ s4' \in [Spoken -> Nat \ {0}]
      /\ \A o \in Spoken \ {r} : s3'[o] = s3[o] /\ s4'[o] = s4[o]
      /\ s4'[r] = s4[r] + 1 /\ s3'[r] = IF s4[r] = Chunks[r] THEN "record" ELSE "tail"
  <2>1. (IF s4[r] = Chunks[r] THEN "record" ELSE "tail") \in Stages
    BY DEF Stages
  <2>2. s4[r] + 1 \in Nat \ {0}
    BY <1>0
  <2> QED BY <1>0, <1>2, <2>1, <2>2
<1>3. /\ s5' \in [Spoken -> Seq(Piece)] /\ s5'[r] # <<>> /\ \A o \in Spoken \ {r} : s5'[o] = s5[o]
      /\ Starts(s5[r], s5'[r]) /\ Arrived(r)'
  BY <1>0, <1>2, <1>4, ArrivesNext
<1>5. Stepped(r)
  BY <1>0, <1>2, <1>3, <1>4 DEF Stepped
<1>6. Somewhere(r)'
  <2>1. s4[r] <= Chunks[r] /\ s4[r] \in Nat \ {0} /\ s7[r] # 0 /\ s7' = s7
    BY <1>0, <1>1, <1>2 DEF Somewhere
  <2> QED BY <1>0, <1>4, <2>1 DEF Somewhere
<1>7. Tallied'
  <2>1. s3'[r] # "counting"
    BY <1>4
  <2> QED BY <1>2, <1>5, <2>1, CountsOn
<1>8. RepliesTyped'
  BY <1>0, <1>2, <1>3, <1>4 DEF RepliesTyped
<1> QED BY <1>2, <1>3, <1>5, <1>6, <1>7, <1>8, OthersStay DEF RepliesInv

\* A part of the rest fails, though it may have arrived, which ends the answer.
LEMMA TailFailsInv ==
  ASSUME Replies!Parameters, RepliesInv, NEW r \in Spoken, Replies!TailFails(r)
  PROVE  RepliesInv'
<1>0. /\ s3 \in [Spoken -> Stages] /\ s4 \in [Spoken -> Nat \ {0}] /\ s5 \in [Spoken -> Seq(Piece)]
      /\ s6 \in [Spoken -> Nat] /\ s7 \in [Spoken -> Nat]
      /\ s1 \in Nat /\ s2 \in BOOLEAN /\ s9 \in Nat /\ s10 \in Nat /\ s11 \in BOOLEAN /\ s12 \in Nat
      /\ Chunks[r] \in Nat
  BY DEF RepliesInv, RepliesTyped, Replies!Parameters
<1>1. Somewhere(r) /\ Arrived(r)
  BY DEF RepliesInv
<1>2. /\ s3[r] = "tail" /\ s3' = [s3 EXCEPT ![r] = "record"]
      /\ UNCHANGED <<s1, s2, s4, s6, s7, s8, s9, s10, s11>>
      /\ \/ UNCHANGED <<s5, s12>>
         \/ s12' = s12 + 1 /\ s5' = [s5 EXCEPT ![r] = Append(s5[r], <<s4[r], "plain">>)]
  BY DEF Replies!TailFails, Replies!Put, Replies!Arrives
<1>3. /\ s5' \in [Spoken -> Seq(Piece)] /\ \A o \in Spoken \ {r} : s5'[o] = s5[o]
      /\ Starts(s5[r], s5'[r]) /\ Arrived(r)' /\ s12' \in Nat /\ (s12' = 0 => s12 = 0)
  <2>1. CASE UNCHANGED <<s5, s12>>
    BY <1>0, <1>1, <1>2, <2>1 DEF Starts, Arrived, Ordered, Below
  <2>2. CASE s12' = s12 + 1 /\ s5' = [s5 EXCEPT ![r] = Append(s5[r], <<s4[r], "plain">>)]
    <3>1. s12' \in Nat /\ s12' # 0 /\ s4'[r] = s4[r] /\ s7'[r] = s7[r]
      BY <1>0, <1>2, <2>2
    <3> QED BY <2>2, <3>1, ArrivesNext
  <2> QED BY <1>2, <2>1, <2>2
<1>4. /\ s3' \in [Spoken -> Stages] /\ s3'[r] = "record" /\ \A o \in Spoken \ {r} : s3'[o] = s3[o]
  BY <1>0, <1>2 DEF Stages
<1>5. Stepped(r)
  BY <1>0, <1>2, <1>3, <1>4 DEF Stepped
<1>6. Somewhere(r)'
  BY <1>0, <1>1, <1>2, <1>4 DEF Somewhere
<1>7. Tallied'
  BY <1>2, <1>4, <1>5, CountsOn
<1>8. RepliesTyped'
  BY <1>0, <1>2, <1>3, <1>4 DEF RepliesTyped
<1> QED BY <1>2, <1>3, <1>5, <1>6, <1>7, <1>8, OthersStay DEF RepliesInv

\* The part a follow-up answers is remembered: one that is known to have arrived.
LEMMA RecordInv ==
  ASSUME Replies!Parameters, RepliesInv, NEW r \in Spoken, Replies!Record(r)
  PROVE  RepliesInv'
<1>0. /\ s3 \in [Spoken -> Stages] /\ s4 \in [Spoken -> Nat \ {0}] /\ s5 \in [Spoken -> Seq(Piece)]
      /\ s6 \in [Spoken -> Nat] /\ s7 \in [Spoken -> Nat]
      /\ s1 \in Nat /\ s2 \in BOOLEAN /\ s9 \in Nat /\ s10 \in Nat /\ s11 \in BOOLEAN /\ s12 \in Nat
      /\ Chunks[r] \in Nat
  BY DEF RepliesInv, RepliesTyped, Replies!Parameters
<1>1. Somewhere(r) /\ Arrived(r)
  BY DEF RepliesInv
<1>2. /\ s3[r] = "record" /\ s3' = [s3 EXCEPT ![r] = "done"] /\ s8' = {[reply |-> r, part |-> s7[r]]}
      /\ UNCHANGED <<s1, s2, s4, s5, s6, s7, s9, s10, s11, s12>>
  BY DEF Replies!Record, Replies!Put, Replies!Answered
<1>4. /\ s3' \in [Spoken -> Stages] /\ s3'[r] = "done" /\ \A o \in Spoken \ {r} : s3'[o] = s3[o]
  BY <1>0, <1>2 DEF Stages
<1>5. Stepped(r)
  BY <1>0, <1>2, <1>4 DEF Stepped, Starts
<1>3. Has(s5[r], s7[r])
  BY <1>1, <1>2 DEF Somewhere, Arrived
<1>6. Somewhere(r)'
  <2>1. s5[r] # <<>>
    BY <1>3 DEF Has
  <2> QED BY <1>0, <1>1, <1>2, <1>4, <2>1 DEF Somewhere
<1>7. Tallied'
  BY <1>2, <1>4, <1>5, CountsOn
<1>8. RepliesTyped'
  BY <1>0, <1>2, <1>4 DEF RepliesTyped
<1>9. Arrived(r)'
  BY <1>1, <1>2 DEF Arrived
<1>10. Remembers'
  BY <1>2, <1>3 DEF Remembers
<1> QED BY <1>5, <1>6, <1>7, <1>8, <1>9, <1>10, OthersStay DEF RepliesInv

\* Entries of the cache expire.
LEMMA RepliesExpire == ASSUME RepliesInv, Replies!Expire PROVE RepliesInv'
<1>1. /\ UNCHANGED <<s3, s4, s5, s6, s7, s9, s10, s11, s12>>
      /\ (s1' = s1 \/ s1' = 0) /\ (s2' = s2 \/ s2' = FALSE) /\ (s8' = s8 \/ s8' = {})
  BY DEF Replies!Expire
<1>2. RepliesTyped'
  <2>1. RepliesTyped
    BY DEF RepliesInv
  <2>2. s1' \in Nat
    BY <1>1, <2>1 DEF RepliesTyped
  <2>3. s2' \in BOOLEAN
    BY <1>1, <2>1, Zenon DEF RepliesTyped
  <2> QED BY <1>1, <2>1, <2>2, <2>3 DEF RepliesTyped
<1>3. Tallied'
  <2>1. s1 \in Nat /\ s9 \in Nat
    BY DEF RepliesInv, RepliesTyped
  <2> QED BY <1>1, <2>1 DEF RepliesInv, Tallied
<1>4. Remembers'
  BY <1>1 DEF RepliesInv, Remembers
<1>5. \A r \in Spoken : Somewhere(r)' /\ Arrived(r)'
  BY <1>1 DEF RepliesInv, Somewhere, Arrived
<1> QED BY <1>2, <1>3, <1>4, <1>5 DEF RepliesInv

\* Every step keeps it.
LEMMA RepliesNext ==
  ASSUME Replies!Parameters, RepliesInv, [Replies!Next]_(Replies!vars)
  PROVE  RepliesInv'
<1>1. CASE UNCHANGED Replies!vars
  BY <1>1 DEF Replies!vars, RepliesInv, RepliesTyped, Tallied, Remembers, Somewhere, Arrived
<1>2. CASE Replies!Next
  BY <1>2, BeginInv, RichArrivesInv, RichFailsInv, CountInv, PlainArrivesInv, PlainFailsInv,
     TailArrivesInv, TailFailsInv, RecordInv, RepliesExpire DEF Replies!Next
<1> QED BY <1>1, <1>2

\* What the invariant says of answers.
LEMMA RepliesMeans ==
  ASSUME Replies!Parameters, RepliesInv
  PROVE  /\ Replies!TypeOK /\ Replies!InOrderOnce /\ Replies!AllTried
         /\ Replies!PauseEarned /\ Replies!RememberedArrived
<1>1. Replies!TypeOK
  <2>1. \A r \in Spoken : s4[r] \in Nat \ {0} /\ s4[r] <= Chunks[r] + 1 /\ Chunks[r] \in Nat
    BY DEF RepliesInv, RepliesTyped, Somewhere, Replies!Parameters
  <2>2. ~s11 => s1 <= s9
    BY DEF RepliesInv, Tallied
  <2> QED BY <2>1, <2>2 DEF Replies!TypeOK
<1>2. \A r \in Spoken : DOMAIN Replies!PartsOf(r) = DOMAIN s5[r]
                        /\ \A i \in DOMAIN s5[r] : Replies!PartsOf(r)[i] = s5[r][i][1]
  BY DEF Replies!PartsOf
<1>3. Replies!InOrderOnce
  <2> SUFFICES ASSUME NEW r \in Spoken, NEW i \in DOMAIN s5[r], NEW j \in DOMAIN s5[r], i < j
               PROVE  /\ Replies!PartsOf(r)[i] <= Replies!PartsOf(r)[j]
                      /\ s12 = 0 => Replies!PartsOf(r)[i] # Replies!PartsOf(r)[j]
    BY DEF Replies!InOrderOnce
  <2>1. Ordered(s5[r], s12)
    BY DEF RepliesInv, Arrived
  <2>2. Replies!PartsOf(r)[i] = s5[r][i][1] /\ Replies!PartsOf(r)[j] = s5[r][j][1]
    BY <1>2
  <2> QED BY <2>1, <2>2 DEF Ordered
<1>4. Replies!AllTried /\ Replies!PauseEarned
  BY DEF RepliesInv, Somewhere, Tallied, Replies!AllTried, Replies!PauseEarned
<1>5. Replies!RememberedArrived
  <2> SUFFICES ASSUME NEW l \in s8
               PROVE  \E i \in DOMAIN s5[l.reply] : l.part = Replies!PartsOf(l.reply)[i]
    BY DEF Replies!RememberedArrived
  <2>1. l.reply \in Spoken /\ Has(s5[l.reply], l.part)
    BY DEF RepliesInv, Remembers
  <2> QED BY <1>2, <2>1 DEF Has
<1> QED BY <1>1, <1>3, <1>4, <1>5

-----------------------------------------------------------------------------
(* Comments.  Of the parts of an album that were let through, the mark or    *)
(* its expiry tells; a trace is marked when its run ends, and not again.     *)

Waiting == {"new", "check", "mark", "prompt"}
Working == {"run", "settle", "reply", "poll", "finish"}
\* Where the tasks are, and whose run, charge, comment, poll and trace there is.
CommentsTyped ==
    /\ s1 \in [Channel -> Waiting \cup Working \cup {"done"}]
    /\ s4 \subseteq Channel /\ s5 \subseteq s4 /\ s6 \cup s7 \subseteq s5
    /\ s8 = {p \in Channel : s1[p] \in Working}
    /\ \A p \in s4 : s1[p] \in {"settle", "reply", "poll", "finish", "done"}
    /\ \A p \in Channel : s1[p] = "settle" => p \in s4 \ s5
    /\ \A p \in Channel : s1[p] \in {"reply", "poll"} => p \in s5

\* A part of an album that was let through has a caption, is the only one unless
\* the album was raced for, and has left its mark.
Taken(p) == Comments!Album(p) /\ (s1[p] \in {"mark", "prompt"} \cup Working \/ p \in s4)
AlbumTaken ==
    /\ \A p \in Channel : Taken(p) => p.captioned /\ (s1[p] # "mark" => p.album \in s2 \cup s11)
    /\ \A p, o \in Channel : Taken(p) /\ Taken(o) /\ p # o /\ p.album = o.album => p.album \in s11

\* A trace has the mark its run earned, once the run has ended.
Result(p) == <<p, IF p \in s5 THEN "ok" ELSE "error">>
MarkedWell ==
    /\ \A m \in s9 : \E p \in Channel : m = Result(p) /\ s1[p] \in {"reply", "poll", "finish", "done"}
    /\ \A p \in Channel : s1[p] \in {"reply", "poll", "finish"} \/ (p \in s4 /\ s1[p] = "done") => Result(p) \in s9
\* What is true of the comments.
CommentsInv == CommentsTyped /\ AlbumTaken /\ MarkedWell

\* It is true at first.
LEMMA CommentsInit == ASSUME Comments!Init PROVE CommentsInv
<1>1. \A p \in Channel : s1[p] = "new"
  BY DEF Comments!Init
<1>2. s2 = {} /\ s4 = {} /\ s5 = {} /\ s6 = {} /\ s7 = {} /\ s8 = {} /\ s9 = {}
  BY DEF Comments!Init
<1>3. CommentsTyped
  BY <1>1, <1>2 DEF Comments!Init, CommentsTyped, Waiting, Working
<1>4. AlbumTaken
  BY <1>1, <1>2 DEF AlbumTaken, Taken, Working
<1>5. MarkedWell
  BY <1>1, <1>2 DEF MarkedWell
<1> QED BY <1>3, <1>4, <1>5 DEF CommentsInv

\* A post goes on without its run: what matters of its step.
LEMMA Onwards ==
  ASSUME CommentsInv, NEW p \in Channel, NEW to \in Waiting \cup Working \cup {"done"},
         s1' = [s1 EXCEPT ![p] = to], UNCHANGED <<s4, s5, s6, s7>>,
         s8' = {o \in Channel : s1'[o] \in Working},
         p \in s4 => to \in {"settle", "reply", "poll", "finish", "done"},
         to = "settle" => p \in s4 \ s5, to \in {"reply", "poll"} => p \in s5
  PROVE  CommentsTyped'
<1>0. /\ s1 \in [Channel -> Waiting \cup Working \cup {"done"}]
      /\ s4 \subseteq Channel /\ s5 \subseteq s4 /\ s6 \cup s7 \subseteq s5
      /\ s8 = {x \in Channel : s1[x] \in Working}
      /\ \A x \in s4 : s1[x] \in {"settle", "reply", "poll", "finish", "done"}
      /\ \A x \in Channel : s1[x] = "settle" => x \in s4 \ s5
      /\ \A x \in Channel : s1[x] \in {"reply", "poll"} => x \in s5
  BY DEF CommentsInv, CommentsTyped
<1>1. s1'[p] = to /\ \A o \in Channel \ {p} : s1'[o] = s1[o]
  BY <1>0
<1>2. s1' \in [Channel -> Waiting \cup Working \cup {"done"}]
  BY <1>0
<1> QED BY <1>0, <1>1, <1>2 DEF CommentsTyped

\* Marks stay, if nobody's stage and result make a difference to them.
LEMMA MarksStay ==
  ASSUME CommentsInv, UNCHANGED <<s4, s5, s9>>,
         \A p \in Channel : s1[p] \in {"reply", "poll", "finish", "done"} => s1'[p] \in {"reply", "poll", "finish", "done"},
         \A p \in Channel : s1'[p] \in {"reply", "poll", "finish"} \/ (p \in s4 /\ s1'[p] = "done")
                 => s1[p] \in {"reply", "poll", "finish"} \/ (p \in s4 /\ s1[p] = "done")
  PROVE  MarkedWell'
<1>1. MarkedWell /\ \A p \in Channel : Result(p)' = Result(p)
  BY DEF CommentsInv, Result
<1> QED BY <1>1 DEF MarkedWell

\* A post that is taken stays so, and the album with it.
LEMMA AlbumsStay ==
  ASSUME CommentsInv, s2 \subseteq s2' \cup s11', s11 \subseteq s11',
         \A p \in Channel : Taken(p)' => Taken(p),
         \A p \in Channel : s1[p] = "mark" => s1'[p] = "mark"
  PROVE  AlbumTaken'
BY DEF CommentsInv, AlbumTaken

\* The allowance is looked at.
LEMMA StartInv == ASSUME CommentsInv, NEW p \in Channel, Comments!Start(p) PROVE CommentsInv'
<1>0. /\ s1 \in [Channel -> Waiting \cup Working \cup {"done"}]
      /\ s4 \subseteq Channel /\ s5 \subseteq s4 /\ s6 \cup s7 \subseteq s5
      /\ s8 = {x \in Channel : s1[x] \in Working}
      /\ \A x \in s4 : s1[x] \in {"settle", "reply", "poll", "finish", "done"}
      /\ \A x \in Channel : s1[x] = "settle" => x \in s4 \ s5
      /\ \A x \in Channel : s1[x] \in {"reply", "poll"} => x \in s5
  BY DEF CommentsInv, CommentsTyped
<1>1. PICK x \in {"check", "done"} : s1[p] = "new" /\ s1' = [s1 EXCEPT ![p] = x]
  BY DEF Comments!Start, Comments!To
<1>2. UNCHANGED <<s2, s4, s5, s6, s7, s8, s9, s11>>
  BY DEF Comments!Start
<1>3. s1'[p] = x /\ \A o \in Channel \ {p} : s1'[o] = s1[o]
  BY <1>0, <1>1
<1>4. p \notin s4 /\ s8' = {o \in Channel : s1'[o] \in Working}
  BY <1>0, <1>1, <1>2, <1>3 DEF Working
<1>5. CommentsTyped'
  BY <1>1, <1>2, <1>4, Onwards DEF Waiting
<1>6. AlbumTaken'
  BY <1>1, <1>2, <1>3, AlbumsStay DEF Taken, Working, Comments!Album
<1>7. MarkedWell'
  BY <1>0, <1>1, <1>2, <1>3, <1>4, MarksStay
<1> QED BY <1>5, <1>6, <1>7 DEF CommentsInv

\* The album is looked at: who is let through finds no mark, or races.
LEMMA CheckInv == ASSUME CommentsInv, NEW p \in Channel, Comments!Check(p) PROVE CommentsInv'
<1>0. /\ s1 \in [Channel -> Waiting \cup Working \cup {"done"}]
      /\ s4 \subseteq Channel /\ s5 \subseteq s4 /\ s6 \cup s7 \subseteq s5
      /\ s8 = {x \in Channel : s1[x] \in Working}
      /\ \A x \in s4 : s1[x] \in {"settle", "reply", "poll", "finish", "done"}
      /\ \A x \in Channel : s1[x] = "settle" => x \in s4 \ s5
      /\ \A x \in Channel : s1[x] \in {"reply", "poll"} => x \in s5
  BY DEF CommentsInv, CommentsTyped
<1> DEFINE x == IF ~Comments!Passes(p) THEN "done" ELSE IF Comments!Album(p) THEN "mark" ELSE "prompt"
<1>1. s1[p] = "check" /\ s1' = [s1 EXCEPT ![p] = x]
  BY DEF Comments!Check, Comments!To, Comments!Drop
<1>2. UNCHANGED <<s2, s4, s5, s6, s7, s8, s9>>
      /\ s11' = IF \E o \in Comments!Siblings(p) : s1[o] = "mark" THEN s11 \cup {p.album} ELSE s11
  BY DEF Comments!Check
<1>3. x \in {"done", "mark", "prompt"} /\ (x = "mark" => Comments!Album(p) /\ Comments!Passes(p))
      /\ (x = "prompt" => ~Comments!Album(p))
  OBVIOUS
<1> HIDE DEF x
<1>4. s1'[p] = x /\ \A o \in Channel \ {p} : s1'[o] = s1[o]
  BY <1>0, <1>1
<1>5. p \notin s4 /\ s8' = {o \in Channel : s1'[o] \in Working}
  BY <1>0, <1>1, <1>2, <1>3, <1>4 DEF Working
<1>6. CommentsTyped'
  BY <1>1, <1>2, <1>3, <1>5, Onwards DEF Waiting
<1>7. \A o \in Channel \ {p} : Taken(o)' <=> Taken(o)
  BY <1>2, <1>4 DEF Taken, Comments!Album
<1>8. Taken(p)' => x = "mark" /\ p.captioned /\ p.album \notin s2
  BY <1>2, <1>3, <1>4, <1>5 DEF Taken, Working, Comments!Album, Comments!Passes
<1>9. s11 \subseteq s11'
  BY <1>2
<1>10. ASSUME NEW o \in Channel, Taken(p)', Taken(o), o # p, o.album = p.album PROVE p.album \in s11'
  <2>1. CASE s1[o] = "mark"
    <3>1. o \in Comments!Siblings(p)
      BY <1>3, <1>8, <1>10 DEF Comments!Siblings
    <3> QED BY <1>2, <2>1, <3>1
  <2>2. CASE s1[o] # "mark"
    BY <1>8, <1>9, <1>10, <2>2 DEF CommentsInv, AlbumTaken
  <2> QED BY <2>1, <2>2
<1>11. \A o \in Channel : Taken(o)' => o.captioned /\ (s1'[o] # "mark" => o.album \in s2' \cup s11')
  BY <1>2, <1>4, <1>7, <1>8, <1>9 DEF CommentsInv, AlbumTaken
<1>12. ASSUME NEW q \in Channel, NEW o \in Channel, Taken(q)', Taken(o)', q # o, q.album = o.album
       PROVE  q.album \in s11'
  <2>1. CASE q = p
    BY <1>7, <1>10, <1>12, <2>1
  <2>2. CASE o = p
    BY <1>7, <1>10, <1>12, <2>2
  <2>3. CASE q # p /\ o # p
    BY <1>7, <1>9, <1>12, <2>3 DEF CommentsInv, AlbumTaken
  <2> QED BY <2>1, <2>2, <2>3
<1>13. AlbumTaken'
  BY <1>11, <1>12 DEF AlbumTaken
<1>14. MarkedWell'
  BY <1>0, <1>1, <1>2, <1>3, <1>4, <1>5, MarksStay
<1> QED BY <1>6, <1>13, <1>14 DEF CommentsInv

\* The album is marked.
LEMMA MarkInv == ASSUME CommentsInv, NEW p \in Channel, Comments!Mark(p) PROVE CommentsInv'
<1>0. /\ s1 \in [Channel -> Waiting \cup Working \cup {"done"}]
      /\ s4 \subseteq Channel /\ s5 \subseteq s4 /\ s6 \cup s7 \subseteq s5
      /\ s8 = {x \in Channel : s1[x] \in Working}
      /\ \A x \in s4 : s1[x] \in {"settle", "reply", "poll", "finish", "done"}
      /\ \A x \in Channel : s1[x] = "settle" => x \in s4 \ s5
      /\ \A x \in Channel : s1[x] \in {"reply", "poll"} => x \in s5
  BY DEF CommentsInv, CommentsTyped
<1>1. s1[p] = "mark" /\ s1' = [s1 EXCEPT ![p] = "prompt"] /\ s2' = s2 \cup {p.album}
      /\ UNCHANGED <<s4, s5, s6, s7, s8, s9, s11>>
  BY DEF Comments!Mark, Comments!To, Comments!Marked
<1>2. s1'[p] = "prompt" /\ \A o \in Channel \ {p} : s1'[o] = s1[o]
  BY <1>0, <1>1
<1>3. p \notin s4 /\ s8' = {o \in Channel : s1'[o] \in Working}
  BY <1>0, <1>1, <1>2 DEF Working
<1>4. CommentsTyped'
  BY <1>1, <1>3, Onwards DEF Waiting
<1>5. \A o \in Channel : Taken(o)' <=> Taken(o)
  BY <1>1, <1>2 DEF Taken, Comments!Album
<1>6. AlbumTaken'
  BY <1>1, <1>2, <1>5 DEF CommentsInv, AlbumTaken
<1>7. MarkedWell'
  BY <1>0, <1>1, <1>2, <1>3, MarksStay
<1> QED BY <1>4, <1>6, <1>7 DEF CommentsInv

\* The prompt is composed, and the trace begins.
LEMMA PromptInv == ASSUME CommentsInv, NEW p \in Channel, Comments!Prompt(p) PROVE CommentsInv'
<1>0. /\ s1 \in [Channel -> Waiting \cup Working \cup {"done"}]
      /\ s4 \subseteq Channel /\ s5 \subseteq s4 /\ s6 \cup s7 \subseteq s5
      /\ s8 = {x \in Channel : s1[x] \in Working}
      /\ \A x \in s4 : s1[x] \in {"settle", "reply", "poll", "finish", "done"}
      /\ \A x \in Channel : s1[x] = "settle" => x \in s4 \ s5
      /\ \A x \in Channel : s1[x] \in {"reply", "poll"} => x \in s5
  BY DEF CommentsInv, CommentsTyped
<1>1. PICK x \in {"done", "run"} : /\ s1[p] = "prompt" /\ s1' = [s1 EXCEPT ![p] = x]
                                  /\ s8' = IF x = "run" THEN s8 \cup {p} ELSE s8
  BY DEF Comments!Prompt, Comments!To, Comments!Drop
<1>2. UNCHANGED <<s2, s4, s5, s6, s7, s9, s11>>
  BY DEF Comments!Prompt
<1>3. s1'[p] = x /\ \A o \in Channel \ {p} : s1'[o] = s1[o]
  BY <1>0, <1>1
<1>4. p \notin s4 /\ s8' = {o \in Channel : s1'[o] \in Working}
  BY <1>0, <1>1, <1>2, <1>3 DEF Working
<1>5. CommentsTyped'
  BY <1>1, <1>2, <1>4, Onwards DEF Working
<1>6. AlbumTaken'
  BY <1>1, <1>2, <1>3, AlbumsStay DEF Taken, Working, Comments!Album
<1>7. MarkedWell'
  BY <1>0, <1>1, <1>2, <1>3, <1>4, MarksStay
<1> QED BY <1>5, <1>6, <1>7 DEF CommentsInv

\* A run ends, and with it a mark is set for a post that had none.
LEMMA MarkOne ==
  ASSUME CommentsInv, NEW p \in Channel, s1[p] \in {"run", "settle"}, s5 \subseteq s5', s5' \subseteq s5 \cup {p},
         s4' = s4, s1'[p] \in {"reply", "finish"}, \A o \in Channel \ {p} : s1'[o] = s1[o],
         s9' = s9 \cup {Result(p)'}
  PROVE  MarkedWell'
<1>1. MarkedWell
  BY DEF CommentsInv
<1>2. \A o \in Channel \ {p} : Result(o)' = Result(o)
  BY DEF Result
<1>3. ASSUME NEW m \in s9' PROVE \E o \in Channel : m = Result(o)' /\ s1'[o] \in {"reply", "poll", "finish", "done"}
  <2>1. CASE m = Result(p)'
    BY <2>1
  <2>2. CASE m \in s9
    <3>1. PICK o \in Channel : m = Result(o) /\ s1[o] \in {"reply", "poll", "finish", "done"}
      BY <1>1, <2>2 DEF MarkedWell
    <3>2. o # p
      BY <3>1
    <3> QED BY <1>2, <3>1, <3>2
  <2> QED BY <2>1, <2>2
<1>4. ASSUME NEW o \in Channel, s1'[o] \in {"reply", "poll", "finish"} \/ (o \in s4 /\ s1'[o] = "done")
      PROVE  Result(o)' \in s9'
  BY <1>1, <1>2, <1>4 DEF MarkedWell
<1> QED BY <1>3, <1>4 DEF MarkedWell

\* The run of a post fails.
LEMMA FailInv == ASSUME CommentsInv, NEW p \in Channel, Comments!RunFails(p) PROVE CommentsInv'
<1>0. /\ s1 \in [Channel -> Waiting \cup Working \cup {"done"}]
      /\ s4 \subseteq Channel /\ s5 \subseteq s4 /\ s6 \cup s7 \subseteq s5
      /\ s8 = {x \in Channel : s1[x] \in Working}
      /\ \A x \in s4 : s1[x] \in {"settle", "reply", "poll", "finish", "done"}
      /\ \A x \in Channel : s1[x] = "settle" => x \in s4 \ s5
      /\ \A x \in Channel : s1[x] \in {"reply", "poll"} => x \in s5
  BY DEF CommentsInv, CommentsTyped
<1>1. s1[p] = "run" /\ s1' = [s1 EXCEPT ![p] = "finish"] /\ s9' = s9 \cup {<<p, "error">>}
      /\ UNCHANGED <<s2, s4, s5, s6, s7, s8, s11>>
  BY DEF Comments!RunFails, Comments!To
<1>2. s1'[p] = "finish" /\ \A o \in Channel \ {p} : s1'[o] = s1[o]
  BY <1>0, <1>1
<1>3. p \notin s4 /\ p \notin s5 /\ s8' = {o \in Channel : s1'[o] \in Working}
  BY <1>0, <1>1, <1>2 DEF Working
<1>4. CommentsTyped'
  BY <1>1, <1>3, Onwards DEF Working
<1>5. AlbumTaken'
  BY <1>1, <1>2, AlbumsStay DEF Taken, Working, Comments!Album
<1>6. MarkedWell'
  BY <1>1, <1>2, <1>3, MarkOne DEF Result
<1> QED BY <1>4, <1>5, <1>6 DEF CommentsInv

\* The run of a post ends.
LEMMA RunInv == ASSUME CommentsInv, NEW p \in Channel, Comments!Run(p) PROVE CommentsInv'
<1>0. /\ s1 \in [Channel -> Waiting \cup Working \cup {"done"}]
      /\ s4 \subseteq Channel /\ s5 \subseteq s4 /\ s6 \cup s7 \subseteq s5
      /\ s8 = {x \in Channel : s1[x] \in Working}
      /\ \A x \in s4 : s1[x] \in {"settle", "reply", "poll", "finish", "done"}
      /\ \A x \in Channel : s1[x] = "settle" => x \in s4 \ s5
      /\ \A x \in Channel : s1[x] \in {"reply", "poll"} => x \in s5
  BY DEF CommentsInv, CommentsTyped
<1>1. s1[p] = "run" /\ s1' = [s1 EXCEPT ![p] = "settle"] /\ s4' = s4 \cup {p}
      /\ UNCHANGED <<s2, s5, s6, s7, s8, s9, s11>>
  BY DEF Comments!Run, Comments!To
<1>2. s1'[p] = "settle" /\ \A o \in Channel \ {p} : s1'[o] = s1[o]
  BY <1>0, <1>1
<1>3. p \notin s4 /\ p \notin s5 /\ s8' = {o \in Channel : s1'[o] \in Working}
  BY <1>0, <1>1, <1>2 DEF Working
<1>4. CommentsTyped'
  <2>1. s1' \in [Channel -> Waiting \cup Working \cup {"done"}]
    BY <1>0, <1>1 DEF Working
  <2> QED BY <1>0, <1>1, <1>2, <1>3, <2>1 DEF CommentsTyped
<1>5. AlbumTaken'
  BY <1>1, <1>2, AlbumsStay DEF Taken, Working, Comments!Album
<1>6. MarkedWell'
  <2>1. MarkedWell /\ \A o \in Channel : Result(o)' = Result(o)
    BY <1>1 DEF CommentsInv, Result
  <2>2. \A m \in s9' : \E o \in Channel : m = Result(o)' /\ s1'[o] \in {"reply", "poll", "finish", "done"}
    BY <1>1, <1>2, <2>1 DEF MarkedWell
  <2>3. ASSUME NEW o \in Channel, s1'[o] \in {"reply", "poll", "finish"} \/ (o \in s4' /\ s1'[o] = "done")
        PROVE  Result(o)' \in s9'
    BY <1>1, <1>2, <2>1, <2>3 DEF MarkedWell
  <2> QED BY <2>2, <2>3 DEF MarkedWell
<1> QED BY <1>4, <1>5, <1>6 DEF CommentsInv

\* The run of a post is charged, or that fails.
LEMMA SettleInv == ASSUME CommentsInv, NEW p \in Channel, Comments!Settle(p) PROVE CommentsInv'
<1>0. /\ s1 \in [Channel -> Waiting \cup Working \cup {"done"}]
      /\ s4 \subseteq Channel /\ s5 \subseteq s4 /\ s6 \cup s7 \subseteq s5
      /\ s8 = {x \in Channel : s1[x] \in Working}
      /\ \A x \in s4 : s1[x] \in {"settle", "reply", "poll", "finish", "done"}
      /\ \A x \in Channel : s1[x] = "settle" => x \in s4 \ s5
      /\ \A x \in Channel : s1[x] \in {"reply", "poll"} => x \in s5
  BY DEF CommentsInv, CommentsTyped
<1>1. /\ s1[p] = "settle" /\ UNCHANGED <<s2, s4, s6, s7, s8, s11>>
      /\ \/ s5' = s5 \cup {p} /\ s9' = s9 \cup {<<p, "ok">>} /\ s1' = [s1 EXCEPT ![p] = "reply"]
         \/ s5' = s5 /\ s9' = s9 \cup {<<p, "error">>} /\ s1' = [s1 EXCEPT ![p] = "finish"]
  BY DEF Comments!Settle, Comments!Unsettled, Comments!To
<1>2. s1'[p] \in {"reply", "finish"} /\ \A o \in Channel \ {p} : s1'[o] = s1[o]
  BY <1>0, <1>1
<1>3. p \in s4 /\ p \notin s5 /\ s8' = {o \in Channel : s1'[o] \in Working}
  BY <1>0, <1>1, <1>2 DEF Working
<1>4. s5 \subseteq s5' /\ s5' \subseteq s5 \cup {p} /\ s9' = s9 \cup {Result(p)'}
  BY <1>1, <1>3 DEF Result
<1>5. CommentsTyped'
  <2>1. s1' \in [Channel -> Waiting \cup Working \cup {"done"}]
    BY <1>0, <1>1 DEF Working
  <2>2. s1'[p] = "reply" => p \in s5'
    BY <1>0, <1>1
  <2> QED BY <1>0, <1>1, <1>2, <1>3, <1>4, <2>1, <2>2 DEF CommentsTyped
<1>6. AlbumTaken'
  BY <1>1, <1>2, AlbumsStay DEF Taken, Working, Comments!Album
<1>7. MarkedWell'
  BY <1>1, <1>2, <1>4, MarkOne
<1> QED BY <1>5, <1>6, <1>7 DEF CommentsInv

\* The comment and the poll are sent, or not, and the trace is finished.
LEMMA SayInv ==
  ASSUME CommentsInv, NEW p \in Channel, Comments!Comment(p) \/ Comments!Poll(p) \/ Comments!Finish(p)
  PROVE  CommentsInv'
<1>0. /\ s1 \in [Channel -> Waiting \cup Working \cup {"done"}]
      /\ s4 \subseteq Channel /\ s5 \subseteq s4 /\ s6 \cup s7 \subseteq s5
      /\ s8 = {x \in Channel : s1[x] \in Working}
      /\ \A x \in s4 : s1[x] \in {"settle", "reply", "poll", "finish", "done"}
      /\ \A x \in Channel : s1[x] = "settle" => x \in s4 \ s5
      /\ \A x \in Channel : s1[x] \in {"reply", "poll"} => x \in s5
  BY DEF CommentsInv, CommentsTyped
<1>1. PICK x \in {"poll", "finish", "done"} :
         /\ s1' = [s1 EXCEPT ![p] = x] /\ UNCHANGED <<s2, s4, s5, s9, s11>>
         /\ \/ /\ s1[p] \in {"reply", "poll"} /\ x \in {"poll", "finish"} /\ s8' = s8
               /\ s6' \cup s7' \subseteq s6 \cup s7 \cup {p}
            \/ s1[p] = "finish" /\ x = "done" /\ s8' = s8 \ {p} /\ UNCHANGED <<s6, s7>>
  BY DEF Comments!Comment, Comments!Poll, Comments!Finish, Comments!To, Comments!Drop, Comments!Blamed
<1>2. s1'[p] = x /\ \A o \in Channel \ {p} : s1'[o] = s1[o]
  BY <1>0, <1>1
<1>3. s8' = {o \in Channel : s1'[o] \in Working}
  BY <1>0, <1>1, <1>2 DEF Working
<1>4. CommentsTyped'
  <2>1. s1' \in [Channel -> Waiting \cup Working \cup {"done"}]
    BY <1>0, <1>1 DEF Working
  <2> QED BY <1>0, <1>1, <1>2, <1>3, <2>1 DEF CommentsTyped
<1>5. AlbumTaken'
  BY <1>1, <1>2, AlbumsStay DEF Taken, Working, Comments!Album
<1>6. MarkedWell'
  <2>1. MarkedWell /\ \A o \in Channel : Result(o)' = Result(o)
    BY <1>1 DEF CommentsInv, Result
  <2>2. \A m \in s9' : \E o \in Channel : m = Result(o)' /\ s1'[o] \in {"reply", "poll", "finish", "done"}
    BY <1>1, <1>2, <2>1 DEF MarkedWell
  <2>3. ASSUME NEW o \in Channel, s1'[o] \in {"reply", "poll", "finish"} \/ (o \in s4' /\ s1'[o] = "done")
        PROVE  Result(o)' \in s9'
    <3>1. s1[p] \in {"reply", "poll", "finish"}
      BY <1>1
    <3>2. Result(o) \in s9
      <4>1. CASE o = p
        <5>1. Result(p) \in s9
          BY <2>1, <3>1 DEF MarkedWell
        <5>2. Result(o) = Result(p)
          BY <4>1
        <5> QED BY <5>1, <5>2
      <4>2. CASE o # p
        <5>1. s1[o] \in {"reply", "poll", "finish"} \/ (o \in s4 /\ s1[o] = "done")
          BY <1>1, <1>2, <2>3, <4>2
        <5> QED BY <2>1, <5>1 DEF MarkedWell
      <4> QED BY <4>1, <4>2
    <3> QED BY <1>1, <2>1, <3>2
  <2> QED BY <2>2, <2>3 DEF MarkedWell
<1> QED BY <1>4, <1>5, <1>6 DEF CommentsInv

\* The mark of an album expires.
LEMMA CommentsExpire == ASSUME CommentsInv, NEW a \in s2, Comments!Expire(a) PROVE CommentsInv'
<1>1. s2' = s2 \ {a} /\ s11' = s11 \cup {a} /\ UNCHANGED <<s1, s4, s5, s6, s7, s8, s9>>
  BY DEF Comments!Expire
<1>2. CommentsTyped' /\ MarkedWell'
  BY <1>1 DEF CommentsInv, CommentsTyped, MarkedWell, Result
<1>3. AlbumTaken'
  BY <1>1, AlbumsStay DEF Taken, Comments!Album
<1> QED BY <1>2, <1>3 DEF CommentsInv

\* Every step keeps it.
LEMMA CommentsNext == ASSUME CommentsInv, [Comments!Next]_(Comments!vars) PROVE CommentsInv'
<1>1. CASE UNCHANGED Comments!vars
  <2>1. UNCHANGED <<s1, s2, s4, s5, s6, s7, s8, s9, s11>>
    BY <1>1 DEF Comments!vars
  <2> QED BY <2>1 DEF CommentsInv, CommentsTyped, AlbumTaken, Taken, MarkedWell, Result, Comments!Album
<1>2. CASE Comments!Next
  BY <1>2, StartInv, CheckInv, MarkInv, PromptInv, FailInv, RunInv, SettleInv, SayInv, CommentsExpire
     DEF Comments!Next
<1> QED BY <1>1, <1>2

\* What the invariant says of comments.
LEMMA CommentsMeans ==
  ASSUME CommentsInv
  PROVE  /\ Comments!ChargedBeforeSaid /\ Comments!OncePerAlbum
         /\ Comments!AlbumByCaption /\ Comments!MarkedOnce
<1>1. Comments!ChargedBeforeSaid
  BY DEF CommentsInv, CommentsTyped, Working, Comments!ChargedBeforeSaid
<1>2. Comments!OncePerAlbum /\ Comments!AlbumByCaption
  BY DEF CommentsInv, CommentsTyped, AlbumTaken, Taken, Comments!Album, Comments!OncePerAlbum, Comments!AlbumByCaption
<1>3. Comments!MarkedOnce
  <2> SUFFICES ASSUME NEW p \in Channel, s1[p] = "done"
               PROVE  /\ {m \in s9 : m[1] = p} \subseteq {Result(p)}
                      /\ p \in s4 => \E m \in s9 : m[1] = p
    BY DEF Comments!MarkedOnce, Result
  <2>1. \A o \in Channel : Result(o)[1] = o
    BY DEF Result
  <2>2. {m \in s9 : m[1] = p} \subseteq {Result(p)}
    BY <2>1 DEF CommentsInv, MarkedWell
  <2>3. p \in s4 => Result(p) \in s9
    BY DEF CommentsInv, MarkedWell
  <2> QED BY <2>1, <2>2, <2>3
<1> QED BY <1>1, <1>2, <1>3

-----------------------------------------------------------------------------
(* What a prompt tells.  The new pictures of a turn are numbered above all   *)
(* that its cursor knows, in the order of their messages; what the cursor    *)
(* knows is in the stored history; and while there are only wakes, so are    *)
(* the messages near the newest one answered.                                *)

\* What was written, each message after the one it replies to.
Utterance == [mine : {p.mine : p \in s10.posts}, file : {p.file : p \in s10.posts},
              sticker : {p.sticker : p \in s10.posts}, reply : Nat]
ChatTyped == s10 \in Evenings /\ s1 \in Seq(Utterance) /\ \A i \in DOMAIN s1 : s1[i].reply < i

\* A cursor knows files by numbers below its next one.
CursorWell(c) == /\ c.next \in Nat \ {0} /\ DOMAIN c.sent \subseteq Group!Files
                 /\ \A f \in DOMAIN c.sent : c.sent[f] \in Nat /\ c.sent[f] < c.next
\* The cursor a turn goes by.
CursorOf(t) == IF t.kind = "wake" THEN s3 ELSE Group!NoCursor

\* The pictures of a turn, and those it refers to.
NewPictures(t, c) ==
    /\ DOMAIN t.fresh \subseteq DOMAIN s1 /\ Group!Cardinality(DOMAIN t.fresh) <= PerPrompt
    /\ \A i \in DOMAIN t.fresh : /\ t.fresh[i] \in c.next..(c.next + PerPrompt)
                                 /\ s1[i].file \in Group!Files \ DOMAIN c.sent
    /\ \A i, j \in DOMAIN t.fresh : i < j => t.fresh[i] < t.fresh[j] /\ s1[i].file # s1[j].file
OldPictures(t, c) ==
    /\ DOMAIN t.refs \subseteq DOMAIN s1
    /\ \A i \in DOMAIN t.refs :
         \/ s1[i].file \in DOMAIN c.sent /\ t.refs[i] = c.sent[s1[i].file]
         \/ \E o \in DOMAIN t.fresh : s1[o].file = s1[i].file /\ t.fresh[o] = t.refs[i]

\* A turn's prompt.
TurnWell(t) ==
    /\ t.kind \in {"idle"} \cup ({"wake", "follow", "ask"} \cap s10.turns)
    /\ t.of \in 0..Len(s1) /\ t.lines \subseteq DOMAIN s1
    /\ t.kind # "idle" => t.of > 0
    /\ t.kind \in {"idle", "ask"} => DOMAIN t.fresh = {}
    /\ NewPictures(t, CursorOf(t)) /\ OldPictures(t, CursorOf(t))
    /\ t.kind = "wake" => \A i \in 1..t.of - 1 : i >= t.of - Above => i \in t.lines \cup t.hidden \cup Group!Reply(t.of)
    /\ t.kind = "idle" => t = Group!Idle

\* What is known is in the history, by its number.
Remembered ==
    /\ \A f \in DOMAIN s3.sent : [file |-> f, number |-> s3.sent[f]] \in s5
    /\ "follow" \notin s10.turns =>
         /\ \A r \in s5 : r.number \in Nat /\ r.number < s3.next
         /\ \A r, q \in s5 : r.number = q.number => r = q
         /\ Group!Cardinality(Group!Files) <= Known => s9 = {} /\ \A r \in s5 : r.file \in DOMAIN s3.sent
\* The messages near the newest one answered have been shown, and what is left
\* out of a newer one's prompt.
LastShown == s10.turns = {"wake"} =>
    /\ s8 = s3.last
    /\ \A i \in 1..s8 : i >= s8 - Above => i \in s4
    /\ s2.of > s8 => s2.hidden \subseteq s4
\* What is true of a group.
GroupInv ==
    /\ ChatTyped /\ s8 \in 0..Len(s1) /\ s3.last \in 0..Len(s1) /\ s4 \subseteq DOMAIN s1
    /\ CursorWell(s3) /\ Group!Cardinality(DOMAIN s3.sent) <= Known + PerPrompt
    /\ TurnWell(s2) /\ Remembered /\ LastShown

\* The greatest of some numbers.
LEMMA GreatestIs ==
  ASSUME NEW S \in SUBSET Nat, S # {}, NEW b \in Nat, \A o \in S : o <= b
  PROVE  Group!MaxOf(S) \in S /\ \A o \in S : o <= Group!MaxOf(S)
<1> DEFINE D == {d \in 0..b : b - d \in S}
<1>1. D \subseteq Nat /\ \A o \in S : b - o \in D
  <2>1. ASSUME NEW o \in S PROVE b - o \in 0..b /\ b - (b - o) = o
    OBVIOUS
  <2>2. D \subseteq Nat
    OBVIOUS
  <2> QED BY <2>1, <2>2
<1>2. PICK d \in D : \A x \in D : <<x, d>> \notin OpToRel(<, Nat)
  <2>1. D \subseteq Nat /\ \E x \in D : TRUE
    <3>1. PICK o \in S : TRUE
      OBVIOUS
    <3>2. b - o \in D
      BY <1>1
    <3> HIDE DEF D
    <3> QED BY <1>1, <3>2
  <2>2. IsWellFoundedOn(OpToRel(<, Nat), Nat)
    BY NatLessThanWellFounded
  <2> HIDE DEF D
  <2> QED BY <2>1, <2>2, WFMin
<1>3. \A x \in D : ~(x < d)
  <2> SUFFICES ASSUME NEW x \in D, x < d PROVE FALSE
    OBVIOUS
  <2>1. <<x, d>> \in OpToRel(<, Nat)
    BY <1>1 DEF OpToRel
  <2> QED BY <1>2, <2>1
<1>4. b - d \in S /\ \A o \in S : o <= b - d
  BY <1>1, <1>3
<1> QED BY <1>4 DEF Group!MaxOf

\* Of no number it is zero.
LEMMA GreatestOfNone == Group!MaxOf({}) = 0
BY DEF Group!MaxOf

\* The later of two.
LEMMA LaterOf ==
  ASSUME NEW x \in Nat, NEW y \in Nat
  PROVE  Group!MaxOf({x, y}) = IF x < y THEN y ELSE x
<1>1. Group!MaxOf({x, y}) \in {x, y} /\ \A o \in {x, y} : o <= Group!MaxOf({x, y})
  <2>1. \A o \in {x, y} : o <= x + y
    OBVIOUS
  <2> QED BY <2>1, GreatestIs
<1> QED BY <1>1

\* Messages are finite in number.
LEMMA Countable == ASSUME ChatTyped, NEW D \in SUBSET DOMAIN s1
                   PROVE  Group!IsFiniteSet(D) /\ Group!Cardinality(D) \in Nat /\ D \subseteq Nat
<1>1. DOMAIN s1 = 1..Len(s1) /\ Len(s1) \in Nat
  BY DEF ChatTyped
<1>2. Group!IsFiniteSet(1..Len(s1))
  BY <1>1, Group!FS_Interval
<1> QED BY <1>1, <1>2, Group!FS_Subset, Group!FS_CardinalityType

\* The later has more before it.
LEMMA Ranks ==
  ASSUME ChatTyped, NEW D \in SUBSET DOMAIN s1, NEW i \in D, NEW j \in D, i < j
  PROVE  /\ Group!Cardinality({o \in D : o < i}) < Group!Cardinality({o \in D : o < j})
         /\ Group!Cardinality({o \in D : o <= i}) < Group!Cardinality({o \in D : o <= j})
<1> DEFINE a == {o \in D : o < i}  e == {o \in D : o <= i}  b == {o \in D : o < j}  f == {o \in D : o <= j}
<1>1. /\ Group!IsFiniteSet(a) /\ Group!IsFiniteSet(b) /\ Group!IsFiniteSet(e) /\ Group!IsFiniteSet(f)
      /\ Group!Cardinality(a) \in Nat /\ Group!Cardinality(b) \in Nat
      /\ Group!Cardinality(e) \in Nat /\ Group!Cardinality(f) \in Nat /\ D \subseteq Nat
  BY Countable
<1>2. e = a \cup {i} /\ i \notin a /\ f = b \cup {j} /\ j \notin b /\ e \subseteq b
  BY <1>1
<1> HIDE DEF a, b, e, f
<1>3. /\ Group!Cardinality(e) = Group!Cardinality(a) + 1 /\ Group!Cardinality(f) = Group!Cardinality(b) + 1
      /\ Group!Cardinality(e) <= Group!Cardinality(b)
  BY <1>1, <1>2, Group!FS_AddElement, Group!FS_Subset
<1> QED BY <1>1, <1>3 DEF a, b, e, f

\* Of those with fewer than n above them there are no more than n.
LEMMA Fewest ==
  ASSUME ChatTyped, NEW C \in SUBSET DOMAIN s1, NEW n \in Nat
  PROVE  Group!Cardinality({i \in C : Group!Cardinality(Group!Newer(i, C)) < n}) <= n
<1> DEFINE W == {i \in C : Group!Cardinality(Group!Newer(i, C)) < n}
<1>1. Group!IsFiniteSet(W) /\ Group!Cardinality(W) \in Nat /\ W \subseteq Nat /\ C \subseteq Nat
  BY Countable
<1>2. CASE W = {}
  BY <1>2, Group!FS_EmptySet
<1>3. CASE W # {}
  <2>1. PICK i \in W : \A x \in W : <<x, i>> \notin OpToRel(<, Nat)
    <3>1. IsWellFoundedOn(OpToRel(<, Nat), Nat)
      BY NatLessThanWellFounded
    <3>2. \E x \in W : TRUE
      BY <1>3
    <3> HIDE DEF W
    <3> QED BY <1>1, <3>1, <3>2, WFMin
  <2>2. W \ {i} \subseteq Group!Newer(i, C)
    <3> SUFFICES ASSUME NEW x \in W, x # i PROVE x \in C /\ x > i
      BY DEF Group!Newer
    <3>1. x \in Nat /\ i \in Nat /\ x \in C
      BY <1>1
    <3>2. ~(x < i)
      <4> SUFFICES ASSUME x < i PROVE FALSE
        OBVIOUS
      <4>1. <<x, i>> \in OpToRel(<, Nat)
        BY <3>1 DEF OpToRel
      <4> QED BY <2>1, <4>1
    <3> QED BY <3>1, <3>2
  <2>3. /\ Group!IsFiniteSet(Group!Newer(i, C)) /\ Group!Cardinality(Group!Newer(i, C)) \in Nat
        /\ Group!Cardinality(Group!Newer(i, C)) < n
    <3>1. Group!Newer(i, C) \subseteq DOMAIN s1
      BY DEF Group!Newer
    <3> QED BY <3>1, Countable
  <2> HIDE DEF W
  <2>4. Group!Cardinality(W \ {i}) <= Group!Cardinality(Group!Newer(i, C))
    BY <2>2, <2>3, Group!FS_Subset
  <2>5. Group!Cardinality(W \ {i}) = Group!Cardinality(W) - 1
    BY <1>1, Group!FS_RemoveElement
  <2>6. Group!Cardinality(W) <= n
    BY <1>1, <2>3, <2>4, <2>5
  <2> QED BY <2>6 DEF W
<1> QED BY <1>2, <1>3

\* The pictures of a prompt, and what it refers to.
LEMMA PromptWell ==
  ASSUME Group!Parameters, ChatTyped, NEW kind, NEW m \in DOMAIN s1, NEW nearby \in SUBSET (1..m - 1),
         NEW c, CursorWell(c), NEW t \in Group!Prompt(kind, m, nearby, c)
  PROVE  /\ t = [kind |-> kind, of |-> m, lines |-> nearby, hidden |-> Group!Window(m) \ nearby,
                 fresh |-> t.fresh, refs |-> t.refs]
         /\ NewPictures(t, c) /\ OldPictures(t, c)
<1> DEFINE media == Group!Eligible(m, nearby)
           cands == Group!Candidates(media, c)
           win == Group!Winners(media, c)
<1>1. PICK got \in SUBSET win :
        t = [kind |-> kind, of |-> m, lines |-> nearby, hidden |-> Group!Window(m) \ nearby,
             fresh |-> Group!Numbered(got, c),
             refs |-> Group!Referenced(Group!References(media, c), Group!Numbered(got, c), c)]
  BY DEF Group!Prompt
<1> DEFINE fresh == Group!Numbered(got, c)
           refs == Group!Referenced(Group!References(media, c), fresh, c)
<1>2. /\ t = [kind |-> kind, of |-> m, lines |-> nearby, hidden |-> Group!Window(m) \ nearby,
              fresh |-> t.fresh, refs |-> t.refs]
      /\ t.fresh = fresh /\ t.refs = refs
  BY <1>1
<1>3. media \subseteq DOMAIN s1 /\ \A i \in media : s1[i].file \in Group!Files
  <2>1. DOMAIN s1 = 1..Len(s1) /\ Len(s1) \in Nat /\ \A i \in DOMAIN s1 : s1[i] \in Utterance /\ s1[i].reply < i
    BY DEF ChatTyped
  <2>2. Group!Reply(m) \subseteq 1..m - 1
    BY <2>1 DEF Group!Reply, Utterance
  <2>3. {m} \cup Group!Reply(m) \cup nearby \subseteq DOMAIN s1
    <3>1. m \in 1..Len(s1) /\ 1..m - 1 \subseteq 1..Len(s1)
      BY <2>1
    <3> QED BY <2>1, <2>2, <3>1
  <2>4. media \subseteq DOMAIN s1 /\ \A i \in media : s1[i].file # None
    BY <2>3 DEF Group!Eligible
  <2> QED BY <2>1, <2>4 DEF Utterance, Group!Files
<1>4. /\ cands \subseteq media /\ win \subseteq cands /\ \A i \in cands : s1[i].file \notin DOMAIN c.sent
      /\ \A i, j \in cands : i < j => s1[i].file # s1[j].file
  BY DEF Group!Candidates, Group!Winners, Group!Newer
<1>5. /\ got \subseteq DOMAIN s1 /\ Group!IsFiniteSet(got) /\ Group!Cardinality(got) \in Nat
      /\ Group!Cardinality(got) <= PerPrompt
  <2>1. win = {i \in cands : Group!Cardinality(Group!Newer(i, cands)) < PerPrompt} /\ cands \subseteq DOMAIN s1
    BY <1>3, <1>4 DEF Group!Winners
  <2> HIDE DEF cands
  <2>2. Group!Cardinality(win) <= PerPrompt
    BY <2>1, Fewest DEF Group!Parameters
  <2> HIDE DEF win
  <2>3. win \subseteq DOMAIN s1
    BY <2>1
  <2>4. Group!IsFiniteSet(win) /\ Group!Cardinality(win) \in Nat /\ Group!IsFiniteSet(got) /\ Group!Cardinality(got) \in Nat
    BY <2>3, Countable
  <2>5. Group!Cardinality(got) <= Group!Cardinality(win)
    BY <2>4, Group!FS_Subset
  <2> QED BY <2>2, <2>3, <2>4, <2>5 DEF Group!Parameters
<1>6. Group!First(c) = c.next
  <2> DEFINE S == {c.next} \cup {n + 1 : n \in Group!Values(c.sent)}
  <2>1. S \subseteq Nat /\ c.next \in S /\ \A n \in S : n <= c.next
    BY DEF Group!Values, CursorWell
  <2> HIDE DEF S
  <2>2. Group!MaxOf(S) \in S /\ \A n \in S : n <= Group!MaxOf(S)
    BY <2>1, GreatestIs
  <2>3. Group!MaxOf(S) = c.next
    <3> DEFINE x == Group!MaxOf(S)
    <3>1. x \in Nat /\ c.next \in Nat /\ x <= c.next /\ c.next <= x
      BY <2>1, <2>2
    <3> HIDE DEF x
    <3>2. x = c.next
      BY <3>1
    <3> QED BY <3>2 DEF x
  <2> QED BY <2>3 DEF Group!First, S
<1> HIDE DEF media, cands, win
<1>7. /\ DOMAIN fresh = got
      /\ \A i \in got : /\ fresh[i] = c.next + Group!Cardinality({o \in got : o < i})
                        /\ Group!Cardinality({o \in got : o < i}) \in 0..PerPrompt
  <2>1. DOMAIN fresh = got /\ \A i \in got : fresh[i] = c.next + Group!Cardinality({o \in got : o < i})
    BY <1>6 DEF Group!Numbered
  <2>2. ASSUME NEW i \in got PROVE Group!Cardinality({o \in got : o < i}) \in 0..PerPrompt
    <3> DEFINE b == {o \in got : o < i}
    <3>1. b \subseteq got /\ b \subseteq DOMAIN s1
      BY <1>5
    <3> HIDE DEF b
    <3>2. Group!Cardinality(b) \in Nat /\ Group!Cardinality(b) <= Group!Cardinality(got)
      BY <1>5, <3>1, Countable, Group!FS_Subset
    <3>3. Group!Cardinality(b) \in 0..PerPrompt
      BY <1>5, <3>2 DEF Group!Parameters
    <3> QED BY <3>3 DEF b
  <2> QED BY <2>1, <2>2
<1> HIDE DEF fresh
<1>8. \A i, j \in got : i < j => fresh[i] < fresh[j]
  <2> SUFFICES ASSUME NEW i \in got, NEW j \in got, i < j PROVE fresh[i] < fresh[j]
    OBVIOUS
  <2>1. Group!Cardinality({o \in got : o < i}) < Group!Cardinality({o \in got : o < j})
    BY <1>5, Ranks
  <2> QED BY <1>7, <2>1 DEF CursorWell
<1>9. NewPictures(t, c)
  <2>1. \A i \in got : fresh[i] \in c.next..(c.next + PerPrompt)
    <3> SUFFICES ASSUME NEW i \in got PROVE fresh[i] \in c.next..(c.next + PerPrompt)
      OBVIOUS
    <3>1. PICK k \in 0..PerPrompt : fresh[i] = c.next + k
      BY <1>7
    <3>2. c.next \in Nat /\ PerPrompt \in Nat
      BY DEF CursorWell, Group!Parameters
    <3> QED BY <3>1, <3>2
  <2>2. \A i \in got : s1[i].file \in Group!Files \ DOMAIN c.sent
    BY <1>3, <1>4
  <2>3. \A i, j \in got : i < j => s1[i].file # s1[j].file
    BY <1>4
  <2> QED BY <1>2, <1>5, <1>7, <1>8, <2>1, <2>2, <2>3 DEF NewPictures
<1>10. OldPictures(t, c)
  <2>1. /\ DOMAIN refs \subseteq media
        /\ \A i \in DOMAIN refs : /\ Group!NumberOf(i, fresh, c) # {}
                                  /\ refs[i] = Group!MaxOf(Group!NumberOf(i, fresh, c))
    BY DEF Group!Referenced, Group!References
  <2>2. ASSUME NEW i \in DOMAIN refs
        PROVE  \/ s1[i].file \in DOMAIN c.sent /\ refs[i] = c.sent[s1[i].file]
               \/ \E o \in got : s1[o].file = s1[i].file /\ fresh[o] = refs[i]
    <3> DEFINE S == Group!NumberOf(i, fresh, c)
    <3>1. CASE s1[i].file \in DOMAIN c.sent
      <4>1. S = {c.sent[s1[i].file]} /\ c.sent[s1[i].file] \in Nat
        BY <3>1 DEF Group!NumberOf, CursorWell
      <4>2. Group!MaxOf(S) \in S
        BY <4>1, GreatestIs
      <4> QED BY <2>1, <3>1, <4>1, <4>2
    <3>2. CASE s1[i].file \notin DOMAIN c.sent
      <4>1. S = {fresh[o] : o \in {o \in got : s1[o].file = s1[i].file}}
        BY <1>7, <3>2 DEF Group!NumberOf
      <4>2. S # {} /\ c.next \in Nat /\ PerPrompt \in Nat
        BY <2>1 DEF CursorWell, Group!Parameters
      <4>5. S \subseteq Nat /\ c.next + PerPrompt \in Nat /\ \A x \in S : x <= c.next + PerPrompt
        <5>1. \A o \in got : fresh[o] \in c.next..(c.next + PerPrompt)
          BY <1>2, <1>7, <1>9 DEF NewPictures
        <5> QED BY <4>1, <4>2, <5>1
      <4> HIDE DEF S
      <4>3. Group!MaxOf(S) \in S
        BY <4>2, <4>5, GreatestIs
      <4>4. refs[i] = Group!MaxOf(S)
        BY <2>1 DEF S
      <4> QED BY <4>1, <4>3, <4>4
    <3> QED BY <3>1, <3>2
  <2> QED BY <1>2, <1>3, <1>7, <2>1, <2>2 DEF OldPictures
<1> QED BY <1>2, <1>9, <1>10

\* No turn.
LEMMA IdleWell ==
  ASSUME Group!Parameters, ChatTyped', s2' = Group!Idle
  PROVE  TurnWell(s2)'
<1>1. /\ s2'.kind = "idle" /\ s2'.of = 0 /\ s2'.lines = {} /\ s2'.hidden = {}
      /\ DOMAIN s2'.fresh = {} /\ DOMAIN s2'.refs = {}
  BY DEF Group!Idle, Group!NoNumbers
<1>2. Len(s1') \in Nat
  BY DEF ChatTyped
<1>3. Group!Cardinality({}) = 0
  BY Group!FS_EmptySet
<1> QED BY <1>1, <1>2, <1>3 DEF TurnWell, NewPictures, OldPictures, Group!Parameters

\* A cursor that knows nothing.
LEMMA NothingKnown == CursorWell(Group!NoCursor)
BY DEF CursorWell, Group!NoCursor

\* It is true at first.
LEMMA GroupInit == ASSUME Group!Parameters, Group!Init PROVE GroupInv
<1>1. /\ s1 = <<>> /\ s2 = Group!Idle /\ s3 = Group!NoCursor /\ s4 = {} /\ s5 = {}
      /\ s8 = 0 /\ s9 = {} /\ s10 \in Evenings
  BY DEF Group!Init
<1>2. ChatTyped /\ DOMAIN s1 = {} /\ Len(s1) = 0
  BY <1>1 DEF ChatTyped
<1>3. Group!Cardinality({}) = 0
  BY Group!FS_EmptySet
<1>4. s3.last = 0 /\ DOMAIN s3.sent = {} /\ s3.next = 1
  BY <1>1 DEF Group!NoCursor
<1>5. TurnWell(s2)
  <2>1. /\ s2.kind = "idle" /\ s2.of = 0 /\ s2.lines = {} /\ s2.hidden = {}
        /\ DOMAIN s2.fresh = {} /\ DOMAIN s2.refs = {}
    BY <1>1 DEF Group!Idle, Group!NoNumbers
  <2> QED BY <1>1, <1>2, <1>3, <2>1 DEF TurnWell, NewPictures, OldPictures, Group!Parameters
<1>6. Remembered
  BY <1>1, <1>4 DEF Remembered
<1>7. LastShown
  BY <1>1, <1>4 DEF LastShown, Group!Idle
<1> QED BY <1>1, <1>2, <1>3, <1>4, <1>5, <1>6, <1>7, NothingKnown DEF GroupInv, Group!Parameters

\* Somebody writes.
LEMMA PostInv ==
  ASSUME Group!Parameters, GroupInv, NEW p \in s10.posts, NEW reply \in 0..Len(s1), Group!Post(p, reply)
  PROVE  GroupInv'
<1> DEFINE said == [mine |-> p.mine, file |-> p.file, sticker |-> p.sticker, reply |-> reply]
<1>1. s1' = Append(s1, said) /\ UNCHANGED <<s2, s3, s4, s5, s6, s7, s8, s9, s10>>
  BY DEF Group!Post
<1>2. /\ s1 \in Seq(Utterance) /\ said \in Utterance /\ said.reply = reply /\ Len(s1) \in Nat
      /\ DOMAIN s1 = 1..Len(s1) /\ \A i \in DOMAIN s1 : s1[i].reply < i
  BY DEF GroupInv, ChatTyped, Utterance
<1> HIDE DEF said
<1>3. /\ s1' \in Seq(Utterance) /\ Len(s1') = Len(s1) + 1 /\ DOMAIN s1' = 1..Len(s1) + 1
      /\ s1'[Len(s1) + 1] = said /\ \A i \in DOMAIN s1 : s1'[i] = s1[i]
  BY <1>1, <1>2
<1>4. ChatTyped' /\ DOMAIN s1 \subseteq DOMAIN s1'
  <2>1. Utterance' = Utterance
    BY <1>1 DEF Utterance
  <2>2. ASSUME NEW i \in DOMAIN s1' PROVE s1'[i].reply < i
    <3>1. CASE i \in DOMAIN s1
      BY <1>2, <1>3, <3>1
    <3>2. CASE i = Len(s1) + 1
      BY <1>2, <1>3, <3>2
    <3> QED BY <1>2, <1>3, <3>1, <3>2
  <2> QED BY <1>1, <1>2, <1>3, <2>1, <2>2 DEF ChatTyped, GroupInv
<1>5. Group!Files' = Group!Files
  BY <1>1 DEF Group!Files
<1>6. TurnWell(s2)'
  <2>0. PICK c : c = CursorOf(s2)
    OBVIOUS
  <2>1. TurnWell(s2) /\ s2' = s2 /\ CursorOf(s2)' = c /\ s10' = s10
    BY <1>1, <2>0 DEF GroupInv, CursorOf
  <2>2. /\ DOMAIN s2.fresh \subseteq DOMAIN s1 /\ DOMAIN s2.refs \subseteq DOMAIN s1
        /\ NewPictures(s2, c) /\ OldPictures(s2, c)
    BY <2>0, <2>1 DEF TurnWell, NewPictures, OldPictures
  <2>3. NewPictures(s2, c)'
    BY <1>3, <1>4, <1>5, <2>1, <2>2 DEF NewPictures
  <2>4. OldPictures(s2, c)'
    BY <1>3, <1>4, <2>1, <2>2 DEF OldPictures
  <2>5. s2.of \in DOMAIN s1 => Group!Reply(s2.of)' = Group!Reply(s2.of)
    BY <1>3, <2>1 DEF Group!Reply
  <2>6. s2.of \in 0..Len(s1') /\ s2.lines \subseteq DOMAIN s1' /\ (s2.kind = "wake" => s2.of \in DOMAIN s1)
    BY <1>2, <1>3, <1>4, <2>1 DEF TurnWell
  <2> QED BY <2>1, <2>3, <2>4, <2>5, <2>6 DEF TurnWell
<1>7. Remembered'
  BY <1>1, <1>5 DEF GroupInv, Remembered
<1>8. LastShown'
  BY <1>1 DEF GroupInv, LastShown
<1>9. CursorWell(s3)'
  BY <1>1, <1>5 DEF GroupInv, CursorWell
<1> QED BY <1>1, <1>2, <1>3, <1>4, <1>6, <1>7, <1>8, <1>9 DEF GroupInv

\* A turn begins: what is known and stored stays.
LEMMA TurnBegins ==
  ASSUME Group!Parameters, GroupInv, UNCHANGED <<s1, s3, s4, s5, s8, s9, s10>>,
         TurnWell(s2)', s10.turns = {"wake"} /\ s2'.of > s8 => s2'.hidden \subseteq s4
  PROVE  GroupInv'
<1>1. ChatTyped' /\ CursorWell(s3)' /\ Group!Files' = Group!Files
  BY DEF GroupInv, ChatTyped, Utterance, CursorWell, Group!Files
<1>2. Remembered'
  BY <1>1 DEF GroupInv, Remembered
<1>3. LastShown'
  BY DEF GroupInv, LastShown
<1> QED BY <1>1, <1>2, <1>3 DEF GroupInv

\* The new turn is a good one if it was.
LEMMA TurnStays ==
  ASSUME UNCHANGED <<s1, s3, s10>>, TurnWell(s2')
  PROVE  TurnWell(s2)'
<1>1. Group!Files' = Group!Files /\ CursorOf(s2)' = CursorOf(s2')
  BY DEF Group!Files, CursorOf
<1>2. Group!Reply(s2.of)' = Group!Reply(s2'.of)
  BY DEF Group!Reply
<1>3. NewPictures(s2, CursorOf(s2))' /\ OldPictures(s2, CursorOf(s2))'
  BY <1>1 DEF TurnWell, NewPictures, OldPictures
<1> QED BY <1>1, <1>2, <1>3 DEF TurnWell

\* A wake.
LEMMA WakeInv ==
  ASSUME Group!Parameters, GroupInv, NEW m \in DOMAIN s1, Group!Wake(m)
  PROVE  GroupInv'
<1> DEFINE near == {i \in Group!Window(m) : ~Group!Hidden(i, s3)}
           t == s2'
<1>1. /\ UNCHANGED <<s1, s3, s4, s5, s8, s9, s10>> /\ "wake" \in s10.turns
      /\ t \in Group!Prompt("wake", m, near, s3)
  BY DEF Group!Wake, Group!Starts, Group!Kept
<1>2. m \in 1..Len(s1) /\ Len(s1) \in Nat /\ DOMAIN s1 = 1..Len(s1) /\ near \subseteq 1..m - 1
  BY DEF GroupInv, ChatTyped, Group!Window
<1>3. ChatTyped /\ CursorWell(s3)
  BY DEF GroupInv
<1> HIDE DEF near
<1>4. /\ t = [kind |-> "wake", of |-> m, lines |-> near, hidden |-> Group!Window(m) \ near,
              fresh |-> t.fresh, refs |-> t.refs]
      /\ NewPictures(t, s3) /\ OldPictures(t, s3)
  BY <1>1, <1>2, <1>3, PromptWell
<1>5. t.kind = "wake" /\ t.of = m /\ t.lines = near /\ t.hidden = Group!Window(m) \ near
  BY <1>4
<1> HIDE DEF t
<1>6. \A i \in 1..m - 1 : i >= m - Above => i \in t.lines \cup t.hidden \cup Group!Reply(m)
  BY <1>5 DEF Group!Window, Group!Reply
<1>7. TurnWell(t)
  <2>1. m \in 0..Len(s1) /\ m > 0 /\ near \subseteq DOMAIN s1
    BY <1>2
  <2> QED BY <1>1, <1>4, <1>5, <1>6, <2>1 DEF TurnWell, CursorOf
<1>8. TurnWell(s2)'
  BY <1>1, <1>7, TurnStays DEF t
<1>9. s10.turns = {"wake"} /\ t.of > s8 => t.hidden \subseteq s4
  <2> SUFFICES ASSUME s10.turns = {"wake"}, m > s8, NEW i \in Group!Window(m), i \notin near
               PROVE  i \in s4
    BY <1>5
  <2>1. i \in 1..m - 1 /\ i >= m - Above /\ i <= s3.last
    BY DEF Group!Window, Group!Hidden, near
  <2>2. s8 = s3.last /\ s8 \in Nat /\ \A j \in 1..s8 : j >= s8 - Above => j \in s4
    BY DEF GroupInv, LastShown
  <2>3. i \in 1..s8 /\ i >= s8 - Above
    BY <1>2, <2>1, <2>2 DEF Group!Parameters
  <2> QED BY <2>2, <2>3
<1> QED BY <1>1, <1>8, <1>9, TurnBegins DEF t

\* A follow-up.
LEMMA FollowsInv ==
  ASSUME Group!Parameters, GroupInv, NEW m \in DOMAIN s1, Group!Follow(m)
  PROVE  GroupInv'
<1>1. /\ UNCHANGED <<s1, s3, s4, s5, s8, s9, s10>> /\ "follow" \in s10.turns
      /\ \E t \in Group!Prompt("follow", m, {}, Group!NoCursor) : s2' = [t EXCEPT !.hidden = {}]
  BY DEF Group!Follow, Group!Starts, Group!Kept
<1>2. PICK t \in Group!Prompt("follow", m, {}, Group!NoCursor) : s2' = [t EXCEPT !.hidden = {}]
  BY <1>1
<1>3. ChatTyped /\ CursorWell(Group!NoCursor) /\ {} \subseteq 1..m - 1
  BY NothingKnown DEF GroupInv
<1>4. /\ t = [kind |-> "follow", of |-> m, lines |-> {}, hidden |-> Group!Window(m) \ {},
              fresh |-> t.fresh, refs |-> t.refs]
      /\ NewPictures(t, Group!NoCursor) /\ OldPictures(t, Group!NoCursor)
  BY <1>3, PromptWell
<1>5. /\ s2'.kind = "follow" /\ s2'.of = m /\ s2'.lines = {} /\ s2'.hidden = {}
      /\ s2'.fresh = t.fresh /\ s2'.refs = t.refs
  BY <1>2, <1>4
<1>6. NewPictures(s2', Group!NoCursor) /\ OldPictures(s2', Group!NoCursor)
  BY <1>4, <1>5 DEF NewPictures, OldPictures
<1>7. m \in 0..Len(s1) /\ m > 0
  BY DEF GroupInv, ChatTyped
<1>8. TurnWell(s2')
  BY <1>1, <1>5, <1>6, <1>7 DEF TurnWell, CursorOf
<1>9. TurnWell(s2)'
  BY <1>1, <1>8, TurnStays
<1> QED BY <1>1, <1>5, <1>9, TurnBegins

\* The answer to a question.
LEMMA AsksInv ==
  ASSUME Group!Parameters, GroupInv, NEW m \in DOMAIN s1, Group!Ask(m)
  PROVE  GroupInv'
<1>1. /\ UNCHANGED <<s1, s3, s4, s5, s8, s9, s10>> /\ "ask" \in s10.turns
      /\ s2' = [Group!Idle EXCEPT !.kind = "ask", !.of = m]
  BY DEF Group!Ask, Group!Starts, Group!Kept
<1>2. /\ s2'.kind = "ask" /\ s2'.of = m /\ s2'.lines = {} /\ s2'.hidden = {}
      /\ DOMAIN s2'.fresh = {} /\ DOMAIN s2'.refs = {}
  BY <1>1 DEF Group!Idle, Group!NoNumbers
<1>3. m \in 0..Len(s1) /\ m > 0
  BY DEF GroupInv, ChatTyped
<1>4. Group!Cardinality({}) = 0
  BY Group!FS_EmptySet
<1>5. TurnWell(s2')
  <2>1. NewPictures(s2', CursorOf(s2')) /\ OldPictures(s2', CursorOf(s2'))
    BY <1>2, <1>4 DEF NewPictures, OldPictures, Group!Parameters
  <2>2. s2'.of \in 0..Len(s1) /\ s2'.of > 0 /\ s2'.lines \subseteq DOMAIN s1
    BY <1>2, <1>3
  <2>3. s2'.kind # "wake" /\ s2'.kind # "idle" /\ s2'.kind \in {"idle"} \cup ({"wake", "follow", "ask"} \cap s10.turns)
    BY <1>1, <1>2
  <2> QED BY <1>2, <2>1, <2>2, <2>3 DEF TurnWell
<1>6. TurnWell(s2)'
  BY <1>1, <1>5, TurnStays
<1> QED BY <1>1, <1>2, <1>6, TurnBegins

\* A run fails.
LEMMA FailsInv == ASSUME Group!Parameters, GroupInv, Group!Fail PROVE GroupInv'
<1>1. UNCHANGED <<s1, s3, s4, s5, s8, s9, s10>> /\ s2' = Group!Idle
  BY DEF Group!Fail, Group!Kept
<1>2. ChatTyped'
  BY <1>1 DEF GroupInv, ChatTyped, Utterance
<1>3. TurnWell(s2)' /\ s2'.hidden = {}
  BY <1>1, <1>2, IdleWell DEF Group!Idle
<1> QED BY <1>1, <1>3, TurnBegins

\* The history and the cursor go.
LEMMA ForgetsInv == ASSUME Group!Parameters, GroupInv, Group!Forget PROVE GroupInv'
<1>1. /\ s2' = Group!Idle /\ s3' = Group!NoCursor /\ s4' = {} /\ s5' = {} /\ s8' = 0 /\ s9' = {}
      /\ s1' = s1 /\ s10' = s10
  BY DEF Group!Forget
<1>2. ChatTyped' /\ Len(s1') \in Nat
  BY <1>1 DEF GroupInv, ChatTyped, Utterance
<1>3. TurnWell(s2)' /\ s2'.hidden = {}
  BY <1>1, <1>2, IdleWell DEF Group!Idle
<1>4. s3'.last = 0 /\ DOMAIN s3'.sent = {} /\ s3'.next = 1
  BY <1>1 DEF Group!NoCursor
<1>5. Remembered' /\ LastShown' /\ CursorWell(s3)'
  BY <1>1, <1>3, <1>4 DEF Remembered, LastShown, CursorWell
<1>6. Group!Cardinality({}) = 0
  BY Group!FS_EmptySet
<1> QED BY <1>1, <1>2, <1>3, <1>4, <1>5, <1>6 DEF GroupInv, Group!Parameters

\* The pictures of the turn: in the order of their numbers, none known before.
LEMMA DeliveredAre ==
  ASSUME GroupInv
  PROVE  /\ \A r \in Group!Delivered : \E i \in DOMAIN s2.fresh :
                                         r = [file |-> s1[i].file, number |-> s2.fresh[i]]
         /\ \A i \in DOMAIN s2.fresh : [file |-> s1[i].file, number |-> s2.fresh[i]] \in Group!Delivered
         /\ \A r, q \in Group!Delivered : r.number = q.number \/ r.file = q.file => r = q
         /\ \A r \in Group!Delivered : r.file \in Group!Files /\ r.number \in Nat
         /\ s2.kind = "wake" => \A r \in Group!Delivered :
              r.file \notin DOMAIN s3.sent /\ r.number \in s3.next..(s3.next + PerPrompt)
         /\ s2.kind \in {"idle", "ask"} => Group!Delivered = {}
<1> DEFINE d == DOMAIN s2.fresh
<1>1. \A r \in Group!Delivered : \E i \in d : r = [file |-> s1[i].file, number |-> s2.fresh[i]]
  BY DEF Group!Delivered
<1>2. \A i \in d : [file |-> s1[i].file, number |-> s2.fresh[i]] \in Group!Delivered
  BY DEF Group!Delivered
<1>3. NewPictures(s2, CursorOf(s2)) /\ CursorWell(CursorOf(s2)) /\ (s2.kind = "wake" => CursorOf(s2) = s3)
  BY NothingKnown DEF GroupInv, TurnWell, CursorOf
<1>4. d \subseteq Nat
  BY <1>3 DEF NewPictures, GroupInv, ChatTyped
<1>5. /\ \A i \in d : s2.fresh[i] \in Nat /\ s1[i].file \in Group!Files
      /\ \A i, j \in d : i < j => s2.fresh[i] < s2.fresh[j] /\ s1[i].file # s1[j].file
  BY <1>3 DEF NewPictures, CursorWell
<1>6. s2.kind = "wake" => \A i \in d : s1[i].file \notin DOMAIN s3.sent /\ s2.fresh[i] \in s3.next..(s3.next + PerPrompt)
  BY <1>3 DEF NewPictures
<1>7. \A i, j \in d : s2.fresh[i] = s2.fresh[j] \/ s1[i].file = s1[j].file => i = j
  <2> SUFFICES ASSUME NEW i \in d, NEW j \in d, i # j PROVE s2.fresh[i] # s2.fresh[j] /\ s1[i].file # s1[j].file
    OBVIOUS
  <2>1. i < j \/ j < i
    BY <1>4
  <2> QED BY <1>5, <2>1
<1>8. s2.kind \in {"idle", "ask"} => Group!Delivered = {}
  BY <1>1 DEF GroupInv, TurnWell
<1> HIDE DEF d
<1>9. \A r, q \in Group!Delivered : r.number = q.number \/ r.file = q.file => r = q
  <2> SUFFICES ASSUME NEW r \in Group!Delivered, NEW q \in Group!Delivered, r.number = q.number \/ r.file = q.file
               PROVE  r = q
    OBVIOUS
  <2>1. PICK i \in d : r = [file |-> s1[i].file, number |-> s2.fresh[i]]
    BY <1>1
  <2>2. PICK j \in d : q = [file |-> s1[j].file, number |-> s2.fresh[j]]
    BY <1>1
  <2>3. i = j
    BY <1>7, <2>1, <2>2
  <2> QED BY <2>1, <2>2, <2>3
<1>10. \A r \in Group!Delivered : r.file \in Group!Files /\ r.number \in Nat
  BY <1>1, <1>5
<1>11. s2.kind = "wake" => \A r \in Group!Delivered :
         r.file \notin DOMAIN s3.sent /\ r.number \in s3.next..(s3.next + PerPrompt)
  BY <1>1, <1>6
<1> QED BY <1>1, <1>2, <1>8, <1>9, <1>10, <1>11 DEF d

\* What the cursor becomes.
LEMMA CursorMoves ==
  ASSUME Group!Parameters, GroupInv, Group!Store
  PROVE  /\ s3'.next \in Nat \ {0} /\ s3'.next >= s3.next /\ \A r \in Group!Reported : r.number < s3'.next
         /\ DOMAIN s3'.sent \subseteq Group!Files
         /\ \A f \in DOMAIN s3'.sent : \/ f \in DOMAIN s3.sent /\ s3'.sent[f] = s3.sent[f]
                                       \/ [file |-> f, number |-> s3'.sent[f]] \in Group!Reported
         /\ Group!Cardinality(DOMAIN s3'.sent) <= Known + PerPrompt
         /\ Group!Cardinality(Group!Files) <= Known =>
              DOMAIN s3'.sent = DOMAIN s3.sent \cup {r.file : r \in Group!Reported}
<1> DEFINE R == Group!Reported
           F == {r.file : r \in R}
           full == Group!Sent(s3.sent)
           new == Group!Sent(Group!NoNumbers)
<1>1. /\ s3'.sent = IF Group!Cardinality(DOMAIN full) > Known THEN new ELSE full
      /\ s3'.next = Group!NextNumber(s3)
  BY DEF Group!Store, Group!Advanced
<1>2. R \subseteq Group!Delivered /\ (s2.kind = "wake" \/ R = {})
  BY DEF Group!Reported
<1>3. /\ \A r, q \in R : r.file = q.file => r = q
      /\ \A r \in R : /\ r.file \in Group!Files /\ r.number \in Nat
                      /\ r.number \in s3.next..(s3.next + PerPrompt)
                      /\ r = [file |-> r.file, number |-> r.number]
  BY <1>2, DeliveredAre
<1>4. CursorWell(s3) /\ s3.next \in Nat /\ PerPrompt \in Nat /\ Known \in Nat
  BY DEF GroupInv, CursorWell, Group!Parameters
<1>5. s3'.next \in Nat \ {0} /\ s3'.next >= s3.next /\ \A r \in R : r.number < s3'.next
  <2> DEFINE S == {s3.next} \cup {r.number + 1 : r \in R}
  <2>1. S \subseteq Nat /\ S # {} /\ s3.next + PerPrompt + 1 \in Nat
    BY <1>3, <1>4
  <2>2. \A o \in S : o <= s3.next + PerPrompt + 1
    BY <1>3, <1>4
  <2>3. s3.next \in S /\ \A r \in R : r.number + 1 \in S
    OBVIOUS
  <2>4. s3'.next = Group!MaxOf(S)
    BY <1>1 DEF Group!NextNumber
  <2> HIDE DEF S, R
  <2>5. Group!MaxOf(S) \in S /\ \A o \in S : o <= Group!MaxOf(S)
    BY <2>1, <2>2, GreatestIs
  <2>6. s3'.next \in Nat /\ s3.next <= s3'.next
    BY <2>1, <2>3, <2>4, <2>5
  <2>7. ASSUME NEW r \in R PROVE r.number < s3'.next
    <3>1. r.number \in Nat /\ r.number + 1 <= s3'.next
      BY <1>3, <2>3, <2>4, <2>5
    <3> QED BY <2>6, <3>1
  <2> QED BY <1>4, <2>6, <2>7 DEF CursorWell
<1>6. /\ DOMAIN full = F \cup DOMAIN s3.sent
      /\ \A f \in DOMAIN full : IF f \in F THEN \E r \in R : r.file = f /\ full[f] = r.number
                                           ELSE full[f] = s3.sent[f]
  BY DEF Group!Sent
<1>7. /\ DOMAIN new = F
      /\ \A f \in DOMAIN new : \E r \in R : r.file = f /\ new[f] = r.number
  BY DEF Group!Sent, Group!NoNumbers
<1> HIDE DEF R, full, new
<1>8. F \subseteq Group!Files /\ DOMAIN s3.sent \subseteq Group!Files
  BY <1>3, <1>4 DEF CursorWell
<1>9. \A f \in DOMAIN s3'.sent : \/ f \in DOMAIN s3.sent /\ s3'.sent[f] = s3.sent[f]
                                 \/ [file |-> f, number |-> s3'.sent[f]] \in R
  <2>1. CASE s3'.sent = full
    BY <1>3, <1>6, <2>1
  <2>2. CASE s3'.sent = new
    BY <1>3, <1>7, <2>2
  <2> QED BY <1>1, <2>1, <2>2
<1>10. Group!IsFiniteSet(Group!Files)
  <2> DEFINE P == s10.posts
             fs == {p.file : p \in P}
             g == [p \in P |-> p.file]
  <2>1. Group!IsFiniteSet(P)
    BY DEF GroupInv, ChatTyped, Group!Parameters
  <2>2. g \in Group!Surjection(P, fs)
    BY DEF Group!Surjection
  <2>3. Group!IsFiniteSet(fs)
    BY <2>1, <2>2, Group!FS_Surjection
  <2>4. Group!Files \subseteq fs
    BY DEF Group!Files
  <2> HIDE DEF fs
  <2> QED BY <2>3, <2>4, Group!FS_Subset
<1>11. Group!Cardinality(F) <= PerPrompt /\ Group!Cardinality(F) \in Nat
  <2> DEFINE d == DOMAIN s2.fresh
             D == Group!Delivered
             fs == {r.file : r \in D}
             g == [i \in d |-> s1[i].file]
  <2>1. Group!IsFiniteSet(d) /\ Group!Cardinality(d) \in Nat /\ Group!Cardinality(d) <= PerPrompt
    <3>1. d \subseteq DOMAIN s1 /\ Group!Cardinality(d) <= PerPrompt /\ ChatTyped
      BY DEF GroupInv, TurnWell, NewPictures
    <3> HIDE DEF d
    <3> QED BY <3>1, Countable
  <2>2. g \in Group!Surjection(d, fs)
    <3>1. /\ \A r \in D : \E i \in d : r.file = s1[i].file
          /\ \A i \in d : \E r \in D : r.file = s1[i].file
      <4>1. \A r \in D : \E i \in d : r = [file |-> s1[i].file, number |-> s2.fresh[i]]
        BY DeliveredAre
      <4>2. \A i \in d : [file |-> s1[i].file, number |-> s2.fresh[i]] \in D
        BY DeliveredAre
      <4> HIDE DEF D, d
      <4>3. \A r \in D : \E i \in d : r.file = s1[i].file
        <5> SUFFICES ASSUME NEW r \in D PROVE \E i \in d : r.file = s1[i].file
          OBVIOUS
        <5>1. PICK i \in d : r = [file |-> s1[i].file, number |-> s2.fresh[i]]
          BY <4>1
        <5>2. r.file = s1[i].file
          BY <5>1
        <5> QED BY <5>2
      <4>4. \A i \in d : \E r \in D : r.file = s1[i].file
        <5> SUFFICES ASSUME NEW i \in d PROVE \E r \in D : r.file = s1[i].file
          OBVIOUS
        <5> DEFINE r == [file |-> s1[i].file, number |-> s2.fresh[i]]
        <5>1. r \in D /\ r.file = s1[i].file
          BY <4>2
        <5> QED BY <5>1
      <4> QED BY <4>3, <4>4
    <3> HIDE DEF D, d
    <3> QED BY <3>1 DEF Group!Surjection
  <2>3. F \subseteq fs
    BY <1>2 DEF R
  <2> HIDE DEF d, fs, g, F
  <2>4. Group!IsFiniteSet(fs) /\ Group!Cardinality(fs) <= Group!Cardinality(d)
    BY <2>1, <2>2, Group!FS_Surjection
  <2>5. Group!IsFiniteSet(F) /\ Group!Cardinality(F) <= Group!Cardinality(fs)
    BY <2>3, <2>4, Group!FS_Subset
  <2>6. Group!Cardinality(F) \in Nat /\ Group!Cardinality(fs) \in Nat
    BY <2>4, <2>5, Group!FS_CardinalityType
  <2> QED BY <1>4, <2>1, <2>4, <2>5, <2>6
<1>12. /\ DOMAIN full \subseteq Group!Files /\ Group!IsFiniteSet(DOMAIN full)
       /\ Group!Cardinality(DOMAIN full) \in Nat /\ Group!Cardinality(Group!Files) \in Nat
       /\ Group!Cardinality(DOMAIN full) <= Group!Cardinality(Group!Files)
  <2>1. DOMAIN full \subseteq Group!Files
    BY <1>6, <1>8
  <2> QED BY <1>10, <2>1, Group!FS_Subset, Group!FS_CardinalityType
<1>13. Group!Cardinality(DOMAIN s3'.sent) <= Known + PerPrompt
  <2>1. CASE Group!Cardinality(DOMAIN full) > Known
    BY <1>1, <1>4, <1>7, <1>11, <2>1
  <2>2. CASE ~(Group!Cardinality(DOMAIN full) > Known)
    BY <1>1, <1>4, <1>12, <2>2
  <2> QED BY <2>1, <2>2
<1>14. DOMAIN s3'.sent \subseteq Group!Files
  BY <1>1, <1>7, <1>8, <1>12
<1>15. Group!Cardinality(Group!Files) <= Known => DOMAIN s3'.sent = DOMAIN s3.sent \cup F
  <2> SUFFICES ASSUME Group!Cardinality(Group!Files) <= Known PROVE DOMAIN s3'.sent = DOMAIN s3.sent \cup F
    OBVIOUS
  <2>1. ~(Group!Cardinality(DOMAIN full) > Known)
    BY <1>4, <1>12
  <2> QED BY <1>1, <1>6, <2>1
<1> QED BY <1>5, <1>9, <1>13, <1>14, <1>15 DEF R

\* A run ends well.
LEMMA StoreInv == ASSUME Group!Parameters, GroupInv, Group!Store PROVE GroupInv'
<1>1. /\ s2' = Group!Idle /\ s1' = s1 /\ s10' = s10
      /\ s3'.last = Group!MaxOf({s3.last, s2.of}) /\ s8' = Group!MaxOf({s8, s2.of})
      /\ s4' = s4 \cup s2.lines \cup (IF s2.kind = "ask" THEN {} ELSE {s2.of} \cup Group!Reply(s2.of))
      /\ s5' = s5 \cup Group!Delivered
      /\ s9' = s9 \cup ({r.file : r \in Group!Delivered} \cap {r.file : r \in s5})
  BY DEF Group!Store, Group!Advanced
<1>2. /\ Len(s1) \in Nat /\ DOMAIN s1 = 1..Len(s1) /\ s8 \in 0..Len(s1) /\ s3.last \in 0..Len(s1)
      /\ s2.of \in 0..Len(s1) /\ s2.of > 0
  <2>1. s2.kind # "idle"
    BY DEF Group!Store, GroupInv, TurnWell
  <2> QED BY <2>1 DEF GroupInv, ChatTyped, TurnWell
<1>3. /\ s3'.last = (IF s3.last < s2.of THEN s2.of ELSE s3.last)
      /\ s8' = (IF s8 < s2.of THEN s2.of ELSE s8)
  BY <1>1, <1>2, LaterOf
<1>4. ChatTyped' /\ Group!Files' = Group!Files
  BY <1>1 DEF GroupInv, ChatTyped, Utterance, Group!Files
<1>5. TurnWell(s2)' /\ s2'.of = 0
  BY <1>1, <1>4, IdleWell DEF Group!Idle
<1>6. Group!Reply(s2.of) \subseteq DOMAIN s1
  <2>1. s2.of \in DOMAIN s1 /\ s1[s2.of] \in Utterance /\ s1[s2.of].reply < s2.of
    BY <1>2 DEF GroupInv, ChatTyped
  <2>2. s1[s2.of].reply \in Nat
    BY <2>1 DEF Utterance
  <2> QED BY <1>2, <2>1, <2>2 DEF Group!Reply
<1>7. s4' \subseteq DOMAIN s1'
  BY <1>1, <1>2, <1>6 DEF GroupInv, TurnWell
<1>8. CursorWell(s3)' /\ Group!Cardinality(DOMAIN s3'.sent) <= Known + PerPrompt
  <2>1. ASSUME NEW f \in DOMAIN s3'.sent PROVE s3'.sent[f] \in Nat /\ s3'.sent[f] < s3'.next
    <3>1. CASE f \in DOMAIN s3.sent /\ s3'.sent[f] = s3.sent[f]
      BY <3>1, CursorMoves DEF GroupInv, CursorWell
    <3>2. CASE [file |-> f, number |-> s3'.sent[f]] \in Group!Reported
      <4>1. [file |-> f, number |-> s3'.sent[f]] \in Group!Delivered
        BY <3>2 DEF Group!Reported
      <4> QED BY <3>2, <4>1, CursorMoves, DeliveredAre
    <3> QED BY <2>1, <3>1, <3>2, CursorMoves
  <2> QED BY <1>4, <2>1, CursorMoves DEF CursorWell
<1>9. Remembered'
  <2>1. ASSUME NEW f \in DOMAIN s3'.sent PROVE [file |-> f, number |-> s3'.sent[f]] \in s5'
    BY <1>1, <2>1, CursorMoves DEF Group!Reported, GroupInv, Remembered
  <2>2. ASSUME "follow" \notin s10.turns
        PROVE  /\ \A r \in s5' : r.number \in Nat /\ r.number < s3'.next
               /\ \A r, q \in s5' : r.number = q.number => r = q
               /\ Group!Cardinality(Group!Files) <= Known =>
                    s9' = {} /\ \A r \in s5' : r.file \in DOMAIN s3'.sent
    <3>1. Group!Delivered = Group!Reported
      BY <2>2, DeliveredAre DEF Group!Reported, GroupInv, TurnWell
    <3>2. /\ \A r \in s5 : r.number \in Nat /\ r.number < s3.next
          /\ \A r, q \in s5 : r.number = q.number => r = q
          /\ Group!Cardinality(Group!Files) <= Known => s9 = {} /\ \A r \in s5 : r.file \in DOMAIN s3.sent
      BY <2>2 DEF GroupInv, Remembered
    <3>3. s3.next \in Nat /\ PerPrompt \in Nat
      BY DEF GroupInv, CursorWell, Group!Parameters
    <3>4. \A r \in Group!Delivered : r.file \notin DOMAIN s3.sent /\ r.number \in Nat /\ r.number >= s3.next
      BY <3>1, <3>3, DeliveredAre DEF Group!Reported
    <3>5. \A r, q \in Group!Delivered : r.number = q.number => r = q
      BY DeliveredAre
    <3>6. /\ s3'.next \in Nat /\ s3'.next >= s3.next
          /\ \A r \in Group!Delivered : r.number < s3'.next
      BY <3>1, CursorMoves
    <3>7. \A r \in s5' : r.number \in Nat /\ r.number < s3'.next
      BY <1>1, <3>2, <3>3, <3>4, <3>6
    <3>8. \A r, q \in s5' : r.number = q.number => r = q
      <4> SUFFICES ASSUME NEW r \in s5', NEW q \in s5', r.number = q.number PROVE r = q
        OBVIOUS
      <4>1. r \in s5 \cup Group!Delivered /\ q \in s5 \cup Group!Delivered
        BY <1>1
      <4> QED BY <3>2, <3>3, <3>4, <3>5, <4>1
    <3>9. ASSUME Group!Cardinality(Group!Files) <= Known
          PROVE  s9' = {} /\ \A r \in s5' : r.file \in DOMAIN s3'.sent
      <4>1. DOMAIN s3'.sent = DOMAIN s3.sent \cup {r.file : r \in Group!Delivered}
        BY <3>1, <3>9, CursorMoves
      <4>2. s9 = {} /\ \A r \in s5 : r.file \in DOMAIN s3.sent
        BY <3>2, <3>9
      <4> QED BY <1>1, <3>4, <4>1, <4>2
    <3> QED BY <3>7, <3>8, <3>9
  <2> QED BY <1>1, <1>4, <2>1, <2>2 DEF Remembered
<1>10. LastShown'
  <2> SUFFICES ASSUME s10.turns = {"wake"}
               PROVE  /\ s8' = s3'.last
                      /\ \A i \in 1..s8' : i >= s8' - Above => i \in s4'
    <3>1. s8' \in Nat
      BY <1>2, <1>3
    <3>2. s2'.of = 0 /\ s10' = s10
      BY <1>1, <1>5
    <3> QED BY <3>1, <3>2 DEF LastShown
  <2>1. s8 = s3.last /\ (\A i \in 1..s8 : i >= s8 - Above => i \in s4) /\ (s2.of > s8 => s2.hidden \subseteq s4)
    BY DEF GroupInv, LastShown
  <2>2. s2.kind = "wake"
    BY DEF Group!Store, GroupInv, TurnWell
  <2>3. \A i \in 1..s2.of - 1 : i >= s2.of - Above => i \in s2.lines \cup s2.hidden \cup Group!Reply(s2.of)
    BY <2>2 DEF GroupInv, TurnWell
  <2>4. s4' = s4 \cup s2.lines \cup {s2.of} \cup Group!Reply(s2.of)
    BY <1>1, <2>2
  <2>5. CASE s8 < s2.of
    <3>1. s8' = s2.of /\ s3'.last = s2.of /\ s2.hidden \subseteq s4
      BY <1>2, <1>3, <2>1, <2>5
    <3>2. ASSUME NEW i \in 1..s2.of, i >= s2.of - Above PROVE i \in s4'
      <4>1. i = s2.of \/ i \in 1..s2.of - 1
        BY <1>2
      <4> QED BY <2>3, <2>4, <3>1, <3>2, <4>1
    <3> QED BY <3>1, <3>2
  <2>6. CASE ~(s8 < s2.of)
    BY <1>3, <2>1, <2>4, <2>6
  <2> QED BY <2>5, <2>6
<1>11. s8' \in 0..Len(s1') /\ s3'.last \in 0..Len(s1')
  BY <1>1, <1>2, <1>3
<1> QED BY <1>4, <1>5, <1>7, <1>8, <1>9, <1>10, <1>11 DEF GroupInv

\* Every step keeps it.
LEMMA GroupNext ==
  ASSUME Group!Parameters, GroupInv, [Group!Next]_(Group!vars)
  PROVE  GroupInv'
<1>1. CASE UNCHANGED Group!vars
  <2>1. UNCHANGED <<s1, s2, s3, s4, s5, s8, s9, s10>>
    BY <1>1 DEF Group!vars
  <2> QED BY <2>1 DEF GroupInv, ChatTyped, Utterance, CursorWell, CursorOf, TurnWell, NewPictures, OldPictures,
                      Remembered, LastShown, Group!Files, Group!Reply
<1>2. CASE Group!Next
  BY <1>2, PostInv, WakeInv, FollowsInv, AsksInv, StoreInv, FailsInv, ForgetsInv DEF Group!Next
<1> QED BY <1>1, <1>2

\* What the invariant says of a group.
LEMMA GroupMeans ==
  ASSUME Group!Parameters, GroupInv
  PROVE  /\ Group!TypeOK /\ Group!NumbersApart /\ Group!ReferencesResolve
         /\ Group!DeliveredOnce /\ Group!SkippedAfterWakes /\ Group!DescribedInOrder
<1>1. Group!TypeOK
  <2>1. DOMAIN s1 = 1..Len(s1)
    BY DEF GroupInv, ChatTyped
  <2>2. \A n \in Group!Values(s3.sent) : n < s3.next
    BY DEF GroupInv, CursorWell, Group!Values
  <2> QED BY <2>1, <2>2 DEF GroupInv, CursorWell, TurnWell, Group!TypeOK
<1>2. Group!NumbersApart
  <2> SUFFICES ASSUME "follow" \notin s10.turns, NEW r \in s5 \cup Group!Delivered, NEW q \in s5 \cup Group!Delivered,
                      r.number = q.number
               PROVE  r = q
    BY DEF Group!NumbersApart, Group!NumbersGlobal, Group!Held
  <2>1. s2.kind = "wake" \/ Group!Delivered = {}
    BY DeliveredAre DEF GroupInv, TurnWell
  <2>2. /\ \A o \in s5 : o.number \in Nat /\ o.number < s3.next
        /\ \A o, u \in s5 : o.number = u.number => o = u
        /\ s3.next \in Nat /\ PerPrompt \in Nat
    BY DEF GroupInv, CursorWell, Remembered, Group!Parameters
  <2>3. \A o \in Group!Delivered : o.number \in Nat /\ o.number >= s3.next
    BY <2>1, <2>2, DeliveredAre
  <2>4. \A o, u \in Group!Delivered : o.number = u.number => o = u
    BY DeliveredAre
  <2> QED BY <2>2, <2>3, <2>4
<1>3. Group!ReferencesResolve
  <2> SUFFICES ASSUME NEW i \in DOMAIN s2.refs
               PROVE  [file |-> s1[i].file, number |-> s2.refs[i]] \in s5 \cup Group!Delivered
    BY DEF Group!ReferencesResolve, Group!Held
  <2> DEFINE c == CursorOf(s2)
  <2>1. \/ s1[i].file \in DOMAIN c.sent /\ s2.refs[i] = c.sent[s1[i].file]
        \/ \E o \in DOMAIN s2.fresh : s1[o].file = s1[i].file /\ s2.fresh[o] = s2.refs[i]
    BY DEF GroupInv, TurnWell, OldPictures
  <2>2. CASE \E o \in DOMAIN s2.fresh : s1[o].file = s1[i].file /\ s2.fresh[o] = s2.refs[i]
    BY <2>2, DeliveredAre
  <2>3. CASE s1[i].file \in DOMAIN c.sent /\ s2.refs[i] = c.sent[s1[i].file]
    <3>1. s2.kind = "wake" /\ c = s3
      BY <2>3 DEF CursorOf, Group!NoCursor
    <3> HIDE DEF c
    <3> QED BY <2>3, <3>1 DEF GroupInv, Remembered
  <2> QED BY <2>1, <2>2, <2>3
<1>4. Group!DeliveredOnce
  BY DEF GroupInv, Remembered, Group!DeliveredOnce
<1>5. Group!SkippedAfterWakes
  BY DEF GroupInv, LastShown, Group!SkippedAfterWakes, Group!SkippedWereDelivered
<1>6. Group!DescribedInOrder
  <2> DEFINE d == DOMAIN s2.fresh
             A == Group!Attributed
             V == Group!Values(s2.fresh)
             Upto(i) == {o \in d : o <= i}
  <2>1. ChatTyped /\ d \subseteq DOMAIN s1 /\ A \subseteq d /\ d \subseteq Nat
    BY DEF GroupInv, ChatTyped, TurnWell, NewPictures, Group!Attributed
  <2>2. /\ \A i \in d : s2.fresh[i] \in Int
        /\ \A i, j \in d : i < j => s2.fresh[i] < s2.fresh[j]
    <3>1. NewPictures(s2, CursorOf(s2)) /\ CursorWell(CursorOf(s2))
      BY NothingKnown DEF GroupInv, TurnWell, CursorOf
    <3> QED BY <3>1 DEF NewPictures, CursorWell
  <2>3. ASSUME NEW i \in d PROVE Group!Place(s2.fresh[i], V) = Group!Cardinality(Upto(i))
    <3> DEFINE U == Upto(i)
               W == {n \in V : n <= s2.fresh[i]}
               g == [o \in U |-> s2.fresh[o]]
    <3>1. \A o \in d : o <= i <=> s2.fresh[o] <= s2.fresh[i]
      <4> SUFFICES ASSUME NEW o \in d PROVE o <= i <=> s2.fresh[o] <= s2.fresh[i]
        OBVIOUS
      <4>1. o = i \/ o < i \/ i < o
        BY <2>1
      <4> QED BY <2>1, <2>2, <4>1
    <3>2. \A n \in W : \E o \in U : g[o] = n
      BY <3>1 DEF Group!Values
    <3>3. \A o \in U : g[o] \in W
      BY <3>1 DEF Group!Values
    <3>4. \A o, u \in U : g[o] = g[u] => o = u
      <4> SUFFICES ASSUME NEW o \in d, NEW u \in d, s2.fresh[o] = s2.fresh[u] PROVE o = u
        OBVIOUS
      <4>1. o = u \/ o < u \/ u < o
        BY <2>1
      <4> QED BY <2>2, <4>1
    <3>5. Group!IsFiniteSet(U)
      <4>1. U \subseteq DOMAIN s1
        BY <2>1
      <4> HIDE DEF U
      <4> QED BY <2>1, <4>1, Countable
    <3> HIDE DEF U, W, d, V
    <3>6. g \in Group!Bijection(U, W)
      <4>1. g \in [U -> W] /\ \A o \in U : g[o] = s2.fresh[o]
        BY <3>3
      <4>2. g \in Group!Surjection(U, W)
        BY <3>2, <4>1 DEF Group!Surjection
      <4>3. g \in Group!Injection(U, W)
        BY <3>4, <4>1 DEF Group!Injection, Group!IsInjective
      <4> QED BY <4>2, <4>3 DEF Group!Bijection
    <3>7. Group!ExistsBijection(U, W)
      BY <3>6 DEF Group!ExistsBijection
    <3>8. Group!Cardinality(W) = Group!Cardinality(U)
      BY <3>5, <3>7, Group!FS_Bijection
    <3> QED BY <3>8 DEF Group!Place, W, U
  <2> SUFFICES ASSUME NEW i \in A, \A o \in d \ A : o > i PROVE Group!Described(i) = {i}
    BY DEF Group!DescribedInOrder
  <2>4. Group!Place(i, A) = Group!Cardinality(Upto(i))
    <3>1. {o \in A : o <= i} = Upto(i)
      <4>1. \A o \in d \ A : ~(o <= i)
        BY <2>1
      <4> QED BY <2>1, <4>1
    <3> HIDE DEF A
    <3> QED BY <3>1 DEF Group!Place
  <2>5. ASSUME NEW o \in d, Group!Cardinality(Upto(o)) = Group!Cardinality(Upto(i)) PROVE o = i
    <3>1. o < i => Group!Cardinality(Upto(o)) < Group!Cardinality(Upto(i))
      BY <2>1, Ranks
    <3>2. i < o => Group!Cardinality(Upto(i)) < Group!Cardinality(Upto(o))
      BY <2>1, Ranks
    <3>3. Group!Cardinality(Upto(o)) \in Nat /\ Group!Cardinality(Upto(i)) \in Nat
      <4>1. Upto(o) \subseteq DOMAIN s1 /\ Upto(i) \subseteq DOMAIN s1
        BY <2>1
      <4> HIDE DEF Upto
      <4> QED BY <2>1, <4>1, Countable
    <3>4. o \in Nat /\ i \in Nat
      BY <2>1
    <3> HIDE DEF Upto
    <3> QED BY <2>5, <3>1, <3>2, <3>3, <3>4
  <2>6. Group!Described(i) = {o \in d : Group!Place(s2.fresh[o], V) = Group!Place(i, A)}
    BY DEF Group!Described
  <2>7. i \in d
    BY <2>1
  <2> HIDE DEF d, A, V, Upto
  <2> QED BY <2>3, <2>4, <2>5, <2>6, <2>7
<1> QED BY <1>1, <1>2, <1>3, <1>4, <1>5, <1>6

-----------------------------------------------------------------------------
(* The world of MCTown: whichever component a behaviour is about keeps its   *)
(* own invariant, which its own module proves.                               *)

Town ==
    /\ about = "members" => Members!Inv
    /\ about = "bottles" => Bottles!Inv
    /\ about = "economy" => Inv
    /\ about = "stickers" => StickersInv
    /\ about = "files" => FilesInv
    /\ about = "limiter" => LimiterInv
    /\ about = "replies" => RepliesInv
    /\ about = "comments" => CommentsInv
    /\ about = "group" => GroupInv

\* It holds at first.
LEMMA InitTown == WorldInit => Town
<1> SUFFICES ASSUME WorldInit PROVE Town
  OBVIOUS
<1>1. CASE about = "members"
  BY <1>1, TownAssumption, Members!InitInv DEF WorldInit, Town
<1>2. CASE about = "bottles"
  BY <1>2, TownAssumption, Bottles!InitInv DEF WorldInit, Town
<1>3. CASE about = "economy"
  BY <1>3, TownAssumption, InitInv DEF WorldInit, Town
<1>4. CASE about = "stickers"
  BY <1>4, TownAssumption, StickersInit DEF WorldInit, Town
<1>5. CASE about = "files"
  BY <1>5, TownAssumption, FilesInit DEF WorldInit, Town
<1>6. CASE about = "limiter"
  BY <1>6, LimiterInit DEF WorldInit, Town
<1>7. CASE about = "replies"
  BY <1>7, TownAssumption, RepliesInit DEF WorldInit, Town
<1>8. CASE about = "comments"
  BY <1>8, CommentsInit DEF WorldInit, Town
<1>9. CASE about = "group"
  BY <1>9, TownAssumption, GroupInit DEF WorldInit, Town
<1> QED BY <1>1, <1>2, <1>3, <1>4, <1>5, <1>6, <1>7, <1>8, <1>9 DEF Town

\* Every step keeps it.
LEMMA NextTown == Town /\ [WorldNext]_all => Town'
<1> SUFFICES ASSUME Town, [WorldNext]_all PROVE Town'
  OBVIOUS
<1>1. about' = about
  BY DEF WorldNext, all
<1>2. CASE about = "members"
  <2>1. Members!Inv /\ [Members!Next]_(Members!vars)
    BY <1>2 DEF Town, WorldNext, all, Members!vars, s1, s2, s3, s4, s5, s6, s7, s8, s9, s10, s11,
                s12, s13, s14, s15, s16, s17
  <2> QED BY <1>1, <1>2, <2>1, TownAssumption, Members!NextInv DEF Town
<1>3. CASE about = "bottles"
  <2>1. Bottles!Inv /\ [Bottles!Next]_(Bottles!vars)
    BY <1>3 DEF Town, WorldNext, all, Bottles!vars, s1, s2, s3, s4, s5, s6, s7, s8, s9, s10, s11,
                s12
  <2> QED BY <1>1, <1>3, <2>1, TownAssumption, Bottles!NextInv DEF Town
<1>4. CASE about = "economy"
  <2>1. Inv /\ [Next]_vars
    BY <1>4 DEF Town, WorldNext, all, vars, money, things, pay, s1, s2, s3, s4, s5, s6, s7, s8,
                s9, s10, s11, s12, s13, s14, s15, s16, s17, s18, s19, s20, s21
  <2> QED BY <1>1, <1>4, <2>1, TownAssumption, NextInv DEF Town
<1>5. CASE about = "stickers"
  <2>1. StickersInv /\ [Stickers!Next]_(Stickers!vars)
    BY <1>5 DEF Town, WorldNext, all, Stickers!vars, s1, s2, s3, s4, s5, s6, s7, s8
  <2> QED BY <1>1, <1>5, <2>1, TownAssumption, StickersNext DEF Town
<1>6. CASE about = "files"
  <2>1. FilesInv /\ [Files!Next]_(Files!vars)
    BY <1>6 DEF Town, WorldNext, all, Files!vars, s1, s2, s3, s4, s5, s6, s7, s8, s9
  <2> QED BY <1>1, <1>6, <2>1, TownAssumption, FilesNext DEF Town
<1>7. CASE about = "limiter"
  <2>1. LimiterInv /\ [Limiter!Next]_(Limiter!vars)
    BY <1>7 DEF Town, WorldNext, all, Limiter!vars, s1, s2, s3, s4
  <2> QED BY <1>1, <1>7, <2>1, LimiterNext DEF Town
<1>8. CASE about = "replies"
  <2>1. RepliesInv /\ [Replies!Next]_(Replies!vars)
    BY <1>8 DEF Town, WorldNext, all, Replies!vars, s1, s2, s3, s4, s5, s6, s7, s8, s9, s10, s11,
                s12
  <2> QED BY <1>1, <1>8, <2>1, TownAssumption, RepliesNext DEF Town
<1>9. CASE about = "comments"
  <2>1. CommentsInv /\ [Comments!Next]_(Comments!vars)
    BY <1>9 DEF Town, WorldNext, all, Comments!vars, s1, s2, s3, s4, s5, s6, s7, s8, s9, s10, s11
  <2> QED BY <1>1, <1>9, <2>1, CommentsNext DEF Town
<1>10. CASE about = "group"
  <2>1. GroupInv /\ [Group!Next]_(Group!vars)
    BY <1>10 DEF Town, WorldNext, all, Group!vars, s1, s2, s3, s4, s5, s6, s7, s8, s9, s10
  <2> QED BY <1>1, <1>10, <2>1, TownAssumption, GroupNext DEF Town
<1> QED BY <1>1, <1>2, <1>3, <1>4, <1>5, <1>6, <1>7, <1>8, <1>9, <1>10 DEF Town

\* What the run checks of users, groups and their members, of bottles, of
\* coins, gifts and affection, of what the bot is told and says, and of what
\* several callers share.
LEMMA TownMeans ==
    Town => /\ MembersKept /\ BottlesKept /\ WealthAddsUp /\ GivenOnce
            /\ SharedKept /\ ToldOnce /\ GroupFaithful
<1>1. Town => MembersKept
  BY TownAssumption, Members!InvMeans DEF Town, MembersKept
<1>2. Town => BottlesKept
  BY TownAssumption, Bottles!InvMeans DEF Town, BottlesKept
<1>3. Town => WealthAddsUp /\ GivenOnce
  BY TownAssumption, InvTypes, InvSums, InvGives DEF Town, WealthAddsUp, GivenOnce
<1>4. Town => SharedKept
  BY FilesMeans, LimiterMeans DEF Town, SharedKept, StickersInv
<1>5. Town => ToldOnce
  BY TownAssumption, RepliesMeans, CommentsMeans DEF Town, ToldOnce
<1>6. Town => GroupFaithful
  BY TownAssumption, GroupMeans DEF Town, GroupFaithful
<1> QED BY <1>1, <1>2, <1>3, <1>4, <1>5, <1>6

\* Town holds in every reachable state of the world.
LEMMA TownInvariance == WorldSpec => []Town
BY InitTown, NextTown, PTL DEF WorldSpec

\* A snapshot says what is written, the cache knows nobody without a row,
\* appointments do not go round in a circle, and the bot leaves a barred group,
\* for any users, and however their handlers overlap (user.py, association.py,
\* ops.py).
THEOREM MembersHold == WorldSpec => []MembersKept
BY TownMeans, TownInvariance, PTL

\* Bottles are destroyed by their owners only, those of a banned member are
\* gone, and an answer goes where it was meant to, once for each choice
\* (bottle.py).
THEOREM BottlesHold == WorldSpec => []BottlesKept
BY TownMeans, TownInvariance, PTL

\* Coins, affection and the histogram are what they were plus what happened,
\* unless a document was written over a newer one (user.py, affection.py).
THEOREM WealthHolds == WorldSpec => []WealthAddsUp
BY TownMeans, TownInvariance, PTL

\* A gift, the coins of a day and what was forgotten are as they should be,
\* unless the process stopped or two handlers met (gift/service.py).
THEOREM GivenHolds == WorldSpec => []GivenOnce
BY TownMeans, TownInvariance, PTL

\* Vectors are those of the stickers that are kept, cached workspaces are open
\* and bounded and lose no edit, and the limiter lets no client have more than
\* its budget in any window (sticker_vec.py, workspace.py, ratelimit.py).
THEOREM SharedHolds == WorldSpec => []SharedKept
BY TownMeans, TownInvariance, PTL

\* However answers overlap and sends fail, what arrives of one arrives in order
\* and once, rich messages are paused for that many failures only, and a
\* follow-up answers what has arrived; an album has one comment, and each is
\* charged for before it is said (output.py, channel_comment.py).
THEOREM ToldHolds == WorldSpec => []ToldOnce
BY TownMeans, TownInvariance, PTL

\* A prompt's references go to pictures the model has, pictures keep to the
\* order of their messages, and while there are no follow-ups numbers are unique
\* and nothing is sent twice or left out unseen (input_format.py, runner.py).
THEOREM GroupHolds == WorldSpec => []GroupFaithful
BY TownMeans, TownInvariance, PTL
=============================================================================
