------------------------------ MODULE Challenges ------------------------------
(* The questions of the member verification (verify/challenge.py) and how    *)
(* the buttons under them are judged (verify/verify.py): a question is drawn *)
(* with its options, a press arrives some time after the button was shown,   *)
(* and a wrong answer draws another question of the same method.  Texts are  *)
(* left out: an option is the value it shows, a fraction or a statement.     *)
EXTENDS Integers, FiniteSets, FiniteSetsExt

CONSTANTS Trials,     \* set of [method, attempts]: what is tried, verify_max_attempts
          Emoji,      \* EMOJI_POOL
          Questions,  \* verify_questions: sets of [options, answers, select]
          Defaults,   \* bot.msg.verify.default_questions
          MaxPressed  \* presses that are under way at a time

VARIABLES method, allowed,  \* verify_method, verify_max_attempts
          question,  \* payload of the session: options, answers, multi
          selected,  \* options ticked; Nowhere is an index without an option
          left,      \* attempts_left
          outcome,   \* "open", "passed" or "failed"
          number,    \* how many questions were drawn
          shown,     \* the question on the screen, with its number
          pressed,   \* presses under way
          editing,   \* the message is about to be edited
          stale,     \* (history) a press was judged by another question than its own
          missed     \* (history) questions the member answered wrongly

vars == <<method, allowed, question, selected, left, outcome, number, shown, pressed,
          editing, stale, missed>>

-----------------------------------------------------------------------------
(* Numbers are pairs in lowest terms, which is what _fraction prints.        *)
Divisors(n) == {d \in 1..n : n % d = 0}
Fraction_Raw(n, d) == <<n, d>>
Fraction(n, d) == LET g == Max(Divisors(d) \cap {k \in 1..d : n % k = 0})
                  IN <<n \div g, d \div g>>
Whole(n) == <<n, 1>>
Wholes(S) == {Whole(n) : n \in S}
Around(n, S) == Wholes({n + d : d \in S})
Near == {-3, -2, -1, 1, 2, 3}
Draw(answer, candidates) == [answer |-> answer, candidates |-> candidates]

EasyMath == {LET s == a + b IN Draw(Whole(s), Wholes(Max({0, s - 6})..(s + 6)))
             : a \in 2..9, b \in 2..9}

(* Derivative of a x^n at x, integral of k (n + 1) x^n over [0, 1], limit of *)
(* sin(k x) / x at 0.                                                        *)
Derivative == {LET v == a * n * x^(n - 1)
               IN Draw(Whole(v), Around(v, Near \cup {n, -n}) \cup {Whole(a * x^n)})
               : a \in 2..5, n \in 2..4, x \in {1, 2}}
Integral == {Draw(Whole(k), Around(k, Near \cup {n}) \cup {Whole(k * (n + 1))})
             : n \in 1..3, k \in 1..3}
Limit == {Draw(Whole(k), Around(k, Near) \cup {Whole(2 * k)}) : k \in 2..5}
Calculus == Derivative \cup Integral \cup Limit

(* The statements of the translations: of several true ones one is an        *)
(* option, with three of the false ones.                                     *)
Statements(true, false) == {Draw(Whole(t), Wholes({t} \cup {100 + f : f \in 1..false})) : t \in 1..true}
RankNullity == {LET rank == n - nullity
                IN Draw(Whole(nullity), Around(nullity, -2..2) \cup Wholes({n, rank}))
                : n \in 4..6, nullity \in {2, 3}}
DetScale == {Draw(Whole(c^n), Wholes({c * n, c, 1, c + 1, c^n + 1})) : n \in 2..4, c \in 2..3}
LinearAlgebra == Statements(4, 4) \cup Statements(2, 4) \cup Statements(1, 3)
                 \cup RankNullity \cup DetScale

Uniform == {LET b == a + 2 * h
                m == (a + b) \div 2 IN Draw(Whole(m), Around(m, -3..3) \cup Wholes({a, b}))
            : a \in 1..4, h \in 2..4}
Variance == {Draw(Fraction(b * b, 12), {<<4, 3>>, <<1, 3>>, <<1, 2>>, <<2, 3>>} \cup Wholes({3, 12, 4, 9, 16}))
             : b \in {4, 6, 12}}
Exponential == {Draw(Fraction(1, k), {<<1, 2>>, <<1, 3>>, <<1, 4>>, <<1, 5>>, <<2, 3>>, <<1, 1>>}) : k \in 2..4}
Normal == {Draw(<<1, 2>>, {<<1, 2>>, <<1, 3>>, <<1, 4>>, <<2, 3>>, <<3, 4>>})}
Binomial == {Draw(Fraction(n * k, 20), {Fraction(2 * n + i, 4) : i \in {-8, -6, -4, -2, 0, 2, 4, 6, 8}}
                                         \cup Wholes({2, 3}))
             : n \in {8, 10, 12}, k \in {5, 10}}
Poisson == {Draw(Whole(k), Around(k, -2..2) \cup Wholes({2 * k, 1})) : k \in 2..5}
Scaled == {Draw(Whole(3 * c * c), Wholes({3, 6, 9, 12, 18, 27, 36})) : c \in {2, 3}}
Doors(n) == Fraction(n - 1, n * (n - 2))
MontyHall == {Draw(Doors(n), {Doors(m) : m \in 3..5} \cup {<<1, 2>>, <<1, 3>>, <<1, 4>>}) : n \in 3..5}
Largest == {Draw(Fraction(k, k + 1), {Fraction(m, m + 1) : m \in 2..4} \cup {<<1, 2>>, <<1, 3>>, <<5, 6>>}) : k \in {2, 3}}
Chebyshev == {Draw(Fraction(1, k * k), {<<1, n>> : n \in {2, 3, 4, 8, 9, 16}} \cup {<<2, 3>>}) : k \in {2, 3}}
Sum2 == {LET m == (2 * a + w) \div 2
         IN Draw(Fraction(m * k + 1, k), {<<7, 3>>, <<5, 2>>, <<8, 3>>, <<9, 2>>, <<11, 3>>} \cup Wholes({2, 3, 4}))
         : a \in {0, 2, 4}, w \in {4, 6}, k \in {2, 3}}
Moment == {Draw(Fraction(b * b, 3), {<<16, 3>>, <<32, 3>>} \cup Wholes({3, 12, 9, 6, 18, 27, 4})) : b \in {3, 4, 6}}
Probability == UNION {Uniform, Variance, Exponential, Normal, Binomial, Poisson, Scaled,
                      MontyHall, Largest, Chebyshev, Sum2, Moment}

(* The options are the answer and three of the candidates that differ from   *)
(* it.  Mutant: any three of the candidates.                                 *)
Distractors_Any(d) == kSubset(3, d.candidates)
Distractors(d) == kSubset(3, d.candidates \ {d.answer})
Single(answer, others) == [options |-> {answer} \cup others, answers |-> {answer}, multi |-> FALSE]
Drawn(D) == UNION {{Single(d.answer, others) : others \in Distractors(d)} : d \in D}
MakeEmoji == UNION {{Single(e, rest) : rest \in kSubset(5, Emoji \ {e})} : e \in Emoji}

(* make_qa_challenge: one of the valid questions, or of the default ones     *)
(* when no question is valid.  Mutant: a question needs no answer.           *)
Valid_Any(q) == Cardinality(q.options) >= 2
Valid(q) == Cardinality(q.options) >= 2 /\ q.answers # {} /\ q.answers \subseteq q.options
Multi(q) == q.select = "all" /\ Cardinality(q.answers) > 1
MakeQa(Q) == LET valid == {q \in Q : Valid(q)}
             IN {[options |-> q.options, answers |-> q.answers, multi |-> Multi(q)]
                 : q \in IF valid = {} THEN Defaults ELSE valid}

Payloads(m) == CASE m = "math_easy" -> Drawn(EasyMath)
                 [] m = "calculus" -> Drawn(Calculus)
                 [] m = "linear_algebra" -> Drawn(LinearAlgebra)
                 [] m = "probability" -> Drawn(Probability)
                 [] m = "emoji" -> MakeEmoji
                 [] OTHER -> UNION {MakeQa(Q) : Q \in Questions}

-----------------------------------------------------------------------------
Screen(q, n) == [question |-> q, number |-> n]
Init == \E t \in Trials : \E q \in Payloads(t.method) :
          /\ method = t.method /\ allowed = t.attempts /\ left = t.attempts
          /\ question = q /\ number = 1 /\ shown = Screen(q, 1)
          /\ selected = {} /\ outcome = "open" /\ pressed = {} /\ editing = FALSE
          /\ stale = FALSE /\ missed = {}

Nowhere == <<0, 0>>  \* an index past the last option
Submit == <<1, 0>>   \* the button "confirm"

(* The keyboard: a button for each option, and one to confirm where all the  *)
(* answers are asked for.  A button holds its place, not its option.         *)
Buttons(q) == q.options \cup (IF q.multi THEN {Submit} ELSE {})
Press(b) == /\ b \in Buttons(shown.question) /\ Cardinality(pressed) < MaxPressed
            /\ pressed' = pressed \cup {[button |-> b, on |-> shown]}
            /\ UNCHANGED <<method, allowed, question, selected, left, outcome, number,
                           shown, editing, stale, missed>>

(* What a press means to the question in force: its own option, or, if that  *)
(* is another question than the one pressed, whatever is at that place now.  *)
Fresh(p) == p.on.number = number
Meant(p) == IF p.button = Submit THEN {Submit}
            ELSE IF Fresh(p) THEN {p.button} ELSE question.options \cup {Nowhere}
Taken(p) == /\ p \in pressed /\ outcome = "open" /\ pressed' = pressed \ {p}
            /\ stale' = (stale \/ ~Fresh(p))

(* _wrong_answer: one attempt less; none left fails, else another question   *)
(* of the method, and the message is edited.  Mutant: the ticks are kept.    *)
Unticked_Kept(s) == s
Unticked(s) == {}
Wrong == /\ left' = left - 1
         /\ \/ /\ left = 1 /\ outcome' = "failed" /\ UNCHANGED <<question, selected, number, editing>>
            \/ /\ left > 1 /\ question' \in Payloads(method) /\ number' = number + 1
               /\ selected' = Unticked(selected) /\ editing' = TRUE /\ UNCHANGED outcome
Right == outcome' = "passed" /\ UNCHANGED <<question, selected, left, number, editing>>
Tick(o) == /\ selected' = IF o \in selected THEN selected \ {o} ELSE selected \cup {o}
           /\ UNCHANGED <<question, left, outcome, number, editing>>

(* on_verify_callback.  Mutant: one answer will do where all are asked for.  *)
Agrees_Some(s) == s \cap question.answers # {}
Agrees(s) == s # {} /\ s = question.answers
Ticks(o) == question.multi /\ o # Submit
Answered(o) == IF o = Submit THEN selected ELSE {o}
Deserves(s) == s \subseteq question.answers /\ (question.multi => question.answers \subseteq s)
Judge(p) ==
  /\ Taken(p)
  /\ \E o \in Meant(p) :
       /\ CASE Ticks(o) -> Tick(o)
            [] o = Submit -> IF Agrees(selected) THEN Right ELSE Wrong
            [] OTHER -> IF o \in question.answers THEN Right ELSE Wrong
       /\ missed' = IF Ticks(o) \/ Deserves(Answered(o)) THEN missed ELSE missed \cup {number}
  /\ UNCHANGED <<method, allowed, shown>>
Edit == /\ editing /\ outcome = "open" /\ editing' = FALSE
        /\ shown' \in {Screen(question, number), shown}  \* an RPCError leaves the old one
        /\ UNCHANGED <<method, allowed, question, selected, left, outcome, number,
                       pressed, stale, missed>>

Next == \/ \E b \in Buttons(shown.question) : Press(b) /\ outcome = "open"
        \/ \E p \in pressed : Judge(p)
        \/ Edit
Spec == Init /\ [][Next]_vars

-----------------------------------------------------------------------------
(* What is ticked is an option, unless a press outlived its question; and    *)
(* there are attempts left as long as nothing is decided.                    *)
TypeOK == /\ ~stale => selected \subseteq question.options
          /\ outcome # "failed" => left \in 1..allowed

(* A question that is not of the chat's own making has exactly one right     *)
(* option, by its value, among four (six of the emoji).                      *)
Same(v, w) == v[1] * w[2] = w[1] * v[2]
OneRight == method # "custom_qa" =>
              /\ Cardinality(question.options) = IF method = "emoji" THEN 6 ELSE 4
              /\ \A v, w \in question.options : Same(v, w) => v = w
              /\ Cardinality(question.answers \cap question.options) = 1

(* The member can always pass with the buttons on the screen, if the screen  *)
(* is up to date and no press outlived its question: every right option has  *)
(* a button, every tick can be taken back.                                   *)
Passable == outcome = "open" /\ ~stale /\ shown.number = number
              => /\ question.answers # {} /\ question.answers \subseteq Buttons(shown.question)
                 /\ selected \subseteq Buttons(shown.question)

(* A member whose presses were all judged by the question they were made on  *)
(* passes by a right answer (all of them, and no other, where all are asked  *)
(* for) and fails only after a wrong one to each of the questions allowed.   *)
JudgedRightly == ~stale => /\ outcome = "failed" => missed = 1..allowed
                           /\ outcome = "passed" => number \notin missed
=============================================================================
