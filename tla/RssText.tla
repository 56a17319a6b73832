-------------------------------- MODULE RssText --------------------------------
(* The markup of an RSS message (services/rss): the body of an entry is      *)
(* reduced to the tags Telegram knows, cut to a limit and balanced; the      *)
(* rendered message is cut again where a photo's caption is shorter.  A text *)
(* is a sequence of pieces: a character, a tag, an escaped character, a line *)
(* or paragraph break, or a block of code, which is held by a placeholder    *)
(* while the text is cut.  What a cut leaves of a piece is a "fragment".     *)
EXTENDS Integers, Sequences, SequencesExt, FiniteSetsExt

CONSTANTS Piece,    \* pieces a body may have: [kind, tag]
          MaxLen,   \* pieces of a body
          Limit,    \* _MAX_SUMMARY_LEN
          Room      \* limit of a delivery

VARIABLE body       \* the body of an entry, its tags mapped to the kept ones

Init == body = <<>>
Next == Len(body) < MaxLen /\ \E p \in Piece : body' = Append(body, p)
Spec == Init /\ [][Next]_body

-----------------------------------------------------------------------------
(* Lengths in characters; a placeholder is \x00, a number and \x00.          *)
Width(p) == CASE p.kind = "open" -> 3 [] p.kind = "close" -> 4 [] p.kind = "escaped" -> 5
              [] p.kind = "code" -> 3 [] p.kind = "paragraph" -> 2 [] OTHER -> 1
Start(t, i) == FoldLeft(LAMBDA n, p : n + Width(p), 0, SubSeq(t, 1, i - 1))
Length(t) == Start(t, Len(t) + 1)
Fragment == [kind |-> "fragment", tag |-> "-"]

(* text[:n]: what begins before n; of the last piece perhaps a fragment.     *)
Until(t, n) == {i \in DOMAIN t : Start(t, i) < n}
Cut(t, n) == LET k == Max({0} \cup Until(t, n))
             IN IF k = 0 \/ Start(t, k) + Width(t[k]) <= n THEN SubSeq(t, 1, k)
                ELSE SubSeq(t, 1, k - 1)
                     \o (CASE t[k].kind = "code" -> <<>>
                           [] t[k].kind = "paragraph" -> <<[kind |-> "line", tag |-> "-"]>>
                           [] OTHER -> <<Fragment>>)

(* _balance_tags: a closing tag is kept if it closes the innermost open one, *)
(* and the tags that are left open are dropped, in one pass with a stack of  *)
(* places.  Mutants: what is left open stays; it goes with its content.      *)
Closes(t, stack, p) == stack # <<>> /\ t[Last(stack)].tag = p.tag
Reads(t, acc, i) ==
  CASE t[i].kind = "open" -> [acc EXCEPT !.stack = Append(@, i)]
    [] t[i].kind = "close" /\ Closes(t, acc.stack, t[i]) -> [acc EXCEPT !.stack = Front(@)]
    [] t[i].kind = "close" -> [acc EXCEPT !.dropped = @ \cup {i}]
    [] OTHER -> acc
Dropped_Strays(t, acc) == acc.dropped
Dropped_Content(t, acc) == acc.dropped \cup UNION {k..Len(t) : k \in Range(acc.stack)}
Dropped(t, acc) == acc.dropped \cup Range(acc.stack)
Kept(t, gone) == FoldLeft(LAMBDA out, i : IF i \in gone THEN out ELSE Append(out, t[i]),
                          <<>>, [i \in DOMAIN t |-> i])
Balance(t) == Kept(t, Dropped(t, FoldLeft(LAMBDA acc, i : Reads(t, acc, i),
                                          [stack |-> <<>>, dropped |-> {}], [i \in DOMAIN t |-> i])))

(* _collapse_lines: no blank at either end, and one blank line at most.      *)
Blank(p) == p.kind \in {"line", "paragraph"}
Layout(t) == [i \in DOMAIN t |-> IF i < Len(t) /\ Blank(t[i]) /\ Blank(t[i + 1])
                                 THEN [kind |-> "paragraph", tag |-> "-"] ELSE t[i]]
Collapse(t) == LET text == {i \in DOMAIN t : ~Blank(t[i])}
                   Keeps(i) == Blank(t[i]) => /\ \E k \in text : k < i
                                              /\ \E k \in text : k > i
                                              /\ ~Blank(t[i - 1])
               IN Kept(Layout(t), {i \in DOMAIN t : ~Keeps(i)})

(* _sanitize_html, from the layout on: the blocks come back after the cut.   *)
Block == <<[kind |-> "open", tag |-> "code"], [kind |-> "letter", tag |-> "-"], [kind |-> "close", tag |-> "code"]>>
Restored(t) == FoldLeft(LAMBDA out, p : out \o (IF p.kind = "code" THEN Block ELSE <<p>>), <<>>, t)
Sanitize(t) == Balance(Restored(Cut(Collapse(t), Limit)))

(* render_entry puts the titles above the body; truncate_for_delivery cuts   *)
(* at the last paragraph, or line, of the second half, or else anywhere.     *)
(* Mutant: the second half is not asked for.                                 *)
Letter == [kind |-> "letter", tag |-> "-"]
Render(t) == <<[kind |-> "open", tag |-> "b"], Letter, [kind |-> "close", tag |-> "b"]>>
             \o (IF t = <<>> THEN <<>> ELSE <<[kind |-> "paragraph", tag |-> "-"]>> \o t)
Breaks(t, kinds) == {Start(t, i) : i \in {i \in DOMAIN t : /\ t[i].kind \in kinds
                                                           /\ Start(t, i) + Width(t[i]) <= Room}}
Far_Any(n) == n > 0
Far(n) == n >= Room \div 2
CutAt(t) == LET p == Max({0} \cup Breaks(t, {"paragraph"}))
                l == Max({0} \cup Breaks(t, {"paragraph", "line"}))
            IN IF Far(p) THEN p ELSE IF Far(l) THEN l ELSE Room
Trimmed(t) == LET text == {i \in DOMAIN t : ~Blank(t[i])} IN SubSeq(t, 1, Max({0} \cup text))
Ellipsis == <<[kind |-> "ellipsis", tag |-> "-"], Letter>>
Truncate(t) == IF Length(t) <= Room THEN t ELSE Balance(Trimmed(Cut(t, CutAt(t)))) \o Ellipsis

-----------------------------------------------------------------------------
(* Tags are nested if taking out pairs that meet leaves none.                *)
Tags(t) == SelectSeq(t, LAMBDA p : p.kind \in {"open", "close"})
Meets(q) == {i \in 1..(Len(q) - 1) : q[i].kind = "open" /\ q[i + 1].kind = "close" /\ q[i].tag = q[i + 1].tag}
Reduce(q) == IF Meets(q) = {} THEN q ELSE LET i == Min(Meets(q)) IN SubSeq(q, 1, i - 1) \o SubSeq(q, i + 2, Len(q))
Nested(t) == FoldLeft(LAMBDA q, k : Reduce(q), Tags(t), t) = <<>>

(* "Telegram never sees an unclosed entity": what is sent is nested.         *)
NeverUnclosed == Nested(Sanitize(body)) /\ Nested(Truncate(Render(Sanitize(body))))

(* Balancing takes nothing but tags, and nothing from a text that is nested. *)
OnlyTagsDropped == /\ Nested(body) => Balance(body) = body
                   /\ SelectSeq(Balance(body), LAMBDA p : p.kind \notin {"open", "close"})
                        = SelectSeq(body, LAMBDA p : p.kind \notin {"open", "close"})

(* A message that is cut keeps at least half of what it may have, but for    *)
(* the tags that are dropped, and has no more than that and the ellipsis.    *)
Visible(t) == Length(SelectSeq(t, LAMBDA p : p.kind \notin {"open", "close", "line", "paragraph", "fragment"}))
HalfKept == LET t == Render(Sanitize(body))
            IN Length(t) > Room =>
                 /\ Length(Truncate(t)) <= Room + 2
                 /\ Visible(Truncate(t)) >= Visible(Cut(t, Room \div 2)) + Visible(Ellipsis)

(* "without breaking HTML" (services/rss/__init__.py:569): a cut leaves no   *)
(* half of a tag.                                                            *)
WithoutBreaking == \A p \in Range(Truncate(Render(Sanitize(body)))) : p.kind # "fragment"
=============================================================================
