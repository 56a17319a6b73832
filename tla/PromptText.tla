------------------------------ MODULE PromptText ------------------------------
(* The pure parts of what a model is sent: how a history is split and        *)
(* trimmed around a compaction (plugins/agent/history.py), how its pictures  *)
(* are replaced by descriptions, how a message's entities become Markdown    *)
(* and how much of a chain of replies is quoted (plugins/agent/prompt.py).   *)
(* Every behaviour takes one input and computes one result; the properties   *)
(* compare it with what it is meant to be.                                   *)
EXTENDS Integers, FiniteSets, Sequences, SequencesExt

CONSTANTS Messages,  \* the menu of messages: sequences of parts, see Part
          MaxLen,    \* how long a history may be
          MaxItems,  \* agent_multimodal_max_items
          Widths,    \* texts, as the UTF-16 widths of their characters
          Entities,  \* sets of entities [offset, length]
          Senders    \* who wrote the messages of a chain: "bot" or others

(* A part is a tool call, the answer to one (a return or a retry prompt), or *)
(* content; a return may be a picture, and a user prompt is a sequence.      *)
Part(kind, id, content) == [kind |-> kind, id |-> id, content |-> content]
Say == Part("say", 0, <<"text">>)
Call(id) == Part("call", id, <<>>)
Back(id, item) == Part("return", id, <<item>>)
Retry(id) == Part("retry", id, <<>>)
User(content) == Part("user", 0, content)

VARIABLES job,   \* the function, or done
          old,   \* the history
          new,   \* and the result
          text,  \* widths, entities and the pieces of the Markdown
          chain  \* the chain of replies, oldest first, and what is quoted of it

vars == <<job, old, new, text, chain>>

Histories == UNION {[1..n -> Messages] : n \in 1..MaxLen}
Init == \/ /\ job \in {"compact", "transcribe"} /\ old \in Histories /\ new = <<>>
           /\ text = [widths |-> <<>>, entities |-> {}, pieces |-> <<>>]
           /\ chain = [all |-> <<>>, quoted |-> <<>>]
        \/ /\ job = "markdown" /\ old = <<>> /\ new = <<>>
           /\ text \in {[widths |-> w, entities |-> e, pieces |-> <<>>] :
                            w \in Widths, e \in Entities}
           /\ chain = [all |-> <<>>, quoted |-> <<>>]
        \/ /\ job = "chain" /\ old = <<>> /\ new = <<>>
           /\ text = [widths |-> <<>>, entities |-> {}, pieces |-> <<>>]
           /\ chain \in {[all |-> s, quoted |-> <<>>] :
                            s \in UNION {[1..n -> Senders] : n \in 1..MaxLen + 1}}

-----------------------------------------------------------------------------
(* find_deferred_tool_call_index: the last message with a call that nothing  *)
(* answers.  Mutants: nothing is set aside, or the tail is the whole history. *)
Parts(h) == UNION {{h[i][j] : j \in DOMAIN h[i]} : i \in DOMAIN h}
Resolved(h) == {p.id : p \in {p \in Parts(h) : p.kind \in {"return", "retry"}}}
Deferred(h) == {i \in DOMAIN h : \E j \in DOMAIN h[i] :
                    h[i][j].kind = "call" /\ h[i][j].id \notin Resolved(h)}
Prefix_All(h) == h
Prefix(h) == IF Deferred(h) = {} THEN h
             ELSE SubSeq(h, 1, (CHOOSE i \in Deferred(h) : \A o \in Deferred(h) : o <= i) - 1)
Tail_Whole(h) == h
Tail_(h) == SubSeq(h, Len(Prefix(h)) + 1, Len(h))

(* What the compaction makes of the prefix is up to the harness: here, a     *)
(* summary and what is left of it, without a call left unanswered.           *)
Summary == <<User(<<"text">>)>>
Shorter(h) == {<<Summary>> \o SubSeq(h, n, Len(h)) : n \in 2..Len(h) + 1} \cup {h}

(* truncate_multimodal: pictures in user prompts, and returns that are one.  *)
(* The oldest go first; a placeholder stays.  Mutant: the newest go first.   *)
Pic == {"a", "b"}
Places(h) == {p \in (DOMAIN h) \X (1..3) \X (1..3) :
                  p[2] \in DOMAIN h[p[1]] /\ p[3] \in DOMAIN h[p[1]][p[2]].content}
Pictures(h) == {p \in Places(h) : /\ h[p[1]][p[2]].kind \in {"user", "return"}
                                  /\ h[p[1]][p[2]].content[p[3]] \in Pic}
InOrder(S, less(_, _)) ==
    [n \in 1..Cardinality(S) |-> CHOOSE x \in S : Cardinality({y \in S : less(y, x)}) = n - 1]
Before(x, y) == \/ x[1] < y[1]
                \/ x[1] = y[1] /\ (x[2] < y[2] \/ (x[2] = y[2] /\ x[3] < y[3]))
Excess(h) == Cardinality(Pictures(h)) - MaxItems
Removed_Newest(h) == {x \in Pictures(h) : Cardinality({y \in Pictures(h) : Before(x, y)}) < Excess(h)}
Removed(h) == {x \in Pictures(h) : Cardinality({y \in Pictures(h) : Before(y, x)}) < Excess(h)}
Replace(h, places, by) ==
    [i \in DOMAIN h |-> [j \in DOMAIN h[i] |->
        [h[i][j] EXCEPT !.content =
            [k \in DOMAIN @ |-> IF <<i, j, k>> \in places THEN by[<<i, j, k>>] ELSE @[k]]]]]
Truncated(h) == IF MaxItems > 0 THEN Replace(h, Removed(h), [x \in Removed(h) |-> "removed"]) ELSE h

(* compact_history: an error of the compaction leaves the history as it was, *)
(* and so does a history with nothing before the open call.                  *)
Compact == /\ job = "compact" /\ job' = "compacted"
           /\ IF Prefix(old) = <<>> THEN new' = old
              ELSE \/ \E p \in Shorter(Prefix(old)) : new' = Truncated(p \o Tail_(old))
                   \/ new' = old
           /\ UNCHANGED <<old, text, chain>>

-----------------------------------------------------------------------------
(* transcribe_multimodal_history: the pictures are collected first, and each *)
(* described on its own, or not; then the descriptions are handed out in the *)
(* same order.  Mutant: those that failed are left out.                      *)
Ordered(h) == InOrder(Pictures(h), Before)
At(h, x) == h[x[1]][x[2]].content[x[3]]
Of == [a |-> "of a", b |-> "of b"]
Description(failed, x, h) == IF x \in failed THEN "failed" ELSE Of[At(h, x)]
Replies_Compact(h, failed) ==
    SelectSeq([n \in DOMAIN Ordered(h) |-> Description(failed, Ordered(h)[n], h)],
              LAMBDA d : d # "failed") \o [n \in 1..Cardinality(failed) |-> "failed"]
Replies(h, failed) == [n \in DOMAIN Ordered(h) |-> Description(failed, Ordered(h)[n], h)]
Transcribe ==
    /\ job = "transcribe" /\ job' = "transcribed"
    /\ \E failed \in SUBSET Pictures(old) :
          LET Nth == [x \in Pictures(old) |->
                        Replies(old, failed)[Cardinality({y \in Pictures(old) : Before(y, x)}) + 1]]
          IN new' = Replace(old, Pictures(old), Nth)
    /\ UNCHANGED <<old, text, chain>>

-----------------------------------------------------------------------------
(* entities_to_markdown: spans by offset, the longer of two first; one that  *)
(* begins inside an earlier one is skipped.  A character belongs to the span *)
(* its first code unit is in.  Mutant: nothing is skipped.                   *)
Total(w) == FoldLeft(+, 0, w)
Start(w, c) == Total(SubSeq(w, 1, c - 1))
Slice(w, from, to) == SelectSeq([c \in DOMAIN w |-> c],
                                LAMBDA c : from <= Start(w, c) /\ Start(w, c) < to)
First(x, y) == x.offset < y.offset \/ (x.offset = y.offset /\ x.length > y.length)
Overlaps_Never(e, cursor) == FALSE
Overlaps(e, cursor) == e.offset < cursor
EndOf(e, w) == IF e.offset + e.length > Total(w) THEN Total(w) ELSE e.offset + e.length
Piece(format, s) == [format |-> format, chars |-> s]
Put(w, acc, e) ==
    IF e.offset >= Total(w) \/ Overlaps(e, acc.cursor) THEN acc
    ELSE [cursor |-> EndOf(e, w),
          pieces |-> acc.pieces \o <<Piece(FALSE, Slice(w, acc.cursor, e.offset)),
                                     Piece(TRUE, Slice(w, e.offset, EndOf(e, w)))>>]
Markdown ==
    /\ job = "markdown" /\ job' = "marked"
    /\ LET w == text.widths
           Step(acc, e) == Put(w, acc, e)
           done == FoldLeft(Step, [cursor |-> 0, pieces |-> <<>>],
                            InOrder(text.entities, First))
       IN text' = [text EXCEPT !.pieces =
                      Append(done.pieces, Piece(FALSE, Slice(w, done.cursor, Total(w))))]
    /\ UNCHANGED <<old, new, chain>>

-----------------------------------------------------------------------------
(* get_input_prompt: a chain in which the bot and others alternate, from the *)
(* message that is replied to back, is in the history already.  Mutant: who  *)
(* wrote the older message of a pair does not matter.                        *)
Turnabout_BotOnly(s, i) == s[i] = "bot"
Turnabout(s, i) == s[i] = "bot" /\ s[i - 1] # "bot"
FromHistory(s) == Len(s) >= 2 /\ \A k \in 0..Len(s) :
                      Len(s) - 2 * k >= 2 => Turnabout(s, Len(s) - 2 * k)
Quote == /\ job = "chain" /\ job' = "quoted"
         /\ chain' = [chain EXCEPT !.quoted =
                         IF FromHistory(chain.all) THEN <<Last(chain.all)>> ELSE chain.all]
         /\ UNCHANGED <<old, new, text>>

Next == Compact \/ Transcribe \/ Markdown \/ Quote
Spec == Init /\ [][Next]_vars

-----------------------------------------------------------------------------
RemovedAt(h) == {p \in Places(h) : h[p[1]][p[2]].content[p[3]] = "removed"}
Erase(h) == Replace(h, Pictures(h) \cup RemovedAt(h), [x \in Pictures(h) \cup RemovedAt(h) |-> "removed"])
IsSuffix_(s, t) == Len(s) <= Len(t) /\ SubSeq(t, Len(t) - Len(s) + 1, Len(t)) = s
Shown(h) == [n \in DOMAIN Ordered(h) |-> At(h, Ordered(h)[n])]

(* A compaction leaves the last open call and all that follows it in place,  *)
(* but for pictures, so that the answer still finds it (history.py:297).     *)
FromOpenCall(h) == {i \in DOMAIN h : \E o \in Deferred(h) : (\A n \in Deferred(h) : n <= o) /\ o <= i}
OpenCallKept == job = "compacted" => \A i \in FromOpenCall(old) : IsSuffix_(Erase(SubSeq(old, i, Len(old))), Erase(new))

(* "the deferred call and everything after it survive verbatim"              *)
(* (history.py:296): pictures behind the open call may go too.               *)
TailVerbatim == job = "compacted" => 
    \A i \in FromOpenCall(old) : IsSuffix_(SubSeq(old, i, Len(old)), new)

(* A compaction that goes through leaves at most MaxItems pictures, and the  *)
(* newest ones; nothing is trimmed while there are few enough.               *)
NewestPicturesKept == job = "compacted" /\ new # old =>
    /\ Cardinality(Pictures(new)) <= MaxItems
    /\ IsSuffix_(Shown(new), Shown(old))

(* No picture is left in a history that was transcribed, and each is         *)
(* replaced by its own description, whichever of them failed.                *)
EachItsOwn == job = "transcribed" =>
    /\ Pictures(new) = {}
    /\ \A x \in Pictures(old) : At(new, x) \in {"failed", Of[At(old, x)]}
    /\ Replace(new, Pictures(old), [x \in Pictures(old) |-> At(old, x)]) = old

(* Markdown keeps every character of the text, once and in order, however    *)
(* the entities nest, overlap or split a character.                          *)
TextKept == job = "marked" =>
    FlattenSeq([n \in DOMAIN text.pieces |-> text.pieces[n].chars])
        = [c \in DOMAIN text.widths |-> c]

(* What is not quoted of a chain was part of an alternation, except for the  *)
(* oldest message of an odd chain, which nobody looks at.                    *)
OnlyHistoryDropped == job = "quoted" /\ chain.quoted # chain.all =>
    /\ Last(chain.quoted) = Last(chain.all)
    /\ \A i \in 2..Len(chain.all) : (chain.all[i] = "bot") # (chain.all[i - 1] = "bot")
                                    \/ (i = 2 /\ Len(chain.all) % 2 = 1)

(* A behaviour has one result, and the pictures of a history are in place.   *)
TypeOK == /\ job \in {"compact", "transcribe", "markdown", "chain",
                      "compacted", "transcribed", "marked", "quoted"}
          /\ job = "compacted" => Len(new) <= Len(old) + 1
=============================================================================
