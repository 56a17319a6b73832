----------------------------- MODULE GroupPrompt -----------------------------
(* What the turns of one conversation put into their prompts in a group      *)
(* (plugins/agent/input_format.py): the messages nearby, the images and      *)
(* their numbers, and the cursor that keeps later turns from sending the     *)
(* same again (state.PromptCoverage, runner.advance_prompt_coverage).        *)
EXTENDS Integers, Sequences, FiniteSetTheorems

CONSTANTS Seasons,   \* what there may be: records [turns, posts, messages]: the kinds
                     \* of turns (wake, follow, ask); what may be posted, records
                     \* [mine, file, sticker] (whose message, and its media); how much
          None,      \* no media
          Nearby,    \* agent_group_context_nearby_message_count
          Limit,     \* _effective_budget
          MaxMedia,  \* _COVERAGE_MAX_MEDIA
          MaxTurns, MaxForgets

VARIABLES chat,      \* the group's messages; a message's id is its place
          turn,      \* the turn under way: see Idle
          cursor,    \* agent_prompt_coverage
          shown,     \* messages in the prompts that the stored history holds
          images,    \* and the images in them: records [file, number]
          turns, forgets,
          last,      \* (history) the newest message answered since the history began
          again,     \* (history) files delivered although an earlier turn had stored them
          season     \* the one it is

vars == <<chat, turn, cursor, shown, images, turns, forgets, last, again, season>>

Parameters == /\ Nearby \in Nat /\ Limit \in Nat /\ MaxMedia \in Nat
              /\ \A s \in Seasons : IsFiniteSet(s.posts)

Files == {p.file : p \in season.posts} \ {None}
NoNumbers == [i \in {} |-> 0]
NoCursor == [last |-> 0, sent |-> [f \in {} |-> 0], next |-> 1]
Idle == [kind |-> "idle", of |-> 0, lines |-> {}, hidden |-> {},
         fresh |-> NoNumbers, refs |-> NoNumbers]

Init == /\ chat = <<>> /\ turn = Idle /\ cursor = NoCursor /\ shown = {} /\ images = {}
        /\ turns = 0 /\ forgets = 0 /\ last = 0 /\ again = {} /\ season \in Seasons

MaxOf(S) == IF S = {} THEN 0 ELSE CHOOSE n \in S : \A o \in S : o <= n
Values(f) == {f[i] : i \in DOMAIN f}

-----------------------------------------------------------------------------
(* Somebody writes, perhaps in reply to an earlier message. *)
Post(p, reply) ==
    /\ Len(chat) < season.messages
    /\ chat' = Append(chat, [mine |-> p.mine, file |-> p.file, sticker |-> p.sticker,
                             reply |-> reply])
    /\ UNCHANGED <<turn, cursor, shown, images, turns, forgets, last, again, season>>

-----------------------------------------------------------------------------
(* _fetch_nearby, and what build_group_prompt leaves of it: not the message  *)
(* answered to, and not what the cursor says was delivered.  Mutant: one     *)
(* message too many is left out.                                             *)
Window(m) == {i \in 1..m - 1 : i >= m - Nearby} \ {chat[m].reply}
Hidden_Above(i, c) == i <= c.last + 1
Hidden(i, c) == i <= c.last

Reply(m) == {chat[m].reply} \ {0}
(* keep_media: media of the past is the speaker's own, and no sticker. *)
Eligible(m, nearby) ==
    {i \in {m} \cup Reply(m) : chat[i].file # None}
    \cup {i \in nearby : chat[i].file # None /\ chat[i].mine = chat[m].mine /\ ~chat[i].sticker}

(* allocate_budget: from the newest message back, until one image too many;  *)
(* a file seen before, in an earlier turn or a newer message, is referenced. *)
Newer(i, S) == {o \in S : o > i}
Candidates(media, c) ==
    {i \in media : /\ chat[i].file \notin DOMAIN c.sent
                   /\ \A o \in Newer(i, media) : chat[o].file # chat[i].file}
Winners(media, c) ==
    {i \in Candidates(media, c) : Cardinality(Newer(i, Candidates(media, c))) < Limit}
References(media, c) ==
    {i \in media \ Winners(media, c) :
        \A o \in Candidates(media, c) \ Winners(media, c) : i > o}

(* Fresh numbers go up with the messages' age, above all numbers given so    *)
(* far.  Mutants: the newest image first; from one in every turn.            *)
First_One(c) == 1
First(c) == MaxOf({c.next} \cup {n + 1 : n \in Values(c.sent)})
Numbered_NewestFirst(got, c) ==
    [i \in got |-> First(c) + Cardinality({o \in got : o > i})]
Numbered(got, c) == [i \in got |-> First(c) + Cardinality({o \in got : o < i})]
NumberOf(i, fresh, c) ==
    IF chat[i].file \in DOMAIN c.sent THEN {c.sent[chat[i].file]}
    ELSE {fresh[o] : o \in {o \in DOMAIN fresh : chat[o].file = chat[i].file}}
(* A file that could not be downloaded is not referred to.  Mutant: it is,   *)
(* by the number zero.                                                       *)
Referenced_Zero(refs, fresh, c) == [i \in refs |-> MaxOf(NumberOf(i, fresh, c))]
Referenced(refs, fresh, c) ==
    [i \in {i \in refs : NumberOf(i, fresh, c) # {}} |-> MaxOf(NumberOf(i, fresh, c))]

(* A turn's prompt.  The images it downloads are among the winners.  A       *)
(* follow-up looks at no cursor and at nothing nearby; the answer to a       *)
(* question is one line of its own.                                          *)
Prompt(kind, m, nearby, c) ==
    LET media == Eligible(m, nearby)
    IN {[kind |-> kind, of |-> m, lines |-> nearby, hidden |-> Window(m) \ nearby,
         fresh |-> Numbered(got, c),
         refs |-> Referenced(References(media, c), Numbered(got, c), c)] :
            got \in SUBSET Winners(media, c)}
Starts(kind) == turn = Idle /\ kind \in season.turns /\ turns < MaxTurns /\ turns' = turns + 1
Kept == UNCHANGED <<chat, cursor, shown, images, forgets, last, again, season>>
Wake(m) == /\ Starts("wake") /\ chat[m].mine
           /\ turn' \in Prompt("wake", m, {i \in Window(m) : ~Hidden(i, cursor)}, cursor)
           /\ Kept
Follow(m) == /\ Starts("follow") /\ chat[m].mine
             /\ turn' \in {[t EXCEPT !.hidden = {}] : t \in Prompt("follow", m, {}, NoCursor)}
             /\ Kept
Ask(m) == /\ Starts("ask") /\ ~chat[m].mine
          /\ turn' = [Idle EXCEPT !.kind = "ask", !.of = m]
          /\ Kept

-----------------------------------------------------------------------------
(* A run that ends without an error stores its history and then moves the    *)
(* cursor; another leaves both.  Only a wake reports its images.  Mutant:    *)
(* only this turn's are remembered.                                          *)
Delivered == {[file |-> chat[i].file, number |-> turn.fresh[i]] : i \in DOMAIN turn.fresh}
Reported == IF turn.kind = "wake" THEN Delivered ELSE {}
NextNumber_Kept(c) == c.next    \* mutant
NextNumber(c) == MaxOf({c.next} \cup {r.number + 1 : r \in Reported})
Sent_Only(old) == [f \in {r.file : r \in Reported} |->
                     (CHOOSE r \in Reported : r.file = f).number]
Sent(old) == [f \in {r.file : r \in Reported} \cup DOMAIN old |->
                IF f \in {r.file : r \in Reported}
                THEN (CHOOSE r \in Reported : r.file = f).number ELSE old[f]]
Advanced(c) == [last |-> MaxOf({c.last, turn.of}),
                sent |-> IF Cardinality(DOMAIN Sent(c.sent)) > MaxMedia THEN Sent(NoNumbers)
                         ELSE Sent(c.sent),
                next |-> NextNumber(c)]
Store == /\ turn # Idle /\ turn' = Idle
         /\ cursor' = Advanced(cursor)
         /\ shown' = shown \cup turn.lines \cup (IF turn.kind = "ask" THEN {}
                                                 ELSE {turn.of} \cup Reply(turn.of))
         /\ images' = images \cup Delivered
         /\ last' = MaxOf({last, turn.of})
         /\ again' = again \cup ({r.file : r \in Delivered} \cap {r.file : r \in images})
         /\ UNCHANGED <<chat, turns, forgets, season>>
Fail == turn # Idle /\ turn' = Idle /\ UNCHANGED turns /\ Kept

(* /forget, or the time to live of both. *)
Forget == /\ turn = Idle /\ forgets < MaxForgets /\ forgets' = forgets + 1
          /\ cursor' = NoCursor /\ shown' = {} /\ images' = {} /\ last' = 0 /\ again' = {}
          /\ UNCHANGED <<chat, turn, turns, season>>

Next == \/ \E p \in season.posts, reply \in 0..Len(chat) : Post(p, reply)
        \/ \E m \in DOMAIN chat : Wake(m) \/ Follow(m) \/ Ask(m)
        \/ Store \/ Fail \/ Forget
Spec == Init /\ [][Next]_vars

-----------------------------------------------------------------------------
(* Transcribe mode (apply_transcriptions): the n-th image's description goes *)
(* to the n-th line with an image_number attribute.  Only lines of the       *)
(* history section have that; the message answered and the one it replies to *)
(* say 图N instead.                                                          *)
Place(i, S) == Cardinality({o \in S : o <= i})
Attributed == DOMAIN turn.fresh \cap turn.lines
Described(i) == {o \in DOMAIN turn.fresh :
    Place(turn.fresh[o], Values(turn.fresh)) = Place(i, Attributed)}

-----------------------------------------------------------------------------
(* Variables keep to their types; the next number is free.                   *)
TypeOK == /\ cursor.last \in 0..Len(chat) /\ DOMAIN cursor.sent \subseteq Files
          /\ Cardinality(DOMAIN cursor.sent) <= MaxMedia + Limit
          /\ \A n \in Values(cursor.sent) : n < cursor.next
          /\ turn.lines \subseteq 1..Len(chat) /\ shown \subseteq 1..Len(chat)

(* Numbers are monotonic across the conversation (input_format.py:216): no   *)
(* two images the model has been sent, nor one of them and one of this turn, *)
(* share a number.  This is so while there are no follow-ups.                *)
Held == images \cup Delivered
NumbersGlobal == \A r, s \in Held : r.number = s.number => r = s
NumbersApart == "follow" \notin season.turns => NumbersGlobal

(* What a prompt refers to by a number is the image that was sent under it,  *)
(* in an earlier turn or in this one.                                        *)
ReferencesResolve == \A i \in DOMAIN turn.refs :
    [file |-> chat[i].file, number |-> turn.refs[i]] \in Held

(* While the cursor holds all files, an image that an earlier wake delivered *)
(* is not downloaded again.                                                  *)
DeliveredOnce == "follow" \notin season.turns /\ Cardinality(Files) <= MaxMedia => again = {}

(* "nearby messages at or below this id were delivered in a previous turn    *)
(* (same conversation), so their re-appearance is skipped" (state.py:20).    *)
SkippedWereDelivered == turn.of > last => turn.hidden \subseteq shown
SkippedAfterWakes == season.turns = {"wake"} => SkippedWereDelivered

(* A line that gets a description gets its own image's, if the message       *)
(* replied to has no new image older than the line.                          *)
DescribedInOrder == \A i \in Attributed :
    (\A o \in DOMAIN turn.fresh \ Attributed : o > i) => Described(i) = {i}

(* "fold the texts back into the markdown as the transcribed attribute of    *)
(* the matching image_number" (input_format.py:715).                         *)
DescribedAsNumbered == /\ \A i \in Attributed : Described(i) = {i}
                       /\ turn.kind = "wake" => Attributed = DOMAIN turn.fresh
=============================================================================
