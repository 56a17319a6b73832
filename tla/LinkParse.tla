------------------------------- MODULE LinkParse -------------------------------
(* A link of a WeChat article or a post is answered with its content         *)
(* (plugins/link_parse.py, services/wechat.py, services/link_parse.py): an   *)
(* article as a rich message with its pictures in their places, else as a    *)
(* group of pictures with a caption, else as rich text; a post as pictures   *)
(* or text.  A page is the sequence of its tokens, a text of it one          *)
(* character long; parsed pages are kept for an hour, in which they are what *)
(* they were.                                                                *)
EXTENDS Integers, Sequences, SequencesExt, Functions

CONSTANTS Pages,       \* the sequences of tokens considered
          MaxImages,   \* _MAX_IMAGES (10 of an article, 5 of a post)
          MaxBody,     \* _MAX_BODY_CHARS
          MaxParagraph \* _MAX_PARAGRAPH_CHARS

(* A text, the bounds of a paragraph or a line break, a picture of WeChat's  *)
(* servers, another one.                                                     *)
Token == {"text", "break", "img", "ad"}
Switch == [group : BOOLEAN, links : BOOLEAN, site : {"on", "off", "unset"}, old : BOOLEAN]

VARIABLES job,      \* the link, its page, and the chat's switches
          at,       \* the await the handler is in
          refs,     \* photos: the picture uploaded for each picture of the body, 0 for none
          got,      \* inputs: the pictures downloaded for a group, 0 for none
          out,      \* what reached the chat
          failures, \* sends that raised
          lost      \* one of those reached the chat all the same

vars == <<job, at, refs, got, out, failures, lost>>

\* extra: the description of an article, the video of a post.
Init == /\ job \in [kind : {"wechat", "social"}, switch : Switch, title : BOOLEAN,
                    extra : BOOLEAN, page : Pages]
        /\ \/ job.switch.group
           \/ job.switch = [group |-> FALSE, links |-> FALSE, site |-> "off", old |-> FALSE]
        /\ at = "gate" /\ refs = <<>> /\ got = <<>> /\ out = <<>> /\ failures = 0 /\ lost = FALSE

-----------------------------------------------------------------------------
(* _blocks_from_html: texts run together until a paragraph or a line ends or *)
(* a picture comes, whosever; pictures beyond the limit are dropped.         *)
Block(kind, size, where) == [kind |-> kind, size |-> size, where |-> where]
Flush(acc, k) == IF acc.open = 0 THEN acc
                 ELSE [acc EXCEPT !.open = 0, !.blocks = Append(@, Block("text", acc.open, k))]
Visit(page, acc, k) ==
    CASE page[k] = "text" -> [acc EXCEPT !.open = @ + 1]
      [] page[k] = "img" /\ acc.images < MaxImages ->
             [Flush(acc, k) EXCEPT !.images = @ + 1, !.blocks = Append(@, Block("image", 0, k))]
      [] OTHER -> Flush(acc, k)
Parsed(page) ==
    Flush(FoldLeftDomain(LAMBDA acc, k : Visit(page, acc, k),
                         [blocks |-> <<>>, open |-> 0, images |-> 0], page),
          Len(page) + 1).blocks
Texts(blocks) == SelectSeq(blocks, LAMBDA b : b.kind = "text")
Pictures(blocks) == SelectSeq(blocks, LAMBDA b : b.kind = "image")

(* parse_article_html: a page without a body is what its description says.   *)
Described == IF job.extra THEN <<Block("text", 1, 1)>> ELSE <<>>
Paragraphs == IF Texts(Parsed(job.page)) = <<>> THEN Described ELSE Texts(Parsed(job.page))
Body == IF Parsed(job.page) = <<>> THEN Paragraphs ELSE Parsed(job.page)
Images == [k \in 1..Len(Pictures(Body)) |-> Pictures(Body)[k].where]

-----------------------------------------------------------------------------
(* build_rich_blocks: title, body and a link.  The body is shown through the *)
(* first picture there is, or the first text, and folded behind it; the      *)
(* budget of characters ends it.  Mutants: pictures are counted by those     *)
(* that were uploaded; the preview ends with the first text.                 *)
Uploaded_Next(photos, n) == LET good == SelectSeq(photos, LAMBDA p : p # 0)
                            IN IF n <= Len(good) THEN good[n] ELSE 0
Uploaded(photos, n) == IF n <= Len(photos) THEN photos[n] ELSE 0
Numbered(k) == Len(Pictures(SubSeq(Body, 1, k)))
Shown(photos, k) == Body[k].kind = "image" /\ Uploaded(photos, Numbered(k)) # 0
First(S) == IF S = {} THEN 0 ELSE CHOOSE k \in S : \A j \in S : k <= j
PreviewEnd_Text(photos) == First({k \in 1..Len(Body) : Body[k].kind = "text"})
PreviewEnd(photos) ==
    LET pictures == {k \in 1..Len(Body) : Shown(photos, k)}
        texts == {k \in 1..Len(Body) : Body[k].kind = "text"}
    IN IF pictures # {} THEN First(pictures) ELSE First(texts)
Least(m, n) == IF m <= n THEN m ELSE n
Spent(left) == left <= 0
Item(photos, acc, k) ==
    LET end == PreviewEnd(photos)
        part == IF end = 0 \/ k <= end THEN "visible" ELSE "folded"
        what == IF Body[k].kind = "image" THEN Uploaded(photos, Numbered(k)) ELSE k
    IN CASE acc.over -> acc
         [] Body[k].kind = "image" ->
              IF Shown(photos, k) THEN [acc EXCEPT ![part] = Append(@, [photo |-> TRUE, of |-> what])]
              ELSE acc
         [] Spent(acc.left) -> [acc EXCEPT !.over = TRUE]
         [] OTHER -> [acc EXCEPT ![part] = Append(@, [photo |-> FALSE, of |-> k]),
                                 !.left = @ - Least(Body[k].size, Least(MaxParagraph, @))]
Rich(photos) ==
    LET acc == FoldLeftDomain(LAMBDA a, k : Item(photos, a, k),
                   [visible |-> <<>>, folded |-> <<>>, left |-> MaxBody, over |-> FALSE], Body)
    IN [how |-> "rich", photos |-> photos, visible |-> acc.visible, folded |-> acc.folded,
        over |-> acc.over]
Text == [how |-> "text"]
Album(caption) == [how |-> "group", caption |-> caption]

-----------------------------------------------------------------------------
(* parse_social_link: in a group only what the chat has switched on; a site  *)
(* that is not set follows the old switch of WeChat, or is on.               *)
Site == IF job.switch.site # "unset" THEN job.switch.site = "on"
        ELSE job.kind = "social" \/ job.switch.old
Allowed == job.switch.group => job.switch.links /\ Site
Gate == /\ at = "gate" /\ at' = IF Allowed THEN "fetch" ELSE "done"
        /\ UNCHANGED <<job, refs, got, out, failures, lost>>

(* fetch_article and fetch_social_post; what has nothing to show is left.    *)
Worth == IF job.kind = "wechat" THEN job.title \/ Paragraphs # <<>>
         ELSE job.extra \/ Parsed(job.page) # <<>>
Enough == IF job.kind = "wechat" THEN "upload" ELSE "download"
Fetch == /\ at = "fetch" /\ at' \in {"done", IF Worth THEN Enough ELSE "done"}
         /\ UNCHANGED <<job, refs, got, out, failures, lost>>

(* _send_wechat_article: without pictures there is nothing to fall back to.  *)
(* Mutant: nor with them.                                                    *)
Fallback_Never == "done"
Fallback == IF Images # <<>> THEN "download" ELSE "done"

(* _upload_rich_photos: one at a time, in order, 0 where one failed.         *)
Upload == /\ at = "upload"
          /\ IF Len(refs) = Len(Images) THEN at' = "rich" /\ UNCHANGED refs
             ELSE at' = at /\ \E ok \in BOOLEAN :
                      refs' = Append(refs, IF ok THEN Images[Len(refs) + 1] ELSE 0)
          /\ UNCHANGED <<job, got, out, failures, lost>>
NoPeer == /\ at = "upload" /\ refs = <<>> /\ Images # <<>> /\ at' = Fallback
          /\ failures' = failures + 1 /\ UNCHANGED <<job, refs, got, out, lost>>

(* A send that raises may have reached the chat: its answer was late.        *)
Sends(what, next) ==
    /\ \/ /\ at' = "done" /\ out' = Append(out, what) /\ UNCHANGED <<failures, lost>>
       \/ /\ at' = next /\ failures' = failures + 1
          /\ \/ UNCHANGED <<out, lost>>
             \/ out' = Append(out, what) /\ lost' = TRUE
    /\ UNCHANGED <<job, refs, got>>
RichSend == at = "rich" /\ Sends(Rich(refs), Fallback)

(* _download_images and the loop of _send_wechat_media_group: what fails is  *)
(* left out.                                                                 *)
Download == /\ at = "download"
            /\ IF Len(got) = Len(Images)
               THEN /\ UNCHANGED got
                    /\ at' = IF \E k \in 1..Len(got) : got[k] # 0 THEN "group" ELSE "plain"
               ELSE at' = at /\ \E ok \in BOOLEAN :
                        got' = Append(got, IF ok THEN Images[Len(got) + 1] ELSE 0)
            /\ UNCHANGED <<job, refs, out, failures, lost>>
(* The caption goes with the first picture: of the post's that arrived, of   *)
(* the article's whether it arrived or not.  Mutant: with the last one.      *)
Captioned_Last == got[Len(got)] # 0
Captioned == job.kind = "social" \/ got[1] # 0
GroupSend == at = "group" /\ Sends(Album(Captioned), "plain")
(* What is left: text, of a post that had no pictures twice.                *)
PlainSend == /\ at = "plain"
             /\ IF job.kind = "wechat" THEN Sends(Rich(<<>>), "done")
                ELSE Sends(Text, IF failures = 0 THEN "again" ELSE "done")
AgainSend == at = "again" /\ Sends(Text, "done")

Next == Gate \/ Fetch \/ Upload \/ NoPeer \/ RichSend \/ Download \/ GroupSend \/ PlainSend \/ AgainSend
Spec == Init /\ [][Next]_vars

-----------------------------------------------------------------------------
TypeOK == /\ at \in {"gate", "fetch", "upload", "rich", "download", "group", "plain", "again", "done"}
          /\ Len(refs) <= Len(Images) /\ Len(got) <= Len(Images)
          /\ lost => failures > 0 /\ out # <<>>

RichOnes == {m \in ToSet(out) : m.how = "rich"}
Place(item) == IF item.photo THEN CHOOSE k \in 1..Len(Body) : Body[k].kind = "image" /\ Body[k].where = item.of
               ELSE item.of
Places(items) == [n \in 1..Len(items) |-> Place(items[n])]

(* The text and the pictures of a rich message come in the order of the page *)
(* (wechat.py:144), each picture in its own place though others before it    *)
(* could not be uploaded (link_parse.py:283).                                *)
InOrder == \A m \in RichOnes :
    LET places == Places(m.visible \o m.folded)
    IN \A i, j \in 1..Len(places) : i < j => places[i] < places[j]

(* Nothing that arrived is missing until the budget of characters is used    *)
(* up; from there on pictures are dropped with the text (wechat.py:418).     *)
Complete == \A m \in RichOnes : ~m.over =>
    ToSet(Places(m.visible \o m.folded)) = {k \in 1..Len(Body) : Body[k].kind = "text" \/ Shown(m.photos, k)}

(* The preview ends with the first picture there is, or with the first text  *)
(* (wechat.py:329); where the budget ends before the picture it has none.    *)
PreviewShown == \A m \in RichOnes : ~m.over /\ m.visible # <<>> =>
    \A n \in 1..Len(m.visible) :
        (m.visible[n].photo \/ Range(m.photos) \subseteq {0}) => n = Len(m.visible)

(* A group of pictures has its caption unless the first of an article's      *)
(* could not be downloaded (link_parse.py:345 says the caption is shown).    *)
CaptionShown == \A m \in ToSet(out) : m.how = "group" => m.caption \/ got[1] = 0

(* A link is answered once unless the answer of a send was late, and one     *)
(* that has something to show is left unanswered only after two failures, or *)
(* one where there is no picture.                                            *)
AnsweredOnce == /\ ~lost => Len(out) <= 1
                /\ at = "done" /\ (refs # <<>> \/ got # <<>> \/ failures > 0) /\ out = <<>> =>
                       failures >= IF job.kind = "wechat" /\ Images = <<>> THEN 1 ELSE 2
=============================================================================
