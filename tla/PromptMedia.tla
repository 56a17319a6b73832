----------------------------- MODULE PromptMedia -----------------------------
(* What becomes of the media of one message in a prompt: the private prompt  *)
(* (prompt.py, build_contents_from_message) sends it, quotes its text or     *)
(* says that it cannot; the group prompt (input_format.py, is_deliverable,   *)
(* _download, _msg_line) has rules of its own.                               *)
EXTENDS FiniteSets

CONSTANTS Inputs  \* the values of agent_multimodal_inputs to look at

Sized == {"video", "audio", "voice", "document"}
Kinds == Sized \cup {"photo", "sticker", "animation", "poll", "web_page"}
Sizes == {"small", "big", "unknown"}
Mimes == {"text/plain", "image/png", "application/pdf", "none"}
Forms == {"still", "video", "animated"}   \* of stickers

VARIABLES item,   \* the media
          set,    \* the settings: agent_multimodal, its inputs, and for comments
          place,  \* "private", or where in a group's prompt the message is
          good,   \* the download goes well; so does decoding it
          got     \* what the prompt has of it

vars == <<item, set, place, good, got>>

Items == {i \in [kind : Kinds, size : Sizes, mime : Mimes, form : Forms] :
            /\ i.kind \notin Sized => i.size = "small" /\ i.mime = "none"
            /\ i.kind # "sticker" => i.form = "still"}
Init == /\ item \in Items
        /\ set \in [multimodal : BOOLEAN, inputs : Inputs, struct : BOOLEAN]
        /\ place \in {"private", "current", "reply", "nearby"}
        /\ good \in [download : BOOLEAN, decode : BOOLEAN]
        /\ got = {"unread"}

Enabled_(key) == set.multimodal /\ key \in set.inputs
Key(k) == CASE k \in {"photo", "sticker"} -> "photo"
            [] k = "video" -> "video"
            [] k \in {"audio", "voice"} -> "audio"
            [] OTHER -> "other"

-----------------------------------------------------------------------------
(* Private: a text document needs no multimodal model; the rest does.        *)
IsText == item.kind = "document" /\ item.size = "small" /\ item.mime = "text/plain"
Attempted ==
    \/ item.kind = "photo" /\ Enabled_("photo")
    \/ /\ item.kind \in {"video", "audio", "voice"} /\ Enabled_(Key(item.kind))
       /\ item.size = "small" /\ item.mime # "none"
    \/ /\ item.kind = "document" /\ item.size = "small"
       /\ \/ Enabled_(item.mime)
          \/ item.mime = "image/png" /\ Enabled_("photo")
    \/ item.kind = "sticker" /\ item.form # "animated" /\ Enabled_("photo")
Opened == item.kind = "sticker" /\ item.form = "video" => good.decode
Quoted == IF IsText /\ good.download /\ good.decode THEN {"text"} ELSE {}
(* Mutant: what was asked for counts as included. *)
Sent_Asked == IF Attempted THEN {"binary"} \cap {b \in {"binary"} : good.download} ELSE {}
Sent == IF Attempted /\ good.download /\ Opened THEN {"binary"} ELSE {}
Included_Asked == IsText \/ Attempted
Included == Quoted \cup Sent # {}
Private == /\ place = "private" /\ got = {"unread"}
           /\ got' = Quoted \cup Sent
                       \cup (IF item.kind = "poll" THEN {"poll"} ELSE {})
                       \cup (IF ~Included /\ item.kind \notin {"poll", "web_page"}
                             THEN {"note"} ELSE {})
           /\ UNCHANGED <<item, set, place, good>>

(* A group: documents have no key of the inputs and are never deliverable.   *)
(* A message nearby has a line, which names the kind of its media; the       *)
(* message answered and the one it replies to only show the image's number.  *)
Deliverable_AnyForm == set.multimodal /\ Key(item.kind) \in set.inputs /\ item.size # "big"
Deliverable == /\ Enabled_(Key(item.kind)) /\ item.size # "big"
               /\ item.kind = "sticker" => item.form # "animated"
Group == /\ place # "private" /\ got = {"unread"}
         /\ got' = (IF Deliverable /\ good.download /\ Opened THEN {"binary"} ELSE {})
                      \cup (IF place = "nearby" THEN {"kind"} ELSE {})
         /\ UNCHANGED <<item, set, place, good>>

(* channel_comment.py: a post whose media "get_input_prompt cannot process"  *)
(* gets no comment.  Mutant: a sticker of vectors will do.                   *)
Unsupported_AnyForm ==
    /\ item.kind \notin {"poll", "web_page"}
    /\ ~(item.kind \in {"photo", "sticker"} /\ Enabled_("photo"))
Supported == \/ item.kind = "photo"
             \/ item.kind = "sticker" /\ item.form # "animated"
             \/ item.kind \in {"video", "audio", "voice"} /\ item.size = "small" /\ item.mime # "none"
Unsupported ==
    /\ item.kind \notin {"poll", "web_page"}
    /\ \/ ~set.multimodal
       \/ /\ item.kind # "document"
          /\ ~(Supported /\ Enabled_(Key(item.kind)))
       \/ /\ item.kind = "document"
          /\ \/ item.size # "small"
             \/ /\ item.mime # "text/plain" /\ ~Enabled_(item.mime)
                /\ ~(item.mime = "image/png" /\ Enabled_("photo"))
Embedded == /\ item.kind \notin {"poll", "web_page"}
            /\ ~(item.kind = "document" /\ item.mime = "text/plain")
Commented == ~Unsupported /\ (set.struct \/ ~Embedded)

Next == Private \/ Group
Spec == Init /\ [][Next]_vars

-----------------------------------------------------------------------------
Read == got # {"unread"}

(* Media "must not vanish silently" (prompt.py:519): whatever failed, the    *)
(* private prompt says that there was some (a link is in the text), and does *)
(* not say so of what it did send.                                           *)
Noticed == Read /\ item.kind # "web_page" => got # {}
NoticedInPrivate == place = "private" => Noticed /\ ("note" \in got => got = {"note"})

(* What the model is sent can be decoded, and is no sticker of vectors,      *)
(* wherever the message is.                                                  *)
SentIsPicture == Read /\ "binary" \in got /\ item.kind = "sticker" =>
                    /\ good.download /\ item.form # "animated"
                    /\ item.form = "video" => good.decode

(* Channel posts that get a comment are shown to the model, unless their     *)
(* download fails: they "are skipped when the model would only see a caption *)
(* without the actual media" (channel_comment.py:93).  Comments are written  *)
(* in groups, whose prompt leaves documents and polls out.                   *)
CommentSeesMedia == place = "current" /\ Read /\ Commented /\ item.kind # "web_page"
                       /\ good.download /\ good.decode => got # {}
CommentSeesPictures == item.kind \notin {"document", "poll"} => CommentSeesMedia
=============================================================================
