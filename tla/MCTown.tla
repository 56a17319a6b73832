-------------------------------- MODULE MCTown --------------------------------
(* Users and the talk with them: the rows of users and groups, the drift     *)
(* bottles, coins and affection; what the model is told and what the bot     *)
(* says.  The components share no state, so a behaviour is about one of them.*)
EXTENDS Economy, TLC

CONSTANTS People, Owner, Days, MaxRenames,    \* of Members
          Throwers, Ids, ReuseIds, MaxThrown, \* of Bottles
          Cards, MaxAsked, Tides,
          Evenings, Above, PerPrompt, Known, MaxTaken, MaxForgotten, \* of GroupPrompt
          Artwork, Tasks, Lifetime, FewKept, MaxSends, MaxWiped, \* of StickerStore
          Sessions, Calls, CacheSize, MaxOpened, MaxDropped,     \* of Workspaces
          Clients, PerSpan, Span, MaxClients,                    \* of RateLimiter
          Redis,                                                 \* of both that follow
          Spoken, Chunks, Patience, MaxLosses,                   \* of ReplyOutput
          Channel, MaxFaded                                      \* of ChannelComments

VARIABLE about \* the component

(* Its variables, in the order of its module.  They are Economy's, which has *)
(* the most; what is left of them stays 0.                                   *)
s1 == luck
s2 == row
s3 == hands
s4 == gifts
s5 == sending
s6 == lamp
s7 == memory
s8 == pondering
s9 == daily
s10 == hist
s11 == people
s12 == steps
s13 == owed
s14 == earned
s15 == raced
s16 == drifted
s17 == lit
s18 == crashes
s19 == paid
s20 == keen
s21 == revived

\* What may happen to the members on a day.
DaysOf == {{"messages", "names"}, {"messages", "leave", "sync"}, {"admins"},
           {"admins", "global"}, {"messages", "bar", "delete"}}
Members == INSTANCE Members_proofs WITH User <- People, day <- s1, called <- s2, inside <- s3, bot <- s4, name <-
    s5, snap <- s6, chat <- s7, barred <- s8, rows <- s9, known <- s10, blocked
    <- s11, global <- s12, hands <- s13, deleted <- s14, clash <- s15, undone
    <- s16, stuck <- s17

TidesOf == {{"bans", "destroys"}, {"answers", "destroys"}, {"answers", "bans"}}
Bottles == INSTANCE Bottles_proofs WITH User <- Throwers, tide <- s1, bottles <-
    s2, thrown <- s3, cards <- s4, intent <- s5, banned <- s6, throwing <- s7,
    erasing <- s8, answers <- s9, late <- s10, reused <- s11, wronged <- s12

\* What may happen, the affection at first, which database and cache.
Fortune(may, aff, postgres, redis) ==
    [may |-> may, aff |-> aff, postgres |-> postgres, redis |-> redis]
FortunesOf == {Fortune({"coins", "config", "daily"}, 0, FALSE, TRUE),
               Fortune({"gifts", "coins", "stop"}, 0, FALSE, TRUE),
               Fortune({"gifts", "affection"}, 1, FALSE, FALSE),
               Fortune({"affection", "config", "people"}, 1, FALSE, TRUE),
               Fortune({"affection", "config", "people"}, 1, TRUE, TRUE),
               Fortune({"daily", "stop"}, -3, TRUE, FALSE)}
PriceOf(kind) == IF kind = "grass" THEN 3 ELSE 2
FloorOf == -2
ChangesOf == {-2, 3}

\* A file that is sent by the speaker or another, also as a sticker.
Picture(mine, file, sticker) == [mine |-> mine, file |-> file, sticker |-> sticker]
PostsOf == {Picture(TRUE, "f", FALSE), Picture(TRUE, "g", FALSE), Picture(TRUE, "g", TRUE), Picture(FALSE, "f", FALSE)}
\* Wakes alone, or with follow-ups and answers in between.
SeasonsOf == {[turns |-> {"wake"}, posts |-> PostsOf, messages |-> 4],
              [turns |-> {"wake", "follow", "ask"},
               posts |-> {Picture(TRUE, "f", FALSE), Picture(FALSE, "g", FALSE)}, messages |-> 3]}
Group == INSTANCE GroupPrompt WITH
    Seasons <- Evenings, None <- None, Nearby <- Above, Limit <- PerPrompt, MaxMedia <- Known,
    MaxTurns <- MaxTaken, MaxForgets <- MaxForgotten, chat <- s1, turn <- s2, cursor <- s3,
    shown <- s4, images <- s5, turns <- s6, forgets <- s7, last <- s8, again <- s9,
    season <- s10

Part(kind, id, content) == [kind |-> kind, id |-> id, content |-> content]
Calling(id) == Part("call", id, <<>>)
MessagesOf == {<<Part("say", 0, <<"text">>)>>, <<Part("user", 0, <<"text">>)>>, <<Part("user", 0, <<"a">>)>>,
               <<Part("user", 0, <<"b", "text", "a">>)>>, <<Calling(1)>>, <<Calling(1), Calling(2)>>,
               <<Part("return", 1, <<"b">>)>>, <<Part("return", 1, <<"text">>), Part("retry", 2, <<>>)>>}
WidthsOf == UNION {[1..n -> {1, 2}] : n \in 1..3}
EntitiesOf == {S \in SUBSET [offset : 0..4, length : 1..3] : Cardinality(S) <= 3}
Texts == INSTANCE PromptText WITH
    Messages <- MessagesOf, MaxLen <- 3, MaxItems <- 1, Widths <- WidthsOf,
    Entities <- EntitiesOf, Senders <- {"bot", "user", "other"}, job <- s1, old
    <- s2, new <- s3, text <- s4, chain <- s5

Media == INSTANCE PromptMedia WITH
    Inputs <- {{}, {"photo"}, {"photo", "video"}, {"audio",
    "application/pdf"}}, item <- s1, set <- s2, place <- s3, good <- s4, got <-
    s5

\* An answer in two parts, and two in one.
ChunksOf == <<2, 1, 1>>
Replies == INSTANCE ReplyOutput WITH
    Reply <- Spoken, Parts <- Chunks, RICH_FAILURE_LIMIT <- Patience, Shared <- Redis,
    MaxLost <- MaxLosses, failures <- s1, paused <- s2, at <- s3, next <- s4, sent <-
    s5, read <- s6, heard <- s7, last <- s8, streak <- s9, earned <- s10, mixed <- s11,
    lost <- s12

\* Three of an album, one without a caption, and one by itself.
AlbumOf == {[id |-> id, album |-> IF id = 4 THEN 0 ELSE 7, captioned |-> id < 3] : id \in 1..4}
Comments == INSTANCE ChannelComments WITH
    Post <- Channel, Shared <- Redis, MaxExpiries <- MaxFaded, at <- s1, guard <- s2,
    allowance <- s3, run <- s4, settled <- s5, comments <- s6, polls <- s7,
    open <- s8, marked <- s9, expiries <- s10, raced <- s11

Stickers == INSTANCE StickerStore WITH
    Sticker <- Artwork, Task <- Tasks, Ttl <- Lifetime, MinKeep <- FewKept, MaxSent <- MaxSends,
    MaxRemovals <- MaxWiped, None <- None, rows <- s1, vectors <- s2,
    lock <- s3, task <- s4, sent <- s5, crashes <- s6, removals <- s7, rash <-
    s8

Files == INSTANCE Workspaces WITH
    Session <- Sessions, Call <- Calls, CacheMax <- CacheSize, MaxOpens <- MaxOpened,
    MaxRemovals <- MaxDropped, cache <- s1, open <- s2, life <- s3, pc <- s4, file <-
    s5, removing <- s6, removals <- s7, doubled <- s8, mixed <- s9

Limiter == INSTANCE RateLimiter WITH
    Key <- Clients, Budget <- PerSpan, Window <- Span, MaxKeys <- MaxClients, hits <- s1,
    served <- s2, wait <- s3, dropped <- s4

ASSUME TownAssumption ==
    /\ Parameters /\ Members!Parameters /\ Bottles!Parameters
    /\ Stickers!Parameters /\ Files!Parameters /\ Limiter!Parameters
    /\ Replies!Parameters /\ Group!Parameters

\* Pages with and without text and pictures, some beyond the limits.
PagesOf == {<<>>, <<"text", "break", "text">>, <<"ad", "img">>, <<"img", "text", "img", "img">>,
            <<"text", "text", "ad", "text", "img", "text", "break", "img">>,
            <<"text", "text", "text", "break", "text", "img">>}
Links == INSTANCE LinkParse WITH
    Pages <- PagesOf, MaxImages <- 2, MaxBody <- 3, MaxParagraph <- 2, job <- s1,
    at <- s2, refs <- s3, got <- s4, out <- s5, failures <- s6, lost <- s7

all == <<about, s1, s2, s3, s4, s5, s6, s7, s8, s9, s10, s11, s12, s13, s14, s15, s16,
        s17, s18, s19, s20, s21>>
rest4 == <<s5, s6, s7, s8, s9, s10, s11, s12, s13, s14, s15, s16, s17, s18, s19,
            s20, s21>>
rest5 == <<s6, s7, s8, s9, s10, s11, s12, s13, s14, s15, s16, s17, s18, s19,
            s20, s21>>
rest7 == <<s8, s9, s10, s11, s12, s13, s14, s15, s16, s17, s18, s19, s20, s21>>
rest8 == <<s9, s10, s11, s12, s13, s14, s15, s16, s17, s18, s19, s20, s21>>
rest9 == <<s10, s11, s12, s13, s14, s15, s16, s17, s18, s19, s20, s21>>
rest10 == <<s11, s12, s13, s14, s15, s16, s17, s18, s19, s20, s21>>
rest11 == <<s12, s13, s14, s15, s16, s17, s18, s19, s20, s21>>
rest12 == <<s13, s14, s15, s16, s17, s18, s19, s20, s21>>
rest17 == <<s18, s19, s20, s21>>
none17 == s18 = 0 /\ s19 = 0 /\ s20 = 0 /\ s21 = 0
none12 == s13 = 0 /\ s14 = 0 /\ s15 = 0 /\ s16 = 0 /\ s17 = 0 /\ none17
none11 == s12 = 0 /\ none12
none10 == s11 = 0 /\ none11
none9 == s10 = 0 /\ none10
none8 == s9 = 0 /\ none9
none7 == s8 = 0 /\ none8
none5 == s6 = 0 /\ s7 = 0 /\ none7
none4 == s5 = 0 /\ none5

WorldInit ==
    \/ about = "members" /\ Members!Init /\ none17
    \/ about = "bottles" /\ Bottles!Init /\ none12
    \/ about = "economy" /\ Init
    \/ about = "group" /\ Group!Init /\ none10
    \/ about = "text" /\ Texts!Init /\ none5
    \/ about = "media" /\ Media!Init /\ none5
    \/ about = "replies" /\ Replies!Init /\ none12
    \/ about = "comments" /\ Comments!Init /\ none11
    \/ about = "stickers" /\ Stickers!Init /\ none8
    \/ about = "files" /\ Files!Init /\ none9
    \/ about = "limiter" /\ Limiter!Init /\ none4
    \/ about = "links" /\ Links!Init /\ none7
WorldNext ==
    /\ UNCHANGED about
    /\ \/ about = "members" /\ Members!Next /\ UNCHANGED rest17
       \/ about = "bottles" /\ Bottles!Next /\ UNCHANGED rest12
       \/ about = "economy" /\ Next
       \/ about = "group" /\ Group!Next /\ UNCHANGED rest10
       \/ about = "text" /\ Texts!Next /\ UNCHANGED rest5
       \/ about = "media" /\ Media!Next /\ UNCHANGED rest5
       \/ about = "replies" /\ Replies!Next /\ UNCHANGED rest12
       \/ about = "comments" /\ Comments!Next /\ UNCHANGED rest11
       \/ about = "stickers" /\ Stickers!Next /\ UNCHANGED rest8
       \/ about = "files" /\ Files!Next /\ UNCHANGED rest9
       \/ about = "limiter" /\ Limiter!Next /\ UNCHANGED rest4
       \/ about = "links" /\ Links!Next /\ UNCHANGED rest7
WorldSpec == WorldInit /\ [][WorldNext]_all
-----------------------------------------------------------------------------
(* Rows of users and groups: what a snapshot says is written, whoever the    *)
(* cache knows has a row until a group is deleted in the panel               *)
(* (association.py:36), appointments alone keep the chain of delegation      *)
(* acyclic (ops.py:55), and from a group that is barred the bot has gone.    *)
MembersKept == about = "members" =>
    /\ Members!TypeOK
    /\ Members!SnapshotIsWritten
    /\ Members!KnownUntilDeleted
    /\ Members!AcyclicAtFirst
    /\ Members!BarredIsLeft

(* Drift bottles: a member destroys his own only, none of a banned member    *)
(* drifts, an answer goes to the bottle it was meant for, and a press of     *)
(* "reply" gives one answer (bottle.py), though ids are used again.          *)
BottlesKept == about = "bottles" =>
    /\ Bottles!TypeOK
    /\ Bottles!OwnBottlesOnly
    /\ Bottles!BannedBottlesGone
    /\ Bottles!AnswerAsMeant
    /\ Bottles!OneAnswerPerChoice

(* Coins and affection are what they were plus what was earned and spent,    *)
(* unless two read-modify-writes of one configuration met (gift.py:68) or    *)
(* affection changed while a lamp's was there, and the histogram counts the  *)
(* members in their buckets unless a write passed it by (affection.py:273).  *)
WealthAddsUp == about = "economy" =>
    /\ TypeOK
    /\ CoinsAddUp
    /\ AffectionAddsUp
    /\ HistogramExact

(* A gift is used once unless the process stopped between its effect and its *)
(* mark (service.py:90), the daily gain is given once a day, and a memory    *)
(* that was erased stays erased.                                             *)
GivenOnce == about = "economy" =>
    /\ GiftUsedOnce
    /\ DailyOnce
    /\ ForgottenStays

(* What a prompt tells of a group: numbers of pictures are unique, each      *)
(* number the text refers to has its picture, a picture is delivered once,   *)
(* and what a turn leaves out was in an earlier one (input_format.py:228,       *)
(* runner.py:100); some of it while there are no follow-ups.                 *)
GroupFaithful == about = "group" =>
    /\ Group!TypeOK
    /\ Group!NumbersApart
    /\ Group!ReferencesResolve
    /\ Group!DeliveredOnce
    /\ Group!SkippedAfterWakes
    /\ Group!DescribedInOrder

(* What compaction, transcription and cleaning leave of texts: no call       *)
(* without its answer, the newest pictures, each description at its picture, *)
(* all text but mentions (history.py:296); what the model cannot be sent is  *)
(* noticed, what is sent is a picture (prompt.py); the article behind a link *)
(* comes once, in its order, with the pictures that could be had             *)
(* (wechat.py:314).                                                          *)
TextsKept ==
    /\ about = "text" => /\ Texts!TypeOK
                         /\ Texts!OpenCallKept
                         /\ Texts!NewestPicturesKept
                         /\ Texts!EachItsOwn
                         /\ Texts!TextKept
                         /\ Texts!OnlyHistoryDropped
    /\ about = "media" => /\ Media!NoticedInPrivate
                          /\ Media!SentIsPicture
                          /\ Media!CommentSeesPictures
    /\ about = "links" => /\ Links!TypeOK
                          /\ Links!InOrder
                          /\ Links!Complete
                          /\ Links!PreviewShown
                          /\ Links!CaptionShown
                          /\ Links!AnsweredOnce

(* What the bot says: the parts of a reply arrive once and in order, those   *)
(* after a failed one are still tried, rich text is paused for its own       *)
(* failures only (output.py:43), and the part a follow-up answers has        *)
(* arrived; an album has one comment, charged for before it is said          *)
(* (channel_comment.py:82).                                                  *)
ToldOnce ==
    /\ about = "replies" => /\ Replies!TypeOK
                            /\ Replies!InOrderOnce
                            /\ Replies!AllTried
                            /\ Replies!PauseEarned
                            /\ Replies!RememberedArrived
    /\ about = "comments" => /\ Comments!ChargedBeforeSaid
                             /\ Comments!OncePerAlbum
                             /\ Comments!AlbumByCaption
                             /\ Comments!MarkedOnce

(* What several callers share: the vectors are those of the stickers that    *)
(* are kept (sticker_vec.py), cached workspaces are open, bounded and lose   *)
(* no edit (workspace.py:38), and a client gets no more than its budget in   *)
(* any window, and is told when there is more (ratelimit.py).                *)
SharedKept ==
    /\ about = "stickers" => /\ Stickers!TypeOK
                             /\ Stickers!VectorsMatch
                             /\ Stickers!FreshKept
    /\ about = "files" => /\ Files!TypeOK
                          /\ Files!CachedAreOpen
                          /\ Files!NoneLeakedUnlessDoubled
                          /\ Files!EditsKept
    /\ about = "limiter" => /\ Limiter!TypeOK
                            /\ Limiter!AtMostBudget
                            /\ Limiter!RetryIsExact
==============================================================================
