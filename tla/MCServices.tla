-------------------------------- MODULE MCServices --------------------------------
(* What runs beside the conversations.  The components share no state, so a *)
(* behaviour is about one of them.                                          *)
EXTENDS Integers, FiniteSets, TLC

CONSTANTS h1, h2, Nobody

(* The variables of the component a behaviour is about, in the order of its *)
(* module; what is left of them stays 0.                                    *)
VARIABLES about, s1, s2, s3, s4, s5, s6, s7, s8, s9, s10, s11, s12, s13, s14, s15, s16

\* What may happen to the feeds, whether entries have ids, how many hands.
Season(may, keys, hands) == [may |-> may, keys |-> keys, hands |-> hands]
SeasonsOf == {Season({"add", "poll", "stop"}, TRUE, 2), Season({"add", "remove"}, FALSE, 4),
              Season({"add", "poll", "pause"}, TRUE, 3), Season({"add", "poll", "test"}, TRUE, 3),
              Season({"add", "poll", "remove"}, TRUE, 3)}
Feeds == INSTANCE Feeds WITH
    Chat <- {h1, h2}, Page <- 2, MAX_ENTRIES_PER_PUSH <- 1, MAX_SEEN_IDS <- 4,
    MAX_FAILURES <- 1, MaxEntries <- 3, MaxRows <- 2, MaxStops <- 1, Seasons <-
    SeasonsOf, None <- Nobody, season <- s1, site <- s2, feed <- s3, made <- s4,
    subs <- s5, adding <- s6, removing <- s7, poll <- s8, hands <- s9, told <-
    s10, since <- s11, sent <- s12, passed <- s13, overflown <- s14, crossed <-
    s15, stops <- s16

\* The first chat has all switches on, the second some, the third summaries.
Switch(lang, summary, broadcast) == [lang |-> lang, summary |-> summary, broadcast |-> broadcast]
SwitchesOf == {[c \in {1, 2, 3} |-> CASE c = 1 -> Switch(1, TRUE, TRUE)
                                     [] c = 2 -> Switch(lang, summary, FALSE)
                                     [] c = 3 -> Switch(2, TRUE, FALSE)] :
                 lang \in {1, 2}, summary \in BOOLEAN}
Digests == INSTANCE RssDigest WITH
    Chat <- {1, 2, 3}, Lang <- {1, 2}, Switches <- SwitchesOf, Cost <- 3, Purse
    <- {0, 4}, MaxPolls <- 2, MaxSpends <- 1, conf <- s1, purse <- s2, at <-
    s3, todo <- s4, digest <- s5, cast <- s6, served <- s7, targets <- s8, lock
    <- s9, polls <- s10, spends <- s11, runs <- s12, charged <- s13, unpaid <-
    s14, got <- s15, heard <- s16

Mark(kind, tag) == [kind |-> kind, tag |-> tag]
PiecesOf == {Mark(kind, tag) : kind \in {"open", "close"}, tag \in {"b", "i"}}
              \cup {Mark(kind, "-") : kind \in {"letter", "escaped", "code", "line", "paragraph"}}
Texts == INSTANCE RssText WITH
    Piece <- PiecesOf, MaxLen <- 4, Limit <- 17, Room <- 22, body <- s1

Policies == INSTANCE ChatPolicies WITH
    Chat <- {"listed", "other"}, Listed <- {"listed"}, Request <- {h1, h2}, None
    <- Nobody, MaxEdits <- 3, MaxBoots <- 2, MaxFailures <- 1, rows <- s1, mirror
    <- s2, mode <- s3, boot <- s4, read <- s5, request <- s6, edits <- s7,
    boots <- s8, failures <- s9, asked <- s10, removed <- s11, emptied <- s12,
    crossed <- s13, astray <- s14

Life == INSTANCE Lifecycle WITH
    Timer <- {"timer", "legacy"}, Legacy <- {"legacy"}, Version <- {1, 2}, None
    <- Nobody, MaxBoots <- 3, MaxAsked <- 1, phase <- s1, config <- s2, hash <-
    s3, commands <- s4, store <- s5, pending <- s6, boots <- s7, asks <- s8,
    sent <- s9, missed <- s10, asked <- s11, late <- s12, left <- s13, unwanted
    <- s14

Settings == INSTANCE Settings WITH
    MaxEdits <- 2, MaxBoots <- 2, there <- s1, text <- s2, memory <- s3, found
    <- s4, app <- s5, verdict <- s6, edits <- s7, boots <- s8, before <- s9

Panel == INSTANCE Panel WITH
    User <- {"owner", "user"}, Owner <- "owner", Request <- {h1, h2}, TokenTtl <-
    2, CacheTtl <- 1, MaxRequests <- 3, MaxChanges <- 2, server <- s1, token <-
    s2, admin <- s3, standing <- s4, granted <- s5, cached <- s6, req <- s7,
    begun <- s8, changes <- s9, since <- s10, killed <- s11

Avatars == INSTANCE Avatars WITH
    Person <- {1, 2}, Task <- {h1, h2}, Concurrency <- 1, Expire <- 0, Retry <-
    2, MaxVersions <- 2, MaxTicks <- 1, picture <- s1, file <- s2, known <- s3,
    age <- s4, failed <- s5, uptime <- s6, cooling <- s7, task <- s8, locked <-
    s9, cleaning <- s10, ticks <- s11, renewed <- s12, overtaken <- s13

\* What is remembered; whether the cache is Redis, tokens are metered, calls fail.
World(kinds, redis, quota, fails) ==
    [kinds |-> kinds, redis |-> redis, quota |-> quota, fails |-> fails]
WorldsOf == {World({"user"}, FALSE, TRUE, TRUE), World({"agent"}, TRUE, TRUE, TRUE),
             World({"user", "agent"}, FALSE, FALSE, TRUE), World({"group"}, FALSE, FALSE, TRUE),
             World({"group"}, FALSE, TRUE, TRUE), World({"group"}, TRUE, FALSE, FALSE)}
Memory == INSTANCE AgentMemory WITH
    Workers <- {h1, h2}, Limit <- 2, MaxMessages <- 6, MaxExpiries <- 1, Worlds
    <- WorldsOf, None <- Nobody, world <- s1, sent <- s2, cached <- s3, stamped
    <- s4, throttled <- s5, inflight <- s6, hand <- s7, expiries <- s8,
    digested <- s9, updates <- s10, met <- s11, lost <- s12

AuthorOf == [link \in {1, 2} |-> "author"]
Quotes == INSTANCE Quotes WITH
    Link <- {1, 2}, Person <- {"author", "quoter", "manager"}, Author <-
    AuthorOf, Managers <- {"manager"}, Hand <- {h1, h2}, PageSize <- 1, MaxMade
    <- 3, MaxRemoved <- 3, None <- Nobody, quote <- s1, hand <- s2, card <- s3,
    made <- s4, removed <- s5, added <- s6, rewards <- s7, racing <- s8, remade
    <- s9, wronged <- s10

FaultsOf == {{"turns", "judges"}, {"turns", "ages", "evicts"}, {"turns", "caps"},
             {"turns", "failures"}, {"refusals"}}
Trace == INSTANCE AgentTrace WITH
    MaxRuns <- 3, MaxMsgs <- 3, MAX_EVENTS_PER_RUN <- 2, Insts <- {1, 2},
    Faults <- FaultsOf, Gates <- {"g", "h"}, None <- Nobody, fault <- s1, said <-
    s2, talk <- s3, baseline <- s4, runs <- s5, stored <- s6, cutoff <- s7,
    slot <- s8, asking <- s9, refused <- s10, marred <- s11, hasty <- s12

Titles == INSTANCE Titles WITH
    Member <- {"m"}, Task <- {h1, h2}, Text <- {"x", "y"}, None <- Nobody, Right <-
    {"r", "s"}, MaxToggles <- 1, MaxChanges <- 1, allowed <- s1, bot <- s2,
    member <- s3, task <- s4, toggles <- s5, changes <- s6, half <- s7

Shell == INSTANCE Sandbox WITH
    Calls <- {1, 2}, Limit <- 1, MaxForks <- 2, MaxSweeps <- 1, dir <- s1, pc
    <- s2, clean <- s3, asked <- s4, procs <- s5, forks <- s6, sweep <- s7,
    sweeps <- s8, struck <- s9

Trial(method, attempts) == [method |-> method, attempts |-> attempts]
TrialsOf == {Trial(method, 1) : method \in {"math_easy", "calculus", "linear_algebra", "probability"}}
              \cup {Trial("emoji", 2), Trial("custom_qa", 3)}
Values(S) == {<<n, 1>> : n \in S}
EmojiOf == Values(1..7)
\* One to pass by every option or by any; some that cannot be asked.
Question(options, answers, select) ==
    [options |-> Values(options), answers |-> Values(answers), select |-> select]
QuestionsOf == {{Question({1, 2}, {1}, "all")},
                {Question({1, 2, 3}, {1, 2}, "all"), Question({1, 4}, {1, 4}, "any")},
                {Question({1}, {1}, "all"), Question({1, 2}, {}, "all")}}
Challenges == INSTANCE Challenges WITH
    Trials <- TrialsOf, Emoji <- EmojiOf, Questions <- QuestionsOf, Defaults <-
    {Question({1, 2, 5, 6}, {1, 2}, "any")}, MaxPressed <- 2, method <- s1,
    allowed <- s2, question <- s3, selected <- s4, left <- s5, outcome <- s6,
    number <- s7, shown <- s8, pressed <- s9, editing <- s10, stale <- s11,
    missed <- s12

all == <<about, s1, s2, s3, s4, s5, s6, s7, s8, s9, s10, s11, s12, s13, s14, s15, s16>>
rest1 == <<s2, s3, s4, s5, s6, s7, s8, s9, s10, s11, s12, s13, s14, s15, s16>>
rest7 == <<s8, s9, s10, s11, s12, s13, s14, s15, s16>>
rest9 == <<s10, s11, s12, s13, s14, s15, s16>>
rest10 == <<s11, s12, s13, s14, s15, s16>>
rest11 == <<s12, s13, s14, s15, s16>>
rest12 == <<s13, s14, s15, s16>>
rest13 == <<s14, s15, s16>>
rest14 == <<s15, s16>>
none14 == s15 = 0 /\ s16 = 0
none13 == s14 = 0 /\ none14
none12 == s13 = 0 /\ none13
none11 == s12 = 0 /\ none12
none10 == s11 = 0 /\ none11
none9 == s10 = 0 /\ none10
none7 == s8 = 0 /\ s9 = 0 /\ none9
none1 == s2 = 0 /\ s3 = 0 /\ s4 = 0 /\ s5 = 0 /\ s6 = 0 /\ s7 = 0 /\ none7

Init == \/ about = "feeds" /\ Feeds!Init
        \/ about = "digests" /\ Digests!Init
        \/ about = "text" /\ Texts!Init /\ none1
        \/ about = "policies" /\ Policies!Init /\ none14
        \/ about = "life" /\ Life!Init /\ none14
        \/ about = "settings" /\ Settings!Init /\ none9
        \/ about = "panel" /\ Panel!Init /\ none11
        \/ about = "avatars" /\ Avatars!Init /\ none13
        \/ about = "memory" /\ Memory!Init /\ none12
        \/ about = "quotes" /\ Quotes!Init /\ none10
        \/ about = "trace" /\ Trace!Init /\ none12
        \/ about = "titles" /\ Titles!Init /\ none7
        \/ about = "shell" /\ Shell!Init /\ none9
        \/ about = "challenges" /\ Challenges!Init /\ none12
Next == /\ UNCHANGED about
        /\ \/ about = "feeds" /\ Feeds!Next
           \/ about = "digests" /\ Digests!Next
           \/ about = "text" /\ Texts!Next /\ UNCHANGED rest1
           \/ about = "policies" /\ Policies!Next /\ UNCHANGED rest14
           \/ about = "life" /\ Life!Next /\ UNCHANGED rest14
           \/ about = "settings" /\ Settings!Next /\ UNCHANGED rest9
           \/ about = "panel" /\ Panel!Next /\ UNCHANGED rest11
           \/ about = "avatars" /\ Avatars!Next /\ UNCHANGED rest13
           \/ about = "memory" /\ Memory!Next /\ UNCHANGED rest12
           \/ about = "quotes" /\ Quotes!Next /\ UNCHANGED rest10
           \/ about = "trace" /\ Trace!Next /\ UNCHANGED rest12
           \/ about = "titles" /\ Titles!Next /\ UNCHANGED rest7
           \/ about = "shell" /\ Shell!Next /\ UNCHANGED rest9
           \/ about = "challenges" /\ Challenges!Next /\ UNCHANGED rest12
Spec == Init /\ [][Next]_all
Symmetry == Permutations({h1, h2})

-----------------------------------------------------------------------------
(* What reaches a chat from its feeds: an entry comes once while the window  *)
(* of seen ids holds it, none of those from before the subscription comes,   *)
(* and none is lost but for a reason on record (jobs.py:207); the chats that *)
(* share a digest pay shares that add up to its cost, who pays gets it, one  *)
(* broadcast an interval (jobs.py:264); a text that is cut keeps no tag open *)
(* and drops tags only (rss/__init__.py:577).                                *)
FeedsDeliver ==
    /\ about = "feeds" => /\ Feeds!TypeOK
                          /\ Feeds!PushedOnceInWindow
                          /\ Feeds!NotFlooded
                          /\ Feeds!NothingLost
    /\ about = "digests" => /\ Digests!SharesAddUp
                            /\ Digests!PayersGetTheirs
                            /\ Digests!OneBroadcastPerInterval
    /\ about = "text" => /\ Texts!NeverUnclosed
                         /\ Texts!OnlyTagsDropped
                         /\ Texts!HalfKept

(* What starts, reloads and logins leave: a chat is judged by the rows of    *)
(* its policy and what an operator withdrew is not seeded again              *)
(* (chat_policy.py:60); a timer survives restarts, fires once and not for a  *)
(* feature that is off (db.py:85); a reload gives what a restart would       *)
(* (config/__init__.py:735); a member the panel knows no more is refused at  *)
(* the latest when the cached answer expires (tgmethod.py:213).              *)
StartsClean ==
    /\ about = "policies" => /\ Policies!TypeOK
                             /\ Policies!JudgedByTheTable
                             /\ Policies!WithdrawnStays
                             /\ Policies!FlagsLeftAlone
    /\ about = "life" => /\ Life!TypeOK
                         /\ Life!SentOnce
                         /\ Life!Kept
                         /\ Life!CommandsInForce
                         /\ Life!RssQuietWhenOff
    /\ about = "settings" => Settings!TypeOK /\ Settings!AsIfRestarted
    /\ about = "panel" => /\ Panel!TypeOK
                          /\ Panel!LateIsRefused
                          /\ Panel!StoppedIsQuiet

(* What members get: coins for quotes that were added and deletion by who is *)
(* entitled (quote.py:49); rights only with a title (title.py:83); pictures  *)
(* fetched once per back-off and a forced refresh that sticks (avatar.py:57);*)
(* a question that can be passed and is judged rightly (challenge.py).       *)
PeopleServed ==
    /\ about = "quotes" => /\ Quotes!TypeOK
                           /\ Quotes!RewardedForRows
                           /\ Quotes!RemovedByEntitled
    /\ about = "titles" => Titles!TypeOK /\ Titles!AdminForTitle
    /\ about = "avatars" => /\ Avatars!TypeOK
                            /\ Avatars!BackedOff
                            /\ Avatars!RefreshSticks
    /\ about = "challenges" => /\ Challenges!TypeOK
                               /\ Challenges!OneRight
                               /\ Challenges!Passable
                               /\ Challenges!JudgedRightly

(* What the agent remembers and records: memory is updated once an hour, a   *)
(* message enters it once and stays for another try when the update fails    *)
(* (memory.py:319); the increments of a trace rebuild each request unless    *)
(* something marred them, and a refusal is recorded once (trace.py); the     *)
(* directory of a command's shell holds what one at a time may run           *)
(* (sandbox.py).                                                             *)
MemoryKept ==
    /\ about = "memory" => /\ Memory!TypeOK
                           /\ Memory!OnceAnHour
                           /\ Memory!DigestedOnceAlone
                           /\ Memory!KeptForRetry
                           /\ Memory!OneUpdateUnmetered
    /\ about = "trace" => /\ Trace!TypeOK
                          /\ Trace!ReplayableUnlessMarred
                          /\ Trace!RefusedOnce
    /\ about = "shell" => Shell!TypeOK

(* What a step may not do: end a deletion with a list that shows the quote   *)
(* (quote.py), change by a reload what only a start may (config), end /t or  *)
(* /td well with another title than the one asked for (title.py), or start a *)
(* command without the files staged for it (shell_tool.py:115).              *)
StepsKept == [][/\ about = "quotes" => Quotes!GoneFromList
                /\ about = "settings" => Settings!CriticalKept
                /\ about = "titles" => Titles!AsAsked
                /\ about = "shell" => Shell!StagedAlone]_all
=============================================================================
