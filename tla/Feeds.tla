-------------------------------- MODULE Feeds --------------------------------
(***************************************************************************)
(* RSS: the poll job (bot/jobs.py), /rss (plugins/rss.py), the panel's     *)
(* pages and database/rss.py, for one URL and the chats that follow it.    *)
(*                                                                         *)
(* Entries are numbered as they are published; the site shows the newest   *)
(* `Page` of them, newest first.  The row of the feed may be deleted and   *)
(* made again, so rows are numbered too.  Every database function is one   *)
(* transaction; add_subscription and remove_subscription read and then     *)
(* write in theirs.  Intervals, digests and broadcasts are left out.       *)
(***************************************************************************)
EXTENDS Integers, FiniteSets, FiniteSetsExt

CONSTANTS Chat,
          Page,        \* entries of one fetch, MAX_ENTRIES_PER_PUSH * 4
          MAX_ENTRIES_PER_PUSH,
          MAX_SEEN_IDS,
          MAX_FAILURES,
          MaxEntries, MaxRows, MaxStops,  \* bounds
          Seasons,     \* scenarios: [may, keys, hands], what may happen, whether
                       \* foreign keys are enforced (not at SQLite) and how
                       \* many commands there are
          None

VARIABLES season,  \* the one of Seasons
          site,    \* entries published
          feed,    \* the row of rss_feeds: [no, fetched, seen], or None
          made,    \* rows ever made
          subs,    \* rss_subscriptions: [row, paused] by chat, or None
          adding,  \* handlers of a subscription, by chat: [at, got, row]
          removing,\* the chat in remove_subscription, between its statements
          poll,    \* rss_push: [at, old, got, new, left], or None
          hands,   \* commands and panel calls so far
          told,    \* what the last handler of a chat answered
          since,   \* history: entries there when the chat subscribed
          sent,    \* history: deliveries of an entry to a chat
          passed,  \* history: entries marked as seen that a chat did not get
          overflown, crossed, stops \* history

rows == <<feed, made, subs>>
past == <<since, sent, passed, overflown, crossed, stops>>
vars == <<season, site, hands, adding, removing, poll, told, rows, past>>

Entry == 1..MaxEntries
Row == [no : 1..MaxRows, fetched : BOOLEAN, seen : SUBSET Entry, fails : Nat]
Follows(c) == subs[c] # None /\ feed # None /\ subs[c].row = feed.no
Fetched == {e \in 1..site : e > site - Page}

TypeOK ==
    /\ season \in Seasons /\ site \in 0..MaxEntries
    /\ feed \in Row \cup {None} /\ made \in 0..MaxRows
    /\ feed # None => Cardinality(feed.seen) <= MAX_SEEN_IDS /\ feed.fails <= MAX_FAILURES
    /\ subs \in [Chat -> [row : 1..MaxRows, paused : BOOLEAN] \cup {None}]
    /\ hands \in 0..season.hands /\ removing \in Chat \cup {None}
    /\ told \in [Chat -> {"", "added", "already", "failed", "removed"}]
    /\ passed \in [Chat -> SUBSET Entry]
    /\ crossed \subseteq Chat /\ overflown \in BOOLEAN /\ stops \in 0..MaxStops

Init ==
    /\ season \in Seasons
    /\ site = 1 /\ feed = None /\ made = 0
    /\ subs = [c \in Chat |-> None]
    /\ adding = [c \in Chat |-> None] /\ removing = None /\ poll = None
    /\ hands = 0 /\ told = [c \in Chat |-> ""]
    /\ since = [c \in Chat |-> 0] /\ sent = [c \in Chat |-> [e \in Entry |-> 0]]
    /\ passed = [c \in Chat |-> {}] /\ overflown = FALSE /\ crossed = {} /\ stops = 0

\* The site publishes an entry.
Publish ==
    /\ site < MaxEntries /\ site' = site + 1
    /\ UNCHANGED <<season, hands, adding, removing, poll, told, rows, past>>

-----------------------------------------------------------------------------
(* Subscribing: _rss_add, POST /chats/{id}/rss, POST /me/rss *)

\* The feed is fetched once, so that it can be.
AddFetch(c) ==
    /\ hands < season.hands /\ hands' = hands + 1
    /\ "add" \in season.may /\ adding[c] = None
    /\ told' = [told EXCEPT ![c] = ""]
    /\ adding' = [adding EXCEPT ![c] = [at |-> "look", got |-> Fetched, row |-> 0]]
    /\ UNCHANGED <<season, site, removing, poll, rows, past>>

\* add_subscription looks for the feed and the subscription ...
AddLook(c) ==
    /\ adding[c] # None /\ adding[c].at = "look"
    /\ IF Follows(c)
         THEN /\ adding' = [adding EXCEPT ![c] = None]
              /\ told' = [told EXCEPT ![c] = "already"]
         ELSE /\ adding' = [adding EXCEPT ![c].at = "flush", ![c].row = IF feed = None THEN 0 ELSE feed.no]
              /\ UNCHANGED told
    /\ UNCHANGED <<season, site, hands, removing, poll, rows, past>>

\* ... and inserts what was not there.  Somebody else's feed, or the feed gone,
\* is an IntegrityError where keys are enforced.
Collides(c) ==
    LET now == IF feed = None THEN 0 ELSE feed.no IN
    \/ adding[c].row = 0 /\ now # 0
    \/ adding[c].row # 0 /\ now # adding[c].row /\ season.keys

AddFlush(c) ==
    /\ adding[c] # None /\ adding[c].at = "flush"
    /\ IF Collides(c)
         THEN /\ adding' = [adding EXCEPT ![c] = None]
              /\ told' = [told EXCEPT ![c] = "already"]
              /\ crossed' = crossed \cup {c}
              /\ UNCHANGED <<rows, since, sent, passed>>
         ELSE /\ adding[c].row = 0 => made < MaxRows
              /\ LET no == IF adding[c].row = 0 THEN made + 1 ELSE adding[c].row IN
                 /\ feed' = IF adding[c].row = 0
                              THEN [no |-> no, fetched |-> FALSE, seen |-> {}, fails |-> 0] ELSE feed
                 /\ made' = Max({made, no})
                 /\ subs' = [subs EXCEPT ![c] = [row |-> no, paused |-> FALSE]]
                 /\ adding' = [adding EXCEPT ![c].at = "seed", ![c].row = no]
              /\ since' = [since EXCEPT ![c] = Max(adding[c].got \cup {0})]
              /\ sent' = [sent EXCEPT ![c] = [e \in Entry |-> 0]]
              /\ passed' = [passed EXCEPT ![c] = IF feed # None /\ feed.no = adding[c].row
                                                     THEN feed.seen ELSE {}]
              /\ crossed' = IF removing # None \/ poll # None THEN crossed \cup {c} ELSE crossed
              /\ UNCHANGED told
    /\ UNCHANGED <<season, site, hands, removing, poll, overflown, stops>>

\* record_fetch_success: the row may be gone.
Recorded(no, seen) ==
    IF feed # None /\ feed.no = no
      THEN [feed EXCEPT !.fetched = TRUE, !.seen = seen, !.fails = 0] ELSE feed

\* What the page marks as seen although somebody has not got it.
PassedBy(got) ==
    [c \in Chat |-> IF Follows(c) THEN passed[c] \cup {e \in got : sent[c][e] = 0} ELSE passed[c]]

\* Mutant: nothing is marked as seen.
Seeded_Nothing(got) == {}
Seeded(got) == got

AddSeed(c) ==
    /\ adding[c] # None /\ adding[c].at = "seed"
    /\ feed' = Recorded(adding[c].row, Seeded(adding[c].got))
    /\ passed' = PassedBy(adding[c].got)
    /\ adding' = [adding EXCEPT ![c] = None] /\ told' = [told EXCEPT ![c] = "added"]
    /\ crossed' = IF feed # None /\ \E e \in feed.seen : \A f \in adding[c].got : e > f
                    THEN Chat ELSE crossed
    /\ UNCHANGED <<season, site, hands, removing, poll, made, subs, since, sent, overflown, stops>>

-----------------------------------------------------------------------------
(* The rest of /rss *)

\* remove_subscription deletes the subscription, counts those left ...
Remove(c) ==
    /\ hands < season.hands /\ hands' = hands + 1
    /\ "remove" \in season.may /\ removing = None /\ Follows(c)
    /\ subs' = [subs EXCEPT ![c] = None]
    /\ told' = [told EXCEPT ![c] = "removed"]
    /\ removing' = IF \E d \in Chat \ {c} : Follows(d) THEN None ELSE c
    /\ UNCHANGED <<season, site, adding, poll, feed, made, past>>

\* ... and deletes the feed of none, with whoever has just subscribed to it.
RemoveFeed ==
    /\ removing # None /\ removing' = None /\ feed' = None
    /\ subs' = IF season.keys THEN [c \in Chat |-> IF Follows(c) THEN None ELSE subs[c]] ELSE subs
    /\ crossed' = crossed \cup {c \in Chat : Follows(c)}
    /\ UNCHANGED <<season, site, hands, adding, poll, made, told, since, sent, passed, overflown, stops>>

SetPaused(c, p) ==
    /\ hands < season.hands /\ hands' = hands + 1
    /\ "pause" \in season.may /\ subs[c] # None /\ subs[c].paused # p
    /\ subs' = [subs EXCEPT ![c].paused = p]
    /\ UNCHANGED <<season, site, adding, removing, poll, told, feed, made, past>>

\* /rss testpush pushes some of the page, which is not counted as delivery,
\* and marks all of it as seen.
TestPush(c) ==
    /\ hands < season.hands /\ hands' = hands + 1
    /\ "test" \in season.may /\ Follows(c) /\ adding[c] = None
    /\ feed' = Recorded(feed.no, Fetched) /\ passed' = PassedBy(Fetched)
    /\ UNCHANGED <<season, site, adding, removing, poll, told, made, subs, since, sent, overflown, crossed, stops>>

-----------------------------------------------------------------------------
(* rss_push.  At most one runs at a time, as the scheduler's jobs do. *)

\* Mutant: a feed that fails is polled forever.
Active_Forever == feed # None /\ \E c \in Chat : Follows(c) /\ ~subs[c].paused
Active == feed # None /\ feed.fails < MAX_FAILURES /\ \E c \in Chat : Follows(c) /\ ~subs[c].paused

\* get_active_feeds reads the rows all later steps of the tick go by.
PollBegin ==
    /\ poll = None /\ Active /\ "poll" \in season.may
    /\ poll' = [at |-> "fetch", old |-> feed, got |-> {}, new |-> {}, left |-> {}]
    /\ crossed' = crossed \cup {c \in Chat : adding[c] # None /\ adding[c].at = "seed"}
    /\ UNCHANGED <<season, site, hands, adding, removing, told, rows, since, sent, passed, overflown, stops>>

PollFetch ==
    /\ poll # None /\ poll.at = "fetch"
    /\ poll' = [poll EXCEPT !.at = "record", !.got = Fetched]
    /\ UNCHANGED <<season, site, hands, adding, removing, told, rows, past>>

\* record_fetch_failure, and touch_fetch when the site says it has nothing new:
\* both count as a fetch.
PollNothing ==
    /\ poll # None /\ poll.at = "record" /\ poll' = None
    /\ \/ feed' = IF feed # None /\ feed.no = poll.old.no
                    THEN [feed EXCEPT !.fetched = TRUE, !.fails = @ + 1] ELSE feed
       \/ /\ poll.old.fetched /\ poll.got \subseteq poll.old.seen
          /\ feed' = IF feed # None /\ feed.no = poll.old.no
                       THEN [feed EXCEPT !.fetched = TRUE] ELSE feed
    /\ crossed' = IF poll.old.fetched THEN crossed ELSE Chat
    /\ UNCHANGED <<season, site, hands, adding, removing, told, made, subs, since, sent, passed, overflown, stops>>

\* The first fetch pushes nothing.
PollSeed ==
    /\ poll # None /\ poll.at = "record" /\ ~poll.old.fetched
    /\ feed' = Recorded(poll.old.no, poll.got) /\ passed' = PassedBy(poll.got)
    /\ poll' = None
    /\ UNCHANGED <<season, site, hands, adding, removing, told, made, subs, since, sent, overflown, crossed, stops>>

Newest(es, n) == {e \in es : Cardinality({f \in es : f > e}) < n}

Overflows(got, seen) == Max({0, Cardinality(got) + Cardinality(seen) - MAX_SEEN_IDS})

\* The last MAX_SEEN_IDS of the page's ids, newest first, and those seen before:
\* what does not fit is cut off at the front.
\* Mutant: only what is pushed is remembered.
Window_NewOnly(got, seen) == Newest(got \ seen, MAX_ENTRIES_PER_PUSH)
Window(got, seen) ==
    seen \cup (got \ Newest(got, Overflows(got, seen)))

PollRecord ==
    /\ poll # None /\ poll.at = "record" /\ poll.old.fetched
    /\ LET new  == poll.got \ poll.old.seen
           push == Newest(new, MAX_ENTRIES_PER_PUSH)
           kept == Window(poll.got, poll.old.seen) IN
       /\ feed' = Recorded(poll.old.no, kept)
       /\ overflown' = (overflown \/ Overflows(poll.got, poll.old.seen) > 0)
       /\ poll' = IF new = {} THEN None ELSE [poll EXCEPT !.at = "targets", !.new = push]
       /\ passed' = PassedBy(new \ push)
    /\ UNCHANGED <<season, site, hands, adding, removing, told, made, subs, since, sent, crossed, stops>>

Targets == {c \in Chat : Follows(c) /\ ~subs[c].paused}

PollTargets ==
    /\ poll # None /\ poll.at = "targets"
    /\ poll' = [poll EXCEPT !.at = "deliver", !.left = Targets \X poll.new]
    /\ passed' = [c \in Chat |-> IF c \in Targets THEN passed[c] ELSE passed[c] \cup poll.new]
    /\ UNCHANGED <<season, site, hands, adding, removing, told, rows, since, sent, overflown, crossed, stops>>

\* _deliver_entry, one entry of one chat after the other: delivered; failed; or
\* the chat is unreachable and its subscriptions go.
Deliver(c, e, how) ==
    /\ poll # None /\ poll.at = "deliver" /\ <<c, e>> \in poll.left
    /\ \A x \in poll.left : x[1] = c => x[2] <= e
    /\ poll' = LET left == poll.left \ {<<c, e>>}
               IN  IF left = {} THEN None ELSE [poll EXCEPT !.left = left]
    /\ sent' = IF how = "ok" THEN [sent EXCEPT ![c][e] = @ + 1] ELSE sent
    /\ passed' = IF how = "ok" THEN passed ELSE [passed EXCEPT ![c] = @ \cup {e}]
    /\ subs' = IF how = "gone" THEN [subs EXCEPT ![c] = None] ELSE subs
    /\ UNCHANGED <<season, site, hands, adding, removing, told, feed, made, since, overflown, crossed, stops>>

\* The process stops: what was recorded as seen is not delivered any more.
Stop ==
    /\ "stop" \in season.may /\ stops < MaxStops /\ stops' = stops + 1
    /\ poll # None /\ poll' = None
    /\ passed' = [c \in Chat |-> IF poll.at \in {"targets", "deliver"} THEN passed[c] \cup poll.new ELSE passed[c]]
    /\ adding' = [c \in Chat |-> None] /\ removing' = None
    /\ told' = [c \in Chat |-> IF adding[c] # None THEN "failed" ELSE told[c]]
    /\ UNCHANGED <<season, site, hands, rows, since, sent, overflown, crossed>>

Next ==
    \/ Publish \/ RemoveFeed
    \/ PollBegin \/ PollFetch \/ PollNothing \/ PollSeed \/ PollRecord \/ PollTargets \/ Stop
    \/ \E c \in Chat : \/ AddFetch(c) \/ AddLook(c) \/ AddFlush(c) \/ AddSeed(c)
                       \/ Remove(c) \/ TestPush(c)
                       \/ \E p \in BOOLEAN : SetPaused(c, p)
                       \/ \E e \in Entry, how \in {"ok", "failed", "gone"} : Deliver(c, e, how)

Spec == Init /\ [][Next]_vars

-----------------------------------------------------------------------------
(* Properties *)

\* An entry is pushed to a chat once: database/rss.py says that the window is
\* large enough.
PushedOnce == \A c \in Chat, e \in Entry : sent[c][e] <= 1

\* It is, as long as the window has not overflown and no handler of a
\* subscription wrote the older page it had fetched over it.
PushedOnceInWindow == ~overflown => \A c \in Chat \ crossed, e \in Entry : sent[c][e] <= 1

\* Nothing published before a chat subscribed (or resumed) is pushed to it,
\* unless that happened during a poll,
\* or the first poll failed.
NotFlooded == \A c \in Chat \ crossed, e \in Entry : sent[c][e] > 0 /\ subs[c] # None => e > since[c]

\* What a chat follows and has not been sent is still new, or was passed over
\* for a reason: it was there before, beyond the limit of a push, failed, or
\* the process stopped.
NothingLost ==
    poll = None /\ feed # None => \A c \in Chat \ crossed, e \in feed.seen :
        Follows(c) /\ ~subs[c].paused /\ e > since[c] => sent[c][e] > 0 \/ e \in passed[c]

\* Whom the bot tells that he is subscribed is (add_subscription: "The row the
\* other caller created is exactly what this caller wanted").
AlreadyIsSubscribed ==
    [][\A c \in Chat : told'[c] = "already" /\ told[c] # "already" => subs[c] # None]_vars
=============================================================================
