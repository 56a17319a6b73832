---------------------------- MODULE ChannelComments ----------------------------
(* Comments on the posts of a channel (agent/channel_comment.py): the parts  *)
(* of an album arrive as messages of their own, each handled by a task of    *)
(* its own; the first with a caption is commented on, once.                  *)
EXTENDS Integers, FiniteSets

CONSTANTS Post,       \* the messages: [id, album, captioned]; album 0 is none
          Shared,     \* the cache is Redis: others run between a get and a set
          MaxExpiries \* times the guard of an album expires (60 s)

VARIABLES at,        \* what the task of each post is doing
          guard,     \* albums that are marked as commented on
          allowance, \* the group may start another run (quota.can_start)
          run,       \* posts whose run has ended well
          settled,   \* posts whose run is charged
          comments,  \* posts that have their comment
          polls,     \* posts that have their poll
          open,      \* traces begun and not finished
          marked,    \* how a trace is marked: posts and "ok" or "error"
          expiries,
          raced      \* (history) albums two posts of which were checked at a time

vars == <<at, guard, allowance, run, settled, comments, polls, open, marked, expiries, raced>>

Init == /\ at = [p \in Post |-> "new"] /\ guard = {} /\ allowance \in BOOLEAN
        /\ run = {} /\ settled = {} /\ comments = {} /\ polls = {} /\ open = {} /\ marked = {}
        /\ expiries = 0 /\ raced = {}

To(p, where) == at' = [at EXCEPT ![p] = where]
Drop(p) == To(p, "done")
Album(p) == p.album # 0
Siblings(p) == {o \in Post \ {p} : Album(p) /\ o.album = p.album}

-----------------------------------------------------------------------------
(* Without an allowance the post is skipped, before the album is looked at.  *)
Start(p) == /\ at[p] = "new" /\ To(p, IF allowance THEN "check" ELSE "done")
            /\ UNCHANGED <<guard, allowance, run, settled, comments, polls, open, marked, expiries, raced>>

(* _is_first_media_in_group.  Mutant: a part without a caption will do.      *)
Passes_Bare(p) == p.album \notin guard
Passes(p) == ~Album(p) \/ (p.captioned /\ p.album \notin guard)
Check(p) == /\ at[p] = "check"
            /\ To(p, IF ~Passes(p) THEN "done" ELSE IF Album(p) THEN "mark" ELSE "prompt")
            /\ raced' = IF \E o \in Siblings(p) : at[o] = "mark" THEN raced \cup {p.album} ELSE raced
            /\ UNCHANGED <<guard, allowance, run, settled, comments, polls, open, marked, expiries>>
(* Mutant: the album is not marked.                                          *)
Marked_Not(p) == {}
Marked(p) == {p.album}
Mark(p) == /\ at[p] = "mark" /\ guard' = guard \cup Marked(p) /\ To(p, "prompt")
           /\ UNCHANGED <<allowance, run, settled, comments, polls, open, marked, expiries, raced>>

(* An empty prompt ends it, and so does one that cannot be composed; then    *)
(* the trace begins.                                                         *)
Prompt(p) == /\ at[p] = "prompt"
             /\ \/ Drop(p) /\ UNCHANGED open
                \/ To(p, "run") /\ open' = open \cup {p}
             /\ UNCHANGED <<guard, allowance, run, settled, comments, polls, marked, expiries, raced>>
RunFails(p) == /\ at[p] = "run" /\ To(p, "finish") /\ marked' = marked \cup {<<p, "error">>}
               /\ UNCHANGED <<guard, allowance, run, settled, comments, polls, open, expiries, raced>>
Run(p) == /\ at[p] = "run" /\ To(p, "settle") /\ run' = run \cup {p}
          /\ UNCHANGED <<guard, allowance, settled, comments, polls, open, marked, expiries, raced>>

(* The run is charged to the group, or the ledger fails, and what it said    *)
(* goes nowhere.  Mutant: the failure is passed over.                        *)
Unsettled_Talks(p) == To(p, "reply") /\ UNCHANGED marked
Unsettled(p) == To(p, "finish") /\ marked' = marked \cup {<<p, "error">>}
Settle(p) == /\ at[p] = "settle"
             /\ \/ /\ settled' = settled \cup {p} /\ allowance' \in {allowance, FALSE}
                   /\ marked' = marked \cup {<<p, "ok">>} /\ To(p, "reply")
                \/ Unsettled(p) /\ UNCHANGED <<settled, allowance>>
             /\ UNCHANGED <<guard, run, comments, polls, open, expiries, raced>>

(* The comment, then the poll if there is a valid one; either may fail, and  *)
(* that says nothing of the run.  Mutant: the run has failed.                *)
Blamed_Run(p, said) == IF said THEN {} ELSE {<<p, "error">>}
Blamed(p, said) == {}
Comment(p) == /\ at[p] = "reply" /\ To(p, "poll")
              /\ \E said \in BOOLEAN : /\ comments' = IF said THEN comments \cup {p} ELSE comments
                                       /\ marked' = marked \cup Blamed(p, said)
              /\ UNCHANGED <<guard, allowance, run, settled, polls, open, expiries, raced>>
Poll(p) == /\ at[p] = "poll" /\ To(p, "finish") /\ polls' \in {polls, polls \cup {p}}
           /\ UNCHANGED <<guard, allowance, run, settled, comments, open, marked, expiries, raced>>
Finish(p) == /\ at[p] = "finish" /\ Drop(p) /\ open' = open \ {p}
             /\ UNCHANGED <<guard, allowance, run, settled, comments, polls, marked, expiries, raced>>

Expire(a) == /\ a \in guard /\ expiries < MaxExpiries /\ expiries' = expiries + 1
             /\ guard' = guard \ {a} /\ raced' = raced \cup {a}
             /\ UNCHANGED <<at, allowance, run, settled, comments, polls, open, marked>>

(* Without Redis nothing runs between the look at an album and its mark.     *)
Alone(p) == Shared \/ \A o \in Post \ {p} : at[o] # "mark"
Next == \/ \E p \in Post : Alone(p) /\ (\/ Start(p) \/ Check(p) \/ Mark(p) \/ Prompt(p) \/ Run(p) \/ RunFails(p)
                                        \/ Settle(p) \/ Comment(p) \/ Poll(p) \/ Finish(p))
        \/ \E a \in guard : Expire(a)
Spec == Init /\ [][Next]_vars

-----------------------------------------------------------------------------
(* What is said comes from a run that is charged, and a trace is open while  *)
(* its run is under way, and only then.                                      *)
ChargedBeforeSaid == /\ comments \cup polls \subseteq settled /\ settled \subseteq run
                     /\ open = {p \in Post : at[p] \in {"run", "settle", "reply", "poll", "finish"}}

(* An album has at most one run, by a part with a caption, unless two of its *)
(* parts were checked at a time or its mark expired.                         *)
OncePerAlbum == \A p, o \in run : p # o /\ Album(p) /\ p.album = o.album => p.album \in raced
AlbumByCaption == \A p \in run : Album(p) => p.captioned

(* "a failure of a later step is not one of the model call": a trace ends    *)
(* marked, and as well if its run was charged.                               *)
MarkedOnce == \A p \in Post : at[p] = "done" /\ p \notin open
                => /\ {m \in marked : m[1] = p} \subseteq {<<p, IF p \in settled THEN "ok" ELSE "error">>}
                   /\ p \in run => \E m \in marked : m[1] = p
=============================================================================
