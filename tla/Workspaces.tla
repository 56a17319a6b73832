----------------------------- MODULE Workspaces ------------------------------
(* The files of the agent's sessions (agent/tools/workspace.py): a database  *)
(* per session, opened on first use, a bounded cache of open ones, of which  *)
(* the least recently used is closed, and the removal of a session.  The     *)
(* calls of a turn run side by side.                                         *)
EXTENDS Integers, FiniteSets, Sequences, SequencesExt

CONSTANTS Session, Call,
          CacheMax,   \* _SESSION_CACHE_MAX
          MaxOpens,   \* databases opened
          MaxRemovals

VARIABLES cache,     \* sessions and their handles, least recently used first
          open,      \* handles that are open
          life,      \* for each handle ever opened, which life of its session's file
          pc,        \* what a call is doing: see Idle
          file,      \* one file of each session: its life and the edits it has
          removing,  \* sessions whose files are about to be unlinked
          removals,
          doubled,   \* (history) sessions opened twice at a time
          mixed      \* (history) sessions removed, or with edits that overlapped

Parameters == Session # {} /\ CacheMax \in Nat \ {0} /\ MaxOpens \in Nat

vars == <<cache, open, life, pc, file, removing, removals, doubled, mixed>>

Idle == [at |-> "idle", session |-> CHOOSE s \in Session : TRUE, handle |-> 0, seen |-> {}]
Init == /\ cache = <<>> /\ open = {} /\ life = <<>> /\ pc = [c \in Call |-> Idle]
        /\ file = [s \in Session |-> [life |-> 1, edits |-> {}]]
        /\ removing = {} /\ removals = 0 /\ doubled = {} /\ mixed = {}

Entry(s, h) == [session |-> s, handle |-> h]
Cached(s) == {e \in Range(cache) : e.session = s}
Others(s) == IF Cached(s) = {} THEN cache
             ELSE RemoveAt(cache, CHOOSE i \in DOMAIN cache : cache[i].session = s)
At(c, where) == pc[c].at = where
Does(where, s) == \E c \in Call : At(c, where) /\ pc[c].session = s
Moves(c, record) == pc' = [pc EXCEPT ![c] = record]

-----------------------------------------------------------------------------
(* get_workspace_agentfs: without a handle in the cache a database is        *)
(* opened, which takes time, in which nobody else knows of it.               *)
Ask(c, s) == /\ At(c, "idle") /\ Cached(s) = {} /\ Len(life) < MaxOpens
             /\ Moves(c, [at |-> "opening", session |-> s, handle |-> Len(life) + 1, seen |-> {}])
             /\ open' = open \cup {Len(life) + 1} /\ life' = Append(life, file[s].life)
             /\ doubled' = IF Does("opening", s) THEN doubled \cup {s} ELSE doubled
             /\ UNCHANGED <<cache, file, removing, removals, mixed>>

(* Into the cache as the newest; with one too many, the oldest is closed.    *)
Full(q) == Len(q) > CacheMax
Kept(q) == IF Full(q) THEN Tail(q) ELSE q
Closed(q) == IF Full(q) THEN {Head(q).handle} ELSE {}
Put(c, s, h) == LET q == Append(Others(s), Entry(s, h))
                IN /\ cache' = Kept(q) /\ open' = open \ Closed(q)
                   /\ Moves(c, [at |-> "using", session |-> s, handle |-> h, seen |-> {}])
Opened(c) == /\ At(c, "opening") /\ Put(c, pc[c].session, pc[c].handle)
             /\ UNCHANGED <<life, file, removing, removals, doubled, mixed>>
Found(c, s) == /\ At(c, "idle") /\ \E e \in Cached(s) : Put(c, s, e.handle)
               /\ UNCHANGED <<life, file, removing, removals, doubled, mixed>>

-----------------------------------------------------------------------------
(* edit_file: read, then write what was read with the edit put in.  A handle *)
(* that was closed meanwhile raises; one of a file that is gone writes into  *)
(* nothing.  Mutant: the edit alone is written.                              *)
Works(c) == pc[c].handle \in open
Broken(c) == /\ pc[c].at \in {"using", "writing"} /\ ~Works(c) /\ Moves(c, [Idle EXCEPT !.at = "failed"])
             /\ UNCHANGED <<cache, open, life, file, removing, removals, doubled, mixed>>
InPlace(c) == life[pc[c].handle] = file[pc[c].session].life
Read(c) == /\ At(c, "using") /\ Works(c)
           /\ Moves(c, [pc[c] EXCEPT !.at = "writing",
                                     !.seen = IF InPlace(c) THEN file[pc[c].session].edits ELSE {}])
           /\ mixed' = IF Does("writing", pc[c].session) THEN mixed \cup {pc[c].session} ELSE mixed
           /\ UNCHANGED <<cache, open, life, file, removing, removals, doubled>>
Edited_Alone(seen, c) == {c}
Edited(seen, c) == seen \cup {c}
Write(c) == /\ At(c, "writing") /\ Works(c) /\ Moves(c, [pc[c] EXCEPT !.at = "edited"])
            /\ file' = IF InPlace(c)
                       THEN [file EXCEPT ![pc[c].session].edits = Edited(pc[c].seen, c)] ELSE file
            /\ UNCHANGED <<cache, open, life, removing, removals, doubled, mixed>>

(* delete_workspace_session: the handle leaves the cache and is closed; then *)
(* the files go, whoever has opened them again in between.                   *)
DeleteSession(s) == /\ removals < MaxRemovals /\ removals' = removals + 1 /\ s \notin removing
             /\ removing' = removing \cup {s} /\ mixed' = mixed \cup {s}
             /\ cache' = Others(s) /\ open' = open \ {e.handle : e \in Cached(s)}
             /\ UNCHANGED <<life, pc, file, doubled>>
Unlink(s) == /\ s \in removing /\ removing' = removing \ {s}
             /\ file' = [file EXCEPT ![s] = [life |-> @.life + 1, edits |-> {}]]
             /\ UNCHANGED <<cache, open, life, pc, removals, doubled, mixed>>

Next == \/ \E c \in Call : \/ Opened(c) \/ Broken(c) \/ Read(c) \/ Write(c)
                           \/ \E s \in Session : Ask(c, s) \/ Found(c, s)
        \/ \E s \in Session : DeleteSession(s) \/ Unlink(s)
Spec == Init /\ [][Next]_vars

-----------------------------------------------------------------------------
(* The cache keeps to its bound, has a session once and only open handles.   *)
TypeOK == /\ Len(cache) <= CacheMax
          /\ \A i, j \in DOMAIN cache : cache[i].session = cache[j].session => i = j
CachedAreOpen == \A e \in Range(cache) : e.handle \in open

(* "Open instances are LRU-cached with a bounded count; evicted and shutdown *)
(* paths close the underlying connections" (workspace.py:5): a handle that   *)
(* is neither cached nor being opened is closed.  Two calls that open the    *)
(* same session at a time leave one of their handles open for good.          *)
Leaked == open \ ({e.handle : e \in Range(cache)} \cup {pc[c].handle : c \in {c \in Call : At(c, "opening")}})
NoneLeaked == Leaked = {}
NoneLeakedUnlessDoubled == doubled = {} => NoneLeaked

(* An edit that was reported as made is in the file, whatever handles were   *)
(* closed, if none overlapped with it and the session was not removed.       *)
EditsKept == \A c \in Call : At(c, "edited") /\ pc[c].session \notin mixed
                                => c \in file[pc[c].session].edits
=============================================================================
