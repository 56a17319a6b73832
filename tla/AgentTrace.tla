----------------------------- MODULE AgentTrace -----------------------------
(***************************************************************************)
(* The record of the agent's runs: plugins/agent/trace.py and              *)
(* database/agent_trace.py, for one instance of one conversation (a        *)
(* restart or /forget opens another).                                      *)
(*                                                                         *)
(* A request is stored as an increment: what follows the longest common    *)
(* prefix with the request before, and the instructions only when they     *)
(* changed.  Whether a request before there was is known from _baselines,  *)
(* which is in memory; the rows are written once, when a run ends, by a    *)
(* task of its own.  Messages are numbers.  Nested runs, which store their *)
(* requests whole, the other kinds of events and token counts are left out.*)
(***************************************************************************)
EXTENDS Integers, Sequences, FiniteSets, SequencesExt

CONSTANTS MaxRuns, MaxMsgs,    \* bounds
          MAX_EVENTS_PER_RUN,
          Insts,               \* the instructions there are
          Faults,              \* scenarios: sets of what may happen besides
          Gates,               \* callers of note_rejection
          None

VARIABLES fault,    \* the one of Faults
          said,     \* messages there have been
          talk,     \* the history of the conversation
          baseline, \* _baselines[session_id]: [docs, inst], or None
          runs,     \* TraceSession, or its task of writing, by number
          stored,   \* rows of agent_runs with their events
          cutoff,   \* runs up to here started before the retention window
          slot,     \* agent_trace_reject:...
          asking,   \* callers between the look at the slot and its setting
          refused,  \* rejections recorded since the slot was free
          marred, hasty \* history

refusals == <<slot, asking, refused, hasty>>
trace == <<baseline, runs, stored, marred>>
vars == <<fault, said, talk, trace, cutoff, refusals>>

Run == 1..MaxRuns
Docs == UNION {[1..n -> 1..MaxMsgs] : n \in 0..MaxMsgs}
Begun == {r \in Run : runs[r] # None}
Open == {r \in Begun : runs[r].at \in {"look", "open"}}
Fresh(kind, at) ==
    [kind |-> kind, at |-> at, starts |-> FALSE, prev |-> None, inst |-> None, events |-> << >>]

TypeOK ==
    /\ fault \in Faults /\ said \in 0..MaxMsgs /\ talk \in Docs
    /\ baseline = None \/ (baseline.docs \in Docs /\ baseline.inst \in Insts)
    /\ \A r \in Begun : /\ runs[r].at \in {"look", "open", "write", "done"}
                        /\ Len(runs[r].events) <= MAX_EVENTS_PER_RUN
    /\ \A row \in stored : row.no \in Run /\ runs[row.no].at = "done"
    /\ cutoff \in 0..MaxRuns /\ asking \subseteq Gates /\ refused \in Nat
    /\ {slot, marred, hasty} \subseteq BOOLEAN

Init ==
    /\ fault \in Faults /\ said = 0 /\ talk = << >> /\ baseline = None
    /\ runs = [r \in Run |-> None] /\ stored = {} /\ cutoff = 0
    /\ slot = FALSE /\ asking = {} /\ refused = 0 /\ marred = FALSE /\ hasty = FALSE

-----------------------------------------------------------------------------
(* start_trace *)

\* A turn, of which there is one at a time, or the judgement whether a message
\* follows up, of which there may be more.
Start(r, kind) ==
    /\ r \notin Begun /\ \A s \in Run : s < r => s \in Begun
    /\ kind = "chat" => "turns" \in fault /\ \A s \in Open : runs[s].kind # "chat"
    /\ kind = "judge" => "judges" \in fault
    /\ runs' = [runs EXCEPT ![r] = Fresh(kind, IF baseline = None THEN "open" ELSE "look")]
    /\ marred' = (marred \/ Open # {})
    /\ UNCHANGED <<fault, said, talk, baseline, stored, cutoff, refusals>>

HasStored == \E row \in stored : row.events # << >>

\* Mutant: what the process remembers is believed.
StartsOver_Never == FALSE
\* session_has_stored_requests
StartsOver == ~HasStored

Look(r) ==
    /\ r \in Begun /\ runs[r].at = "look"
    /\ runs' = [runs EXCEPT ![r].at = "open", ![r].starts = StartsOver]
    /\ baseline' = IF StartsOver THEN None ELSE baseline
    /\ UNCHANGED <<fault, said, talk, stored, cutoff, marred, refusals>>

-----------------------------------------------------------------------------
(* note_model_request *)

CommonPrefixLen(s, t) == Cardinality({i \in DOMAIN s : i \in DOMAIN t /\ \A j \in 1..i : s[j] = t[j]})

PrefixLenFor(run, docs) ==
    IF run.prev # None THEN CommonPrefixLen(run.prev, docs)
    ELSE IF baseline = None \/ run.starts THEN 0
    ELSE CommonPrefixLen(baseline.docs, docs)

StoreInstructions(run, inst) ==
    run.starts \/ (IF baseline # None THEN baseline.inst # inst ELSE run.inst # inst)

\* The next request: the history and what is new; the history compacted; or
\* what is to be judged.
NextDocs(run) == IF run.kind = "judge" THEN {<<said + 1>>}
                 ELSE {Append(talk, said + 1), <<said + 1>>}

\* Mutant: a run has any number of events.
Full_Never(run) == FALSE
Full(run) == Len(run.events) >= MAX_EVENTS_PER_RUN

Request(r, docs, inst) ==
    /\ r \in Begun /\ runs[r].at = "open" /\ said < MaxMsgs
    /\ docs \in NextDocs(runs[r])
    /\ said' = said + 1
    /\ talk' = IF runs[r].kind = "chat" THEN docs ELSE talk
    /\ LET n     == PrefixLenFor(runs[r], docs)
           event == [prefix |-> n, new |-> SubSeq(docs, n + 1, Len(docs)),
                     inst |-> IF StoreInstructions(runs[r], inst) THEN inst ELSE None,
                     cut |-> FALSE, docs |-> docs, meant |-> inst] IN
       /\ runs' = [runs EXCEPT ![r].prev = docs, ![r].inst = inst,
                               ![r].events = IF Full(runs[r]) THEN @ ELSE Append(@, event)]
       /\ marred' = (marred \/ Full(runs[r]))
    /\ baseline' = [docs |-> docs, inst |-> inst]
    /\ UNCHANGED <<fault, stored, cutoff, refusals>>

\* 64 other conversations have been remembered since.
Evict ==
    /\ "evicts" \in fault /\ baseline # None /\ baseline' = None
    /\ UNCHANGED <<fault, said, talk, runs, stored, cutoff, marred, refusals>>

-----------------------------------------------------------------------------
(* finish_trace and the writing *)

Finish(r) ==
    /\ r \in Begun /\ runs[r].at = "open" /\ runs' = [runs EXCEPT ![r].at = "write"]
    /\ UNCHANGED <<fault, said, talk, baseline, stored, cutoff, marred, refusals>>

\* _prepare_payload: a payload that is too large is replaced by a marker.
Prepared(event, over) == [event EXCEPT !.cut = over]

\* _to_draft and _insert_run: the run's row with its events.
Draft(r, over) ==
    [no |-> r, events |-> [i \in DOMAIN runs[r].events |-> Prepared(runs[r].events[i], i \in over)]]

\* _write_root; a failing write is a warning.
WriteRoot(r, over) ==
    /\ r \in Begun /\ runs[r].at = "write" /\ over \subseteq DOMAIN runs[r].events
    /\ over # {} => "caps" \in fault
    /\ stored' = stored \cup {Draft(r, over)}
    /\ runs' = [runs EXCEPT ![r] = Fresh(runs[r].kind, "done")]
    /\ marred' = (marred \/ over # {})
    /\ UNCHANGED <<fault, said, talk, baseline, cutoff, refusals>>

WriteFails(r) ==
    /\ "failures" \in fault /\ r \in Begun /\ runs[r].at = "write"
    /\ runs' = [runs EXCEPT ![r] = Fresh(runs[r].kind, "done")] /\ marred' = TRUE
    /\ UNCHANGED <<fault, said, talk, baseline, stored, cutoff, refusals>>

Age ==
    /\ "ages" \in fault /\ \E n \in Begun : n > cutoff /\ cutoff' = n
    /\ UNCHANGED <<fault, said, talk, trace, refusals>>

\* delete_runs_before: a conversation as a whole.
\* Mutant: run by run.
Expired_ByAge == {row \in stored : row.no <= cutoff}
Expired == IF \A row \in stored : row.no <= cutoff THEN stored ELSE {}

Clean ==
    /\ Expired # {} /\ stored' = stored \ Expired
    /\ marred' = (marred \/ \E r \in Begun : runs[r].at \in {"open", "write"})
    /\ UNCHANGED <<fault, said, talk, baseline, runs, cutoff, refusals>>

-----------------------------------------------------------------------------
(* note_rejection *)

\* Mutant: the slot is not taken.
Claimed_Not == FALSE
Claimed == TRUE

ClaimLook(g) ==
    /\ "refusals" \in fault /\ g \notin asking /\ ~slot
    /\ asking' = asking \cup {g} /\ hasty' = (hasty \/ asking # {})
    /\ UNCHANGED <<fault, said, talk, trace, cutoff, slot, refused>>

\* ... and the row is written by a task.
ClaimSet(g) ==
    /\ g \in asking /\ asking' = asking \ {g}
    /\ slot' = Claimed /\ refused < 3 /\ refused' = refused + 1
    /\ UNCHANGED <<fault, said, talk, trace, cutoff, hasty>>

SlotExpires ==
    /\ slot /\ asking = {} /\ slot' = FALSE /\ refused' = 0 /\ hasty' = FALSE
    /\ UNCHANGED <<fault, said, talk, trace, cutoff, asking>>

Next ==
    \/ \E r \in Run : \/ \E kind \in {"chat", "judge"} : Start(r, kind)
                      \/ Look(r) \/ Finish(r) \/ WriteFails(r)
                      \/ \E i \in Insts : r \in Begun /\ \E d \in NextDocs(runs[r]) : Request(r, d, i)
                      \/ \E over \in SUBSET (1..MAX_EVENTS_PER_RUN) : WriteRoot(r, over)
    \/ Evict \/ Age \/ Clean \/ SlotExpires
    \/ \E g \in Gates : ClaimLook(g) \/ ClaimSet(g)

Spec == Init /\ [][Next]_vars

-----------------------------------------------------------------------------
(* Properties *)

\* The stored requests, in the order of the conversation.
Requests ==
    FoldLeft(LAMBDA es, r : IF \E row \in stored : row.no = r
                              THEN es \o (CHOOSE row \in stored : row.no = r).events ELSE es,
             << >>, [r \in Run |-> r])

\* Replaying them: what each is rebuilt to, with the instructions in force.
Replay ==
    FoldLeft(LAMBDA done, e :
                LET last == IF done = << >> THEN [docs |-> << >>, inst |-> None] ELSE done[Len(done)]
                IN  Append(done, IF e.cut THEN last
                                 ELSE [docs |-> SubSeq(last.docs, 1, e.prefix) \o e.new,
                                       inst |-> IF e.inst = None THEN last.inst ELSE e.inst]),
             << >>, Requests)

\* Every request on record that was not capped can be rebuilt (database/
\* agent_trace.py: "reading a whole request means replaying the conversation in
\* order"), once the runs before it are written.
Replayable ==
    (\A r \in Begun : runs[r].at # "write") =>
        \A i \in DOMAIN Requests :
            ~Requests[i].cut => /\ Replay[i].docs = Requests[i].docs
                                /\ Replay[i].inst = Requests[i].meant

\* So it is unless a request before was left out by a cap or a failing write,
\* runs of the conversation overlapped, or the records were cleaned up between
\* the start of a run and its writing.
ReplayableUnlessMarred == ~marred => Replayable

\* A refusal is recorded once a minute, unless two gates ask at once.
RefusedOnce == ~hasty => refused <= 1
=============================================================================
