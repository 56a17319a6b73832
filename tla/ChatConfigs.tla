----------------------------- MODULE ChatConfigs -----------------------------
(***************************************************************************)
(* The configuration of one group: database/chat.py, the commands of the   *)
(* bot that change it, and the pages of the panel that do.                 *)
(*                                                                         *)
(* The configuration is one JSON column.  Commands take the object that    *)
(* memttlcache holds (the in-process cache hands out the object itself, so *)
(* a change is seen by whoever holds it), change it and write all of it;   *)
(* the panel reads the row, sets some fields and writes all of it.  Both   *)
(* put their object into the cache before they commit.  `bank` stands for  *)
(* verify_questions, which only its own page sets, `flags` for the rest.   *)
(***************************************************************************)
EXTENDS Integers

CONSTANTS Writers,   \* handlers, each of which runs once
          MaxFaults, \* commits that fail
          None

VARIABLES row,     \* the configuration in the database
          heap,    \* the object a handler made, by its name
          cached,  \* the name of the object in memttlcache, or None
          pc,      \* where a handler is
          holds,   \* the name of the object it works on
          writes,  \* what it will commit: config.to_dict() at the assignment
          saved,   \* history: the bank last saved and committed
          raced,   \* history: two handlers were in flight together
          faults

vars == <<row, heap, cached, pc, holds, writes, saved, raced, faults>>

Config == [flags : Nat, bank : Nat]
Blank == [flags |-> 0, bank |-> 0]

TypeOK ==
    /\ row \in Config /\ heap \in [Writers -> Config]
    /\ cached \in Writers \cup {None}
    /\ pc \in [Writers -> {"idle", "missed", "holds", "reading", "read",
                          "writing", "banking", "done"}]
    /\ holds \in [Writers -> Writers \cup {None}]
    /\ writes \in [Writers -> Config]
    /\ saved \in Nat /\ raced \in BOOLEAN /\ faults \in 0..MaxFaults
    /\ \A w \in Writers :
         pc[w] \in {"holds", "reading", "read", "writing", "banking"} => holds[w] # None

Init ==
    /\ row = Blank /\ heap = [w \in Writers |-> Blank] /\ cached = None
    /\ pc = [w \in Writers |-> "idle"] /\ holds = [w \in Writers |-> None]
    /\ writes = [w \in Writers |-> Blank]
    /\ saved = 0 /\ raced = FALSE /\ faults = 0

InFlight == {w \in Writers : pc[w] \notin {"idle", "done"}}
Goes(w, at) == /\ pc' = [pc EXCEPT ![w] = at]
               /\ raced' = (raced \/ InFlight \ {w} # {})

-----------------------------------------------------------------------------
(* get_chat_config *)

\* A hit: the shared object.
Hit(w) ==
    /\ pc[w] = "idle" /\ cached # None
    /\ holds' = [holds EXCEPT ![w] = cached]
    /\ Goes(w, "holds")
    /\ UNCHANGED <<row, heap, cached, writes, saved, faults>>

\* Mutant: on a miss the handler goes on with no configuration.
Miss_NoConfig(w) ==
    /\ pc[w] = "idle" /\ cached = None
    /\ Goes(w, "holds")
    /\ UNCHANGED <<row, heap, cached, holds, writes, saved, faults>>

\* A miss: an object of its own from the row, put into the cache later.
Miss(w) ==
    /\ pc[w] = "idle" /\ cached = None
    /\ heap' = [heap EXCEPT ![w] = row]
    /\ Goes(w, "missed")
    /\ UNCHANGED <<row, cached, holds, writes, saved, faults>>

Fill(w) ==
    /\ pc[w] = "missed"
    /\ cached' = w
    /\ holds' = [holds EXCEPT ![w] = w]
    /\ Goes(w, "holds")
    /\ UNCHANGED <<row, heap, writes, saved, faults>>

\* The handler only wanted to read it.
JustRead(w) ==
    /\ pc[w] = "holds" /\ Goes(w, "done")
    /\ UNCHANGED <<row, heap, cached, holds, writes, saved, faults>>

\* Five minutes pass.
Expire ==
    /\ cached # None /\ cached' = None
    /\ UNCHANGED <<row, heap, pc, holds, writes, saved, raced, faults>>

-----------------------------------------------------------------------------
(* The commands: /config, /greet, /lang, /setqp, /setverify, the unpin job *)

\* The command changes the object it was given.
Change(w) ==
    /\ pc[w] = "holds"
    /\ heap' = [heap EXCEPT ![holds[w]].flags = @ + 1]
    /\ Goes(w, "reading")
    /\ UNCHANGED <<row, cached, holds, writes, saved, faults>>

\* update_chat_config, after its session.get: the whole object is assigned,
\* and is the cached one from now on.
Assign(w) ==
    /\ pc[w] = "reading"
    /\ writes' = [writes EXCEPT ![w] = heap[holds[w]]]
    /\ cached' = holds[w]
    /\ Goes(w, "writing")
    /\ UNCHANGED <<row, heap, holds, saved, faults>>

-----------------------------------------------------------------------------
(* The panel *)

\* update_chat_config_fields, its session.get.
ReadRow(w) ==
    /\ pc[w] = "idle"
    /\ heap' = [heap EXCEPT ![w] = row]
    /\ holds' = [holds EXCEPT ![w] = w]
    /\ Goes(w, "read")
    /\ UNCHANGED <<row, cached, writes, saved, faults>>

\* Mutants: the cache keeps what it had; the page of the toggles does not
\* carry the bank over.
Cache_Kept(w) == cached' = cached
Fields_Wiped(c, f) == IF f = "bank" THEN [c EXCEPT !.bank = @ + 1]
                      ELSE [flags |-> c.flags + 1, bank |-> 0]

\* memttlcache.set at the end of the update.
Cache(w) == cached' = w

\* The fields of one page set in the configuration read: the toggles of
\* /{chat_id}/config, or the page of the bank.
Fields(c, f) == [c EXCEPT ![f] = @ + 1]

SetFields(w, f) ==
    /\ pc[w] = "read"
    /\ heap' = [heap EXCEPT ![w] = Fields(@, f)]
    /\ writes' = [writes EXCEPT ![w] = heap'[w]]
    /\ Cache(w)
    /\ Goes(w, IF f = "bank" THEN "banking" ELSE "writing")
    /\ UNCHANGED <<row, holds, saved, faults>>

-----------------------------------------------------------------------------
(* with_tx *)

Commit(w) ==
    /\ pc[w] \in {"writing", "banking"}
    /\ row' = writes[w]
    /\ saved' = IF pc[w] = "banking" THEN writes[w].bank ELSE saved
    /\ Goes(w, "done")
    /\ UNCHANGED <<heap, cached, holds, writes, faults>>

\* A commit that fails leaves the cache with what was not stored.
Rollback(w) ==
    /\ pc[w] \in {"writing", "banking"} /\ faults < MaxFaults
    /\ faults' = faults + 1
    /\ Goes(w, "done")
    /\ UNCHANGED <<row, heap, cached, holds, writes, saved>>

Step(w) ==
    \/ Hit(w) \/ Miss(w) \/ Fill(w) \/ JustRead(w) \/ Change(w) \/ Assign(w)
    \/ ReadRow(w) \/ (\E f \in {"flags", "bank"} : SetFields(w, f))
    \/ Commit(w) \/ Rollback(w)

Next == Expire \/ \E w \in Writers : Step(w)

Spec == Init /\ [][Next]_vars

-----------------------------------------------------------------------------
(* Properties *)

\* The bank in the database is the one last saved on its page: saving the
\* toggles, or a command, cannot wipe it.
BankKept == row.bank = saved

\* Only handlers that overlap can break it, whatever the cache holds.
BankKeptAlone == ~raced /\ faults = 0 => BankKept

\* While handlers follow one another the cache never outlives an update, from
\* the panel or from a command that changed the cached object itself.
CacheFreshAlone ==
    ~raced /\ faults = 0 /\ InFlight = {} /\ cached # None => heap[cached] = row
=============================================================================
