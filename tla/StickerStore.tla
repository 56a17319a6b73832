---------------------------- MODULE StickerStore ----------------------------
(* The stickers a group's agent remembers: a row and an embedding each, in a *)
(* SQLite file with one lock for writers (plugins/agent/sticker_vec.py), and *)
(* the tasks that fetch, describe, embed and store a sticker somebody sent   *)
(* (sticker_memory.py).                                                      *)
EXTENDS Integers, FiniteSets

CONSTANTS Sticker, Task,
          Ttl,      \* agent_sticker_ttl, in ticks of the clock
          MinKeep,  \* agent_sticker_min_keep_count
          MaxSent, MaxCrashes, MaxRemovals, None

VARIABLES rows,      \* stored stickers: age since last_seen, or None
          vectors,   \* stickers with an embedding
          lock,      \* _write_lock: the task that holds it
          task,      \* what each background task is doing
          sent, crashes, removals,
          rash       \* (history) a sticker was evicted that had been seen lately

vars == <<rows, vectors, lock, task, sent, crashes, removals, rash>>

Parameters == Ttl \in Nat /\ None \notin Sticker \cup Task \cup 0..Ttl + 1

Idle == [pc |-> "idle", of |-> None, old |-> {}]
Stored == {s \in Sticker : rows[s] # None}
Expired == {s \in Stored : rows[s] > Ttl}
At(t) == task[t].pc
Go(t, pc) == task' = [task EXCEPT ![t].pc = pc]

Init == /\ rows = [s \in Sticker |-> None] /\ vectors = {} /\ lock = None
        /\ task = [t \in Task |-> Idle] /\ sent = 0 /\ crashes = 0 /\ removals = 0
        /\ rash = FALSE

(* Writers exclude each other. *)
LockFree == lock = None

(* Rows and embeddings go in one transaction. *)
Erased(gone) ==
    /\ rows' = [s \in Sticker |-> IF s \in gone THEN None ELSE rows[s]]
    /\ vectors' = vectors \ gone

-----------------------------------------------------------------------------
(* A sampled sticker, or /addsticker: a task of its own looks whether it is  *)
(* known, and otherwise downloads, describes and embeds it, or fails to.     *)
Send(t, s) ==
    /\ At(t) = "idle" /\ sent < MaxSent /\ sent' = sent + 1
    /\ task' = [task EXCEPT ![t] = [pc |-> "exists", of |-> s, old |-> {}]]
    /\ UNCHANGED <<rows, vectors, lock, crashes, removals, rash>>
Exists(t) ==
    /\ At(t) = "exists" /\ Go(t, IF task[t].of \in Stored THEN "touch" ELSE "fetch")
    /\ UNCHANGED <<rows, vectors, lock, sent, crashes, removals, rash>>
Touch(t) ==
    /\ At(t) = "touch" /\ LockFree
    /\ rows' = [rows EXCEPT ![task[t].of] = IF @ = None THEN None ELSE 0]
    /\ task' = [task EXCEPT ![t] = Idle]
    /\ UNCHANGED <<vectors, lock, sent, crashes, removals, rash>>
Fetch(t) ==
    /\ At(t) = "fetch"
    /\ \/ Go(t, "open") \/ task' = [task EXCEPT ![t] = Idle]
    /\ UNCHANGED <<rows, vectors, lock, sent, crashes, removals, rash>>

(* The agent's tool looks a sticker up, which evicts as a writer does. *)
Search(t) ==
    /\ At(t) = "idle" /\ sent < MaxSent /\ sent' = sent + 1
    /\ Go(t, "open")
    /\ UNCHANGED <<rows, vectors, lock, crashes, removals, rash>>

(* _lazy_evict, under the lock: the expired are looked for, unless the group *)
(* has few stickers, then deleted and committed.                           *)
ToEvict == IF Cardinality(Stored) >= MinKeep THEN Expired ELSE {}
Open(t) ==
    /\ At(t) = "open" /\ LockFree /\ lock' = t
    /\ task' = [task EXCEPT ![t] = [pc |-> "evict", of |-> @.of, old |-> ToEvict]]
    /\ UNCHANGED <<rows, vectors, sent, crashes, removals, rash>>
Evict(t) ==
    /\ At(t) = "evict" /\ Erased(task[t].old)
    /\ rash' = (rash \/ \E s \in task[t].old \cap Stored : rows[s] <= Ttl)
    /\ Go(t, "store")
    /\ UNCHANGED <<lock, sent, crashes, removals>>

(* The row and its embedding, with one commit; a failing statement (another  *)
(* dimension) rolls both back.  A search has nothing to store.               *)
Store(t) ==
    /\ At(t) = "store" /\ lock' = None /\ task' = [task EXCEPT ![t] = Idle]
    /\ \/ /\ task[t].of # None
          /\ rows' = [rows EXCEPT ![task[t].of] = 0]
          /\ vectors' = vectors \cup {task[t].of}
       \/ UNCHANGED <<rows, vectors>>
    /\ UNCHANGED <<sent, crashes, removals, rash>>

(* /delsticker and /clearsticker *)
Remove(gone) ==
    /\ LockFree /\ removals < MaxRemovals /\ removals' = removals + 1
    /\ Erased(gone)
    /\ UNCHANGED <<lock, task, sent, crashes, rash>>

(* Time passes; a writer at work is quicker than that. *)
Tick ==
    /\ lock = None /\ \E s \in Stored : rows[s] <= Ttl
    /\ rows' = [s \in Sticker |-> IF s \in Stored /\ rows[s] <= Ttl THEN rows[s] + 1
                                   ELSE rows[s]]
    /\ UNCHANGED <<vectors, lock, task, sent, crashes, removals, rash>>
Crash ==
    /\ crashes < MaxCrashes /\ crashes' = crashes + 1
    /\ task' = [t \in Task |-> Idle] /\ lock' = None
    /\ UNCHANGED <<rows, vectors, sent, removals, rash>>

Next == \/ \E t \in Task : \/ \E s \in Sticker : Send(t, s)
                           \/ Exists(t) \/ Touch(t) \/ Fetch(t) \/ Search(t)
                           \/ Open(t) \/ Evict(t) \/ Store(t)
        \/ \E s \in Sticker : Remove({s})
        \/ Remove(Sticker) \/ Tick \/ Crash
Spec == Init /\ [][Next]_vars

-----------------------------------------------------------------------------
(* Variables keep to their types, and the lock's holder is a task at work. *)
TypeOK == /\ rows \in [Sticker -> 0..Ttl + 1 \cup {None}] /\ vectors \subseteq Sticker
          /\ lock \in Task \cup {None} /\ (lock # None => At(lock) \in {"evict", "store"})
          /\ \A t \in Task : At(t) \in {"evict", "store"} => lock = t

(* Every stored sticker has its embedding and every embedding its sticker,   *)
(* whatever fails or stops: a search joins the two.                          *)
VectorsMatch == vectors = Stored

(* A sticker seen within its time to live is not evicted, although others    *)
(* touch it and look for it all the while.                                   *)
FreshKept == ~rash
=============================================================================
