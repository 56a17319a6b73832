---------------------------- MODULE RateLimiter ----------------------------
(* The sliding window of webapp/ratelimit.py: per key the times of the       *)
(* requests it let through, for a bounded number of keys.  A time is kept as *)
(* its age; what is older than the window is all of one age.                 *)
EXTENDS Integers, Sequences, FiniteSetTheorems

CONSTANTS Key,
          Budget,   \* limit: requests let through in a window
          Window,   \* window, in ticks
          MaxKeys   \* _max_keys

VARIABLES hits,     \* _hits: the known keys with their times, oldest first
          served,   \* (history) per key not dropped, the requests let through in the last window
          wait,     \* (history) per key, what is left of the last refusal's retry_after, or -1
          dropped   \* (history) keys whose times were dropped while they mattered

vars == <<hits, served, wait, dropped>>

Parameters == Budget \in Nat \ {0} /\ Window \in Nat \ {0} /\ MaxKeys \in Nat \ {0, 1}

Init == /\ hits = <<>> /\ served = [k \in Key |-> <<>>]
        /\ wait = [k \in Key |-> -1] /\ dropped = {}

(* A hit counts while it is younger than the window: those in front that are *)
(* not are dropped.                                                          *)
Recent(age) == age < Window
Pruned(q) == LET first == CHOOSE i \in 1..Len(q) + 1 :
                              /\ \A j \in 1..i - 1 : ~Recent(q[j])
                              /\ i \in DOMAIN q => Recent(q[i])
             IN SubSeq(q, first, Len(q))
Live(k) == Pruned(hits[k])

(* Room for a new key: the stale keys go; if that is not enough, the half of *)
(* the keys whose last hit is oldest.                                        *)
LastHit(k) == hits[k][Len(hits[k])]
Fresh == {k \in DOMAIN hits : hits[k] # <<>> /\ Recent(LastHit(k))}
OldestHalf(keys) ==
    {half \in SUBSET keys :
        /\ Cardinality(half) = Cardinality(keys) \div 2
        /\ \A k \in half, o \in keys \ half : LastHit(k) >= LastHit(o)}
Kept == IF Cardinality(Fresh) < MaxKeys THEN {Fresh}
        ELSE {Fresh \ half : half \in OldestHalf(Fresh)}
Room(k) == IF k \in DOMAIN hits \/ Cardinality(DOMAIN hits) < MaxKeys
           THEN {DOMAIN hits} ELSE Kept

(* check: what is known of k, and the keys after it. *)
Times(k) == IF k \in DOMAIN hits THEN Live(k) ELSE <<>>
Put(keys, k, times) == [x \in keys \cup {k} |-> IF x = k THEN times ELSE hits[x]]
Full(times) == Len(times) >= Budget
RetryAfter(times) == Window - times[1]
Check(k) == \E keys \in Room(k) :
    LET times == Times(k)
        gone == Fresh \ (keys \cup {k})
    IN /\ dropped' = dropped \cup gone
       /\ IF Full(times)
          THEN /\ hits' = Put(keys, k, times)
               /\ wait' = [wait EXCEPT ![k] = IF k \in dropped THEN -1 ELSE RetryAfter(times)]
               /\ UNCHANGED served
          ELSE /\ hits' = Put(keys, k, Append(times, 0))
               /\ served' = IF k \in dropped THEN served ELSE [served EXCEPT ![k] = Append(@, 0)]
               /\ wait' = [x \in Key |-> IF x \in gone \cup {k} THEN -1 ELSE wait[x]]

Older(age) == IF age < Window THEN age + 1 ELSE age
Tick == /\ hits' = [k \in DOMAIN hits |-> [i \in DOMAIN hits[k] |-> Older(hits[k][i])]]
        /\ served' = [k \in Key |-> Pruned([i \in DOMAIN served[k] |-> served[k][i] + 1])]
        /\ wait' = [k \in Key |-> IF wait[k] > 0 THEN wait[k] - 1 ELSE wait[k]]
        /\ dropped' = {k \in dropped : served'[k] # <<>> \/ (k \in DOMAIN hits /\ Live(k) # <<>>)}
Next == Tick \/ \E k \in Key : Check(k)
Spec == Init /\ [][Next]_vars

-----------------------------------------------------------------------------
(* Variables keep to their types and the table to its bound. *)
TypeOK == /\ DOMAIN hits \subseteq Key /\ Cardinality(DOMAIN hits) <= MaxKeys
          /\ \A k \in DOMAIN hits : Len(hits[k]) <= Budget

(* At most Budget requests of a key are let through in any window            *)
(* (ratelimit.py:23), if its times were not dropped to make room for others. *)
AtMostBudget == \A k \in Key \ dropped : Len(served[k]) <= Budget

(* Who was refused is let through when he was told to come back, and not     *)
(* before, whatever he tried meanwhile.                                      *)
RetryIsExact == \A k \in Key \ dropped :
    /\ wait[k] > 0 => Full(Times(k)) /\ wait[k] = Window - Times(k)[1]
    /\ wait[k] = 0 => ~Full(Times(k))
=============================================================================
