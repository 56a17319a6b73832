---------------------------- MODULE SessionHealth ----------------------------
(* The watchdog of the Telegram sessions (session_health.py).  Each check    *)
(* probes the main session, looks how long no update has arrived, and        *)
(* restarts the session when either signal has failed often enough; then it  *)
(* does the same, with the probe alone, for every media session.             *)
EXTENDS Integers, TLAPS

CONSTANTS Media,      \* the addresses at which media sessions may live: id(session)
          Threshold,  \* failure_threshold
          StaleAfter, \* stale_threshold, in check intervals
          Cooldown,   \* cooldown, in check intervals
          None,
          Changes     \* what may happen to a connection, besides recovering by itself

VARIABLES link,      \* the main connection: ok, dead, deaf (sends but receives nothing), gone
          pc,        \* where the monitor's task is
          at,        \* the media session it is probing or restarting
          todo,      \* the media sessions it has still to look at in this check
          failures, stale, since,     \* the main session's counters, and checks since its restart
          age,       \* now - client.last_update_time
          media,     \* each media session: ok, dead, stopped, or absent
          mfailures, msince,          \* the counters kept by id(session)
          connected, \* client.is_connected
          mine,      \* (history) failed probes in a row of the session now at this address
          reused     \* (history) an address was taken over by another session

vars == <<link, pc, at, todo, failures, stale, since, age, media, mfailures, msince,
          connected, mine, reused>>

(* Counters are compared with their limits only, and stop there. *)
Counted_On(n, limit) == n + 1    \* mutant
Counted(n, limit) == IF n < limit THEN n + 1 ELSE limit

Init == /\ link = "ok" /\ pc = "asleep" /\ at = None /\ todo = {}
        /\ failures = 0 /\ stale = 0 /\ since = Cooldown /\ age = 0
        /\ media \in [Media -> {"ok", "absent"}]
        /\ mfailures = [m \in Media |-> 0] /\ msince = [m \in Media |-> Cooldown]
        /\ connected = TRUE /\ mine = [m \in Media |-> 0] /\ reused = FALSE

-----------------------------------------------------------------------------
(* now - _last_restart.  Mutant: the time of the restart moves with now. *)
Rested_Not(n) == n
Rested(n) == Counted(n, Cooldown)

(* _loop: a check begins when the interval is over and the client is connected *)
Wake == /\ pc = "asleep" /\ connected
        /\ pc' = "probing" /\ age' = Counted(age, StaleAfter + 1)
        /\ since' = Rested(since)
        /\ msince' = [m \in Media |-> Rested(msince[m])]
        /\ UNCHANGED <<link, at, todo, failures, stale, media, mfailures, connected, mine, reused>>

(* _check_once, the main session: a probe that is answered also counts as an *)
(* update.  Mutant: an answered probe leaves the update time alone.          *)
Heard_Not(answered) == age
Heard(answered) == IF answered THEN 0 ELSE age
IsStale(a) == a > StaleAfter
Failures(answered) == IF answered THEN 0 ELSE Counted(failures, Threshold)
Due(f, s) == f >= Threshold \/ s >= Threshold

Secondary == {m \in Media : media[m] # "absent"}
Answered == link \in {"ok", "deaf"}
Probed ==
    /\ pc = "probing"
    /\ LET f == Failures(Answered)
           s == IF IsStale(Heard(Answered)) THEN Counted(stale, Threshold) ELSE 0
           restarts == Due(f, s) /\ link # "gone" /\ since >= Cooldown
       IN  /\ age' = Heard(Answered)
           /\ failures' = IF restarts THEN 0 ELSE f
           /\ stale' = IF restarts THEN 0 ELSE s
           /\ since' = IF restarts THEN 0 ELSE since
           /\ pc' = IF restarts THEN "restarting" ELSE "media"
           /\ todo' = IF restarts THEN {} ELSE Secondary
    /\ UNCHANGED <<link, at, media, mfailures, msince, connected, mine, reused>>

(* _restart_session ends within restart_timeout: done, hung or failed. *)
Restarted == /\ pc = "restarting"
             /\ \/ link' = "ok" /\ age' = 0
                \/ UNCHANGED <<link, age>>
             /\ pc' = "media" /\ todo' = Secondary
             /\ UNCHANGED <<at, failures, stale, since, media, mfailures, msince, connected, mine,
                            reused>>

-----------------------------------------------------------------------------
(* _check_once, the media sessions in turn; a session not started is skipped *)
Look == /\ pc = "media" /\ todo # {}
        /\ \E m \in todo :
             /\ todo' = todo \ {m}
             /\ IF media[m] \in {"stopped", "absent"} THEN UNCHANGED <<pc, at>>
                ELSE pc' = "mprobing" /\ at' = m
        /\ UNCHANGED <<link, failures, stale, since, age, media, mfailures, msince, connected,
                       mine, reused>>
Done == /\ pc = "media" /\ todo = {} /\ pc' = "asleep"
        /\ UNCHANGED <<link, at, todo, failures, stale, since, age, media, mfailures, msince,
                       connected, mine, reused>>

(* Mutant: an answered probe forgets nothing. *)
Forgiven_Not(m) == mfailures
Forgiven(m) == [mfailures EXCEPT ![m] = 0]
MediaAnswered == /\ pc = "mprobing" /\ media[at] = "ok"
                 /\ mfailures' = Forgiven(at) /\ mine' = [mine EXCEPT ![at] = 0]
                 /\ pc' = "media" /\ at' = None
                 /\ UNCHANGED <<link, todo, failures, stale, since, age, media, msince, connected,
                                reused>>
MediaFailed ==
    /\ pc = "mprobing" /\ media[at] # "ok"
    /\ mine' = [mine EXCEPT ![at] = Counted(@, Threshold)]
    /\ LET f == Counted(mfailures[at], Threshold)
       IN  IF f >= Threshold /\ msince[at] >= Cooldown
           THEN /\ mfailures' = [mfailures EXCEPT ![at] = 0]
                /\ msince' = [msince EXCEPT ![at] = 0]
                /\ pc' = "mrestarting" /\ UNCHANGED at
           ELSE /\ mfailures' = [mfailures EXCEPT ![at] = f]
                /\ UNCHANGED msince
                /\ pc' = "media" /\ at' = None
    /\ UNCHANGED <<link, todo, failures, stale, since, age, media, connected, reused>>
MediaRestarted == /\ pc = "mrestarting"
                  /\ \/ media[at] # "absent" /\ media' = [media EXCEPT ![at] = "ok"]
                     \/ UNCHANGED media
                  /\ mine' = [mine EXCEPT ![at] = 0]
                  /\ pc' = "media" /\ at' = None
                  /\ UNCHANGED <<link, todo, failures, stale, since, age, mfailures, msince,
                                 connected, reused>>

-----------------------------------------------------------------------------
(* Telegram and the client library, at any time. *)
Update == /\ link = "ok" /\ age' = 0
          /\ UNCHANGED <<link, pc, at, todo, failures, stale, since, media, mfailures, msince,
                         connected, mine, reused>>
Change == /\ link' \in (Changes \cup {"ok"}) \cap {"ok", "dead", "deaf", "gone"} /\ link' # link
          /\ UNCHANGED <<pc, at, todo, failures, stale, since, age, media, mfailures, msince,
                         connected, mine, reused>>
(* The library stops and starts its media sessions, drops one, or opens one  *)
(* at an address another had; a session the check still refers to keeps its. *)
MediaChange(m) ==
    /\ "media" \in Changes /\ (media[m] = "absent" => m # at /\ m \notin todo)
    /\ \E s \in {"ok", "dead", "stopped", "absent"} : s # media[m] /\ media' = [media EXCEPT ![m] = s]
    /\ reused' = (reused \/ (media[m] = "absent" /\ mfailures[m] > 0))
    /\ mine' = IF media[m] = "absent" THEN [mine EXCEPT ![m] = 0] ELSE mine
    /\ UNCHANGED <<link, pc, at, todo, failures, stale, since, age, mfailures, msince, connected>>
(* main: the client is stopped before the monitor, which is then cancelled *)
Stop == /\ connected /\ "stop" \in Changes /\ connected' = FALSE
        /\ UNCHANGED <<link, pc, at, todo, failures, stale, since, age, media, mfailures, msince,
                       mine, reused>>

Check == Wake \/ Probed \/ Restarted \/ Look \/ Done \/ MediaAnswered \/ MediaFailed
         \/ MediaRestarted
Next == Check \/ Update \/ Change \/ Stop \/ \E m \in Media : MediaChange(m)
(* Probes and restarts have hard time limits, and nothing a check throws     *)
(* ends the loop.                                                            *)
Spec == Init /\ [][Next]_vars /\ WF_vars(Check)

-----------------------------------------------------------------------------
TypeOK ==
    /\ link \in {"ok", "dead", "deaf", "gone"}
    /\ pc \in {"asleep", "probing", "restarting", "media", "mprobing", "mrestarting"}
    /\ at \in Media \cup {None} /\ (at = None <=> pc \notin {"mprobing", "mrestarting"})
    /\ todo \in SUBSET Media
    /\ failures \in 0..Threshold /\ stale \in 0..Threshold /\ since \in 0..Cooldown
    /\ age \in 0..StaleAfter + 1
    /\ media \in [Media -> {"ok", "dead", "stopped", "absent"}]
    /\ mfailures \in [Media -> 0..Threshold] /\ msince \in [Media -> 0..Cooldown]
    /\ connected \in BOOLEAN /\ mine \in [Media -> 0..Threshold] /\ reused \in BOOLEAN

(* The main session is never restarted at a check whose probe is answered,   *)
(* however quiet the bot is: an idle bot keeps its session.                  *)
IdleIsLeftAlone == stale <= failures

(* A media session is restarted only when it left that many probes in a row  *)
(* unanswered, unless it lives at the address of one that failed before it.  *)
PatientWithMedia == pc = "mrestarting" /\ ~reused => mine[at] >= Threshold

(* A connection that stays dead is restarted, again and again until it works. *)
Helped(state) == link # state \/ pc = "restarting" \/ ~connected
DeadIsRestarted == ~Helped("dead") ~> Helped("dead")

(* "If no update has arrived for a long time [...], the recv path is likely  *)
(* dead even if invokes still succeed (half-open TCP)" and "When either      *)
(* signal fails repeatedly, the monitor force-restarts the session"          *)
(* (session_health.py:14-19).                                                *)
DeafIsRestarted == ~Helped("deaf") ~> Helped("deaf")

-----------------------------------------------------------------------------
(* Proofs, for every limit and every number of media sessions.               *)

\* What the settings of the monitor and the names of the sessions are.
Parameters ==
    /\ Threshold \in Nat \ {0} /\ StaleAfter \in Nat /\ Cooldown \in Nat
    /\ None \notin Media

\* A counter that stops at its limit stays below it, and two that are counted
\* together keep their order.
LEMMA CountedStops ==
    ASSUME NEW limit \in Nat, NEW n \in 0..limit
    PROVE  /\ Counted(n, limit) \in 0..limit
           /\ \A m \in 0..limit : m <= n => Counted(m, limit) <= Counted(n, limit)
           /\ Counted(n, limit) >= n
BY DEF Counted

\* The counters kept for media sessions: while no address is used again, those
\* of an address are of the session that lives there.
MediaInv ==
    /\ ~reused => \A m \in Media : mfailures[m] <= mine[m]
    /\ pc = "mrestarting" => mfailures[at] = 0
    /\ PatientWithMedia
Inv == TypeOK /\ IdleIsLeftAlone /\ MediaInv

\* The monitor starts with nothing counted.
LEMMA InitInv == ASSUME Parameters PROVE Init => Inv
<1> SUFFICES ASSUME Init PROVE Inv
  OBVIOUS
<1>1. /\ Threshold \in Nat \ {0} /\ Cooldown \in Nat /\ 0 \in 0..Threshold
      /\ Cooldown \in 0..Cooldown /\ 0 \in 0..StaleAfter + 1
  BY DEF Parameters
<1>2. TypeOK
  <2>1. /\ media \in [Media -> {"ok", "dead", "stopped", "absent"}]
        /\ mfailures \in [Media -> 0..Threshold] /\ msince \in [Media -> 0..Cooldown]
        /\ mine \in [Media -> 0..Threshold]
    BY <1>1 DEF Init
  <2>2. connected \in BOOLEAN /\ reused \in BOOLEAN
    BY DEF Init
  <2> QED BY <1>1, <2>1, <2>2 DEF Init, TypeOK
<1>3. IdleIsLeftAlone /\ MediaInv
  BY DEF Init, IdleIsLeftAlone, MediaInv, PatientWithMedia
<1> QED BY <1>2, <1>3 DEF Inv

\* The probe of the main session.
LEMMA ProbedInv == ASSUME Parameters, Inv, Probed PROVE Inv'
<1> DEFINE f == Failures(Answered)
           s == IF IsStale(Heard(Answered)) THEN Counted(stale, Threshold) ELSE 0
<1>1. /\ failures \in 0..Threshold /\ stale \in 0..Threshold /\ stale <= failures
      /\ Threshold \in Nat /\ StaleAfter \in Nat /\ since \in 0..Cooldown
      /\ Cooldown \in Nat /\ age \in 0..StaleAfter + 1
  BY DEF Parameters, Inv, TypeOK, IdleIsLeftAlone
<1>2. f \in 0..Threshold /\ s \in 0..Threshold /\ s <= f
  BY <1>1, CountedStops DEF Failures, IsStale, Heard
<1>3. Heard(Answered) \in 0..StaleAfter + 1
  BY <1>1 DEF Heard
<1>4. /\ failures' \in {0, f} /\ stale' \in {0, s} /\ since' \in {0, since}
      /\ age' = Heard(Answered) /\ pc' \in {"restarting", "media"}
      /\ todo' \in SUBSET Media
  BY DEF Probed, Secondary
<1>5. stale' <= failures'
  BY <1>2 DEF Probed
<1>6. TypeOK'
  <2>1. failures' \in 0..Threshold /\ stale' \in 0..Threshold
    BY <1>1, <1>2, <1>4
  <2>2. since' \in 0..Cooldown /\ age' \in 0..StaleAfter + 1
    BY <1>1, <1>3, <1>4
  <2> QED BY <1>4, <2>1, <2>2 DEF Probed, Inv, TypeOK
<1>7. MediaInv'
  BY <1>4 DEF Probed, Inv, MediaInv, PatientWithMedia
<1> QED BY <1>5, <1>6, <1>7 DEF Inv, IdleIsLeftAlone

\* A probe of a media session that is answered, or not.
LEMMA MediaProbedInv == ASSUME Parameters, Inv, MediaAnswered \/ MediaFailed PROVE Inv'
<1>1. /\ at \in Media /\ None \notin Media /\ pc = "mprobing"
      /\ mfailures \in [Media -> 0..Threshold] /\ mine \in [Media -> 0..Threshold]
      /\ Threshold \in Nat \ {0} /\ msince \in [Media -> 0..Cooldown] /\ Cooldown \in Nat
      /\ ~reused => \A m \in Media : mfailures[m] <= mine[m]
  BY DEF Parameters, Inv, TypeOK, MediaInv, MediaAnswered, MediaFailed
<1>2. CASE MediaAnswered
  <2>1. TypeOK' /\ IdleIsLeftAlone'
    BY <1>1, <1>2 DEF MediaAnswered, Forgiven, Inv, TypeOK, IdleIsLeftAlone
  <2>2. MediaInv'
    BY <1>1, <1>2 DEF MediaAnswered, Forgiven, MediaInv, PatientWithMedia
  <2> QED BY <2>1, <2>2 DEF Inv
<1>3. CASE MediaFailed
  <2> DEFINE f == Counted(mfailures[at], Threshold)
             g == Counted(mine[at], Threshold)
  <2>1. f \in 0..Threshold /\ g \in 0..Threshold /\ (~reused => f <= g)
    BY <1>1, CountedStops
  <2>2. /\ mine' = [mine EXCEPT ![at] = g] /\ reused' = reused
        /\ \/ /\ f >= Threshold /\ mfailures' = [mfailures EXCEPT ![at] = 0]
              /\ msince' = [msince EXCEPT ![at] = 0] /\ pc' = "mrestarting" /\ at' = at
           \/ /\ mfailures' = [mfailures EXCEPT ![at] = f]
              /\ msince' = msince /\ pc' = "media" /\ at' = None
    BY <1>3 DEF MediaFailed
  <2> HIDE DEF f, g
  <2>3. /\ mine' \in [Media -> 0..Threshold] /\ mfailures' \in [Media -> 0..Threshold]
        /\ msince' \in [Media -> 0..Cooldown]
    BY <1>1, <2>1, <2>2
  <2>4. TypeOK' /\ IdleIsLeftAlone'
    BY <1>1, <1>3, <2>2, <2>3 DEF MediaFailed, Inv, TypeOK, IdleIsLeftAlone
  <2>5. ~reused => \A m \in Media : mfailures'[m] <= mine'[m]
    BY <1>1, <2>1, <2>2
  <2>6. MediaInv'
    BY <1>1, <2>1, <2>2, <2>5 DEF MediaInv, PatientWithMedia
  <2> QED BY <2>4, <2>6 DEF Inv
<1> QED BY <1>2, <1>3

\* The restart of a media session.
LEMMA MediaRestartedInv == ASSUME Parameters, Inv, MediaRestarted PROVE Inv'
<1>1. /\ at \in Media /\ None \notin Media /\ Threshold \in Nat
      /\ mfailures \in [Media -> 0..Threshold] /\ mine \in [Media -> 0..Threshold]
      /\ mfailures[at] = 0 /\ (~reused => \A m \in Media : mfailures[m] <= mine[m])
  BY DEF Parameters, Inv, TypeOK, MediaInv, MediaRestarted
<1>2. TypeOK' /\ IdleIsLeftAlone'
  BY <1>1 DEF MediaRestarted, Inv, TypeOK, IdleIsLeftAlone
<1>3. MediaInv'
  BY <1>1 DEF MediaRestarted, MediaInv, PatientWithMedia
<1> QED BY <1>2, <1>3 DEF Inv

\* The library opens, stops and drops media sessions.
LEMMA MediaChangeInv ==
    ASSUME Parameters, Inv, NEW m \in Media, MediaChange(m) PROVE Inv'
<1>1. /\ Threshold \in Nat
      /\ mfailures \in [Media -> 0..Threshold] /\ mine \in [Media -> 0..Threshold]
      /\ ~reused => \A n \in Media : mfailures[n] <= mine[n]
  BY DEF Parameters, Inv, TypeOK, MediaInv
<1>2. TypeOK' /\ IdleIsLeftAlone'
  BY <1>1 DEF MediaChange, Inv, TypeOK, IdleIsLeftAlone
<1>3. ASSUME ~reused'
      PROVE  /\ ~reused /\ \A n \in Media : mfailures'[n] <= mine'[n]
             /\ mine' # mine => m # at
  <2>1. ~reused /\ ~(media[m] = "absent" /\ mfailures[m] > 0)
    BY <1>3 DEF MediaChange
  <2>2. /\ mfailures' = mfailures /\ (media[m] = "absent" => m # at)
        /\ mine' = IF media[m] = "absent" THEN [mine EXCEPT ![m] = 0] ELSE mine
    BY DEF MediaChange
  <2> QED BY <1>1, <2>1, <2>2
<1>4. \A n \in Media : n # m => mine'[n] = mine[n]
  BY <1>1 DEF MediaChange
<1>5. MediaInv'
  <2>1. pc' = pc /\ at' = at /\ mfailures' = mfailures
    BY DEF MediaChange
  <2>2. pc = "mrestarting" => at \in Media
    BY DEF Inv, TypeOK
  <2> QED BY <1>3, <1>4, <2>1, <2>2 DEF Inv, MediaInv, PatientWithMedia
<1> QED BY <1>2, <1>5 DEF Inv

\* Every step keeps all of it.
LEMMA NextInv == ASSUME Parameters PROVE Inv /\ [Next]_vars => Inv'
<1> SUFFICES ASSUME Inv, [Next]_vars PROVE Inv'
  OBVIOUS
<1> USE DEF Inv, TypeOK, IdleIsLeftAlone, MediaInv, PatientWithMedia
<1>1. CASE UNCHANGED vars
  BY <1>1 DEF vars
<1>2. CASE Wake
  <2>1. age' \in 0..StaleAfter + 1
    BY <1>2, CountedStops DEF Parameters, Wake
  <2>2. since' \in 0..Cooldown
    BY <1>2, CountedStops DEF Parameters, Wake, Rested
  <2>3. msince' \in [Media -> 0..Cooldown]
    BY <1>2, CountedStops DEF Parameters, Wake, Rested
  <2> QED BY <1>2, <2>1, <2>2, <2>3 DEF Wake
<1>3. CASE Restarted
  BY <1>3 DEF Parameters, Restarted, Secondary
<1>4. CASE Look
  BY <1>4 DEF Parameters, Look
<1>5. CASE Done
  BY <1>5 DEF Done
<1>6. CASE Update
  BY <1>6 DEF Parameters, Update
<1>7. CASE Change
  BY <1>7 DEF Change
<1>8. CASE Stop
  BY <1>8 DEF Stop
<1> HIDE DEF Inv
<1> QED BY <1>1, <1>2, <1>3, <1>4, <1>5, <1>6, <1>7, <1>8, ProbedInv, MediaProbedInv,
       MediaRestartedInv, MediaChangeInv DEF Next, Check

\* The invariant says what the properties say.
LEMMA InvMeans == Inv => TypeOK /\ IdleIsLeftAlone /\ PatientWithMedia
BY DEF Inv, MediaInv

\* For any thresholds and any media sessions: the counters keep their limits; a
\* main session whose probes are answered is never restarted for being quiet;
\* and a media session is restarted only for failures of its own, unless an
\* address was taken over (session_health.py:184).
THEOREM HealthKept ==
    ASSUME Parameters
    PROVE  Spec => [](TypeOK /\ IdleIsLeftAlone /\ PatientWithMedia)
<1>1. Parameters
  OBVIOUS
<1>2. Init => Inv
  BY <1>1, InitInv
<1>3. Inv /\ [Next]_vars => Inv'
  BY <1>1, NextInv
<1> QED BY InvMeans, <1>2, <1>3, PTL DEF Spec
=============================================================================
