------------------------------- MODULE Sandbox -------------------------------
(* The shell of one session (services/sandbox.py, agent/tools/shell_tool.py):*)
(* the calls of a turn run side by side, share the session's directory and   *)
(* wait for a place among the commands of the bot; a command that takes too  *)
(* long is killed with every process found in the directory; directories not *)
(* touched for long are swept.                                               *)
EXTENDS Integers, FiniteSets

CONSTANTS Calls,      \* calls of the shell tool
          Limit,      \* agent_shell_concurrency
          MaxForks,   \* processes a command starts besides its own
          MaxSweeps   \* passes of the cleaning job

VARIABLES dir,      \* the directory: is it there, untouched for long, whose files it has
          pc,       \* where a call is
          clean,    \* calls asked to begin with an empty directory
          asked,    \* calls that were given files
          procs,    \* processes: whose, where, in a process group of its own
          forks,
          sweep,    \* the job: "off", then what it is about to do
          sweeps,
          struck    \* (history) calls hit by what another call or the job killed

vars == <<dir, pc, clean, asked, procs, forks, sweep, sweeps, struck>>

Busy == {"cleaning", "staging", "queued", "entered", "running", "killed"}
Init == /\ dir = [there |-> FALSE, old |-> FALSE, files |-> {}]
        /\ pc = [c \in Calls |-> "idle"] /\ clean = {} /\ asked = {} /\ procs = {} /\ forks = 0
        /\ sweep = "off" /\ sweeps = 0 /\ struck = {}

Goes(c, to) == pc' = [pc EXCEPT ![c] = to]
Of(c) == {p \in procs : p.of = c}
Main(c) == [of |-> c, at |-> "dir", own |-> FALSE]
InDir == {p \in procs : p.at = "dir"}

-----------------------------------------------------------------------------
(* shell: the directory is emptied and files are copied into it before the   *)
(* call waits for its place.  Mutant: staging leaves nothing else there.     *)
Call(c, empty, given) ==
    /\ pc[c] = "idle" /\ Goes(c, IF empty THEN "cleaning" ELSE "staging")
    /\ clean' = IF empty THEN clean \cup {c} ELSE clean
    /\ asked' = IF given THEN asked \cup {c} ELSE asked
    /\ UNCHANGED <<dir, procs, forks, sweep, sweeps, struck>>
Clean(c) == /\ pc[c] = "cleaning" /\ Goes(c, "staging")
            /\ dir' = [dir EXCEPT !.files = {}, !.old = @ /\ dir.files = {}]
            /\ UNCHANGED <<clean, asked, procs, forks, sweep, sweeps, struck>>
Staged_Alone(c) == {c} \cap asked
Staged(c) == dir.files \cup ({c} \cap asked)
Stage(c) == /\ pc[c] = "staging" /\ Goes(c, "queued")
            /\ dir' = [there |-> TRUE, old |-> dir.there /\ dir.old /\ c \notin asked,
                       files |-> Staged(c)]
            /\ UNCHANGED <<clean, asked, procs, forks, sweep, sweeps, struck>>
StageFails(c) == /\ pc[c] = "staging" /\ c \in asked /\ Goes(c, "failed")
                 /\ dir' = [dir EXCEPT !.there = TRUE, !.old = @ /\ dir.there]
                 /\ UNCHANGED <<clean, asked, procs, forks, sweep, sweeps, struck>>

(* run_shell: the semaphore, the directory once more, then the command. The  *)
(* sweep is a thread: it may take the directory away in between.             *)
(* Mutant: the semaphore lets one too many in.                               *)
Entered == {c \in Calls : pc[c] \in {"entered", "running", "killed"}}
HasPlace_OneMore == Cardinality(Entered) <= Limit
HasPlace == Cardinality(Entered) < Limit
Enter(c) == /\ pc[c] = "queued" /\ HasPlace /\ Goes(c, "entered")
            /\ dir' = [dir EXCEPT !.there = TRUE, !.old = @ /\ dir.there]
            /\ UNCHANGED <<clean, asked, procs, forks, sweep, sweeps, struck>>
Spawn(c) == /\ pc[c] = "entered"
            /\ \/ dir.there /\ Goes(c, "running") /\ procs' = procs \cup {Main(c)}
               \/ ~dir.there /\ Goes(c, "failed") /\ UNCHANGED procs
            /\ UNCHANGED <<dir, clean, asked, forks, sweep, sweeps, struck>>

(* What a command does: it writes files, starts processes and ends. *)
Touch == InDir # {} /\ dir' = [dir EXCEPT !.old = FALSE]
         /\ UNCHANGED <<pc, clean, asked, procs, forks, sweep, sweeps, struck>>
Fork(p, at, own) == /\ p \in procs /\ forks < MaxForks /\ forks' = forks + 1
                    /\ procs' = procs \cup {[of |-> p.of, at |-> at, own |-> own \/ p.own]}
                    /\ UNCHANGED <<dir, pc, clean, asked, sweep, sweeps, struck>>
Exit(p) == /\ p \in procs /\ procs' = procs \ {p}
           /\ UNCHANGED <<dir, pc, clean, asked, forks, sweep, sweeps, struck>>

(* communicate() returns when nobody holds the output any more. *)
Return(c) == /\ pc[c] \in {"running", "killed"} /\ Of(c) = {} /\ Goes(c, "done")
             /\ UNCHANGED <<dir, clean, asked, procs, forks, sweep, sweeps, struck>>

(* The time is up: the group of the command and whatever is in the directory *)
(* are killed.  Ten seconds later the output is ended by force.  Mutant: the *)
(* call waits for its end.                                                   *)
Hit(c) == {p \in procs : (p.of = c /\ ~p.own) \/ p.at = "dir"}
TimeOut(c) == /\ pc[c] = "running" /\ Goes(c, "killed") /\ procs' = procs \ Hit(c)
              /\ struck' = struck \cup ({p.of : p \in Hit(c)} \ {c})
              /\ UNCHANGED <<dir, clean, asked, forks, sweep, sweeps>>
Forced_Never(c) == FALSE
Forced(c) == Of(c) # {}
GiveUp(c) == /\ pc[c] = "killed" /\ Forced(c) /\ Goes(c, "done")
             /\ UNCHANGED <<dir, clean, asked, procs, forks, sweep, sweeps, struck>>

-----------------------------------------------------------------------------
(* cleanup_stale_sessions, in a thread: look, kill, remove.  The latest time *)
(* of change of any file decides.                                            *)
Age == /\ dir.there /\ ~dir.old /\ \A c \in Calls : pc[c] \notin Busy
       /\ dir' = [dir EXCEPT !.old = TRUE]
       /\ UNCHANGED <<pc, clean, asked, procs, forks, sweep, sweeps, struck>>
Stale == dir.there /\ dir.old
Look == /\ sweep = "off" /\ sweeps < MaxSweeps /\ Stale /\ sweep' = "kill"
        /\ sweeps' = sweeps + 1
        /\ UNCHANGED <<dir, pc, clean, asked, procs, forks, struck>>
Kill == /\ sweep = "kill" /\ sweep' = "remove" /\ procs' = procs \ InDir
        /\ struck' = struck \cup {p.of : p \in InDir}
        /\ UNCHANGED <<dir, pc, clean, asked, forks, sweeps>>
Remove == /\ sweep = "remove" /\ sweep' = "off"
          /\ dir' = [there |-> FALSE, old |-> FALSE, files |-> {}]
          /\ UNCHANGED <<pc, clean, asked, procs, forks, sweeps, struck>>

Handles(c) == \/ Clean(c) \/ Stage(c) \/ StageFails(c) \/ Enter(c) \/ Spawn(c)
              \/ Return(c) \/ TimeOut(c) \/ GiveUp(c)
Next == \/ \E c \in Calls : Handles(c) \/ \E empty, given \in BOOLEAN : Call(c, empty, given)
        \/ \E p \in procs : Exit(p) \/ \E at \in {"dir", "away"}, own \in BOOLEAN : Fork(p, at, own)
        \/ Touch \/ Age \/ Look \/ Kill \/ Remove

(* The loop runs what is ready, the time of a command is up one day, and the *)
(* semaphore serves in order; a command may run for ever.                    *)
Fairness == \A c \in Calls : WF_vars(Handles(c)) /\ SF_vars(Enter(c))
Spec == Init /\ [][Next]_vars /\ Fairness

-----------------------------------------------------------------------------
(* No more commands run than there are places, and a process belongs to a    *)
(* call that was given one.                                                  *)
TypeOK == /\ dir.files \subseteq Calls /\ (dir.files # {} => dir.there)
          /\ Cardinality(Entered) <= Limit
          /\ \A p \in procs : pc[p.of] \in {"running", "killed", "done"}

(* A call is over some day: an escaped process that keeps the output open    *)
(* "cannot wedge its dispatcher worker indefinitely" (sandbox.py:367), and   *)
(* no call waits for its place for ever.                                     *)
Waits(c) == pc[c] \in Busy
CallsReturn == \A c \in Calls : Waits(c) ~> ~Waits(c)

(* Files staged for a command are there when it starts (shell_tool.py:115).  *)
(* The directory is the session's, though: another call that asks for an     *)
(* empty one, or the job, may take them away while it waits.                 *)
Starts(c) == pc[c] = "entered" /\ pc'[c] = "running"
StagedAreThere == [][\A c \in asked : Starts(c) => c \in dir.files]_vars
StagedAlone == \A c \in asked : Starts(c) /\ clean \subseteq {c} /\ sweeps = 0 => c \in dir.files
StagedUnlessEmptied == [][StagedAlone]_vars

(* The processes killed in the directory are "escaped sandbox children"      *)
(* (sandbox.py:150): no other call's command is struck.                      *)
OnlyEscapedKilled == struck = {}
=============================================================================
