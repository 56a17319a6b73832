------------------------------ MODULE Lifecycle ------------------------------
(* Start-up and shutdown of the bot (__main__.py) and its scheduled jobs     *)
(* (common/jobs.py): the job store that survives restarts, its migration     *)
(* from the main database, the jobs every start adds again, the messages the *)
(* agent schedules, and the command list that is only set when its hash      *)
(* changes.  The process may stop or crash between any two steps.            *)
EXTENDS Integers, FiniteSets

CONSTANTS Timer,     \* messages and polls the agent schedules
          Legacy,    \* those an older version left in the main database
          Version,   \* command lists, one per configuration
          None,
          MaxBoots, MaxAsked

VARIABLES phase,     \* where main() is
          config,    \* the settings this process started with
          hash,      \* the .commands_hash file
          commands,  \* the commands Telegram shows
          store,     \* the default job store, a database file
          pending,   \* jobs added before the scheduler runs, or after it was shut down
          boots, asks,
          sent,      \* (history) how often each timer was sent
          missed,    \* (history) timers dropped as too late
          asked,     \* (history) timers the agent was told are scheduled
          late,      \* (history) those of them asked for after the scheduler's shutdown
          left,      \* (history) the lists that were being replaced when the bot stopped
          unwanted   \* (history) features whose job acted while they were switched off

vars == <<phase, config, hash, commands, store, pending, boots, asks, sent, missed, asked,
          late, left, unwanted>>

Feature == {"rss_push", "change_bot_avatar"}
Always == {"cleanup", "verify_sweep"}
Repeated == Feature \cup Always
Job == Repeated \cup Timer

Init == /\ phase = "down" /\ config = [version |-> None, on |-> {}]
        /\ hash = None /\ commands = None
        /\ store = [j \in Job |-> "none"] /\ pending = {} /\ boots = 0 /\ asks = 0
        /\ sent = [t \in Timer |-> 0] /\ missed = {} /\ asked = {} /\ late = {}
        /\ left = {} /\ unwanted = {}

-----------------------------------------------------------------------------
(* Mutant: rows are carried over at every start. *)
CarriedOver_Always == Legacy
(* _migrate_legacy_jobstore: the legacy rows are copied into an empty store, *)
(* and stay where they are.                                                  *)
CarriedOver == IF \A j \in Job : store[j] = "none" THEN Legacy ELSE {}

(* main, init_db.  A timer of the main database may be overdue by now. *)
InitDb == /\ phase = "down" /\ boots < MaxBoots
          /\ boots' = boots + 1
          /\ \E v \in Version, on \in SUBSET Feature : config' = [version |-> v, on |-> on]
          /\ \E old \in SUBSET CarriedOver :
                store' = [j \in Job |-> IF j \in CarriedOver
                                        THEN IF j \in old THEN "late" ELSE "later"
                                        ELSE store[j]]
          /\ asked' = asked \cup CarriedOver
          /\ phase' = "starting"
          /\ UNCHANGED <<hash, commands, pending, asks, sent, missed, late, left, unwanted>>

(* init_bot: the commands are replaced when the hash of the last list that   *)
(* was set differs; first those in force are deleted, ...                    *)
ShouldUpdate_Once == hash = None    \* mutant: only ever set once
ShouldUpdate == hash # config.version
DeleteCommands == /\ phase = "starting" /\ ShouldUpdate
                  /\ commands' = None /\ phase' = "deleted"
                  /\ UNCHANGED <<config, hash, store, pending, boots, asks, sent, missed, asked,
                                 late, left, unwanted>>
(* ... then each scope's are set, ... *)
SetCommands == /\ phase = "deleted"
               /\ commands' = config.version /\ phase' = "set"
               /\ UNCHANGED <<config, hash, store, pending, boots, asks, sent, missed, asked,
                              late, left, unwanted>>
(* ... and the hash is written last, which may fail. *)
SaveHash == /\ phase = "set"
            /\ hash' \in {hash, config.version} /\ phase' = "jobs"
            /\ left' = IF hash' = config.version THEN {} ELSE left \cup {hash}
            /\ UNCHANGED <<config, commands, store, pending, boots, asks, sent, missed, asked,
                           late, unwanted>>
KeepCommands == /\ phase = "starting" /\ ~ShouldUpdate
                /\ phase' = "jobs"
                /\ UNCHANGED <<config, hash, commands, store, pending, boots, asks, sent, missed,
                               asked, late, left, unwanted>>

(* init_bot, the rest: jobs that are added before the scheduler runs wait. *)
AddJobs == /\ phase = "jobs"
           /\ pending' = Always \cup config.on /\ phase' = "ready"
           /\ UNCHANGED <<config, hash, commands, store, boots, asks, sent, missed, asked, late,
                          left, unwanted>>

(* Mutants: starting clears what the store held; the pending jobs are lost. *)
Restored_Stored == store
Restored_Fresh == [j \in Job |-> IF j \in pending THEN "later" ELSE "none"]
(* _TaskScheduler.start: the stored jobs are restored; replace_existing gives *)
(* those added again a new first run.                                        *)
Restored == [j \in Job |-> IF j \in pending THEN "later" ELSE store[j]]
StartJobs == /\ phase = "ready"
             /\ store' = Restored /\ pending' = {} /\ phase' = "up"
             /\ UNCHANGED <<config, hash, commands, boots, asks, sent, missed, asked, late, left,
                            unwanted>>

-----------------------------------------------------------------------------
(* schedule_message, send_poll: one job per chat, user, time and text, so    *)
(* that asking twice schedules once; the time must be in the future.  The    *)
(* agent's turns go on while the HTTP server is being stopped.               *)
Future(t) == t \notin missed /\ sent[t] = 0 /\ store[t] \in {"none", "later"}
Schedule(t) ==
    /\ phase \in {"up", "closing"} /\ asks < MaxAsked /\ t \notin Legacy /\ Future(t)
    /\ asks' = asks + 1 /\ asked' = asked \cup {t}
    /\ IF phase = "up" THEN /\ store' = [store EXCEPT ![t] = "later"]
                            /\ UNCHANGED <<pending, late>>
                       ELSE /\ pending' = pending \cup {t} /\ UNCHANGED store
                            /\ late' = IF store[t] = "none" THEN late \cup {t} ELSE late
    /\ UNCHANGED <<phase, config, hash, commands, boots, sent, missed, left, unwanted>>

(* Time: a job becomes due, or late when no scheduler runs.  (The runs of    *)
(* the jobs in Always change nothing here.)                                  *)
Pass(j) == /\ store[j] = "later" /\ j \notin Always
           /\ store' = [store EXCEPT ![j] = IF phase = "up" THEN "due" ELSE "late"]
           /\ UNCHANGED <<phase, config, hash, commands, pending, boots, asks, sent, missed,
                          asked, late, left, unwanted>>

(* rss_push returns when RSS is off; change_bot_avatar does not look. *)
Guarded_None == {}    \* mutant: neither does rss_push
Guarded == {"rss_push"}
Acts(j) == j \in Guarded => j \in config.on

(* The scheduler runs a job that is due: a timer is removed, and sent once,  *)
(* the sending's failure being logged; a repeated job waits for its next     *)
(* time.  A late job is run or dropped (the scheduler's grace period).       *)
Fire(j, dropped) ==
    /\ phase = "up" /\ store[j] \in {"due", "late"} /\ (dropped => store[j] = "late")
    /\ store' = [store EXCEPT ![j] = IF j \in Timer THEN "none" ELSE "later"]
    /\ sent' = IF j \in Timer /\ ~dropped THEN [sent EXCEPT ![j] = @ + 1] ELSE sent
    /\ missed' = IF j \in Timer /\ dropped THEN missed \cup {j} ELSE missed
    /\ unwanted' = IF j \in Feature \ config.on /\ ~dropped /\ Acts(j)
                   THEN unwanted \cup {j} ELSE unwanted
    /\ UNCHANGED <<phase, config, hash, commands, pending, boots, asks, asked, late, left>>

-----------------------------------------------------------------------------
(* stop_bot: the scheduler is shut down and the database closed; main then   *)
(* stops the HTTP server.                                                    *)
StopBot == /\ phase = "up" /\ phase' = "closing"
           /\ UNCHANGED <<config, hash, commands, store, pending, boots, asks, sent, missed,
                          asked, late, left, unwanted>>

(* The end of main, or a crash.  Being down while commands are exchanged     *)
(* leaves Telegram with other commands than the hash names.                  *)
Exit == /\ phase # "down" /\ phase' = "down"
        /\ pending' = {}
        /\ left' = IF phase \in {"deleted", "set"} THEN left \cup {hash} ELSE left
        /\ UNCHANGED <<config, hash, commands, store, boots, asks, sent, missed, asked, late,
                       unwanted>>

Next == \/ InitDb \/ DeleteCommands \/ SetCommands \/ SaveHash \/ KeepCommands \/ AddJobs
        \/ StartJobs \/ StopBot \/ Exit
        \/ \E t \in Timer : Schedule(t)
        \/ \E j \in Job : Pass(j) \/ \E dropped \in BOOLEAN : Fire(j, dropped)
Spec == Init /\ [][Next]_vars

-----------------------------------------------------------------------------
TypeOK ==
    /\ phase \in {"down", "starting", "deleted", "set", "jobs", "ready", "up", "closing"}
    /\ config \in [version : Version \cup {None}, on : SUBSET Feature]
    /\ hash \in Version \cup {None} /\ commands \in Version \cup {None}
    /\ store \in [Job -> {"none", "later", "due", "late"}] /\ pending \in SUBSET Job
    /\ phase = "up" => pending = {} /\ \A j \in Always \cup config.on : store[j] # "none"
    /\ boots \in 0..MaxBoots /\ asks \in 0..MaxAsked
    /\ sent \in [Timer -> Nat] /\ missed \in SUBSET Timer /\ asked \in SUBSET Timer
    /\ late \in SUBSET Timer /\ left \in SUBSET (Version \cup {None})
    /\ unwanted \in SUBSET Feature

(* A scheduled message is sent at most once over any number of restarts,     *)
(* although the rows in the main database are never deleted: the store is    *)
(* not empty after the first start, the jobs every start adds being in it.   *)
SentOnce == \A t \in Timer : sent[t] <= 1

(* A message the agent said is scheduled is in the store until it is sent or *)
(* comes too late, unless it was scheduled after the scheduler's shutdown.   *)
Kept == \A t \in asked \ late : store[t] # "none" \/ sent[t] > 0 \/ t \in missed

(* A running bot shows the commands of its configuration, unless an earlier  *)
(* exchange was cut short and the configuration then went back to the one    *)
(* whose hash was left.                                                      *)
CommandsInForce ==
    phase \in {"jobs", "ready", "up"} /\ config.version \notin left
        => commands = config.version

(* A feed job that an earlier configuration left in the store does nothing   *)
(* once RSS is switched off.                                                 *)
RssQuietWhenOff == "rss_push" \notin unwanted

(* The same of every feature's job; the avatar is changed even when          *)
(* avatar_change_enabled has been set to false.                              *)
QuietWhenOff == unwanted = {}
=============================================================================
