-------------------------- MODULE AgentConversation --------------------------
(***************************************************************************)
(* Turns of the conversation agent: plugins/agent/agent.py (wake_agent,    *)
(* ask answers, /forget, /clear_sessions, the clear-history button),       *)
(* followup.py, runner.py, state.py, safety.py and tools/ask.py.           *)
(*                                                                         *)
(* A task handles one update of Telegram.  All tasks share one event loop: *)
(* what lies between two awaits is one action, and between two actions any *)
(* other task may run.  A message is named by the task that handles it; a  *)
(* history, a prompt cursor or a queue is the set of messages it holds.    *)
(***************************************************************************)
EXTENDS Integers, FiniteSets

CONSTANTS
  Task,        \* handlers of updates, each used once
  Conv,        \* conversations: (chat, user) pairs
  User, Bots,  \* who speaks; the users that are bots themselves
  Speaker,     \* Speaker[c]: the user of a conversation
  Kinds,       \* bound: the kinds of update that arrive, a subset of AllKinds
  MaxWipes,    \* bound: 0 or 1 uses of /clear_sessions
  MaxQueue,    \* _MAX_STEERING_MESSAGES
  None

AllKinds == {"wake", "followup", "click", "forget", "button"}

ASSUME SpeakersOK == Speaker \in [Conv -> User] /\ Bots \subseteq User
ASSUME NamesOK == None \notin Task /\ None \notin Conv
ASSUME BoundsOK == Kinds \subseteq AllKinds /\ MaxWipes \in {0, 1} /\ MaxQueue \in Nat \ {0}

VARIABLES
  task,        \* each handler: pc, conversation, kind, and what it read before an await
  convLock,    \* _conversation_locks: who holds the registered lock of a conversation
  wakeLock,    \* _bot_user_wake_locks, by user
  runTask,     \* _active_run_tasks
  activeRun,   \* _active_runs
  history,     \* message_history_with_agent
  coverage,    \* agent_prompt_coverage: messages the cursor says were delivered
  ask,         \* AskState of a conversation: the question pending, named by its turn
  keyboards,   \* questions whose buttons are in the chat
  steering,    \* _steering_messages
  budget,      \* _interjection_budget (its message count)
  inbox,       \* the pending-message queue of each AgentRun
  given,       \* interjections each turn was given since a cleanup last set its
               \* conversation back (history variable)
  erased,      \* messages a session cleanup deleted (history variable)
  wipe,        \* progress of /clear_sessions
  cancelled    \* the run tasks it cancelled

locks == <<convLock, wakeLock>>
runs == <<runTask, activeRun>>
memory == <<history, coverage, erased>>
asks == <<ask, keyboards>>
queues == <<steering, budget, inbox, given>>
session == <<wipe, cancelled>>
vars == <<task, locks, runs, memory, asks, queues, session>>

\* Phases inside _run_registered; those after the run's graph produced a result.
Ended == {"settle", "save", "cover", "advance", "exit"}
NotBegun == {"start", "migrated"}
InRun == NotBegun \cup {"begun", "request", "asking"} \cup Ended
\* Phases in which the code owns the conversation.
InTurn == InRun \cup {"prepare", "read", "compose", "leave"}

At(t, p) == task[t].pc = p
C(t) == task[t].conv
Running(t, p) == At(t, p) /\ t \notin cancelled   \* a cancelled run does nothing more
Goto(t, p) == task' = [task EXCEPT ![t].pc = p]

Init ==
  /\ task = [t \in Task |-> [pc |-> "idle", conv |-> None, kind |-> None,
                             snap |-> {}, skip |-> {}, cursor |-> {}, answer |-> None]]
  /\ convLock = [c \in Conv |-> None] /\ wakeLock = [u \in User |-> None]
  /\ runTask = [c \in Conv |-> None] /\ activeRun = [c \in Conv |-> None]
  /\ history = [c \in Conv |-> {}] /\ coverage = [c \in Conv |-> {}]
  /\ erased = [c \in Conv |-> {}]
  /\ ask = [c \in Conv |-> None] /\ keyboards = [c \in Conv |-> {}]
  /\ steering = [c \in Conv |-> {}] /\ budget = [c \in Conv |-> 0]
  /\ inbox = [t \in Task |-> {}] /\ given = [t \in Task |-> {}]
  /\ wipe = "idle" /\ cancelled = {}

\* The update of task t arrives and leaves the handler at phase p.
Arrives(t, c, k, p) ==
  /\ At(t, "idle") /\ k \in Kinds
  /\ task' = [task EXCEPT ![t].conv = c, ![t].kind = k, ![t].pc = p]

\* Mutant: the budget of a live run is not looked at.
QueueFull_NoBudget(c, live) == ~live /\ Cardinality(steering[c]) >= MaxQueue

QueueFull(c, live) ==
  budget[c] >= MaxQueue \/ (~live /\ Cardinality(steering[c]) >= MaxQueue)

\* state.enqueue_interjection: into the live run, else into the queue; either
\* way within the budget, which only an accepted message uses up.
Interject(t, c) ==
  LET run == activeRun[c]
      live == run # None /\ task[run].pc \in {"begun", "request", "asking"}
  IN IF QueueFull(c, live)
       THEN UNCHANGED queues
       ELSE /\ budget' = [budget EXCEPT ![c] = @ + 1]
            /\ IF live
                 THEN /\ inbox' = [inbox EXCEPT ![run] = @ \cup {t}]
                      /\ given' = [given EXCEPT ![run] = @ \cup {t}]
                      /\ UNCHANGED steering
                 ELSE /\ steering' = [steering EXCEPT ![c] = @ \cup {t}]
                      /\ UNCHANGED <<inbox, given>>

----------------------------------------------------------------------------
\* wake_agent.

WakeTurned(t, c) ==        \* a bot whose previous wake is still being handled
  /\ Speaker[c] \in Bots /\ wakeLock[Speaker[c]] # None
  /\ Arrives(t, c, "wake", "done")
  /\ UNCHANGED <<locks, runs, memory, asks, queues, session>>

TakeWakeLock(t, c) ==
  wakeLock' = IF Speaker[c] \in Bots THEN [wakeLock EXCEPT ![Speaker[c]] = t] ELSE wakeLock

\* Mutant: two wakes of a bot may be handled at once.
WakeFree_Always(c) == TRUE

WakeFree(c) == Speaker[c] \in Bots => wakeLock[Speaker[c]] = None

\* The conversation is busy: a human interjects, a bot's message is dropped -
\* with the wake lock it has just taken.
WakeBusy(t, c) ==
  /\ WakeFree(c) /\ convLock[c] # None
  /\ Arrives(t, c, "wake", "done")
  /\ TakeWakeLock(t, c)
  /\ IF Speaker[c] \in Bots THEN UNCHANGED queues ELSE Interject(t, c)
  /\ UNCHANGED <<convLock, runs, memory, asks, session>>

\* The turn begins; a pending question is dropped before the first await.
WakeBegin(t, c) ==
  /\ WakeFree(c) /\ convLock[c] = None
  /\ Arrives(t, c, "wake", "prepare")
  /\ TakeWakeLock(t, c)
  /\ convLock' = [convLock EXCEPT ![c] = t]
  /\ ask' = [ask EXCEPT ![c] = None]
  /\ UNCHANGED <<runs, memory, keyboards, queues, session>>

\* Quota refused, or an error while the prompt is composed.
TurnRefused(t) ==
  /\ task[t].pc \in {"prepare", "read", "compose"}
  /\ Goto(t, "leave")
  /\ UNCHANGED <<locks, runs, memory, asks, queues, session>>

\* Mutant: the turn starts without the stored history.
ReadHistory_Empty(t) ==
  /\ At(t, "prepare")
  /\ Goto(t, "read")
  /\ UNCHANGED <<locks, runs, memory, asks, queues, session>>

ReadHistory(t) ==
  /\ At(t, "prepare")
  /\ task' = [task EXCEPT ![t].pc = "read", ![t].snap = history[C(t)]]
  /\ UNCHANGED <<locks, runs, memory, asks, queues, session>>

\* Nearby messages the cursor covers are left out of the prompt; only a wake
\* turn passes the cursor on.
ReadCoverage(t) ==
  /\ At(t, "read")
  /\ task' = [task EXCEPT ![t].pc = "compose",
                ![t].skip = IF task[t].kind = "wake" THEN coverage[C(t)] ELSE {}]
  /\ UNCHANGED <<locks, runs, memory, asks, queues, session>>

\* A wake turn folds in what was queued before it, then registers its run.
StartRun(t) ==
  /\ At(t, "compose")
  /\ Goto(t, "start")
  /\ runTask' = [runTask EXCEPT ![C(t)] = t]
  /\ IF task[t].kind = "wake"
       THEN /\ given' = [given EXCEPT ![t] = @ \cup steering[C(t)]]
            /\ steering' = [steering EXCEPT ![C(t)] = {}]
       ELSE UNCHANGED <<given, steering>>
  /\ UNCHANGED <<locks, activeRun, memory, asks, budget, inbox, session>>

----------------------------------------------------------------------------
\* handle_follow_up_message.

\* The filter interjects while a turn runs; otherwise relevance is judged first.
FollowArrives(t, c) ==
  /\ IF convLock[c] # None
       THEN Arrives(t, c, "followup", "done") /\ Interject(t, c)
       ELSE Arrives(t, c, "followup", "relevance") /\ UNCHANGED queues
  /\ UNCHANGED <<locks, runs, memory, asks, session>>

FollowIrrelevant(t) ==
  /\ At(t, "relevance")
  /\ Goto(t, "done")
  /\ UNCHANGED <<locks, runs, memory, asks, queues, session>>

\* Mutant: only the filter, before the relevance check, looks for a running turn.
FollowBegin_Unchecked(t) ==
  /\ At(t, "relevance")
  /\ Goto(t, "prepare")
  /\ convLock' = [convLock EXCEPT ![C(t)] = t]
  /\ UNCHANGED <<wakeLock, runs, memory, asks, queues, session>>

FollowBegin(t) ==
  /\ At(t, "relevance")
  /\ IF convLock[C(t)] # None
       THEN /\ Goto(t, "done")
            /\ Interject(t, C(t))
            /\ UNCHANGED convLock
       ELSE /\ Goto(t, "prepare")
            /\ convLock' = [convLock EXCEPT ![C(t)] = t]
            /\ UNCHANGED queues
  /\ UNCHANGED <<wakeLock, runs, memory, asks, session>>

----------------------------------------------------------------------------
\* _on_ask_answer and _run_agent_for_ask.

\* Mutant: the pending question is not consumed.
Click_Kept(t, c, q) ==
  /\ q \in keyboards[c] /\ ask[c] # None
  /\ At(t, "idle") /\ "click" \in Kinds
  /\ task' = [task EXCEPT ![t].conv = c, ![t].kind = "click", ![t].pc = "answered",
                          ![t].answer = <<q, ask[c]>>]
  /\ UNCHANGED <<locks, runs, memory, asks, queues, session>>

\* A button of question q is pressed: the state, not the keyboard, decides
\* which question it answers, and the state is consumed.
Click(t, c, q) ==
  /\ q \in keyboards[c]
  /\ IF ask[c] = None
       THEN Arrives(t, c, "click", "expired") /\ UNCHANGED ask
       ELSE /\ At(t, "idle") /\ "click" \in Kinds
            /\ task' = [task EXCEPT ![t].conv = c, ![t].kind = "click", ![t].pc = "answered",
                                    ![t].answer = <<q, ask[c]>>]
            /\ ask' = [ask EXCEPT ![c] = None]
  /\ UNCHANGED <<locks, runs, memory, keyboards, queues, session>>

\* The history is read, then awaited calls follow before the lock is looked at.
AskReads(t) ==
  /\ At(t, "answered")
  /\ task' = [task EXCEPT ![t].pc = "askready", ![t].snap = history[C(t)]]
  /\ UNCHANGED <<locks, runs, memory, asks, queues, session>>

\* Whitelist, block list, required channel, quota: the answer is lost.
AskRefused(t) ==
  /\ At(t, "answered")
  /\ Goto(t, "done")
  /\ UNCHANGED <<locks, runs, memory, asks, queues, session>>

AskBegin(t) ==
  /\ At(t, "askready")
  /\ IF convLock[C(t)] # None
       THEN Goto(t, "dropped") /\ UNCHANGED <<convLock, runTask>>
       ELSE /\ Goto(t, "start")
            /\ convLock' = [convLock EXCEPT ![C(t)] = t]
            /\ runTask' = [runTask EXCEPT ![C(t)] = t]
  /\ UNCHANGED <<wakeLock, activeRun, memory, asks, queues, session>>

----------------------------------------------------------------------------
\* run_agent and _run_agent_impl.

\* agent_multimodal_mode "transcribe": the history read is stored, sanitized,
\* before the run begins, so that a failing run does not repeat the work.
MigrateHistory(t) ==
  /\ Running(t, "start")
  /\ Goto(t, "migrated")
  /\ history' = [history EXCEPT ![C(t)] = task[t].snap]
  /\ UNCHANGED <<locks, runs, coverage, erased, asks, queues, session>>

\* Mutant: the cursor advances when the run starts, not when it succeeded.
BeginIter_Covers(t) ==
  /\ task[t].pc \in NotBegun /\ t \notin cancelled
  /\ Goto(t, "begun")
  /\ activeRun' = [activeRun EXCEPT ![C(t)] = t]
  /\ coverage' = [coverage EXCEPT ![C(t)] = @ \cup {t}]
  /\ UNCHANGED <<locks, runTask, history, erased, asks, queues, session>>

BeginIter(t) ==
  /\ task[t].pc \in NotBegun /\ t \notin cancelled
  /\ Goto(t, "begun")
  /\ activeRun' = [activeRun EXCEPT ![C(t)] = t]
  /\ UNCHANGED <<locks, runTask, memory, asks, queues, session>>

\* before_model_request: history_processor stores the messages so far, and
\* SteeringInjection and the pending-message drain deliver what is queued.
ModelRequest(t) ==
  /\ Running(t, "begun") \/ Running(t, "request")
  /\ Goto(t, "request")
  /\ history' = [history EXCEPT ![C(t)] = task[t].snap \cup {t}]
  /\ given' = [given EXCEPT ![t] = @ \cup steering[C(t)]]
  /\ steering' = [steering EXCEPT ![C(t)] = {}]
  /\ inbox' = [inbox EXCEPT ![t] = {}]
  /\ UNCHANGED <<locks, runs, coverage, erased, asks, budget, session>>

\* ask_user: the keyboard is sent, then the state is stored.  Bound: one
\* question per turn.
SendQuestion(t) ==
  /\ Running(t, "request") /\ t \notin keyboards[C(t)]
  /\ Goto(t, "asking")
  /\ keyboards' = [keyboards EXCEPT ![C(t)] = @ \cup {t}]
  /\ UNCHANGED <<locks, runs, memory, ask, queues, session>>

StoreQuestion(t) ==
  /\ Running(t, "asking")
  /\ Goto(t, "request")
  /\ ask' = [ask EXCEPT ![C(t)] = t]
  /\ UNCHANGED <<locks, runs, memory, keyboards, queues, session>>

\* The graph ends only with an empty pending queue (else one more request).
RunEnds(t) ==
  /\ Running(t, "request") /\ inbox[t] = {}
  /\ Goto(t, "settle")
  /\ UNCHANGED <<locks, runs, memory, asks, queues, session>>

Settle(t) ==
  /\ Running(t, "settle")
  /\ Goto(t, "save")
  /\ UNCHANGED <<locks, runs, memory, asks, queues, session>>

SaveHistory(t) ==
  /\ Running(t, "save")
  /\ Goto(t, "cover")
  /\ history' = [history EXCEPT ![C(t)] = task[t].snap \cup {t}]
  /\ UNCHANGED <<locks, runs, coverage, erased, asks, queues, session>>

\* advance_prompt_coverage: read, then write.
CoverageRead(t) ==
  /\ Running(t, "cover")
  /\ task' = [task EXCEPT ![t].pc = "advance", ![t].cursor = coverage[C(t)]]
  /\ UNCHANGED <<locks, runs, memory, asks, queues, session>>

CoverageWrite(t) ==
  /\ Running(t, "advance")
  /\ Goto(t, "exit")
  /\ coverage' = [coverage EXCEPT ![C(t)] = task[t].cursor \cup {t}]
  /\ UNCHANGED <<locks, runs, history, erased, asks, queues, session>>

\* unregister_active_run, by conversation: also when the run failed, timed out
\* or was cancelled.  A run that never began (quota, whitelist) skips it.
Unregister(t) ==
  IF task[t].pc \in NotBegun THEN UNCHANGED <<activeRun, budget>>
  ELSE /\ activeRun' = [activeRun EXCEPT ![C(t)] = None]
       /\ budget' = [budget EXCEPT ![C(t)] = 0]

LeaveRun(t) ==
  /\ Goto(t, "leave")
  /\ Unregister(t)
  /\ inbox' = [inbox EXCEPT ![t] = {}]
  /\ UNCHANGED <<locks, runTask, memory, asks, steering, given, session>>

RunFails(t) == task[t].pc \in InRun /\ LeaveRun(t)
ExitIter(t) == Running(t, "exit") /\ LeaveRun(t)

\* Mutants: one of the two locks is not released.
ReleaseConv_Not(t) == UNCHANGED convLock
ReleaseWake_Not(t) == UNCHANGED wakeLock

ReleaseConv(t) ==
  convLock' = [convLock EXCEPT ![C(t)] = IF @ = t THEN None ELSE @]
ReleaseWake(t) ==
  wakeLock' = [wakeLock EXCEPT ![Speaker[C(t)]] = IF @ = t THEN None ELSE @]

\* The finally of the handler.  A lock that clear_all_locks dropped from the
\* registry is released all the same, without effect on the registered one.
Release(t) ==
  /\ At(t, "leave")
  /\ Goto(t, "done")
  /\ ReleaseConv(t)
  /\ ReleaseWake(t)
  /\ runTask' = [runTask EXCEPT ![C(t)] = IF @ = t THEN None ELSE @]
  /\ UNCHANGED <<activeRun, memory, asks, queues, session>>

----------------------------------------------------------------------------
\* _clear_conversation_session, for /forget and for the clear-history button.

\* Mutant: /forget does not look for a running turn either.
ForgetHistory_Always(t, c, k) ==
  /\ k \in {"forget", "button"}
  /\ Arrives(t, c, k, "forget")
  /\ history' = [history EXCEPT ![c] = {}]
  /\ erased' = [erased EXCEPT ![c] = @ \cup history[c]]
  /\ UNCHANGED <<locks, runs, coverage, asks, queues, session>>

\* /forget refuses while a turn runs; the button does not look.
ForgetHistory(t, c, k) ==
  /\ k \in {"forget", "button"}
  /\ IF k = "forget" /\ convLock[c] # None
       THEN Arrives(t, c, k, "done") /\ UNCHANGED memory
       ELSE /\ Arrives(t, c, k, "forget")
            /\ history' = [history EXCEPT ![c] = {}]
            /\ erased' = [erased EXCEPT ![c] = @ \cup history[c]]
            /\ UNCHANGED coverage
  /\ UNCHANGED <<locks, runs, asks, queues, session>>

ForgetCoverage(t) ==
  /\ At(t, "forget")
  /\ Goto(t, "forgetting")
  /\ coverage' = [coverage EXCEPT ![C(t)] = {}]
  /\ ask' = [ask EXCEPT ![C(t)] = None]
  /\ UNCHANGED <<locks, runs, history, erased, keyboards, queues, session>>

\* The queue and the budget, also those of a turn that began meanwhile: the
\* messages it is given are counted anew.
ForgetSteering(t) ==
  /\ At(t, "forgetting")
  /\ Goto(t, "done")
  /\ steering' = [steering EXCEPT ![C(t)] = {}]
  /\ budget' = [budget EXCEPT ![C(t)] = 0]
  /\ given' = [x \in Task |-> IF C(x) = C(t) THEN {} ELSE given[x]]
  /\ UNCHANGED <<locks, runs, memory, asks, inbox, session>>

----------------------------------------------------------------------------
\* /clear_sessions confirm.

WipeCancels ==
  /\ wipe = "idle" /\ MaxWipes = 1
  /\ wipe' = "cancel"
  /\ cancelled' = {runTask[c] : c \in Conv} \ {None}
  /\ UNCHANGED <<task, locks, runs, memory, asks, queues>>

RunCancelled(t) ==
  /\ t \in cancelled /\ task[t].pc \in InRun
  /\ LeaveRun(t)

\* Mutant: the cancelled runs are not waited for.
WipeHistories_NoWait ==
  /\ wipe = "cancel"
  /\ wipe' = "histories"
  /\ history' = [c \in Conv |-> {}]
  /\ erased' = [c \in Conv |-> erased[c] \cup history[c]]
  /\ UNCHANGED <<task, locks, runs, coverage, asks, queues, cancelled>>

\* gather(*active_runs), then the histories, the cursors, everything else.
WipeHistories ==
  /\ wipe = "cancel" /\ \A t \in cancelled : task[t].pc \notin InRun
  /\ wipe' = "histories"
  /\ history' = [c \in Conv |-> {}]
  /\ erased' = [c \in Conv |-> erased[c] \cup history[c]]
  /\ UNCHANGED <<task, locks, runs, coverage, asks, queues, cancelled>>

WipeCoverages ==
  /\ wipe = "histories"
  /\ wipe' = "coverages"
  /\ coverage' = [c \in Conv |-> {}]
  /\ UNCHANGED <<task, locks, runs, history, erased, asks, queues, cancelled>>

\* The registries of the process, the locks that running turns hold included.
WipeRest ==
  /\ wipe = "coverages"
  /\ wipe' = "done"
  /\ ask' = [c \in Conv |-> None]
  /\ steering' = [c \in Conv |-> {}] /\ budget' = [c \in Conv |-> 0]
  /\ convLock' = [c \in Conv |-> None]
  /\ UNCHANGED <<task, wakeLock, runs, memory, keyboards, inbox, given, cancelled>>

----------------------------------------------------------------------------
Arrival(t, c) ==
  \/ WakeTurned(t, c)
  \/ WakeBusy(t, c)
  \/ WakeBegin(t, c)
  \/ FollowArrives(t, c)
  \/ \E q \in Task : Click(t, c, q)
  \/ \E k \in {"forget", "button"} : ForgetHistory(t, c, k)

\* The steps of a handler that has begun, failures and the model's choices apart.
Continue(t) ==
  \/ ReadHistory(t)
  \/ ReadCoverage(t)
  \/ StartRun(t)
  \/ FollowBegin(t)
  \/ AskReads(t)
  \/ AskBegin(t)
  \/ BeginIter(t)
  \/ StoreQuestion(t)
  \/ RunEnds(t)
  \/ Settle(t)
  \/ SaveHistory(t)
  \/ CoverageRead(t)
  \/ CoverageWrite(t)
  \/ ExitIter(t)
  \/ RunCancelled(t)
  \/ Release(t)
  \/ ForgetCoverage(t)
  \/ ForgetSteering(t)

Next ==
  \/ \E t \in Task :
       \/ \E c \in Conv : Arrival(t, c)
       \/ Continue(t)
       \/ TurnRefused(t)
       \/ FollowIrrelevant(t)
       \/ AskRefused(t)
       \/ MigrateHistory(t)
       \/ ModelRequest(t)
       \/ SendQuestion(t)
       \/ RunFails(t)
  \/ WipeCancels
  \/ WipeHistories
  \/ WipeCoverages
  \/ WipeRest

Spec == Init /\ [][Next]_vars

\* The loop schedules every handler, awaited calls return, the model answers,
\* and a run that goes on too long is stopped by agent_run_timeout.
FairSpec ==
  /\ Spec
  /\ \A t \in Task : WF_vars(Continue(t)) /\ WF_vars(ModelRequest(t) \/ TurnRefused(t))
                     /\ WF_vars(RunFails(t))

----------------------------------------------------------------------------
\* Properties.

TaskState == [pc : InTurn \cup {"idle", "done", "relevance", "answered", "askready",
                               "dropped", "expired", "forget", "forgetting"},
              conv : Conv \cup {None}, kind : AllKinds \cup {None},
              snap : SUBSET Task, skip : SUBSET Task, cursor : SUBSET Task,
              answer : (Task \X Task) \cup {None}]

\* The registries name handlers, a handler past its arrival has a conversation,
\* and the counters respect the budget.
TypeOK ==
  /\ task \in [Task -> TaskState]
  /\ \A t \in Task : task[t].pc # "idle" => C(t) \in Conv
  /\ convLock \in [Conv -> Task \cup {None}] /\ wakeLock \in [User -> Task \cup {None}]
  /\ runTask \in [Conv -> Task \cup {None}] /\ activeRun \in [Conv -> Task \cup {None}]
  /\ history \in [Conv -> SUBSET Task] /\ coverage \in [Conv -> SUBSET Task]
  /\ erased \in [Conv -> SUBSET Task]
  /\ ask \in [Conv -> Task \cup {None}] /\ keyboards \in [Conv -> SUBSET Task]
  /\ steering \in [Conv -> SUBSET Task] /\ budget \in [Conv -> 0..MaxQueue]
  /\ inbox \in [Task -> SUBSET Task] /\ given \in [Task -> SUBSET Task]
  /\ wipe \in {"idle", "cancel", "histories", "coverages", "done"} /\ cancelled \subseteq Task

\* state.py:119: the wake, follow-up and ask entries own the conversation for
\* the whole run, so two turns of one conversation never overlap.
OneTurnPerConversation ==
  \A s, t \in Task :
    task[s].pc \in InTurn /\ task[t].pc \in InTurn /\ C(s) = C(t) => s = t

\* A bot has one wake turn at a time, over all the chats it writes in.
BotTurnsOneAtATime ==
  \A s, t \in {x \in Task : task[x].pc \in InTurn /\ task[x].kind = "wake"} :
    Speaker[C(s)] = Speaker[C(t)] /\ Speaker[C(s)] \in Bots => s = t

\* The lock that serialises a bot's wakes is never left behind by a handler
\* that has returned: otherwise that bot is never answered again.
WakeLockNotLeaked ==
  \A u \in User : wakeLock[u] # None => ~At(wakeLock[u], "done")

\* What a turn stored is still there when a later turn stores its own messages:
\* messages leave a history only by a session cleanup.
StoredTurnsKept == \A c \in Conv : history[c] \ history'[c] \subseteq erased'[c]
NoTurnForgotten == [][StoredTurnsKept]_vars

\* agent.py:91: a wiped conversation is not written back to afterwards.
CleanupIsFinal == \A c \in Conv : history[c] \cap erased[c] = {}

\* The part of agent.py:91 that cancelling does achieve: the runs found in the
\* registry are over before the first history is deleted, so none of THEM stores
\* into it, and none still feeds on the queues that are emptied last.
CancelledRunsAreOver ==
  wipe \in {"histories", "coverages", "done"} => \A t \in cancelled : task[t].pc \notin InRun

\* state.py:17: what the cursor leaves out of a prompt was delivered earlier in
\* the same conversation: the history sent with the prompt has it, whichever
\* runs failed in between, unless the speaker had it erased.
SkippedIsRemembered ==
  \A t \in Task : task[t].pc \in {"compose"} \cup InRun =>
    task[t].skip \subseteq task[t].snap \cup erased[C(t)]

\* state.py:304: the budget and the queue bound what one run is given, also when
\* messages arrive before it is registered or while the previous one ends.  (A
\* cleanup of the conversation grants a running turn another budget.)
InterjectionsBounded == \A t \in Task : Cardinality(given[t]) <= 2 * MaxQueue

\* What comes while a turn runs is kept within its bounds (state.py:304).
QueueKept == TypeOK /\ InterjectionsBounded

\* A pending question is consumed by one press of a button: two presses, or a
\* press and a new message, never start two turns for it.
AnsweredOnce ==
  \A s, t \in {x \in Task : task[x].answer # None} :
    task[s].answer[2] = task[t].answer[2] => s = t

\* Whoever owns a conversation gives it back, so a speaker is never locked out.
Owns(c, t) == convLock[c] = t
TurnEnds == \A c \in Conv, t \in Task : Owns(c, t) ~> ~Owns(c, t)
=============================================================================
