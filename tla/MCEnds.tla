-------------------------------- MODULE MCEnds --------------------------------
(* What must end: mutes by the verification, turns of a bot, the       *)
(* outage of a dead connection, shell commands.  The components share no     *)
(* state, so a behaviour is about one of them.                               *)
EXTENDS VerifySession

CONSTANTS Updates, Talks, People, Robots, Writer, \* of AgentConversation: its Task, Conv, ...
          MaxWipes, MaxQueue,
          Media, Threshold, StaleAfter, Patience, \* of SessionHealth
          Troubles

VARIABLE about \* the component

(* Its variables, in the order of its module.  They are VerifySession's,     *)
(* which has the most; what is left of them stays 0.                         *)
s1 == config
s2 == member
s3 == muted
s4 == verified
s5 == row
s6 == sessions
s7 == byUser
s8 == left
s9 == cap
s10 == posted
s11 == expired
s12 == made
s13 == lock
s14 == work
s15 == gone
s16 == popping
s17 == loaded
s18 == crashes
s19 == faults

Turns == INSTANCE AgentConversation_proofs WITH
    Task <- Updates, Conv <- Talks, User <- People, Bots <- Robots, Speaker <-
    Writer, Kinds <- {"wake", "forget"}, Worlds <- {}, task <- s1, convLock
    <- s2, wakeLock <- s3, runTask <- s4, activeRun <- s5, history <- s6,
    coverage <- s7, ask <- s8, keyboards <- s9, steering <- s10, budget <- s11,
    inbox <- s12, given <- s13, erased <- s14, wipe <- s15, cancelled <- s16

Health == INSTANCE SessionHealth WITH
    Cooldown <- Patience, Changes <- Troubles, link <- s1, pc <- s2, at <- s3,
    todo <- s4, failures <- s5, stale <- s6, since <- s7, age <- s8, media <-
    s9, mfailures <- s10, msince <- s11, connected <- s12, mine <- s13, reused
    <- s14

\* One bot writes in every conversation.
BotEverywhere == [c \in Talks |-> CHOOSE u \in People : u \in Robots]

ASSUME EndsAssumption ==
    /\ Writer \in [Talks -> People] /\ Robots \subseteq People
    /\ None \notin Updates /\ None \notin Talks
    /\ MaxWipes \in {0, 1} /\ MaxQueue \in Nat \ {0}
    /\ Health!Parameters

Shell == INSTANCE Sandbox WITH
    Calls <- {"a", "b"}, Limit <- 1, MaxForks <- 2, MaxSweeps <- 1, dir <- s1,
    pc <- s2, clean <- s3, asked <- s4, procs <- s5, forks <- s6, sweep <- s7,
    sweeps <- s8, struck <- s9

all == <<about, s1, s2, s3, s4, s5, s6, s7, s8, s9, s10, s11, s12, s13, s14, s15, s16,
        s17, s18, s19>>
rest9 == <<s10, s11, s12, s13, s14, s15, s16, s17, s18, s19>>
rest14 == <<s15, s16, s17, s18, s19>>
rest16 == <<s17, s18, s19>>
none16 == s17 = 0 /\ s18 = 0 /\ s19 = 0
none14 == s15 = 0 /\ s16 = 0 /\ none16
none9 == s10 = 0 /\ s11 = 0 /\ s12 = 0 /\ s13 = 0 /\ s14 = 0 /\ none14

WorldInit ==
    \/ about = "mutes" /\ Init
    \/ about = "turns" /\ Turns!Init /\ none16
    \/ about = "health" /\ Health!Init /\ none14
    \/ about = "shell" /\ Shell!Init /\ none9
WorldNext ==
    /\ UNCHANGED about
    /\ \/ about = "mutes" /\ Next
       \/ about = "turns" /\ Turns!Next /\ UNCHANGED rest16
       \/ about = "health" /\ Health!Next /\ UNCHANGED rest14
       \/ about = "shell" /\ Shell!Next /\ UNCHANGED rest9
WorldSpec == WorldInit /\ [][WorldNext]_all

-----------------------------------------------------------------------------
all9 == <<s1, s2, s3, s4, s5, s6, s7, s8, s9>>
all14 == <<s1, s2, s3, s4, s5, s6, s7, s8, s9, s10, s11, s12, s13, s14>>
all16 == <<s1, s2, s3, s4, s5, s6, s7, s8, s9, s10, s11, s12, s13, s14, s15,
            s16>>
all19 == <<s1, s2, s3, s4, s5, s6, s7, s8, s9, s10, s11, s12, s13, s14, s15,
            s16, s17, s18, s19>>
(* The fairness of the modules, for the component the behaviour is about.    *)
Fairness ==
    /\ \A t \in Task : WF_all19(about = "mutes" /\ Handle(t))
    /\ \A w \in Worker : WF_all19(about = "mutes" /\ Complete(w))
    /\ WF_all19(about = "mutes" /\ SweepStart)
    /\ WF_all19(about = "mutes" /\ SweepLook)
    /\ WF_all19(about = "mutes" /\ LeftDelete)
    /\ WF_all19(about = "mutes" /\ LeftPop)
    /\ WF_all19(about = "mutes" /\ Load)
    /\ \A s \in Session : WF_all19(about = "mutes" /\ Expire(s))
    /\ \A t \in Updates : /\ WF_all16(about = "turns" /\ Turns!Continue(t))
                          /\ WF_all16(about = "turns" /\ (Turns!ModelRequest(t) \/ Turns!TurnRefused(t)))
                          /\ WF_all16(about = "turns" /\ Turns!RunFails(t))
    /\ WF_all14(about = "health" /\ Health!Check)
    /\ \A c \in {"a", "b"} : /\ WF_all9(about = "shell" /\ Shell!Handles(c))
                             /\ SF_all9(about = "shell" /\ Shell!Enter(c))
FairWorld == WorldSpec /\ Fairness

-----------------------------------------------------------------------------
(* What is safe meanwhile: a registered session has its row, a bot has one   *)
(* turn at a time, no lock is left acquired (agent.py:1073) and what         *)
(* /clear_sessions cancelled is over; an idle connection is not restarted    *)
(* for nothing and a media one not at its first failures                     *)
(* (session_health.py:184).                                                  *)
MeanwhileSafe ==
    /\ about = "mutes" => RegisteredIsStored
    /\ about = "turns" => /\ Turns!BotTurnsOneAtATime
                          /\ Turns!WakeLockNotLeaked
                          /\ Turns!CancelledRunsAreOver
    /\ about = "health" => /\ Health!TypeOK
                           /\ Health!IdleIsLeftAlone
                           /\ Health!PatientWithMedia

(* Without failing calls a member the bot has muted is given his rights back *)
(* or is removed (session.py:251).                                           *)
MuteEnds == (about = "mutes" /\ Silenced) ~> ~(about = "mutes" /\ Silenced)

(* A kick removes the member but does not keep him out (session.py:365).     *)
KickIsNotABan == (about = "mutes" /\ Banned) ~> ~(about = "mutes" /\ Banned)

(* A turn gives the conversation back, also when its run hangs, fails or is  *)
(* cancelled (agent.py:1222).                                                *)
TurnEnds ==
    \A c \in Talks, t \in Updates :
        (about = "turns" /\ Turns!Owns(c, t)) ~> ~(about = "turns" /\ Turns!Owns(c, t))

(* A connection that stays dead is restarted (session_health.py:14).         *)
DeadIsRestarted ==
    (about = "health" /\ ~Health!Helped("dead")) ~> ~(about = "health" /\ ~Health!Helped("dead"))

(* A call of the shell returns, though its command runs for ever and others  *)
(* wait for the same place (sandbox.py:358).                                 *)
ShellCallsEnd ==
    \A c \in {"a", "b"} : (about = "shell" /\ Shell!Waits(c)) ~> ~(about = "shell" /\ Shell!Waits(c))
=============================================================================
