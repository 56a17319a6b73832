--------------------------- MODULE MCConversation ---------------------------
(* One human in one chat, who writes, follows up and forgets ("talk"), or is *)
(* asked questions with buttons ("ask"); or one bot in two chats.            *)
EXTENDS AgentConversation, TLC

CONSTANT Worlds

VARIABLE about   \* one of Worlds

Asks == INSTANCE AgentConversation WITH Kinds <- {"wake", "click", "button", "forget"}

OneHuman == [c \in Conv |-> CHOOSE u \in User : u \notin Bots]
Handlers == Permutations(Task)
BotInTwoChats == [c \in Conv |-> CHOOSE u \in User : u \in Bots]

world == <<about, vars>>
WorldInit == about \in Worlds /\ Init
WorldNext == /\ UNCHANGED about
             /\ \/ about = "talk" /\ Next
                \/ about = "ask" /\ Asks!Next
WorldSpec == WorldInit /\ [][WorldNext]_world

-----------------------------------------------------------------------------
(* What /forget erased is not written back: it waits for no run, but refuses *)
(* while one owns the conversation.  (The button that clears the history,    *)
(* and /clear_sessions, do not: agent.py:556.)  What a prompt leaves out is  *)
(* in the history it comes with, or was erased (state.py:17).                *)
ForgetIsFinal == about = "talk" => CleanupIsFinal /\ SkippedIsRemembered

(* No turn stores a history that has lost what another turn stored, but by a *)
(* cleanup: so where no question is answered by a button.  (The run of an    *)
(* answer reads the history before it owns the conversation, agent.py:431,   *)
(* and may lose one.)                                                        *)
TurnsKeptUnasked == [][about = "talk" => StoredTurnsKept]_world
=============================================================================
