---------------------------- MODULE ChatPolicies ----------------------------
(* The operator's policy of each chat (database/chat_policy.py), the mirror  *)
(* of its agent flag that the synchronous message filters read, the start-up *)
(* that seeds the table and loads the mirror (__main__.py), and the panel's  *)
(* writes (webapp/routers/admin.py).  The panel serves before the start-up   *)
(* has loaded the mirror.                                                    *)
EXTENDS Integers, FiniteSets

CONSTANTS Chat,        \* the chats
          Listed,      \* agent_whitelist of settings.toml
          Request,     \* requests of the panel that may be under way at once
          None,        \* no row; the mirror not loaded yet
          MaxEdits,    \* how many edits the panel gets
          MaxBoots,    \* how often the bot starts
          MaxFailures  \* how many transactions or loads fail

VARIABLES rows,      \* the table: a chat's flags, or None
          mirror,    \* _agent_cache
          mode,      \* agent_whitelist_mode
          boot,      \* where the start-up is
          read,      \* the chats load_agent_allowed_chats has read
          request,   \* each request's progress
          edits, boots, failures,  \* how much of the bounds is used
          asked,     \* (history) the flags the committed edits ask for
          removed,   \* (history) chats withdrawn in the panel since they were allowed
          emptied,   \* (history) the table has lost its last row, or was written between
                     \* the count and the seed
          crossed,   \* (history) chats two writers were changing at once
          astray     \* (history) the mirror was left behind by a failed commit, an edit
                     \* during the load, or a mode that was off at the start

vars == <<rows, mirror, mode, boot, read, request, edits, boots, failures, asked,
          removed, emptied, crossed, astray>>

Flag == {"agent", "exempt"}
Default == [f \in Flag |-> FALSE]
Flags(c) == IF rows[c] = None THEN Default ELSE rows[c]
Free == [pc |-> "free", chat |-> None, flag |-> "agent", on |-> FALSE, flags |-> Default,
         mirrored |-> FALSE]

Init == /\ rows = [c \in Chat |-> None] /\ mirror = None /\ mode \in BOOLEAN
        /\ boot = "down" /\ read = {} /\ request = [r \in Request |-> Free]
        /\ edits = 0 /\ boots = 0 /\ failures = 0
        /\ asked = [c \in Chat |-> Default] /\ removed = {} /\ emptied = FALSE
        /\ crossed = {} /\ astray = FALSE

-----------------------------------------------------------------------------
(* whitelist.is_chat_allowed *)
Allowed(c) == \/ ~mode
              \/ mirror = None /\ c \in Listed
              \/ mirror # None /\ c \in mirror

(* Mutants: the first edit starts the mirror; the mirror is not updated. *)
Mirrored_Started(c, on) == IF mirror = None THEN IF on THEN {c} ELSE {}
                           ELSE IF on THEN mirror \cup {c} ELSE mirror \ {c}
Mirrored_Not(c, on) == mirror
(* _mirror: nothing to update before the mirror is loaded *)
Mirrored(c, on) == IF mirror = None THEN None
                   ELSE IF on THEN mirror \cup {c} ELSE mirror \ {c}

Busy(c) == {r \in Request : request[r].chat = c}
Locked(c) == \E r \in Busy(c) : request[r].pc \in {"written", "dropped"}

Empty_Any == TRUE    \* mutant: any table is seeded
Empty == \A c \in Chat : rows[c] = None

-----------------------------------------------------------------------------
(* main: the HTTP server is started first, then the client *)
Boot == /\ boot = "down" /\ boots < MaxBoots
        /\ boots' = boots + 1
        /\ boot' = IF mode THEN "counting" ELSE "up"
        /\ astray' = ~mode
        /\ UNCHANGED <<rows, mirror, mode, read, request, edits, failures, asked, removed,
                       emptied, crossed>>

(* _init_chat_policies: the list seeds an empty table *)
Count == /\ boot = "counting"
         /\ boot' = IF Empty /\ Listed # {} THEN "seeding" ELSE "loading"
         /\ UNCHANGED <<rows, mirror, mode, read, request, edits, boots, failures, asked,
                        removed, emptied, crossed, astray>>

Missing == {c \in Listed : rows[c] = None}
Seed == /\ boot = "seeding" /\ \A c \in Missing : ~Locked(c)
        /\ rows' = [c \in Chat |-> IF c \in Missing THEN [Default EXCEPT !["agent"] = TRUE]
                                   ELSE rows[c]]
        /\ asked' = [c \in Chat |-> IF c \in Missing THEN rows'[c] ELSE asked[c]]
        /\ crossed' = crossed \cup {c \in Missing : Busy(c) # {}}
        /\ boot' = "loading"
        /\ UNCHANGED <<mirror, mode, read, request, edits, boots, failures, removed, emptied,
                       astray>>

(* load_agent_allowed_chats: the query, and the assignment after its await *)
Load == /\ boot = "loading"
        /\ read' = {c \in Chat : Flags(c)["agent"]}
        /\ boot' = "loaded"
        /\ UNCHANGED <<rows, mirror, mode, request, edits, boots, failures, asked, removed,
                       emptied, crossed, astray>>
SetCache == /\ boot = "loaded"
            /\ mirror' = read /\ boot' = "up"
            /\ UNCHANGED <<rows, mode, read, request, edits, boots, failures, asked, removed,
                           emptied, crossed, astray>>

(* A failure leaves the mirror unloaded. *)
LoadFails == /\ boot \in {"counting", "seeding", "loading"} /\ failures < MaxFailures
             /\ failures' = failures + 1 /\ boot' = "up" /\ astray' = TRUE
             /\ UNCHANGED <<rows, mirror, mode, read, request, edits, boots, asked, removed,
                            emptied, crossed>>

(* A stop or a crash: what is not committed is lost, and so is the mirror. *)
Stop == /\ boot # "down"
        /\ boot' = "down" /\ mirror' = None /\ read' = {}
        /\ request' = [r \in Request |-> Free]
        /\ UNCHANGED <<rows, mode, edits, boots, failures, asked, removed, emptied, crossed, astray>>

(* reload_config switches the mode of a running bot, and loads nothing. *)
Reload == /\ boot = "up" /\ edits < MaxEdits
          /\ edits' = edits + 1 /\ mode' = ~mode
          /\ UNCHANGED <<rows, mirror, boot, read, request, boots, failures, asked, removed,
                         emptied, crossed, astray>>

-----------------------------------------------------------------------------
(* Mutant: the flags that are not sent fall back to their defaults. *)
Desired_Fresh(c, f, on) == [Default EXCEPT ![f] = on]
(* write_chat_policy: the policy of now, with the flag that was sent changed *)
Desired(c, f, on) == [Flags(c) EXCEPT ![f] = on]
Put(r, c, f, on) ==
    /\ boot # "down" /\ request[r] = Free /\ edits < MaxEdits
    /\ edits' = edits + 1
    /\ request' = [request EXCEPT ![r] =
                      [Free EXCEPT !.pc = "put", !.chat = c, !.flag = f, !.on = on,
                                   !.flags = Desired(c, f, on)]]
    /\ crossed' = IF Busy(c) # {} THEN crossed \cup {c} ELSE crossed
    /\ UNCHANGED <<rows, mirror, mode, boot, read, boots, failures, asked, removed, emptied,
                   astray>>

(* set_chat_policy: the row is written, and with it locked, and the mirror updated *)
Write(r) == LET q == request[r] IN
    /\ q.pc = "put" /\ ~Locked(q.chat)
    /\ mirror' = Mirrored(q.chat, q.flags["agent"])
    /\ request' = [request EXCEPT ![r].pc = "written", ![r].mirrored = (mirror # None)]
    /\ UNCHANGED <<rows, mode, boot, read, edits, boots, failures, asked, removed, emptied,
                   crossed, astray>>

(* delete_chat_policy_entry, delete_chat_policy: a chat without a row is refused *)
Delete(r, c) ==
    /\ boot # "down" /\ request[r] = Free /\ edits < MaxEdits /\ ~Locked(c)
    /\ rows[c] # None
    /\ edits' = edits + 1
    /\ mirror' = Mirrored(c, FALSE)
    /\ request' = [request EXCEPT ![r] = [Free EXCEPT !.pc = "dropped", !.chat = c,
                                                     !.mirrored = (mirror # None)]]
    /\ crossed' = IF Busy(c) # {} THEN crossed \cup {c} ELSE crossed
    /\ UNCHANGED <<rows, mode, boot, read, boots, failures, asked, removed, emptied, astray>>

(* The transaction ends after the mirror was updated. *)
Commit(r) == LET q == request[r] IN
    /\ q.pc \in {"written", "dropped"}
    /\ rows' = [rows EXCEPT ![q.chat] = IF q.pc = "dropped" THEN None ELSE q.flags]
    /\ asked' = [asked EXCEPT ![q.chat] = IF q.pc = "dropped" THEN Default
                                          ELSE [@ EXCEPT ![q.flag] = q.on]]
    /\ removed' = IF q.pc = "dropped" THEN removed \cup {q.chat}
                  ELSE IF q.flag = "agent" /\ q.on THEN removed \ {q.chat} ELSE removed
    /\ emptied' = (emptied \/ boot = "seeding" \/ \A c \in Chat : rows'[c] = None)
    /\ astray' = (astray \/ (~q.mirrored /\ boot \in {"loaded", "up"}))
    /\ request' = [request EXCEPT ![r] = Free]
    /\ UNCHANGED <<mirror, mode, boot, read, edits, boots, failures, crossed>>
Rollback(r) == LET q == request[r] IN
    /\ q.pc \in {"written", "dropped"} /\ failures < MaxFailures
    /\ failures' = failures + 1 /\ astray' = (astray \/ q.mirrored)
    /\ request' = [request EXCEPT ![r] = Free]
    /\ UNCHANGED <<rows, mirror, mode, boot, read, edits, boots, asked, removed, emptied,
                   crossed>>

Next == \/ Boot \/ Count \/ Seed \/ Load \/ SetCache \/ LoadFails \/ Stop \/ Reload
        \/ \E r \in Request : \/ Write(r) \/ Commit(r) \/ Rollback(r)
                              \/ \E c \in Chat : \/ Delete(r, c)
                                                 \/ \E f \in Flag, on \in BOOLEAN :
                                                        Put(r, c, f, on)
Spec == Init /\ [][Next]_vars

-----------------------------------------------------------------------------
Phase == {"down", "counting", "seeding", "loading", "loaded", "up"}
(* The mirror exists only once it has been loaded. *)
TypeOK ==
    /\ mirror # None => boot = "up"
    /\ rows \in [Chat -> [Flag -> BOOLEAN] \cup {None}]
    /\ mirror = None \/ mirror \in SUBSET Chat
    /\ mode \in BOOLEAN /\ boot \in Phase /\ read \in SUBSET Chat
    /\ request \in [Request -> [pc : {"free", "put", "written", "dropped"},
                                chat : Chat \cup {None}, flag : Flag, on : BOOLEAN,
                                flags : [Flag -> BOOLEAN], mirrored : BOOLEAN]]
    /\ edits \in 0..MaxEdits /\ boots \in 0..MaxBoots /\ failures \in 0..MaxFailures
    /\ asked \in [Chat -> [Flag -> BOOLEAN]] /\ removed \in SUBSET Chat
    /\ crossed \in SUBSET Chat /\ emptied \in BOOLEAN /\ astray \in BOOLEAN

(* A running bot judges each chat as its row says, once no edit of it is     *)
(* under way: the mirror is updated before the commit and not again after    *)
(* it.  It is behind until the next start when a commit has failed, when an  *)
(* edit overtook the load, or when the mode was switched on while running.   *)
JudgedByTheTable ==
    boot = "up" /\ mode /\ ~astray
        => \A c \in Chat : Busy(c) = {} => (Allowed(c) <=> Flags(c)["agent"])

(* "Every write here updates the mirror in the same call, which is what makes *)
(* a panel edit take effect on the next message" (chat_policy.py:10-12).     *)
EditsTakeEffect ==
    boot = "up" /\ mode /\ failures = 0
        => \A c \in Chat : Busy(c) = {} => (Allowed(c) <=> Flags(c)["agent"])

(* A chat withdrawn in the panel is not allowed again by a restart, unless   *)
(* the table has been left without a row, was edited between the count and   *)
(* the seed, or another edit of the chat was under way.                      *)
WithdrawnStays == ~emptied => \A c \in removed \ crossed : ~Flags(c)["agent"]

(* "so a chat removed in the panel does not come back on the next restart"   *)
(* (__main__.py:87-89).                                                      *)
RemovedStays == \A c \in removed : ~Flags(c)["agent"]

(* A flag an edit does not send keeps what the last edit that sent it asked  *)
(* for; edits of one chat at once may undo one another, the policy being     *)
(* read in one transaction and written as a whole in the next.               *)
FlagsLeftAlone == \A c \in Chat : c \notin crossed => Flags(c) = asked[c]

=============================================================================
