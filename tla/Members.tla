------------------------------- MODULE Members -------------------------------
(***************************************************************************)
(* What the bot knows of one group and its members: the middleware that    *)
(* records whoever writes (plugins/middlewares/before.py), the caches that *)
(* spare it writing what it knows (database/user.py, association.py,       *)
(* chat.py), departures and /syncmembers (plugins/chat_member.py), bot     *)
(* admins (common/ops.py), and the panel's pages on them (webapp/routers).  *)
(*                                                                         *)
(* Every database function is a transaction of its own; a handler is in    *)
(* `hands` while it is between two of them, or waits for Telegram.         *)
(***************************************************************************)
EXTENDS Integers, FiniteSets

CONSTANTS User,
          Owner,      \* who owns the group at Telegram
          Days,       \* sets of kinds of events, one of which happens
          MaxRenames, \* names are numbered, -1 is one typed in the panel
          MaxHands,   \* handlers between two transactions
          None

VARIABLES day,     \* the kinds of events of this behaviour
          called,  \* names at Telegram
          inside,  \* members at Telegram
          bot,     \* the bot is in the group
          name,    \* user_data.full_name, None without a row
          snap,    \* _upsert_user_cache
          chat,    \* chat_data has a row
          barred,  \* chat_data.is_blocked
          rows,    \* user_chat_association: [admin, by], or None
          known,   \* _association_cache
          blocked, \* user_data.is_blocked
          global,  \* user_data.is_bot_global_admin
          hands,
          deleted, \* history: the chat was deleted in the panel
          clash,   \* history: a message came in while a name was corrected
          undone,  \* history: rights were lost, or given by a global admin
          stuck    \* history: a call of leave_chat failed

vars == <<day, called, inside, bot, name, snap, chat, barred, rows, known, blocked,
          global, hands, deleted, clash, undone, stuck>>

Name == -1..MaxRenames
Row == [admin : BOOLEAN, by : User \cup {None}]
Fresh == [admin |-> FALSE, by |-> None]
Ops == {"chat", "row", "name", "left", "sync", "drop", "set", "unset", "claim",
        "delete", "bar", "added"}

\* What the constants have to be.
Parameters ==
    /\ Owner \in User /\ MaxRenames \in Nat /\ MaxHands \in Nat
    /\ None \notin User \cup Name \cup Row

TypeOK ==
    /\ day \in Days
    /\ called \in [User -> 0..MaxRenames] /\ inside \subseteq User
    /\ {bot, chat, barred, deleted, clash, undone, stuck} \subseteq BOOLEAN
    /\ name \in [User -> Name \cup {None}] /\ snap \in [User -> Name \cup {None}]
    /\ rows \in [User -> Row \cup {None}] /\ barred => chat
    /\ known \subseteq User /\ blocked \subseteq User /\ global \subseteq User
    /\ \A h \in hands : h.op \in Ops /\ h.who \subseteq User
    /\ Cardinality(hands) <= MaxHands
    /\ \A u \in User : rows[u] # None => name[u] # None /\ (rows[u].by # None => rows[u].admin)

Init ==
    /\ day \in Days
    /\ called = [u \in User |-> 0] /\ inside = User /\ bot = TRUE
    /\ name = [u \in User |-> 0] /\ snap = [u \in User |-> None]
    /\ chat = TRUE /\ barred = FALSE
    /\ rows = [u \in User |-> Fresh] /\ known = {}
    /\ blocked = {} /\ global = {} /\ hands = {}
    /\ deleted = FALSE /\ clash = FALSE /\ undone = FALSE /\ stuck = FALSE

H(op, who, by) == [op |-> op, who |-> who, by |-> by]
Starts(h) == /\ Cardinality(hands) < MaxHands /\ h \notin hands
             /\ hands' = hands \cup {h}
Goes(h, next) == h \in hands /\ hands' = (hands \ {h}) \cup next
world == <<day, called, inside>>

-----------------------------------------------------------------------------
(* Telegram *)

Rename(u) ==
    /\ "names" \in day /\ called[u] < MaxRenames
    /\ called' = [called EXCEPT ![u] = @ + 1]
    /\ UNCHANGED <<day, inside, bot, name, snap, chat, barred, rows, known, blocked,
                   global, hands, deleted, clash, undone, stuck>>

Leave(u) ==
    /\ "leave" \in day /\ u \in inside /\ inside' = inside \ {u}
    /\ Starts(H("left", {u}, None))
    /\ UNCHANGED <<day, called, bot, name, snap, chat, barred, rows, known, blocked,
                   global, deleted, clash, undone, stuck>>

Join(u) ==
    /\ u \notin inside /\ inside' = inside \cup {u}
    /\ UNCHANGED <<day, called, bot, name, snap, chat, barred, rows, known, blocked,
                   global, hands, deleted, clash, undone, stuck>>

-----------------------------------------------------------------------------
(* A message or a button: on_m, on_cb *)

\* upsert_user: nothing is written when the snapshot says it is known, and
\* the rest of the bot sees nothing of a blocked user.
UpsertUser(u) ==
    /\ name' = [name EXCEPT ![u] = IF snap[u] = called[u] THEN @ ELSE called[u]]
    /\ snap' = [snap EXCEPT ![u] = called[u]]
    /\ clash' = (clash \/ \E h \in hands : h.op = "name" /\ h.who = {u})

Writes(u) ==
    /\ "messages" \in day /\ u \in inside /\ bot
    /\ UpsertUser(u)
    /\ IF u \in blocked THEN UNCHANGED hands ELSE Starts(H("chat", {u}, None))
    /\ UNCHANGED <<world, bot, chat, barred, rows, known, blocked, global, deleted, undone, stuck>>

UpsertChat(h) ==
    /\ h.op = "chat" /\ chat' = TRUE
    /\ Goes(h, {H("row", h.who, None)})
    /\ UNCHANGED <<world, bot, name, snap, barred, rows, known, blocked, global,
                   deleted, clash, undone, stuck>>

\* add_association_in_chat inserts a row, unless the cache says it is there.
AddAssociation(h) ==
    /\ h.op = "row" /\ Goes(h, {})
    /\ rows' = [u \in User |-> IF u \in h.who \ known /\ rows[u] = None THEN Fresh ELSE rows[u]]
    /\ known' = known \cup h.who
    /\ UNCHANGED <<world, bot, name, snap, chat, barred, blocked, global, deleted,
                   clash, undone, stuck>>

-----------------------------------------------------------------------------
(* Departures *)

\* Mutant: the cache is left alone.
Forget_Not(u) == known' = known
Forget(u) == known' = known \ {u}

\* remove_association.
Remove(u) ==
    /\ rows' = [rows EXCEPT ![u] = None]
    /\ IF rows[u] # None THEN Forget(u) ELSE UNCHANGED known
    /\ undone' = (undone \/ (rows[u] # None /\ rows[u].admin))

\* chat_member_updated, on_left_chat_member: the chat is recorded first.
Left(h) ==
    /\ h.op = "left" /\ Goes(h, {})
    /\ chat' = TRUE
    /\ \E u \in h.who : Remove(u)
    /\ UNCHANGED <<world, bot, name, snap, barred, blocked, global, deleted, clash, stuck>>

\* sync_chat_members: the members at Telegram, later the rows of those who
\* were not among them, each removed in a transaction.
SyncBegin ==
    /\ "sync" \in day /\ chat
    /\ Starts(H("sync", inside, None))
    /\ UNCHANGED <<world, bot, name, snap, chat, barred, rows, known, blocked, global,
                   deleted, clash, undone, stuck>>

SyncRows(h) ==
    /\ h.op = "sync"
    /\ Goes(h, {H("drop", {u \in User \ h.who : rows[u] # None}, None)})
    /\ UNCHANGED <<world, bot, name, snap, chat, barred, rows, known, blocked, global,
                   deleted, clash, undone, stuck>>

SyncRemove(h) ==
    /\ h.op = "drop"
    /\ IF h.who = {} THEN Goes(h, {}) /\ UNCHANGED <<rows, known, undone>>
       ELSE \E u \in h.who : Remove(u) /\ Goes(h, {[h EXCEPT !.who = @ \ {u}]})
    /\ UNCHANGED <<world, bot, name, snap, chat, barred, blocked, global, deleted, clash, stuck>>

-----------------------------------------------------------------------------
(* The panel: users and chats *)

\* Mutant: the snapshot stays.
Dropped_Not(u) == snap
Dropped(u) == [snap EXCEPT ![u] = None]

\* set_user_identity drops the snapshot and commits later.
CorrectName(u) ==
    /\ "names" \in day /\ name[u] # None
    /\ snap' = Dropped(u)
    /\ Starts(H("name", {u}, None))
    /\ UNCHANGED <<world, bot, name, chat, barred, rows, known, blocked, global,
                   deleted, clash, undone, stuck>>

NameCommit(h) ==
    /\ h.op = "name" /\ Goes(h, {})
    /\ name' = [u \in User |-> IF u \in h.who THEN -1 ELSE name[u]]
    /\ UNCHANGED <<world, bot, snap, chat, barred, rows, known, blocked, global,
                   deleted, clash, undone, stuck>>

SetBlocked(u) ==
    /\ "names" \in day /\ blocked' \in {blocked \cup {u}, blocked \ {u}}
    /\ UNCHANGED <<world, bot, name, snap, chat, barred, rows, known, global, hands,
                   deleted, clash, undone, stuck>>

\* leave_chat: the call may fail, the rows go all the same.
PanelLeave ==
    /\ "delete" \in day /\ chat
    /\ bot' \in {FALSE, bot} /\ stuck' = (stuck \/ bot')
    /\ Starts(H("delete", {}, None))
    /\ UNCHANGED <<world, name, snap, chat, barred, rows, known, blocked, global,
                   deleted, clash, undone>>

DeleteChat(h) ==
    /\ h.op = "delete" /\ Goes(h, {})
    /\ chat' = FALSE /\ barred' = FALSE
    /\ rows' = [u \in User |-> None]
    /\ deleted' = TRUE
    /\ undone' = TRUE
    /\ UNCHANGED <<world, bot, name, snap, known, blocked, global, clash, stuck>>

\* block_chat marks the chat and then leaves it; unblock_chat.
BarSet(v) == barred' = v

BlockChat ==
    /\ "bar" \in day /\ chat /\ BarSet(TRUE)
    /\ Starts(H("bar", {}, None))
    /\ UNCHANGED <<world, bot, name, snap, chat, rows, known, blocked, global,
                   deleted, clash, undone, stuck>>

UnblockChat ==
    /\ barred /\ barred' = FALSE
    /\ UNCHANGED <<world, bot, name, snap, chat, rows, known, blocked, global, hands,
                   deleted, clash, undone, stuck>>

\* The bot is added to the group; on_chat_member leaves a blocked one again.
BotAdded ==
    /\ "bar" \in day /\ ~bot /\ bot' = TRUE
    /\ Starts(H("added", {}, None))
    /\ UNCHANGED <<world, name, snap, chat, barred, rows, known, blocked, global,
                   deleted, clash, undone, stuck>>

\* Mutant: the flag is not looked at again when the bot is added.
LeavesAgain_Not(h) == h.op = "bar"
LeavesAgain(h) == h.op = "bar" \/ (chat /\ barred)

LeaveBarred(h) ==
    /\ h.op \in {"bar", "added"} /\ Goes(h, {})
    /\ IF LeavesAgain(h)
         THEN /\ bot' \in {FALSE, bot} /\ stuck' = (stuck \/ bot')
         ELSE UNCHANGED <<bot, stuck>>
    /\ UNCHANGED <<world, name, snap, chat, barred, rows, known, blocked, global,
                   deleted, clash, undone>>

-----------------------------------------------------------------------------
(* Bot admins *)

\* set_user_global_admin.
SetGlobal(u) ==
    /\ "global" \in day /\ global' \in {global \cup {u}, global \ {u}}
    /\ UNCHANGED <<world, bot, name, snap, chat, barred, rows, known, blocked, hands,
                   deleted, clash, undone, stuck>>

\* The checks of ops.set_bot_admin: the actor is a bot admin here, and not by
\* grace of the target; the target is a member who does not have it already.
\* Mutant: only the target is looked at.
MayAppoint_Member(a, t, promote) == a # t /\ rows[t] # None /\ rows[t].admin # promote
MayAppoint(a, t, promote) ==
    /\ a # t
    /\ a \in global \/ (rows[a] # None /\ rows[a].admin /\ rows[a].by # t)
    /\ rows[t] # None /\ rows[t].admin # promote

\* /botpromote and /botdemote, and the panel's page of admins.
Appoint(a, t, promote) ==
    /\ "admins" \in day
    /\ MayAppoint(a, t, promote)
    /\ Starts(H(IF promote THEN "set" ELSE "unset", {t}, a))
    /\ undone' = (undone \/ a \in global)
    /\ UNCHANGED <<world, bot, name, snap, chat, barred, rows, known, blocked, global,
                   deleted, clash, stuck>>

\* Mutant: promoted_by stays on record.
Demoted_Marked(r) == [r EXCEPT !.admin = FALSE]
Demoted(r) == Fresh

\* set_association_bot_admin: False when the member has gone.
SetAssociation(h) ==
    /\ h.op \in {"set", "unset"} /\ Goes(h, {})
    /\ rows' = [u \in User |->
                  IF u \notin h.who \/ rows[u] = None THEN rows[u]
                  ELSE IF h.op = "set" THEN [admin |-> TRUE, by |-> h.by] ELSE Demoted(rows[u])]
    /\ undone' = (undone \/ h.op = "unset")
    /\ UNCHANGED <<world, bot, name, snap, chat, barred, known, blocked, global,
                   deleted, clash, stuck>>

\* can_user_manage_bot_in_chat: the owner of the group, who is no bot admin
\* yet, becomes one once Telegram has answered.
OwnerActs ==
    /\ "admins" \in day /\ Owner \in inside
    /\ rows[Owner] # None /\ ~rows[Owner].admin
    /\ Starts(H("claim", {Owner}, rows[Owner].by))
    /\ UNCHANGED <<world, bot, name, snap, chat, barred, rows, known, blocked, global,
                   deleted, clash, undone, stuck>>

\* update_association writes all of the row that was read before.
OwnerClaims(h) ==
    /\ h.op = "claim" /\ Goes(h, {})
    /\ rows' = IF rows[Owner] = None THEN rows
               ELSE [rows EXCEPT ![Owner] = [admin |-> TRUE, by |-> h.by]]
    /\ UNCHANGED <<world, bot, name, snap, chat, barred, known, blocked, global,
                   deleted, clash, undone, stuck>>

Handles(h) ==
    \/ UpsertChat(h) \/ AddAssociation(h) \/ Left(h) \/ SyncRows(h) \/ SyncRemove(h)
    \/ NameCommit(h) \/ DeleteChat(h) \/ LeaveBarred(h) \/ SetAssociation(h) \/ OwnerClaims(h)

Next ==
    \/ \E h \in hands : Handles(h)
    \/ \E u \in User : \/ Rename(u) \/ Leave(u) \/ Join(u) \/ Writes(u) \/ CorrectName(u)
                       \/ SetBlocked(u) \/ SetGlobal(u)
                       \/ \E t \in User, promote \in BOOLEAN : Appoint(u, t, promote)
    \/ SyncBegin \/ PanelLeave \/ BlockChat \/ UnblockChat \/ BotAdded \/ OwnerActs

Spec == Init /\ [][Next]_vars

-----------------------------------------------------------------------------
(* Properties *)

\* What upsert_user believes is written is written: otherwise a name once
\* corrected by hand would stay for ever, although Telegram's should win on
\* the next message.  Only a message in the middle of a correction can do it.
SnapshotIsWritten == clash \/ \A u \in User : snap[u] # None => snap[u] = name[u]

\* A member the cache calls known has a row.
KnownAreRows == known \subseteq {u \in User : rows[u] # None}

\* It is so whatever departures, returns, messages and synchronisations
\* overlap, until a chat is deleted in the panel.
KnownUntilDeleted == deleted \/ KnownAreRows

\* Whoever gave me my rights has them from somebody else in the end.
DelegationAcyclic ==
    \A S \in (SUBSET User) \ {{}} : ~ \A u \in S : rows[u] # None /\ rows[u].by \in S

\* Appointments alone keep the chain of delegation acyclic, however many are
\* decided on what others change before they are carried out.
AcyclicAtFirst == undone \/ DelegationAcyclic

\* A blocked group is left for good, also when the bot is added between the
\* mark and the call, unless Telegram refuses.
BarredIsLeft ==
    barred /\ bot => stuck \/ \E h \in hands : h.op \in {"bar", "added"}
=============================================================================
