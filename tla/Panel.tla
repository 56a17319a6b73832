------------------------------- MODULE Panel -------------------------------
(* The web panel on the bot's event loop: sessions and their roles           *)
(* (webapp/auth.py, deps.py), who may manage a group                         *)
(* (common/tgmethod.py), and the server's start and stop (server.py).        *)
EXTENDS Integers, FiniteSets

CONSTANTS User, Owner,
          Request,   \* requests under way at the same time
          TokenTtl,  \* webapp_jwt_ttl, in ticks
          CacheTtl,  \* the hour of can_manage_bot, in ticks
          MaxRequests, MaxChanges

VARIABLES server,    \* off, starting, on, stopping, stopped, or orphan (see StartTimesOut)
          token,     \* what is left of each user's session token
          admin,     \* users with is_bot_global_admin
          standing,  \* what each user is in the group: member, admin, owner
          granted,   \* is_bot_admin of each user's association with the group
          cached,    \* can_manage_bot: what is left of each user's entry
          req,       \* the requests
          begun, changes,
          since,     \* (history) ticks since a user could last manage the group, up to Over
          killed     \* (history) the server was cancelled with requests under way

vars == <<server, token, admin, standing, granted, cached, req, begun, changes, since, killed>>

Roots == {"admin", "chat"}  \* RequireAdmin or ChatAdminCtx
(* late (history): whoever asks had lost what he asks for when he began. *)
Idle == [pc |-> "idle", who |-> Owner, root |-> "admin", late |-> FALSE]
Over == CacheTtl + 1
Go(r, pc) == req' = [req EXCEPT ![r].pc = pc]
Refuse(r) == req' = [req EXCEPT ![r] = Idle]
UnderWay == {r \in Request : req[r].pc # "idle"}

(* Whom the group's settings are open to, as things are now. *)
IsAdmin(u) == u = Owner \/ u \in admin
Manages(u) == IsAdmin(u) \/ u \in granted \/ standing[u] \in {"admin", "owner"}

Init == /\ server = "off" /\ token = [u \in User |-> 0] /\ admin = {} /\ granted = {}
        /\ standing \in [User -> {"member", "admin", "owner"}]
        /\ cached = [u \in User |-> 0] /\ req = [r \in Request |-> Idle]
        /\ begun = 0 /\ changes = 0 /\ killed = FALSE
        /\ since = [u \in User |-> IF Manages(u) THEN 0 ELSE Over]

Others == UNCHANGED <<token, admin, standing, granted, cached, begun, changes, since>>

-----------------------------------------------------------------------------
(* The server's task is spawned and polled until it listens.  A start that   *)
(* takes too long is given up, and the task goes on without its handle.      *)
Start == /\ server = "off" /\ server' = "starting" /\ UNCHANGED <<req, killed>> /\ Others
Listens == /\ server = "starting" /\ server' = "on" /\ UNCHANGED <<req, killed>> /\ Others
StartFails == /\ server = "starting" /\ server' = "stopped" /\ UNCHANGED <<req, killed>> /\ Others
StartTimesOut == /\ server = "starting" /\ server' = "orphan" /\ UNCHANGED <<req, killed>> /\ Others

(* stop: no new requests, and a wait for those under way; after that the     *)
(* task is cancelled.  Mutant: nobody waits.                                 *)
Stop == /\ server = "on" /\ server' = "stopping" /\ UNCHANGED <<req, killed>> /\ Others
Drains_Now == TRUE
Drains == UnderWay = {}
Drained == /\ server = "stopping" /\ Drains /\ server' = "stopped"
           /\ UNCHANGED <<req, killed>> /\ Others
StopTimesOut == /\ server = "stopping" /\ server' = "stopped" /\ killed' = (UnderWay # {})
                /\ UNCHANGED req /\ Others
Serving == server \in {"on", "orphan"}

-----------------------------------------------------------------------------
(* POST /api/auth/telegram: a token, which names the user and nothing else. *)
Login(u) == /\ Serving /\ token[u] < TokenTtl /\ token' = [token EXCEPT ![u] = TokenTtl]
            /\ UNCHANGED <<server, admin, standing, granted, cached, req, begun, changes,
                           since, killed>>

(* A request with a token that has not expired. *)
Begin(r, u, root) ==
    /\ Serving /\ req[r].pc = "idle" /\ token[u] > 0 /\ begun < MaxRequests
    /\ begun' = begun + 1
    /\ req' = [req EXCEPT ![r] = [pc |-> "roles", who |-> u, root |-> root,
                                  late |-> IF root = "admin" THEN ~IsAdmin(u)
                                           ELSE since[u] >= CacheTtl]]
    /\ UNCHANGED <<server, token, admin, standing, granted, cached, changes, since, killed>>

(* get_current_user resolves the roles; admins pass everywhere, others are   *)
(* looked up for a group.                                                    *)
Roles(r) ==
    /\ req[r].pc = "roles"
    /\ IF IsAdmin(req[r].who) THEN Go(r, "act")
       ELSE IF req[r].root = "chat" THEN Go(r, "manage") ELSE Refuse(r)
    /\ UNCHANGED <<server, killed>> /\ Others

(* can_user_manage_bot_in_chat: the association and the cache, or Telegram.  *)
(* What Telegram said is written down after another await.                   *)
Manage(r) ==
    LET u == req[r].who
    IN /\ req[r].pc = "manage"
       /\ Go(r, IF u \in admin \cup granted \/ cached[u] > 0 THEN "act" ELSE "ask")
       /\ UNCHANGED <<server, killed>> /\ Others
Ask(r) ==
    LET u == req[r].who
    IN /\ req[r].pc = "ask"
       /\ CASE standing[u] = "owner" -> Go(r, "grant")
            [] standing[u] = "admin" -> Go(r, "keep")
            [] OTHER -> Refuse(r)
       /\ UNCHANGED <<server, killed>> /\ Others
Kept_Longer(u) == CacheTtl + 1   \* mutant: an entry too long-lived
Kept(u) == CacheTtl
Write(r) ==
    LET u == req[r].who
    IN /\ req[r].pc \in {"grant", "keep"} /\ Go(r, "act")
       /\ granted' = IF req[r].pc = "grant" THEN granted \cup {u} ELSE granted
       /\ cached' = IF req[r].pc = "keep" THEN [cached EXCEPT ![u] = Kept(u)] ELSE cached
       /\ UNCHANGED <<server, token, admin, standing, begun, changes, since, killed>>

(* Ten seconds for that, and an error of it, are a refusal.  Mutant: errors  *)
(* read as permission.                                                       *)
Unknown_Allowed(r) == Go(r, "act")
Unknown(r) == Refuse(r)
LookupFails(r) == /\ req[r].pc \in {"manage", "ask", "grant", "keep"} /\ Unknown(r)
                  /\ UNCHANGED <<server, killed>> /\ Others
Act(r) == /\ req[r].pc = "act" /\ Refuse(r) /\ UNCHANGED <<server, killed>> /\ Others

-----------------------------------------------------------------------------
(* Promotions and demotions, in the group and of the bot. *)
Change == /\ changes < MaxChanges /\ changes' = changes + 1
          /\ \/ /\ \E u \in User, s \in {"member", "admin", "owner"} :
                        s # standing[u] /\ standing' = [standing EXCEPT ![u] = s]
                /\ UNCHANGED <<admin, granted>>
             \/ /\ \E u \in User \ {Owner} :
                        \/ admin' = admin \cup {u} \/ admin' = admin \ {u}
                /\ UNCHANGED <<standing, granted>>
             \/ /\ \E u \in granted : granted' = granted \ {u}
                /\ UNCHANGED <<standing, admin>>
          /\ since' = [u \in User |-> IF Manages(u)' THEN 0 ELSE since[u]]
          /\ req' = [r \in Request |->
                        [req[r] EXCEPT !.late = @ /\ IF req[r].root = "chat"
                                                     THEN since'[req[r].who] # 0
                                                     ELSE req[r].who \notin admin']]
          /\ UNCHANGED <<server, token, cached, begun, killed>>

(* Time passes; a request takes less than a tick. *)
Left(n) == IF n > 0 THEN n - 1 ELSE 0
Tick == /\ UnderWay = {}
        /\ token' = [u \in User |-> Left(token[u])]
        /\ cached' = [u \in User |-> Left(cached[u])]
        /\ since' = [u \in User |-> IF Manages(u) THEN 0
                                    ELSE IF since[u] < Over THEN since[u] + 1 ELSE Over]
        /\ UNCHANGED <<server, admin, standing, granted, req, begun, changes, killed>>

Next == \/ Start \/ Listens \/ StartFails \/ StartTimesOut \/ Stop \/ Drained \/ StopTimesOut
        \/ \E u \in User : Login(u) \/ \E r \in Request, root \in Roots : Begin(r, u, root)
        \/ \E r \in Request : Roles(r) \/ Manage(r) \/ Ask(r) \/ Write(r) \/ LookupFails(r) \/ Act(r)
        \/ Change \/ Tick
Spec == Init /\ [][Next]_vars

-----------------------------------------------------------------------------
(* Variables keep to their types. *)
TypeOK == /\ token \in [User -> 0..TokenTtl] /\ cached \in [User -> 0..CacheTtl]
          /\ granted \subseteq User /\ admin \subseteq User \ {Owner}
          /\ since \in [User -> 0..Over]

(* A demoted admin loses access at once (deps.py:4): no request that began   *)
(* after it acts as admin.  Who may no longer manage the group loses it when *)
(* the cached answer has expired at the latest, although the answer may have *)
(* been written down after he lost it; and no lookup that fails lets anybody *)
(* in.  Who is promoted while his request is under way may pass.             *)
LateIsRefused == \A r \in Request : req[r].pc = "act" => ~req[r].late

(* When stop has returned in time, no request is under way: the database is  *)
(* closed with the rest of the process.                                      *)
StoppedIsQuiet == server = "stopped" /\ ~killed => UnderWay = {}
=============================================================================
