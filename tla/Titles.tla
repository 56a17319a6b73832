--------------------------------- MODULE Titles ---------------------------------
(* Titles of members (plugins/title): /t makes the member an administrator   *)
(* with the rights the chat allows and gives the title, or a tag where the   *)
(* bot may not promote; /td takes it back.  A command is several calls to    *)
(* Telegram, each of which may fail; others run in between.                  *)
EXTENDS Integers, FiniteSets

CONSTANTS Member, Task, Text, None,
          Right,       \* title_permissions: rights the chat may allow
          MaxToggles,  \* changes of those
          MaxChanges   \* changes of the bot's own rights

VARIABLES allowed,   \* title_permissions of the chat
          bot,       \* the bot's rights: "promote" and "tags"
          member,    \* what each member has: see Plain
          task,      \* what each command is doing: see Idle
          toggles, changes,
          half       \* (history) members a command for whom failed or overlapped

vars == <<allowed, bot, member, task, toggles, changes, half>>

Plain == [admin |-> FALSE, rights |-> {}, title |-> None, tag |-> None]
Idle == [at |-> "idle", of |-> CHOOSE m \in Member : TRUE, text |-> None,
         seen |-> {}, ever |-> {}, tags |-> FALSE]
Init == /\ allowed \in SUBSET Right /\ bot \in SUBSET {"promote", "tags"}
        /\ member = [m \in Member |-> Plain] /\ task = [c \in Task |-> Idle]
        /\ toggles = 0 /\ changes = 0 /\ half = {}

At(c, where) == task[c].at = where
Goes(c, where) == task' = [task EXCEPT ![c].at = where]
Of(c) == task[c].of
Busy(m) == \E c \in Task : Of(c) = m /\ task[c].at \notin {"idle", "done", "failed"}
Has(m, r) == member' = [member EXCEPT ![m] = r]
Begins(c, where, m, text) ==
  /\ At(c, "idle")
  /\ task' = [task EXCEPT ![c] = [at |-> where, of |-> m, text |-> text, seen |-> allowed,
                                  ever |-> allowed, tags |-> FALSE]]
  /\ half' = IF Busy(m) THEN half \cup {m} ELSE half
  /\ UNCHANGED <<allowed, bot, member, toggles, changes>>

(* Any call may be refused, and is when the bot lacks the right; what the    *)
(* command has done before stays.                                            *)
Refused(c) == /\ task[c].at \in {"tag", "promote", "title", "demote", "untag"} /\ Goes(c, "failed")
              /\ half' = half \cup {Of(c)}
              /\ UNCHANGED <<allowed, bot, member, toggles, changes>>
Calls(c, right) == right \in bot /\ UNCHANGED <<allowed, bot, toggles, changes, half>>

-----------------------------------------------------------------------------
(* set_member_title.                                                         *)
Set(c, m, t) == Begins(c, "look", m, t)
Look(c) == /\ At(c, "look") /\ Goes(c, IF "promote" \in bot THEN "promote" ELSE "tag")
           /\ UNCHANGED <<allowed, bot, member, toggles, changes, half>>
Tag(c) == /\ At(c, "tag") /\ Calls(c, "tags") /\ Goes(c, "done")
          /\ Has(Of(c), [member[Of(c)] EXCEPT !.tag = task[c].text])

(* The rights are those of the configuration that was read, or, if that is   *)
(* the object in the cache, what has become of it.  A promotion keeps the    *)
(* title of who has one.  Mutant: a right the chat says nothing of is given. *)
Given_All(S) == Right
Given(S) == S
Promote(c) == /\ At(c, "promote") /\ Calls(c, "promote") /\ Goes(c, "title")
              /\ \E S \in {task[c].seen, allowed} :
                   Has(Of(c), [member[Of(c)] EXCEPT !.admin = TRUE, !.rights = Given(S)])

(* Mutant: the title goes to whoever is an administrator already.            *)
Titled_Kept(had, t) == IF had = None THEN t ELSE had
Titled(had, t) == t
Title(c) == /\ At(c, "title") /\ member[Of(c)].admin /\ Calls(c, "promote") /\ Goes(c, "done")
            /\ Has(Of(c), [member[Of(c)] EXCEPT !.title = Titled(@, task[c].text)])

-----------------------------------------------------------------------------
(* delete_member_title.                                                      *)
Delete(c, m) == Begins(c, "looking", m, None)
LookBack(c) == /\ At(c, "looking")
               /\ task' = [task EXCEPT ![c].at = IF "promote" \in bot THEN "demote"
                                                 ELSE IF "tags" \in bot THEN "untag" ELSE "failed",
                                       ![c].tags = "tags" \in bot]
               /\ half' = IF bot = {} THEN half \cup {Of(c)} ELSE half
               /\ UNCHANGED <<allowed, bot, member, toggles, changes>>
(* Mutant: the member stays an administrator, without the title.             *)
Demoted_Bare(m) == [m EXCEPT !.title = None]
Demoted(m) == [Plain EXCEPT !.tag = m.tag]
After(c) == IF task[c].tags THEN "untag" ELSE "done"
Demote(c) == /\ At(c, "demote") /\ Calls(c, "promote") /\ Goes(c, After(c))
             /\ Has(Of(c), Demoted(member[Of(c)]))
Untag(c) == /\ At(c, "untag") /\ Calls(c, "tags") /\ Goes(c, "done")
            /\ Has(Of(c), [member[Of(c)] EXCEPT !.tag = None])

(* set_title_permissions_callback: one right is turned over.                 *)
Toggle(r) == /\ toggles < MaxToggles /\ toggles' = toggles + 1
             /\ allowed' = IF r \in allowed THEN allowed \ {r} ELSE allowed \cup {r}
             /\ task' = [c \in Task |-> [task[c] EXCEPT !.ever = @ \cup allowed']]
             /\ UNCHANGED <<bot, member, changes, half>>
Change == /\ changes < MaxChanges /\ changes' = changes + 1 /\ bot' \in SUBSET {"promote", "tags"} \ {bot}
          /\ UNCHANGED <<allowed, member, task, toggles, half>>

Next == \/ \E c \in Task : \/ \E m \in Member : Delete(c, m) \/ \E t \in Text : Set(c, m, t)
                           \/ Look(c) \/ Tag(c) \/ Promote(c) \/ Title(c) \/ Refused(c)
                           \/ LookBack(c) \/ Demote(c) \/ Untag(c)
        \/ \E r \in Right : Toggle(r)
        \/ Change
Spec == Init /\ [][Next]_vars

-----------------------------------------------------------------------------
(* Only administrators have rights or a title, and each right they have was  *)
(* allowed by the chat at some time of a command for them.                   *)
TypeOK == \A m \in Member :
            /\ ~member[m].admin => member[m].rights = {} /\ member[m].title = None
            /\ member[m].rights \subseteq UNION {task[c].ever : c \in {c \in Task : Of(c) = m}}

(* Nobody is an administrator for the sake of a title without having one,    *)
(* but while the command runs, or where a command failed or two overlapped.  *)
AdminForTitle == \A m \in Member : member[m].admin /\ member[m].title = None /\ m \notin half
                                     => \E c \in Task : Of(c) = m /\ At(c, "title")

(* A command that ends well has had its way, if none for the member failed   *)
(* or overlapped and the bot's own rights stayed the same: the title or tag  *)
(* is the one asked for, or there is nothing left of any.                    *)
Ends(c) == ~At(c, "done") /\ task'[c].at = "done"
AsAsked == \A c \in Task : Ends(c) /\ Of(c) \notin half /\ changes = 0
             => LET m == member'[Of(c)]
                IN IF task[c].text = None THEN m = Plain ELSE task[c].text \in {m.title, m.tag}
HadItsWay == [][AsAsked]_vars
=============================================================================
