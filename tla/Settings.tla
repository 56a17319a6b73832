------------------------------- MODULE Settings -------------------------------
(* The configuration (config/__init__.py): read from settings.toml and       *)
(* settings.dev.toml when the bot starts, and again on /reload or by the     *)
(* panel, which must not change what only a start can change.  A file of the *)
(* agent's memory is taken to be named.                                      *)
EXTENDS Integers, FiniteSets

CONSTANTS MaxEdits, MaxBoots    \* bounds on the operator's hand and on starts

(* The fields that behave differently: one that must be given and needs a    *)
(* restart, the port, the agent's switch (1 is on), any other; and a key of  *)
(* the files that is no field, the deprecated name of the port.  A value 0   *)
(* is one that validation refuses.                                           *)
Field == {"token", "port", "agent", "other"}
Key == Field \cup {"legacy"}
Critical == {"token", "port"}
Layer == {"settings", "dev"}     \* the later one wins
Unset == -1
Value == [k \in Key |-> IF k = "other" THEN {0, 1, 2} ELSE {1, 2}]
Memory == {"x", "y", "null"}     \* the file of the agent's memory; the last is no configuration

VARIABLES there,   \* the settings files that exist
          text,    \* what each says of each key
          memory,  \* the content of the memory's file
          found,   \* _settings: the files resolved at the start
          app,     \* app_config, or what stands for none while the bot is down
          verdict, \* of the last reload
          edits, boots,
          before   \* (history) the configuration before the last reload

vars == <<there, text, memory, found, app, verdict, edits, boots, before>>

Default == [f \in Field |-> CASE f = "token" -> Unset [] f = "agent" -> 2 [] OTHER -> 1]
Down == [up |-> FALSE, fields |-> Default, memory |-> "null"]
Bare == [k \in Key |-> Unset]
Nil == [ok |-> FALSE, changed |-> {}, at |-> "none"]
Init == /\ there \in {{"settings"}, Layer}
        /\ text = [y \in Layer |-> [Bare EXCEPT !["token"] = IF y = "settings" THEN 1 ELSE Unset]]
        /\ memory \in Memory /\ found = {} /\ app = Down /\ verdict = Nil
        /\ edits = 0 /\ boots = 0 /\ before = Down

-----------------------------------------------------------------------------
(* Dynaconf over the resolved files: what the last of them says, or nothing. *)
Says(files, k) == LET dev == IF "dev" \in files \cap there THEN text["dev"][k] ELSE Unset
                      base == IF "settings" \in files \cap there THEN text["settings"][k] ELSE Unset
                  IN IF dev # Unset THEN dev ELSE base
Fields(files) == [f \in Field |-> IF Says(files, f) = Unset THEN Default[f] ELSE Says(files, f)]
(* Validated, and no deprecated name stands in for the port: it is looked    *)
(* for among the fields, where it is not, and the error stops the start.     *)
Aliased(files) == Says(files, "port") = Unset /\ Says(files, "legacy") # Unset
Typed(files) == Fields(files)["token"] # Unset /\ Fields(files)["other"] # 0
Valid(files) == Typed(files) /\ ~Aliased(files)
Agent(fields) == fields["agent"] = 1
Remembers(files) == IF Agent(Fields(files)) THEN memory ELSE "null"
Config(files) == [up |-> TRUE, fields |-> Fields(files), memory |-> Remembers(files)]

(* The start of the bot: a configuration that cannot be read stops it.       *)
(* Mutant: the memory's file may hold none.                                  *)
Readable_Null(files) == Valid(files)
Loads(files) == Agent(Fields(files)) => memory # "null"
Readable(files) == Valid(files) /\ Loads(files)
Boot == /\ ~app.up /\ boots < MaxBoots /\ boots' = boots + 1 /\ found' = there
        /\ app' = IF Readable(there) THEN Config(there) ELSE Down
        /\ verdict' = Nil /\ UNCHANGED <<there, text, memory, edits, before>>
Stop == /\ app.up /\ app' = Down /\ verdict' = Nil /\ UNCHANGED <<there, text, memory, found, edits, boots, before>>

(* reload_config: checks come first, then every field is set in place.       *)
(* Mutants: the port needs no restart; fields are set before the memory's    *)
(* file is read.                                                             *)
Keeps_Token(new) == new["token"] = app.fields["token"]
Keeps(new) == \A f \in Critical : new[f] = app.fields[f]
Refused_Late(files) == [app EXCEPT !.fields = IF Valid(files) THEN Fields(files) ELSE @]
Refused(files) == app
Accepted(files) == Readable(files) /\ Keeps(Fields(files))
Differ(new) == {f \in Field : new.fields[f] # app.fields[f]}
                 \cup (IF new.memory # app.memory THEN {"memory"} ELSE {})
Reload == /\ app.up /\ before' = app
          /\ IF Accepted(found)
             THEN /\ app' = Config(found)
                  /\ verdict' = [ok |-> TRUE, changed |-> Differ(Config(found)), at |-> "now"]
             ELSE /\ app' = Refused(found) /\ verdict' = [Nil EXCEPT !.at = "now"]
          /\ UNCHANGED <<there, text, memory, found, edits, boots>>

(* The operator edits a file, or makes or removes the second one.            *)
Hand == edits < MaxEdits /\ edits' = edits + 1 /\ UNCHANGED <<found, app, boots, before>>
        /\ verdict' = [verdict EXCEPT !.at = "then"]
Edit(y, k, v) == Hand /\ text' = [text EXCEPT ![y][k] = v] /\ UNCHANGED <<there, memory>>
Rewrite(m) == Hand /\ memory' = m /\ UNCHANGED <<there, text>>
Appear == /\ Hand /\ there' = IF "dev" \in there THEN there \ {"dev"} ELSE Layer
          /\ UNCHANGED <<text, memory>>

Next == \/ Boot \/ Stop \/ Reload \/ Appear
        \/ \E y \in Layer, k \in Key : \E v \in Value[k] \cup {Unset} : Edit(y, k, v)
        \/ \E m \in Memory : Rewrite(m)
Spec == Init /\ [][Next]_vars

-----------------------------------------------------------------------------
(* What only a start can change stays what it was at the start, and a        *)
(* running bot has a configuration that is valid.                            *)
TypeOK == app.up => app.fields["other"] # 0 /\ (Agent(app.fields) => app.memory # "null")
CriticalKept == app.up /\ app'.up => \A f \in Critical : app'.fields[f] = app.fields[f]
RestartOnly == [][CriticalKept]_vars

(* A reload that succeeded leaves what a restart would have made of the same *)
(* files; one that failed leaves everything; and the fields reported are     *)
(* those that changed.                                                       *)
AsIfRestarted == app.up /\ verdict.at = "now" =>
    IF verdict.ok THEN /\ (found \cap there = there => app = Config(there))
                       /\ verdict.changed = {f \in Field : app.fields[f] # before.fields[f]}
                                          \cup (IF app.memory # before.memory THEN {"memory"} ELSE {})
    ELSE app = before

(* "They keep working": a start with the deprecated name of the port serves  *)
(* that port (server.py:162).  The code fails to start.                      *)
ServesOld == boots' # boots /\ Aliased(there) /\ Typed(there) /\ Loads(there) =>
                app'.up /\ app'.fields["port"] = Says(there, "legacy")
OldNameWorks == [][ServesOld]_vars
=============================================================================
