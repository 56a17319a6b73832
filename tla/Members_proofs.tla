--------------------------- MODULE Members_proofs ---------------------------
(***************************************************************************)
(* Proofs about Members, for any users, kinds of events and bounds.        *)
(***************************************************************************)
EXTENDS Members, FiniteSetTheorems, TLAPS

-----------------------------------------------------------------------------
(* The inductive invariant. *)

\* A handler works for users; it corrects the name of one, appoints in the name
\* of one, and an owner who claims his rights has them from nobody.
Hand == [op : Ops, who : SUBSET User, by : User \cup {None}]
HandOK(h) ==
    /\ h \in Hand /\ (h.op = "set" => h.by \in User) /\ (h.op = "claim" => h.by = None)
    /\ h.op = "name" => \E u \in User : h.who = {u}
HandsInv == IsFiniteSet(hands) /\ Cardinality(hands) <= MaxHands /\ \A h \in hands : HandOK(h)

\* A name, once there, stays.
NamesInv ==
    /\ called \in [User -> 0..MaxRenames] /\ inside \subseteq User
    /\ name \in [User -> Name] /\ snap \in [User -> Name \cup {None}]
RowsInv ==
    /\ rows \in [User -> Row \cup {None}]
    /\ \A u \in User : rows[u] # None /\ rows[u].by # None => rows[u].admin
FlagsInv ==
    /\ day \in Days /\ (barred => chat)
    /\ bot \in BOOLEAN /\ chat \in BOOLEAN /\ barred \in BOOLEAN
    /\ deleted \in BOOLEAN /\ clash \in BOOLEAN /\ undone \in BOOLEAN /\ stuck \in BOOLEAN
    /\ known \subseteq User /\ blocked \subseteq User /\ global \subseteq User
Typed == HandsInv /\ NamesInv /\ RowsInv /\ FlagsInv

\* While a name is corrected there is no snapshot of it.
SnapInv == ~clash =>
    /\ \A u \in User : snap[u] # None => snap[u] = name[u]
    /\ \A h \in hands : h.op = "name" => \A u \in h.who : snap[u] = None

\* Those who have rights, and whom a user has his rights from, or would have
\* once a handler is done.
IsAdmin(u) == rows[u] # None /\ rows[u].admin
Under(u, S) ==
    \/ rows[u] # None /\ rows[u].by \in S
    \/ \E h \in hands : h.op = "set" /\ u \in h.who /\ h.by \in S

\* The chain of delegation has no cycle, appointments under way included, and
\* leads to admins only.
DelegInv == ~undone =>
    /\ \A S \in (SUBSET User) \ {{}} : \E u \in S : ~Under(u, S)
    /\ \A u \in User : rows[u] # None /\ rows[u].by # None => IsAdmin(rows[u].by)
    /\ \A h \in hands : h.op = "set" => IsAdmin(h.by)

Inv == Typed /\ SnapInv /\ KnownUntilDeleted /\ DelegInv /\ BarredIsLeft

\* A new row gives no rights, from nobody.
LEMMA FreshOK ==
  ASSUME Parameters
  PROVE  /\ Fresh \in Row /\ Fresh # None /\ ~Fresh.admin /\ Fresh.by = None
         /\ None \notin Name /\ None \notin User /\ None \notin Row
<1>1. Fresh \in Row /\ ~Fresh.admin /\ Fresh.by = None
  BY DEF Fresh, Row
<1>2. None \notin User /\ None \notin Name /\ None \notin Row
  BY DEF Parameters
<1> QED BY <1>1, <1>2

\* It holds at first.
THEOREM InitInv == ASSUME Parameters PROVE Init => Inv
<1> SUFFICES ASSUME Init PROVE Inv
  OBVIOUS
<1>0. Fresh \in Row /\ Fresh # None /\ Fresh.by = None /\ None \notin Name /\ None \notin User
  BY FreshOK
<1>1. HandsInv
  BY FS_EmptySet DEF Init, HandsInv, Parameters
<1>2. NamesInv
  <2>1. 0 \in 0..MaxRenames /\ 0 \in Name
    BY DEF Parameters, Name
  <2> QED BY <2>1 DEF Init, NamesInv
<1>5. RowsInv /\ FlagsInv
  BY <1>0 DEF Init, RowsInv, FlagsInv
<1>3. SnapInv /\ KnownUntilDeleted /\ BarredIsLeft
  BY DEF Init, SnapInv, KnownUntilDeleted, KnownAreRows, BarredIsLeft
<1>4. DelegInv
  <2>1. \A u \in User : rows[u] = Fresh
    BY DEF Init
  <2>2. hands = {}
    BY DEF Init
  <2>3. ASSUME NEW S \in (SUBSET User) \ {{}}, NEW u \in S
        PROVE  ~Under(u, S)
    BY <1>0, <2>1, <2>2, <2>3 DEF Under
  <2>4. \A S \in (SUBSET User) \ {{}} : \E u \in S : ~Under(u, S)
    BY <2>3
  <2> QED BY <1>0, <2>1, <2>2, <2>4 DEF DelegInv
<1> QED BY <1>1, <1>2, <1>3, <1>4, <1>5 DEF Inv, Typed

-----------------------------------------------------------------------------
(* Handlers *)

\* A handler begins.
LEMMA StartsOK ==
  ASSUME Parameters, HandsInv, NEW h, HandOK(h), Starts(h)
  PROVE  HandsInv'
<1>1. IsFiniteSet(hands) /\ Cardinality(hands) \in Nat /\ Cardinality(hands) < MaxHands
      /\ hands' = hands \cup {h}
  BY FS_CardinalityType DEF HandsInv, Starts
<1>2. IsFiniteSet(hands') /\ Cardinality(hands') <= MaxHands
  <2>1. /\ IsFiniteSet(hands \cup {h})
        /\ Cardinality(hands \cup {h}) = IF h \in hands THEN Cardinality(hands)
                                                       ELSE Cardinality(hands) + 1
    BY <1>1, FS_AddElement
  <2> QED BY <1>1, <2>1 DEF Parameters
<1> QED BY <1>1, <1>2 DEF HandsInv, HandOK

\* A handler goes on as another one, or ends.
LEMMA GoesOK ==
  ASSUME Parameters, HandsInv, NEW h, NEW next, Goes(h, next),
         next = {} \/ \E i : next = {i} /\ HandOK(i)
  PROVE  HandsInv' /\ h \in hands /\ HandOK(h) /\ hands' = (hands \ {h}) \cup next
<1>0. h \in hands /\ HandOK(h) /\ hands' = (hands \ {h}) \cup next
  BY DEF Goes, HandsInv
<1>1. IsFiniteSet(hands) /\ Cardinality(hands) \in Nat /\ Cardinality(hands) <= MaxHands
  BY FS_CardinalityType DEF HandsInv
<1> DEFINE rest == hands \ {h}
<1>2. IsFiniteSet(rest) /\ Cardinality(rest) \in Nat /\ Cardinality(rest) = Cardinality(hands) - 1
  <2>1. IsFiniteSet(rest) /\ Cardinality(rest) = Cardinality(hands) - 1
    BY <1>0, <1>1, FS_RemoveElement
  <2> QED BY <2>1, FS_CardinalityType
<1>3. hands' = rest \cup next
  BY <1>0
<1>4. \A i \in hands' : HandOK(i)
  BY <1>0 DEF HandsInv
<1> HIDE DEF rest
<1>5. IsFiniteSet(hands') /\ Cardinality(hands') <= MaxHands
  <2>1. CASE next = {}
    <3>1. hands' = rest
      BY <1>3, <2>1
    <3> QED BY <1>1, <1>2, <3>1 DEF Parameters
  <2>2. ASSUME NEW i, next = {i}
        PROVE  IsFiniteSet(hands') /\ Cardinality(hands') <= MaxHands
    <3>1. /\ IsFiniteSet(rest \cup {i})
          /\ Cardinality(rest \cup {i}) = IF i \in rest THEN Cardinality(rest)
                                                       ELSE Cardinality(rest) + 1
      BY <1>2, FS_AddElement
    <3> QED BY <1>1, <1>2, <1>3, <2>2, <3>1 DEF Parameters
  <2> QED BY <2>1, <2>2
<1> QED BY <1>0, <1>4, <1>5 DEF HandsInv, HandOK

\* What a handler that begins is.
LEMMA MadeOK ==
  ASSUME NEW op \in Ops, NEW who \in SUBSET User, NEW by \in User \cup {None},
         op = "set" => by \in User, op = "claim" => by = None,
         op = "name" => \E u \in User : who = {u}
  PROVE  HandOK(H(op, who, by)) /\ H(op, who, by).op = op /\ H(op, who, by).who = who
         /\ H(op, who, by).by = by
BY DEF HandOK, Hand, H

-----------------------------------------------------------------------------
(* Types *)

\* The handlers after a step.
LEMMA HandsStep == ASSUME Parameters, Typed, Next PROVE HandsInv'
<1> USE DEF Typed
<1>1. ASSUME NEW h, \/ UpsertChat(h) \/ AddAssociation(h) \/ Left(h) \/ NameCommit(h)
                    \/ DeleteChat(h) \/ LeaveBarred(h) \/ SetAssociation(h) \/ OwnerClaims(h)
      PROVE  HandsInv'
  <2>1. CASE UpsertChat(h)
    <3>1. Goes(h, {H("row", h.who, None)}) /\ h \in hands
      BY <2>1 DEF UpsertChat, Goes
    <3>2. HandOK(H("row", h.who, None))
      <4>1. h.who \in SUBSET User /\ "row" \in Ops
        BY <3>1 DEF HandsInv, HandOK, Hand, Ops
      <4> QED BY <4>1, MadeOK
    <3> QED BY <3>1, <3>2, GoesOK
  <2>2. CASE ~UpsertChat(h)
    <3>1. Goes(h, {})
      BY <1>1, <2>2 DEF AddAssociation, Left, NameCommit, DeleteChat, LeaveBarred,
                        SetAssociation, OwnerClaims
    <3> QED BY <3>1, GoesOK
  <2> QED BY <2>1, <2>2
<1>2. ASSUME NEW h, SyncRows(h)
      PROVE  HandsInv'
  <2>1. Goes(h, {H("drop", {u \in User \ h.who : rows[u] # None}, None)})
    BY <1>2 DEF SyncRows
  <2>2. HandOK(H("drop", {u \in User \ h.who : rows[u] # None}, None))
    <3>1. {u \in User \ h.who : rows[u] # None} \in SUBSET User /\ "drop" \in Ops
      BY DEF Ops
    <3> QED BY <3>1, MadeOK
  <2> QED BY <2>1, <2>2, GoesOK
<1>3. ASSUME NEW h, SyncRemove(h)
      PROVE  HandsInv'
  <2>1. CASE Goes(h, {})
    BY <2>1, GoesOK
  <2>2. ASSUME NEW u \in h.who, Goes(h, {[h EXCEPT !.who = @ \ {u}]})
        PROVE  HandsInv'
    <3>1. h \in Hand /\ h.op = "drop"
      BY <1>3, <2>2 DEF HandsInv, HandOK, Goes, SyncRemove
    <3>2. HandOK([h EXCEPT !.who = @ \ {u}])
      BY <3>1 DEF HandOK, Hand
    <3> QED BY <2>2, <3>2, GoesOK
  <2> QED BY <1>3, <2>1, <2>2 DEF SyncRemove
<1>4. ASSUME NEW u \in User, Rename(u) \/ Join(u) \/ SetBlocked(u) \/ SetGlobal(u)
      PROVE  HandsInv'
  <2>1. UNCHANGED hands
    BY <1>4 DEF Rename, Join, SetBlocked, SetGlobal
  <2> QED BY <2>1 DEF HandsInv, HandOK
<1>5. ASSUME NEW u \in User, Leave(u) \/ Writes(u) \/ CorrectName(u)
      PROVE  HandsInv'
  <2>1. CASE UNCHANGED hands
    BY <2>1 DEF HandsInv, HandOK
  <2>2. ASSUME NEW op \in {"left", "chat", "name"}, Starts(H(op, {u}, None))
        PROVE  HandsInv'
    <3>1. /\ op \in Ops /\ op # "set" /\ op # "claim" /\ {u} \in SUBSET User
          /\ \E v \in User : {u} = {v}
      BY DEF Ops
    <3>2. HandOK(H(op, {u}, None))
      BY <3>1, MadeOK
    <3> QED BY <2>2, <3>2, StartsOK
  <2> QED BY <1>5, <2>1, <2>2 DEF Leave, Writes, CorrectName
<1>6. ASSUME NEW u \in User, NEW t \in User, NEW promote \in BOOLEAN, Appoint(u, t, promote)
      PROVE  HandsInv'
  <2>1. Starts(H(IF promote THEN "set" ELSE "unset", {t}, u))
    BY <1>6 DEF Appoint
  <2>2. HandOK(H(IF promote THEN "set" ELSE "unset", {t}, u))
    <3>1. "set" \in Ops /\ "unset" \in Ops /\ {t} \in SUBSET User
      BY DEF Ops
    <3> QED BY <3>1, MadeOK
  <2> QED BY <2>1, <2>2, StartsOK
<1>7. CASE SyncBegin \/ PanelLeave \/ BlockChat \/ BotAdded
  <2>1. ASSUME NEW op \in {"sync", "delete", "bar", "added"}, NEW who \in SUBSET User,
               Starts(H(op, who, None))
        PROVE  HandsInv'
    <3>1. op \in Ops /\ op # "set" /\ op # "claim" /\ op # "name"
      BY DEF Ops
    <3>2. HandOK(H(op, who, None))
      BY <3>1, MadeOK
    <3> QED BY <2>1, <3>2, StartsOK
  <2>2. inside \in SUBSET User /\ {} \in SUBSET User
    BY DEF NamesInv
  <2> QED BY <1>7, <2>1, <2>2 DEF SyncBegin, PanelLeave, BlockChat, BotAdded
<1>8. CASE UnblockChat
  BY <1>8 DEF UnblockChat, HandsInv, HandOK
<1>9. CASE OwnerActs
  <2>1. Starts(H("claim", {Owner}, rows[Owner].by)) /\ rows[Owner] # None /\ ~rows[Owner].admin
    BY <1>9 DEF OwnerActs
  <2>2. rows[Owner].by = None /\ {Owner} \in SUBSET User /\ "claim" \in Ops
    BY <2>1 DEF RowsInv, Parameters, Ops
  <2>3. HandOK(H("claim", {Owner}, rows[Owner].by))
    BY <2>2, MadeOK
  <2> QED BY <2>1, <2>3, StartsOK
<1> QED BY <1>1, <1>2, <1>3, <1>4, <1>5, <1>6, <1>7, <1>8, <1>9 DEF Next, Handles

\* What Telegram and the bot call a user after a step.
LEMMA NamesStep == ASSUME Parameters, Typed, Next PROVE NamesInv'
<1> USE DEF Typed
<1>0. 0..MaxRenames \subseteq Name /\ -1 \in Name
  BY DEF Name, Parameters
<1>1. CASE UNCHANGED <<called, inside, name, snap>>
  BY <1>1 DEF NamesInv
<1>2. ASSUME NEW u \in User, Rename(u) \/ Leave(u) \/ Join(u)
      PROVE  NamesInv'
  <2>1. /\ called' = called \/ (called' = [called EXCEPT ![u] = @ + 1] /\ called[u] < MaxRenames)
        /\ inside' \subseteq User /\ UNCHANGED <<name, snap>>
    BY <1>2 DEF Rename, Leave, Join, NamesInv
  <2>2. called' \in [User -> 0..MaxRenames]
    BY <2>1 DEF NamesInv, Parameters
  <2> QED BY <2>1, <2>2 DEF NamesInv
<1>3. ASSUME NEW u \in User, Writes(u) \/ CorrectName(u)
      PROVE  NamesInv'
  <2>1. /\ UNCHANGED <<called, inside>>
        /\ name' = name \/ name' = [name EXCEPT ![u] = IF snap[u] = called[u] THEN @ ELSE called[u]]
        /\ snap' = [snap EXCEPT ![u] = called[u]] \/ snap' = [snap EXCEPT ![u] = None]
    BY <1>3 DEF Writes, UpsertUser, CorrectName, Dropped, world
  <2>2. called[u] \in Name
    BY <1>0 DEF NamesInv
  <2> QED BY <2>1, <2>2 DEF NamesInv
<1>4. ASSUME NEW h, NameCommit(h)
      PROVE  NamesInv'
  <2>1. /\ UNCHANGED <<called, inside, snap>>
        /\ name' = [u \in User |-> IF u \in h.who THEN -1 ELSE name[u]]
    BY <1>4 DEF NameCommit, world
  <2> QED BY <1>0, <2>1 DEF NamesInv
<1>5. ASSUME NEW h, \/ UpsertChat(h) \/ AddAssociation(h) \/ Left(h) \/ SyncRows(h) \/ SyncRemove(h)
                    \/ DeleteChat(h) \/ LeaveBarred(h) \/ SetAssociation(h) \/ OwnerClaims(h)
      PROVE  UNCHANGED <<called, inside, name, snap>>
  BY <1>5 DEF UpsertChat, AddAssociation, Left, SyncRows, SyncRemove, DeleteChat, LeaveBarred,
              SetAssociation, OwnerClaims, world
<1>6. ASSUME NEW u \in User, \/ SetBlocked(u) \/ SetGlobal(u)
                             \/ \E t \in User, promote \in BOOLEAN : Appoint(u, t, promote)
      PROVE  UNCHANGED <<called, inside, name, snap>>
  BY <1>6 DEF SetBlocked, SetGlobal, Appoint, world
<1>7. ASSUME SyncBegin \/ PanelLeave \/ BlockChat \/ UnblockChat \/ BotAdded \/ OwnerActs
      PROVE  UNCHANGED <<called, inside, name, snap>>
  BY <1>7 DEF SyncBegin, PanelLeave, BlockChat, UnblockChat, BotAdded, OwnerActs, world
<1> QED BY <1>1, <1>2, <1>3, <1>4, <1>5, <1>6, <1>7 DEF Next, Handles

\* The few steps that touch a row.
RowSteps(h) ==
    AddAssociation(h) \/ Left(h) \/ SyncRemove(h) \/ DeleteChat(h) \/ SetAssociation(h) \/ OwnerClaims(h)

\* No other step does.
LEMMA RowsStay ==
  ASSUME Next, ~\E h \in hands : RowSteps(h)
  PROVE  UNCHANGED rows
<1>1. ASSUME NEW h \in hands, UpsertChat(h) \/ SyncRows(h) \/ NameCommit(h) \/ LeaveBarred(h)
      PROVE  UNCHANGED rows
  BY <1>1 DEF UpsertChat, SyncRows, NameCommit, LeaveBarred
<1>2. ASSUME NEW u \in User, \/ Rename(u) \/ Leave(u) \/ Join(u) \/ Writes(u) \/ CorrectName(u)
                             \/ SetBlocked(u) \/ SetGlobal(u)
                             \/ \E t \in User, promote \in BOOLEAN : Appoint(u, t, promote)
      PROVE  UNCHANGED rows
  BY <1>2 DEF Rename, Leave, Join, Writes, CorrectName, SetBlocked, SetGlobal, Appoint
<1>3. ASSUME SyncBegin \/ PanelLeave \/ BlockChat \/ UnblockChat \/ BotAdded \/ OwnerActs
      PROVE  UNCHANGED rows
  BY <1>3 DEF SyncBegin, PanelLeave, BlockChat, UnblockChat, BotAdded, OwnerActs
<1> QED BY <1>1, <1>2, <1>3 DEF Next, Handles, RowSteps

\* Rights come from somebody only together with the rights.
LEMMA RowsStep == ASSUME Parameters, Typed, Next PROVE RowsInv'
<1> USE DEF Typed
<1>0. Fresh \in Row /\ Fresh.by = None
  BY FreshOK
<1>1. CASE ~\E h \in hands : RowSteps(h)
  BY <1>1, RowsStay DEF RowsInv
<1>2. ASSUME NEW h \in hands, AddAssociation(h) \/ DeleteChat(h)
      PROVE  RowsInv'
  <2>1. \/ rows' = [u \in User |-> IF u \in h.who \ known /\ rows[u] = None THEN Fresh ELSE rows[u]]
        \/ rows' = [u \in User |-> None]
    BY <1>2 DEF AddAssociation, DeleteChat
  <2> QED BY <1>0, <2>1 DEF RowsInv
<1>3. ASSUME NEW h \in hands, Left(h) \/ SyncRemove(h)
      PROVE  RowsInv'
  <2>1. rows' = rows \/ \E u \in h.who : rows' = [rows EXCEPT ![u] = None]
    BY <1>3 DEF Left, SyncRemove, Remove
  <2> QED BY <2>1 DEF RowsInv
<1>4. ASSUME NEW h \in hands, SetAssociation(h)
      PROVE  RowsInv'
  <2>1. rows' = [u \in User |->
                  IF u \notin h.who \/ rows[u] = None THEN rows[u]
                  ELSE IF h.op = "set" THEN [admin |-> TRUE, by |-> h.by] ELSE Fresh]
    BY <1>4 DEF SetAssociation, Demoted
  <2>2. [admin |-> TRUE, by |-> h.by] \in Row
    BY DEF HandsInv, HandOK, Hand, Row
  <2>3. \A u \in User : rows[u] \in Row \cup {None} /\ (rows[u] # None /\ rows[u].by # None => rows[u].admin)
    BY DEF RowsInv
  <2>4. rows' \in [User -> Row \cup {None}]
    BY <1>0, <2>1, <2>2, <2>3
  <2>5. ASSUME NEW u \in User, rows'[u] # None, rows'[u].by # None
        PROVE  rows'[u].admin
    BY <1>0, <2>1, <2>3, <2>5
  <2> QED BY <2>4, <2>5 DEF RowsInv
<1>5. ASSUME NEW h \in hands, OwnerClaims(h)
      PROVE  RowsInv'
  <2>1. rows' = rows \/ rows' = [rows EXCEPT ![Owner] = [admin |-> TRUE, by |-> h.by]]
    BY <1>5 DEF OwnerClaims
  <2>2. [admin |-> TRUE, by |-> h.by] \in Row
    BY DEF HandsInv, HandOK, Hand, Row
  <2>3. rows \in [User -> Row \cup {None}] /\ Owner \in User
    BY DEF RowsInv, Parameters
  <2>4. rows' \in [User -> Row \cup {None}]
    BY <2>1, <2>2, <2>3
  <2>5. ASSUME NEW u \in User, rows'[u] # None, rows'[u].by # None
        PROVE  rows'[u].admin
    <3>1. rows'[u] = rows[u] \/ rows'[u] = [admin |-> TRUE, by |-> h.by]
      BY <2>1, <2>3
    <3> QED BY <2>5, <3>1 DEF RowsInv
  <2> QED BY <2>4, <2>5 DEF RowsInv
<1> QED BY <1>1, <1>2, <1>3, <1>4, <1>5 DEF RowSteps

\* The flags and the caches.
LEMMA FlagsStep == ASSUME Parameters, Typed, Next PROVE FlagsInv'
<1>0. /\ FlagsInv /\ bot \in BOOLEAN /\ chat \in BOOLEAN /\ barred \in BOOLEAN
      /\ undone \in BOOLEAN /\ stuck \in BOOLEAN /\ clash \in BOOLEAN /\ (barred => chat)
  BY DEF Typed, FlagsInv
<1>1. ASSUME UNCHANGED <<day, bot, barred, blocked, global, clash, undone, stuck, deleted>>,
             (chat' = chat \/ chat' = TRUE), known' \subseteq User
      PROVE  FlagsInv'
  <2>1. chat' \in BOOLEAN /\ (barred => chat')
    <3>1. CASE chat' = chat
      BY <1>0, <3>1
    <3>2. CASE chat' = TRUE
      BY <3>2
    <3> QED BY <1>1, <3>1, <3>2
  <2> QED BY <1>0, <1>1, <2>1 DEF FlagsInv
<1>2. ASSUME UNCHANGED <<day, known, blocked, global, clash, deleted>>, bot' \in BOOLEAN,
             UNCHANGED chat, barred' \in BOOLEAN, barred' => chat, undone' \in BOOLEAN, stuck' \in BOOLEAN
      PROVE  FlagsInv'
  BY <1>0, <1>2 DEF FlagsInv
<1>3. ASSUME NEW h \in hands, UpsertChat(h) \/ AddAssociation(h) \/ NameCommit(h) \/ SyncRows(h) \/ OwnerClaims(h)
      PROVE  FlagsInv'
  <2>1. known \cup h.who \subseteq User
    BY DEF Typed, FlagsInv, HandsInv, HandOK, Hand
  <2>2. /\ UNCHANGED <<day, bot, barred, blocked, global, clash, undone, stuck, deleted>>
        /\ (chat' = chat \/ chat' = TRUE) /\ known' \in {known, known \cup h.who}
    BY <1>3 DEF UpsertChat, AddAssociation, NameCommit, SyncRows, OwnerClaims, world
  <2> QED BY <1>1, <2>1, <2>2
<1>4. ASSUME NEW h \in hands, Left(h) \/ SyncRemove(h)
      PROVE  FlagsInv'
  <2>1. /\ UNCHANGED <<day, bot, barred, blocked, global, deleted, clash, stuck>>
        /\ (chat' = chat \/ chat' = TRUE)
        /\ UNCHANGED <<known, undone>> \/ \E u : Remove(u)
    BY <1>4 DEF Left, SyncRemove, world
  <2>2. known' \subseteq known
    BY <2>1 DEF Remove, Forget
  <2>3. undone' \in BOOLEAN
    BY <1>0, <2>1 DEF Remove
  <2>4. known' \subseteq User
    BY <1>0, <2>2 DEF FlagsInv
  <2>5. chat' \in BOOLEAN /\ (barred => chat')
    <3>1. CASE chat' = chat
      BY <1>0, <3>1
    <3>2. CASE chat' = TRUE
      BY <3>2
    <3> QED BY <2>1, <3>1, <3>2
  <2> QED BY <1>0, <2>1, <2>3, <2>4, <2>5 DEF FlagsInv
<1>5. ASSUME NEW h \in hands, DeleteChat(h)
      PROVE  FlagsInv'
  <2>1. /\ UNCHANGED <<day, bot, known, blocked, global, clash, stuck>>
        /\ chat' = FALSE /\ barred' = FALSE /\ deleted' = TRUE /\ undone' = TRUE
    BY <1>5 DEF DeleteChat, world
  <2> QED BY <1>0, <2>1 DEF FlagsInv
<1>6. ASSUME NEW h \in hands, LeaveBarred(h)
      PROVE  FlagsInv'
  <2>1. /\ UNCHANGED <<day, chat, barred, known, blocked, global, deleted, clash, undone>>
        /\ (bot' = FALSE \/ bot' = bot) /\ (stuck' = stuck \/ stuck' = (stuck \/ bot'))
    BY <1>6 DEF LeaveBarred, world
  <2>2. bot' \in BOOLEAN
    BY <1>0, <2>1
  <2>3. stuck' \in BOOLEAN
    BY <1>0, <2>1
  <2> QED BY <1>0, <1>2, <2>1, <2>2, <2>3
<1>7. ASSUME NEW h \in hands, SetAssociation(h)
      PROVE  FlagsInv'
  <2>1. /\ UNCHANGED <<day, bot, chat, barred, known, blocked, global, deleted, clash, stuck>>
        /\ undone' = (undone \/ h.op = "unset")
    BY <1>7 DEF SetAssociation, world
  <2> QED BY <1>0, <1>2, <2>1
<1>8. ASSUME NEW u \in User, Rename(u) \/ Leave(u) \/ Join(u) \/ CorrectName(u)
      PROVE  FlagsInv'
  BY <1>0, <1>2, <1>8 DEF Rename, Leave, Join, CorrectName, world
<1>9. ASSUME NEW u \in User, SetBlocked(u) \/ SetGlobal(u)
      PROVE  FlagsInv'
  <2>1. /\ UNCHANGED <<day, bot, chat, barred, known, deleted, clash, undone, stuck>>
        /\ blocked' \in {blocked, blocked \cup {u}, blocked \ {u}}
        /\ global' \in {global, global \cup {u}, global \ {u}}
    BY <1>9 DEF SetBlocked, SetGlobal, world
  <2>2. blocked' \subseteq User /\ global' \subseteq User
    BY <1>0, <2>1 DEF FlagsInv
  <2> QED BY <1>0, <2>1, <2>2 DEF FlagsInv
<1>10. ASSUME NEW u \in User, Writes(u)
       PROVE  FlagsInv'
  <2>1. /\ UNCHANGED <<day, bot, chat, barred, known, blocked, global, deleted, undone, stuck>>
        /\ clash' = (clash \/ \E h \in hands : h.op = "name" /\ h.who = {u})
    BY <1>10 DEF Writes, UpsertUser, world
  <2>2. clash' \in BOOLEAN
    BY <2>1
  <2> QED BY <1>0, <2>1, <2>2 DEF FlagsInv
<1>11. ASSUME NEW u \in User, NEW t \in User, NEW promote \in BOOLEAN, Appoint(u, t, promote)
       PROVE  FlagsInv'
  <2>1. /\ UNCHANGED <<day, bot, chat, barred, known, blocked, global, deleted, clash, stuck>>
        /\ undone' = (undone \/ u \in global)
    BY <1>11 DEF Appoint, world
  <2> QED BY <1>0, <1>2, <2>1
<1>12. CASE SyncBegin \/ BlockChat \/ UnblockChat \/ BotAdded \/ OwnerActs
  <2>1. /\ UNCHANGED <<day, chat, known, blocked, global, deleted, clash, undone, stuck>>
        /\ bot' = bot \/ bot' = TRUE
        /\ barred' = barred \/ barred' = FALSE \/ (barred' = TRUE /\ chat)
    BY <1>12 DEF SyncBegin, BlockChat, BarSet, UnblockChat, BotAdded, OwnerActs, world
  <2>2. bot' \in BOOLEAN
    BY <1>0, <2>1
  <2>3. barred' \in BOOLEAN /\ (barred' => chat)
    <3>1. CASE barred' = barred
      BY <1>0, <3>1
    <3>2. CASE barred' = FALSE
      BY <3>2
    <3>3. CASE barred' = TRUE /\ chat
      BY <3>3
    <3> QED BY <2>1, <3>1, <3>2, <3>3
  <2> QED BY <1>0, <1>2, <2>1, <2>2, <2>3
<1>13. CASE PanelLeave
  <2>1. /\ UNCHANGED <<day, chat, barred, known, blocked, global, deleted, clash, undone>>
        /\ (bot' = FALSE \/ bot' = bot) /\ stuck' = (stuck \/ bot')
    BY <1>13 DEF PanelLeave, world
  <2>2. bot' \in BOOLEAN
    BY <1>0, <2>1
  <2>3. stuck' \in BOOLEAN
    BY <2>1
  <2> QED BY <1>0, <1>2, <2>1, <2>2, <2>3
<1> QED BY <1>3, <1>4, <1>5, <1>6, <1>7, <1>8, <1>9, <1>10, <1>11, <1>12, <1>13 DEF Next, Handles

\* Types are kept.
LEMMA TypedStep == ASSUME Parameters, Typed, Next PROVE Typed'
BY HandsStep, NamesStep, RowsStep, FlagsStep DEF Typed

-----------------------------------------------------------------------------
(* Snapshots *)

\* Names in the panel are corrected while there is no snapshot; a message in
\* between is the clash.
LEMMA SnapStep == ASSUME Parameters, Typed, SnapInv, Next PROVE SnapInv'
<1>0. /\ name \in [User -> Name] /\ snap \in [User -> Name \cup {None}] /\ called \in [User -> 0..MaxRenames]
      /\ \A h \in hands : HandOK(h)
  BY DEF Typed, NamesInv, HandsInv
<1>1. ASSUME UNCHANGED <<name, snap, clash>>, \A h \in hands' : h \in hands \/ h.op # "name"
      PROVE  SnapInv'
  BY <1>1 DEF SnapInv
<1>8. ASSUME UNCHANGED <<name, snap, clash>>,
             UNCHANGED hands \/ \E op \in Ops \ {"name"} : \E who, by : Starts(H(op, who, by))
      PROVE  SnapInv'
  <2>1. ASSUME NEW op \in Ops \ {"name"}, NEW who, NEW by, Starts(H(op, who, by))
        PROVE  SnapInv'
    <3>1. H(op, who, by).op # "name"
      BY DEF H
    <3> QED BY <1>1, <1>8, <2>1, <3>1 DEF Starts
  <2> QED BY <1>1, <1>8, <2>1
<1>2. ASSUME NEW h \in hands, Handles(h), ~NameCommit(h)
      PROVE  SnapInv'
  <2>1. UNCHANGED <<name, snap, clash>>
    BY <1>2 DEF Handles, UpsertChat, AddAssociation, Left, SyncRows, SyncRemove, DeleteChat,
                LeaveBarred, SetAssociation, OwnerClaims
  <2>2. ASSUME NEW next, Goes(h, next), \A i \in next : i.op # "name"
        PROVE  SnapInv'
    BY <1>1, <2>1, <2>2 DEF Goes
  <2>3. CASE Goes(h, {})
    BY <2>2, <2>3
  <2>4. ASSUME NEW op \in {"row", "drop"}, NEW who, Goes(h, {H(op, who, None)})
        PROVE  SnapInv'
    <3>1. H(op, who, None).op # "name"
      BY DEF H
    <3> QED BY <2>2, <2>4, <3>1
  <2>5. ASSUME NEW u, h.op = "drop", Goes(h, {[h EXCEPT !.who = @ \ {u}]})
        PROVE  SnapInv'
    <3> DEFINE i == [h EXCEPT !.who = @ \ {u}]
    <3>1. i.op = "drop"
      BY <1>0, <2>5 DEF HandOK, Hand
    <3>2. Goes(h, {i})
      BY <2>5
    <3> HIDE DEF i
    <3>3. \A g \in {i} : g.op # "name"
      BY <3>1
    <3> QED BY <2>2, <3>2, <3>3
  <2>6. CASE SyncRemove(h)
    BY <2>3, <2>5, <2>6 DEF SyncRemove
  <2>7. CASE UpsertChat(h) \/ SyncRows(h)
    <3>1. \/ Goes(h, {H("row", h.who, None)})
          \/ Goes(h, {H("drop", {u \in User \ h.who : rows[u] # None}, None)})
      BY <2>7 DEF UpsertChat, SyncRows
    <3> QED BY <2>4, <3>1
  <2> QED BY <1>2, <2>3, <2>6, <2>7 DEF Handles, AddAssociation, Left, DeleteChat, LeaveBarred,
             SetAssociation, OwnerClaims
<1>3. ASSUME NEW h \in hands, NameCommit(h)
      PROVE  SnapInv'
  <2>1. /\ h.op = "name" /\ hands' = hands \ {h} /\ UNCHANGED <<snap, clash>>
        /\ name' = [u \in User |-> IF u \in h.who THEN -1 ELSE name[u]]
    BY <1>3 DEF NameCommit, Goes
  <2> QED BY <2>1 DEF SnapInv
<1>4. ASSUME NEW u \in User, Writes(u)
      PROVE  SnapInv'
  <2>1. /\ name' = [name EXCEPT ![u] = IF snap[u] = called[u] THEN @ ELSE called[u]]
        /\ snap' = [snap EXCEPT ![u] = called[u]]
        /\ clash' = (clash \/ \E h \in hands : h.op = "name" /\ h.who = {u})
        /\ hands' = hands \/ hands' = hands \cup {H("chat", {u}, None)}
    BY <1>4 DEF Writes, UpsertUser, Starts
  <2> SUFFICES ASSUME ~clash'
               PROVE  /\ \A v \in User : snap'[v] # None => snap'[v] = name'[v]
                      /\ \A h \in hands' : h.op = "name" => \A v \in h.who : snap'[v] = None
    BY DEF SnapInv
  <2>2. /\ \A v \in User : snap[v] # None => snap[v] = name[v]
        /\ \A h \in hands : h.op = "name" => \A v \in h.who : snap[v] = None
        /\ \A h \in hands : h.op = "name" => h.who # {u}
    BY <2>1 DEF SnapInv
  <2>3. called[u] # None
    BY <1>0, FreshOK DEF Name, Parameters
  <2>4. ASSUME NEW v \in User, snap'[v] # None
        PROVE  snap'[v] = name'[v]
    <3>1. CASE v = u
      BY <1>0, <2>1, <2>2, <2>3, <3>1
    <3>2. CASE v # u
      BY <1>0, <2>1, <2>2, <2>4, <3>2
    <3> QED BY <3>1, <3>2
  <2>5. ASSUME NEW h \in hands', h.op = "name"
        PROVE  \A v \in h.who : snap'[v] = None
    <3>1. h \in hands
      BY <2>1, <2>5 DEF H
    <3>2. u \notin h.who
      BY <1>0, <2>2, <2>5, <3>1 DEF HandOK
    <3> QED BY <1>0, <2>1, <2>2, <2>5, <3>1, <3>2 DEF HandOK, Hand
  <2> QED BY <2>4, <2>5
<1>5. ASSUME NEW u \in User, CorrectName(u)
      PROVE  SnapInv'
  <2>1. /\ snap' = [snap EXCEPT ![u] = None] /\ UNCHANGED <<name, clash>>
        /\ hands' = hands \cup {H("name", {u}, None)}
    BY <1>5 DEF CorrectName, Dropped, Starts
  <2>2. \A h \in hands' : h \in hands \/ h.who = {u}
    BY <2>1 DEF H
  <2>3. \A h \in hands : h.who \subseteq User
    BY <1>0 DEF HandOK, Hand
  <2> QED BY <1>0, <2>1, <2>2, <2>3 DEF SnapInv
<1>6. ASSUME NEW u \in User, \/ Rename(u) \/ Leave(u) \/ Join(u) \/ SetBlocked(u) \/ SetGlobal(u)
                             \/ \E t \in User, promote \in BOOLEAN : Appoint(u, t, promote)
      PROVE  SnapInv'
  <2>1. UNCHANGED <<name, snap, clash>>
    BY <1>6 DEF Rename, Leave, Join, SetBlocked, SetGlobal, Appoint
  <2>2. {"left", "set", "unset"} \subseteq Ops \ {"name"}
    BY DEF Ops
  <2>3. UNCHANGED hands \/ \E op \in Ops \ {"name"} : \E who, by : Starts(H(op, who, by))
    BY <1>6, <2>2 DEF Rename, Leave, Join, SetBlocked, SetGlobal, Appoint
  <2> QED BY <1>8, <2>1, <2>3
<1>7. CASE SyncBegin \/ PanelLeave \/ BlockChat \/ UnblockChat \/ BotAdded \/ OwnerActs
  <2>1. UNCHANGED <<name, snap, clash>>
    BY <1>7 DEF SyncBegin, PanelLeave, BlockChat, UnblockChat, BotAdded, OwnerActs
  <2>2. {"sync", "delete", "bar", "added", "claim"} \subseteq Ops \ {"name"}
    BY DEF Ops
  <2>3. UNCHANGED hands \/ \E op \in Ops \ {"name"} : \E who, by : Starts(H(op, who, by))
    BY <1>7, <2>2 DEF SyncBegin, PanelLeave, BlockChat, UnblockChat, BotAdded, OwnerActs
  <2> QED BY <1>8, <2>1, <2>3
<1> QED BY <1>2, <1>3, <1>4, <1>5, <1>6, <1>7 DEF Next

-----------------------------------------------------------------------------
(* The cache of members *)

\* Whoever is put into the cache has a row, and is taken out with it.
LEMMA KnownStep == ASSUME Parameters, Typed, KnownUntilDeleted, Next PROVE KnownUntilDeleted'
<1>0. rows \in [User -> Row \cup {None}] /\ known \subseteq User /\ \A h \in hands : h.who \subseteq User
  BY DEF Typed, RowsInv, FlagsInv, HandsInv, HandOK, Hand
<1>1. CASE deleted
  <2>1. deleted' \/ UNCHANGED deleted
    BY DEF Next, Handles, UpsertChat, AddAssociation, Left, SyncRows, SyncRemove, NameCommit,
           DeleteChat, LeaveBarred, SetAssociation, OwnerClaims, Rename, Leave, Join, Writes,
           CorrectName, SetBlocked, SetGlobal, Appoint, SyncBegin, PanelLeave, BlockChat,
           UnblockChat, BotAdded, OwnerActs
  <2> QED BY <1>1, <2>1 DEF KnownUntilDeleted
<1>2. CASE ~deleted
  <2>1. \A u \in known : rows[u] # None
    BY <1>2 DEF KnownUntilDeleted, KnownAreRows
  <2> SUFFICES ASSUME ~deleted', NEW u \in known' PROVE u \in User /\ rows'[u] # None
    BY DEF KnownUntilDeleted, KnownAreRows
  <2>2. ASSUME NEW h \in hands, AddAssociation(h)
        PROVE  u \in User /\ rows'[u] # None
    BY <1>0, <2>1, <2>2, FreshOK DEF AddAssociation
  <2>3. ASSUME NEW v \in User, Remove(v)
        PROVE  u \in User /\ rows'[u] # None
    BY <1>0, <2>1, <2>3 DEF Remove, Forget
  <2>4. ASSUME NEW h \in hands, Left(h) \/ SyncRemove(h)
        PROVE  u \in User /\ rows'[u] # None
    <3>1. UNCHANGED <<rows, known>> \/ \E v \in h.who : Remove(v)
      BY <2>4 DEF Left, SyncRemove
    <3> QED BY <1>0, <2>1, <2>3, <3>1
  <2>5. ASSUME NEW h \in hands, DeleteChat(h)
        PROVE  FALSE
    BY <2>5 DEF DeleteChat
  <2>6. ASSUME NEW h \in hands, SetAssociation(h) \/ OwnerClaims(h)
        PROVE  u \in User /\ rows'[u] # None
    <3>1. u \in known /\ u \in User /\ rows[u] # None
      BY <1>0, <2>1, <2>6 DEF SetAssociation, OwnerClaims
    <3>2. [admin |-> TRUE, by |-> h.by] \in Row
      BY DEF Typed, HandsInv, HandOK, Hand, Row
    <3>3. rows'[u] = rows[u] \/ rows'[u] \in {[admin |-> TRUE, by |-> h.by], Fresh}
      BY <1>0, <2>6, <3>1 DEF SetAssociation, OwnerClaims, Demoted
    <3> QED BY <3>1, <3>2, <3>3, FreshOK
  <2>7. ASSUME ~\E h \in hands : RowSteps(h)
        PROVE  u \in User /\ rows'[u] # None
    <3>1. UNCHANGED rows
      BY <2>7, RowsStay
    <3>2. UNCHANGED known
      BY <2>7 DEF Next, Handles, RowSteps, UpsertChat, SyncRows, NameCommit,
           LeaveBarred, Rename, Leave, Join, Writes,
           CorrectName, SetBlocked, SetGlobal, Appoint, SyncBegin, PanelLeave, BlockChat,
           UnblockChat, BotAdded, OwnerActs
    <3> QED BY <1>0, <2>1, <3>1, <3>2
  <2> QED BY <2>2, <2>4, <2>5, <2>6, <2>7 DEF RowSteps
<1> QED BY <1>1, <1>2

-----------------------------------------------------------------------------
(* A barred group *)

\* The mark comes with a handler that leaves, and so does an invitation.
LEMMA BarStep == ASSUME Parameters, Typed, BarredIsLeft, Next PROVE BarredIsLeft'
<1> DEFINE Leaver(h) == h.op \in {"bar", "added"}
<1>0. barred => chat
  BY DEF Typed, FlagsInv
<1>1. ASSUME NEW h \in hands, Handles(h), ~LeaveBarred(h), ~DeleteChat(h)
      PROVE  BarredIsLeft'
  <2>1. UNCHANGED <<barred, bot, stuck>>
    BY <1>1 DEF Handles, UpsertChat, AddAssociation, Left, SyncRows, SyncRemove, NameCommit,
                SetAssociation, OwnerClaims
  <2>2. ~Leaver(h) /\ \E next : hands' = (hands \ {h}) \cup next
    BY <1>1 DEF Handles, UpsertChat, AddAssociation, Left, SyncRows, SyncRemove, NameCommit,
                SetAssociation, OwnerClaims, Goes
  <2> QED BY <2>1, <2>2 DEF BarredIsLeft
<1>2. ASSUME NEW h \in hands, DeleteChat(h)
      PROVE  BarredIsLeft'
  BY <1>2 DEF DeleteChat, BarredIsLeft
<1>3. ASSUME NEW h \in hands, LeaveBarred(h)
      PROVE  BarredIsLeft'
  <2>1. CASE LeavesAgain(h)
    <3>1. stuck' = (stuck \/ bot')
      BY <1>3, <2>1 DEF LeaveBarred
    <3> QED BY <3>1 DEF BarredIsLeft
  <2>2. CASE ~LeavesAgain(h)
    <3>1. ~barred /\ barred' = barred
      BY <1>0, <1>3, <2>2 DEF LeaveBarred, LeavesAgain
    <3> QED BY <3>1 DEF BarredIsLeft
  <2> QED BY <2>1, <2>2
<1>4. ASSUME NEW u \in User, \/ Rename(u) \/ Leave(u) \/ Join(u) \/ Writes(u) \/ CorrectName(u)
                             \/ SetBlocked(u) \/ SetGlobal(u)
                             \/ \E t \in User, promote \in BOOLEAN : Appoint(u, t, promote)
      PROVE  BarredIsLeft'
  <2>1. UNCHANGED <<barred, bot, stuck>> /\ hands \subseteq hands'
    BY <1>4 DEF Rename, Leave, Join, Writes, CorrectName, SetBlocked, SetGlobal, Appoint, Starts
  <2> QED BY <2>1 DEF BarredIsLeft
<1>5. CASE SyncBegin \/ OwnerActs
  <2>1. UNCHANGED <<barred, bot, stuck>> /\ hands \subseteq hands'
    BY <1>5 DEF SyncBegin, OwnerActs, Starts
  <2> QED BY <2>1 DEF BarredIsLeft
<1>6. CASE UnblockChat
  BY <1>6 DEF UnblockChat, BarredIsLeft
<1>7. CASE PanelLeave
  <2>1. stuck' = (stuck \/ bot')
    BY <1>7 DEF PanelLeave
  <2> QED BY <2>1 DEF BarredIsLeft
<1>8. CASE BlockChat \/ BotAdded
  <2>1. \E h \in hands' : h.op \in {"bar", "added"}
    <3>1. H("bar", {}, None) \in hands' \/ H("added", {}, None) \in hands'
      BY <1>8 DEF BlockChat, BotAdded, Starts
    <3> QED BY <3>1 DEF H
  <2> QED BY <2>1 DEF BarredIsLeft
<1> QED BY <1>1, <1>2, <1>3, <1>4, <1>5, <1>6, <1>7, <1>8 DEF Next

-----------------------------------------------------------------------------
(* Delegation *)

\* A step that leaves rights where they are and carries out what was decided
\* adds nothing to the chain.
LEMMA DelegStays ==
  ASSUME Parameters, Typed, DelegInv, undone => undone',
         ~undone' =>
           /\ \A u \in User : IsAdmin(u) => IsAdmin(u)'
           /\ \A h \in hands' : h.op = "set" => h \in hands
           /\ \A u \in User : rows'[u] # None /\ rows'[u].by # None =>
                \/ rows[u] # None /\ rows[u].by = rows'[u].by
                \/ \E h \in hands : h.op = "set" /\ u \in h.who /\ h.by = rows'[u].by
  PROVE  DelegInv'
<1> SUFFICES ASSUME ~undone'
             PROVE  /\ \A S \in (SUBSET User) \ {{}} : \E u \in S : ~Under(u, S)'
                    /\ \A u \in User : rows'[u] # None /\ rows'[u].by # None => IsAdmin(rows[u].by)'
                    /\ \A h \in hands' : h.op = "set" => IsAdmin(h.by)'
  BY DEF DelegInv
<1>1. /\ \A S \in (SUBSET User) \ {{}} : \E u \in S : ~Under(u, S)
      /\ \A u \in User : rows[u] # None /\ rows[u].by # None => IsAdmin(rows[u].by)
      /\ \A h \in hands : h.op = "set" => IsAdmin(h.by)
  BY DEF DelegInv
<1>2. None \notin User
  BY DEF Parameters
<1>3. \A h \in hands : h.op = "set" => h.by \in User
  BY DEF Typed, HandsInv, HandOK
<1>4. ASSUME NEW S \in (SUBSET User) \ {{}}, NEW u \in S, Under(u, S)'
      PROVE  Under(u, S)
  <2>1. CASE rows'[u] # None /\ rows'[u].by \in S
    BY <1>2, <2>1 DEF Under
  <2>2. CASE \E h \in hands' : h.op = "set" /\ u \in h.who /\ h.by \in S
    BY <2>2 DEF Under
  <2> QED BY <1>4, <2>1, <2>2 DEF Under
<1>5. \A S \in (SUBSET User) \ {{}} : \E u \in S : ~Under(u, S)'
  BY <1>1, <1>4
<1>6. ASSUME NEW u \in User, rows'[u] # None, rows'[u].by # None
      PROVE  IsAdmin(rows[u].by)'
  <2>1. rows[u] # None => rows[u].by \in User \cup {None}
    BY DEF Typed, RowsInv, Row
  <2>2. PICK v : v = rows'[u].by
    OBVIOUS
  <2>3. v \in User /\ IsAdmin(v)
    BY <1>1, <1>3, <1>6, <2>1, <2>2
  <2>4. rows'[v] # None /\ rows'[v].admin
    BY <2>3 DEF IsAdmin
  <2> QED BY <2>2, <2>4 DEF IsAdmin
<1>7. ASSUME NEW h \in hands', h.op = "set"
      PROVE  IsAdmin(h.by)'
  BY <1>1, <1>3, <1>7
<1> QED BY <1>5, <1>6, <1>7

\* Who is appointed has no rights yet, so that nobody has his rights from him:
\* the new link begins at an end of the chain.
LEMMA AppointDeleg ==
  ASSUME Parameters, Typed, DelegInv, NEW a \in User, NEW t \in User, NEW promote \in BOOLEAN,
         Appoint(a, t, promote)
  PROVE  DelegInv'
<1> DEFINE op == IF promote THEN "set" ELSE "unset"  h == H(op, {t}, a)
<1>1. /\ a # t /\ rows[t] # None /\ rows[t].admin # promote
      /\ a \in global \/ IsAdmin(a)
      /\ hands' = hands \cup {h} /\ rows' = rows
      /\ undone' = (undone \/ a \in global)
  BY DEF Appoint, MayAppoint, Starts, IsAdmin
<1>2. h.op = op /\ h.who = {t} /\ h.by = a
  BY DEF H
<1> HIDE DEF h
<1>3. CASE ~promote
  <2>1. h.op # "set" /\ \A u \in User : IsAdmin(u) => IsAdmin(u)'
    BY <1>1, <1>2, <1>3 DEF IsAdmin
  <2> QED BY <1>1, <2>1, DelegStays
<1>4. CASE promote
  <2> SUFFICES ASSUME ~undone'
               PROVE  /\ \A S \in (SUBSET User) \ {{}} : \E u \in S : ~Under(u, S)'
                      /\ \A u \in User : rows[u] # None /\ rows[u].by # None => IsAdmin(rows[u].by)'
                      /\ \A g \in hands' : g.op = "set" => IsAdmin(g.by)'
    BY <1>1 DEF DelegInv
  <2>1. /\ \A S \in (SUBSET User) \ {{}} : \E u \in S : ~Under(u, S)
        /\ \A u \in User : rows[u] # None /\ rows[u].by # None => IsAdmin(rows[u].by)
        /\ \A g \in hands : g.op = "set" => IsAdmin(g.by)
        /\ IsAdmin(a) /\ ~IsAdmin(t)
    BY <1>1, <1>4 DEF DelegInv, IsAdmin
  <2>2. \A u : IsAdmin(u)' = IsAdmin(u)
    BY <1>1 DEF IsAdmin
  <2>3. t # None /\ None \notin User
    BY DEF Parameters
  <2>4. ASSUME NEW S \in SUBSET User, NEW u \in S, Under(u, S)', u # t
        PROVE  Under(u, S \ {t})
    <3>1. CASE rows[u] # None /\ rows[u].by \in S
      <4>1. IsAdmin(rows[u].by)
        BY <2>1, <2>3, <3>1
      <4> QED BY <2>1, <3>1, <4>1 DEF Under
    <3>2. ASSUME NEW g \in hands', g.op = "set", u \in g.who, g.by \in S
          PROVE  Under(u, S \ {t})
      <4>1. g \in hands
        BY <1>1, <1>2, <2>4, <3>2
      <4>2. IsAdmin(g.by)
        BY <2>1, <3>2, <4>1
      <4> QED BY <2>1, <3>2, <4>1, <4>2 DEF Under
    <3> QED BY <1>1, <2>4, <3>1, <3>2 DEF Under
  <2>5. ASSUME NEW S \in (SUBSET User) \ {{}}
        PROVE  \E u \in S : ~Under(u, S)'
    <3>1. CASE S \ {t} # {}
      <4>1. PICK u \in S \ {t} : ~Under(u, S \ {t})
        BY <2>1, <3>1
      <4> QED BY <2>4, <4>1
    <3>2. CASE S = {t}
      <4>1. ~Under(t, {t})
        BY <2>1
      <4>2. ~Under(t, {t})'
        BY <1>1, <1>2, <4>1 DEF Under
      <4> QED BY <3>2, <4>2
    <3> QED BY <2>5, <3>1, <3>2
  <2>6. \A u \in User : rows[u] # None /\ rows[u].by # None => IsAdmin(rows[u].by)'
    BY <1>1, <2>1 DEF IsAdmin
  <2>7. ASSUME NEW g \in hands', g.op = "set"
        PROVE  IsAdmin(g.by)'
    <3>1. g \in hands \/ g.by = a
      BY <1>1, <1>2
    <3> QED BY <2>1, <2>2, <2>7, <3>1
  <2> QED BY <2>5, <2>6, <2>7
<1> QED BY <1>3, <1>4

\* No other step adds to it before rights are taken from somebody.
LEMMA DelegStep == ASSUME Parameters, Typed, DelegInv, Next PROVE DelegInv'
<1>0. /\ rows \in [User -> Row \cup {None}] /\ \A h \in hands : HandOK(h)
      /\ Owner \in User
  BY DEF Typed, RowsInv, HandsInv, Parameters
<1>1. ASSUME UNCHANGED <<rows, undone>>, \A h \in hands' : h.op = "set" => h \in hands
      PROVE  DelegInv'
  <2>1. \A u \in User : IsAdmin(u) => IsAdmin(u)'
    BY <1>1 DEF IsAdmin
  <2> QED BY <1>1, <2>1, DelegStays
<1>2. ASSUME UNCHANGED <<rows, undone>>,
             UNCHANGED hands \/ \E op \in Ops \ {"set"} : \E who, by : Starts(H(op, who, by))
      PROVE  DelegInv'
  <2>1. ASSUME NEW op \in Ops \ {"set"}, NEW who, NEW by, Starts(H(op, who, by))
        PROVE  DelegInv'
    <3>1. H(op, who, by).op # "set"
      BY DEF H
    <3> QED BY <1>1, <1>2, <2>1, <3>1 DEF Starts
  <2> QED BY <1>1, <1>2, <2>1
<1>3. ASSUME NEW h \in hands, UpsertChat(h) \/ SyncRows(h) \/ NameCommit(h) \/ LeaveBarred(h)
      PROVE  DelegInv'
  <2>1. UNCHANGED <<rows, undone>>
    BY <1>3 DEF UpsertChat, SyncRows, NameCommit, LeaveBarred
  <2>2. Goes(h, {}) \/ \E op \in {"row", "drop"} : \E who : Goes(h, {H(op, who, None)})
    BY <1>3 DEF UpsertChat, SyncRows, NameCommit, LeaveBarred
  <2>3. ASSUME NEW op \in {"row", "drop"}, NEW who, Goes(h, {H(op, who, None)})
        PROVE  DelegInv'
    <3>1. H(op, who, None).op # "set"
      BY DEF H
    <3> QED BY <1>1, <2>1, <2>3, <3>1 DEF Goes
  <2> QED BY <1>1, <2>1, <2>2, <2>3 DEF Goes
<1>4. ASSUME NEW h \in hands, Left(h) \/ SyncRemove(h)
      PROVE  DelegInv'
  <2>1. \A g \in hands' : g.op = "set" => g \in hands
    <3>1. CASE Goes(h, {})
      BY <3>1 DEF Goes
    <3>2. ASSUME NEW u, h.op = "drop", Goes(h, {[h EXCEPT !.who = @ \ {u}]})
          PROVE  \A g \in hands' : g.op = "set" => g \in hands
      <4>1. [h EXCEPT !.who = @ \ {u}].op = "drop"
        BY <1>0, <3>2 DEF HandOK, Hand
      <4> QED BY <3>2, <4>1 DEF Goes
    <3> QED BY <1>4, <3>1, <3>2 DEF Left, SyncRemove
  <2>2. ASSUME NEW u \in User, Remove(u)
        PROVE  DelegInv'
    <3>1. /\ rows' = [rows EXCEPT ![u] = None]
          /\ undone' = (undone \/ IsAdmin(u))
      BY <2>2 DEF Remove, IsAdmin
    <3>2. ~undone' => \A v \in User : IsAdmin(v) => IsAdmin(v)'
      BY <1>0, <3>1 DEF IsAdmin
    <3>3. \A v \in User : rows'[v] # None => rows'[v] = rows[v]
      BY <1>0, <3>1
    <3> QED BY <2>1, <3>1, <3>2, <3>3, DelegStays
  <2>3. UNCHANGED <<rows, undone>> \/ \E u \in User : Remove(u)
    BY <1>0, <1>4 DEF Left, SyncRemove, HandOK, Hand
  <2> QED BY <1>1, <2>1, <2>2, <2>3
<1>5. ASSUME NEW h \in hands, DeleteChat(h)
      PROVE  DelegInv'
  BY <1>5 DEF DeleteChat, DelegInv
<1>6. ASSUME NEW h \in hands, AddAssociation(h)
      PROVE  DelegInv'
  <2>1. /\ rows' = [u \in User |-> IF u \in h.who \ known /\ rows[u] = None THEN Fresh ELSE rows[u]]
        /\ hands' = hands \ {h} /\ undone' = undone
    BY <1>6 DEF AddAssociation, Goes
  <2>2. \A u \in User : rows'[u] = rows[u] \/ (rows'[u] = Fresh /\ rows[u] = None)
    BY <1>0, <2>1
  <2>3. \A u \in User : IsAdmin(u) => IsAdmin(u)'
    BY <2>2 DEF IsAdmin
  <2> QED BY <2>1, <2>2, <2>3, FreshOK, DelegStays
<1>7. ASSUME NEW h \in hands, SetAssociation(h)
      PROVE  DelegInv'
  <2>0. undone \in BOOLEAN
    BY DEF Typed, FlagsInv
  <2>1. /\ rows' = [u \in User |->
                  IF u \notin h.who \/ rows[u] = None THEN rows[u]
                  ELSE IF h.op = "set" THEN [admin |-> TRUE, by |-> h.by] ELSE Fresh]
        /\ hands' = hands \ {h} /\ undone' = (undone \/ h.op = "unset") /\ h.op \in {"set", "unset"}
    BY <1>7 DEF SetAssociation, Goes, Demoted
  <2>2. ASSUME h.op = "set"
        PROVE  DelegInv'
    <3>1. \A u \in User : \/ rows'[u] = rows[u]
                          \/ rows'[u] = [admin |-> TRUE, by |-> h.by] /\ u \in h.who
      BY <1>0, <2>1, <2>2
    <3>2. \A u \in User : IsAdmin(u) => IsAdmin(u)'
      <4>1. [admin |-> TRUE, by |-> h.by] \in Row
        BY <1>0 DEF HandOK, Hand, Row
      <4>2. [admin |-> TRUE, by |-> h.by] # None
        BY <4>1 DEF Parameters
      <4> QED BY <3>1, <4>2 DEF IsAdmin
    <3>3. undone' = undone /\ \A g \in hands' : g \in hands
      BY <2>0, <2>1, <2>2
    <3>4. \A u \in User : rows'[u] # None /\ rows'[u].by # None =>
                \/ rows[u] # None /\ rows[u].by = rows'[u].by
                \/ \E g \in hands : g.op = "set" /\ u \in g.who /\ g.by = rows'[u].by
      BY <2>2, <3>1
    <3> QED BY <3>2, <3>3, <3>4, DelegStays
  <2>3. CASE h.op = "unset"
    BY <2>1, <2>3 DEF DelegInv
  <2> QED BY <2>1, <2>2, <2>3
<1>8. ASSUME NEW h \in hands, OwnerClaims(h)
      PROVE  DelegInv'
  <2>1. /\ rows' = rows \/ rows' = [rows EXCEPT ![Owner] = [admin |-> TRUE, by |-> None]]
        /\ hands' = hands \ {h} /\ undone' = undone
    BY <1>0, <1>8 DEF OwnerClaims, Goes, HandOK
  <2>2. [admin |-> TRUE, by |-> None] # None
    <3>1. [admin |-> TRUE, by |-> None] \in Row
      BY DEF Row
    <3> QED BY <3>1 DEF Parameters
  <2>3. \A u \in User : rows'[u] = rows[u] \/ rows'[u] = [admin |-> TRUE, by |-> None]
    BY <1>0, <2>1
  <2>4. \A u \in User : IsAdmin(u) => IsAdmin(u)'
    BY <2>2, <2>3 DEF IsAdmin
  <2> QED BY <2>1, <2>3, <2>4, DelegStays
<1>9. ASSUME NEW u \in User, \/ Rename(u) \/ Leave(u) \/ Join(u) \/ Writes(u) \/ CorrectName(u)
                             \/ SetBlocked(u) \/ SetGlobal(u)
      PROVE  DelegInv'
  <2>1. UNCHANGED <<rows, undone>>
    BY <1>9 DEF Rename, Leave, Join, Writes, CorrectName, SetBlocked, SetGlobal
  <2>2. {"left", "chat", "name"} \subseteq Ops \ {"set"}
    BY DEF Ops
  <2>3. UNCHANGED hands \/ \E op \in Ops \ {"set"} : \E who, by : Starts(H(op, who, by))
    BY <1>9, <2>2 DEF Rename, Leave, Join, Writes, CorrectName, SetBlocked, SetGlobal
  <2> QED BY <1>2, <2>1, <2>3
<1>10. CASE SyncBegin \/ PanelLeave \/ BlockChat \/ UnblockChat \/ BotAdded \/ OwnerActs
  <2>1. UNCHANGED <<rows, undone>>
    BY <1>10 DEF SyncBegin, PanelLeave, BlockChat, UnblockChat, BotAdded, OwnerActs
  <2>2. {"sync", "delete", "bar", "added", "claim"} \subseteq Ops \ {"set"}
    BY DEF Ops
  <2>3. UNCHANGED hands \/ \E op \in Ops \ {"set"} : \E who, by : Starts(H(op, who, by))
    BY <1>10, <2>2 DEF SyncBegin, PanelLeave, BlockChat, UnblockChat, BotAdded, OwnerActs
  <2> QED BY <1>2, <2>1, <2>3
<1> QED BY <1>3, <1>4, <1>5, <1>6, <1>7, <1>8, <1>9, <1>10, AppointDeleg DEF Next, Handles

-----------------------------------------------------------------------------
(* The invariant, and what follows *)

\* Nothing happens.
LEMMA StutterInv == ASSUME Inv, UNCHANGED vars PROVE Inv'
<1>1. Typed'
  BY DEF vars, Inv, Typed, HandsInv, HandOK, NamesInv, RowsInv, FlagsInv
<1>2. SnapInv' /\ KnownUntilDeleted' /\ BarredIsLeft'
  BY DEF vars, Inv, SnapInv, KnownUntilDeleted, KnownAreRows, BarredIsLeft
<1>3. DelegInv'
  BY DEF vars, Inv, DelegInv, Under, IsAdmin
<1> QED BY <1>1, <1>2, <1>3 DEF Inv

\* Every step keeps the invariant.
LEMMA NextInv == ASSUME Parameters, Inv, [Next]_vars PROVE Inv'
BY TypedStep, SnapStep, KnownStep, BarStep, DelegStep, StutterInv DEF Inv

\* The invariant says what is promised.
LEMMA InvMeans ==
  ASSUME Parameters, Inv
  PROVE  TypeOK /\ SnapshotIsWritten /\ KnownUntilDeleted /\ AcyclicAtFirst /\ BarredIsLeft
<1>1. TypeOK
  <2>1. {bot, chat, barred, deleted, clash, undone, stuck} \subseteq BOOLEAN
    BY DEF Inv, Typed, FlagsInv
  <2>2. \A h \in hands : h.op \in Ops /\ h.who \subseteq User
    BY DEF Inv, Typed, HandsInv, HandOK, Hand
  <2>3. \A u \in User : name[u] # None
    BY DEF Inv, Typed, NamesInv, Parameters
  <2>4. name \in [User -> Name \cup {None}]
    BY DEF Inv, Typed, NamesInv
  <2> QED BY <2>1, <2>2, <2>3, <2>4 DEF Inv, Typed, HandsInv, NamesInv, RowsInv, FlagsInv, TypeOK
<1>2. SnapshotIsWritten
  BY DEF Inv, SnapInv, SnapshotIsWritten
<1>3. AcyclicAtFirst
  BY DEF Inv, DelegInv, Under, AcyclicAtFirst, DelegationAcyclic
<1> QED BY <1>1, <1>2, <1>3 DEF Inv

\* It holds in every reachable state.
THEOREM Invariant == ASSUME Parameters PROVE Spec => []Inv
BY InitInv, NextInv, PTL DEF Spec

\* Every variable keeps its type: a group is barred only while it has a row,
\* rows are of users that have one, and only admins have their rights from
\* somebody.
THEOREM TypeCorrect == ASSUME Parameters PROVE Spec => []TypeOK
BY InvMeans, Invariant, PTL

\* A snapshot says what is written, unless a message came in while a name was
\* corrected in the panel.
THEOREM SnapshotsWritten == ASSUME Parameters PROVE Spec => []SnapshotIsWritten
BY InvMeans, Invariant, PTL

\* Until the group is deleted in the panel, the cache knows nobody without a
\* row, whatever departures, messages and synchronisations overlap.
THEOREM KnownHaveRows == ASSUME Parameters PROVE Spec => []KnownUntilDeleted
BY InvMeans, Invariant, PTL

\* Appointments alone keep the chain of delegation acyclic, also those decided
\* on what others change before they are carried out.
THEOREM DelegationKept == ASSUME Parameters PROVE Spec => []AcyclicAtFirst
BY InvMeans, Invariant, PTL

\* From a barred group the bot has gone or is about to, unless Telegram
\* refused.
THEOREM BarredLeft == ASSUME Parameters PROVE Spec => []BarredIsLeft
BY InvMeans, Invariant, PTL

=============================================================================
