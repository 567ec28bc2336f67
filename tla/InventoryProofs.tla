---------------------------- MODULE InventoryProofs ----------------------------
(***************************************************************************)
(* Proofs about Inventory and the commands over it, for any accounts,      *)
(* keys, scanners, answers, bounds and deployments.                        *)
(*                                                                         *)
(* A request checks in one step and writes the whole row in another.  Two  *)
(* arguments show that the write is still in its scope.  Where requests    *)
(* come one after the other and nothing else writes, what the request      *)
(* checked still holds.  Where there are only ordinary users, each id has  *)
(* a home, a participant that every row stored, dumped, or held in memory  *)
(* under that id belongs to: no step of such a user changes it.            *)
(***************************************************************************)
EXTENDS Commands, FiniteSetTheorems, WellFoundedInduction, TLAPS

(* Tables whose references are in order.                                   *)
Table(t) ==
  /\ DOMAIN t \subseteq Id /\ t \in [DOMAIN t -> Row]
  /\ \A i \in DOMAIN t : Resolves(t[i], t)

(* An assignment of participants to ids that the rows of t agree with.     *)
Home(h, i, row) == h[i] = IF row.kind = "participant" THEN i ELSE h[row.parent]
Homely(h, t) == \A i \in DOMAIN t : Home(h, i, t[i])

-----------------------------------------------------------------------------
LEMMA Assumed == InventoryAssumption /\ ScanAssumption /\ CommandsAssumption
BY InventoryAssumption, ScanAssumption, CommandsAssumption

LEMMA KindFacts ==
  /\ Kind = {"participant", "user", "premark", "machine", "sshkey", "hostkey", "mremark"}
  /\ ParentKind["participant"] = None
  /\ ParentKind["user"] = "participant" /\ ParentKind["premark"] = "participant"
  /\ ParentKind["machine"] = "user" /\ ParentKind["sshkey"] = "user"
  /\ ParentKind["hostkey"] = "machine" /\ ParentKind["mremark"] = "machine"
BY DEF Kind, ParentKind

LEMMA RowFacts ==
  ASSUME NEW row \in Row
  PROVE  /\ row.kind \in Kind /\ row.parent \in Opt(Id) /\ row.admin \in BOOLEAN
         /\ row.admin => row.kind = "user"
BY DEF Row

LEMMA IdFacts == Id \subseteq Nat /\ None \notin Id /\ MaxId \in Nat
BY Assumed DEF InventoryAssumption, Id

(* A row put in place of one of its kind, or under a new id.               *)
LEMMA PutKeeps ==
  ASSUME NEW t, Table(t), NEW k \in Id, NEW row \in Row, Resolves(row, t),
         k \in DOMAIN t => t[k].kind = row.kind
  PROVE  Table(Put(t, k, row))
<1> DEFINE u == Put(t, k, row)
<1>1. DOMAIN u = DOMAIN t \union {k} /\ u[k] = row /\ \A i \in DOMAIN t \ {k} : u[i] = t[i]
  BY DEF Put
<1>2. DOMAIN u \subseteq Id /\ u \in [DOMAIN u -> Row]
  BY DEF Put, Table
<1>3. \A i \in DOMAIN t : i \in DOMAIN u /\ u[i].kind = t[i].kind
  BY <1>1
<1>4. ASSUME NEW r, Resolves(r, t) PROVE Resolves(r, u)
  <2> HIDE DEF u
  <2> QED BY <1>3, <1>4 DEF Resolves
<1>5. ASSUME NEW i \in DOMAIN u PROVE Resolves(u[i], u)
  <2> HIDE DEF u
  <2> QED BY <1>1, <1>4, <1>5 DEF Table
<1> HIDE DEF u
<1>6. Table(u)
  BY <1>2, <1>5 DEF Table
<1> QED BY <1>6 DEF u

(* Rows that no row refers to are taken away.                              *)
LEMMA LessKeeps ==
  ASSUME NEW t, Table(t), NEW u, DOMAIN u \subseteq DOMAIN t,
         u = [i \in DOMAIN u |-> t[i]],
         \A i \in DOMAIN t \ DOMAIN u : \A j \in DOMAIN u : t[j].parent # i
  PROVE  Table(u)
<1>1. \A i \in DOMAIN u : u[i] = t[i]
  OBVIOUS
<1>2. DOMAIN u \subseteq Id /\ u \in [DOMAIN u -> Row]
  BY <1>1 DEF Table
<1>3. ASSUME NEW i \in DOMAIN u PROVE Resolves(u[i], u)
  <2>1. Resolves(t[i], t) /\ u[i] = t[i]
    BY <1>1 DEF Table
  <2> QED BY <1>1, <2>1 DEF Resolves
<1> QED BY <1>2, <1>3 DEF Table

(* Where a row belongs is what every such assignment says.                 *)
LEMMA OrgIsHome ==
  ASSUME NEW t, Table(t), NEW h, Homely(h, t), NEW i \in DOMAIN t
  PROVE  OrgOf(i, t) = h[i]
<1>1. ASSUME NEW j \in DOMAIN t PROVE t[j] \in Row /\ Resolves(t[j], t) /\ Home(h, j, t[j])
  BY DEF Table, Homely
<1>2. \A j \in DOMAIN t : t[j].kind = "participant" => h[j] = j
  BY <1>1 DEF Home
<1>3. \A j \in DOMAIN t : t[j].kind \in {"user", "premark"} =>
        t[j].parent \in DOMAIN t /\ h[j] = t[j].parent
  BY <1>1, <1>2, KindFacts DEF Home, Resolves
<1>4. \A j \in DOMAIN t : t[j].kind \in {"machine", "sshkey"} =>
        /\ t[j].parent \in DOMAIN t /\ h[j] = h[t[j].parent]
        /\ t[t[j].parent].kind = "user"
  BY <1>1, KindFacts DEF Home, Resolves
<1>5. \A j \in DOMAIN t : t[j].kind \in {"hostkey", "mremark"} =>
        /\ t[j].parent \in DOMAIN t /\ h[j] = h[t[j].parent]
        /\ t[t[j].parent].kind = "machine"
  BY <1>1, KindFacts DEF Home, Resolves
<1>6. t[i].kind \in Kind
  BY <1>1, RowFacts
<1>7. CASE t[i].kind = "participant"
  BY <1>7, <1>2 DEF OrgOf
<1>8. CASE t[i].kind \in {"user", "premark"}
  BY <1>8, <1>3 DEF OrgOf
<1>9. CASE t[i].kind \in {"machine", "sshkey"}
  BY <1>9, <1>3, <1>4 DEF OrgOf
<1>10. CASE t[i].kind \in {"hostkey", "mremark"}
  <2>1. OrgOf(i, t) = t[t[t[i].parent].parent].parent
    BY <1>10 DEF OrgOf
  <2> QED BY <1>10, <1>3, <1>4, <1>5, <2>1
<1> QED BY <1>6, <1>7, <1>8, <1>9, <1>10, KindFacts

(* There is such an assignment: where each row belongs.                    *)
LEMMA OrgsAreHomes ==
  ASSUME NEW t, Table(t)
  PROVE  Homely([i \in Id |-> IF i \in DOMAIN t THEN OrgOf(i, t) ELSE i], t)
<1> DEFINE h == [i \in Id |-> IF i \in DOMAIN t THEN OrgOf(i, t) ELSE i]
<1>1. ASSUME NEW j \in DOMAIN t
      PROVE  /\ t[j].kind \in Kind /\ Resolves(t[j], t)
             /\ h[j] = OrgOf(j, t)
  BY RowFacts DEF Table
<1> HIDE DEF h
<1>2. ASSUME NEW i \in DOMAIN t PROVE Home(h, i, t[i])
  <2>1. CASE t[i].kind = "participant"
    BY <2>1, <1>1 DEF OrgOf, Home
  <2>2. CASE t[i].kind # "participant"
    <3> DEFINE p == t[i].parent
    <3>1. p \in DOMAIN t /\ t[p].kind = ParentKind[t[i].kind]
      BY <2>2, <1>1 DEF Resolves
    <3>2. h[i] = OrgOf(i, t) /\ h[p] = OrgOf(p, t)
      BY <3>1, <1>1
    <3>3. CASE t[i].kind \in {"user", "premark"}
      <4>1. t[p].kind = "participant"
        BY <3>3, <3>1, KindFacts
      <4> QED BY <3>3, <3>2, <4>1 DEF OrgOf, Home
    <3>4. CASE t[i].kind \in {"machine", "sshkey"}
      <4>1. t[p].kind = "user"
        BY <3>4, <3>1, KindFacts
      <4> QED BY <3>4, <3>2, <4>1 DEF OrgOf, Home
    <3>5. CASE t[i].kind \in {"hostkey", "mremark"}
      <4>1. t[p].kind = "machine"
        BY <3>5, <3>1, KindFacts
      <4> QED BY <3>5, <3>2, <4>1 DEF OrgOf, Home
    <3> QED BY <3>3, <3>4, <3>5, <2>2, <1>1, KindFacts
  <2> QED BY <2>1, <2>2
<1> QED BY <1>2 DEF h, Homely

-----------------------------------------------------------------------------
(* A request: what it holds at any time; what it has checked when it is    *)
(* sent, of anyone's and of an ordinary user's.                            *)
Shaped(r) ==
  /\ r.op \in {"create", "update"} =>
       /\ r.row \in Row
       /\ IF r.row.kind = "participant" THEN r.row.parent = None ELSE r.row.parent \in 1..lastId
  /\ r.op \in {"update", "destroy"} => r.id \in 1..lastId

InScope(r) ==
  /\ r.op = "create" =>
       r.row.kind # "participant" /\ ~r.row.admin /\ OrgOf(r.row.parent, rows) = r.org
  /\ r.op \in {"update", "destroy"} => OrgOf(r.id, rows) = r.org
  /\ r.op = "update" =>
       /\ r.row.parent # rows[r.id].parent => OrgOf(r.row.parent, rows) = r.org
       /\ r.row.admin => rows[r.id].admin
  /\ r.op = "destroy" => (rows[r.id].kind = "participant" => Referenced(r.id))

Checked(r) ==
  /\ r.op = "create" => Resolves(r.row, rows)
  /\ r.op = "update" =>
       r.id \in DOMAIN rows /\ r.row.kind = rows[r.id].kind /\ Resolves(r.row, rows)
  /\ r.op = "destroy" => r.id \in DOMAIN rows
  /\ ~r.admin => InScope(r)

Opens(c, r) ==
  /\ Free(c) /\ r.op # "idle" /\ r.admin = RingAdmin(c)
  /\ Shaped(r) /\ Checked(r)
  /\ r.op \in {"create", "update"} => r.row.kind \in Site.kinds \union {"participant"}
  /\ req' = [req EXCEPT ![c] = r]
  /\ UNCHANGED <<rows, lastId, deployment>>

LEMMA SiteFacts ==
  ASSUME InventoryTypeOK
  PROVE  /\ Site.rows \in Seq(Row) /\ DOMAIN Site.rows = 1..Len(Site.rows)
         /\ \A n \in DOMAIN Site.rows : Resolves(Site.rows[n], Site.rows)
         /\ Site.spare \in Nat /\ Len(Site.rows) \in Nat /\ Len(Site.rows) + Site.spare <= MaxId
         /\ Site.linked \in [Caller -> Opt(Id)]
         /\ Site.callers \subseteq Caller /\ Site.kinds \subseteq Kind
         /\ Site.scanners \subseteq Scanner
BY Assumed DEF InventoryTypeOK, InventoryAssumption, ScanAssumption, Site

LEMMA RowsFacts ==
  ASSUME InventoryTypeOK
  PROVE  /\ Table(rows) /\ DOMAIN rows \subseteq 1..lastId
         /\ lastId \in Nat /\ 1..lastId \subseteq Id
BY IdFacts DEF InventoryTypeOK, Table, Id

LEMMA PayloadIsRow ==
  ASSUME InventoryTypeOK, NEW kind \in Kind, NEW row \in Payload(kind)
  PROVE  row \in Row
<1>1. /\ row.kind = kind /\ row.parent \in Opt(Id) /\ row.admin \in BOOLEAN /\ row.key \in Opt(Key)
      /\ row = [kind |-> row.kind, parent |-> row.parent, admin |-> row.admin, key |-> row.key]
      /\ row.admin => kind = "user"
  BY DEF Payload, InventoryTypeOK, Opt
<1> QED BY <1>1 DEF Row

(* A row that resolves refers to an id that was given.                     *)
LEMMA ResolvedIsShaped ==
  ASSUME InventoryTypeOK, NEW row \in Row, Resolves(row, rows)
  PROVE  IF row.kind = "participant" THEN row.parent = None ELSE row.parent \in 1..lastId
BY RowsFacts DEF Resolves

(* The caller's participant is the one the row belongs to.                 *)
LEMMA MineIsOrg ==
  ASSUME NEW c \in Caller, NEW o \in CallerOrg(c)
  PROVE  (IF CallerOrg(c) = {} THEN None ELSE CHOOSE x \in CallerOrg(c) : TRUE) = o
BY DEF CallerOrg, RingUserOf

LEMMA OrgTyped ==
  ASSUME InventoryTypeOK, NEW c \in Caller
  PROVE  (IF CallerOrg(c) = {} THEN None ELSE CHOOSE x \in CallerOrg(c) : TRUE) \in Opt(Id)
<1>1. CallerOrg(c) \subseteq Opt(Id)
  BY RowFacts DEF CallerOrg, RingUserOf, InventoryTypeOK
<1>2. CallerOrg(c) # {} => (CHOOSE x \in CallerOrg(c) : TRUE) \in CallerOrg(c)
  OBVIOUS
<1> QED BY <1>1, <1>2 DEF Opt

LEMMA SendDoes ==
  ASSUME InventoryTypeOK, NEW c \in Caller, Send(c)
  PROVE  \E r \in Request : Opens(c, r)
<1> DEFINE org == IF CallerOrg(c) = {} THEN None ELSE CHOOSE x \in CallerOrg(c) : TRUE
           R(op, i, row) == [op |-> op, id |-> i, row |-> row, admin |-> RingAdmin(c), org |-> org]
<1>a. org \in Opt(Id)
  BY OrgTyped
<1>b. \A i : IsMine(c, i) => OrgOf(i, rows) = org
  BY MineIsOrg DEF IsMine
<1>c. RingAdmin(c) \in BOOLEAN
  <2>1. \A r \in RingUserOf(c) : rows[r].admin \in BOOLEAN
    BY RowFacts DEF RingUserOf, InventoryTypeOK
  <2> QED BY <2>1 DEF RingAdmin
<1>d. \A o \in CallerOrg(c) : o = org
  BY MineIsOrg
<1> HIDE DEF org
<1>1. ASSUME NEW kind \in Site.kinds, NEW row \in Payload(kind), OpenCreate(c, row)
      PROVE  Opens(c, R("create", None, row))
  <2>1. kind \in Kind /\ row \in Row
    BY SiteFacts, PayloadIsRow
  <2>2. Resolves(row, rows) /\ Free(c)
    BY <1>1 DEF OpenCreate
  <2>3. ~RingAdmin(c) =>
          row.kind # "participant" /\ ~row.admin /\ OrgOf(row.parent, rows) = org
    BY <1>1, <1>b DEF OpenCreate
  <2>4. /\ req' = [req EXCEPT ![c] = R("create", None, row)]
        /\ UNCHANGED <<rows, lastId, deployment>>
    BY <1>1 DEF OpenCreate, Open, org
  <2>5. Shaped(R("create", None, row))
    BY <2>1, <2>2, ResolvedIsShaped DEF Shaped
  <2>6. Checked(R("create", None, row))
    BY <2>2, <2>3 DEF Checked, InScope
  <2>7. row.kind \in Site.kinds
    BY <1>1 DEF OpenCreate
  <2> QED BY <2>2, <2>4, <2>5, <2>6, <2>7 DEF Opens
<1>2. ASSUME NEW i \in DOMAIN rows, NEW row \in Row, Free(c), row.kind = rows[i].kind,
             Resolves(row, rows), row.kind \in Site.kinds \union {"participant"},
             ~RingAdmin(c) => /\ OrgOf(i, rows) = org
                              /\ row.parent # rows[i].parent => OrgOf(row.parent, rows) = org
                              /\ row.admin => rows[i].admin,
             req' = [req EXCEPT ![c] = R("update", i, row)],
             UNCHANGED <<rows, lastId, deployment>>
      PROVE  Opens(c, R("update", i, row))
  <2>1. Shaped(R("update", i, row))
    BY <1>2, ResolvedIsShaped, RowsFacts DEF Shaped
  <2>2. Checked(R("update", i, row))
    BY <1>2 DEF Checked, InScope
  <2> QED BY <1>2, <2>1, <2>2 DEF Opens
<1>3. ASSUME NEW i \in DOMAIN rows, NEW row \in Payload(rows[i].kind), OpenUpdate(c, i, row)
      PROVE  Opens(c, R("update", i, row))
  <2>1. row \in Row
    BY PayloadIsRow, RowFacts DEF InventoryTypeOK
  <2>2. /\ Free(c) /\ row.kind = rows[i].kind /\ Resolves(row, rows) /\ row.kind \in Site.kinds
        /\ ~RingAdmin(c) => /\ OrgOf(i, rows) = org
                            /\ row.parent # rows[i].parent => OrgOf(row.parent, rows) = org
                            /\ row.admin => rows[i].admin
    BY <1>3, <1>b DEF OpenUpdate, FlagIsNotGiven
  <2>3. /\ req' = [req EXCEPT ![c] = R("update", i, row)]
        /\ UNCHANGED <<rows, lastId, deployment>>
    BY <1>3 DEF OpenUpdate, Open, org
  <2> QED BY <2>1, <2>2, <2>3, <1>2
<1>4. ASSUME NEW i \in DOMAIN rows, OpenOrgEdit(c, i) PROVE Opens(c, R("update", i, rows[i]))
  <2>1. rows[i] \in Row /\ Resolves(rows[i], rows) /\ rows[i].kind = "participant"
    BY <1>4 DEF InventoryTypeOK, OpenOrgEdit
  <2>2. Free(c) /\ (~RingAdmin(c) => OrgOf(i, rows) = org)
    BY <1>4, <1>d DEF OpenOrgEdit, OrgOf
  <2>3. /\ req' = [req EXCEPT ![c] = R("update", i, rows[i])]
        /\ UNCHANGED <<rows, lastId, deployment>>
    BY <1>4 DEF OpenOrgEdit, Open, org
  <2> QED BY <2>1, <2>2, <2>3, <1>2
<1>5. ASSUME NEW i \in DOMAIN rows, OpenDestroy(c, i) PROVE Opens(c, R("destroy", i, None))
  <2>1. Free(c) /\ (~RingAdmin(c) => IsMine(c, i))
    BY <1>5 DEF OpenDestroy
  <2>2. ~RingAdmin(c) => (rows[i].kind = "participant" => Referenced(i))
    <3> SUFFICES ASSUME IsMine(c, i), rows[i].kind = "participant" PROVE Referenced(i)
      BY <2>1
    <3>1. i \in CallerOrg(c)
      BY DEF IsMine, OrgOf
    <3> QED BY <3>1 DEF CallerOrg, RingUserOf, Referenced
  <2>3. /\ req' = [req EXCEPT ![c] = R("destroy", i, None)]
        /\ UNCHANGED <<rows, lastId, deployment>>
    BY <1>5 DEF OpenDestroy, Open, org
  <2>4. Shaped(R("destroy", i, None)) /\ Checked(R("destroy", i, None))
    BY <2>1, <2>2, <1>b, RowsFacts DEF Shaped, Checked, InScope
  <2> QED BY <2>1, <2>3, <2>4 DEF Opens
<1>6. \A op \in {"create", "update", "destroy"}, i \in Opt(Id), row \in Opt(Row) :
        R(op, i, row) \in Request
  BY <1>a, <1>c DEF Request
<1> HIDE DEF R
<1>7. \A kind \in Site.kinds : \A row \in Payload(kind) :
        OpenCreate(c, row) => R("create", None, row) \in Request
  BY <1>6, SiteFacts, PayloadIsRow DEF Opt
<1>8. ASSUME NEW i \in DOMAIN rows
      PROVE  /\ R("destroy", i, None) \in Request /\ R("update", i, rows[i]) \in Request
             /\ \A row \in Payload(rows[i].kind) : R("update", i, row) \in Request
  <2>1. i \in Opt(Id) /\ rows[i] \in Opt(Row) /\ None \in Opt(Row)
    BY DEF InventoryTypeOK, Opt
  <2>2. \A row \in Payload(rows[i].kind) : row \in Opt(Row)
    BY PayloadIsRow, RowFacts DEF InventoryTypeOK, Opt
  <2> QED BY <2>1, <2>2, <1>6
<1> QED BY <1>1, <1>3, <1>4, <1>5, <1>7, <1>8 DEF Send

-----------------------------------------------------------------------------
(* What a step does to the tables.                                         *)
Inserts(row) ==
  /\ lastId + 1 \in Id /\ lastId' = lastId + 1
  /\ rows' = Put(rows, lastId + 1, row) /\ Resolves(row, rows)
Overwrites(i, row) == UNCHANGED lastId /\ rows' = Put(rows, i, row) /\ Resolves(row, rows)
Removes(i) == UNCHANGED lastId /\ rows' = Without(rows, i)

Clears(kind) ==
  /\ \A i \in StoredOf(kind) : ~Referenced(i)
  /\ rows' = [i \in DOMAIN rows \ StoredOf(kind) |-> rows[i]]
Imports(kind) ==
  /\ \A i \in DumpOf(kind) : i \notin DOMAIN rows /\ Resolves(Dump[i], rows)
  /\ rows' = Imported(kind)

(* The kinds of steps.                                                     *)
Requests(c, r) == Opens(c, r) /\ r \in Request /\ UNCHANGED <<scan, calm>>
Notices == calm' = IF rows' = rows THEN calm ELSE None
Answered(c) ==
  /\ req' = [req EXCEPT ![c] = Idle] /\ UNCHANGED <<deployment, scan>> /\ Notices
  /\ \/ req[c].op = "create" /\ Inserts(req[c].row)
     \/ req[c].op = "update" /\ Overwrites(req[c].id, req[c].row)
     \/ req[c].op = "destroy" /\ Removes(req[c].id) /\ ~Referenced(req[c].id)
     \/ req[c].op # "idle" /\ UNCHANGED <<rows, lastId>>
Lists(s, active) ==
  /\ UNCHANGED inventoryVars /\ s \in Site.scanners /\ active \subseteq Id
  /\ scan' = [scan EXCEPT ![s] = [NotScanning EXCEPT !.todo = active]]
  /\ calm' = IF calm = s THEN None ELSE calm
Scans(s, m, answer) ==
  /\ UNCHANGED inventoryVars
  /\ scan[s].todo # {} /\ ~Working(s) /\ m \in DOMAIN rows
  /\ scan' = [scan EXCEPT ![s] =
       [todo |-> scan[s].todo \ {m}, machine |-> m, answer |-> answer,
        changes |-> IF answer = None THEN {} ELSE Changes(m, answer)]]
  /\ calm' = IF \A t \in Scanner \ {s} : ~Working(t) THEN s ELSE None
Stops(s) ==
  /\ UNCHANGED inventoryVars
  /\ scan' = [scan EXCEPT ![s] = NotScanning] /\ calm' \in {calm, None} /\ (calm = s => calm' = None)
Changed(s, ch) ==
  /\ UNCHANGED <<req, deployment>> /\ ch \in scan[s].changes
  /\ scan' = [scan EXCEPT ![s].changes = @ \ {ch}]
  /\ calm' = IF calm = s THEN s ELSE None
  /\ \/ ch.op = "delete" /\ Removes(ch.id)
     \/ ch.op = "save" /\ Overwrites(ch.id, Stored(s, ch))
     \/ ch.op = "create" /\ Inserts(Stored(s, ch))
Reseeds(kind) ==
  /\ UNCHANGED <<lastId, req, deployment, scan>> /\ Notices /\ seed.todo # {}
  /\ Clears(kind) \/ Imports(kind)

(* Every step of the specification is one of these.                        *)
StepIs ==
  \/ UNCHANGED vars
  \/ \E c \in Caller : (\E r \in Request : Requests(c, r)) \/ Answered(c)
  \/ \E s \in Scanner :
       \/ \E active \in SUBSET Id : Lists(s, active)
       \/ \E m \in Id, answer \in Opt(Answer) : Scans(s, m, answer)
       \/ \E ch \in Change : Changed(s, ch)
       \/ Stops(s)
  \/ \E kind \in Kind : Reseeds(kind)

LEMMA WriteDoes ==
  ASSUME TypeOK, NEW c \in Caller, Write(c), UNCHANGED scan, Notices
  PROVE  Answered(c)
<1>1. CASE CreateRow(c)
  <2>1. MayInsert => lastId + 1 \in Id
    BY SiteFacts, RowsFacts, IdFacts DEF MayInsert, TypeOK, Id
  <2> QED BY <1>1, <2>1 DEF CreateRow, Answered, Write, Inserts
<1>2. CASE SaveRow(c)
  BY <1>2 DEF SaveRow, Answered, Write, Overwrites
<1>3. CASE DeleteRow(c)
  BY <1>3 DEF DeleteRow, Answered, Write, Removes
<1> QED BY <1>1, <1>2, <1>3 DEF Write

LEMMA ApplyDoes ==
  ASSUME TypeOK, NEW s \in Scanner, ApplyChange(s)
  PROVE  Stops(s) \/ \E ch \in Change : Changed(s, ch)
<1>1. PICK ch \in scan[s].changes : ChangeKey(s, ch)
  BY DEF ApplyChange
<1>2. ch \in Change /\ ch.op \in {"save", "delete", "create"}
  BY DEF TypeOK, Scan, Change
<1>3. UNCHANGED <<req, deployment>>
  BY DEF ApplyChange
<1>4. MayInsert => lastId + 1 \in Id
  BY SiteFacts, RowsFacts, IdFacts DEF MayInsert, TypeOK, Id
<1>5. CASE DeleteKey(s, ch) /\ scan' = [scan EXCEPT ![s].changes = @ \ {ch}]
           /\ calm' = IF calm = s THEN s ELSE None
  BY <1>5, <1>2, <1>3 DEF DeleteKey, Changed, Removes
<1>6. CASE StoreKey(s, ch) /\ scan' = [scan EXCEPT ![s].changes = @ \ {ch}]
           /\ calm' = IF calm = s THEN s ELSE None
  <2>1. CASE ch.op = "save"
    BY <2>1, <1>6, <1>2, <1>3 DEF StoreKey, Changed, Overwrites
  <2>2. CASE ch.op = "create"
    BY <2>2, <1>6, <1>2, <1>3, <1>4 DEF StoreKey, Changed, Inserts
  <2> QED BY <2>1, <2>2, <1>2, <1>6 DEF StoreKey
<1>7. CASE scan' = [scan EXCEPT ![s] = NotScanning] /\ calm' = None /\ UNCHANGED <<rows, lastId>>
  BY <1>7, <1>3, Assumed DEF Stops, inventoryVars, ScanAssumption
<1> QED BY <1>1, <1>5, <1>6, <1>7 DEF ChangeKey

LEMMA ScannerDoes ==
  ASSUME TypeOK, NEW s \in Scanner
  PROVE  /\ \A active \in SUBSET DOMAIN rows : ListMachines(s, active) => Lists(s, active)
         /\ \A answer \in Opt(Answer) :
              ScanOne(s, answer) => Stops(s) \/ \E m \in Id : Scans(s, m, answer)
         /\ Interrupted(s) => Stops(s)
<1>1. ASSUME NEW active \in SUBSET DOMAIN rows, ListMachines(s, active) PROVE Lists(s, active)
  BY <1>1, RowsFacts DEF ListMachines, Lists, TypeOK
<1>2. ASSUME NEW answer \in Opt(Answer), ScanOne(s, answer)
      PROVE  Stops(s) \/ \E m \in Id : Scans(s, m, answer)
  <2> DEFINE m == CHOOSE i \in scan[s].todo : \A j \in scan[s].todo : i <= j
  <2>1. /\ UNCHANGED inventoryVars
        /\ scan[s].todo # {} /\ ~Working(s)
        /\ \/ /\ m \in DOMAIN rows
              /\ scan' = [scan EXCEPT ![s] =
                   [todo |-> scan[s].todo \ {m}, machine |-> m, answer |-> answer,
                    changes |-> IF answer = None THEN {} ELSE Changes(m, answer)]]
              /\ calm' = IF \A t \in Scanner \ {s} : ~Working(t) THEN s ELSE None
           \/ /\ scan' = [scan EXCEPT ![s] = NotScanning]
              /\ calm' = IF calm = s THEN None ELSE calm
    BY <1>2 DEF ScanOne, TypeOK
  <2> HIDE DEF m
  <2>2. CASE scan' = [scan EXCEPT ![s] = NotScanning] /\ calm' = IF calm = s THEN None ELSE calm
    BY <2>1, <2>2 DEF Stops
  <2>3. m \in DOMAIN rows => m \in Id
    BY RowsFacts DEF TypeOK
  <2> QED BY <2>1, <2>2, <2>3 DEF Scans
<1>3. Interrupted(s) => Stops(s)
  BY DEF Interrupted, Stops
<1> QED BY <1>1, <1>2, <1>3

LEMMA SeedDoes ==
  ASSUME Seeds, UNCHANGED scan, Notices
  PROVE  UNCHANGED vars \/ \E kind \in Kind : Reseeds(kind)
<1>1. CASE UNCHANGED inventoryVars
  BY <1>1 DEF vars, inventoryVars, Notices
<1>2. ASSUME NEW kind \in Kind, ClearTable(kind), ~UNCHANGED inventoryVars PROVE Reseeds(kind)
  BY <1>2 DEF ClearTable, Reseeds, Clears, Due, Ends, Proceeds, inventoryVars
<1>3. ASSUME NEW kind \in Kind, ImportTable(kind), ~UNCHANGED inventoryVars PROVE Reseeds(kind)
  BY <1>3 DEF ImportTable, Reseeds, Imports, Due, Ends, Proceeds, inventoryVars
<1>4. (\E x \in Site.seeds : StartSeed(x.only, x.clear)) \/ SeedDies => UNCHANGED inventoryVars
  BY DEF StartSeed, SeedDies
<1> QED BY <1>1, <1>2, <1>3, <1>4 DEF Seeds

LEMMA StepCases ==
  ASSUME TypeOK, CommandsNext
  PROVE  StepIs
<1>1. ASSUME NEW c \in Caller, CallerActs(c) PROVE StepIs
  <2>1. UNCHANGED scan /\ Notices
    BY <1>1 DEF CallerActs, Notices
  <2>2. CASE Write(c)
    BY <2>1, <2>2, WriteDoes DEF StepIs
  <2>3. CASE Send(c)
    <3>1. PICK r \in Request : Opens(c, r)
      BY <2>3, SendDoes DEF TypeOK
    <3>2. Requests(c, r)
      BY <3>1, <2>1 DEF Requests, Opens, Notices
    <3> QED BY <3>2 DEF StepIs
  <2> QED BY <1>1, <2>2, <2>3 DEF CallerActs
<1>2. ASSUME NEW s \in Scanner,
             \/ \E active \in SUBSET DOMAIN rows : ListMachines(s, active)
             \/ \E answer \in Opt(Answer) : ScanOne(s, answer)
             \/ ApplyChange(s)
             \/ Interrupted(s)
      PROVE  StepIs
  <2>1. ASSUME NEW active \in SUBSET DOMAIN rows, ListMachines(s, active) PROVE StepIs
    <3>1. Lists(s, active) /\ active \in SUBSET Id
      BY <2>1, ScannerDoes, RowsFacts DEF TypeOK
    <3> QED BY <3>1 DEF StepIs
  <2>2. ASSUME NEW answer \in Opt(Answer), ScanOne(s, answer) PROVE StepIs
    BY <2>2, ScannerDoes DEF StepIs
  <2>3. CASE ApplyChange(s)
    BY <2>3, ApplyDoes DEF StepIs
  <2>4. CASE Interrupted(s)
    BY <2>4, ScannerDoes DEF StepIs
  <2> QED BY <1>2, <2>1, <2>2, <2>3, <2>4
<1>3. CASE Next
  BY <1>1, <1>2, <1>3 DEF Next
<1>4. CASE Deploys /\ UNCHANGED <<scan, calm, seed>>
  BY <1>4 DEF Deploys, StepIs, vars, inventoryVars
<1>5. ASSUME NEW r \in Repo, OthersPush(r) /\ UNCHANGED <<scan, calm, seed>> PROVE StepIs
  BY <1>5 DEF OthersPush, StepIs, vars, inventoryVars
<1>6. CASE Seeds /\ UNCHANGED scan /\ calm' = IF rows' = rows THEN calm ELSE None
  BY <1>6, SeedDoes DEF Notices, StepIs
<1> QED BY <1>3, <1>4, <1>5, <1>6 DEF CommandsNext

-----------------------------------------------------------------------------
(***************************************************************************)
(* The inductive invariant.  What is held in memory refers to ids that     *)
(* were given, and no id ever stands for rows of two kinds: not even those *)
(* that save() inserts again, or a seed restores.                          *)
(***************************************************************************)
Known ==
  /\ Len(Dump) <= lastId
  /\ \A c \in Caller : Shaped(req[c])
  /\ \A s \in Scanner : \A ch \in scan[s].changes :
       /\ ch.op # "create" => ch.id \in 1..lastId
       /\ scan[s].machine \in 1..lastId

Kinds(K) ==
  /\ \A i \in DOMAIN rows : K[i] = rows[i].kind
  /\ \A i \in DOMAIN Dump : K[i] = Dump[i].kind
  /\ \A c \in Caller : req[c].op = "update" => K[req[c].id] = req[c].row.kind
  /\ \A s \in Scanner : \A ch \in scan[s].changes : ch.op # "create" => K[ch.id] = "hostkey"
Sorted == \E K : Kinds(K)

(* Commands run only where the deployment has them.                        *)
Present ==
  /\ Site.seeds = {} => seed.todo = {}
  /\ \A s \in Scanner \ Site.scanners : scan[s].todo = {} /\ scan[s].changes = {}

LEMMA TypeIs ==
  ASSUME Table(rows), DOMAIN rows \subseteq 1..lastId, lastId \in 0..MaxId,
         req \in [Caller -> Request], deployment \in DOMAIN Deployments
  PROVE  InventoryTypeOK
BY DEF InventoryTypeOK, Table

(* The statements of a scan have their types, and are about the keys of    *)
(* the machine.                                                            *)
LEMMA ChangesTyped ==
  ASSUME TypeOK, NEW m \in DOMAIN rows, NEW answer \in Answer
  PROVE  /\ Changes(m, answer) \subseteq Change
         /\ \A ch \in Changes(m, answer) : ch.op # "create" => ch.id \in Of("hostkey", m)
<1>1. /\ answer \in Seq(Key) /\ DOMAIN answer \subseteq Nat
      /\ \A n \in DOMAIN answer : answer[n] \in Key
  BY Assumed DEF ScanAssumption
<1>2. Of("hostkey", m) \subseteq Id
  BY RowsFacts DEF Of, TypeOK
<1>3. ASSUME NEW i \in Of("hostkey", m), NEW ch \in ChangesToKey(i, answer)
      PROVE  ch \in Change /\ ch.id \in Of("hostkey", m)
  <2>1. CASE ch \in Replacements(i, answer)
    <3>1. PICK n \in LinesOf(rows[i].key.type, answer) :
            ch = [op |-> "save", id |-> i, key |-> answer[n], at |-> n]
      BY <2>1 DEF Replacements
    <3>2. n \in Nat /\ answer[n] \in Key
      BY <3>1, <1>1 DEF LinesOf
    <3> QED BY <3>1, <3>2, <1>2, <1>3 DEF Change, Opt
  <2>2. CASE ch = [op |-> "delete", id |-> i, key |-> None, at |-> 0]
    BY <2>2, <1>2, <1>3 DEF Change, Opt
  <2> QED BY <1>3, <2>1, <2>2 DEF ChangesToKey
<1>4. ASSUME NEW ch \in Additions(m, answer) PROVE ch \in Change /\ ch.op = "create"
  <2>1. PICK n \in DOMAIN answer : ch = Adds(n, answer)
    BY <1>4 DEF Additions
  <2>2. n \in Nat /\ answer[n] \in Key
    BY <1>1, <2>1
  <2> QED BY <2>1, <2>2 DEF Adds, Change, Opt
<1>5. \A ch \in Changes(m, answer) :
        ch \in Additions(m, answer) \/ \E i \in Of("hostkey", m) : ch \in ChangesToKey(i, answer)
  BY DEF Changes
<1> QED BY <1>3, <1>4, <1>5

LEMMA StoredIsRow ==
  ASSUME TypeOK, NEW s \in Scanner, NEW ch \in Change
  PROVE  Stored(s, ch) \in Row
<1>1. scan[s].machine \in Opt(Id) /\ ch.key \in Opt(Key)
  BY DEF TypeOK, Scan, Change
<1> QED BY <1>1, KindFacts DEF Stored, KeyRow, Row

LEMMA InsertsDoes ==
  ASSUME TypeOK, NEW row \in Row, Inserts(row)
  PROVE  /\ Table(rows') /\ DOMAIN rows' \subseteq 1..lastId' /\ lastId' \in 0..MaxId
         /\ lastId + 1 \in Id /\ lastId + 1 \notin DOMAIN rows
         /\ DOMAIN rows' = DOMAIN rows \union {lastId + 1}
         /\ rows'[lastId + 1] = row /\ \A i \in DOMAIN rows : rows'[i] = rows[i]
         /\ 1..lastId \subseteq 1..lastId' /\ lastId' = lastId + 1 /\ lastId \in Nat
<1>1. lastId + 1 \notin DOMAIN rows /\ lastId \in Nat /\ lastId + 1 \in Id /\ lastId' = lastId + 1
  BY RowsFacts DEF TypeOK, Inserts
<1>2. Table(rows')
  BY <1>1, PutKeeps, RowsFacts DEF TypeOK, Inserts
<1>3. /\ DOMAIN rows' = DOMAIN rows \union {lastId + 1}
      /\ rows'[lastId + 1] = row /\ \A i \in DOMAIN rows : rows'[i] = rows[i]
  BY <1>1 DEF Inserts, Put
<1>4. lastId' \in 0..MaxId /\ 1..lastId \subseteq 1..lastId'
  BY <1>1, IdFacts DEF Id
<1> QED BY <1>1, <1>2, <1>3, <1>4, RowsFacts DEF TypeOK

LEMMA OverwritesDoes ==
  ASSUME TypeOK, NEW i \in 1..lastId, NEW row \in Row, Overwrites(i, row),
         NEW K, Kinds(K), K[i] = row.kind
  PROVE  /\ Table(rows') /\ DOMAIN rows' \subseteq 1..lastId' /\ lastId' \in 0..MaxId
         /\ DOMAIN rows' = DOMAIN rows \union {i}
         /\ rows'[i] = row /\ \A j \in DOMAIN rows \ {i} : rows'[j] = rows[j]
         /\ \A j \in DOMAIN rows : rows'[j].kind = rows[j].kind
<1>1. /\ DOMAIN rows' = DOMAIN rows \union {i}
      /\ rows'[i] = row /\ \A j \in DOMAIN rows \ {i} : rows'[j] = rows[j]
  BY DEF Overwrites, Put
<1>2. i \in Id /\ (i \in DOMAIN rows => rows[i].kind = row.kind)
  BY RowsFacts DEF TypeOK, Kinds
<1>3. Table(rows')
  BY <1>2, PutKeeps, RowsFacts DEF TypeOK, Overwrites
<1> QED BY <1>1, <1>2, <1>3, RowsFacts DEF TypeOK, InventoryTypeOK, Overwrites

LEMMA RemovesDoes ==
  ASSUME TypeOK, NEW i, Removes(i), ~Referenced(i)
  PROVE  /\ Table(rows') /\ DOMAIN rows' \subseteq 1..lastId' /\ lastId' \in 0..MaxId
         /\ DOMAIN rows' = DOMAIN rows \ {i} /\ \A j \in DOMAIN rows' : rows'[j] = rows[j]
<1>1. /\ DOMAIN rows' = DOMAIN rows \ {i} /\ \A j \in DOMAIN rows' : rows'[j] = rows[j]
      /\ rows' = [k \in DOMAIN rows' |-> rows[k]]
  BY DEF Removes, Without
<1>2. \A k \in DOMAIN rows \ DOMAIN rows' : \A j \in DOMAIN rows' : rows[j].parent # k
  BY <1>1 DEF Referenced
<1>3. Table(rows) /\ DOMAIN rows' \subseteq DOMAIN rows
  BY <1>1, RowsFacts DEF TypeOK
<1>4. Table(rows')
  BY <1>1, <1>2, <1>3, LessKeeps
<1> QED BY <1>1, <1>4, RowsFacts DEF TypeOK, InventoryTypeOK, Removes

-----------------------------------------------------------------------------
(* Each kind of step keeps the types, what is known, and the kinds.        *)
Sound(K) == TypeOK /\ Known /\ Kinds(K)

LEMMA ShapedStays ==
  ASSUME NEW r, Shaped(r), 1..lastId \subseteq 1..lastId'
  PROVE  Shaped(r)'
BY DEF Shaped

LEMMA RequestsSound ==
  ASSUME NEW K, Sound(K), NEW c \in Caller, NEW r \in Request, Requests(c, r)
  PROVE  Sound(K)'
<1>1. /\ UNCHANGED <<rows, lastId, deployment, scan, calm>>
      /\ req' = [req EXCEPT ![c] = r] /\ Shaped(r) /\ Checked(r)
  BY DEF Requests, Opens
<1>2. req \in [Caller -> Request] /\ TypeOK /\ Known /\ Kinds(K)
  BY DEF Sound, TypeOK, InventoryTypeOK
<1>3. /\ req' \in [Caller -> Request] /\ req'[c] = r
      /\ \A d \in Caller \ {c} : req'[d] = req[d]
  BY <1>1, <1>2
<1>4. TypeOK'
  BY <1>1, <1>2, <1>3 DEF TypeOK, InventoryTypeOK, Resolves
<1>5. Dump' = Dump
  BY <1>1 DEF Dump, Site
<1>6. \A d \in Caller : Shaped(req'[d])
  BY <1>1, <1>2, <1>3 DEF Known
<1>7. Known'
  BY <1>1, <1>2, <1>5, <1>6 DEF Known, Shaped
<1>8. r.op = "update" => K[r.id] = r.row.kind
  BY <1>1, <1>2 DEF Checked, Kinds
<1>9. Kinds(K)'
  BY <1>1, <1>2, <1>3, <1>5, <1>8 DEF Kinds
<1> QED BY <1>4, <1>7, <1>9 DEF Sound

LEMMA AnsweredSound ==
  ASSUME NEW K, Sound(K), NEW c \in Caller, Answered(c)
  PROVE  \E L : Sound(L)'
<1> DEFINE L == [i \in Id |-> IF i = lastId + 1 THEN req[c].row.kind ELSE K[i]]
<1>1. /\ UNCHANGED <<deployment, scan>> /\ calm' \in {calm, None}
      /\ req' = [req EXCEPT ![c] = Idle]
  BY DEF Answered, Notices
<1>2. /\ req \in [Caller -> Request] /\ TypeOK /\ Known /\ Kinds(K) /\ Shaped(req[c])
      /\ Dump' = Dump
  BY <1>1 DEF Sound, TypeOK, InventoryTypeOK, Known, Dump, Site
<1>3. /\ req' \in [Caller -> Request] /\ req'[c] = Idle
      /\ \A d \in Caller \ {c} : req'[d] = req[d]
  <2>1. Idle \in Request
    BY DEF Idle, Request, Opt
  <2> QED BY <1>1, <1>2, <2>1
<1>4. /\ Shaped(Idle) /\ Idle.op = "idle"
  BY DEF Shaped, Idle
<1>a. lastId \in Nat
  BY <1>2, RowsFacts DEF TypeOK
<1>5. ASSUME Table(rows'), DOMAIN rows' \subseteq 1..lastId', lastId' \in 0..MaxId,
             1..lastId \subseteq 1..lastId', lastId' \in {lastId, lastId + 1},
             NEW M, \A i \in 1..lastId : M[i] = K[i],
             \A i \in DOMAIN rows' : M[i] = rows'[i].kind
      PROVE  Sound(M)'
  <2>1. InventoryTypeOK'
    <3>1. deployment' \in DOMAIN Deployments
      BY <1>1, <1>2 DEF TypeOK, InventoryTypeOK
    <3> QED BY <1>3, <1>5, <3>1 DEF InventoryTypeOK, Table
  <2>2. TypeOK'
    BY <1>1, <1>2, <2>1 DEF TypeOK, Opt
  <2>3. \A d \in Caller : Shaped(req[d])' 
    <3>1. \A d \in Caller \ {c} : Shaped(req[d]) /\ req'[d] = req[d]
      BY <1>2, <1>3 DEF Known
    <3> QED BY <3>1, <1>3, <1>4, <1>5 DEF Shaped
  <2>4. Len(Dump') <= lastId'
    BY <1>a, <1>2, <1>5, SiteFacts DEF Known, Dump, TypeOK
  <2>5. Known'
    BY <1>1, <1>2, <1>5, <2>3, <2>4 DEF Known
  <2>6. DOMAIN Dump \subseteq 1..lastId
    BY <1>a, <1>2, SiteFacts DEF Known, TypeOK, Dump
  <2>7. \A i \in DOMAIN Dump : M[i] = Dump[i].kind
    BY <1>2, <1>5, <2>6 DEF Kinds
  <2>8. \A d \in Caller : req'[d].op = "update" => M[req'[d].id] = req'[d].row.kind
    BY <1>2, <1>3, <1>4, <1>5 DEF Known, Kinds, Shaped
  <2>9. \A s \in Scanner : \A ch \in scan[s].changes : ch.op # "create" => M[ch.id] = "hostkey"
    BY <1>2, <1>5 DEF Known, Kinds
  <2>10. Kinds(M)'
    BY <1>1, <1>2, <1>5, <2>7, <2>8, <2>9 DEF Kinds
  <2> QED BY <2>2, <2>5, <2>10 DEF Sound
<1>6. CASE req[c].op = "create" /\ Inserts(req[c].row)
  <2>1. req[c].row \in Row
    BY <1>2, <1>6 DEF Shaped
  <2>2. /\ Table(rows') /\ DOMAIN rows' \subseteq 1..lastId' /\ lastId' \in 0..MaxId
        /\ lastId + 1 \in Id /\ lastId + 1 \notin DOMAIN rows
        /\ DOMAIN rows' = DOMAIN rows \union {lastId + 1}
        /\ rows'[lastId + 1] = req[c].row /\ \A i \in DOMAIN rows : rows'[i] = rows[i]
        /\ 1..lastId \subseteq 1..lastId' /\ lastId' = lastId + 1
    BY <1>2, <1>6, <2>1, InsertsDoes
  <2>3. \A i \in 1..lastId : L[i] = K[i]
    BY <1>a, <1>2, RowsFacts DEF TypeOK
  <2>4. \A i \in DOMAIN rows' : L[i] = rows'[i].kind
    <3>1. L[lastId + 1] = req[c].row.kind
      BY <2>2
    <3> HIDE DEF L
    <3> QED BY <1>2, <2>2, <2>3, <3>1, RowsFacts DEF Kinds, TypeOK
  <2> HIDE DEF L
  <2> QED BY <1>5, <2>2, <2>3, <2>4
<1>7. CASE req[c].op = "update" /\ Overwrites(req[c].id, req[c].row)
  <2>1. req[c].row \in Row /\ req[c].id \in 1..lastId /\ K[req[c].id] = req[c].row.kind
    BY <1>2, <1>7 DEF Shaped, Kinds
  <2>2. /\ Table(rows') /\ DOMAIN rows' \subseteq 1..lastId' /\ lastId' \in 0..MaxId
        /\ DOMAIN rows' = DOMAIN rows \union {req[c].id}
        /\ rows'[req[c].id] = req[c].row
        /\ \A j \in DOMAIN rows \ {req[c].id} : rows'[j] = rows[j]
    BY <1>2, <1>7, <2>1, OverwritesDoes
  <2>3. \A i \in DOMAIN rows' : K[i] = rows'[i].kind
    BY <1>2, <2>1, <2>2 DEF Kinds
  <2>4. lastId' = lastId
    BY <1>7 DEF Overwrites
  <2> HIDE DEF L
  <2> QED BY <1>5, <2>2, <2>3, <2>4
<1>8. CASE req[c].op = "destroy" /\ Removes(req[c].id) /\ ~Referenced(req[c].id)
  <2>1. /\ Table(rows') /\ DOMAIN rows' \subseteq 1..lastId' /\ lastId' \in 0..MaxId
        /\ DOMAIN rows' = DOMAIN rows \ {req[c].id} /\ \A j \in DOMAIN rows' : rows'[j] = rows[j]
    BY <1>2, <1>8, RemovesDoes
  <2>2. \A i \in DOMAIN rows' : K[i] = rows'[i].kind
    BY <1>2, <2>1 DEF Kinds
  <2>3. lastId' = lastId
    BY <1>8 DEF Removes
  <2> HIDE DEF L
  <2> QED BY <1>5, <2>1, <2>2, <2>3
<1>9. CASE UNCHANGED <<rows, lastId>>
  <2>1. Table(rows') /\ DOMAIN rows' \subseteq 1..lastId' /\ lastId' \in 0..MaxId
    BY <1>2, <1>9, RowsFacts DEF TypeOK, InventoryTypeOK, Table, Resolves
  <2>2. \A i \in DOMAIN rows' : K[i] = rows'[i].kind
    BY <1>2, <1>9 DEF Kinds
  <2> HIDE DEF L
  <2> QED BY <1>5, <1>9, <2>1, <2>2
<1> HIDE DEF L
<1> QED BY <1>6, <1>7, <1>8, <1>9 DEF Answered

(* A step of a scanner that leaves the tables alone.                       *)
LEMMA ScanSound ==
  ASSUME NEW K, Sound(K), NEW s \in Scanner, NEW next \in Scan,
         UNCHANGED inventoryVars, scan' = [scan EXCEPT ![s] = next], calm' \in Opt(Scanner),
         \A ch \in next.changes : next.machine \in 1..lastId
           /\ (ch.op # "create" => ch.id \in 1..lastId /\ K[ch.id] = "hostkey")
  PROVE  Sound(K)'
<1>1. /\ TypeOK /\ Known /\ Kinds(K) /\ UNCHANGED <<rows, lastId, req, deployment>>
      /\ Dump' = Dump
  BY DEF Sound, inventoryVars, Dump, Site
<1>2. /\ scan' \in [Scanner -> Scan] /\ scan'[s] = next
      /\ \A t \in Scanner \ {s} : scan'[t] = scan[t]
  BY <1>1 DEF TypeOK
<1>3. TypeOK'
  BY <1>1, <1>2 DEF TypeOK, InventoryTypeOK, Resolves
<1>4. Known'
  BY <1>1, <1>2 DEF Known, Shaped
<1>5. Kinds(K)'
  BY <1>1, <1>2 DEF Kinds
<1> QED BY <1>3, <1>4, <1>5 DEF Sound

LEMMA NotScanningTyped == NotScanning \in Scan /\ NotScanning.changes = {}
BY DEF NotScanning, Scan, Opt

LEMMA ListsSound ==
  ASSUME NEW K, Sound(K), NEW s \in Scanner, NEW active \in SUBSET Id, Lists(s, active)
  PROVE  Sound(K)'
<1> DEFINE next == [NotScanning EXCEPT !.todo = active]
<1>1. next \in Scan /\ next.changes = {}
  BY DEF NotScanning, Scan, Opt
<1>2. UNCHANGED inventoryVars /\ scan' = [scan EXCEPT ![s] = next] /\ calm' \in Opt(Scanner)
  BY DEF Lists, Sound, TypeOK, Opt
<1> HIDE DEF next
<1> QED BY <1>1, <1>2, ScanSound

LEMMA StopsSound ==
  ASSUME NEW K, Sound(K), NEW s \in Scanner, Stops(s)
  PROVE  Sound(K)'
<1>1. /\ UNCHANGED inventoryVars /\ scan' = [scan EXCEPT ![s] = NotScanning]
      /\ calm' \in Opt(Scanner)
  BY DEF Stops, Sound, TypeOK, Opt
<1> QED BY <1>1, NotScanningTyped, ScanSound

LEMMA ScansSound ==
  ASSUME NEW K, Sound(K), NEW s \in Scanner, NEW m \in Id, NEW answer \in Opt(Answer),
         Scans(s, m, answer)
  PROVE  Sound(K)'
<1> DEFINE ch == IF answer = None THEN {} ELSE Changes(m, answer)
           next == [todo |-> scan[s].todo \ {m}, machine |-> m, answer |-> answer, changes |-> ch]
<1>1. TypeOK /\ Known /\ Kinds(K) /\ m \in DOMAIN rows
  BY DEF Sound, Scans
<1>2. /\ UNCHANGED inventoryVars /\ scan' = [scan EXCEPT ![s] = next]
      /\ calm' \in Opt(Scanner)
  BY DEF Scans, Opt
<1>3. /\ ch \subseteq Change
      /\ \A x \in ch : x.op # "create" => x.id \in Of("hostkey", m)
  BY <1>1, ChangesTyped DEF Opt
<1>4. /\ \A i \in Of("hostkey", m) : i \in 1..lastId /\ K[i] = "hostkey"
      /\ m \in 1..lastId
  BY <1>1, RowsFacts DEF Of, Kinds, TypeOK
<1> HIDE DEF ch
<1>5. scan[s].todo \subseteq Id
  BY <1>1 DEF TypeOK, Scan
<1>6. next \in Scan /\ next.changes = ch /\ next.machine = m
  BY <1>3, <1>5 DEF Scan, Opt
<1> HIDE DEF next
<1> QED BY <1>2, <1>3, <1>4, <1>6, ScanSound

LEMMA ChangedSound ==
  ASSUME NEW K, Sound(K), NEW s \in Scanner, NEW ch \in Change, Changed(s, ch)
  PROVE  \E L : Sound(L)'
<1> DEFINE L == [i \in Id |-> IF i = lastId + 1 THEN "hostkey" ELSE K[i]]
           row == Stored(s, ch)
<1>1. /\ UNCHANGED <<req, deployment>> /\ calm' \in {s, None} /\ ch \in scan[s].changes
      /\ scan' = [scan EXCEPT ![s].changes = @ \ {ch}]
      /\ TypeOK /\ Known /\ Kinds(K) /\ Dump' = Dump
  BY DEF Changed, Sound, Dump, Site
<1>2. /\ scan' \in [Scanner -> Scan]
      /\ \A t \in Scanner : scan'[t].changes \subseteq scan[t].changes /\ scan'[t].machine = scan[t].machine
  <2>1. scan \in [Scanner -> Scan]
    BY <1>1 DEF TypeOK
  <2> QED BY <1>1, <2>1 DEF Scan
<1>3. lastId \in Nat /\ row \in Row /\ row.kind = "hostkey"
  BY <1>1, RowsFacts, StoredIsRow DEF TypeOK, Stored, KeyRow
<1> HIDE DEF row
<1>4. ASSUME Table(rows'), DOMAIN rows' \subseteq 1..lastId', lastId' \in 0..MaxId,
             1..lastId \subseteq 1..lastId', lastId' \in {lastId, lastId + 1},
             NEW M, \A i \in 1..lastId : M[i] = K[i],
             \A i \in DOMAIN rows' : M[i] = rows'[i].kind
      PROVE  Sound(M)'
  <2>1. TypeOK'
    BY <1>1, <1>2, <1>4 DEF TypeOK, InventoryTypeOK, Table, Opt
  <2>2. \A d \in Caller : Shaped(req[d])'
    BY <1>1, <1>4 DEF Known, Shaped
  <2>3. Len(Dump') <= lastId'
    BY <1>1, <1>3, <1>4, SiteFacts DEF Known, Dump, TypeOK
  <2>4. Known'
    BY <1>1, <1>2, <1>4, <2>2, <2>3 DEF Known
  <2>5. DOMAIN Dump \subseteq 1..lastId
    BY <1>1, <1>3, SiteFacts DEF Known, TypeOK, Dump
  <2>6. \A i \in DOMAIN Dump : M[i] = Dump[i].kind
    BY <1>1, <1>4, <2>5 DEF Kinds
  <2>7. \A d \in Caller : req[d].op = "update" => M[req[d].id] = req[d].row.kind
    BY <1>1, <1>4 DEF Known, Kinds, Shaped
  <2>8. \A t \in Scanner : \A x \in scan[t].changes : x.op # "create" => M[x.id] = "hostkey"
    BY <1>1, <1>4 DEF Known, Kinds
  <2>9. Kinds(M)'
    BY <1>1, <1>2, <1>4, <2>6, <2>7, <2>8 DEF Kinds
  <2> QED BY <2>1, <2>4, <2>9 DEF Sound
<1>5. CASE ch.op = "create" /\ Inserts(row)
  <2>1. /\ Table(rows') /\ DOMAIN rows' \subseteq 1..lastId' /\ lastId' \in 0..MaxId
        /\ lastId + 1 \in Id /\ lastId + 1 \notin DOMAIN rows
        /\ DOMAIN rows' = DOMAIN rows \union {lastId + 1}
        /\ rows'[lastId + 1] = row /\ \A i \in DOMAIN rows : rows'[i] = rows[i]
        /\ 1..lastId \subseteq 1..lastId' /\ lastId' = lastId + 1
    BY <1>1, <1>3, <1>5, InsertsDoes
  <2>2. \A i \in 1..lastId : L[i] = K[i]
    BY <1>1, <1>3, RowsFacts DEF TypeOK
  <2>3. L[lastId + 1] = "hostkey"
    BY <2>1
  <2> HIDE DEF L
  <2>4. \A i \in DOMAIN rows' : L[i] = rows'[i].kind
    BY <1>1, <1>3, <2>1, <2>2, <2>3, RowsFacts DEF Kinds, TypeOK
  <2> QED BY <1>4, <2>1, <2>2, <2>4
<1>6. CASE ch.op = "save" /\ Overwrites(ch.id, row)
  <2>1. ch.id \in 1..lastId /\ K[ch.id] = row.kind
    BY <1>1, <1>3, <1>6 DEF Known, Kinds
  <2>2. /\ Table(rows') /\ DOMAIN rows' \subseteq 1..lastId' /\ lastId' \in 0..MaxId
        /\ DOMAIN rows' = DOMAIN rows \union {ch.id}
        /\ rows'[ch.id] = row
        /\ \A j \in DOMAIN rows \ {ch.id} : rows'[j] = rows[j]
    BY <1>1, <1>3, <1>6, <2>1, OverwritesDoes
  <2>3. \A i \in DOMAIN rows' : K[i] = rows'[i].kind
    BY <1>1, <2>1, <2>2 DEF Kinds
  <2>4. lastId' = lastId
    BY <1>6 DEF Overwrites
  <2> HIDE DEF L
  <2> QED BY <1>4, <2>2, <2>3, <2>4
<1>7. CASE ch.op = "delete" /\ Removes(ch.id)
  <2>1. ~Referenced(ch.id)
    <3> SUFFICES ASSUME NEW j \in DOMAIN rows, rows[j].parent = ch.id PROVE FALSE
      BY DEF Referenced
    <3>1. K[ch.id] = "hostkey" /\ ch.id \in 1..lastId
      BY <1>1, <1>7 DEF Kinds, Known
    <3>2. rows[j].kind \in Kind /\ Resolves(rows[j], rows)
      BY <1>1, RowsFacts, RowFacts DEF TypeOK, Table
    <3>3. rows[j].kind # "participant"
      BY <1>1, <3>1, <3>2, RowsFacts, IdFacts DEF Resolves, TypeOK
    <3>4. ParentKind[rows[j].kind] = "hostkey"
      BY <1>1, <3>1, <3>2, <3>3 DEF Resolves, Kinds
    <3> QED BY <3>2, <3>3, <3>4, KindFacts
  <2>2. /\ Table(rows') /\ DOMAIN rows' \subseteq 1..lastId' /\ lastId' \in 0..MaxId
        /\ DOMAIN rows' = DOMAIN rows \ {ch.id} /\ \A j \in DOMAIN rows' : rows'[j] = rows[j]
    BY <1>1, <1>7, <2>1, RemovesDoes
  <2>3. \A i \in DOMAIN rows' : K[i] = rows'[i].kind
    BY <1>1, <2>2 DEF Kinds
  <2>4. lastId' = lastId
    BY <1>7 DEF Removes
  <2> HIDE DEF L
  <2> QED BY <1>4, <2>2, <2>3, <2>4
<1> HIDE DEF L
<1> QED BY <1>5, <1>6, <1>7 DEF Changed, row

(* A table emptied, or filled again.                                       *)
LEMMA ReseedsDoes ==
  ASSUME TypeOK, Known, NEW kind \in Kind, Reseeds(kind), NEW K, Kinds(K)
  PROVE  /\ Table(rows') /\ DOMAIN rows' \subseteq 1..lastId
         /\ \A i \in DOMAIN rows' :
              (i \in DOMAIN rows /\ rows'[i] = rows[i]) \/ (i \in DOMAIN Dump /\ rows'[i] = Dump[i])
<1>1. CASE Clears(kind)
  <2>1. DOMAIN rows' \subseteq DOMAIN rows /\ rows' = [i \in DOMAIN rows' |-> rows[i]]
        /\ \A i \in DOMAIN rows' : rows'[i] = rows[i]
    BY <1>1 DEF Clears
  <2>2. \A i \in DOMAIN rows \ DOMAIN rows' : i \in StoredOf(kind)
    BY <1>1 DEF Clears
  <2>3. \A i \in DOMAIN rows \ DOMAIN rows' : \A j \in DOMAIN rows' : rows[j].parent # i
    BY <1>1, <2>1, <2>2 DEF Clears, Referenced
  <2>4. Table(rows')
    BY <2>1, <2>3, LessKeeps, RowsFacts DEF TypeOK
  <2> QED BY <2>1, <2>4, RowsFacts DEF TypeOK
<1>2. CASE Imports(kind)
  <2>1. /\ DOMAIN rows' = DOMAIN rows \union DumpOf(kind)
        /\ \A i \in DumpOf(kind) : rows'[i] = Dump[i] /\ i \notin DOMAIN rows /\ i \in DOMAIN Dump
        /\ \A i \in DOMAIN rows : rows'[i] = rows[i]
    BY <1>2 DEF Imports, Imported, DumpOf
  <2>2. DOMAIN Dump \subseteq 1..lastId
    BY SiteFacts, RowsFacts DEF Known, TypeOK, Dump
  <2>3. DOMAIN rows' \subseteq 1..lastId
    BY <2>1, <2>2, RowsFacts DEF TypeOK
  <2>4. \A i \in DOMAIN rows' :
          (i \in DOMAIN rows /\ rows'[i] = rows[i]) \/ (i \in DOMAIN Dump /\ rows'[i] = Dump[i])
    BY <2>1
  <2>5. \A i \in DOMAIN rows' : rows'[i] \in Row
    BY <2>4, SiteFacts DEF TypeOK, InventoryTypeOK, Dump
  <2>6. ASSUME NEW row, Resolves(row, rows) PROVE Resolves(row, rows')
    BY <2>1, <2>6 DEF Resolves
  <2>7. \A i \in DOMAIN rows' : Resolves(rows'[i], rows')
    <3>1. \A i \in DumpOf(kind) : Resolves(Dump[i], rows)
      BY <1>2 DEF Imports
    <3>2. \A i \in DOMAIN rows : Resolves(rows[i], rows)
      BY DEF TypeOK, InventoryTypeOK
    <3> QED BY <2>1, <2>6, <3>1, <3>2
  <2>8. rows' = [i \in DOMAIN rows' |-> rows'[i]]
    BY <1>2 DEF Imports, Imported
  <2>9. Table(rows')
    BY <2>3, <2>5, <2>7, <2>8, RowsFacts DEF Table, TypeOK
  <2> QED BY <2>3, <2>4, <2>9
<1> QED BY <1>1, <1>2 DEF Reseeds

LEMMA ReseedsSound ==
  ASSUME NEW K, Sound(K), NEW kind \in Kind, Reseeds(kind)
  PROVE  Sound(K)'
<1>1. /\ TypeOK /\ Known /\ Kinds(K)
      /\ UNCHANGED <<lastId, req, deployment, scan>> /\ calm' \in {calm, None} /\ Dump' = Dump
  BY DEF Sound, Reseeds, Notices, Dump, Site
<1>2. /\ Table(rows') /\ DOMAIN rows' \subseteq 1..lastId
      /\ \A i \in DOMAIN rows' :
           (i \in DOMAIN rows /\ rows'[i] = rows[i]) \/ (i \in DOMAIN Dump /\ rows'[i] = Dump[i])
  BY <1>1, ReseedsDoes
<1>3. TypeOK'
  BY <1>1, <1>2, TypeIs DEF TypeOK, InventoryTypeOK, Table, Opt
<1>4. Known'
  BY <1>1 DEF Known, Shaped
<1>5. Kinds(K)'
  BY <1>1, <1>2 DEF Kinds
<1> QED BY <1>3, <1>4, <1>5 DEF Sound

LEMMA QuietSound ==
  ASSUME NEW K, Sound(K), UNCHANGED vars
  PROVE  Sound(K)'
<1>1. UNCHANGED <<rows, lastId, req, deployment, scan, calm>> /\ Dump' = Dump
  BY DEF vars, inventoryVars, Dump, Site
<1>2. TypeOK'
  BY <1>1 DEF Sound, TypeOK, InventoryTypeOK, Resolves
<1>3. Known'
  BY <1>1 DEF Sound, Known, Shaped
<1>4. Kinds(K)'
  BY <1>1 DEF Sound, Kinds
<1> QED BY <1>2, <1>3, <1>4 DEF Sound

LEMMA StepsAreSound ==
  ASSUME NEW K, Sound(K), [CommandsNext]_commandVars
  PROVE  \E L : Sound(L)'
<1>1. StepIs
  BY StepCases DEF Sound, commandVars, StepIs
<1> QED BY <1>1, QuietSound, RequestsSound, AnsweredSound, ListsSound, ScansSound, ChangedSound,
           StopsSound, ReseedsSound DEF StepIs

-----------------------------------------------------------------------------
(***************************************************************************)
(* Scope.  A request stands where its row, and the one it refers to, are   *)
(* at home.                                                                *)
(***************************************************************************)
AtHome(h, r) ==
  /\ r.op = "create" => r.row.kind # "participant" /\ h[r.row.parent] = r.org
  /\ r.op \in {"update", "destroy"} => h[r.id] = r.org
  /\ r.op = "update" => Home(h, r.id, r.row)

Homes(h) ==
  /\ Homely(h, rows) /\ Homely(h, Dump)
  /\ \A c \in Caller : AtHome(h, req[c])
  /\ \A s \in Scanner : \A ch \in scan[s].changes :
       ch.op # "create" => h[ch.id] = h[scan[s].machine]

NoAdmins ==
  /\ \A i \in DOMAIN rows : ~rows[i].admin
  /\ \A c \in Caller : /\ ~req[c].admin
                       /\ req[c].op \in {"create", "update"} => ~req[c].row.admin

(* What an ordinary request has of participants and admins, if nothing but *)
(* a scan writes beside it.                                                *)
Reserved(r) ==
  /\ r.op = "create" => r.row.kind # "participant" /\ ~r.row.admin
  /\ r.op = "update" =>
       /\ r.row.kind = "participant" => r.id \in DOMAIN rows
       /\ r.row.admin => r.id \in DOMAIN rows /\ rows[r.id].admin
  /\ r.op = "destroy" =>
       (r.id \in DOMAIN rows /\ rows[r.id].kind = "participant" => Referenced(r.id))

InTurn == Site.serial => \A c, d \in Caller : req[c] # Idle /\ req[d] # Idle => c = d

Scoped ==
  /\ InTurn
  /\ Site.serial /\ OnlyRequests => \A c \in Caller : req[c] # Idle => Checked(req[c])
  /\ Site.serial /\ Site.seeds = {} => \A c \in Caller : Ordinary(c) => Reserved(req[c])
  /\ OnlyOrdinary => NoAdmins /\ \E h : Homes(h)

-----------------------------------------------------------------------------
LEMMA CheckedIsAtHome ==
  ASSUME TypeOK, NEW h, Homely(h, rows), NEW r \in Request, Shaped(r), Checked(r), ~r.admin
  PROVE  AtHome(h, r)
<1>1. Table(rows) /\ InScope(r)
  BY RowsFacts DEF TypeOK, Checked
<1>2. \A i \in DOMAIN rows : OrgOf(i, rows) = h[i]
  BY <1>1, OrgIsHome
<1>3. CASE r.op = "create"
  <2>1. r.row.parent \in DOMAIN rows /\ r.row.kind # "participant"
    BY <1>1, <1>3 DEF Checked, InScope, Resolves
  <2> QED BY <1>1, <1>2, <1>3, <2>1 DEF InScope, AtHome
<1>4. CASE r.op = "update"
  <2>1. r.id \in DOMAIN rows /\ r.row.kind = rows[r.id].kind /\ Resolves(r.row, rows)
    BY <1>4 DEF Checked
  <2>2. h[r.id] = r.org /\ Home(h, r.id, rows[r.id])
    BY <1>1, <1>2, <1>4, <2>1 DEF InScope, Homely
  <2>3. CASE r.row.kind = "participant"
    BY <1>4, <2>1, <2>2, <2>3 DEF Home, AtHome
  <2>4. CASE r.row.kind # "participant" /\ r.row.parent = rows[r.id].parent
    BY <1>4, <2>1, <2>2, <2>4 DEF Home, AtHome
  <2>5. CASE r.row.kind # "participant" /\ r.row.parent # rows[r.id].parent
    <3>1. r.row.parent \in DOMAIN rows /\ h[r.row.parent] = r.org
      BY <1>1, <1>2, <1>4, <2>1, <2>5 DEF Resolves, InScope
    <3> QED BY <1>4, <2>2, <2>5, <3>1 DEF Home, AtHome
  <2> QED BY <2>3, <2>4, <2>5
<1>5. CASE r.op = "destroy"
  <2>1. r.id \in DOMAIN rows
    BY <1>5 DEF Checked
  <2> QED BY <1>1, <1>2, <1>5, <2>1 DEF InScope, AtHome
<1> QED BY <1>3, <1>4, <1>5 DEF AtHome

(* Homes carry over to an id that is new.                                  *)
Grown(h, l) ==
  /\ \A i \in 1..lastId : l[i] = h[i]
  /\ \A i \in 1..lastId, row \in Row :
       /\ row.kind = "participant" \/ row.parent \in 1..lastId
       /\ Home(h, i, row)
       => Home(l, i, row)

LEMMA HomesGrow ==
  ASSUME NEW h, NEW o, NEW l,
         l = [i \in Id |-> IF i = lastId + 1 THEN o ELSE h[i]],
         TypeOK
  PROVE  Grown(h, l)
<1>1. lastId \in Nat /\ 1..lastId \subseteq Id /\ \A i \in 1..lastId : i # lastId + 1
  BY RowsFacts DEF TypeOK
<1>2. \A i \in 1..lastId : l[i] = h[i]
  BY <1>1
<1> QED BY <1>2 DEF Home, Grown

(* The tables after a write, and where their rows are at home.             *)
LEMMA WriteIsHomely ==
  ASSUME NEW K, Sound(K), NEW h, Homely(h, rows), NEW c \in Caller, AtHome(h, req[c]), Answered(c),
         NEW l, l = IF req[c].op = "create" /\ rows' # rows
                    THEN [i \in Id |-> IF i = lastId + 1 THEN req[c].org ELSE h[i]] ELSE h
  PROVE  Homely(l, rows')
<1>1. /\ TypeOK /\ Known /\ Kinds(K) /\ Shaped(req[c]) /\ req[c] \in Request
      /\ Table(rows) /\ DOMAIN rows \subseteq 1..lastId
  BY RowsFacts DEF Sound, Known, TypeOK, InventoryTypeOK
<1>2. CASE rows' = rows
  BY <1>2
<1>3. CASE req[c].op = "create" /\ Inserts(req[c].row) /\ rows' # rows
  <2>1. /\ req[c].row \in Row /\ req[c].row.parent \in 1..lastId
        /\ req[c].row.kind # "participant" /\ h[req[c].row.parent] = req[c].org
    BY <1>1, <1>3 DEF Shaped, AtHome
  <2>2. /\ DOMAIN rows' = DOMAIN rows \union {lastId + 1} /\ lastId + 1 \in Id
        /\ rows'[lastId + 1] = req[c].row /\ \A i \in DOMAIN rows : rows'[i] = rows[i]
    BY <1>1, <1>3, <2>1, InsertsDoes
  <2>3. l = [i \in Id |-> IF i = lastId + 1 THEN req[c].org ELSE h[i]]
    BY <1>3
  <2>4. Grown(h, l)
    BY <1>1, <2>3, HomesGrow
  <2>5. ASSUME NEW i \in DOMAIN rows PROVE Home(l, i, rows'[i])
    <3>1. rows[i] \in Row /\ Home(h, i, rows[i]) /\ i \in 1..lastId
      BY <1>1 DEF Homely, Table
    <3>2. rows[i].kind = "participant" \/ rows[i].parent \in 1..lastId
      BY <1>1 DEF Table, Resolves
    <3> QED BY <2>2, <2>4, <3>1, <3>2 DEF Grown
  <2>6. Home(l, lastId + 1, rows'[lastId + 1])
    <3>1. l[lastId + 1] = req[c].org
      BY <2>2, <2>3
    <3> QED BY <2>1, <2>2, <2>4, <3>1 DEF Home, Grown
  <2> QED BY <2>2, <2>5, <2>6 DEF Homely
<1>4. CASE req[c].op = "update" /\ Overwrites(req[c].id, req[c].row)
  <2>1. /\ req[c].row \in Row /\ req[c].id \in 1..lastId /\ Home(h, req[c].id, req[c].row)
        /\ K[req[c].id] = req[c].row.kind
    BY <1>1, <1>4 DEF Shaped, AtHome, Kinds
  <2>2. /\ DOMAIN rows' = DOMAIN rows \union {req[c].id}
        /\ rows'[req[c].id] = req[c].row
        /\ \A j \in DOMAIN rows \ {req[c].id} : rows'[j] = rows[j]
    BY <1>1, <1>4, <2>1, OverwritesDoes
  <2> QED BY <1>4, <2>1, <2>2 DEF Homely
<1>5. CASE req[c].op = "destroy" /\ Removes(req[c].id) /\ ~Referenced(req[c].id)
  <2>1. DOMAIN rows' = DOMAIN rows \ {req[c].id} /\ \A j \in DOMAIN rows' : rows'[j] = rows[j]
    BY <1>1, <1>5, RemovesDoes
  <2> QED BY <1>5, <2>1 DEF Homely
<1> QED BY <1>2, <1>3, <1>4, <1>5 DEF Answered

(* What such a write touches belongs to the request's participant.         *)
LEMMA WriteIsInScope ==
  ASSUME NEW K, Sound(K), NEW h, Homely(h, rows), NEW c \in Caller, AtHome(h, req[c]), Answered(c),
         NEW i \in Id
  PROVE  /\ i \in DOMAIN rows /\ (i \notin DOMAIN rows' \/ rows'[i] # rows[i]) =>
              OrgOf(i, rows) = req[c].org
         /\ i \in DOMAIN rows' /\ (i \notin DOMAIN rows \/ rows'[i] # rows[i]) =>
              OrgOf(i, rows') = req[c].org
<1> DEFINE l == IF req[c].op = "create" /\ rows' # rows
                THEN [j \in Id |-> IF j = lastId + 1 THEN req[c].org ELSE h[j]] ELSE h
<1>1. /\ TypeOK /\ Known /\ Kinds(K) /\ Shaped(req[c]) /\ Table(rows)
  BY RowsFacts DEF Sound, Known, TypeOK
<1>2. Homely(l, rows')
  BY WriteIsHomely
<1>3. Table(rows')
  <2>1. PICK L : Sound(L)'
    BY AnsweredSound
  <2> QED BY <2>1 DEF Sound, TypeOK, InventoryTypeOK, Table
<1>4. /\ i \in DOMAIN rows => OrgOf(i, rows) = h[i]
      /\ i \in DOMAIN rows' => OrgOf(i, rows') = l[i]
  <2> HIDE DEF l
  <2> QED BY <1>1, <1>2, <1>3, OrgIsHome
<1>5. CASE rows' = rows
  BY <1>5
<1>6. CASE req[c].op = "create" /\ Inserts(req[c].row) /\ rows' # rows
  <2>1. req[c].row \in Row
    BY <1>1, <1>6 DEF Shaped
  <2>2. /\ DOMAIN rows' = DOMAIN rows \union {lastId + 1} /\ \A j \in DOMAIN rows : rows'[j] = rows[j]
    BY <1>1, <1>6, <2>1, InsertsDoes
  <2>3. i = lastId + 1 => l[i] = req[c].org
    BY <1>6
  <2> HIDE DEF l
  <2> QED BY <1>4, <2>2, <2>3
<1>7. CASE req[c].op = "update" /\ Overwrites(req[c].id, req[c].row)
  <2>1. /\ req[c].row \in Row /\ req[c].id \in 1..lastId /\ K[req[c].id] = req[c].row.kind
        /\ h[req[c].id] = req[c].org
    BY <1>1, <1>7 DEF Shaped, AtHome, Kinds
  <2>2. /\ DOMAIN rows' = DOMAIN rows \union {req[c].id}
        /\ \A j \in DOMAIN rows \ {req[c].id} : rows'[j] = rows[j]
    BY <1>1, <1>7, <2>1, OverwritesDoes
  <2>3. l = h
    BY <1>7
  <2> HIDE DEF l
  <2> QED BY <1>4, <2>1, <2>2, <2>3
<1>8. CASE req[c].op = "destroy" /\ Removes(req[c].id) /\ ~Referenced(req[c].id)
  <2>1. DOMAIN rows' = DOMAIN rows \ {req[c].id} /\ \A j \in DOMAIN rows' : rows'[j] = rows[j]
    BY <1>1, <1>8, RemovesDoes
  <2>2. h[req[c].id] = req[c].org /\ l = h
    BY <1>8 DEF AtHome
  <2> HIDE DEF l
  <2> QED BY <1>4, <2>1, <2>2
<1> HIDE DEF l
<1> QED BY <1>5, <1>6, <1>7, <1>8 DEF Answered

-----------------------------------------------------------------------------
(* Requests that come one after the other.                                 *)
LEMMA TurnsKept ==
  ASSUME TypeOK, InTurn, StepIs
  PROVE  InTurn'
<1>0. req \in [Caller -> Request]
  BY DEF TypeOK, InventoryTypeOK
<1>1. ASSUME UNCHANGED <<req, deployment>> PROVE InTurn'
  BY <1>1 DEF InTurn, Site
<1>2. ASSUME NEW c \in Caller, NEW r \in Request, Requests(c, r) PROVE InTurn'
  <2>1. /\ UNCHANGED deployment /\ req' = [req EXCEPT ![c] = r]
        /\ Site.serial => \A d \in Caller : req[d] = Idle
    BY <1>2 DEF Requests, Opens, Free
  <2>2. Site' = Site
    BY <2>1 DEF Site
  <2>3. Site.serial => \A d \in Caller : req'[d] # Idle => d = c
    BY <1>0, <2>1
  <2> QED BY <2>2, <2>3 DEF InTurn
<1>3. ASSUME NEW c \in Caller, Answered(c) PROVE InTurn'
  <2>1. UNCHANGED deployment /\ req' = [req EXCEPT ![c] = Idle]
    BY <1>3 DEF Answered
  <2>2. Site' = Site /\ \A d \in Caller : req'[d] # Idle => req[d] # Idle
    BY <1>0, <2>1 DEF Site
  <2> QED BY <2>2 DEF InTurn
<1>4. ASSUME NEW s \in Scanner, NEW active \in SUBSET Id, Lists(s, active) PROVE InTurn'
  BY <1>1, <1>4 DEF Lists, inventoryVars
<1>5. ASSUME NEW s \in Scanner, NEW m \in Id, NEW answer \in Opt(Answer), Scans(s, m, answer)
      PROVE InTurn'
  BY <1>1, <1>5 DEF Scans, inventoryVars
<1>6. ASSUME NEW s \in Scanner, NEW ch \in Change, Changed(s, ch) PROVE InTurn'
  BY <1>1, <1>6 DEF Changed
<1>7. ASSUME NEW s \in Scanner, Stops(s) PROVE InTurn'
  BY <1>1, <1>7 DEF Stops, inventoryVars
<1>8. ASSUME NEW kind \in Kind, Reseeds(kind) PROVE InTurn'
  BY <1>1, <1>8 DEF Reseeds
<1>9. CASE UNCHANGED vars
  BY <1>1, <1>9 DEF vars, inventoryVars
<1> QED BY <1>2, <1>3, <1>4, <1>5, <1>6, <1>7, <1>8, <1>9 DEF StepIs

(* What an answered request leaves of the others: nothing, in turn.        *)
LEMMA AnsweredAlone ==
  ASSUME TypeOK, InTurn, Site.serial, NEW c \in Caller,
         Answered(c) \/ \E r \in Request : Requests(c, r)
  PROVE  \A d \in Caller : req'[d] # Idle => d = c /\ ~Answered(c)
<1>0. req \in [Caller -> Request]
  BY DEF TypeOK, InventoryTypeOK
<1>1. CASE Answered(c)
  <2>1. req[c] # Idle /\ req' = [req EXCEPT ![c] = Idle]
    BY <1>1 DEF Answered, Idle
  <2>2. \A d \in Caller \ {c} : req[d] = Idle
    BY <2>1 DEF InTurn
  <2> QED BY <1>0, <2>1, <2>2
<1>2. ASSUME NEW r \in Request, Requests(c, r) PROVE \A d \in Caller : req'[d] # Idle => d = c /\ r.op # "idle"
  <2>1. /\ req' = [req EXCEPT ![c] = r] /\ r.op # "idle"
        /\ \A d \in Caller : req[d] = Idle
    BY <1>2 DEF Requests, Opens, Free
  <2> QED BY <1>0, <2>1
<1>3. ASSUME NEW r \in Request, Requests(c, r), Answered(c) PROVE FALSE
  <2>1. req' = [req EXCEPT ![c] = r] /\ r.op # "idle" /\ req' = [req EXCEPT ![c] = Idle]
    BY <1>3 DEF Requests, Opens, Answered
  <2>2. r = Idle
    BY <1>0, <2>1
  <2> QED BY <2>1, <2>2 DEF Idle
<1> QED BY <1>1, <1>2, <1>3

(* In turn, and with nothing else that writes, what a request checked      *)
(* still holds.                                                            *)
LEMMA CheckedKept ==
  ASSUME TypeOK, Present, InTurn, Site.serial /\ OnlyRequests, StepIs,
         \A c \in Caller : req[c] # Idle => Checked(req[c])
  PROVE  (\A c \in Caller : req[c] # Idle => Checked(req[c]))'
<1>0. req \in [Caller -> Request]
  BY DEF TypeOK, InventoryTypeOK
<1>1. ASSUME UNCHANGED <<rows, req>> PROVE (\A c \in Caller : req[c] # Idle => Checked(req[c]))'
  BY <1>1 DEF Checked, InScope, Resolves, OrgOf, Referenced
<1>2. ASSUME NEW c \in Caller, NEW r \in Request, Requests(c, r)
      PROVE  (\A d \in Caller : req[d] # Idle => Checked(req[d]))'
  <2>1. UNCHANGED rows /\ Checked(r) /\ req' = [req EXCEPT ![c] = r]
    BY <1>2 DEF Requests, Opens
  <2>2. Checked(r)'
    BY <2>1 DEF Checked, InScope, Resolves, OrgOf, Referenced
  <2>3. \A d \in Caller : req'[d] # Idle => req'[d] = r
    BY <1>0, <1>2, <2>1, AnsweredAlone
  <2> QED BY <2>2, <2>3 DEF Checked, InScope
<1>3. ASSUME NEW c \in Caller, Answered(c)
      PROVE  (\A d \in Caller : req[d] # Idle => Checked(req[d]))'
  BY <1>3, AnsweredAlone
<1>4. ASSUME NEW s \in Scanner, NEW active \in SUBSET Id, Lists(s, active)
      PROVE UNCHANGED <<rows, req>>
  BY <1>4 DEF Lists, inventoryVars
<1>5. ASSUME NEW s \in Scanner, NEW m \in Id, NEW answer \in Opt(Answer), Scans(s, m, answer)
      PROVE UNCHANGED <<rows, req>>
  BY <1>5 DEF Scans, inventoryVars
<1>6. ASSUME NEW s \in Scanner, NEW ch \in Change, Changed(s, ch) PROVE FALSE
  BY <1>6 DEF Changed, Present, OnlyRequests
<1>7. ASSUME NEW s \in Scanner, Stops(s) PROVE UNCHANGED <<rows, req>>
  BY <1>7 DEF Stops, inventoryVars
<1>8. ASSUME NEW kind \in Kind, Reseeds(kind) PROVE FALSE
  BY <1>8 DEF Reseeds, Present, OnlyRequests
<1>9. CASE UNCHANGED vars
  BY <1>1, <1>9 DEF vars, inventoryVars
<1> QED BY <1>1, <1>2, <1>3, <1>4, <1>5, <1>6, <1>7, <1>8, <1>9 DEF StepIs

(* A scan touches host keys only, and neither participants nor admins.     *)
LEMMA ChangedTouchesKeys ==
  ASSUME NEW K, Sound(K), NEW s \in Scanner, NEW ch \in Change, Changed(s, ch)
  PROVE  \A i \in DOMAIN rows \union DOMAIN rows' :
           (i \in DOMAIN rows /\ rows[i].kind # "hostkey") \/ (i \in DOMAIN rows' /\ rows'[i].kind # "hostkey") =>
             i \in DOMAIN rows /\ i \in DOMAIN rows' /\ rows'[i] = rows[i]
<1>1. /\ TypeOK /\ Known /\ Kinds(K) /\ ch \in scan[s].changes
      /\ Stored(s, ch) \in Row /\ Stored(s, ch).kind = "hostkey"
  BY StoredIsRow DEF Sound, Changed, Stored, KeyRow
<1>2. CASE ch.op = "delete" /\ Removes(ch.id)
  <2>1. ch.id \in DOMAIN rows => rows[ch.id].kind = "hostkey"
    BY <1>1, <1>2 DEF Kinds
  <2>2. DOMAIN rows' = DOMAIN rows \ {ch.id} /\ \A j \in DOMAIN rows' : rows'[j] = rows[j]
    BY <1>2 DEF Removes, Without
  <2> QED BY <2>1, <2>2
<1>3. CASE ch.op = "save" /\ Overwrites(ch.id, Stored(s, ch))
  <2>1. ch.id \in DOMAIN rows => rows[ch.id].kind = "hostkey"
    BY <1>1, <1>3 DEF Kinds
  <2>2. /\ DOMAIN rows' = DOMAIN rows \union {ch.id} /\ rows'[ch.id] = Stored(s, ch)
        /\ \A j \in DOMAIN rows \ {ch.id} : rows'[j] = rows[j]
    BY <1>3 DEF Overwrites, Put
  <2> QED BY <1>1, <2>1, <2>2
<1>4. CASE ch.op = "create" /\ Inserts(Stored(s, ch))
  <2>1. /\ DOMAIN rows' = DOMAIN rows \union {lastId + 1} /\ rows'[lastId + 1] = Stored(s, ch)
        /\ lastId + 1 \notin DOMAIN rows /\ \A j \in DOMAIN rows : rows'[j] = rows[j]
    BY <1>1, <1>4, InsertsDoes
  <2> QED BY <1>1, <2>1
<1> QED BY <1>2, <1>3, <1>4 DEF Changed

LEMMA CheckedIsReserved ==
  ASSUME NEW r, Checked(r), ~r.admin
  PROVE  Reserved(r)
BY DEF Checked, InScope, Reserved

LEMMA ReservedKept ==
  ASSUME NEW K, Sound(K), Present, InTurn, Site.serial /\ Site.seeds = {}, StepIs,
         \A c \in Caller : Ordinary(c) => Reserved(req[c])
  PROVE  (\A c \in Caller : Ordinary(c) => Reserved(req[c]))'
<1>0. req \in [Caller -> Request] /\ TypeOK /\ Known
  BY DEF Sound, TypeOK, InventoryTypeOK
<1>1. ASSUME UNCHANGED <<rows, req>> PROVE (\A c \in Caller : Ordinary(c) => Reserved(req[c]))'
  BY <1>1 DEF Reserved, Ordinary, Referenced
<1>2. ASSUME NEW c \in Caller, NEW r \in Request, Requests(c, r)
      PROVE  (\A d \in Caller : Ordinary(d) => Reserved(req[d]))'
  <2>1. UNCHANGED rows /\ Checked(r) /\ req' = [req EXCEPT ![c] = r]
    BY <1>2 DEF Requests, Opens
  <2>2. ~r.admin => Reserved(r)'
    BY <2>1, CheckedIsReserved DEF Reserved, Referenced
  <2>3. \A d \in Caller : req'[d] # Idle => req'[d] = r
    BY <1>0, <1>2, <2>1, AnsweredAlone
  <2>4. \A d \in Caller : Ordinary(d)' => req'[d] # Idle /\ ~req'[d].admin
    BY DEF Ordinary, Idle
  <2> QED BY <2>2, <2>3, <2>4 DEF Reserved
<1>3. ASSUME NEW c \in Caller, Answered(c)
      PROVE  (\A d \in Caller : Ordinary(d) => Reserved(req[d]))'
  <2>1. \A d \in Caller : req'[d] = Idle
    BY <1>0, <1>3, AnsweredAlone
  <2> QED BY <2>1 DEF Ordinary, Idle
<1>4. ASSUME NEW s \in Scanner, NEW active \in SUBSET Id, Lists(s, active)
      PROVE UNCHANGED <<rows, req>>
  BY <1>4 DEF Lists, inventoryVars
<1>5. ASSUME NEW s \in Scanner, NEW m \in Id, NEW answer \in Opt(Answer), Scans(s, m, answer)
      PROVE UNCHANGED <<rows, req>>
  BY <1>5 DEF Scans, inventoryVars
<1>6. ASSUME NEW s \in Scanner, NEW ch \in Change, Changed(s, ch)
      PROVE  (\A c \in Caller : Ordinary(c) => Reserved(req[c]))'
  <2>1. UNCHANGED req
    BY <1>6 DEF Changed
  <2>2. \A i \in DOMAIN rows \union DOMAIN rows' :
           (i \in DOMAIN rows /\ rows[i].kind # "hostkey") \/ (i \in DOMAIN rows' /\ rows'[i].kind # "hostkey") =>
             i \in DOMAIN rows /\ i \in DOMAIN rows' /\ rows'[i] = rows[i]
    BY <1>6, ChangedTouchesKeys
  <2>3. SUFFICES ASSUME NEW c \in Caller, Ordinary(c), Reserved(req[c]) PROVE Reserved(req[c])'
    BY <2>1 DEF Ordinary
  <2> DEFINE r == req[c]
  <2>4. r.op \in {"create", "update"} => r.row \in Row
    BY <1>0 DEF Known, Shaped
  <2>5. CASE r.op = "create"
    BY <2>1, <2>3, <2>5 DEF Reserved
  <2>6. CASE r.op = "update"
    <3>1. r.row.kind = "participant" => r.id \in DOMAIN rows /\ rows[r.id].kind = "participant"
      BY <2>3, <2>6 DEF Reserved, Sound, Kinds
    <3>2. r.row.kind = "participant" => r.id \in DOMAIN rows'
      BY <2>2, <3>1
    <3>3. r.row.admin => r.id \in DOMAIN rows /\ rows[r.id].admin /\ rows[r.id].kind = "user"
      <4>1. r.row.admin => r.id \in DOMAIN rows /\ rows[r.id].admin
        BY <2>3, <2>6 DEF Reserved
      <4>2. \A i \in DOMAIN rows : rows[i] \in Row
        BY <1>0 DEF TypeOK, InventoryTypeOK
      <4> QED BY <4>1, <4>2, RowFacts
    <3>4. r.row.admin => r.id \in DOMAIN rows' /\ rows'[r.id].admin
      BY <2>2, <3>3
    <3> QED BY <2>1, <2>6, <3>2, <3>4 DEF Reserved
  <2>7. CASE r.op = "destroy"
    <3>1. SUFFICES ASSUME r.id \in DOMAIN rows', rows'[r.id].kind = "participant"
                   PROVE  \E j \in DOMAIN rows' : rows'[j].parent = r.id
      BY <2>1, <2>7 DEF Reserved, Referenced
    <3>2. r.id \in DOMAIN rows /\ rows[r.id].kind = "participant"
      BY <2>2, <3>1
    <3>3. PICK j \in DOMAIN rows : rows[j].parent = r.id
      BY <2>3, <2>7, <3>2 DEF Reserved, Referenced
    <3>4. rows[j].kind # "hostkey"
      <4>1. Resolves(rows[j], rows)
        BY <1>0 DEF TypeOK, InventoryTypeOK
      <4> QED BY <3>2, <3>3, <4>1, KindFacts DEF Resolves
    <3>5. j \in DOMAIN rows' /\ rows'[j] = rows[j]
      BY <2>2, <3>4
    <3> QED BY <3>3, <3>5
  <2>8. CASE r.op \notin {"create", "update", "destroy"}
    BY <2>1, <2>8 DEF Reserved
  <2> QED BY <2>5, <2>6, <2>7, <2>8
<1>7. ASSUME NEW s \in Scanner, Stops(s) PROVE UNCHANGED <<rows, req>>
  BY <1>7 DEF Stops, inventoryVars
<1>8. ASSUME NEW kind \in Kind, Reseeds(kind) PROVE FALSE
  BY <1>8 DEF Reseeds, Present
<1>9. CASE UNCHANGED vars
  BY <1>1, <1>9 DEF vars, inventoryVars
<1> QED BY <1>1, <1>2, <1>3, <1>4, <1>5, <1>6, <1>7, <1>8, <1>9 DEF StepIs

-----------------------------------------------------------------------------
(* Among ordinary users: nobody becomes an admin, and everything stays at  *)
(* home.                                                                   *)
LEMMA RequestsAreOrdinary ==
  ASSUME TypeOK, OnlyOrdinary, NoAdmins, NEW c \in Caller, NEW r \in Request, Requests(c, r)
  PROVE  ~r.admin /\ (r.op \in {"create", "update"} => ~r.row.admin)
<1>1. ~RingAdmin(c)
  BY DEF Requests, Opens, Free, OnlyOrdinary, NoAdmins, RingAdmin, RingUserOf
<1>2. ~r.admin /\ InScope(r) /\ (r.op = "update" => r.id \in DOMAIN rows)
  BY <1>1 DEF Requests, Opens, Checked
<1> QED BY <1>2 DEF InScope, NoAdmins

LEMMA NoAdminsKept ==
  ASSUME NEW K, Sound(K), OnlyOrdinary, NoAdmins, StepIs
  PROVE  NoAdmins'
<1>0. req \in [Caller -> Request] /\ TypeOK /\ Known
  BY DEF Sound, TypeOK, InventoryTypeOK
<1>1. ASSUME UNCHANGED <<rows, req>> PROVE NoAdmins'
  BY <1>1 DEF NoAdmins
<1>2. ASSUME NEW c \in Caller, NEW r \in Request, Requests(c, r) PROVE NoAdmins'
  <2>1. UNCHANGED rows /\ req' = [req EXCEPT ![c] = r]
    BY <1>2 DEF Requests, Opens
  <2>2. ~r.admin /\ (r.op \in {"create", "update"} => ~r.row.admin)
    BY <1>0, <1>2, RequestsAreOrdinary
  <2> QED BY <1>0, <2>1, <2>2 DEF NoAdmins
<1>3. ASSUME NEW c \in Caller, Answered(c) PROVE NoAdmins'
  <2>1. req' = [req EXCEPT ![c] = Idle] /\ ~Idle.admin /\ Idle.op = "idle"
    BY <1>3 DEF Answered, Idle
  <2>2. \A d \in Caller : /\ ~req'[d].admin
                          /\ req'[d].op \in {"create", "update"} => ~req'[d].row.admin
    BY <1>0, <2>1 DEF NoAdmins
  <2>3. \A i \in DOMAIN rows' : ~rows'[i].admin
    BY <1>3 DEF Answered, Inserts, Overwrites, Removes, Put, Without, NoAdmins
  <2> QED BY <2>2, <2>3 DEF NoAdmins
<1>4. ASSUME NEW s \in Scanner, NEW ch \in Change, Changed(s, ch) PROVE NoAdmins'
  <2>1. UNCHANGED req /\ ~Stored(s, ch).admin
    BY <1>4 DEF Changed, Stored, KeyRow
  <2>2. \A i \in DOMAIN rows' : ~rows'[i].admin
    BY <1>4, <2>1 DEF Changed, Inserts, Overwrites, Removes, Put, Without, NoAdmins
  <2> QED BY <2>1, <2>2 DEF NoAdmins
<1>5. ASSUME NEW kind \in Kind, Reseeds(kind) PROVE NoAdmins'
  <2>1. \A i \in DOMAIN rows' :
          (i \in DOMAIN rows /\ rows'[i] = rows[i]) \/ (i \in DOMAIN Dump /\ rows'[i] = Dump[i])
    BY <1>5, ReseedsDoes DEF Sound
  <2>2. UNCHANGED req
    BY <1>5 DEF Reseeds
  <2> QED BY <2>1, <2>2 DEF NoAdmins, OnlyOrdinary, Dump
<1>6. ASSUME NEW s \in Scanner, NEW active \in SUBSET Id, Lists(s, active)
      PROVE UNCHANGED <<rows, req>>
  BY <1>6 DEF Lists, inventoryVars
<1>7. ASSUME NEW s \in Scanner, NEW m \in Id, NEW answer \in Opt(Answer), Scans(s, m, answer)
      PROVE UNCHANGED <<rows, req>>
  BY <1>7 DEF Scans, inventoryVars
<1>8. ASSUME NEW s \in Scanner, Stops(s) PROVE UNCHANGED <<rows, req>>
  BY <1>8 DEF Stops, inventoryVars
<1>9. CASE UNCHANGED vars
  BY <1>1, <1>9 DEF vars, inventoryVars
<1> QED BY <1>1, <1>2, <1>3, <1>4, <1>5, <1>6, <1>7, <1>8, <1>9 DEF StepIs

(* An id that is new gets a home; nothing else moves.                      *)
LEMMA NewHome ==
  ASSUME NEW K, Sound(K), NEW h, Homes(h), NEW o, NEW l,
         l = [i \in Id |-> IF i = lastId + 1 THEN o ELSE h[i]]
  PROVE  /\ Homely(l, Dump)
         /\ \A c \in Caller : AtHome(l, req[c])
         /\ \A s \in Scanner : \A ch \in scan[s].changes :
              ch.op # "create" => l[ch.id] = l[scan[s].machine]
<1>0. TypeOK /\ Known
  BY DEF Sound
<1>a. Grown(h, l)
  BY <1>0, HomesGrow
<1>1. /\ TypeOK /\ Known
      /\ \A i \in 1..lastId : l[i] = h[i]
      /\ \A i \in 1..lastId, row \in Row :
           /\ row.kind = "participant" \/ row.parent \in 1..lastId
           /\ Home(h, i, row)
           => Home(l, i, row)
  BY <1>0, <1>a DEF Grown
<1>2. DOMAIN Dump \subseteq 1..lastId
  BY <1>1, SiteFacts, RowsFacts DEF Known, TypeOK, Dump
<1>3. ASSUME NEW i \in DOMAIN Dump PROVE Home(l, i, Dump[i])
  <2>1. Dump[i] \in Row /\ Resolves(Dump[i], Dump) /\ Home(h, i, Dump[i])
    BY <1>1, SiteFacts DEF TypeOK, Dump, Homes, Homely
  <2>2. Dump[i].kind = "participant" \/ Dump[i].parent \in 1..lastId
    BY <1>2, <2>1 DEF Resolves
  <2> QED BY <1>1, <1>2, <2>1, <2>2
<1>4. ASSUME NEW c \in Caller PROVE AtHome(l, req[c])
  <2>1. Shaped(req[c]) /\ AtHome(h, req[c])
    BY <1>1 DEF Known, Homes
  <2>2. CASE req[c].op = "create"
    BY <1>1, <2>1, <2>2 DEF Shaped, AtHome
  <2>3. CASE req[c].op = "update"
    <3>1. /\ req[c].row \in Row /\ req[c].id \in 1..lastId
          /\ req[c].row.kind = "participant" \/ req[c].row.parent \in 1..lastId
      BY <2>1, <2>3 DEF Shaped
    <3>2. Home(h, req[c].id, req[c].row) /\ h[req[c].id] = req[c].org
      BY <2>1, <2>3 DEF AtHome
    <3>3. Home(l, req[c].id, req[c].row) /\ l[req[c].id] = req[c].org
      BY <1>1, <3>1, <3>2
    <3> QED BY <2>3, <3>3 DEF AtHome
  <2>4. CASE req[c].op \notin {"create", "update"}
    BY <1>1, <2>1, <2>4 DEF Shaped, AtHome
  <2> QED BY <2>2, <2>3, <2>4
<1>5. \A s \in Scanner : \A ch \in scan[s].changes :
        ch.op # "create" => l[ch.id] = l[scan[s].machine]
  BY <1>1 DEF Known, Homes
<1> QED BY <1>3, <1>4, <1>5 DEF Homely

LEMMA HomesKept ==
  ASSUME NEW K, Sound(K), OnlyOrdinary, NoAdmins, NEW h, Homes(h), StepIs
  PROVE  \E l : Homes(l)'
<1>0. req \in [Caller -> Request] /\ scan \in [Scanner -> Scan] /\ TypeOK /\ Known /\ Kinds(K)
  BY DEF Sound, TypeOK, InventoryTypeOK
<1>a. Dump' = Dump
  <2>1. UNCHANGED deployment
    BY DEF StepIs, Requests, Opens, Answered, Lists, Scans, Changed, Stops, Reseeds, vars, inventoryVars
  <2> QED BY <2>1 DEF Dump, Site
<1>1. ASSUME NEW c \in Caller, NEW r \in Request, Requests(c, r) PROVE Homes(h)'
  <2>1. UNCHANGED <<rows, scan>> /\ Shaped(r) /\ Checked(r) /\ req' = [req EXCEPT ![c] = r]
    BY <1>1 DEF Requests, Opens
  <2>2. ~r.admin
    BY <1>0, <1>1, RequestsAreOrdinary
  <2>3. AtHome(h, r)
    BY <1>0, <2>1, <2>2, CheckedIsAtHome DEF Homes
  <2>4. \A d \in Caller : AtHome(h, req'[d])
    BY <1>0, <2>1, <2>3 DEF Homes
  <2> QED BY <1>a, <2>1, <2>4 DEF Homes, Homely
<1>2. ASSUME NEW c \in Caller, Answered(c) PROVE \E l : Homes(l)'
  <2>a. PICK l : l = IF req[c].op = "create" /\ rows' # rows
                     THEN [i \in Id |-> IF i = lastId + 1 THEN req[c].org ELSE h[i]] ELSE h
    OBVIOUS
  <2>1. AtHome(h, req[c]) /\ Homely(h, rows)
    BY DEF Homes
  <2>2. Homely(l, rows')
    BY <1>2, <2>a, <2>1, WriteIsHomely
  <2>3. /\ Homely(l, Dump)
        /\ \A d \in Caller : AtHome(l, req[d])
        /\ \A s \in Scanner : \A ch \in scan[s].changes :
              ch.op # "create" => l[ch.id] = l[scan[s].machine]
    <3>1. CASE req[c].op = "create" /\ rows' # rows
      <4>1. l = [i \in Id |-> IF i = lastId + 1 THEN req[c].org ELSE h[i]]
        BY <2>a, <3>1
      <4> QED BY <4>1, NewHome
    <3>2. CASE ~(req[c].op = "create" /\ rows' # rows)
      <4>1. l = h
        BY <2>a, <3>2
      <4> QED BY <4>1 DEF Homes
    <3> QED BY <3>1, <3>2
  <2>4. req' = [req EXCEPT ![c] = Idle] /\ UNCHANGED scan /\ Idle.op = "idle"
    BY <1>2 DEF Answered, Idle
  <2>5. \A d \in Caller : AtHome(l, req'[d])
    BY <1>0, <2>3, <2>4 DEF AtHome
  <2>6. Homes(l)'
    BY <1>a, <2>2, <2>3, <2>4, <2>5 DEF Homes
  <2> QED BY <2>6
<1>3. ASSUME NEW s \in Scanner, NEW m \in Id, NEW answer \in Opt(Answer), Scans(s, m, answer)
      PROVE Homes(h)'
  <2>1. /\ UNCHANGED <<rows, req>> /\ m \in DOMAIN rows
        /\ \A t \in Scanner \ {s} : scan'[t] = scan[t]
        /\ scan'[s].machine = m
        /\ scan'[s].changes = IF answer = None THEN {} ELSE Changes(m, answer)
    BY <1>0, <1>3 DEF Scans, inventoryVars
  <2>2. \A ch \in scan'[s].changes : ch.op # "create" => ch.id \in Of("hostkey", m)
    BY <1>0, <2>1, ChangesTyped DEF Opt
  <2>3. \A i \in Of("hostkey", m) : h[i] = h[m]
    BY DEF Of, Homes, Homely, Home
  <2>4. \A t \in Scanner : \A ch \in scan'[t].changes :
          ch.op # "create" => h[ch.id] = h[scan'[t].machine]
    BY <2>1, <2>2, <2>3 DEF Homes
  <2> QED BY <1>a, <2>1, <2>4 DEF Homes
<1>4. ASSUME NEW s \in Scanner, NEW ch \in Change, Changed(s, ch) PROVE \E l : Homes(l)'
  <2> DEFINE o == h[scan[s].machine]
             row == Stored(s, ch)
  <2>a. PICK l : l = IF ch.op = "create" THEN [i \in Id |-> IF i = lastId + 1 THEN o ELSE h[i]] ELSE h
    OBVIOUS
  <2>1. /\ UNCHANGED req /\ ch \in scan[s].changes
        /\ \A t \in Scanner : scan'[t].changes \subseteq scan[t].changes /\ scan'[t].machine = scan[t].machine
    BY <1>0, <1>4 DEF Changed, Scan
  <2>2. /\ row \in Row /\ row.kind = "hostkey" /\ row.parent = scan[s].machine
        /\ scan[s].machine \in 1..lastId
    BY <1>0, <2>1, StoredIsRow DEF Stored, KeyRow, Known
  <2> HIDE DEF row
  <2>3. /\ Homely(l, Dump)
        /\ \A d \in Caller : AtHome(l, req[d])
        /\ \A t \in Scanner : \A x \in scan[t].changes :
              x.op # "create" => l[x.id] = l[scan[t].machine]
    <3>1. CASE ch.op = "create"
      <4>1. l = [i \in Id |-> IF i = lastId + 1 THEN o ELSE h[i]]
        BY <2>a, <3>1
      <4> HIDE DEF o
      <4> QED BY <4>1, NewHome
    <3>2. CASE ch.op # "create"
      <4>1. l = h
        BY <2>a, <3>2
      <4> QED BY <4>1 DEF Homes
    <3> QED BY <3>1, <3>2
  <2>4. Homely(l, rows')
    <3>1. CASE ch.op = "create" /\ Inserts(row)
      <4>1. l = [i \in Id |-> IF i = lastId + 1 THEN o ELSE h[i]]
        BY <2>a, <3>1
      <4>2. /\ DOMAIN rows' = DOMAIN rows \union {lastId + 1} /\ lastId + 1 \in Id
            /\ rows'[lastId + 1] = row /\ \A i \in DOMAIN rows : rows'[i] = rows[i]
        BY <1>0, <2>2, <3>1, InsertsDoes
      <4>3. l[lastId + 1] = o
        BY <4>1, <4>2
      <4>4. Grown(h, l)
        <5> HIDE DEF o
        <5> QED BY <1>0, <4>1, HomesGrow
      <4>5. Home(l, lastId + 1, row)
        BY <2>2, <4>3, <4>4 DEF Home, Grown
      <4>6. ASSUME NEW i \in DOMAIN rows PROVE Home(l, i, rows[i])
        <5>1. rows[i] \in Row /\ i \in 1..lastId /\ Resolves(rows[i], rows) /\ Home(h, i, rows[i])
          BY <1>0, RowsFacts DEF TypeOK, Table, Homes, Homely
        <5>2. rows[i].kind = "participant" \/ rows[i].parent \in 1..lastId
          BY <1>0, <5>1, RowsFacts DEF TypeOK, Resolves
        <5> QED BY <4>4, <5>1, <5>2 DEF Grown
      <4> QED BY <4>2, <4>5, <4>6 DEF Homely
    <3>2. CASE ch.op = "save" /\ Overwrites(ch.id, row)
      <4>1. l = h /\ h[ch.id] = h[scan[s].machine]
        BY <2>a, <2>1, <3>2 DEF Homes
      <4>2. /\ DOMAIN rows' = DOMAIN rows \union {ch.id} /\ rows'[ch.id] = row
            /\ \A j \in DOMAIN rows \ {ch.id} : rows'[j] = rows[j]
        BY <3>2 DEF Overwrites, Put
      <4>3. Home(l, ch.id, row)
        BY <2>2, <4>1 DEF Home
      <4> QED BY <4>1, <4>2, <4>3 DEF Homely, Homes
    <3>3. CASE ch.op = "delete" /\ Removes(ch.id)
      <4>1. l = h
        BY <2>a, <3>3
      <4>2. DOMAIN rows' \subseteq DOMAIN rows /\ \A j \in DOMAIN rows' : rows'[j] = rows[j]
        BY <3>3 DEF Removes, Without
      <4> QED BY <4>1, <4>2 DEF Homely, Homes
    <3> QED BY <1>4, <3>1, <3>2, <3>3 DEF Changed, row
  <2>5. Homes(l)'
    BY <1>a, <2>1, <2>3, <2>4 DEF Homes
  <2> QED BY <2>5
<1>5. ASSUME NEW kind \in Kind, Reseeds(kind) PROVE Homes(h)'
  <2>1. \A i \in DOMAIN rows' :
          (i \in DOMAIN rows /\ rows'[i] = rows[i]) \/ (i \in DOMAIN Dump /\ rows'[i] = Dump[i])
    BY <1>0, <1>5, ReseedsDoes
  <2>2. UNCHANGED <<req, scan>>
    BY <1>5 DEF Reseeds
  <2> QED BY <1>a, <2>1, <2>2 DEF Homes, Homely
<1>6. ASSUME UNCHANGED <<rows, req>>,
             \A s \in Scanner : scan'[s] = scan[s] \/ scan'[s].changes = {}
      PROVE Homes(h)'
  BY <1>a, <1>6 DEF Homes
<1>7. ASSUME NEW s \in Scanner, NEW active \in SUBSET Id, Lists(s, active) PROVE Homes(h)'
  BY <1>0, <1>6, <1>7 DEF Lists, inventoryVars, NotScanning
<1>8. ASSUME NEW s \in Scanner, Stops(s) PROVE Homes(h)'
  BY <1>0, <1>6, <1>8 DEF Stops, inventoryVars, NotScanning
<1>9. CASE UNCHANGED vars
  BY <1>6, <1>9 DEF vars, inventoryVars
<1> QED BY <1>1, <1>2, <1>3, <1>4, <1>5, <1>7, <1>8, <1>9 DEF StepIs

-----------------------------------------------------------------------------
(***************************************************************************)
(* The seed: its types, and that it runs only where the deployment has it. *)
(***************************************************************************)
SeedStep == (seed.todo = {} /\ Site.seeds = {}) => seed'.todo = {}

LEMMA SeedKept ==
  ASSUME TypeOK, SeedTypeOK, [CommandsNext]_commandVars
  PROVE  SeedTypeOK' /\ SeedStep
<1> DEFINE T == [todo: SUBSET Statement, only: SUBSET Kind, clear: BOOLEAN,
                 end: {None, "done", "failed"}, still: BOOLEAN]
<1>1. seed \in T
  BY DEF SeedTypeOK
<1>2. CASE UNCHANGED seed
  BY <1>1, <1>2 DEF SeedTypeOK, SeedStep
<1>3. CASE RowsSeenBySeed
  BY <1>1, <1>3 DEF RowsSeenBySeed, SeedTypeOK, SeedStep
<1>4. ASSUME NEW x \in Site.seeds, StartSeed(x.only, x.clear) PROVE SeedTypeOK' /\ SeedStep
  <2>1. x.only \subseteq Kind /\ x.clear \in BOOLEAN
    BY Assumed DEF CommandsAssumption, SeedSiteOK, Site, TypeOK, InventoryTypeOK
  <2>2. [op: IF x.clear THEN {"clear", "import"} ELSE {"import"}, kind: x.only] \subseteq Statement
    BY <2>1 DEF Statement
  <2>3. seed' \in T
    BY <1>4, <2>1, <2>2 DEF StartSeed
  <2> QED BY <2>3 DEF SeedTypeOK, SeedStep
<1>5. ASSUME NEW end \in {None, "failed"}, Ends(end) PROVE SeedTypeOK' /\ SeedStep
  <2>1. seed' \in T /\ seed'.todo = {}
    BY <1>1, <1>5 DEF Ends
  <2> QED BY <2>1 DEF SeedTypeOK, SeedStep
<1>6. ASSUME NEW st, Proceeds(st), st \in seed.todo PROVE SeedTypeOK' /\ SeedStep
  <2>1. seed' \in T
    BY <1>1, <1>6 DEF Proceeds
  <2> QED BY <1>6, <2>1 DEF SeedTypeOK, SeedStep
<1>7. ASSUME NEW kind \in Kind, ClearTable(kind) \/ ImportTable(kind) PROVE SeedTypeOK' /\ SeedStep
  BY <1>5, <1>6, <1>7 DEF ClearTable, ImportTable, Due
<1>8. CASE SeedDies
  BY <1>5, <1>8 DEF SeedDies
<1>9. CASE Seeds
  BY <1>4, <1>7, <1>8, <1>9 DEF Seeds
<1> QED BY <1>2, <1>3, <1>9 DEF CommandsNext, commandVars

LEMMA PresentKept ==
  ASSUME TypeOK, StepIs, SeedStep, Present
  PROVE  Present'
<1>0. scan \in [Scanner -> Scan]
  BY DEF TypeOK
<1>a. UNCHANGED deployment
  BY DEF StepIs, Requests, Opens, Answered, Lists, Scans, Changed, Stops, Reseeds, vars, inventoryVars
<1>b. Site' = Site
  BY <1>a DEF Site
<1>1. \A s \in Scanner \ Site.scanners : scan'[s].todo = {} /\ scan'[s].changes = {}
  <2> TAKE s \in Scanner \ Site.scanners
  <2>0. scan[s].todo = {} /\ scan[s].changes = {}
    BY DEF Present
  <2>1. ASSUME NEW t \in Scanner, NEW active \in SUBSET Id, Lists(t, active) PROVE scan'[s] = scan[s]
    BY <1>0, <2>1 DEF Lists
  <2>2. ASSUME NEW t \in Scanner, NEW m \in Id, NEW answer \in Opt(Answer), Scans(t, m, answer)
        PROVE scan'[s] = scan[s]
    BY <1>0, <2>0, <2>2 DEF Scans
  <2>3. ASSUME NEW t \in Scanner, NEW ch \in Change, Changed(t, ch) PROVE scan'[s] = scan[s]
    BY <1>0, <2>0, <2>3 DEF Changed
  <2>4. ASSUME NEW t \in Scanner, Stops(t) PROVE scan'[s] = scan[s] \/ scan'[s] = NotScanning
    BY <1>0, <2>4 DEF Stops
  <2>5. ASSUME UNCHANGED scan PROVE scan'[s] = scan[s]
    BY <2>5
  <2>6. scan'[s] = scan[s] \/ scan'[s] = NotScanning
    BY <2>1, <2>2, <2>3, <2>4, <2>5 DEF StepIs, Requests, Answered, Reseeds, vars
  <2> QED BY <2>0, <2>6 DEF NotScanning
<1> QED BY <1>1, <1>b DEF Present, SeedStep

LEMMA ScopedKept ==
  ASSUME NEW K, Sound(K), Present, Scoped, StepIs
  PROVE  Scoped'
<1>1. TypeOK
  BY DEF Sound
<1>2. Site' = Site
  BY DEF StepIs, Requests, Opens, Answered, Lists, Scans, Changed, Stops, Reseeds, vars, inventoryVars, Site
<1>3. /\ OnlyRequests' = OnlyRequests /\ OnlyOrdinary' = OnlyOrdinary
  BY <1>2 DEF OnlyRequests, OnlyOrdinary
<1>4. InTurn'
  BY <1>1, TurnsKept DEF Scoped
<1>5. Site.serial /\ OnlyRequests => (\A c \in Caller : req[c] # Idle => Checked(req[c]))'
  BY <1>1, CheckedKept DEF Scoped
<1>6. Site.serial /\ Site.seeds = {} => (\A c \in Caller : Ordinary(c) => Reserved(req[c]))'
  BY ReservedKept DEF Scoped
<1>7. OnlyOrdinary => NoAdmins' /\ \E l : Homes(l)'
  BY NoAdminsKept, HomesKept DEF Scoped
<1>8. (\E l : Homes(l)') => (\E l : Homes(l))'
  OBVIOUS
<1> QED BY <1>2, <1>3, <1>4, <1>5, <1>6, <1>7, <1>8 DEF Scoped

-----------------------------------------------------------------------------
(* A request that writes and ends is answered by that step.                *)
LEMMA WritesIsAnswer ==
  ASSUME TypeOK, StepIs, NEW c \in Caller, Writes(c)
  PROVE  Answered(c)
<1>0. req \in [Caller -> Request]
  BY DEF TypeOK, InventoryTypeOK
<1>1. req[c] # Idle /\ req'[c] = Idle /\ rows' # rows
  BY DEF Writes, Answers
<1>2. ASSUME NEW d \in Caller, Answered(d) PROVE d = c
  BY <1>0, <1>1, <1>2 DEF Answered
<1> QED BY <1>1, <1>2 DEF StepIs, Requests, Opens, Lists, Scans, Changed, Stops, Reseeds, vars, inventoryVars

LEMMA ScopeStep ==
  ASSUME NEW K, Sound(K), Scoped, StepIs, NEW c \in Caller,
         Ordinary(c), Writes(c), OnlyOrdinary \/ (Site.serial /\ OnlyRequests), NEW i \in Id
  PROVE  /\ i \in DOMAIN rows /\ (i \notin DOMAIN rows' \/ rows'[i] # rows[i]) =>
              OrgOf(i, rows) = req[c].org
         /\ i \in DOMAIN rows' /\ (i \notin DOMAIN rows \/ rows'[i] # rows[i]) =>
              OrgOf(i, rows') = req[c].org
<1>1. TypeOK /\ Known /\ Answered(c) /\ Shaped(req[c]) /\ req[c] \in Request /\ Table(rows)
  BY WritesIsAnswer, RowsFacts DEF Sound, Known, TypeOK, InventoryTypeOK
<1>2. \E h : Homely(h, rows) /\ AtHome(h, req[c])
  <2>1. CASE OnlyOrdinary
    BY <2>1 DEF Scoped, Homes
  <2>2. CASE Site.serial /\ OnlyRequests
    <3>1. PICK h : h = [j \in Id |-> IF j \in DOMAIN rows THEN OrgOf(j, rows) ELSE j]
      OBVIOUS
    <3>2. Homely(h, rows)
      BY <1>1, <3>1, OrgsAreHomes
    <3>3. Checked(req[c]) /\ ~req[c].admin
      BY <2>2 DEF Scoped, Writes, Answers, Ordinary
    <3>4. AtHome(h, req[c])
      BY <1>1, <3>2, <3>3, CheckedIsAtHome
    <3> QED BY <3>2, <3>4
  <2> QED BY <2>1, <2>2
<1> QED BY <1>1, <1>2, WriteIsInScope

LEMMA ReservedStep ==
  ASSUME NEW K, Sound(K), Scoped, StepIs, NEW c \in Caller,
         Ordinary(c), Writes(c), Site.serial, Site.seeds = {}
  PROVE  Participants(rows') = Participants(rows) /\ Admins(rows') \subseteq Admins(rows)
<1>1. TypeOK /\ Known /\ Kinds(K) /\ Answered(c) /\ Shaped(req[c]) /\ Reserved(req[c]) /\ rows' # rows
  BY WritesIsAnswer DEF Sound, Known, Scoped, Writes
<1>2. CASE req[c].op = "create" /\ Inserts(req[c].row)
  <2>1. req[c].row \in Row /\ req[c].row.kind # "participant" /\ ~req[c].row.admin
    BY <1>1, <1>2 DEF Shaped, Reserved
  <2>2. /\ DOMAIN rows' = DOMAIN rows \union {lastId + 1} /\ lastId + 1 \notin DOMAIN rows
        /\ rows'[lastId + 1] = req[c].row /\ \A i \in DOMAIN rows : rows'[i] = rows[i]
    BY <1>1, <1>2, <2>1, InsertsDoes
  <2> QED BY <2>1, <2>2 DEF Participants, Admins
<1>3. CASE req[c].op = "update" /\ Overwrites(req[c].id, req[c].row)
  <2>1. /\ req[c].row \in Row /\ req[c].id \in 1..lastId /\ K[req[c].id] = req[c].row.kind
        /\ req[c].row.kind = "participant" => req[c].id \in DOMAIN rows
        /\ req[c].row.admin => req[c].id \in DOMAIN rows /\ rows[req[c].id].admin
    BY <1>1, <1>3 DEF Shaped, Kinds, Reserved
  <2>2. /\ DOMAIN rows' = DOMAIN rows \union {req[c].id} /\ rows'[req[c].id] = req[c].row
        /\ \A j \in DOMAIN rows \ {req[c].id} : rows'[j] = rows[j]
        /\ \A j \in DOMAIN rows : rows'[j].kind = rows[j].kind
    BY <1>1, <1>3, <2>1, OverwritesDoes
  <2> QED BY <2>1, <2>2 DEF Participants, Admins
<1>4. CASE req[c].op = "destroy" /\ Removes(req[c].id) /\ ~Referenced(req[c].id)
  <2>1. req[c].id \in DOMAIN rows => rows[req[c].id].kind # "participant"
    BY <1>1, <1>4 DEF Reserved
  <2>2. DOMAIN rows' = DOMAIN rows \ {req[c].id} /\ \A j \in DOMAIN rows' : rows'[j] = rows[j]
    BY <1>1, <1>4, RemovesDoes
  <2> QED BY <2>1, <2>2 DEF Participants, Admins
<1> QED BY <1>1, <1>2, <1>3, <1>4 DEF Answered

-----------------------------------------------------------------------------
Inv == Present /\ SeedTypeOK /\ Scoped /\ \E K : Sound(K)

LEMMA InitInv ==
  ASSUME CommandsInit
  PROVE  Inv
<1>1. /\ deployment \in DOMAIN Deployments /\ rows = Dump /\ lastId = Len(Site.rows)
      /\ req = [c \in Caller |-> Idle] /\ scan = [s \in Scanner |-> NotScanning] /\ calm = None
      /\ seed = NoSeed
  BY DEF CommandsInit, Init, InventoryInit, SeedInit, Dump
<1>2. /\ Dump \in Seq(Row) /\ \A n \in DOMAIN Dump : Resolves(Dump[n], Dump)
      /\ Len(Dump) \in Nat /\ Len(Dump) <= MaxId
  BY <1>1, Assumed DEF InventoryAssumption, Site, Dump
<1>3. DOMAIN Dump = 1..Len(Dump) /\ Dump \in [DOMAIN Dump -> Row]
  BY <1>2
<1>4. lastId = Len(Dump)
  BY <1>1 DEF Dump
<1>5. Idle \in Request /\ Idle.op = "idle" /\ ~Idle.admin
  BY DEF Idle, Request, Opt
<1>6. InventoryTypeOK
  <2>1. DOMAIN rows \subseteq Id /\ rows \in [DOMAIN rows -> Row]
    BY <1>1, <1>2, <1>3, IdFacts DEF Id
  <2>2. \A i \in DOMAIN rows : i <= lastId /\ Resolves(rows[i], rows)
    BY <1>1, <1>2, <1>3, <1>4
  <2>3. lastId \in 0..MaxId
    BY <1>2, <1>4, IdFacts
  <2> QED BY <1>1, <1>5, <2>1, <2>2, <2>3 DEF InventoryTypeOK
<1>7. TypeOK
  BY <1>1, <1>6, NotScanningTyped DEF TypeOK, Opt
<1>8. Known
  BY <1>1, <1>2, <1>4, <1>5, NotScanningTyped DEF Known, Shaped
<1>9. PICK K : K = [i \in DOMAIN Dump |-> Dump[i].kind]
  OBVIOUS
<1>10. Kinds(K)
  BY <1>1, <1>5, <1>9, NotScanningTyped DEF Kinds
<1>11. Present
  BY <1>1 DEF Present, NoSeed, NotScanning
<1>12. SeedTypeOK
  BY <1>1 DEF SeedTypeOK, NoSeed
<1>13. InTurn
  BY <1>1 DEF InTurn
<1>14. \A c \in Caller : req[c] = Idle /\ ~Ordinary(c) /\ req[c].op = "idle"
  BY <1>1, <1>5 DEF Ordinary
<1>15. OnlyOrdinary => NoAdmins
  BY <1>1, <1>5 DEF OnlyOrdinary, NoAdmins, Dump
<1>16. \E h : Homes(h)
  <2>1. PICK h : h = [i \in Id |-> IF i \in DOMAIN rows THEN OrgOf(i, rows) ELSE i]
    OBVIOUS
  <2>2. Homely(h, rows)
    BY <1>7, <2>1, OrgsAreHomes, RowsFacts DEF TypeOK
  <2>3. Homes(h)
    BY <1>1, <1>14, <2>2, NotScanningTyped DEF Homes, AtHome
  <2> QED BY <2>3
<1>17. Scoped
  BY <1>13, <1>14, <1>15, <1>16 DEF Scoped
<1> QED BY <1>7, <1>8, <1>10, <1>11, <1>12, <1>17 DEF Inv, Sound

LEMMA NextInv ==
  ASSUME Inv, [CommandsNext]_commandVars
  PROVE  Inv' /\ StepIs
<1>1. PICK K : Sound(K)
  BY DEF Inv
<1>2. TypeOK
  BY <1>1 DEF Sound
<1>3. StepIs
  BY <1>2, StepCases DEF commandVars, StepIs
<1>4. PICK L : Sound(L)'
  BY <1>1, StepsAreSound
<1>5. SeedTypeOK' /\ SeedStep
  BY <1>2, SeedKept DEF Inv
<1>6. Present'
  BY <1>2, <1>3, <1>5, PresentKept DEF Inv
<1>7. Scoped'
  BY <1>1, <1>3, ScopedKept DEF Inv
<1>8. (\E M : Sound(M))'
  BY <1>4
<1> QED BY <1>3, <1>5, <1>6, <1>7, <1>8 DEF Inv

LEMMA Invariance == CommandsSpec => []Inv
<1>1. CommandsInit => Inv
  BY InitInv
<1>2. Inv /\ [CommandsNext]_commandVars => Inv'
  BY NextInv
<1> QED BY <1>1, <1>2, PTL DEF CommandsSpec

(***************************************************************************)
(* Whatever an ordinary request writes stays within its participant: among *)
(* ordinary users always, beside admins if requests come in turn and       *)
(* nothing else writes.                                                    *)
(***************************************************************************)
THEOREM RequestsKeepTheirScope == CommandsSpec => ScopeIsKept
<1>1. ASSUME Inv, [CommandsNext]_commandVars
      PROVE  [\A c \in Caller :
                Ordinary(c) /\ Writes(c) /\ (OnlyOrdinary \/ (Site.serial /\ OnlyRequests)) =>
                  \A i \in Id :
                    /\ i \in DOMAIN rows /\ (i \notin DOMAIN rows' \/ rows'[i] # rows[i]) =>
                         OrgOf(i, rows) = req[c].org
                    /\ i \in DOMAIN rows' /\ (i \notin DOMAIN rows \/ rows'[i] # rows[i]) =>
                         OrgOf(i, rows') = req[c].org]_inventoryVars
  <2>1. StepIs /\ Scoped /\ \E K : Sound(K)
    BY <1>1, NextInv DEF Inv
  <2> QED BY <2>1, ScopeStep
<1> QED BY <1>1, Invariance, PTL DEF CommandsSpec, ScopeIsKept

(* No ordinary request makes or removes a participant.                     *)
THEOREM OnlyAdminsMakeParticipants == CommandsSpec => ParticipantsAreAdminMade
<1>1. ASSUME Inv, [CommandsNext]_commandVars
      PROVE  [\A c \in Caller : Ordinary(c) /\ Writes(c) /\ Site.serial /\ Site.seeds = {} =>
                Participants(rows') = Participants(rows)]_inventoryVars
  <2>1. StepIs /\ Scoped /\ \E K : Sound(K)
    BY <1>1, NextInv DEF Inv
  <2> QED BY <2>1, ReservedStep
<1> QED BY <1>1, Invariance, PTL DEF CommandsSpec, ParticipantsAreAdminMade

(* No ordinary request makes an admin.                                     *)
THEOREM OnlyAdminsMakeAdmins == CommandsSpec => AdminsAreAdminMade
<1>1. ASSUME Inv, [CommandsNext]_commandVars
      PROVE  [\A c \in Caller : Ordinary(c) /\ Writes(c) /\ Site.serial /\ Site.seeds = {} =>
                Admins(rows') \subseteq Admins(rows)]_inventoryVars
  <2>1. StepIs /\ Scoped /\ \E K : Sound(K)
    BY <1>1, NextInv DEF Inv
  <2> QED BY <2>1, ReservedStep
<1> QED BY <1>1, Invariance, PTL DEF CommandsSpec, AdminsAreAdminMade

-----------------------------------------------------------------------------
(***************************************************************************)
(* Scans.  What the statements ahead of an undisturbed scan make of the    *)
(* keys of its machine.                                                    *)
(***************************************************************************)
Corrects(m, shown, changes) ==
  /\ \A i \in Of("hostkey", m) :
       IF rows[i].key.type \in Types(shown)
       THEN rows[i].key \in shown \/ \E c \in changes : c.op = "save" /\ c.id = i
       ELSE \E c \in changes : c.op = "delete" /\ c.id = i
  /\ \A c \in changes :
       /\ c.op = "save" => c.id \in Of("hostkey", m) /\ rows[c.id].key.type = c.key.type
       /\ c.op = "delete" /\ c.id \in Of("hostkey", m) => rows[c.id].key.type \notin Types(shown)
       /\ c.op # "delete" => c.key \in shown
  /\ \A type \in Types(shown) : \/ type \in Types(HostKeys(m))
                                \/ \E c \in changes : c.op = "create" /\ c.key.type = type

Reconciling ==
  calm # None /\ scan[calm].answer # None =>
    Corrects(scan[calm].machine, Range(scan[calm].answer), scan[calm].changes)

(* Every set of numbers has a least one.                                   *)
LEMMA LeastNumber ==
  ASSUME NEW T, T \subseteq Nat, T # {}
  PROVE  \E x \in T : \A y \in T : x <= y
<1> DEFINE Less == {p \in Nat \X Nat : p[1] < p[2]}
<1>1. OpToRel(<, Nat) = Less
  BY DEF OpToRel
<1>2. IsWellFoundedOn(Less, Nat)
  BY <1>1, NatLessThanWellFounded
<1> HIDE DEF Less
<1>3. PICK x \in T : \A y \in T : <<y, x>> \notin Less
  BY <1>2, WFMin
<1>4. ASSUME NEW y \in T PROVE ~(y < x) /\ x \in Nat /\ y \in Nat
  <2>1. <<y, x>> \notin Less /\ x \in Nat /\ y \in Nat
    BY <1>3
  <2>2. <<y, x>> \in Nat \X Nat /\ <<y, x>>[1] = y /\ <<y, x>>[2] = x
    BY <2>1
  <2> QED BY <2>1, <2>2 DEF Less
<1> QED BY <1>4

LEMMA ShownTypes ==
  ASSUME NEW answer, NEW type
  PROVE  type \in Types(Range(answer)) <=> LinesOf(type, answer) # {}
BY DEF Types, Range, LinesOf

LEMMA ScansCorrect ==
  ASSUME NEW m, NEW answer \in Answer
  PROVE  Corrects(m, Range(answer), Changes(m, answer))
<1>1. DOMAIN answer \subseteq Nat
  BY Assumed DEF ScanAssumption
<1>2. ASSUME NEW i \in Of("hostkey", m), NEW c \in ChangesToKey(i, answer) PROVE c \in Changes(m, answer)
  BY <1>2 DEF Changes
<1>3. ASSUME NEW i \in Of("hostkey", m)
      PROVE  IF rows[i].key.type \in Types(Range(answer))
             THEN rows[i].key \in Range(answer) \/ \E c \in Changes(m, answer) : c.op = "save" /\ c.id = i
             ELSE \E c \in Changes(m, answer) : c.op = "delete" /\ c.id = i
  <2> DEFINE lines == LinesOf(rows[i].key.type, answer)
  <2>1. CASE lines = {}
    <3>1. [op |-> "delete", id |-> i, key |-> None, at |-> 0] \in Changes(m, answer)
      BY <1>2, <2>1 DEF ChangesToKey
    <3> QED BY <2>1, <3>1, ShownTypes
  <2>2. CASE lines # {}
    <3>1. lines \subseteq DOMAIN answer
      BY DEF LinesOf
    <3>2. PICK n \in lines : \A l \in lines : n <= l
      BY <1>1, <2>2, <3>1, LeastNumber
    <3>3. {l \in lines : l < n} = {}
      BY <1>1, <3>1, <3>2
    <3>4. Before(i, n, answer) = rows[i].key
      BY <3>3 DEF Before
    <3>5. CASE answer[n] = rows[i].key
      <4>1. answer[n] \in Range(answer)
        BY <3>1 DEF Range
      <4> QED BY <2>2, <3>5, <4>1, ShownTypes
    <3>6. CASE answer[n] # rows[i].key
      <4>1. [op |-> "save", id |-> i, key |-> answer[n], at |-> n] \in Replacements(i, answer)
        BY <3>4, <3>6 DEF Replacements
      <4>2. [op |-> "save", id |-> i, key |-> answer[n], at |-> n] \in Changes(m, answer)
        BY <1>2, <2>2, <4>1 DEF ChangesToKey
      <4> QED BY <2>2, <4>2, ShownTypes
    <3> QED BY <3>5, <3>6
  <2> QED BY <2>1, <2>2
<1>4. ASSUME NEW c \in Changes(m, answer)
      PROVE  /\ c.op = "save" => c.id \in Of("hostkey", m) /\ rows[c.id].key.type = c.key.type
             /\ c.op = "delete" /\ c.id \in Of("hostkey", m) =>
                  rows[c.id].key.type \notin Types(Range(answer))
             /\ c.op # "delete" => c.key \in Range(answer)
  <2>1. ASSUME NEW i \in Of("hostkey", m), LinesOf(rows[i].key.type, answer) = {},
               c = [op |-> "delete", id |-> i, key |-> None, at |-> 0]
        PROVE  c.op = "delete" /\ rows[c.id].key.type \notin Types(Range(answer))
    <3>1. rows[i].key.type \notin Types(Range(answer))
      BY <2>1, ShownTypes
    <3> QED BY <2>1, <3>1
  <2>2. ASSUME NEW i \in Of("hostkey", m), c \in Replacements(i, answer)
        PROVE  c.op = "save" /\ c.id = i /\ rows[i].key.type = c.key.type /\ c.key \in Range(answer)
    <3>1. PICK n \in LinesOf(rows[i].key.type, answer) :
            c = [op |-> "save", id |-> i, key |-> answer[n], at |-> n]
      BY <2>2 DEF Replacements
    <3> QED BY <3>1 DEF LinesOf, Range
  <2>3. ASSUME c \in Additions(m, answer) PROVE c.op = "create" /\ c.key \in Range(answer)
    <3>1. PICK n \in DOMAIN answer : c = Adds(n, answer)
      BY <2>3 DEF Additions
    <3> QED BY <3>1 DEF Adds, Range
  <2>4. c \in Additions(m, answer) \/ \E i \in Of("hostkey", m) : c \in ChangesToKey(i, answer)
    BY DEF Changes
  <2>5. ASSUME NEW i \in Of("hostkey", m), c \in ChangesToKey(i, answer)
        PROVE  \/ c.op = "delete" /\ rows[c.id].key.type \notin Types(Range(answer))
               \/ c.op = "save" /\ c.id = i /\ rows[i].key.type = c.key.type /\ c.key \in Range(answer)
    BY <2>1, <2>2, <2>5 DEF ChangesToKey
  <2> QED BY <2>3, <2>4, <2>5
<1>5. ASSUME NEW type \in Types(Range(answer)), type \notin Types(HostKeys(m))
      PROVE  \E c \in Changes(m, answer) : c.op = "create" /\ c.key.type = type
  <2>1. PICK n \in DOMAIN answer : answer[n].type = type
    BY <1>5 DEF Types, Range
  <2>2. answer[n].type \notin Types({rows[i].key : i \in Of("hostkey", m)})
    BY <1>5, <2>1 DEF HostKeys
  <2>3. Adds(n, answer) \in Changes(m, answer)
    BY <2>1, <2>2 DEF Additions, Changes
  <2> QED BY <2>1, <2>3 DEF Adds
<1> QED BY <1>3, <1>4, <1>5 DEF Corrects

(* One statement less, and the keys as much closer.                        *)
LEMMA ChangeCorrects ==
  ASSUME NEW K, Sound(K), NEW s \in Scanner, NEW ch \in Change, Changed(s, ch),
         NEW m, m = scan[s].machine, NEW shown,
         NEW C, C = scan[s].changes, NEW D, D = C \ {ch}, Corrects(m, shown, C)
  PROVE  Corrects(m, shown, D)'
<1> DEFINE keys == Of("hostkey", m)
<1>0. /\ TypeOK /\ Known /\ Kinds(K) /\ ch \in C /\ ch.op \in {"save", "delete", "create"}
      /\ D \subseteq C /\ \A c \in C : c = ch \/ c \in D
  BY DEF Sound, Changed, Change
<1>1. Stored(s, ch) = KeyRow(m, ch.key) /\ Stored(s, ch) \in Row
  BY <1>0, StoredIsRow DEF Stored
<1>2. CASE ch.op = "delete" /\ Removes(ch.id)
  <2>1. /\ DOMAIN rows' = DOMAIN rows \ {ch.id} /\ \A i \in DOMAIN rows' : rows'[i] = rows[i]
    BY <1>2 DEF Removes, Without
  <2>2. keys' = keys \ {ch.id} /\ \A i \in keys' : rows'[i] = rows[i]
    BY <2>1 DEF Of
  <2>3. ch.id \in keys => rows[ch.id].key.type \notin Types(shown)
    BY <1>0, <1>2 DEF Corrects
  <2>4. ASSUME NEW i \in keys'
        PROVE  IF rows'[i].key.type \in Types(shown)
               THEN rows'[i].key \in shown \/ \E c \in D : c.op = "save" /\ c.id = i
               ELSE \E c \in D : c.op = "delete" /\ c.id = i
    <3>1. i \in keys /\ i # ch.id /\ rows'[i] = rows[i]
      BY <2>2
    <3> HIDE DEF keys
    <3> QED BY <1>0, <3>1 DEF Corrects, keys
  <2>5. ASSUME NEW c \in D
        PROVE  /\ c.op = "save" => c.id \in keys' /\ rows'[c.id].key.type = c.key.type
               /\ c.op = "delete" /\ c.id \in keys' => rows'[c.id].key.type \notin Types(shown)
               /\ c.op # "delete" => c.key \in shown
    <3>1. /\ c.op = "save" => c.id \in keys /\ rows[c.id].key.type = c.key.type /\ c.key \in shown
          /\ c.op = "delete" /\ c.id \in keys => rows[c.id].key.type \notin Types(shown)
          /\ c.op # "delete" => c.key \in shown
      BY <1>0 DEF Corrects
    <3>2. c.op = "save" => c.id # ch.id
      BY <2>3, <3>1 DEF Types
    <3> HIDE DEF keys
    <3> QED BY <2>2, <3>1, <3>2
  <2>6. ASSUME NEW type \in Types(shown), type \notin Types(HostKeys(m)')
        PROVE  \E c \in D : c.op = "create" /\ c.key.type = type
    <3>1. ASSUME NEW i \in keys, rows[i].key.type = type PROVE FALSE
      <4>1. i # ch.id
        BY <2>3, <2>6, <3>1
      <4>2. i \in keys' /\ rows'[i].key.type = type
        BY <2>2, <3>1, <4>1
      <4> QED BY <2>6, <4>2 DEF Types, HostKeys
    <3>2. type \notin Types(HostKeys(m))
      BY <3>1 DEF Types, HostKeys
    <3> QED BY <1>0, <1>2, <3>2 DEF Corrects
  <2> QED BY <2>4, <2>5, <2>6 DEF Corrects
<1>3. ASSUME NEW j, ch.op # "delete", rows' = Put(rows, j, KeyRow(m, ch.key)),
             \/ /\ ch.op = "create" /\ j \notin DOMAIN rows
                /\ \A c \in C : c.op # "create" => c.id # j
             \/ ch.op = "save" /\ j = ch.id /\ j \in keys /\ rows[j].key.type = ch.key.type
      PROVE  Corrects(m, shown, D)'
  <2>1. /\ DOMAIN rows' = DOMAIN rows \union {j} /\ rows'[j] = KeyRow(m, ch.key)
        /\ \A i \in DOMAIN rows \ {j} : rows'[i] = rows[i]
    BY <1>3 DEF Put
  <2>2. /\ keys' = keys \union {j} /\ rows'[j].key = ch.key
        /\ \A i \in keys \ {j} : rows'[i] = rows[i]
    BY <2>1 DEF Of, KeyRow
  <2>3. /\ ch.key \in shown /\ ch.key.type \in Types(shown)
    BY <1>0, <1>3 DEF Corrects, Types
  <2>4. ASSUME NEW i \in keys'
        PROVE  IF rows'[i].key.type \in Types(shown)
               THEN rows'[i].key \in shown \/ \E c \in D : c.op = "save" /\ c.id = i
               ELSE \E c \in D : c.op = "delete" /\ c.id = i
    <3>1. CASE i = j
      BY <2>2, <2>3, <3>1
    <3>2. CASE i # j
      <4>1. i \in keys /\ rows'[i] = rows[i]
        BY <2>2, <3>2
      <4>3. IF rows[i].key.type \in Types(shown)
            THEN rows[i].key \in shown \/ \E c \in C : c.op = "save" /\ c.id = i
            ELSE \E c \in C : c.op = "delete" /\ c.id = i
        BY <4>1 DEF Corrects
      <4> HIDE DEF keys
      <4> QED BY <1>0, <1>3, <3>2, <4>1, <4>3
    <3> QED BY <3>1, <3>2
  <2>5. ASSUME NEW c \in D
        PROVE  /\ c.op = "save" => c.id \in keys' /\ rows'[c.id].key.type = c.key.type
               /\ c.op = "delete" /\ c.id \in keys' => rows'[c.id].key.type \notin Types(shown)
               /\ c.op # "delete" => c.key \in shown
    <3>1. /\ c.op = "save" => c.id \in keys /\ rows[c.id].key.type = c.key.type
          /\ c.op = "delete" /\ c.id \in keys => rows[c.id].key.type \notin Types(shown)
          /\ c.op # "delete" => c.key \in shown
      BY <1>0 DEF Corrects
    <3>2. c \in C
      BY <1>0
    <3>3. CASE c.id = j
      BY <1>3, <2>2, <2>3, <3>1, <3>2, <3>3
    <3>4. CASE c.id # j
      <4> HIDE DEF keys
      <4> QED BY <2>2, <3>1, <3>4
    <3> QED BY <3>3, <3>4
  <2>6. ASSUME NEW type \in Types(shown), type \notin Types(HostKeys(m)')
        PROVE  \E c \in D : c.op = "create" /\ c.key.type = type
    <3>1. \A i \in keys' : rows'[i].key.type # type
      BY <2>6 DEF Types, HostKeys
    <3>2. ch.key.type # type
      BY <2>2, <3>1
    <3>3. ASSUME NEW i \in keys PROVE rows[i].key.type # type
      <4>1. i \in DOMAIN rows
        BY DEF Of
      <4>2. i \in keys' /\ (i # j => rows'[i] = rows[i])
        BY <2>2
      <4> QED BY <1>3, <3>1, <3>2, <4>1, <4>2
    <3>4. type \notin Types(HostKeys(m))
      BY <3>3 DEF Types, HostKeys
    <3> QED BY <1>0, <3>2, <3>4 DEF Corrects
  <2> QED BY <2>4, <2>5, <2>6 DEF Corrects
<1>4. CASE ch.op = "save" /\ Overwrites(ch.id, Stored(s, ch))
  <2>1. ch.id \in keys /\ rows[ch.id].key.type = ch.key.type
    BY <1>0, <1>4 DEF Corrects
  <2> QED BY <1>1, <1>3, <1>4, <2>1 DEF Overwrites
<1>5. CASE ch.op = "create" /\ Inserts(Stored(s, ch))
  <2>1. lastId + 1 \notin DOMAIN rows /\ lastId \in Nat
    BY <1>0, <1>1, <1>5, InsertsDoes
  <2>2. \A c \in C : c.op # "create" => c.id # lastId + 1
    BY <1>0, <2>1 DEF Known
  <2> QED BY <1>1, <1>3, <1>5, <2>1, <2>2 DEF Inserts
<1> QED BY <1>2, <1>4, <1>5 DEF Changed

LEMMA ReconcilingKept ==
  ASSUME NEW K, Sound(K), StepIs, Reconciling
  PROVE  Reconciling'
<1>0. TypeOK /\ scan \in [Scanner -> Scan] /\ calm \in Opt(Scanner) /\ None \notin Scanner
  BY Assumed DEF Sound, TypeOK, ScanAssumption
<1>1. ASSUME rows' = rows, calm' = None \/ (calm' = calm /\ scan'[calm] = scan[calm])
      PROVE  Reconciling'
  <2>1. CASE calm' = None
    BY <2>1 DEF Reconciling
  <2>2. CASE calm' = calm /\ scan'[calm] = scan[calm]
    <3>1. ASSUME NEW m, NEW shown, NEW C, Corrects(m, shown, C) PROVE Corrects(m, shown, C)'
      BY <1>1, <3>1 DEF Corrects, Of, HostKeys
    <3> QED BY <2>2, <3>1 DEF Reconciling
  <2> QED BY <1>1, <2>1, <2>2
<1>2. ASSUME UNCHANGED scan, Notices PROVE Reconciling'
  <2>1. CASE rows' = rows
    BY <1>1, <1>2, <2>1 DEF Notices
  <2>2. CASE rows' # rows
    BY <1>2, <2>2 DEF Notices, Reconciling
  <2> QED BY <2>1, <2>2
<1>3. ASSUME NEW c \in Caller, NEW r \in Request, Requests(c, r) PROVE Reconciling'
  BY <1>1, <1>3 DEF Requests, Opens
<1>4. ASSUME NEW c \in Caller, Answered(c) PROVE Reconciling'
  BY <1>2, <1>4 DEF Answered
<1>5. ASSUME NEW s \in Scanner, NEW next, scan' = [scan EXCEPT ![s] = next],
             UNCHANGED inventoryVars, calm' \in {calm, None}, calm = s => calm' = None
      PROVE  Reconciling'
  <2>1. calm # None /\ calm # s => scan'[calm] = scan[calm]
    BY <1>0, <1>5 DEF Opt
  <2>2. rows' = rows
    BY <1>5 DEF inventoryVars
  <2> QED BY <1>1, <1>5, <2>1, <2>2
<1>6. ASSUME NEW s \in Scanner, NEW active \in SUBSET Id, Lists(s, active) PROVE Reconciling'
  BY <1>5, <1>6 DEF Lists
<1>7. ASSUME NEW s \in Scanner, Stops(s) PROVE Reconciling'
  BY <1>5, <1>7 DEF Stops
<1>8. ASSUME NEW s \in Scanner, NEW m \in Id, NEW answer \in Opt(Answer), Scans(s, m, answer)
      PROVE  Reconciling'
  <2>1. CASE calm' = None
    BY <2>1 DEF Reconciling
  <2>2. CASE answer = None
    <3>1. calm' \in {s, None} /\ scan'[s].answer = None
      BY <1>0, <1>8, <2>2 DEF Scans
    <3> QED BY <3>1 DEF Reconciling
  <2>3. CASE calm' # None /\ answer # None
    <3>1. /\ calm' = s /\ scan'[s].machine = m /\ scan'[s].answer = answer
          /\ scan'[s].changes = Changes(m, answer) /\ rows' = rows /\ answer \in Answer
      BY <1>0, <1>8, <2>3 DEF Scans, inventoryVars, Opt
    <3>2. PICK shown : shown = Range(answer)
      OBVIOUS
    <3>3. PICK C : C = Changes(m, answer)
      OBVIOUS
    <3>4. Corrects(m, shown, C)
      BY <3>1, <3>2, <3>3, ScansCorrect
    <3>5. Corrects(m, shown, C)'
      BY <3>1, <3>4 DEF Corrects, Of, HostKeys
    <3> QED BY <3>1, <3>2, <3>3, <3>5 DEF Reconciling
  <2> QED BY <2>1, <2>2, <2>3
<1>9. ASSUME NEW s \in Scanner, NEW ch \in Change, Changed(s, ch) PROVE Reconciling'
  <2>1. CASE calm' = None
    BY <2>1 DEF Reconciling
  <2>2. CASE calm' # None
    <3>1. /\ calm = s /\ calm' = s /\ scan'[s].machine = scan[s].machine
          /\ scan'[s].answer = scan[s].answer /\ scan'[s].changes = scan[s].changes \ {ch}
      BY <1>0, <1>9, <2>2 DEF Changed, Scan
    <3> SUFFICES ASSUME scan[s].answer # None
                 PROVE  Reconciling'
      BY <3>1 DEF Reconciling
    <3>2. PICK m, shown, C, D : /\ m = scan[s].machine /\ shown = Range(scan[s].answer)
                                /\ C = scan[s].changes /\ D = C \ {ch}
      OBVIOUS
    <3>3. Corrects(m, shown, C)
      BY <1>0, <3>1, <3>2 DEF Reconciling
    <3>4. Corrects(m, shown, D)'
      BY <1>9, <3>2, <3>3, ChangeCorrects
    <3> QED BY <3>1, <3>2, <3>4 DEF Reconciling
  <2> QED BY <2>1, <2>2
<1>10. ASSUME NEW kind \in Kind, Reseeds(kind) PROVE Reconciling'
  BY <1>2, <1>10 DEF Reseeds
<1>11. CASE UNCHANGED vars
  BY <1>1, <1>11 DEF vars, inventoryVars
<1> QED BY <1>3, <1>4, <1>6, <1>7, <1>8, <1>9, <1>10, <1>11 DEF StepIs

(***************************************************************************)
(* However keys, answers and scanners mix: a scan that nothing disturbs    *)
(* ends with the keys shown.                                               *)
(***************************************************************************)
THEOREM ScansReconcile == CommandsSpec => []ScanReconciles
<1>1. CommandsInit => Reconciling
  BY DEF CommandsInit, Init, Reconciling
<1>2. ASSUME Inv, Reconciling, [CommandsNext]_commandVars PROVE Reconciling'
  <2>1. StepIs /\ \E K : Sound(K)
    BY <1>2, NextInv DEF Inv
  <2> QED BY <1>2, <2>1, ReconcilingKept
<1>3. ASSUME Reconciling PROVE ScanReconciles
  <2> SUFFICES ASSUME calm # None, scan[calm].answer # None, scan[calm].changes = {}
               PROVE  LET shown == Range(scan[calm].answer) IN
                      /\ HostKeys(scan[calm].machine) \subseteq shown
                      /\ Types(HostKeys(scan[calm].machine)) = Types(shown)
    BY DEF ScanReconciles, Working
  <2> DEFINE m == scan[calm].machine
             shown == Range(scan[calm].answer)
  <2>1. Corrects(m, shown, {})
    BY <1>3 DEF Reconciling
  <2> HIDE DEF m, shown
  <2>2. \A i \in Of("hostkey", m) : rows[i].key \in shown
    BY <2>1 DEF Corrects
  <2>3. \A type \in Types(shown) : type \in Types(HostKeys(m))
    BY <2>1 DEF Corrects
  <2>4. HostKeys(m) \subseteq shown /\ Types(HostKeys(m)) \subseteq Types(shown)
    BY <2>2 DEF HostKeys, Types
  <2> QED BY <2>3, <2>4 DEF m, shown
<1> QED BY <1>1, <1>2, <1>3, Invariance, PTL DEF CommandsSpec

-----------------------------------------------------------------------------
(***************************************************************************)
(* Keys do not pile up.  A key that is stored, or about to be saved again, *)
(* holds a place; so does a line that is about to be added.  A statement   *)
(* takes the place it held as one ahead.                                   *)
(***************************************************************************)
Pending(s, m, type) ==
  {c \in scan[s].changes : scan[s].machine = m /\ c.op # "delete" /\ c.key.type = type}
PlaceOf(c) == IF c.op = "save" THEN <<"row", c.id>> ELSE <<"line", c.at>>
Held(s, m, type) ==
  {<<"row", i>> : i \in OfType(m, type, rows)} \union {PlaceOf(c) : c \in Pending(s, m, type)}

TwoAtMost(S) == IsFiniteSet(S) /\ Cardinality(S) <= 2
Apart(changes) ==
  \A c, d \in changes : c.op = "create" /\ d.op = "create" /\ c.at = d.at => c = d
NoKeyRequests ==
  \A c \in Caller : req[c].op \in {"create", "update"} => req[c].row.kind # "hostkey"

Few(s) ==
  /\ Apart(scan[s].changes)
  /\ \A m \in Id, type \in Types(Key) : TwoAtMost(Held(s, m, type))
FewKeys ==
  OnlyOneScannerWrites =>
    NoKeyRequests /\ (AtMostTwo(Site.rows) => \A s \in Site.scanners : Few(s))

LEMMA FewerAreTwo ==
  ASSUME NEW S, TwoAtMost(S), NEW T, T \subseteq S
  PROVE  TwoAtMost(T)
<1>1. IsFiniteSet(T) /\ Cardinality(T) <= Cardinality(S)
  BY FS_Subset DEF TwoAtMost
<1>2. Cardinality(T) \in Nat /\ Cardinality(S) \in Nat /\ Cardinality(S) <= 2
  BY <1>1, FS_CardinalityType DEF TwoAtMost
<1> QED BY <1>1, <1>2 DEF TwoAtMost

LEMMA SwappedAreTwo ==
  ASSUME NEW S, TwoAtMost(S), NEW x \in S, NEW y, NEW T, T \subseteq (S \ {x}) \union {y}
  PROVE  TwoAtMost(T)
<1> DEFINE U == S \ {x}
<1>1. IsFiniteSet(U) /\ Cardinality(U) = Cardinality(S) - 1
  BY FS_RemoveElement DEF TwoAtMost
<1>2. Cardinality(S) \in Nat /\ Cardinality(U) \in Nat
  BY <1>1, FS_CardinalityType DEF TwoAtMost
<1> HIDE DEF U
<1>3. IsFiniteSet(U \union {y})
      /\ (Cardinality(U \union {y}) = Cardinality(U) \/ Cardinality(U \union {y}) = Cardinality(U) + 1)
  BY <1>1, FS_AddElement
<1>4. TwoAtMost(U \union {y})
  BY <1>1, <1>2, <1>3 DEF TwoAtMost
<1> QED BY <1>4, FewerAreTwo DEF U

LEMMA TaggedAreTwo ==
  ASSUME NEW tag, NEW S, IsFiniteSet(S)
  PROVE  TwoAtMost({<<tag, x>> : x \in S}) <=> Cardinality(S) <= 2
<1> DEFINE T == {<<tag, x>> : x \in S}
           f == [x \in S |-> <<tag, x>>]
<1>1. f \in [S -> T] /\ \A t \in T : \E x \in S : f[x] = t
  OBVIOUS
<1>a. \A x, y \in S : f[x] = f[y] => x = y
  OBVIOUS
<1>b. f \in Surjection(S, T) /\ f \in Injection(S, T)
  <2> HIDE DEF f, T
  <2> QED BY <1>1, <1>a DEF Surjection, Injection, IsInjective
<1> HIDE DEF f, T
<1>2. IsFiniteSet(T) /\ Cardinality(T) <= Cardinality(S)
  BY <1>b, FS_Surjection
<1>3. Cardinality(S) <= Cardinality(T)
  BY <1>b, <1>2, FS_Injection
<1>4. Cardinality(S) \in Nat /\ Cardinality(T) \in Nat
  BY <1>2, FS_CardinalityType
<1>5. TwoAtMost(T) <=> Cardinality(S) <= 2
  BY <1>2, <1>3, <1>4 DEF TwoAtMost
<1> QED BY <1>5 DEF T

(* What is held stays held, or is held no more.                            *)
LEMMA FewStay ==
  ASSUME NEW s, Few(s), Apart(scan'[s].changes),
         \A m \in Id, type \in Types(Key) : Held(s, m, type)' \subseteq Held(s, m, type)
  PROVE  Few(s)'
<1>1. ASSUME NEW m \in Id, NEW type \in Types(Key) PROVE TwoAtMost(Held(s, m, type)')
  BY FewerAreTwo DEF Few
<1>2. \A m \in Id, type \in Types(Key) : TwoAtMost(Held(s, m, type))'
  BY <1>1 DEF TwoAtMost
<1> QED BY <1>2 DEF Few, Apart

LEMMA IdsFinite == \A T \in SUBSET Id : IsFiniteSet(T)
<1>1. IsFiniteSet(Id)
  BY IdFacts, FS_Interval DEF Id
<1> QED BY <1>1, FS_Subset

(* A machine's keys of a type that has one: no line is added.              *)
LEMMA ScansHold ==
  ASSUME TypeOK, NEW s \in Scanner, NEW m \in Id, NEW answer \in Opt(Answer), Scans(s, m, answer),
         Few(s)
  PROVE  Few(s)'
<1>0. /\ scan \in [Scanner -> Scan] /\ rows' = rows /\ scan[s].changes = {} /\ m \in DOMAIN rows
  BY DEF TypeOK, Scans, inventoryVars, Working
<1>1. scan'[s].machine = m /\ scan'[s].changes = IF answer = None THEN {} ELSE Changes(m, answer)
  BY <1>0 DEF Scans
<1>2. \A n \in Id, type \in Types(Key) :
        {<<"row", i>> : i \in OfType(n, type, rows)} \subseteq Held(s, n, type)
  BY DEF Held
<1>3. CASE scan'[s].changes = {}
  <2>1. \A n \in Id, type \in Types(Key) : Held(s, n, type)' \subseteq Held(s, n, type)
    BY <1>0, <1>3 DEF Held, Pending, OfType
  <2>2. Apart(scan'[s].changes)
    BY <1>3 DEF Apart
  <2> QED BY <2>1, <2>2, FewStay
<1>4. CASE answer \in Answer /\ scan'[s].changes = Changes(m, answer)
  <2>1. ASSUME NEW c \in Changes(m, answer)
        PROVE  \/ c.op = "delete"
               \/ c.op = "save" /\ c.id \in OfType(m, c.key.type, rows)
               \/ /\ c.op = "create" /\ c.at \in LinesOf(c.key.type, answer) /\ c = Adds(c.at, answer)
                  /\ OfType(m, c.key.type, rows) = {}
    <3>1. ASSUME NEW i \in Of("hostkey", m), c \in Replacements(i, answer)
          PROVE  c.op = "save" /\ c.id \in OfType(m, c.key.type, rows)
      <4>1. PICK n \in LinesOf(rows[i].key.type, answer) :
              c = [op |-> "save", id |-> i, key |-> answer[n], at |-> n]
        BY <3>1 DEF Replacements
      <4> QED BY <4>1 DEF LinesOf, Of, OfType
    <3>2. ASSUME c \in Additions(m, answer)
          PROVE  /\ c.op = "create" /\ c.at \in LinesOf(c.key.type, answer) /\ c = Adds(c.at, answer)
                 /\ OfType(m, c.key.type, rows) = {}
      <4>1. PICK n \in DOMAIN answer :
              /\ c = Adds(n, answer)
              /\ answer[n].type \notin Types({rows[i].key : i \in Of("hostkey", m)})
        BY <3>2 DEF Additions
      <4> QED BY <4>1 DEF Adds, LinesOf, OfType, Of, Types
    <3>3. c \in Additions(m, answer) \/ \E i \in Of("hostkey", m) : c \in ChangesToKey(i, answer)
      BY DEF Changes
    <3> QED BY <3>1, <3>2, <3>3 DEF ChangesToKey
  <2>2. Apart(scan'[s].changes)
    BY <1>4, <2>1 DEF Apart
  <2>3. ASSUME NEW n \in Id, NEW type \in Types(Key) PROVE TwoAtMost(Held(s, n, type)')
    <3> DEFINE old == {<<"row", i>> : i \in OfType(n, type, rows)}
               lines == {<<"line", l>> : l \in LinesOf(type, answer)}
    <3>1. Held(s, n, type)' = old \union {PlaceOf(c) : c \in Pending(s, n, type)'}
      BY <1>0 DEF Held, OfType, PlaceOf
    <3>2. TwoAtMost(old)
      BY <1>2, FewerAreTwo DEF Few
    <3>3. TwoAtMost(lines)
      <4>1. answer \in Seq(Key) /\ Cardinality(LinesOf(type, answer)) <= 2
        BY <1>4, Assumed DEF ScanAssumption
      <4>2. IsFiniteSet(DOMAIN answer)
        BY <4>1, FS_Interval
      <4>3. IsFiniteSet(LinesOf(type, answer))
        BY <4>2, FS_Subset DEF LinesOf
      <4> QED BY <4>1, <4>3, TaggedAreTwo
    <3>4. ASSUME NEW c \in Pending(s, n, type)'
          PROVE  c \in Changes(m, answer) /\ n = m /\ c.op # "delete" /\ c.key.type = type
      BY <1>1, <1>4, <3>4 DEF Pending
    <3>5. CASE OfType(n, type, rows) = {}
      <4>1. \A c \in Pending(s, n, type)' : PlaceOf(c) \in lines
        BY <2>1, <3>4, <3>5 DEF PlaceOf
      <4>2. Held(s, n, type)' \subseteq lines
        BY <3>1, <3>5, <4>1
      <4> HIDE DEF lines
      <4> QED BY <3>3, <4>2, FewerAreTwo
    <3>6. CASE OfType(n, type, rows) # {}
      <4>1. \A c \in Pending(s, n, type)' : PlaceOf(c) \in old
        BY <2>1, <3>4, <3>6 DEF PlaceOf
      <4>2. Held(s, n, type)' \subseteq old
        BY <3>1, <4>1
      <4> HIDE DEF old
      <4> QED BY <3>2, <4>2, FewerAreTwo
    <3> QED BY <3>5, <3>6
  <2>4. \A n \in Id, type \in Types(Key) : TwoAtMost(Held(s, n, type))'
    BY <2>3 DEF TwoAtMost
  <2> QED BY <2>2, <2>4 DEF Few, Apart
<1> QED BY <1>1, <1>3, <1>4 DEF Opt

(* A statement takes the place it held.                                    *)
LEMMA ChangeHolds ==
  ASSUME NEW K, Sound(K), NEW s \in Scanner, NEW ch \in Change, Changed(s, ch), Few(s)
  PROVE  Few(s)'
<1>0. /\ scan \in [Scanner -> Scan] /\ TypeOK /\ ch \in scan[s].changes
      /\ Stored(s, ch) = KeyRow(scan[s].machine, ch.key) /\ Stored(s, ch) \in Row
  BY StoredIsRow DEF Sound, TypeOK, Changed, Stored
<1>1. /\ scan'[s].machine = scan[s].machine /\ scan'[s].changes = scan[s].changes \ {ch}
  BY <1>0 DEF Changed, Scan
<1>2. Apart(scan[s].changes) /\ Apart(scan'[s].changes)
  BY <1>1 DEF Few, Apart
<1>3. \A m, type : Pending(s, m, type)' = Pending(s, m, type) \ {ch}
  BY <1>1 DEF Pending
<1>4. CASE ch.op = "delete" /\ Removes(ch.id)
  <2>1. DOMAIN rows' \subseteq DOMAIN rows /\ \A j \in DOMAIN rows' : rows'[j] = rows[j]
    BY <1>4 DEF Removes, Without
  <2>2. \A m, type : OfType(m, type, rows') \subseteq OfType(m, type, rows)
    BY <2>1 DEF OfType
  <2>3. \A m \in Id, type \in Types(Key) : Held(s, m, type)' \subseteq Held(s, m, type)
    BY <1>3, <2>2 DEF Held, PlaceOf
  <2> QED BY <1>2, <2>3, FewStay
<1>5. CASE ch.op = "save" /\ Overwrites(ch.id, Stored(s, ch))
  <2>1. /\ DOMAIN rows' = DOMAIN rows \union {ch.id}
        /\ rows'[ch.id] = KeyRow(scan[s].machine, ch.key)
        /\ \A j \in DOMAIN rows \ {ch.id} : rows'[j] = rows[j]
    BY <1>0, <1>5 DEF Overwrites, Put
  <2>2. \A m, type : \A i \in OfType(m, type, rows') :
          i \in OfType(m, type, rows) \/ (i = ch.id /\ ch \in Pending(s, m, type))
    BY <1>0, <1>5, <2>1 DEF OfType, KeyRow, Pending
  <2>3. PlaceOf(ch) = <<"row", ch.id>>
    BY <1>5 DEF PlaceOf
  <2>4. \A m \in Id, type \in Types(Key) : Held(s, m, type)' \subseteq Held(s, m, type)
    BY <1>3, <2>2, <2>3 DEF Held, PlaceOf
  <2> QED BY <1>2, <2>4, FewStay
<1>6. CASE ch.op = "create" /\ Inserts(Stored(s, ch))
  <2>1. /\ DOMAIN rows' = DOMAIN rows \union {lastId + 1}
        /\ rows'[lastId + 1] = KeyRow(scan[s].machine, ch.key)
        /\ \A j \in DOMAIN rows : rows'[j] = rows[j]
    BY <1>0, <1>6, InsertsDoes
  <2>2. \A m, type : \A i \in OfType(m, type, rows') :
          i \in OfType(m, type, rows) \/ (i = lastId + 1 /\ ch \in Pending(s, m, type))
    BY <1>0, <1>6, <2>1 DEF OfType, KeyRow, Pending
  <2>3. PlaceOf(ch) = <<"line", ch.at>>
    BY <1>6 DEF PlaceOf
  <2>4. ASSUME NEW m \in Id, NEW type \in Types(Key) PROVE TwoAtMost(Held(s, m, type)')
    <3>1. TwoAtMost(Held(s, m, type))
      BY DEF Few
    <3>2. CASE ch \notin Pending(s, m, type)
      <4>1. Held(s, m, type)' \subseteq Held(s, m, type)
        BY <1>3, <2>2, <3>2 DEF Held, PlaceOf
      <4> QED BY <3>1, <4>1, FewerAreTwo
    <3>3. CASE ch \in Pending(s, m, type)
      <4>1. PlaceOf(ch) \in Held(s, m, type)
        BY <3>3 DEF Held
      <4>2. ASSUME NEW x \in Held(s, m, type)'
            PROVE  x \in (Held(s, m, type) \ {PlaceOf(ch)}) \union {<<"row", lastId + 1>>}
        <5>1. CASE x \in {<<"row", i>> : i \in OfType(m, type, rows')}
          <6>1. PICK i \in OfType(m, type, rows') : x = <<"row", i>>
            BY <5>1
          <6>2. x # PlaceOf(ch)
            BY <2>3, <6>1
          <6> QED BY <2>2, <6>1, <6>2 DEF Held
        <5>2. CASE x \in {PlaceOf(c) : c \in Pending(s, m, type)'}
          <6>1. PICK c \in Pending(s, m, type) \ {ch} : x = PlaceOf(c)
            BY <1>3, <5>2
          <6>2. c \in scan[s].changes /\ c.op \in {"save", "create"}
            BY <1>0, <6>1 DEF Pending, Scan, Change
          <6>3. PlaceOf(c) # PlaceOf(ch)
            BY <1>0, <1>2, <1>6, <2>3, <6>1, <6>2 DEF PlaceOf, Apart
          <6> QED BY <6>1, <6>3 DEF Held
        <5> QED BY <5>1, <5>2 DEF Held, PlaceOf
      <4> QED BY <3>1, <4>1, <4>2, SwappedAreTwo
    <3> QED BY <3>2, <3>3
  <2>5. \A m \in Id, type \in Types(Key) : TwoAtMost(Held(s, m, type))'
    BY <2>4 DEF TwoAtMost
  <2> QED BY <1>2, <2>5 DEF Few, Apart
<1> QED BY <1>4, <1>5, <1>6 DEF Changed

LEMMA NoKeyRequestsKept ==
  ASSUME TypeOK, "hostkey" \notin Site.kinds, NoKeyRequests, StepIs
  PROVE  NoKeyRequests'
<1>0. req \in [Caller -> Request] /\ Idle.op = "idle"
  BY DEF TypeOK, InventoryTypeOK, Idle
<1>1. ASSUME UNCHANGED req PROVE NoKeyRequests'
  BY <1>1 DEF NoKeyRequests
<1>2. ASSUME NEW c \in Caller, NEW r \in Request, Requests(c, r) PROVE NoKeyRequests'
  <2>1. /\ req' = [req EXCEPT ![c] = r]
        /\ r.op \in {"create", "update"} => r.row.kind # "hostkey"
    BY <1>2 DEF Requests, Opens
  <2> QED BY <1>0, <2>1 DEF NoKeyRequests
<1>3. ASSUME NEW c \in Caller, Answered(c) PROVE NoKeyRequests'
  <2>1. req' = [req EXCEPT ![c] = Idle]
    BY <1>3 DEF Answered
  <2> QED BY <1>0, <2>1 DEF NoKeyRequests
<1> QED BY <1>1, <1>2, <1>3 DEF StepIs, Lists, Scans, Changed, Stops, Reseeds, vars, inventoryVars

(* A request leaves no key it did not find.                                *)
LEMMA AnswersHold ==
  ASSUME NEW K, Sound(K), NEW c \in Caller, Answered(c), NoKeyRequests, NEW s, Few(s)
  PROVE  Few(s)'
<1>0. TypeOK /\ Known /\ Kinds(K) /\ Shaped(req[c]) /\ UNCHANGED scan
  BY DEF Sound, Known, Answered
<1>1. \A i \in DOMAIN rows' : rows'[i].kind = "hostkey" => i \in DOMAIN rows /\ rows'[i] = rows[i]
  <2>1. CASE req[c].op = "create" /\ Inserts(req[c].row)
    <3>1. req[c].row.kind # "hostkey" /\ req[c].row \in Row
      BY <1>0, <2>1 DEF NoKeyRequests, Shaped
    <3> QED BY <1>0, <2>1, <3>1, InsertsDoes
  <2>2. CASE req[c].op = "update" /\ Overwrites(req[c].id, req[c].row)
    <3>1. req[c].row.kind # "hostkey"
      BY <2>2 DEF NoKeyRequests
    <3> QED BY <2>2, <3>1 DEF Overwrites, Put
  <2>3. CASE Removes(req[c].id)
    BY <2>3 DEF Removes, Without
  <2>4. CASE UNCHANGED <<rows, lastId>>
    BY <2>4
  <2> QED BY <2>1, <2>2, <2>3, <2>4 DEF Answered
<1>2. \A m, type : OfType(m, type, rows') \subseteq OfType(m, type, rows)
  BY <1>1 DEF OfType
<1>3. \A m \in Id, type \in Types(Key) : Held(s, m, type)' \subseteq Held(s, m, type)
  BY <1>0, <1>2 DEF Held, Pending, PlaceOf
<1> QED BY <1>0, <1>3, FewStay DEF Few

LEMMA FewKept ==
  ASSUME NEW K, Sound(K), Present, NoKeyRequests, Site.seeds = {},
         NEW s \in Scanner, Site.scanners = {s}, Few(s), StepIs
  PROVE  Few(s)'
<1>0. TypeOK /\ scan \in [Scanner -> Scan]
  BY DEF Sound, TypeOK
<1>1. ASSUME UNCHANGED rows, scan'[s] = scan[s] \/ scan'[s].changes = {} PROVE Few(s)'
  <2>1. \A m \in Id, type \in Types(Key) : Held(s, m, type)' \subseteq Held(s, m, type)
    BY <1>1 DEF Held, OfType, Pending, PlaceOf
  <2>2. Apart(scan'[s].changes)
    BY <1>1 DEF Few, Apart
  <2> QED BY <2>1, <2>2, FewStay
<1>2. ASSUME NEW t \in Scanner, NEW active \in SUBSET Id, Lists(t, active) PROVE Few(s)'
  BY <1>0, <1>1, <1>2 DEF Lists, inventoryVars, NotScanning
<1>3. ASSUME NEW t \in Scanner, Stops(t) PROVE Few(s)'
  BY <1>0, <1>1, <1>3 DEF Stops, inventoryVars, NotScanning
<1>4. ASSUME NEW t \in Scanner, NEW m \in Id, NEW answer \in Opt(Answer), Scans(t, m, answer)
      PROVE  Few(s)'
  <2>1. t = s
    BY <1>4 DEF Scans, Present
  <2> QED BY <1>0, <1>4, <2>1, ScansHold
<1>5. ASSUME NEW t \in Scanner, NEW ch \in Change, Changed(t, ch) PROVE Few(s)'
  <2>1. t = s
    BY <1>5 DEF Changed, Present
  <2> QED BY <1>5, <2>1, ChangeHolds
<1>6. ASSUME NEW c \in Caller, NEW r \in Request, Requests(c, r) PROVE Few(s)'
  BY <1>1, <1>6 DEF Requests, Opens
<1>7. ASSUME NEW kind \in Kind, Reseeds(kind) PROVE FALSE
  BY <1>7 DEF Reseeds, Present
<1>8. CASE UNCHANGED vars
  BY <1>1, <1>8 DEF vars, inventoryVars
<1> QED BY <1>2, <1>3, <1>4, <1>5, <1>6, <1>7, <1>8, AnswersHold DEF StepIs

LEMMA FewKeysKept ==
  ASSUME NEW K, Sound(K), Present, FewKeys, StepIs
  PROVE  FewKeys'
<1>1. Site' = Site
  BY DEF StepIs, Requests, Opens, Answered, Lists, Scans, Changed, Stops, Reseeds, vars, inventoryVars, Site
<1>2. OnlyOneScannerWrites' = OnlyOneScannerWrites /\ AtMostTwo(Site.rows)' = AtMostTwo(Site.rows)
  BY <1>1 DEF OnlyOneScannerWrites, AtMostTwo, OfType
<1>3. SUFFICES ASSUME OnlyOneScannerWrites
               PROVE  NoKeyRequests' /\ (AtMostTwo(Site.rows) => \A s \in Site.scanners : Few(s)')
  BY <1>1, <1>2 DEF FewKeys, Few, Apart, TwoAtMost
<1>4. PICK s \in Scanner : Site.scanners = {s}
  BY <1>3 DEF OnlyOneScannerWrites
<1>5. NoKeyRequests /\ "hostkey" \notin Site.kinds /\ Site.seeds = {}
  BY <1>3 DEF FewKeys, OnlyOneScannerWrites
<1>6. NoKeyRequests'
  BY <1>5, NoKeyRequestsKept DEF Sound
<1>7. AtMostTwo(Site.rows) => Few(s)'
  BY <1>3, <1>4, <1>5, FewKept DEF FewKeys
<1> QED BY <1>4, <1>6, <1>7

LEMMA FewKeysInit ==
  ASSUME CommandsInit
  PROVE  FewKeys
<1>1. /\ rows = Site.rows /\ req = [c \in Caller |-> Idle] /\ scan = [s \in Scanner |-> NotScanning]
  BY DEF CommandsInit, Init, InventoryInit
<1>2. TypeOK
  BY InitInv DEF Inv, Sound
<1>3. NoKeyRequests
  BY <1>1 DEF NoKeyRequests, Idle
<1>4. ASSUME AtMostTwo(Site.rows), NEW s \in Scanner PROVE Few(s)
  <2>1. scan[s].changes = {}
    BY <1>1, NotScanningTyped
  <2>2. ASSUME NEW m \in Id, NEW type \in Types(Key) PROVE TwoAtMost(Held(s, m, type))
    <3> DEFINE S == OfType(m, type, rows)
    <3>1. Held(s, m, type) = {<<"row", i>> : i \in S}
      BY <2>1 DEF Held, Pending
    <3>2. IsFiniteSet(S)
      BY <1>2, IdsFinite, RowsFacts DEF OfType, TypeOK
    <3>3. Cardinality(S) <= 2
      <4>1. CASE m \in DOMAIN rows
        BY <1>1, <1>4, <4>1 DEF AtMostTwo
      <4>2. CASE m \notin DOMAIN rows
        <5>1. \A i \in DOMAIN rows : rows[i].kind # "participant" => rows[i].parent \in DOMAIN rows
          BY <1>2 DEF TypeOK, InventoryTypeOK, Resolves
        <5>2. S = {}
          BY <4>2, <5>1 DEF OfType
        <5> HIDE DEF S
        <5> QED BY <5>2, FS_EmptySet
      <4> QED BY <4>1, <4>2
    <3> HIDE DEF S
    <3> QED BY <3>1, <3>2, <3>3, TaggedAreTwo
  <2> QED BY <2>1, <2>2 DEF Few, Apart
<1>5. Site.scanners \subseteq Scanner
  BY <1>2, SiteFacts DEF TypeOK
<1> QED BY <1>3, <1>4, <1>5 DEF FewKeys

(***************************************************************************)
(* One scanner never makes more than two keys of a type, whatever it is    *)
(* answered, wherever it is interrupted, and whoever edits other rows.     *)
(***************************************************************************)
THEOREM KeysStayFew == CommandsSpec => []KeysDoNotPileUp
<1>1. CommandsInit => FewKeys
  BY FewKeysInit
<1>2. ASSUME Inv, FewKeys, [CommandsNext]_commandVars PROVE FewKeys'
  <2>1. StepIs /\ \E K : Sound(K)
    BY <1>2, NextInv DEF Inv
  <2> QED BY <1>2, <2>1, FewKeysKept DEF Inv
<1>3. ASSUME Inv, FewKeys PROVE KeysDoNotPileUp
  <2> SUFFICES ASSUME OnlyOneScannerWrites, AtMostTwo(Site.rows),
                      NEW m \in DOMAIN rows, NEW type \in Types(Key)
               PROVE  Cardinality(OfType(m, type, rows)) <= 2
    BY DEF KeysDoNotPileUp, AtMostTwo
  <2> DEFINE S == OfType(m, type, rows)
  <2>1. TypeOK
    BY <1>3 DEF Inv, Sound
  <2>2. PICK s \in Scanner : Few(s)
    BY <1>3 DEF FewKeys, OnlyOneScannerWrites
  <2>3. IsFiniteSet(S) /\ m \in Id
    BY <2>1, IdsFinite, RowsFacts DEF OfType, TypeOK
  <2>4. {<<"row", i>> : i \in S} \subseteq Held(s, m, type)
    BY DEF Held
  <2>5. TwoAtMost({<<"row", i>> : i \in S})
    BY <2>2, <2>3, <2>4, FewerAreTwo DEF Few
  <2> HIDE DEF S
  <2>6. Cardinality(S) <= 2
    BY <2>3, <2>5, TaggedAreTwo
  <2> QED BY <2>6 DEF S
<1> QED BY <1>1, <1>2, <1>3, Invariance, PTL DEF CommandsSpec

-----------------------------------------------------------------------------
(***************************************************************************)
(* Seeds.  What an undisturbed seed has done so far: nothing is imported   *)
(* while a table is still to be emptied; what is emptied stays empty until *)
(* it is imported; what is imported stays.                                 *)
(***************************************************************************)
Has(kind) == \A i \in DumpOf(kind) : i \in DOMAIN rows /\ rows[i] = Dump[i]

Progress(kind, todo, clear, only) ==
  /\ Clearing(kind) \in todo => \A other \in only : Importing(other) \in todo
  /\ Importing(kind) \notin todo => Has(kind) /\ (clear => StoredOf(kind) = DumpOf(kind))
  /\ clear /\ Clearing(kind) \notin todo /\ Importing(kind) \in todo => StoredOf(kind) = {}

Restoring ==
  seed.still =>
    /\ \A st \in seed.todo : st.kind \in seed.only /\ (st.op = "clear" => seed.clear)
    /\ seed.end # None => seed.todo = {}
    /\ seed.end = "failed" => ~(seed.clear /\ seed.only = Kind)
    /\ seed.end # "failed" =>
         \A kind \in seed.only : Progress(kind, seed.todo, seed.clear, seed.only)

LEMMA EndsDiffer == None # "failed" /\ None # "done"
BY Assumed DEF CommandsAssumption, SeedSiteOK

(* Parents come first.                                                     *)
LEMMA ParentsFirst ==
  /\ \A kind \in Kind : Rank(kind) \in Nat
  /\ \A kind \in Kind \ {"participant"} : Rank(ParentKind[kind]) < Rank(kind)
<1>1. DOMAIN TABLE_ORDER = 1..7
  BY DEF TABLE_ORDER
<1>2. ASSUME NEW n \in 1..7 PROVE Rank(TABLE_ORDER[n]) = n
  <2>1. \A x \in 1..7 : TABLE_ORDER[x] = TABLE_ORDER[n] => x = n
    BY DEF TABLE_ORDER
  <2> QED BY <1>1, <2>1 DEF Rank
<1>3. /\ Rank("participant") = 1 /\ Rank("user") = 2 /\ Rank("machine") = 3 /\ Rank("sshkey") = 4
      /\ Rank("hostkey") = 5 /\ Rank("premark") = 6 /\ Rank("mremark") = 7
  BY <1>2 DEF TABLE_ORDER
<1> QED BY <1>3, KindFacts

LEMMA StatementFacts ==
  /\ \A kind, other : Clearing(kind) # Importing(other)
  /\ \A kind, other : (Clearing(kind) = Clearing(other) <=> kind = other)
                      /\ (Importing(kind) = Importing(other) <=> kind = other)
  /\ \A kind : Clearing(kind).kind = kind /\ Importing(kind).kind = kind
  /\ \A kind : Clearing(kind).op = "clear" /\ Importing(kind).op = "import"
BY DEF Clearing, Importing

(* A table whose rows others refer to is not due; nor is one whose rows    *)
(* refer to rows that are not there yet.                                   *)
LEMMA ClearsSucceed ==
  ASSUME TypeOK, SeedTypeOK, Restoring, seed.still, seed.clear, seed.only = Kind,
         NEW kind \in Kind, Due(Clearing(kind)), NEW i \in StoredOf(kind)
  PROVE  ~Referenced(i)
<1> SUFFICES ASSUME NEW j \in DOMAIN rows, rows[j].parent = i PROVE FALSE
  BY DEF Referenced
<1> DEFINE child == rows[j].kind
<1>1. /\ rows[j] \in Row /\ Resolves(rows[j], rows) /\ child \in Kind
      /\ i \in Id /\ rows[i].kind = kind
  BY RowFacts, RowsFacts DEF TypeOK, Table, StoredOf
<1>2. child # "participant" /\ ParentKind[child] = kind
  BY <1>1, IdFacts DEF Resolves
<1>3. Clearing(kind) \in seed.todo
  BY DEF Due
<1>4. seed.end # "failed"
  BY <1>3, EndsDiffer DEF Restoring
<1>5. Clearing(child) \notin seed.todo
  <2> SUFFICES ASSUME Clearing(child) \in seed.todo PROVE FALSE
    OBVIOUS
  <2>1. child # kind /\ Rank(kind) < Rank(child) /\ Rank(kind) \in Nat /\ Rank(child) \in Nat
    BY <1>1, <1>2, ParentsFirst
  <2>2. Clearing(child) # Clearing(kind)
    BY <2>1, StatementFacts
  <2>3. Sooner(Clearing(kind), Clearing(child))
    BY <2>2 DEF Due
  <2>4. Rank(kind) > Rank(child)
    BY <2>3, StatementFacts DEF Sooner
  <2> QED BY <2>1, <2>4
<1>6. Importing(child) \in seed.todo
  BY <1>1, <1>3, <1>4 DEF Restoring, Progress
<1>7. StoredOf(child) = {}
  BY <1>1, <1>4, <1>5, <1>6 DEF Restoring, Progress
<1> QED BY <1>7 DEF StoredOf

LEMMA ImportsSucceed ==
  ASSUME NEW K, Sound(K), SeedTypeOK, Restoring, seed.still, seed.clear, seed.only = Kind,
         NEW kind \in Kind, Due(Importing(kind)), NEW i \in DumpOf(kind)
  PROVE  i \notin DOMAIN rows /\ Resolves(Dump[i], rows)
<1>0. TypeOK /\ Kinds(K) /\ i \in DOMAIN Dump /\ Dump[i].kind = kind
  BY DEF Sound, DumpOf
<1>1. Importing(kind) \in seed.todo /\ seed.end # "failed"
  BY EndsDiffer DEF Due, Restoring
<1>2. \A other : Clearing(other) \notin seed.todo
  <2> SUFFICES ASSUME NEW other, Clearing(other) \in seed.todo PROVE FALSE
    OBVIOUS
  <2>1. Sooner(Importing(kind), Clearing(other))
    BY StatementFacts DEF Due
  <2> QED BY <2>1, StatementFacts DEF Sooner
<1>3. StoredOf(kind) = {}
  BY <1>1, <1>2 DEF Restoring, Progress
<1>4. i \notin DOMAIN rows
  BY <1>0, <1>3 DEF Kinds, StoredOf
<1>5. Resolves(Dump[i], Dump)
  BY <1>0, SiteFacts DEF TypeOK, Dump
<1>6. CASE kind = "participant"
  BY <1>0, <1>4, <1>5, <1>6 DEF Resolves
<1>7. CASE kind # "participant"
  <2> DEFINE p == Dump[i].parent
             above == ParentKind[kind]
  <2>1. p \in DOMAIN Dump /\ Dump[p].kind = above
    BY <1>0, <1>5, <1>7 DEF Resolves
  <2>2. above \in Kind /\ Rank(above) < Rank(kind) /\ Rank(above) \in Nat /\ Rank(kind) \in Nat
    BY <1>7, ParentsFirst, KindFacts
  <2>3. Importing(above) \notin seed.todo
    <3> SUFFICES ASSUME Importing(above) \in seed.todo PROVE FALSE
      OBVIOUS
    <3>1. Importing(above) # Importing(kind)
      BY <2>2, StatementFacts
    <3>2. Sooner(Importing(kind), Importing(above))
      BY <3>1 DEF Due
    <3>3. Rank(kind) < Rank(above)
      BY <3>2, StatementFacts DEF Sooner
    <3> QED BY <2>2, <3>3
  <2>4. p \in DOMAIN rows /\ rows[p] = Dump[p]
    BY <1>1, <2>1, <2>2, <2>3 DEF Restoring, Progress, Has, DumpOf
  <2> QED BY <1>0, <1>4, <1>7, <2>1, <2>4 DEF Resolves
<1> QED BY <1>6, <1>7

(* A statement that succeeds makes progress.                               *)
LEMMA ClearsProgress ==
  ASSUME SeedTypeOK, Restoring, seed.still, NEW kind \in Kind, Due(Clearing(kind)),
         Proceeds(Clearing(kind)), rows' = [i \in DOMAIN rows \ StoredOf(kind) |-> rows[i]],
         UNCHANGED deployment
  PROVE  Restoring'
<1>1. /\ seed' = [seed EXCEPT !.todo = seed.todo \ {Clearing(kind)},
                              !.end = IF seed.todo = {Clearing(kind)} THEN "done" ELSE None]
      /\ Clearing(kind) \in seed.todo /\ Dump' = Dump
  BY DEF Proceeds, Due, Dump, Site
<1>2. /\ seed'.todo = seed.todo \ {Clearing(kind)} /\ seed'.only = seed.only
      /\ seed'.clear = seed.clear /\ seed'.end \in {"done", None}
      /\ seed'.end # None => seed'.todo = {}
  BY <1>1 DEF SeedTypeOK
<1>3. seed.end # "failed" /\ kind \in seed.only /\ seed.clear
  BY <1>1, StatementFacts, EndsDiffer DEF Restoring
<1>4. \A other \in seed.only : Importing(other) \in seed.todo
  BY <1>1, <1>3 DEF Restoring, Progress
<1>5. /\ StoredOf(kind)' = {}
      /\ \A other : other # kind => StoredOf(other)' = StoredOf(other)
  BY DEF StoredOf
<1>6. ASSUME NEW other \in seed.only, NEW todo, todo = seed'.todo,
              NEW clear, clear = seed.clear, NEW only, only = seed.only
       PROVE  Progress(other, todo, clear, only)'
  <2>1. Progress(other, seed.todo, seed.clear, seed.only)
    BY <1>3 DEF Restoring
  <2>2. \A x \in seed.only : Importing(x) \in seed'.todo
    BY <1>2, <1>4, StatementFacts
  <2>a. todo = seed'.todo /\ clear = seed.clear /\ only = seed.only
    BY <1>6
  <2>3. Clearing(other) \notin seed'.todo => other = kind \/ Clearing(other) \notin seed.todo
    BY <1>2, StatementFacts
  <2> QED BY <1>4, <1>5, <2>a, <2>1, <2>2, <2>3 DEF Progress
<1>7. \A st \in seed'.todo : st.kind \in seed.only /\ (st.op = "clear" => seed.clear)
  BY <1>2 DEF Restoring
<1>8. seed'.end # "failed"
  BY <1>2, EndsDiffer
<1>9. PICK todo, clear, only : todo = seed'.todo /\ clear = seed.clear /\ only = seed.only
  OBVIOUS
<1>10. \A other \in only : Progress(other, todo, clear, only)'
  BY <1>6, <1>9
<1> QED BY <1>2, <1>7, <1>8, <1>9, <1>10 DEF Restoring

LEMMA ImportsProgress ==
  ASSUME SeedTypeOK, Restoring, seed.still, NEW kind \in Kind, Due(Importing(kind)),
         Proceeds(Importing(kind)), rows' = Imported(kind), UNCHANGED deployment,
         \A i \in DumpOf(kind) : i \notin DOMAIN rows
  PROVE  Restoring'
<1>1. /\ seed' = [seed EXCEPT !.todo = seed.todo \ {Importing(kind)},
                              !.end = IF seed.todo = {Importing(kind)} THEN "done" ELSE None]
      /\ Importing(kind) \in seed.todo /\ Dump' = Dump
  BY DEF Proceeds, Due, Dump, Site
<1>2. /\ seed'.todo = seed.todo \ {Importing(kind)} /\ seed'.only = seed.only
      /\ seed'.clear = seed.clear /\ seed'.end \in {"done", None}
      /\ seed'.end # None => seed'.todo = {}
  BY <1>1 DEF SeedTypeOK
<1>3. seed.end # "failed" /\ kind \in seed.only
  BY <1>1, StatementFacts, EndsDiffer DEF Restoring
<1>4. \A other : Clearing(other) \notin seed.todo
  <2> SUFFICES ASSUME NEW other, Clearing(other) \in seed.todo PROVE FALSE
    OBVIOUS
  <2>1. Sooner(Importing(kind), Clearing(other))
    BY StatementFacts DEF Due
  <2> QED BY <2>1, StatementFacts DEF Sooner
<1>5. /\ DOMAIN rows' = DOMAIN rows \union DumpOf(kind)
      /\ \A i \in DumpOf(kind) : rows'[i] = Dump[i] /\ Dump[i].kind = kind
      /\ \A i \in DOMAIN rows : rows'[i] = rows[i]
  BY DEF Imported, DumpOf
<1>6. /\ StoredOf(kind)' = StoredOf(kind) \union DumpOf(kind)
      /\ \A other : other # kind => StoredOf(other)' = StoredOf(other)
  BY <1>5 DEF StoredOf
<1>7. \A other : DumpOf(other)' = DumpOf(other)
  BY <1>1 DEF DumpOf
<1>8. \A other : Has(other) => Has(other)'
  BY <1>1, <1>5, <1>7 DEF Has
<1>9. Has(kind)'
  BY <1>1, <1>5, <1>7 DEF Has
<1>10. ASSUME NEW other \in seed.only, NEW todo, todo = seed'.todo,
              NEW clear, clear = seed.clear, NEW only, only = seed.only
       PROVE  Progress(other, todo, clear, only)'
  <2>1. Progress(other, seed.todo, seed.clear, seed.only)
    BY <1>3 DEF Restoring
  <2>a. todo = seed'.todo /\ clear = seed.clear /\ only = seed.only
    BY <1>10
  <2>2. \A x : Clearing(x) \notin seed'.todo
    BY <1>2, <1>4
  <2>3. CASE other = kind
    <3>1. seed.clear => StoredOf(kind) = {}
      BY <1>1, <1>4, <2>1, <2>3 DEF Progress
    <3>2. Importing(kind) \notin seed'.todo
      BY <1>2
    <3> QED BY <1>6, <1>7, <1>9, <2>a, <2>2, <2>3, <3>1, <3>2 DEF Progress
  <2>4. CASE other # kind
    <3>1. Importing(other) \in seed'.todo <=> Importing(other) \in seed.todo
      BY <1>2, <2>4, StatementFacts
    <3> QED BY <1>4, <1>6, <1>7, <1>8, <2>a, <2>1, <2>2, <2>4, <3>1 DEF Progress
  <2> QED BY <2>3, <2>4
<1>11. \A st \in seed'.todo : st.kind \in seed.only /\ (st.op = "clear" => seed.clear)
  BY <1>2 DEF Restoring
<1>12. seed'.end # "failed"
  BY <1>2, EndsDiffer
<1>13. PICK todo, clear, only : todo = seed'.todo /\ clear = seed.clear /\ only = seed.only
  OBVIOUS
<1>14. \A other \in only : Progress(other, todo, clear, only)'
  BY <1>10, <1>13
<1> QED BY <1>2, <1>11, <1>12, <1>13, <1>14 DEF Restoring

LEMMA RestoringStays ==
  ASSUME Restoring, UNCHANGED <<rows, deployment, seed>>
  PROVE  Restoring'
<1>1. Dump' = Dump
  BY DEF Dump, Site
<1>2. ASSUME NEW kind, NEW todo, NEW clear, NEW only, Progress(kind, todo, clear, only)
      PROVE  Progress(kind, todo, clear, only)'
  BY <1>1, <1>2 DEF Progress, Has, StoredOf, DumpOf
<1>3. PICK todo, clear, only : todo = seed.todo /\ clear = seed.clear /\ only = seed.only
  OBVIOUS
<1>4. seed.still /\ seed.end # "failed" => \A kind \in only : Progress(kind, todo, clear, only)'
  BY <1>2, <1>3 DEF Restoring
<1> QED BY <1>3, <1>4 DEF Restoring

(* A seed that starts: all is ahead.                                       *)
LEMMA StartsRestoring ==
  ASSUME SeedTypeOK, NEW only, NEW clear, StartSeed(only, clear)
  PROVE  Restoring'
<1>1. /\ seed'.todo = [op: IF clear THEN {"clear", "import"} ELSE {"import"}, kind: only]
      /\ seed'.only = only /\ seed'.clear = clear /\ seed'.end = None
  BY DEF StartSeed
<1>2. /\ \A kind \in only : Importing(kind) \in seed'.todo
      /\ \A kind \in only : clear => Clearing(kind) \in seed'.todo
      /\ \A st \in seed'.todo : st.kind \in only /\ (st.op = "clear" => clear)
  BY <1>1 DEF Importing, Clearing
<1>3. PICK todo : todo = seed'.todo
  OBVIOUS
<1>4. \A kind \in only : Progress(kind, todo, clear, only)'
  BY <1>2, <1>3 DEF Progress
<1>5. None # "failed"
  BY EndsDiffer
<1> QED BY <1>1, <1>2, <1>3, <1>4, <1>5 DEF Restoring

LEMMA RestoringKept ==
  ASSUME NEW K, Sound(K), SeedTypeOK, Restoring, [CommandsNext]_commandVars
  PROVE  Restoring'
<1>0. TypeOK
  BY DEF Sound
<1>1. ASSUME seed'.still = FALSE PROVE Restoring'
  BY <1>1 DEF Restoring
<1>2. UNCHANGED deployment
  BY <1>0, StepCases DEF StepIs, Requests, Opens, Answered, Lists, Scans, Changed, Stops, Reseeds,
     vars, inventoryVars, commandVars
<1>3. CASE RowsSeenBySeed
  <2>1. CASE rows' = rows
    BY <1>2, <1>3, <2>1, RestoringStays DEF RowsSeenBySeed
  <2>2. CASE rows' # rows
    <3>1. seed'.still = FALSE
      BY <1>3, <2>2 DEF RowsSeenBySeed, SeedTypeOK
    <3> QED BY <1>1, <3>1
  <2> QED BY <2>1, <2>2
<1>4. CASE UNCHANGED <<rows, seed>>
  BY <1>2, <1>4, RestoringStays
<1>5. ASSUME NEW x \in Site.seeds, StartSeed(x.only, x.clear) PROVE Restoring'
  BY <1>5, StartsRestoring
<1>6. CASE SeedDies
  <2>1. seed'.still = FALSE
    BY <1>6 DEF SeedDies, Ends, SeedTypeOK
  <2> QED BY <1>1, <2>1
<1>7. ASSUME NEW kind \in Kind, Ends("failed"),
             seed.still => ~(seed.clear /\ seed.only = Kind)
      PROVE  Restoring'
  <2>1. /\ seed'.todo = {} /\ seed'.only = seed.only /\ seed'.clear = seed.clear
        /\ seed'.end = "failed" /\ (seed'.still => seed.still)
    BY <1>7 DEF Ends, SeedTypeOK
  <2> QED BY <1>7, <2>1 DEF Restoring
<1>8. ASSUME NEW st, Proceeds(st), ~seed.still PROVE Restoring'
  <2>1. seed'.still = seed.still
    BY <1>8 DEF Proceeds, SeedTypeOK
  <2> QED BY <1>8, <2>1 DEF Restoring
<1>9. ASSUME NEW kind \in Kind, ClearTable(kind) PROVE Restoring'
  <2>1. Due(Clearing(kind))
    BY <1>9 DEF ClearTable
  <2>2. CASE (\E i \in StoredOf(kind) : Referenced(i)) /\ Ends("failed")
    BY <1>0, <1>7, <2>1, <2>2, ClearsSucceed
  <2>3. CASE Proceeds(Clearing(kind)) /\ rows' = [i \in DOMAIN rows \ StoredOf(kind) |-> rows[i]]
    BY <1>2, <1>8, <2>1, <2>3, ClearsProgress
  <2> QED BY <1>9, <2>2, <2>3 DEF ClearTable
<1>10. ASSUME NEW kind \in Kind, ImportTable(kind) PROVE Restoring'
  <2>1. Due(Importing(kind))
    BY <1>10 DEF ImportTable
  <2>2. CASE (\E i \in DumpOf(kind) : i \in DOMAIN rows \/ ~Resolves(Dump[i], rows)) /\ Ends("failed")
    BY <1>7, <2>1, <2>2, ImportsSucceed
  <2>3. CASE /\ Proceeds(Importing(kind)) /\ rows' = Imported(kind)
             /\ \A i \in DumpOf(kind) : i \notin DOMAIN rows
    BY <1>2, <1>8, <2>1, <2>3, ImportsProgress
  <2> QED BY <1>10, <2>2, <2>3 DEF ImportTable
<1>11. CASE Seeds
  BY <1>5, <1>6, <1>9, <1>10, <1>11 DEF Seeds
<1> QED BY <1>3, <1>4, <1>11 DEF CommandsNext, Deploys, OthersPush, inventoryVars, vars, commandVars

(***************************************************************************)
(* A seed that ends undisturbed has restored its tables, and one of all    *)
(* tables does not fail: for any dump whose references are in order.       *)
(***************************************************************************)
THEOREM SeedsRestore == CommandsSpec => []SeedRestores
<1>1. CommandsInit => Restoring
  BY DEF CommandsInit, SeedInit, NoSeed, Restoring
<1>2. ASSUME Inv, Restoring, [CommandsNext]_commandVars PROVE Restoring'
  BY <1>2, RestoringKept DEF Inv
<1>3. ASSUME Restoring PROVE SeedRestores
  <2> SUFFICES ASSUME seed.still, seed.end = "done", NEW kind \in seed.only
               PROVE  Has(kind) /\ (seed.clear => StoredOf(kind) = DumpOf(kind))
    BY <1>3 DEF SeedRestores, Restoring, Has
  <2>1. seed.todo = {} /\ seed.end # "failed"
    BY <1>3, EndsDiffer DEF Restoring
  <2> QED BY <1>3, <2>1 DEF Restoring, Progress
<1> QED BY <1>1, <1>2, <1>3, Invariance, PTL DEF CommandsSpec

-----------------------------------------------------------------------------
(***************************************************************************)
(* Deployments.  What the tables say each generated file should hold is    *)
(* what the run makes of one user after the other.                         *)
(***************************************************************************)
Wanted(f) == IF f = "hosts.active" THEN Deployed.hosts ELSE Deployed[f]
Place(f) == CASE f = "hosts" -> 3 [] f = "hosts.active" -> 4 [] f = "hostkeys" -> 5 [] f = "users" -> 6
ByUsers(f, S) == UNION {Lines(f, u, rows[u]) : u \in {v \in S : InFile(f, v, rows[v])}}

LEMMA FileFacts ==
  /\ Generated = {"hosts", "hosts.active", "hostkeys", "users"} /\ Generated \subseteq File
  /\ DOMAIN Deployed = {"hosts", "hostkeys", "users"}
  /\ Wanted("hosts") = Deployed.hosts /\ Wanted("hosts.active") = Deployed.hosts
  /\ Wanted("hostkeys") = Deployed.hostkeys /\ Wanted("users") = Deployed.users
  /\ \A f \in Generated : Place(f) \in 3..6
  /\ \A n \in 1..8, f \in Generated : Steps("ansible")[n] = f <=> n = Place(f)
  /\ Len(Steps("ansible")) = 8 /\ Len(Steps("web")) = 4
<1>1. /\ Len(Steps("ansible")) = 8 /\ Len(Steps("web")) = 4
      /\ \A n \in 1..8, f \in Generated : Steps("ansible")[n] = f <=> n = Place(f)
  BY DEF Steps, AnsibleSteps, WebSteps, Generated, Place
<1>2. \A f \in Generated : Place(f) \in 3..6
  BY DEF Generated, Place
<1>3. DOMAIN Deployed = {"hosts", "hostkeys", "users"}
  BY DEF Deployed
<1>4. /\ Wanted("hosts") = Deployed.hosts /\ Wanted("hosts.active") = Deployed.hosts
      /\ Wanted("hostkeys") = Deployed.hostkeys /\ Wanted("users") = Deployed.users
  BY DEF Wanted, Deployed
<1>5. Generated = {"hosts", "hosts.active", "hostkeys", "users"} /\ Generated \subseteq File
  BY DEF Generated, File
<1> QED BY <1>1, <1>2, <1>3, <1>4, <1>5

LEMMA FitsIs ==
  ASSUME NEW t
  PROVE  Fits(t) <=> \A f \in Generated : t[f] = Wanted(f)
BY FileFacts DEF Fits

LEMMA WantedIs ==
  ASSUME TypeOK, NEW f \in Generated
  PROVE  ByUsers(f, Users(rows)) = Wanted(f)
<1>1. ASSUME NEW i \in DOMAIN rows
      PROVE  /\ rows[i].kind = "user" => i \in Users(rows)
             /\ rows[i].kind = "machine" => rows[i].parent \in Users(rows)
             /\ rows[i].kind = "hostkey" => rows[i].parent \in Machines
  BY RowsFacts, KindFacts DEF Table, Users, Machines, Resolves, TypeOK
<1>2. CASE f \in {"hosts", "hosts.active"}
  <2>1. Wanted(f) = {<<m, Owner(m)>> : m \in {n \in Machines : ~rows[Owner(n)].admin}}
    BY <1>2, FileFacts DEF Deployed
  <2>2. \A u : Lines(f, u, rows[u]) = {<<m, u>> : m \in MachinesOf(u)} /\ (InFile(f, u, rows[u]) <=> ~rows[u].admin)
    BY <1>2 DEF Lines, InFile
  <2>3. ByUsers(f, Users(rows)) =
          UNION {{<<m, u>> : m \in MachinesOf(u)} : u \in {v \in Users(rows) : ~rows[v].admin}}
    BY <2>2 DEF ByUsers
  <2>4. ASSUME NEW m \in Machines, ~rows[Owner(m)].admin
        PROVE  Owner(m) \in Users(rows) /\ m \in MachinesOf(Owner(m))
    BY <1>1 DEF Machines, Owner, MachinesOf
  <2>5. ASSUME NEW u \in Users(rows), NEW m \in MachinesOf(u)
        PROVE  m \in Machines /\ Owner(m) = u
    BY DEF Machines, Owner, MachinesOf
  <2>6. ByUsers(f, Users(rows)) \subseteq Wanted(f)
    BY <2>1, <2>3, <2>5
  <2>7. Wanted(f) \subseteq ByUsers(f, Users(rows))
    BY <2>1, <2>3, <2>4
  <2> QED BY <2>6, <2>7
<1>3. CASE f = "hostkeys"
  <2>1. Wanted(f) = {<<rows[k].parent, rows[k].key>> : k \in {i \in DOMAIN rows : rows[i].kind = "hostkey"}}
    BY <1>3, FileFacts DEF Deployed
  <2>2. \A u : Lines(f, u, rows[u]) = UNION {{<<m, key>> : key \in KeysOn(m)} : m \in MachinesOf(u)} /\ InFile(f, u, rows[u])
    BY <1>3 DEF Lines, InFile
  <2>3. ByUsers(f, Users(rows)) =
          UNION {UNION {{<<m, key>> : key \in KeysOn(m)} : m \in MachinesOf(u)} : u \in Users(rows)}
    BY <2>2 DEF ByUsers
  <2>4. ASSUME NEW k \in DOMAIN rows, rows[k].kind = "hostkey"
        PROVE  \E u \in Users(rows) : rows[k].parent \in MachinesOf(u) /\ rows[k].key \in KeysOn(rows[k].parent)
    <3>1. rows[k].parent \in Machines /\ rows[rows[k].parent].parent \in Users(rows)
      BY <1>1, <2>4 DEF Machines
    <3>2. rows[k].parent \in MachinesOf(rows[rows[k].parent].parent)
      BY <3>1 DEF Machines, MachinesOf
    <3>3. rows[k].key \in KeysOn(rows[k].parent)
      BY <2>4 DEF KeysOn
    <3> QED BY <3>1, <3>2, <3>3
  <2>5. ASSUME NEW u \in Users(rows), NEW m \in MachinesOf(u), NEW key \in KeysOn(m)
        PROVE  \E k \in DOMAIN rows : rows[k].kind = "hostkey" /\ rows[k].parent = m /\ rows[k].key = key
    BY DEF KeysOn
  <2>6. ByUsers(f, Users(rows)) \subseteq Wanted(f)
    BY <2>1, <2>3, <2>5
  <2>7. Wanted(f) \subseteq ByUsers(f, Users(rows))
    BY <2>1, <2>3, <2>4
  <2> QED BY <2>6, <2>7
<1>4. CASE f = "users"
  <2>1. Wanted(f) = {<<u, rows[u].parent>> : u \in {v \in Users(rows) : ~rows[v].admin}}
    BY <1>4, FileFacts DEF Deployed
  <2>2. \A u : Lines(f, u, rows[u]) = {<<u, rows[u].parent>>} /\ (InFile(f, u, rows[u]) <=> ~rows[u].admin)
    BY <1>4 DEF Lines, InFile
  <2>3. ByUsers(f, Users(rows)) = UNION {{<<u, rows[u].parent>>} : u \in {v \in Users(rows) : ~rows[v].admin}}
    BY <2>2 DEF ByUsers
  <2>4. ByUsers(f, Users(rows)) \subseteq Wanted(f)
    BY <2>1, <2>3
  <2>5. Wanted(f) \subseteq ByUsers(f, Users(rows))
    BY <2>1, <2>3
  <2> QED BY <2>4, <2>5
<1> QED BY <1>2, <1>3, <1>4, FileFacts

(* The users that are done with, and one more.                             *)
LEMMA OneMoreUser ==
  ASSUME NEW f, NEW S, NEW u \in S, NEW Q, u \in Q
  PROVE  /\ InFile(f, u, rows[u]) =>
              ByUsers(f, S \ (Q \ {u})) = ByUsers(f, S \ Q) \union Lines(f, u, rows[u])
         /\ ~InFile(f, u, rows[u]) => ByUsers(f, S \ (Q \ {u})) = ByUsers(f, S \ Q)
<1>1. \A T, x : x \in ByUsers(f, T) <=>
        \E v \in T : InFile(f, v, rows[v]) /\ x \in Lines(f, v, rows[v])
  BY DEF ByUsers
<1>2. PICK T, U : T = S \ (Q \ {u}) /\ U = S \ Q
  OBVIOUS
<1>3. \A x : x \in ByUsers(f, S \ (Q \ {u})) <=>
        x \in ByUsers(f, S \ Q) \/ (InFile(f, u, rows[u]) /\ x \in Lines(f, u, rows[u]))
  <2> SUFFICES ASSUME NEW x
               PROVE  x \in ByUsers(f, T) <=>
                        x \in ByUsers(f, U) \/ (InFile(f, u, rows[u]) /\ x \in Lines(f, u, rows[u]))
    BY <1>2
  <2>1. x \in ByUsers(f, T) <=> \E v \in T : InFile(f, v, rows[v]) /\ x \in Lines(f, v, rows[v])
    BY <1>1
  <2>2. x \in ByUsers(f, U) <=> \E v \in U : InFile(f, v, rows[v]) /\ x \in Lines(f, v, rows[v])
    BY <1>1
  <2>3. \A v : v \in T <=> v \in U \/ v = u
    BY <1>2
  <2> QED BY <2>1, <2>2, <2>3, Zenon
<1>4. PICK done, more : done = ByUsers(f, S \ Q) /\ more = ByUsers(f, S \ (Q \ {u}))
  OBVIOUS
<1>5. PICK lines : lines = Lines(f, u, rows[u])
  OBVIOUS
<1>6. \A x : x \in more <=> x \in done \/ (InFile(f, u, rows[u]) /\ x \in lines)
  BY <1>3, <1>4, <1>5
<1>7. InFile(f, u, rows[u]) => more = done \union lines
  BY <1>6
<1>8. ~InFile(f, u, rows[u]) => more = done
  BY <1>6
<1> QED BY <1>4, <1>5, <1>7, <1>8

(***************************************************************************)
(* What a run has done so far, seen from its clone.  As long as no row     *)
(* changes, the files it has passed are as wanted, and the one at work has *)
(* the lines of the users done with; what was committed and what was       *)
(* pushed fit in turn.  For a post, whatever happens to the tables, it is  *)
(* written, committed and pushed.                                          *)
(***************************************************************************)
Cloned(c) ==
  /\ DOMAIN c = {"work", "head", "origin", "ahead", "behind"}
  /\ DOMAIN c.work = File /\ DOMAIN c.head = File /\ DOMAIN c.origin = File
  /\ c.ahead \in BOOLEAN /\ c.behind \in BOOLEAN
  /\ ~c.ahead => c.origin = c.head

Jobbed(r, j) ==
  /\ DOMAIN j = {"at", "users", "queue", "lines", "end", "still"}
  /\ j.at \in 0..Len(Steps(r)) /\ j.queue \subseteq Id
  /\ j.end \in {None, "done", "nothing"} /\ j.still \in BOOLEAN
  /\ j.at # 0 => j.end = None

Loaded(f, j) ==
  /\ j.users = [u \in Users(rows) |-> rows[u]]
  /\ j.queue \subseteq Users(rows)
  /\ j.lines = ByUsers(f, Users(rows) \ j.queue)

Generating(c, j) ==
  /\ \A f \in Generated : Place(f) < j.at => c.work[f] = Wanted(f)
  /\ j.at = 8 => Fits(c.head)
  /\ \/ j.users = None /\ j.queue = {}
     \/ \E f \in Generated : j.at = Place(f) /\ Loaded(f, j)

Delivering(c, j) ==
  j.still =>
    /\ j.at # 0 => Generating(c, j)
    /\ j.end = "done" => Fits(c.origin)
    /\ j.end = "nothing" => Fits(c.head) /\ (c.ahead \/ Fits(c.origin))

OfOne(lines) == \E post : lines = {post}

Posting(c, j) ==
  /\ j.at # 0 => OfOne(j.lines)
  /\ j.at \in {3, 4} => j.lines \subseteq c.work["posts"]
  /\ j.at = 4 => j.lines \subseteq c.head["posts"]
  /\ j.end = "done" => j.lines \subseteq c.origin["posts"]
  /\ j.end = "nothing" => j.lines \subseteq c.head["posts"] /\ (c.ahead \/ j.lines \subseteq c.origin["posts"])

Fine(r, c, j) ==
  /\ Cloned(c) /\ Jobbed(r, j)
  /\ r = "ansible" => Delivering(c, j)
  /\ r = "web" => Posting(c, j)

Deploying ==
  /\ clone = [r \in Repo |-> clone[r]] /\ job = [r \in Repo |-> job[r]]
  /\ \A r \in Repo : Fine(r, clone[r], job[r])

(* A run's clone and run give way to others, as long as those are fine.    *)
Becomes(r, c, j) == clone' = [clone EXCEPT ![r] = c] /\ job' = [job EXCEPT ![r] = j]

LEMMA FineStays ==
  ASSUME NEW r, NEW c, NEW j, Fine(r, c, j), UNCHANGED rows
  PROVE  Fine(r, c, j)'
<1>1. \A u : MachinesOf(u)' = MachinesOf(u)
  BY DEF MachinesOf
<1>2. \A m : KeysOn(m)' = KeysOn(m)
  BY DEF KeysOn
<1>3. Users(rows)' = Users(rows) /\ Machines' = Machines /\ \A m : Owner(m)' = Owner(m)
  BY DEF Users, Machines, Owner
<1>4. Deployed' = Deployed
  BY <1>3 DEF Deployed, Users
<1>5. \A f : Wanted(f)' = Wanted(f)
  BY <1>4 DEF Wanted
<1>6. ASSUME NEW f, NEW u PROVE Lines(f, u, rows[u])' = Lines(f, u, rows[u])
  <2>1. CASE f = "hostkeys"
    <3>1. Lines(f, u, rows[u]) = UNION {{<<m, key>> : key \in KeysOn(m)} : m \in MachinesOf(u)}
      BY <2>1 DEF Lines
    <3>2. Lines(f, u, rows[u])' = UNION {{<<m, key>> : key \in KeysOn(m)'} : m \in MachinesOf(u)'}
      BY <2>1 DEF Lines
    <3>3. PICK on, keys : on = MachinesOf(u) /\ keys = [m \in on |-> KeysOn(m)]
      OBVIOUS
    <3>4. Lines(f, u, rows[u]) = UNION {{<<m, key>> : key \in keys[m]} : m \in on}
      BY <3>1, <3>3
    <3>5. Lines(f, u, rows[u])' = UNION {{<<m, key>> : key \in keys[m]} : m \in on}
      BY <1>1, <1>2, <3>2, <3>3
    <3> QED BY <3>4, <3>5
  <2>2. CASE f # "hostkeys"
    BY <1>1, <2>2 DEF Lines
  <2> QED BY <2>1, <2>2
<1>7. ASSUME NEW f, NEW S PROVE ByUsers(f, S)' = ByUsers(f, S)
  BY <1>6 DEF ByUsers, InFile
<1>8. ASSUME NEW t, Fits(t) PROVE Fits(t)'
  BY <1>4, <1>8 DEF Fits
<1>9. ASSUME NEW f, Loaded(f, j) PROVE Loaded(f, j)'
  BY <1>3, <1>7, <1>9 DEF Loaded
<1>10. ASSUME Delivering(c, j) PROVE Delivering(c, j)'
  BY <1>5, <1>8, <1>9, <1>10 DEF Delivering, Generating
<1> QED BY <1>10 DEF Fine, Cloned, Jobbed, Posting

LEMMA BecomesFine ==
  ASSUME Deploying, NEW r \in Repo, NEW c, NEW j, Fine(r, c, j), Becomes(r, c, j), UNCHANGED rows
  PROVE  Deploying'
<1>1. /\ clone' = [x \in Repo |-> clone'[x]] /\ job' = [x \in Repo |-> job'[x]]
      /\ \A x \in Repo : IF x = r THEN clone'[x] = c /\ job'[x] = j
                         ELSE clone'[x] = clone[x] /\ job'[x] = job[x]
  BY DEF Becomes, Deploying
<1>2. PICK clones, jobs : clones = clone' /\ jobs = job'
  OBVIOUS
<1>3. ASSUME NEW x \in Repo PROVE Fine(x, clones[x], jobs[x])
  BY <1>1, <1>2 DEF Deploying
<1>4. \A x \in Repo : Fine(x, clones[x], jobs[x])'
  BY <1>3, FineStays
<1> QED BY <1>1, <1>2, <1>4 DEF Deploying

LEMMA EndingsDiffer == None # "done" /\ None # "nothing"
BY Assumed DEF CommandsAssumption, DeploySiteOK

LEMMA RepoFacts == Repo = {"ansible", "web"} /\ "ansible" # "web"
BY DEF Repo

LEMMA NoRunFacts ==
  /\ DOMAIN NoRun = {"at", "users", "queue", "lines", "end", "still"}
  /\ NoRun.at = 0 /\ NoRun.users = None /\ NoRun.queue = {} /\ NoRun.lines = {}
  /\ NoRun.end = None /\ NoRun.still = FALSE /\ NoRun.still \in BOOLEAN
BY DEF NoRun

LEMMA StepCounts == Len(Steps("ansible")) = 8 /\ Len(Steps("web")) = 4
BY FileFacts

LEMMA EndIs ==
  ASSUME Deploying, NEW r \in Repo, NEW end, end \in {None, "done", "nothing"}, End(r, end)
  PROVE  \E j : /\ job' = [job EXCEPT ![r] = j] /\ Jobbed(r, j)
                /\ j.at = 0 /\ j.end = end
                /\ end = None => j.still = FALSE
                /\ end # None => j.still = job[r].still /\ j.lines = job[r].lines
<1>1. PICK stays \in BOOLEAN : stays = (end # None /\ job[r].still)
  OBVIOUS
<1>2. PICK kept : kept = IF end = None THEN {} ELSE job[r].lines
  OBVIOUS
<1>3. PICK j : j = [NoRun EXCEPT !.end = end, !.still = stays, !.lines = kept]
  OBVIOUS
<1>4. /\ DOMAIN j = {"at", "users", "queue", "lines", "end", "still"}
      /\ j.at = 0 /\ j.queue = {} /\ j.end = end /\ j.still = stays /\ j.lines = kept
  BY <1>3, NoRunFacts
<1>5. Jobbed(r, j)
  BY <1>4, FileFacts, RepoFacts DEF Jobbed
<1>6. job' = [job EXCEPT ![r] = j]
  BY <1>1, <1>2, <1>3 DEF End
<1>7. job[r].still \in BOOLEAN
  BY DEF Deploying, Fine, Jobbed
<1>8. CASE end = None
  BY <1>1, <1>4, <1>5, <1>6, <1>8
<1>9. CASE end # None
  <2>1. stays = job[r].still /\ kept = job[r].lines
    BY <1>1, <1>2, <1>7, <1>9
  <2> QED BY <1>4, <1>5, <1>6, <1>9, <2>1
<1> QED BY <1>8, <1>9

(* A run that fails leaves the clone as it is.                             *)
LEMMA FailsFine ==
  ASSUME Deploying, NEW r \in Repo, End(r, None), UNCHANGED <<rows, clone>>
  PROVE  Deploying'
<1>1. PICK j : /\ job' = [job EXCEPT ![r] = j] /\ Jobbed(r, j)
               /\ j.at = 0 /\ j.end = None /\ j.still = FALSE
  BY EndIs
<1>2. clone' = [clone EXCEPT ![r] = clone[r]]
  BY DEF Deploying
<1>3. Cloned(clone[r])
  BY DEF Deploying, Fine
<1>4. Delivering(clone[r], j) /\ Posting(clone[r], j)
  BY <1>1, EndingsDiffer DEF Delivering, Posting
<1>5. Fine(r, clone[r], j)
  BY <1>1, <1>3, <1>4 DEF Fine
<1> QED BY <1>1, <1>2, <1>5, BecomesFine DEF Becomes

(* The first run finds nothing done.                                       *)
LEMMA DeployInitFine == DeployInit => Deploying
<1> SUFFICES ASSUME DeployInit PROVE Deploying
  OBVIOUS
<1> DEFINE c == [work |-> NoFiles, head |-> NoFiles, origin |-> NoFiles, ahead |-> FALSE, behind |-> FALSE]
<1>1. clone = [r \in Repo |-> c] /\ job = [r \in Repo |-> NoRun]
  BY DEF DeployInit
<1>2. Cloned(c)
  BY DEF Cloned, NoFiles
<1> HIDE DEF c
<1>3. ASSUME NEW r \in Repo PROVE Jobbed(r, NoRun)
  BY FileFacts, RepoFacts, NoRunFacts DEF Jobbed
<1>4. ASSUME NEW r \in Repo PROVE Fine(r, c, NoRun)
  BY <1>2, <1>3, NoRunFacts, EndingsDiffer DEF Fine, Delivering, Posting
<1> QED BY <1>1, <1>4 DEF Deploying

LEMMA StartDeployFine ==
  ASSUME Deploying, StartDeploy, UNCHANGED rows
  PROVE  Deploying'
<1> DEFINE c == clone["ansible"]
<1>1. PICK j : j = [NoRun EXCEPT !.at = 1, !.still = TRUE]
  OBVIOUS
<1>2. /\ DOMAIN j = {"at", "users", "queue", "lines", "end", "still"}
      /\ j.at = 1 /\ j.users = None /\ j.queue = {} /\ j.end = None
      /\ j.still = TRUE /\ j.still \in BOOLEAN
  BY <1>1, NoRunFacts
<1>3. Jobbed("ansible", j)
  BY <1>2, FileFacts DEF Jobbed
<1>4. clone' = [clone EXCEPT !["ansible"] = c]
  BY RepoFacts DEF StartDeploy, Deploying
<1>5. job' = [job EXCEPT !["ansible"] = j]
  BY <1>1 DEF StartDeploy
<1>6. Cloned(c)
  BY RepoFacts DEF Deploying, Fine
<1>7. Generating(c, j)
  BY <1>2, FileFacts DEF Generating
<1>8. Delivering(c, j)
  BY <1>2, <1>7, EndingsDiffer DEF Delivering
<1>9. Fine("ansible", c, j)
  BY <1>3, <1>6, <1>8 DEF Fine
<1> QED BY <1>4, <1>5, <1>9, BecomesFine, RepoFacts DEF Becomes

LEMMA StartPublishFine ==
  ASSUME Deploying, NEW u, NEW date, StartPublish(u, date), UNCHANGED rows
  PROVE  Deploying'
<1> DEFINE c == clone["web"]
<1>1. PICK post : post = <<u, rows[u].parent, CHOOSE m \in MachinesOf(u) : TRUE, date>>
  OBVIOUS
<1>2. PICK j : j = [NoRun EXCEPT !.at = 1, !.still = TRUE, !.lines = {post}]
  OBVIOUS
<1>3. /\ DOMAIN j = {"at", "users", "queue", "lines", "end", "still"}
      /\ j.at = 1 /\ j.queue = {} /\ j.end = None /\ j.still \in BOOLEAN
  BY <1>2, NoRunFacts
<1>a. OfOne(j.lines)
  BY <1>2, NoRunFacts DEF OfOne
<1>4. Jobbed("web", j)
  <2>1. 1 \in 0..Len(Steps("web"))
    BY StepCounts
  <2> QED BY <1>3, <2>1 DEF Jobbed
<1>5. clone' = [clone EXCEPT !["web"] = c]
  BY RepoFacts DEF StartPublish, Deploying
<1>6. job' = [job EXCEPT !["web"] = j]
  BY <1>1, <1>2 DEF StartPublish
<1>7. Cloned(c)
  BY RepoFacts DEF Deploying, Fine
<1>8. Posting(c, j)
  BY <1>3, <1>a, EndingsDiffer DEF Posting
<1>9. Fine("web", c, j)
  BY <1>4, <1>7, <1>8, RepoFacts DEF Fine
<1> QED BY <1>5, <1>6, <1>9, BecomesFine, RepoFacts DEF Becomes

LEMMA Positions ==
  ASSUME NEW r \in Repo, NEW n \in 1..Len(Steps(r))
  PROVE  /\ Steps(r)[n] = "pull" => n = 1
         /\ Steps(r)[n] \in {"sshkeys", "posts"} => n = 2
         /\ Steps(r)[n] = "commit" => n = Len(Steps(r)) - 1
         /\ Steps(r)[n] = "push" => n = Len(Steps(r))
         /\ Len(Steps(r)) \in {4, 8}
<1>1. CASE r = "ansible"
  <2>1. Steps(r) = AnsibleSteps /\ n \in 1..8
    BY <1>1, StepCounts DEF Steps
  <2> QED BY <2>1 DEF AnsibleSteps
<1>2. CASE r = "web"
  <2>1. Steps(r) = WebSteps /\ n \in 1..4
    BY <1>2, StepCounts DEF Steps
  <2> QED BY <2>1 DEF WebSteps
<1> QED BY <1>1, <1>2, RepoFacts

LEMMA ReachedAt ==
  ASSUME Deploying, NEW r \in Repo, NEW step, Reached(r, step)
  PROVE  /\ job[r].at \in 1..Len(Steps(r)) /\ Steps(r)[job[r].at] = step
         /\ job[r].end = None
         /\ Cloned(clone[r]) /\ Jobbed(r, job[r])
         /\ r = "ansible" /\ job[r].still => Generating(clone[r], job[r])
         /\ r = "web" => Posting(clone[r], job[r])
<1>1. Fine(r, clone[r], job[r])
  BY DEF Deploying
<1>2. job[r].at # 0 /\ Steps(r)[job[r].at] = step
  BY DEF Reached, Running
<1>3. job[r].at \in 1..Len(Steps(r))
  BY <1>1, <1>2, StepCounts, RepoFacts DEF Fine, Jobbed
<1> QED BY <1>1, <1>2, <1>3 DEF Fine, Jobbed, Delivering

LEMMA AdvanceIs ==
  ASSUME Deploying, NEW r \in Repo, Advance(r), job[r].at \in 1..(Len(Steps(r)) - 1)
  PROVE  \E j : /\ job' = [job EXCEPT ![r] = j] /\ Jobbed(r, j)
                /\ j.at = job[r].at + 1 /\ j.at \in 2..Len(Steps(r))
                /\ j.users = job[r].users /\ j.queue = job[r].queue
                /\ j.lines = job[r].lines /\ j.end = None /\ j.still = job[r].still
<1>1. Jobbed(r, job[r])
  BY DEF Deploying, Fine
<1>2. job[r].at + 1 \in 2..Len(Steps(r)) /\ job[r].at # 0
  BY StepCounts, RepoFacts
<1>3. PICK j : j = [job[r] EXCEPT !.at = job[r].at + 1]
  OBVIOUS
<1>4. /\ DOMAIN j = {"at", "users", "queue", "lines", "end", "still"}
      /\ j.at = job[r].at + 1
      /\ j.users = job[r].users /\ j.queue = job[r].queue
      /\ j.lines = job[r].lines /\ j.end = job[r].end /\ j.still = job[r].still
  BY <1>1, <1>3 DEF Jobbed
<1>5. Jobbed(r, j) /\ j.end = None
  BY <1>1, <1>2, <1>4 DEF Jobbed
<1>6. job' = [job EXCEPT ![r] = j]
  BY <1>3 DEF Advance
<1> QED BY <1>2, <1>4, <1>5, <1>6

LEMMA BehindIs ==
  ASSUME Deploying, NEW r \in Repo, NEW x \in BOOLEAN, Gives(r, "behind", x)
  PROVE  \E c : /\ clone' = [clone EXCEPT ![r] = c] /\ Cloned(c)
                /\ c.work = clone[r].work /\ c.head = clone[r].head
                /\ c.origin = clone[r].origin /\ c.ahead = clone[r].ahead
<1>1. Cloned(clone[r])
  BY DEF Deploying, Fine
<1>2. PICK c : c = [clone[r] EXCEPT !["behind"] = x]
  OBVIOUS
<1>3. /\ DOMAIN c = {"work", "head", "origin", "ahead", "behind"}
      /\ c.work = clone[r].work /\ c.head = clone[r].head
      /\ c.origin = clone[r].origin /\ c.ahead = clone[r].ahead /\ c.behind = x
  BY <1>1, <1>2 DEF Cloned
<1>4. Cloned(c)
  BY <1>1, <1>3 DEF Cloned
<1>5. clone' = [clone EXCEPT ![r] = c]
  BY <1>2 DEF Gives
<1> QED BY <1>3, <1>4, <1>5

LEMMA PullFine ==
  ASSUME Deploying, NEW r \in Repo, Pull(r), UNCHANGED rows
  PROVE  Deploying'
<1>1. CASE End(r, None) /\ UNCHANGED clone
  BY <1>1, FailsFine
<1>2. CASE Gives(r, "behind", FALSE) /\ Advance(r)
  <2>1. /\ Reached(r, "pull") /\ job[r].at = 1 /\ job[r].at \in 1..(Len(Steps(r)) - 1)
    <3>1. Reached(r, "pull") /\ job[r].at \in 1..Len(Steps(r)) /\ Steps(r)[job[r].at] = "pull"
      BY ReachedAt DEF Pull
    <3> QED BY <3>1, Positions
  <2>2. PICK c : /\ clone' = [clone EXCEPT ![r] = c] /\ Cloned(c)
                 /\ c.work = clone[r].work /\ c.head = clone[r].head
                 /\ c.origin = clone[r].origin /\ c.ahead = clone[r].ahead
    BY <1>2, BehindIs
  <2>3. PICK j : /\ job' = [job EXCEPT ![r] = j] /\ Jobbed(r, j)
                 /\ j.at = 2
                 /\ j.users = job[r].users /\ j.queue = job[r].queue
                 /\ j.lines = job[r].lines /\ j.end = None /\ j.still = job[r].still
    BY <1>2, <2>1, AdvanceIs
  <2>4. ASSUME r = "ansible" PROVE Delivering(c, j)
    <3>1. j.still => job[r].users = None /\ job[r].queue = {}
      BY <2>1, <2>3, <2>4, ReachedAt, FileFacts DEF Generating
    <3>2. j.still => Generating(c, j)
      BY <2>3, <3>1, FileFacts DEF Generating
    <3> QED BY <2>3, <3>2, EndingsDiffer DEF Delivering
  <2>5. ASSUME r = "web" PROVE Posting(c, j)
    <3>1. OfOne(job[r].lines)
      BY <2>1, <2>5, ReachedAt DEF Posting
    <3> QED BY <2>3, <3>1, EndingsDiffer DEF Posting
  <2>6. Fine(r, c, j)
    BY <2>2, <2>3, <2>4, <2>5 DEF Fine
  <2> QED BY <2>2, <2>3, <2>6, BecomesFine DEF Becomes
<1> QED BY <1>1, <1>2 DEF Pull

LEMMA OthersPushFine ==
  ASSUME Deploying, NEW r \in Repo, OthersPush(r)
  PROVE  Deploying'
<1>1. PICK c : /\ clone' = [clone EXCEPT ![r] = c] /\ Cloned(c)
               /\ c.work = clone[r].work /\ c.head = clone[r].head
               /\ c.origin = clone[r].origin /\ c.ahead = clone[r].ahead
  BY BehindIs DEF OthersPush
<1>2. job' = [job EXCEPT ![r] = job[r]]
  BY DEF OthersPush, Deploying
<1>3. Fine(r, clone[r], job[r])
  BY DEF Deploying
<1>4. Fine(r, c, job[r])
  BY <1>1, <1>3 DEF Fine, Delivering, Generating, Posting
<1>5. UNCHANGED rows
  BY DEF OthersPush, inventoryVars
<1> QED BY <1>1, <1>2, <1>4, <1>5, BecomesFine DEF Becomes

LEMMA PlaceFacts ==
  ASSUME Deploying, NEW f \in Generated, Reached("ansible", f)
  PROVE  /\ job["ansible"].at = Place(f) /\ Place(f) \in 3..6
         /\ \A g \in Generated : Place(g) = Place(f) => g = f
<1>1. job["ansible"].at \in 1..8 /\ Steps("ansible")[job["ansible"].at] = f
  BY ReachedAt, StepCounts, RepoFacts
<1> QED BY <1>1, FileFacts

LEMMA SyncKeysFine ==
  ASSUME Deploying, NEW keys, SyncKeys(keys), UNCHANGED rows
  PROVE  Deploying'
<1> DEFINE c0 == clone["ansible"]
           j0 == job["ansible"]
<1>1. /\ j0.at = 2 /\ 2 \in 1..(Len(Steps("ansible")) - 1)
      /\ Cloned(c0)
      /\ j0.still => Generating(c0, j0)
  <2>1. Reached("ansible", "sshkeys")
    BY DEF SyncKeys
  <2> QED BY <2>1, ReachedAt, Positions, StepCounts, RepoFacts
<1>2. PICK j : /\ job' = [job EXCEPT !["ansible"] = j] /\ Jobbed("ansible", j)
               /\ j.at = 3 /\ j.users = j0.users /\ j.queue = j0.queue
               /\ j.end = None /\ j.still = j0.still
  BY <1>1, AdvanceIs, RepoFacts DEF SyncKeys
<1>3. PICK c : c = [c0 EXCEPT !.work = [c0.work EXCEPT !["sshkeys"] = {keys}]]
  OBVIOUS
<1>4. clone' = [clone EXCEPT !["ansible"] = c]
  BY <1>3 DEF SyncKeys
<1>5. Cloned(c)
  BY <1>1, <1>3 DEF Cloned
<1>6. j.still => Generating(c, j)
  <2>1. j.still => j0.users = None /\ j0.queue = {}
    BY <1>1, <1>2, FileFacts DEF Generating
  <2> QED BY <1>2, <2>1, FileFacts DEF Generating
<1>7. Fine("ansible", c, j)
  BY <1>2, <1>5, <1>6, EndingsDiffer, RepoFacts DEF Fine, Delivering
<1> QED BY <1>2, <1>4, <1>7, BecomesFine, RepoFacts DEF Becomes

LEMMA LoadUsersFine ==
  ASSUME TypeOK, Deploying, NEW f \in Generated, LoadUsers(f), UNCHANGED rows
  PROVE  Deploying'
<1> DEFINE c0 == clone["ansible"]
           j0 == job["ansible"]
           S == Users(rows)
<1>1. Reached("ansible", f)
  BY DEF LoadUsers
<1>2. /\ j0.at = Place(f) /\ Place(f) \in 3..6 /\ j0.end = None
      /\ Cloned(c0) /\ Jobbed("ansible", j0)
      /\ j0.still => Generating(c0, j0)
  BY <1>1, PlaceFacts, ReachedAt, RepoFacts
<1>3. PICK loaded, queue, lines :
        /\ loaded = [u \in S |-> rows[u]]
        /\ queue = IF f = "users" THEN {} ELSE S
        /\ lines = IF f # "users" THEN {}
                   ELSE UNION {Lines(f, u, rows[u]) : u \in {v \in S : ~rows[v].admin}}
  OBVIOUS
<1>4. PICK j : j = [j0 EXCEPT !.users = loaded, !.queue = queue, !.lines = lines]
  OBVIOUS
<1>5. /\ DOMAIN j = {"at", "users", "queue", "lines", "end", "still"}
      /\ j.at = j0.at /\ j.users = loaded /\ j.queue = queue /\ j.lines = lines
      /\ j.end = j0.end /\ j.still = j0.still
  BY <1>2, <1>4 DEF Jobbed
<1>6. S \subseteq Id
  BY RowsFacts DEF TypeOK, Table, Users
<1>7. Jobbed("ansible", j)
  <2>1. queue \subseteq Id
    BY <1>3, <1>6
  <2> QED BY <1>2, <1>5, <2>1 DEF Jobbed
<1>8. lines = ByUsers(f, S \ queue)
  <2>1. CASE f = "users"
    <3>1. lines = UNION {Lines(f, u, rows[u]) : u \in {v \in S : ~rows[v].admin}}
      BY <1>3, <2>1
    <3>2. {v \in S : InFile(f, v, rows[v])} = {v \in S : ~rows[v].admin}
      BY <2>1 DEF InFile
    <3>3. S \ queue = S
      BY <1>3, <2>1
    <3> HIDE DEF S
    <3> QED BY <3>1, <3>2, <3>3 DEF ByUsers
  <2>2. CASE f # "users"
    <3>1. S \ queue = {} /\ lines = {}
      BY <1>3, <2>2
    <3> HIDE DEF S
    <3> QED BY <3>1 DEF ByUsers
  <2> QED BY <2>1, <2>2
<1>9. Loaded(f, j)
  BY <1>3, <1>5, <1>8 DEF Loaded
<1>10. j.still => Generating(c0, j)
  BY <1>2, <1>5, <1>9 DEF Generating
<1>11. Fine("ansible", c0, j)
  BY <1>2, <1>5, <1>7, <1>10, EndingsDiffer, RepoFacts DEF Fine, Delivering
<1>12. job' = [job EXCEPT !["ansible"] = j]
  BY <1>3, <1>4 DEF LoadUsers
<1>13. clone' = [clone EXCEPT !["ansible"] = c0]
  BY RepoFacts DEF LoadUsers, Deploying
<1> QED BY <1>11, <1>12, <1>13, BecomesFine, RepoFacts DEF Becomes

LEMMA FetchMachinesFine ==
  ASSUME Deploying, NEW f \in Generated, FetchMachines(f), UNCHANGED rows
  PROVE  Deploying'
<1> DEFINE c0 == clone["ansible"]
           j0 == job["ansible"]
           S == Users(rows)
<1>1. Reached("ansible", f) /\ j0.queue # {}
  BY DEF FetchMachines
<1>2. /\ j0.at = Place(f) /\ Place(f) \in 3..6 /\ j0.end = None
      /\ Cloned(c0) /\ Jobbed("ansible", j0)
      /\ j0.still => Generating(c0, j0)
      /\ \A g \in Generated : Place(g) = Place(f) => g = f
  BY <1>1, PlaceFacts, ReachedAt, RepoFacts
<1>3. PICK owner : owner = CHOOSE u \in j0.queue : \A v \in j0.queue : u <= v
  OBVIOUS
<1>4. owner \in j0.queue
  <2>1. j0.queue \subseteq Nat
    BY <1>2, IdFacts DEF Jobbed
  <2>2. \E u \in j0.queue : \A v \in j0.queue : u <= v
    BY <1>1, <2>1, LeastNumber
  <2> QED BY <1>3, <2>2
<1>5. PICK row, queue, lines :
        /\ row = j0.users[owner]
        /\ queue = j0.queue \ {owner}
        /\ lines = IF InFile(f, owner, row) THEN j0.lines \union Lines(f, owner, row) ELSE j0.lines
  OBVIOUS
<1>6. PICK j : j = [j0 EXCEPT !.queue = queue, !.lines = lines]
  OBVIOUS
<1>7. /\ DOMAIN j = {"at", "users", "queue", "lines", "end", "still"}
      /\ j.at = j0.at /\ j.users = j0.users /\ j.queue = queue /\ j.lines = lines
      /\ j.end = j0.end /\ j.still = j0.still
  BY <1>2, <1>6 DEF Jobbed
<1>8. Jobbed("ansible", j)
  BY <1>2, <1>5, <1>7 DEF Jobbed
<1>9. ASSUME j0.still PROVE Loaded(f, j)
  <2>1. Loaded(f, j0)
    BY <1>1, <1>2, <1>9 DEF Generating
  <2>2. owner \in S /\ row = rows[owner] /\ j0.lines = ByUsers(f, S \ j0.queue)
    BY <1>4, <1>5, <2>1 DEF Loaded
  <2>3. lines = ByUsers(f, S \ queue)
    <3>1. /\ InFile(f, owner, rows[owner]) =>
               ByUsers(f, S \ (j0.queue \ {owner})) =
                 ByUsers(f, S \ j0.queue) \union Lines(f, owner, rows[owner])
          /\ ~InFile(f, owner, rows[owner]) =>
               ByUsers(f, S \ (j0.queue \ {owner})) = ByUsers(f, S \ j0.queue)
      BY <1>4, <2>2, OneMoreUser
    <3> HIDE DEF S
    <3>2. CASE InFile(f, owner, row)
      BY <1>5, <2>2, <3>1, <3>2, Zenon
    <3>3. CASE ~InFile(f, owner, row)
      BY <1>5, <2>2, <3>1, <3>3, Zenon
    <3> QED BY <3>2, <3>3
  <2> QED BY <1>5, <1>7, <2>1, <2>3 DEF Loaded
<1>10. j.still => Generating(c0, j)
  BY <1>2, <1>7, <1>9 DEF Generating
<1>11. Fine("ansible", c0, j)
  BY <1>2, <1>7, <1>8, <1>10, EndingsDiffer, RepoFacts DEF Fine, Delivering
<1>12. job' = [job EXCEPT !["ansible"] = j]
  BY <1>3, <1>5, <1>6 DEF FetchMachines
<1>13. clone' = [clone EXCEPT !["ansible"] = c0]
  BY RepoFacts DEF FetchMachines, Deploying
<1> QED BY <1>11, <1>12, <1>13, BecomesFine, RepoFacts DEF Becomes

LEMMA WriteFileFine ==
  ASSUME TypeOK, Deploying, NEW f \in Generated, WriteFile(f), UNCHANGED rows
  PROVE  Deploying'
<1> DEFINE c0 == clone["ansible"]
           j0 == job["ansible"]
           S == Users(rows)
<1>1. Reached("ansible", f) /\ j0.users # None /\ j0.queue = {}
  BY DEF WriteFile
<1>2. /\ j0.at = Place(f) /\ Place(f) \in 3..6 /\ j0.end = None
      /\ Cloned(c0) /\ Jobbed("ansible", j0)
      /\ j0.still => Generating(c0, j0)
      /\ \A g \in Generated : Place(g) = Place(f) => g = f
  BY <1>1, PlaceFacts, ReachedAt, RepoFacts
<1>3. PICK c, j : /\ c = [c0 EXCEPT !.work = [c0.work EXCEPT ![f] = j0.lines]]
                  /\ j = [j0 EXCEPT !.at = j0.at + 1, !.users = None, !.lines = {}]
  OBVIOUS
<1>4. /\ DOMAIN j = {"at", "users", "queue", "lines", "end", "still"}
      /\ j.at = j0.at + 1 /\ j.users = None /\ j.queue = {} /\ j.lines = {}
      /\ j.end = None /\ j.still = j0.still
  BY <1>1, <1>2, <1>3 DEF Jobbed
<1>5. /\ Cloned(c) /\ f \in File
      /\ c.work[f] = j0.lines /\ \A g \in Generated : g # f => c.work[g] = c0.work[g]
  BY <1>2, <1>3, FileFacts DEF Cloned
<1>6. Jobbed("ansible", j)
  <2>1. j0.at + 1 \in 0..Len(Steps("ansible"))
    <3>1. j0.at + 1 \in 0..8
      BY <1>2
    <3> QED BY <3>1, StepCounts
  <2> QED BY <1>2, <1>4, <2>1 DEF Jobbed
<1>7. ASSUME j0.still PROVE Generating(c, j)
  <2>1. Loaded(f, j0)
    BY <1>1, <1>2, <1>7 DEF Generating
  <2>2. S \ j0.queue = S
    BY <1>1
  <2>3. j0.lines = Wanted(f)
    BY <2>1, <2>2, WantedIs DEF Loaded
  <2>4. ASSUME NEW g \in Generated, Place(g) < j.at PROVE c.work[g] = Wanted(g)
    <3>1. CASE g = f
      BY <1>5, <2>3, <3>1
    <3>2. CASE g # f
      <4>1. Place(g) < j0.at
        BY <1>2, <1>4, <2>4, <3>2, FileFacts
      <4> QED BY <1>2, <1>5, <1>7, <3>2, <4>1 DEF Generating
    <3> QED BY <3>1, <3>2
  <2>5. j.at # 8
    BY <1>2, <1>4
  <2> QED BY <1>4, <2>4, <2>5 DEF Generating
<1>8. Fine("ansible", c, j)
  BY <1>4, <1>5, <1>6, <1>7, EndingsDiffer, RepoFacts DEF Fine, Delivering
<1>9. clone' = [clone EXCEPT !["ansible"] = c] /\ job' = [job EXCEPT !["ansible"] = j]
  BY <1>3 DEF WriteFile
<1> QED BY <1>8, <1>9, BecomesFine, RepoFacts DEF Becomes

LEMMA WritePostFine ==
  ASSUME Deploying, WritePost, UNCHANGED rows
  PROVE  Deploying'
<1> DEFINE c0 == clone["web"]
           j0 == job["web"]
<1>1. Reached("web", "posts")
  BY DEF WritePost
<1>2. /\ j0.at = 2 /\ 2 \in 1..(Len(Steps("web")) - 1)
      /\ Cloned(c0) /\ Posting(c0, j0)
  BY <1>1, ReachedAt, Positions, StepCounts, RepoFacts
<1>3. PICK j : /\ job' = [job EXCEPT !["web"] = j] /\ Jobbed("web", j)
               /\ j.at = 3 /\ j.lines = j0.lines /\ j.end = None
  BY <1>2, AdvanceIs, RepoFacts DEF WritePost
<1>4. OfOne(j0.lines)
  BY <1>2 DEF Posting
<1>a. PICK post : j0.lines = {post}
  BY <1>4, Zenon DEF OfOne
<1>5. PICK posts : posts = {p \in c0.work["posts"] : p[1] # post[1]} \union {post}
  OBVIOUS
<1>6. PICK c : c = [c0 EXCEPT !.work = [c0.work EXCEPT !["posts"] = posts]]
  OBVIOUS
<1>7. clone' = [clone EXCEPT !["web"] = c]
  BY <1>a, <1>5, <1>6 DEF WritePost
<1>8. Cloned(c) /\ c.work["posts"] = posts
  BY <1>2, <1>6 DEF Cloned, File
<1>9. j.lines \subseteq posts
  BY <1>3, <1>a, <1>5
<1>10. Posting(c, j)
  BY <1>3, <1>4, <1>8, <1>9, EndingsDiffer DEF Posting
<1>11. Fine("web", c, j)
  BY <1>3, <1>8, <1>10, RepoFacts DEF Fine
<1> QED BY <1>3, <1>7, <1>11, BecomesFine, RepoFacts DEF Becomes

LEMMA CommitFine ==
  ASSUME Deploying, NEW r \in Repo, Commit(r), UNCHANGED rows
  PROVE  Deploying'
<1> DEFINE c0 == clone[r]
           j0 == job[r]
<1>1. Reached(r, "commit")
  BY DEF Commit
<1>2. /\ j0.at = Len(Steps(r)) - 1 /\ Cloned(c0)
      /\ r = "ansible" /\ j0.still => Generating(c0, j0)
      /\ r = "web" => Posting(c0, j0)
  BY <1>1, ReachedAt, Positions
<1>3. ASSUME r = "ansible", j0.still PROVE Fits(c0.work)
  <2>1. j0.at = 7 /\ Generating(c0, j0)
    BY <1>2, <1>3, StepCounts
  <2>2. \A f \in Generated : c0.work[f] = Wanted(f)
    BY <2>1, FileFacts DEF Generating
  <2> QED BY <2>2, FitsIs
<1>4. ASSUME r = "web" PROVE j0.lines \subseteq c0.work["posts"]
  BY <1>2, <1>4, StepCounts DEF Posting
<1>5. CASE c0.work = c0.head /\ End(r, "nothing") /\ UNCHANGED clone
  <2>1. PICK j : /\ job' = [job EXCEPT ![r] = j] /\ Jobbed(r, j)
                 /\ j.at = 0 /\ j.end = "nothing" /\ j.still = j0.still /\ j.lines = j0.lines
    BY <1>5, EndIs, EndingsDiffer
  <2>2. clone' = [clone EXCEPT ![r] = c0]
    BY <1>5 DEF Deploying
  <2>3. c0.ahead \/ c0.origin = c0.head
    BY <1>2 DEF Cloned
  <2>4. ASSUME r = "ansible" PROVE Delivering(c0, j)
    BY <1>3, <1>5, <2>1, <2>3, <2>4 DEF Delivering
  <2>5. ASSUME r = "web" PROVE Posting(c0, j)
    BY <1>4, <1>5, <2>1, <2>3, <2>5 DEF Posting
  <2>6. Fine(r, c0, j)
    BY <1>2, <2>1, <2>4, <2>5 DEF Fine
  <2> QED BY <2>1, <2>2, <2>6, BecomesFine DEF Becomes
<1>6. CASE Advance(r) /\ clone' = [clone EXCEPT ![r].head = c0.work, ![r].ahead = TRUE]
  <2>1. j0.at \in 1..(Len(Steps(r)) - 1) /\ Len(Steps(r)) \in {4, 8}
    <3>1. Len(Steps(r)) \in {4, 8}
      BY StepCounts, RepoFacts
    <3>2. j0.at = Len(Steps(r)) - 1
      BY <1>2
    <3>3. PICK last : last = Len(Steps(r))
      OBVIOUS
    <3>4. last \in {4, 8} => last - 1 \in 1..(last - 1)
      OBVIOUS
    <3> QED BY <3>1, <3>2, <3>3, <3>4
  <2>2. PICK j : /\ job' = [job EXCEPT ![r] = j] /\ Jobbed(r, j)
                 /\ j.at = Len(Steps(r)) /\ j.users = j0.users /\ j.queue = j0.queue
                 /\ j.lines = j0.lines /\ j.end = None /\ j.still = j0.still
    BY <1>2, <1>6, <2>1, AdvanceIs
  <2>3. PICK c : c = [c0 EXCEPT !.head = c0.work, !.ahead = TRUE]
    OBVIOUS
  <2>4. Cloned(c) /\ c.work = c0.work /\ c.head = c0.work
    BY <1>2, <2>3 DEF Cloned
  <2>5. clone' = [clone EXCEPT ![r] = c]
    BY <1>6, <2>3
  <2>6. ASSUME r = "ansible" PROVE Delivering(c, j)
    <3>1. ASSUME j.still PROVE Generating(c, j)
      <4>1. j0.at = 7 /\ j.at = 8 /\ Generating(c0, j0) /\ Fits(c0.work)
        BY <1>2, <1>3, <2>2, <2>6, <3>1, StepCounts
      <4>2. \A f \in Generated : c.work[f] = Wanted(f)
        BY <2>4, <4>1, FitsIs
      <4>3. j.users = None /\ j.queue = {}
        BY <2>2, <4>1, FileFacts DEF Generating
      <4> QED BY <2>4, <4>1, <4>2, <4>3 DEF Generating
    <3> QED BY <2>2, <3>1, EndingsDiffer DEF Delivering
  <2>7. ASSUME r = "web" PROVE Posting(c, j)
    <3>1. OfOne(j0.lines)
      <4>1. Posting(c0, j0)
        BY <1>2, <2>7
      <4>2. j0.at # 0
        BY <2>1
      <4> QED BY <4>1, <4>2 DEF Posting
    <3>2. j.at = 4
      BY <2>2, <2>7, StepCounts
    <3> QED BY <1>4, <2>2, <2>4, <2>7, <3>1, <3>2, EndingsDiffer DEF Posting
  <2>8. Fine(r, c, j)
    BY <2>2, <2>4, <2>6, <2>7 DEF Fine
  <2> QED BY <2>2, <2>5, <2>8, BecomesFine DEF Becomes
<1> QED BY <1>5, <1>6 DEF Commit

LEMMA PushFine ==
  ASSUME Deploying, NEW r \in Repo, Push(r), UNCHANGED rows
  PROVE  Deploying'
<1> DEFINE c0 == clone[r]
           j0 == job[r]
<1>1. CASE End(r, None) /\ UNCHANGED clone
  BY <1>1, FailsFine
<1>2. CASE End(r, "done") /\ clone' = [clone EXCEPT ![r].origin = c0.head, ![r].ahead = FALSE]
  <2>1. Reached(r, "push")
    BY DEF Push
  <2>2. /\ j0.at = Len(Steps(r)) /\ Cloned(c0)
        /\ r = "ansible" /\ j0.still => Generating(c0, j0)
        /\ r = "web" => Posting(c0, j0)
    BY <2>1, ReachedAt, Positions
  <2>3. PICK j : /\ job' = [job EXCEPT ![r] = j] /\ Jobbed(r, j)
                 /\ j.at = 0 /\ j.end = "done" /\ j.still = j0.still /\ j.lines = j0.lines
    BY <1>2, EndIs, EndingsDiffer
  <2>4. PICK c : c = [c0 EXCEPT !.origin = c0.head, !.ahead = FALSE]
    OBVIOUS
  <2>5. Cloned(c) /\ c.origin = c0.head
    BY <2>2, <2>4 DEF Cloned
  <2>6. clone' = [clone EXCEPT ![r] = c]
    BY <1>2, <2>4
  <2>7. ASSUME r = "ansible" PROVE Delivering(c, j)
    <3>1. j.still => Fits(c0.head)
      BY <2>2, <2>3, <2>7, StepCounts DEF Generating
    <3> QED BY <2>3, <2>5, <3>1 DEF Delivering
  <2>8. ASSUME r = "web" PROVE Posting(c, j)
    <3>1. j0.lines \subseteq c0.head["posts"]
      BY <2>2, <2>8, StepCounts DEF Posting
    <3> QED BY <2>3, <2>5, <3>1 DEF Posting
  <2>9. Fine(r, c, j)
    BY <2>3, <2>5, <2>7, <2>8 DEF Fine
  <2> QED BY <2>3, <2>6, <2>9, BecomesFine DEF Becomes
<1> QED BY <1>1, <1>2 DEF Push

LEMMA DeploysFine ==
  ASSUME TypeOK, Deploying, Deploys
  PROVE  Deploying'
<1>1. UNCHANGED rows
  BY DEF Deploys, inventoryVars
<1>2. CASE StartDeploy
  BY <1>1, <1>2, StartDeployFine
<1>3. ASSUME NEW u \in Users(rows), NEW date \in 0..1, StartPublish(u, date) PROVE Deploying'
  BY <1>1, <1>3, StartPublishFine
<1>4. ASSUME NEW keys \in KeyDir, SyncKeys(keys) PROVE Deploying'
  BY <1>1, <1>4, SyncKeysFine
<1>5. ASSUME NEW f \in Generated, LoadUsers(f) \/ FetchMachines(f) \/ WriteFile(f) PROVE Deploying'
  BY <1>1, <1>5, LoadUsersFine, FetchMachinesFine, WriteFileFine
<1>6. CASE WritePost
  BY <1>1, <1>6, WritePostFine
<1>7. ASSUME NEW r \in Repo, Pull(r) \/ Commit(r) \/ Push(r) \/ RunFails(r) PROVE Deploying'
  BY <1>1, <1>7, PullFine, CommitFine, PushFine, FailsFine DEF RunFails
<1> QED BY <1>2, <1>3, <1>4, <1>5, <1>6, <1>7 DEF Deploys

(* A change of the tables by others takes nothing from a run but that it   *)
(* was undisturbed.                                                        *)
LEMMA ChangesSeenFine ==
  ASSUME Deploying, RowsSeenByDeploys, UNCHANGED clone
  PROVE  Deploying'
<1>1. CASE rows' = rows
  <2>1. PICK jobs : jobs = job'
    OBVIOUS
  <2>2. \A r \in Repo : Fine(r, clone[r], jobs[r])
    BY <1>1, <2>1 DEF RowsSeenByDeploys, Deploying
  <2>3. PICK clones : clones = clone
    OBVIOUS
  <2>4. \A r \in Repo : Fine(r, clones[r], jobs[r])'
    BY <1>1, <2>2, <2>3, FineStays
  <2> QED BY <1>1, <2>1, <2>3, <2>4 DEF RowsSeenByDeploys, Deploying
<1>2. CASE rows' # rows
  <2>1. PICK clones, jobs : clones = clone /\ jobs = job'
    OBVIOUS
  <2>2. ASSUME NEW r \in Repo PROVE Fine(r, clones[r], jobs[r])'
    <3> DEFINE j == jobs[r]
               j0 == job[r]
    <3>1. Fine(r, clone[r], j0)
      BY DEF Deploying
    <3>2. j = [j0 EXCEPT !.still = FALSE]
      BY <1>2, <2>1 DEF RowsSeenByDeploys
    <3> HIDE DEF j
    <3>3. /\ DOMAIN j = {"at", "users", "queue", "lines", "end", "still"}
          /\ j.at = j0.at /\ j.queue = j0.queue /\ j.lines = j0.lines /\ j.end = j0.end
          /\ j.still = FALSE /\ j.still \in BOOLEAN
      BY <3>1, <3>2 DEF Fine, Jobbed
    <3>4. Jobbed(r, j)
      BY <3>1, <3>3 DEF Fine, Jobbed
    <3>5. Cloned(clones[r]) /\ (r = "web" => Posting(clones[r], j))
      BY <2>1, <3>1, <3>3 DEF Fine, Posting
    <3>6. Fine(r, clones[r], j)'
      BY <3>3, <3>4, <3>5 DEF Fine, Jobbed, Cloned, Posting, Delivering
    <3> QED BY <3>6 DEF j
  <2> QED BY <1>2, <2>1, <2>2 DEF RowsSeenByDeploys, Deploying
<1> QED BY <1>1, <1>2

LEMMA DeployingKept ==
  ASSUME TypeOK, Deploying, [CommandsNext]_commandVars
  PROVE  Deploying'
<1>1. CASE UNCHANGED commandVars
  <2>1. rows' = rows /\ clone' = clone /\ job' = job
    BY <1>1 DEF commandVars, deployVars, vars, inventoryVars
  <2>2. PICK clones, jobs : clones = clone /\ jobs = job
    OBVIOUS
  <2>3. \A r \in Repo : Fine(r, clones[r], jobs[r])
    BY <2>2 DEF Deploying
  <2>4. \A r \in Repo : Fine(r, clones[r], jobs[r])'
    BY <2>1, <2>3, FineStays
  <2> QED BY <2>1, <2>2, <2>4 DEF Deploying
<1>2. CASE UNCHANGED clone /\ RowsSeenByDeploys
  BY <1>2, ChangesSeenFine
<1>3. CASE Deploys
  BY <1>3, DeploysFine
<1>4. ASSUME NEW r \in Repo, OthersPush(r) PROVE Deploying'
  BY <1>4, OthersPushFine
<1> QED BY <1>1, <1>2, <1>3, <1>4 DEF CommandsNext

(***************************************************************************)
(* Types of the tables, the requests, the scans, the clones, the runs and  *)
(* the seeds.                                                              *)
(***************************************************************************)
THEOREM CommandsAreTyped == CommandsSpec => []CommandsTypeOK
<1>1. CommandsInit => Deploying
  BY DeployInitFine DEF CommandsInit
<1>2. ASSUME Inv, Deploying, [CommandsNext]_commandVars PROVE Deploying'
  BY <1>2, DeployingKept DEF Inv, Sound
<1>3. ASSUME Inv, Deploying PROVE CommandsTypeOK
  <2>1. TypeOK /\ SeedTypeOK
    BY <1>3 DEF Inv, Sound
  <2>2. DeployTypeOK
    BY <1>3 DEF Deploying, Fine, Cloned, Jobbed, DeployTypeOK
  <2> QED BY <2>1, <2>2 DEF CommandsTypeOK
<1> QED BY <1>1, <1>2, <1>3, Invariance, PTL DEF CommandsSpec

(***************************************************************************)
(* A run that ends well has delivered, for any tables: whatever users were *)
(* loaded one after the other, whatever earlier runs left in the clone and *)
(* wherever they died.                                                     *)
(***************************************************************************)
THEOREM DeploysDeliver == CommandsSpec => []DeployDelivers
<1>1. CommandsInit => Deploying
  BY DeployInitFine DEF CommandsInit
<1>2. ASSUME Inv, Deploying, [CommandsNext]_commandVars PROVE Deploying'
  BY <1>2, DeployingKept DEF Inv, Sound
<1>3. ASSUME Deploying PROVE DeployDelivers
  <2>1. Delivering(clone["ansible"], job["ansible"]) /\ Posting(clone["web"], job["web"])
    BY <1>3, RepoFacts DEF Deploying, Fine
  <2> QED BY <2>1 DEF DeployDelivers, Delivered, HasPost, Delivering, Posting
<1> QED BY <1>1, <1>2, <1>3, Invariance, PTL DEF CommandsSpec
=============================================================================
