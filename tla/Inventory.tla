------------------------------ MODULE Inventory ------------------------------
(***************************************************************************)
(* The resources of the REST API (ring/api/viewsets.py, serializers.py,    *)
(* permissions.py; ring/views.py: participant_edit): participants, their   *)
(* ring users, the machines and SSH keys of those, the host keys and       *)
(* remarks of machines.  Each row but a participant hangs on a row of      *)
(* another table, and so belongs to one participant.  Ring admins may      *)
(* write anything, other accounts what belongs to their own participant.   *)
(*                                                                         *)
(* A request checks, and loads, in one step and writes in another: between *)
(* the two, others write.  serializer.save() writes every column of the    *)
(* row it loaded, and inserts the row again when it was deleted.           *)
(***************************************************************************)
EXTENDS Naturals, FiniteSets, Sequences

CONSTANTS
  Caller,      \* web accounts that use the API
  Staff,       \* those with is_staff or is_superuser
  Key,         \* contents of a host key: [type, blob]
  MaxId,       \* bound: ids of all tables together
  None,        \* SQL NULL, Python None
  Deployments  \* sequence: what a behaviour may find around it, see Site

Id == 1..MaxId
Opt(S) == S \union {None}
Put(t, k, row) == [x \in DOMAIN t \union {k} |-> IF x = k THEN row ELSE t[x]]
Without(t, k) == [x \in DOMAIN t \ {k} |-> t[x]]

(* The table a row's foreign key refers to.                                *)
ParentKind == [participant |-> None,
               user |-> "participant", premark |-> "participant",
               machine |-> "user", sshkey |-> "user",
               hostkey |-> "machine", mremark |-> "machine"]
Kind == DOMAIN ParentKind

(* Columns that no rule looks at are left out.  admin is RingUser.admin.   *)
Row == {row \in [kind: Kind, parent: Opt(Id), admin: BOOLEAN, key: Opt(Key)] :
          row.admin => row.kind = "user"}

(* The row that a row refers to exists, and is of the right table.         *)
Resolves(row, t) ==
  IF row.kind = "participant" THEN row.parent = None
  ELSE row.parent \in DOMAIN t /\ t[row.parent].kind = ParentKind[row.kind]

Request == [op: {"idle", "create", "update", "destroy"}, id: Opt(Id), row: Opt(Row),
            org: Opt(Id), admin: BOOLEAN]
Idle == [op |-> "idle", id |-> None, row |-> None, org |-> None, admin |-> FALSE]

ASSUME InventoryAssumption ==
  /\ MaxId \in Nat
  /\ Staff \subseteq Caller
  /\ None \notin Key \union Nat
  /\ \A i \in DOMAIN Deployments :
       LET d == Deployments[i] IN
       /\ d.rows \in Seq(Row) /\ \A n \in DOMAIN d.rows : Resolves(d.rows[n], d.rows)
       /\ d.spare \in Nat /\ Len(d.rows) + d.spare <= MaxId
       /\ d.linked \in [Caller -> Opt(Id)]
       /\ d.callers \subseteq Caller /\ d.kinds \subseteq Kind
       /\ d.serial \in BOOLEAN /\ d.writable \in BOOLEAN

VARIABLES
  rows,       \* the tables, in one: id -> row
  lastId,     \* AUTO_INCREMENT counter: an id is never given twice
  req,        \* Caller -> Request
  deployment  \* which of Deployments; no step changes it

inventoryVars == <<rows, lastId, req, deployment>>

(***************************************************************************)
(* The deployment a behaviour runs in: the rows at the start, how many may *)
(* be inserted (a bound), the ring user each account is linked to, the     *)
(* accounts that send requests, one after the other or not, to which       *)
(* resources, legacy_writable(), and the commands that run beside.         *)
(***************************************************************************)
Site == Deployments[deployment]
LegacyWritable == Site.writable
Free(c) ==
  /\ c \in Site.callers /\ req[c] = Idle
  /\ Site.serial => \A d \in Caller : req[d] = Idle

MayInsert == lastId < Len(Site.rows) + Site.spare

InventoryInit ==
  /\ deployment \in DOMAIN Deployments
  /\ rows = Site.rows /\ lastId = Len(Site.rows)
  /\ req = [c \in Caller |-> Idle]

-----------------------------------------------------------------------------
Referenced(i) == \E j \in DOMAIN rows : rows[j].parent = i

InventoryTypeOK ==
  /\ DOMAIN rows \subseteq Id /\ rows \in [DOMAIN rows -> Row]
  /\ \A i \in DOMAIN rows : i <= lastId /\ Resolves(rows[i], rows)
  /\ lastId \in 0..MaxId
  /\ req \in [Caller -> Request]
  /\ deployment \in DOMAIN Deployments

(* get_org: the participant that row i of tables t belongs to.             *)
OrgOf(i, t) ==
  LET up(j) == t[j].parent IN
  CASE t[i].kind = "participant"           -> i
    [] t[i].kind \in {"user", "premark"}   -> up(i)
    [] t[i].kind \in {"machine", "sshkey"} -> up(up(i))
    [] OTHER                               -> up(up(up(i)))

RingUserOf(c) == {Site.linked[c]} \intersect DOMAIN rows
RingAdmin(c) == c \in Staff \/ \E r \in RingUserOf(c) : rows[r].admin
(* org_of_user; no participant without a linked ring user that exists.     *)
CallerOrg(c) == {rows[r].parent : r \in RingUserOf(c)}

(* Mutant: any participant will do, as long as the caller has one.         *)
AnyOrgIsMine(c, i) == CallerOrg(c) # {}
(* has_object_permission, and what the serializers ask of a foreign key.   *)
IsMine(c, i) == OrgOf(i, rows) \in CallerOrg(c)

Open(c, op, i, row) ==
  req' = [req EXCEPT ![c] = [op |-> op, id |-> i, row |-> row, admin |-> RingAdmin(c),
            org |-> IF CallerOrg(c) = {} THEN None ELSE CHOOSE o \in CallerOrg(c) : TRUE]]

(* POST: the payload is validated; a participant takes an admin.           *)
OpenCreate(c, row) ==
  /\ Free(c) /\ LegacyWritable
  /\ row.kind \in Site.kinds /\ Resolves(row, rows)
  /\ ~RingAdmin(c) => row.kind # "participant" /\ IsMine(c, row.parent) /\ ~row.admin
  /\ Open(c, "create", None, row)
  /\ UNCHANGED <<rows, lastId, deployment>>

(* Mutant: the flag may be given by anyone.                                *)
NoFlagRule(row, i) == TRUE
(* validate_admin, for an account that is no admin; leaving the column out *)
(* of the payload keeps the flag.                                          *)
FlagIsNotGiven(row, i) == row.admin => rows[i].admin

(***************************************************************************)
(* PATCH or PUT: columns that the payload leaves out keep the loaded value *)
(* and are not validated.                                                  *)
(***************************************************************************)
OpenUpdate(c, i, row) ==
  /\ Free(c) /\ LegacyWritable
  /\ i \in DOMAIN rows /\ row.kind = rows[i].kind /\ Resolves(row, rows)
  /\ row.kind \in Site.kinds
  /\ ~RingAdmin(c) =>
       /\ IsMine(c, i)
       /\ row.parent # rows[i].parent => IsMine(c, row.parent)
       /\ FlagIsNotGiven(row, i)
  /\ Open(c, "update", i, row)
  /\ UNCHANGED <<rows, lastId, deployment>>

(* participant_edit: the form of the own participant saves the same row.   *)
OpenOrgEdit(c, i) ==
  /\ Free(c) /\ LegacyWritable
  /\ i \in DOMAIN rows /\ rows[i].kind = "participant"
  /\ ~RingAdmin(c) => i \in CallerOrg(c)
  /\ Open(c, "update", i, rows[i])
  /\ UNCHANGED <<rows, lastId, deployment>>

(* DELETE: of the resources, only participants do not ask legacy_writable. *)
OpenDestroy(c, i) ==
  /\ Free(c)
  /\ i \in DOMAIN rows /\ rows[i].kind \in Site.kinds
  /\ ~LegacyWritable => rows[i].kind = "participant"
  /\ ~RingAdmin(c) => IsMine(c, i)
  /\ Open(c, "destroy", i, None)
  /\ UNCHANGED <<rows, lastId, deployment>>

-----------------------------------------------------------------------------
(* The write.  A dangling foreign key is an IntegrityError, an HTTP 500.   *)
CreateRow(c) ==
  /\ req[c].op = "create"
  /\ \/ /\ Resolves(req[c].row, rows) /\ MayInsert
        /\ lastId' = lastId + 1
        /\ rows' = Put(rows, lastId', req[c].row)
     \/ /\ ~Resolves(req[c].row, rows)
        /\ UNCHANGED <<rows, lastId>>

(* Mutant: foreign keys are not looked at again.                           *)
SaveUnresolved(c) ==
  /\ req[c].op = "update"
  /\ rows' = Put(rows, req[c].id, req[c].row)
  /\ UNCHANGED lastId

SaveRow(c) ==
  /\ req[c].op = "update"
  /\ rows' = IF Resolves(req[c].row, rows) THEN Put(rows, req[c].id, req[c].row) ELSE rows
  /\ UNCHANGED lastId

(* Mutant: references are not restricted.                                  *)
DeleteReferenced(c) ==
  /\ req[c].op = "destroy"
  /\ rows' = Without(rows, req[c].id)
  /\ UNCHANGED lastId

(* on_delete=RESTRICT: a row that others refer to stays, 400 or 500.       *)
DeleteRow(c) ==
  /\ req[c].op = "destroy"
  /\ rows' = IF Referenced(req[c].id) THEN rows ELSE Without(rows, req[c].id)
  /\ UNCHANGED lastId

Write(c) ==
  /\ CreateRow(c) \/ SaveRow(c) \/ DeleteRow(c)
  /\ req' = [req EXCEPT ![c] = Idle]
  /\ UNCHANGED deployment

-----------------------------------------------------------------------------
Payload(kind) ==
  {row \in [kind: {kind}, parent: DOMAIN rows \union {None}, admin: BOOLEAN,
            key: IF kind = "hostkey" THEN Key ELSE {None}] :
     row.admin => kind = "user"}

Send(c) ==
  \/ \E kind \in Site.kinds : \E row \in Payload(kind) : OpenCreate(c, row)
  \/ \E i \in DOMAIN rows :
       \/ \E row \in Payload(rows[i].kind) : OpenUpdate(c, i, row)
       \/ OpenOrgEdit(c, i)
       \/ OpenDestroy(c, i)

-----------------------------------------------------------------------------
Ordinary(c) == req[c].op # "idle" /\ ~req[c].admin
Answers(c) == req[c] # Idle /\ req'[c] = Idle
Writes(c) == Answers(c) /\ rows' # rows

(* Nobody is an admin, or could be made one; no command runs beside.       *)
OnlyOrdinary ==
  /\ Site.callers \intersect Staff = {}
  /\ \A n \in DOMAIN Site.rows : ~Site.rows[n].admin
OnlyRequests == Site.scanners = {} /\ Site.seeds = {}

(***************************************************************************)
(* "Ordinary users may only touch objects of their own participant"        *)
(* (README.md:90): no row that such a request creates, changes or removes  *)
(* belonged, or now belongs, to another participant.  That holds among     *)
(* ordinary users however their requests and any commands interleave, and  *)
(* beside admins as long as requests come one after the other and nothing  *)
(* else writes.                                                            *)
(***************************************************************************)
ScopeIsKept ==
  [][\A c \in Caller :
       Ordinary(c) /\ Writes(c) /\ (OnlyOrdinary \/ (Site.serial /\ OnlyRequests)) =>
         \A i \in Id :
           /\ i \in DOMAIN rows /\ (i \notin DOMAIN rows' \/ rows'[i] # rows[i]) =>
                OrgOf(i, rows) = req[c].org
           /\ i \in DOMAIN rows' /\ (i \notin DOMAIN rows \/ rows'[i] # rows[i]) =>
                OrgOf(i, rows') = req[c].org]_inventoryVars

Participants(t) == {i \in DOMAIN t : t[i].kind = "participant"}
Admins(t) == {i \in DOMAIN t : t[i].admin}

(***************************************************************************)
(* "create/delete admin-only" (README.md:94): the code does not refuse an  *)
(* ordinary user who deletes the own participant.  What keeps it is that   *)
(* the user's own ring user refers to it, as long as requests come one     *)
(* after the other and no seed replaces the tables meanwhile.              *)
(***************************************************************************)
ParticipantsAreAdminMade ==
  [][\A c \in Caller : Ordinary(c) /\ Writes(c) /\ Site.serial /\ Site.seeds = {} =>
       Participants(rows') = Participants(rows)]_inventoryVars

(***************************************************************************)
(* "only an admin can set `admin: true`" (README.md:97), by any request and*)
(* on any ring user, as long as requests come one after the other and no   *)
(* seed runs.  (The full-row save of a request that overlaps another can   *)
(* give it back.)                                                          *)
(***************************************************************************)
AdminsAreAdminMade ==
  [][\A c \in Caller : Ordinary(c) /\ Writes(c) /\ Site.serial /\ Site.seeds = {} =>
       Admins(rows') \subseteq Admins(rows)]_inventoryVars
=============================================================================
