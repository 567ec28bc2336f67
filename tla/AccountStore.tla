---------------------------- MODULE AccountStore ----------------------------
(***************************************************************************)
(* The tables behind a portal account, and the steps that every handler    *)
(* that opens an account shares.                                           *)
(*                                                                         *)
(*   users      auth.User                 (SQLite)  user pk -> row         *)
(*   profiles   ring.RingUserProfile      (SQLite)  user pk -> row         *)
(*   tokens     rest_framework.authtoken  (SQLite)  set of user pks        *)
(*   ringUsers  ring.RingUser, "users"    (MySQL)   ring user pk -> row    *)
(*                                                                         *)
(* A table is a function whose domain is the set of keys that have a row.  *)
(* The project sets neither ATOMIC_REQUESTS nor transaction.atomic around  *)
(* the account handlers, and mod_wsgi runs several processes and threads,  *)
(* so each ORM write commits on its own: a request is a process that       *)
(* performs one write per step and keeps in req[w] the objects it has in   *)
(* memory.  A step whose write breaks a database constraint ends the       *)
(* request (an uncaught IntegrityError, HTTP 500) and undoes nothing.      *)
(***************************************************************************)
EXTENDS Naturals, Sequences, FiniteSets

CONSTANTS
  Visitor,         \* request workers that run the public handlers
  Admin,           \* request workers that run the approve/reject handlers
  Name,            \* usernames, of auth.User and of RingUser alike
  Org,             \* participants
  Pdb,             \* PeeringDB user ids
  Asn,             \* AS numbers
  None,            \* SQL NULL, Python None
  SeedRing,        \* the RingUser rows imported before the portal starts
  MaxUser,         \* bound: auth.User rows ever inserted
  MaxRing,         \* bound: RingUser rows ever inserted
  Deployments      \* sequence: what a behaviour may find around it, see below

Worker == Visitor \union Admin
UserId == 1..MaxUser
RingId == 1..MaxRing

Opt(S) == S \union {None}
Table(K, R) == UNION {[D -> R] : D \in SUBSET K}
Put(t, k, row) == [x \in DOMAIN t \union {k} |-> IF x = k THEN row ELSE t[x]]
Without(t, k) == [x \in DOMAIN t \ {k} |-> t[x]]

UserRow == [name: Name, active: BOOLEAN]
RingRow == [name: Name, org: Org, admin: BOOLEAN]
ProfileRow == [ring: RingId, pdb: Opt(Pdb)]

(***************************************************************************)
(* What a request holds between two statements: the handler, the statement *)
(* it is about to execute, and its copies of the rows it has read.         *)
(***************************************************************************)
Handler == {"idle", "signup", "approve", "reject", "login", "pdbApprove", "pdbReject"}
Step == {"idle", "createUser", "deactivate", "queue", "findRing", "updateRing",
         "sync", "resolve", "pickName", "createOrg", "asnGet", "asnSave",
         "createRing", "linkGet", "linkSave", "activate", "token", "finish",
         "deleteUser", "deleteSignup"}

Request == [op: Handler, at: Step,
            user: Opt(UserId), name: Opt(Name), active: BOOLEAN,
            ring: Opt(RingId), row: Opt(RingRow), ringName: Opt(Name),
            org: Opt(Org), role: BOOLEAN, pdb: Opt(Pdb), asn: Opt(Asn)]

Idle == [op |-> "idle", at |-> "idle",
         user |-> None, name |-> None, active |-> FALSE,
         ring |-> None, row |-> None, ringName |-> None,
         org |-> None, role |-> FALSE, pdb |-> None, asn |-> None]

ASSUME StoreAssumption ==
  /\ MaxUser \in Nat /\ MaxRing \in Nat
  /\ Name \subseteq Nat
  /\ \A i \in DOMAIN Deployments :
       LET d == Deployments[i] IN
       /\ d.workers \subseteq Worker
       /\ d.writable \in BOOLEAN
       /\ d.faults \in BOOLEAN
       /\ d.rejects \in BOOLEAN
       /\ d.removable \subseteq RingId
  /\ None \notin Name \union Org \union Pdb \union Asn \union RingRow \union Nat
  /\ SeedRing \in Seq(RingRow) /\ Len(SeedRing) <= MaxRing
  /\ \A i, j \in DOMAIN SeedRing : SeedRing[i].name = SeedRing[j].name => i = j

VARIABLES users, profiles, tokens, ringUsers,
          lastUser, lastRing,  \* AUTOINCREMENT counters: a pk is never reused
          req,                 \* Worker -> Request
          deployment           \* which of Deployments; no step changes it

storeVars == <<users, profiles, tokens, ringUsers, lastUser, lastRing, req, deployment>>

(***************************************************************************)
(* The deployment a behaviour runs in: which of the workers serve requests *)
(* (one of them alone is the serial server), whether legacy_writable(),    *)
(* whether requests may die between two writes, whether admins also reject,*)
(* and the ring users that no machine, key or remark refers to.            *)
(***************************************************************************)
Site == Deployments[deployment]
LegacyWritable == Site.writable
Faults == Site.faults
Rejects == Site.rejects
Removable == Site.removable
Free(w) == w \in Site.workers /\ req[w] = Idle

(* No two admins at work.  (Any number of visitors may be.)                *)
OneAdmin == \A a, b \in Site.workers \intersect Admin : a = b
(* No two requests at once.                                                *)
OneWorker == \A v, w \in Site.workers : v = w

StoreTypeOK ==
  /\ users \in Table(UserId, UserRow)
  /\ profiles \in Table(UserId, ProfileRow)
  /\ tokens \subseteq UserId
  /\ ringUsers \in Table(RingId, RingRow)
  /\ lastUser \in 0..MaxUser
  /\ lastRing \in 0..MaxRing
  /\ req \in [Worker -> Request]

StoreInit ==
  /\ users = << >> /\ profiles = << >> /\ tokens = {}
  /\ ringUsers = SeedRing
  /\ lastUser = 0 /\ lastRing = Len(SeedRing)
  /\ req = [w \in Worker |-> Idle]
  /\ deployment \in DOMAIN Deployments

-----------------------------------------------------------------------------
At(w, step) == req[w].at = step
Go(w, step) == req' = [req EXCEPT ![w].at = step]
End(w) == req' = [req EXCEPT ![w] = Idle]
GoOn(w, step) == IF step = "idle" THEN End(w) ELSE Go(w, step)

(* Mutant: the username columns without their unique constraints.          *)
NeverTaken(name, table) == FALSE
Taken(name, table) == \E k \in DOMAIN table : table[k].name = name
TakenByOther(name, table, k) == Taken(name, Without(table, k))

(***************************************************************************)
(* create_user: INSERT with is_active left at its default, TRUE.           *)
(***************************************************************************)
CreateUser(w, next) ==
  /\ At(w, "createUser")
  /\ \/ /\ Taken(req[w].name, users)
        /\ End(w)
        /\ UNCHANGED <<users, lastUser>>
     \/ /\ ~Taken(req[w].name, users)
        /\ lastUser < MaxUser
        /\ lastUser' = lastUser + 1
        /\ users' = Put(users, lastUser', [name |-> req[w].name, active |-> TRUE])
        /\ req' = [req EXCEPT ![w].at = next, ![w].user = lastUser']
  /\ UNCHANGED <<profiles, tokens, ringUsers, lastRing, deployment>>

(***************************************************************************)
(* user.save(): Django UPDATEs the row by pk and, when no row was updated, *)
(* INSERTs it again.  Every column is written from the in-memory object.   *)
(***************************************************************************)
SaveUser(w, step, active, next) ==
  /\ At(w, step)
  /\ \/ /\ TakenByOther(req[w].name, users, req[w].user)
        /\ End(w)
        /\ UNCHANGED users
     \/ /\ ~TakenByOther(req[w].name, users, req[w].user)
        /\ users' = Put(users, req[w].user, [name |-> req[w].name, active |-> active])
        /\ GoOn(w, next)
  /\ UNCHANGED <<profiles, tokens, ringUsers, lastUser, lastRing, deployment>>

(***************************************************************************)
(* RingUser.objects.create(username=name, participant=org, active=True).   *)
(***************************************************************************)
CreateRing(w, name, next) ==
  /\ At(w, "createRing")
  /\ \/ /\ Taken(name, ringUsers)
        /\ End(w)
        /\ UNCHANGED <<ringUsers, lastRing>>
     \/ /\ ~Taken(name, ringUsers)
        /\ lastRing < MaxRing
        /\ lastRing' = lastRing + 1
        /\ LET row == [name |-> name, org |-> req[w].org, admin |-> FALSE] IN
           /\ ringUsers' = Put(ringUsers, lastRing', row)
           /\ req' = [req EXCEPT ![w].at = next, ![w].ring = lastRing', ![w].row = row]
  /\ UNCHANGED <<users, profiles, tokens, lastUser, deployment>>

(***************************************************************************)
(* link_ring_user, first statement: get_or_create of the user's profile.   *)
(* The INSERT fails when the auth.User row is gone (foreign key) or when   *)
(* the ring user is already linked to another account (unique).            *)
(***************************************************************************)
LinkGet(w) ==
  LET q == req[w]
      mayInsert == /\ q.user \in DOMAIN users
                   /\ \A u \in DOMAIN profiles : profiles[u].ring # q.ring
  IN
  /\ At(w, "linkGet")
  /\ \/ /\ q.user \in DOMAIN profiles
        /\ req' = [req EXCEPT ![w].at = "linkSave",
                     ![w].pdb = IF @ = None THEN profiles[q.user].pdb ELSE @]
        /\ UNCHANGED profiles
     \/ /\ q.user \notin DOMAIN profiles /\ mayInsert
        /\ profiles' = Put(profiles, q.user, [ring |-> q.ring, pdb |-> None])
        /\ Go(w, "linkSave")
     \/ /\ q.user \notin DOMAIN profiles /\ ~mayInsert
        /\ End(w)
        /\ UNCHANGED profiles
  /\ UNCHANGED <<users, tokens, ringUsers, lastUser, lastRing, deployment>>

(***************************************************************************)
(* link_ring_user, second statement: profile.save() with the ring user and *)
(* the PeeringDB identity, both unique columns.                            *)
(***************************************************************************)
LinkSave(w, next) ==
  LET q == req[w]
      others == DOMAIN profiles \ {q.user}
      maySave == /\ q.user \in DOMAIN users
                 /\ \A u \in others : /\ profiles[u].ring # q.ring
                                      /\ q.pdb # None => profiles[u].pdb # q.pdb
  IN
  /\ At(w, "linkSave")
  /\ \/ /\ maySave
        /\ profiles' = Put(profiles, q.user, [ring |-> q.ring, pdb |-> q.pdb])
        /\ Go(w, next)
     \/ /\ ~maySave
        /\ End(w)
        /\ UNCHANGED profiles
  /\ UNCHANGED <<users, tokens, ringUsers, lastUser, lastRing, deployment>>

(***************************************************************************)
(* Token.objects.get_or_create(user=user): a foreign key to auth.User.     *)
(***************************************************************************)
IssueToken(w, next) ==
  /\ At(w, "token")
  /\ \/ /\ req[w].user \in DOMAIN users
        /\ tokens' = tokens \union {req[w].user}
        /\ GoOn(w, next)
     \/ /\ req[w].user \notin DOMAIN users
        /\ End(w)
        /\ UNCHANGED tokens
  /\ UNCHANGED <<users, profiles, ringUsers, lastUser, lastRing, deployment>>

(***************************************************************************)
(* django_user.delete(): Django's collector removes the row and what       *)
(* cascades from it in one transaction.                                    *)
(***************************************************************************)
DeleteUser(w, next) ==
  /\ At(w, "deleteUser")
  /\ users' = Without(users, req[w].user)
  /\ profiles' = Without(profiles, req[w].user)
  /\ tokens' = tokens \ {req[w].user}
  /\ Go(w, next)
  /\ UNCHANGED <<ringUsers, lastUser, lastRing, deployment>>

(***************************************************************************)
(* The request dies between two statements: the worker process is killed   *)
(* or recycled, or a statement raises OperationalError (database locked,   *)
(* MySQL connection lost).  What it has written stays.                     *)
(***************************************************************************)
Die(w) ==
  /\ Faults
  /\ req[w] # Idle
  /\ End(w)
  /\ UNCHANGED <<users, profiles, tokens, ringUsers, lastUser, lastRing, deployment>>

(***************************************************************************)
(* DELETE /api/users/<pk>/: the ring user row goes (when no machine, key   *)
(* or remark refers to it); the app-side profile knows nothing of it.      *)
(***************************************************************************)
DestroyRingUser(r) ==
  /\ LegacyWritable
  /\ r \in DOMAIN ringUsers \intersect Removable
  /\ ringUsers' = Without(ringUsers, r)
  /\ UNCHANGED <<users, profiles, tokens, lastUser, lastRing, req, deployment>>
=============================================================================
