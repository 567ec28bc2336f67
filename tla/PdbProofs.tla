------------------------------ MODULE PdbProofs ------------------------------
(***************************************************************************)
(* Proofs about AsnBackfill, and with it about PdbLogin: types, read-only  *)
(* mode, and that what is recorded fits.                                   *)
(*                                                                         *)
(* That a recorded ASN fits is decided when a handler or the backfill      *)
(* looks a participant up, and written some steps later.  The inductive    *)
(* invariant says what a request or the command holds in between: fields   *)
(* filled at each statement, rows that refer to what existed, an ASN its   *)
(* identity manages and a participant that fits it.                        *)
(***************************************************************************)
EXTENDS AsnBackfill, AccountStoreProofs

(* At which statements a request of each handler can be.                   *)
LoginStep ==
  {"updateRing", "sync", "resolve", "asnGet", "asnSave", "pickName", "createUser",
   "deactivate", "queue", "activate", "createRing", "linkGet", "linkSave", "token"}
ApproveStep ==
  {"resolve", "createOrg", "asnGet", "asnSave", "createRing", "linkGet", "linkSave",
   "activate", "token", "finish"}
RejectStep == {"deleteUser", "deleteSignup"}

Looking(at) == at \in {"resolve", "asnGet", "asnSave", "pickName"}
Linking(at) == at \in {"createRing", "linkGet", "linkSave"}
HasUser(q) == q.op \in {"login", "pdbApprove", "pdbReject"} /\
              ~(q.op = "login" /\ (Looking(q.at) \/ q.at = "createUser"))
HasName(q) == q.op \in {"login", "pdbApprove"} /\ ~(q.op = "login" /\ Looking(q.at))
HasNet(q) == q.op \in {"login", "pdbApprove"} /\ q.at \notin {"updateRing", "sync"}
HasRing(at) == at \in {"updateRing", "linkGet", "linkSave"}

(* What a request holds at each of its statements.                         *)
Shape(q) ==
  /\ q.op = "idle" => q.at = "idle"
  /\ q.op = "login" => q.at \in LoginStep
  /\ q.op = "pdbApprove" => q.at \in ApproveStep
  /\ q.op = "pdbReject" => q.at \in RejectStep
  /\ q.op \in {"idle", "login", "pdbApprove", "pdbReject"}
  /\ HasUser(q) => q.user \in UserId /\ q.user <= lastUser
  /\ HasName(q) => q.name \in Name
  /\ HasRing(q.at) => q.ring \in RingId /\ q.ring <= lastRing
  /\ q.at = "updateRing" => q.row \in RingRow
  /\ q.op \in {"login", "pdbApprove"} => q.pdb \in Pdb
  /\ HasNet(q) => q.asn \in Manages[q.pdb]
  /\ HasNet(q) /\ q.org # None => Fits(q.org, q.asn)
  /\ q.at \in {"asnGet", "asnSave"} \/ Linking(q.at) => q.org # None
  /\ q.op = "login" /\ q.at = "activate" => q.org # None
  /\ q.at \in {"deactivate", "queue"} => q.org = None
RequestShape == \A w \in Worker : Shape(req[w])

(* Rows point at users that exist; pks are handed out in order; a profile  *)
(* points at a ring user that exists or existed.                           *)
Referential ==
  /\ \A u \in DOMAIN users : u <= lastUser
  /\ DOMAIN profiles \subseteq DOMAIN users
  /\ DOMAIN pdbSignups \subseteq DOMAIN users
  /\ \A r \in DOMAIN ringUsers : r <= lastRing
  /\ \A u \in DOMAIN profiles : profiles[u].ring <= lastRing

(* A queued network is one that its identity manages.                      *)
SignupsFit ==
  \A u \in DOMAIN pdbSignups : pdbSignups[u].asn \in Manages[pdbSignups[u].pdb]

(* What the backfill command is about to record.                           *)
BackfillShape ==
  backfill.at \in {"claim", "get", "save"} =>
    /\ backfill.org \in Org /\ backfill.asn \in Asn
    /\ HasMachine(backfill.org, backfill.asn)

Inv == /\ BackfillTypeOK
       /\ RequestShape
       /\ Referential
       /\ SignupsFit
       /\ RecordedAsnFits
       /\ BackfillShape

-----------------------------------------------------------------------------
(* Writing a PeeringDBSignup row.                                          *)
LEMMA PutSignup ==
  ASSUME NEW t \in Table(UserId, PdbSignupRow), NEW k \in UserId, NEW row \in PdbSignupRow
  PROVE  Put(t, k, row) \in Table(UserId, PdbSignupRow)
BY PutTable, Zenon

(* Deleting one of them.                                                   *)
LEMMA WithoutSignup ==
  ASSUME NEW t \in Table(UserId, PdbSignupRow), NEW k \in UserId
  PROVE  Without(t, k) \in Table(UserId, PdbSignupRow)
BY WithoutTable, Zenon

(* What the rows of such a table are.                                      *)
LEMMA SignupRows ==
  ASSUME NEW t \in Table(UserId, PdbSignupRow)
  PROVE  DOMAIN t \subseteq UserId /\ \A k \in DOMAIN t : t[k] \in PdbSignupRow
BY TableElim, Zenon

(* Recording the ASN of a participant, or that it has none yet.            *)
LEMMA PutAsn ==
  ASSUME NEW t \in Table(Org, Opt(Asn)), NEW k \in Org, NEW asn \in Opt(Asn)
  PROVE  Put(t, k, asn) \in Table(Org, Opt(Asn))
BY PutTable, Zenon

(* What is recorded for a participant.                                     *)
LEMMA AsnRows ==
  ASSUME NEW t \in Table(Org, Opt(Asn))
  PROVE  DOMAIN t \subseteq Org /\ \A k \in DOMAIN t : t[k] \in Opt(Asn)
BY TableElim, Zenon

(* The parts of the invariant that the steps of a request need at once.    *)
LEMMA RequestsTyped ==
  Inv => /\ req \in [Worker -> Request] /\ \A w \in Worker : req[w] \in Request
         /\ TypeOK /\ StoreTypeOK
BY DEF Inv, BackfillTypeOK, TypeOK, StoreTypeOK

(* What a behaviour finds around it does not change.                       *)
LEMMA SameSite ==
  ASSUME UNCHANGED deployment
  PROVE  /\ UNCHANGED <<Site, LegacyWritable, Faults, Rejects, Removable, OneAdmin, Tabs, Machines>>
         /\ \A o, asn : HasMachine(o, asn)' <=> HasMachine(o, asn)
         /\ \A o, asn : Fits(o, asn)' <=> Fits(o, asn)
BY DEF Site, LegacyWritable, Faults, Rejects, Removable, OneAdmin, Tabs, Machines, HasMachine, Fits

-----------------------------------------------------------------------------
(***************************************************************************)
(* What each action does, said of the rows it writes and of what the       *)
(* request holds after it.                                                 *)
(***************************************************************************)
SameUser(q, p) == p.op = q.op /\ p.user = q.user /\ p.name = q.name /\ p.active = q.active
SameRing(q, p) == p.ring = q.ring /\ p.row = q.row
SameNet(q, p) == p.org = q.org /\ p.pdb = q.pdb /\ p.asn = q.asn
Alike(q, p) == SameUser(q, p) /\ SameRing(q, p) /\ SameNet(q, p)
Carries(w, step) == Steps(w, step) /\ Alike(req[w], req'[w])
Ends(w) == Steps(w, "idle") /\ req'[w] = Idle

tables == <<users, profiles, tokens, ringUsers, lastUser, lastRing, pdbSignups>>
nets == <<orgs, orgAsn>>

(* A request that is given new contents steps to where they say.           *)
LEMMA Becomes ==
  ASSUME Inv, NEW w \in Worker, NEW q \in Request, req' = [req EXCEPT ![w] = q],
         UNCHANGED deployment
  PROVE  Steps(w, q.at) /\ req'[w] = q
BY RequestsTyped DEF Steps

(* Ending a request, ...                                                   *)
LEMMA EndEnds ==
  ASSUME Inv, NEW w \in Worker, End(w), UNCHANGED deployment
  PROVE  Ends(w)
BY RequestsTyped, EndFacts, EndIsStep DEF Ends

(* ... and moving on with what it holds.                                   *)
LEMMA GoCarries ==
  ASSUME Inv, NEW w \in Worker, NEW step \in Step, Go(w, step), UNCHANGED deployment
  PROVE  Carries(w, step)
<1> DEFINE q == [req[w] EXCEPT !.at = step]
<1>1. q \in Request /\ q.at = step /\ Alike(req[w], q)
  BY RequestsTyped DEF Request, Alike, SameUser, SameRing, SameNet
<1>2. req' = [req EXCEPT ![w] = q]
  BY DEF Go
<1> HIDE DEF q
<1> QED BY <1>1, <1>2, Becomes DEF Carries

LoginEffect(w, pdb, asn) ==
  LET p == req'[w] IN
  /\ req[w].at = "idle" /\ w \in Site.workers /\ UNCHANGED <<tables, nets>>
  /\ p.op = "login" /\ p.pdb = pdb /\ p.asn = asn /\ p.org = None
  /\ pdb \in Pdb /\ asn \in Manages[pdb]
  /\ \/ /\ Steps(w, "updateRing")
        /\ p.user \in LinkedLive(pdb) /\ p.user \in DOMAIN users
        /\ p.name = users[p.user].name /\ p.active = users[p.user].active
        /\ p.ring = profiles[p.user].ring /\ p.row = ringUsers[p.ring]
     \/ Steps(w, "resolve") /\ LinkedLive(pdb) = {}
(* A login starts; nothing is written yet.                                 *)
LEMMA LoginDoes ==
  ASSUME Inv, NEW w \in Worker, NEW pdb \in Pdb, NEW asn \in Asn, Login(w, pdb, asn)
  PROVE  LoginEffect(w, pdb, asn)
<1> USE DEF LoginEffect
<1>1. /\ req[w].at = "idle" /\ w \in Site.workers /\ UNCHANGED <<tables, nets>>
      /\ UNCHANGED deployment /\ asn \in Manages[pdb]
  BY IdleIsRequest DEF Login, Free, tables, nets, pdbVars
<1>2. ASSUME NEW u \in LinkedLive(pdb),
             req' = [req EXCEPT ![w] = [Idle EXCEPT !.op = "login", !.at = "updateRing",
                    !.user = u, !.name = users[u].name, !.active = users[u].active,
                    !.ring = profiles[u].ring, !.row = ringUsers[profiles[u].ring],
                    !.pdb = pdb, !.asn = asn]]
      PROVE  LoginEffect(w, pdb, asn)
  <2> DEFINE user == users[u]
             ring == profiles[u].ring
             row == ringUsers[ring]
             q == [Idle EXCEPT !.op = "login", !.at = "updateRing",
                    !.user = u, !.name = user.name, !.active = user.active,
                    !.ring = ring, !.row = row, !.pdb = pdb, !.asn = asn]
  <2>1. u \in DOMAIN profiles /\ u \in DOMAIN users /\ ring \in DOMAIN ringUsers
    BY DEF LinkedLive, LinkedTo, Inv, Referential
  <2>2. user \in UserRow /\ u \in UserId /\ ring \in RingId /\ row \in RingRow
    BY <2>1, RequestsTyped, UserRows, RingRows DEF StoreTypeOK
  <2>3. req' = [req EXCEPT ![w] = q]
    BY <1>2
  <2> HIDE DEF user, ring, row
  <2>4. q \in Request
    BY <2>2, IdleIsRequest DEF Idle, Request, Opt, Handler, Step, UserRow
  <2>5. /\ q.at = "updateRing" /\ q.op = "login" /\ q.pdb = pdb /\ q.asn = asn /\ q.org = None
        /\ q.user = u /\ q.name = user.name /\ q.active = user.active
        /\ q.ring = ring /\ q.row = row
    BY DEF Idle
  <2> HIDE DEF q
  <2>6. Steps(w, "updateRing") /\ req'[w] = q
    BY <1>1, <2>3, <2>4, <2>5, Becomes
  <2> QED BY <1>1, <2>1, <2>5, <2>6 DEF user, ring, row
<1>3. ASSUME LinkedLive(pdb) = {},
             req' = [req EXCEPT ![w] = [Idle EXCEPT !.op = "login", !.at = "resolve",
                     !.pdb = pdb, !.asn = asn]]
      PROVE  LoginEffect(w, pdb, asn)
  <2> DEFINE q == [Idle EXCEPT !.op = "login", !.at = "resolve", !.pdb = pdb, !.asn = asn]
  <2>1. /\ q \in Request /\ q.at = "resolve"
        /\ q.op = "login" /\ q.pdb = pdb /\ q.asn = asn /\ q.org = None
    BY IdleIsRequest DEF Idle, Request, Opt, Handler, Step
  <2>2. req' = [req EXCEPT ![w] = q]
    BY <1>3
  <2> HIDE DEF q
  <2>3. Steps(w, "resolve") /\ req'[w] = q
    BY <1>1, <2>1, <2>2, Becomes
  <2> QED BY <1>1, <1>3, <2>1, <2>3
<1> QED BY <1>2, <1>3 DEF Login

SyncRingEffect(w) ==
  LET q == req[w] IN
  /\ q.at = "updateRing"
  /\ UNCHANGED <<users, profiles, tokens, lastUser, lastRing, pdbSignups, nets>>
  /\ \/ UNCHANGED ringUsers /\ (Carries(w, "sync") \/ Ends(w))
     \/ /\ LegacyWritable /\ ~TakenByOther(q.row.name, ringUsers, q.ring)
        /\ ringUsers' = Put(ringUsers, q.ring, q.row)
        /\ Wrote(ringUsers, ringUsers', q.ring, q.row)
        /\ Carries(w, "sync")
(* The ring user is saved as this request has read it, or left alone.      *)
LEMMA SyncRingDoes ==
  ASSUME Inv, NEW w \in Worker, SyncRing(w)
  PROVE  SyncRingEffect(w)
BY GoCarries, EndEnds, PutWrites DEF SyncRingEffect, SyncRing, At, nets, pdbVars, Step

SyncUserEffect(w) ==
  LET q == req[w]
      row == [name |-> q.name, active |-> q.active] IN
  /\ q.at = "sync" /\ Ends(w)
  /\ UNCHANGED <<profiles, tokens, ringUsers, lastUser, lastRing, pdbSignups, nets>>
  /\ \/ UNCHANGED users
     \/ /\ ~TakenByOther(q.name, users, q.user)
        /\ users' = Put(users, q.user, row) /\ Wrote(users, users', q.user, row)
(* The account is saved as this request has read it, or left alone.        *)
LEMMA SyncUserDoes ==
  ASSUME Inv, NEW w \in Worker, SyncUser(w)
  PROVE  SyncUserEffect(w)
BY EndEnds, PutWrites DEF SyncUserEffect, SyncUser, SaveUser, GoOn, At, nets, pdbVars

ResolveEffect(w) ==
  LET q == req[w]
      p == req'[w]
      found == ParticipantForPdb(q.asn) IN
  /\ q.at = "resolve" /\ UNCHANGED <<tables, nets>>
  /\ \/ /\ Steps(w, "asnGet") /\ SameUser(q, p) /\ p.pdb = q.pdb /\ p.asn = q.asn
        /\ p.org \in found
     \/ found = {} /\ q.op = "login" /\ Carries(w, "pickName")
     \/ found = {} /\ q.op = "pdbApprove" /\ LegacyWritable /\ Carries(w, "createOrg")
     \/ found = {} /\ q.op = "pdbApprove" /\ ~LegacyWritable /\ Ends(w)
(* The lookup of the participant writes nothing; it decides what is next.  *)
LEMMA ResolveDoes ==
  ASSUME Inv, NEW w \in Worker, Resolve(w)
  PROVE  ResolveEffect(w)
<1> USE DEF ResolveEffect
<1>1. /\ req[w].at = "resolve" /\ UNCHANGED <<tables, nets>> /\ UNCHANGED deployment
      /\ req[w] \in Request
  BY RequestsTyped DEF Resolve, At, tables, nets, pdbVars
<1> DEFINE found == ParticipantForPdb(req[w].asn)
<1>2. found \subseteq Org
  <2>1. orgs \subseteq Org
    BY RequestsTyped DEF TypeOK
  <2> QED BY <2>1 DEF ParticipantForPdb, ByAsn, ByMachine, ByName
<1>3. \/ \E o \in found : req' = [req EXCEPT ![w].at = "asnGet", ![w].org = o]
      \/ found = {} /\ req[w].op = "login" /\ Go(w, "pickName")
      \/ found = {} /\ req[w].op = "pdbApprove" /\ LegacyWritable /\ Go(w, "createOrg")
      \/ found = {} /\ req[w].op = "pdbApprove" /\ ~LegacyWritable /\ End(w)
  BY DEF Resolve
<1>4. ASSUME NEW o \in found, req' = [req EXCEPT ![w].at = "asnGet", ![w].org = o]
      PROVE  /\ Steps(w, "asnGet") /\ SameUser(req[w], req'[w])
             /\ req'[w].pdb = req[w].pdb /\ req'[w].asn = req[w].asn
             /\ req'[w].org \in found
  <2> HIDE DEF found
  <2> DEFINE q == [req[w] EXCEPT !.at = "asnGet", !.org = o]
  <2>1. /\ q \in Request /\ q.at = "asnGet" /\ SameUser(req[w], q)
        /\ q.pdb = req[w].pdb /\ q.asn = req[w].asn /\ q.org = o
    <3>1. q \in Request
      BY <1>1, <1>2 DEF Request, Opt, Step
    <3>2. q.at = "asnGet" /\ SameUser(req[w], q) /\ q.pdb = req[w].pdb /\ q.asn = req[w].asn /\ q.org = o
      BY <1>1 DEF Request, SameUser
    <3> QED BY <3>1, <3>2
  <2>2. req' = [req EXCEPT ![w] = q]
    BY <1>4
  <2> HIDE DEF q
  <2>3. Steps(w, "asnGet") /\ req'[w] = q
    BY <1>1, <2>1, <2>2, Becomes
  <2> QED BY <2>1, <2>3
<1> HIDE DEF found
<1>5. \/ /\ Steps(w, "asnGet") /\ SameUser(req[w], req'[w])
         /\ req'[w].pdb = req[w].pdb /\ req'[w].asn = req[w].asn /\ req'[w].org \in found
      \/ found = {} /\ req[w].op = "login" /\ Carries(w, "pickName")
      \/ found = {} /\ req[w].op = "pdbApprove" /\ LegacyWritable /\ Carries(w, "createOrg")
      \/ found = {} /\ req[w].op = "pdbApprove" /\ ~LegacyWritable /\ Ends(w)
  BY <1>1, <1>3, <1>4, GoCarries, EndEnds DEF Step
<1> QED BY <1>1, <1>5 DEF found

CreateOrgEffect(w) ==
  LET q == req[w]
      p == req'[w] IN
  /\ q.at = "createOrg" /\ UNCHANGED <<tables, orgAsn>>
  /\ orgs' = orgs \union {p.org} /\ p.org = NetOrg[q.asn]
  /\ Steps(w, "asnGet") /\ SameUser(q, p) /\ p.pdb = q.pdb /\ p.asn = q.asn
(* The participant that PeeringDB names is there now.                      *)
LEMMA CreateOrgDoes ==
  ASSUME Inv, NEW w \in Worker, CreateOrg(w), req[w].asn \in Asn
  PROVE  CreateOrgEffect(w)
<1> USE DEF CreateOrgEffect
<1> DEFINE o == NetOrg[req[w].asn]
           q == [req[w] EXCEPT !.at = "asnGet", !.org = o]
<1>1. /\ req[w].at = "createOrg" /\ UNCHANGED <<tables, orgAsn>> /\ UNCHANGED deployment
      /\ orgs' = orgs \union {o} /\ req' = [req EXCEPT ![w] = q] /\ req[w] \in Request
  BY RequestsTyped DEF CreateOrg, At, tables
<1>2. o \in Org
  BY PdbAssumption
<1> HIDE DEF o
<1>3. /\ q \in Request /\ q.at = "asnGet" /\ SameUser(req[w], q)
      /\ q.pdb = req[w].pdb /\ q.asn = req[w].asn /\ q.org = o
  <2>1. q \in Request
    BY <1>1, <1>2 DEF Request, Opt, Step
  <2>2. q.at = "asnGet" /\ SameUser(req[w], q) /\ q.pdb = req[w].pdb /\ q.asn = req[w].asn /\ q.org = o
    BY <1>1 DEF Request, SameUser
  <2> QED BY <2>1, <2>2
<1> HIDE DEF q
<1>4. Steps(w, "asnGet") /\ req'[w] = q
  BY <1>1, <1>3, Becomes
<1> QED BY <1>1, <1>3, <1>4 DEF o

AsnGetEffect(w) ==
  LET o == req[w].org IN
  /\ req[w].at = "asnGet" /\ UNCHANGED <<tables, orgs>> /\ Carries(w, "asnSave")
  /\ \/ o \in DOMAIN orgAsn /\ UNCHANGED orgAsn
     \/ /\ o \notin DOMAIN orgAsn
        /\ orgAsn' = Put(orgAsn, o, None) /\ Wrote(orgAsn, orgAsn', o, None)
(* get_or_create of the participant's profile.                             *)
LEMMA AsnGetDoes ==
  ASSUME Inv, NEW w \in Worker, AsnGet(w)
  PROVE  AsnGetEffect(w)
BY GoCarries, PutWrites DEF AsnGetEffect, AsnGet, At, tables, Step

AsnSaveEffect(w) ==
  LET q == req[w] IN
  /\ q.at = "asnSave" /\ UNCHANGED <<tables, orgs>>
  /\ \/ UNCHANGED orgAsn /\ Ends(w)
     \/ /\ \A o \in DOMAIN orgAsn \ {q.org} : orgAsn[o] # q.asn
        /\ orgAsn' = Put(orgAsn, q.org, q.asn) /\ Wrote(orgAsn, orgAsn', q.org, q.asn)
        /\ \/ Ends(w)
           \/ LegacyWritable /\ q.op = "login" /\ Carries(w, "pickName")
           \/ LegacyWritable /\ q.op # "login" /\ Carries(w, "createRing")
(* The save of the profile records the ASN, or another participant has it. *)
LEMMA AsnSaveDoes ==
  ASSUME Inv, NEW w \in Worker, AsnSave(w)
  PROVE  AsnSaveEffect(w)
BY GoCarries, EndEnds, PutWrites DEF AsnSaveEffect, AsnSave, AfterAsn, At, tables, Step

PickNameEffect(w) ==
  LET q == req[w]
      p == req'[w] IN
  /\ q.at = "pickName" /\ UNCHANGED <<tables, nets>>
  /\ Steps(w, "createUser") /\ SameNet(q, p) /\ p.op = q.op
  /\ p.name \in Name /\ ~Taken(p.name, users) /\ ~Taken(p.name, ringUsers)
(* A username that neither table has.                                      *)
LEMMA PickNameDoes ==
  ASSUME Inv, NEW w \in Worker, PickName(w)
  PROVE  PickNameEffect(w)
<1>1. /\ req[w].at = "pickName" /\ UNCHANGED <<tables, nets>> /\ UNCHANGED deployment
      /\ req[w] \in Request
  BY RequestsTyped DEF PickName, At, tables, nets, pdbVars
<1>2. PICK n \in FreeNames : req' = [req EXCEPT ![w].at = "createUser", ![w].name = n]
  BY DEF PickName
<1>3. n \in Name /\ ~Taken(n, users) /\ ~Taken(n, ringUsers)
  BY DEF FreeNames
<1> DEFINE q == [req[w] EXCEPT !.at = "createUser", !.name = n]
<1>4. q \in Request /\ q.at = "createUser" /\ SameNet(req[w], q) /\ q.op = req[w].op /\ q.name = n
  <2>1. q \in Request
    BY <1>1, <1>3 DEF Request, Opt, Step
  <2>2. q.at = "createUser" /\ SameNet(req[w], q) /\ q.op = req[w].op /\ q.name = n
    BY <1>1 DEF Request, SameNet
  <2> QED BY <2>1, <2>2
<1>5. req' = [req EXCEPT ![w] = q]
  BY <1>2
<1> HIDE DEF q
<1>6. Steps(w, q.at) /\ req'[w] = q
  BY <1>1, <1>4, <1>5, Becomes
<1>7. Steps(w, "createUser") /\ req'[w] = q
  BY <1>4, <1>6
<1> QED BY <1>1, <1>3, <1>4, <1>7 DEF PickNameEffect

CreateUserEffect(w) ==
  LET q == req[w]
      p == req'[w]
      row == [name |-> q.name, active |-> TRUE] IN
  /\ q.at = "createUser" /\ UNCHANGED <<profiles, tokens, ringUsers, lastRing, pdbSignups, nets>>
  /\ \/ Ends(w) /\ UNCHANGED <<users, lastUser>>
     \/ /\ Steps(w, IF q.org = None THEN "deactivate" ELSE "activate")
        /\ ~Taken(q.name, users) /\ lastUser < MaxUser /\ lastUser' = lastUser + 1
        /\ p.op = q.op /\ p.user = lastUser + 1 /\ p.name = q.name /\ SameNet(q, p)
        /\ users' = Put(users, lastUser + 1, row) /\ Wrote(users, users', lastUser + 1, row)
(* User.objects.create_user: a new account, or the name was taken.         *)
LEMMA CreateUserDoes ==
  ASSUME Inv, NEW w \in Worker, PdbCreateUser(w)
  PROVE  CreateUserEffect(w)
<1> USE DEF CreateUserEffect
<1> DEFINE next == IF req[w].org = None THEN "deactivate" ELSE "activate"
           row == [name |-> req[w].name, active |-> TRUE]
<1>1. /\ req[w].at = "createUser" /\ UNCHANGED deployment /\ req[w] \in Request
      /\ UNCHANGED <<profiles, tokens, ringUsers, lastRing, pdbSignups, nets>>
      /\ lastUser \in 0..MaxUser /\ MaxUser \in Nat /\ next \in Step
  BY StoreAssumption, RequestsTyped
     DEF PdbCreateUser, CreateUser, At, StoreTypeOK, nets, pdbVars, Step
<1>2. \/ End(w) /\ UNCHANGED <<users, lastUser>>
      \/ /\ ~Taken(req[w].name, users)
         /\ lastUser < MaxUser
         /\ lastUser' = lastUser + 1
         /\ users' = Put(users, lastUser + 1, row)
         /\ req' = [req EXCEPT ![w].at = next, ![w].user = lastUser']
  BY DEF PdbCreateUser, CreateUser
<1> HIDE DEF row
<1>3. CASE End(w) /\ UNCHANGED <<users, lastUser>>
  <2>1. Ends(w)
    BY <1>1, <1>3, EndEnds
  <2> QED BY <1>1, <1>3, <2>1
<1>4. CASE /\ ~Taken(req[w].name, users)
           /\ lastUser < MaxUser
           /\ lastUser' = lastUser + 1
           /\ users' = Put(users, lastUser + 1, row)
           /\ req' = [req EXCEPT ![w].at = next, ![w].user = lastUser']
  <2> HIDE DEF next
  <2> DEFINE q == [req[w] EXCEPT !.at = next, !.user = lastUser + 1]
  <2>0. lastUser + 1 \in Opt(UserId)
    BY <1>1, <1>4 DEF Opt, UserId
  <2>1. /\ q \in Request /\ q.at = next /\ q.user = lastUser + 1
        /\ q.name = req[w].name /\ q.op = req[w].op /\ SameNet(req[w], q)
    BY <1>1, <2>0 DEF Request, SameNet
  <2>2. req' = [req EXCEPT ![w] = q]
    BY <1>4
  <2> HIDE DEF q
  <2>3. Steps(w, next) /\ req'[w] = q
    BY <1>1, <2>1, <2>2, Becomes
  <2>4. Wrote(users, users', lastUser + 1, row)
    BY <1>4, PutWrites
  <2> QED BY <1>1, <1>4, <2>1, <2>3, <2>4 DEF row, next
<1> QED BY <1>2, <1>3, <1>4

SaveEffect(w, step, active, next) ==
  LET q == req[w]
      row == [name |-> q.name, active |-> active] IN
  /\ q.at = step
  /\ UNCHANGED <<profiles, tokens, ringUsers, lastUser, lastRing, pdbSignups, nets>>
  /\ \/ TakenByOther(q.name, users, q.user) /\ Ends(w) /\ UNCHANGED users
     \/ /\ ~TakenByOther(q.name, users, q.user) /\ Carries(w, next)
        /\ users' = Put(users, q.user, row) /\ Wrote(users, users', q.user, row)
(* The account is saved, or its name is no longer its own.                 *)
LEMMA SaveDoes ==
  ASSUME Inv, NEW w \in Worker, NEW step, NEW active, NEW next \in Step \ {"idle"},
         SaveUser(w, step, active, next), UNCHANGED pdbVars
  PROVE  SaveEffect(w, step, active, next)
BY GoCarries, EndEnds, PutWrites DEF SaveEffect, SaveUser, GoOn, At, nets, pdbVars
DeactivateEffect(w) == SaveEffect(w, "deactivate", FALSE, "queue")
ActivateEffect(w) ==
  SaveEffect(w, "activate", TRUE, IF req[w].op = "login" THEN "createRing" ELSE "token")
(* A queued account is saved inactive.                                     *)
LEMMA DeactivateDoes ==
  ASSUME Inv, NEW w \in Worker, PdbDeactivate(w)
  PROVE  DeactivateEffect(w)
BY SaveDoes DEF DeactivateEffect, PdbDeactivate, Step
(* An account that may be used is saved active.                            *)
LEMMA ActivateDoes ==
  ASSUME Inv, NEW w \in Worker, PdbActivate(w)
  PROVE  ActivateEffect(w)
BY SaveDoes DEF ActivateEffect, PdbActivate, Step

SignupRowOf(w, done) == [pdb |-> req[w].pdb, asn |-> req[w].asn, approved |-> done]
FileEffect(w, step, done) ==
  LET q == req[w] IN
  /\ q.at = step /\ Ends(w)
  /\ UNCHANGED <<users, profiles, tokens, ringUsers, lastUser, lastRing, nets>>
  /\ \/ /\ q.user \in DOMAIN users
        /\ \A u \in DOMAIN pdbSignups : u # q.user \/ ~done => pdbSignups[u].pdb # q.pdb
        /\ pdbSignups' = Put(pdbSignups, q.user, SignupRowOf(w, done))
        /\ Wrote(pdbSignups, pdbSignups', q.user, SignupRowOf(w, done))
     \/ /\ \/ q.user \notin DOMAIN users
           \/ \E u \in DOMAIN pdbSignups : (u # q.user \/ ~done) /\ pdbSignups[u].pdb = q.pdb
        /\ UNCHANGED pdbSignups
(* The signup is put on file unless its identity has one.                  *)
LEMMA QueueDoes ==
  ASSUME Inv, NEW w \in Worker, PdbQueue(w)
  PROVE  FileEffect(w, "queue", FALSE)
<1> DEFINE mayInsert == /\ req[w].user \in DOMAIN users
                        /\ \A u \in DOMAIN pdbSignups : pdbSignups[u].pdb # req[w].pdb
<1>1. CASE mayInsert
  BY <1>1, EndEnds, PutWrites DEF FileEffect, PdbQueue, SignupRowOf, At, nets
<1>2. CASE ~mayInsert
  BY <1>2, EndEnds DEF FileEffect, PdbQueue, At, nets
<1> QED BY <1>1, <1>2
(* The signup is marked approved unless its identity has another.          *)
LEMMA FinishDoes ==
  ASSUME Inv, NEW w \in Worker, PdbFinish(w)
  PROVE  FileEffect(w, "finish", TRUE)
<1> DEFINE maySave == /\ req[w].user \in DOMAIN users
                      /\ \A u \in DOMAIN pdbSignups \ {req[w].user} : pdbSignups[u].pdb # req[w].pdb
<1>1. CASE maySave
  BY <1>1, EndEnds, PutWrites DEF FileEffect, PdbFinish, SignupRowOf, At, nets
<1>2. CASE ~maySave
  BY <1>2, EndEnds DEF FileEffect, PdbFinish, At, nets
<1> QED BY <1>1, <1>2

CreateRingEffect(w) ==
  LET q == req[w]
      p == req'[w]
      row == [name |-> q.name, org |-> q.org, admin |-> FALSE] IN
  /\ q.at = "createRing" /\ UNCHANGED <<users, profiles, tokens, lastUser, pdbSignups, nets>>
  /\ \/ Ends(w) /\ UNCHANGED <<ringUsers, lastRing>> /\ Taken(q.name, ringUsers)
     \/ /\ Steps(w, "linkGet") /\ ~Taken(q.name, ringUsers)
        /\ lastRing < MaxRing /\ lastRing' = lastRing + 1
        /\ SameUser(q, p) /\ SameNet(q, p) /\ p.ring = lastRing + 1
        /\ ringUsers' = Put(ringUsers, lastRing + 1, row)
        /\ Wrote(ringUsers, ringUsers', lastRing + 1, row)
(* RingUser.objects.create: a new ring user, or the name was taken.        *)
LEMMA CreateRingDoes ==
  ASSUME Inv, NEW w \in Worker, PdbCreateRing(w), req[w].name \in Name, req[w].org \in Org
  PROVE  CreateRingEffect(w)
<1> USE DEF CreateRingEffect
<1> DEFINE row == [name |-> req[w].name, org |-> req[w].org, admin |-> FALSE]
<1>1. /\ req[w].at = "createRing" /\ UNCHANGED deployment /\ req[w] \in Request
      /\ UNCHANGED <<users, profiles, tokens, lastUser, pdbSignups, nets>>
      /\ lastRing \in 0..MaxRing /\ MaxRing \in Nat
  BY StoreAssumption, RequestsTyped
     DEF PdbCreateRing, CreateRing, At, StoreTypeOK, nets, pdbVars
<1>2. row \in RingRow
  BY DEF RingRow
<1>3. \/ End(w) /\ UNCHANGED <<ringUsers, lastRing>> /\ Taken(req[w].name, ringUsers)
      \/ /\ ~Taken(req[w].name, ringUsers)
         /\ lastRing < MaxRing
         /\ lastRing' = lastRing + 1
         /\ ringUsers' = Put(ringUsers, lastRing + 1, row)
         /\ req' = [req EXCEPT ![w].at = "linkGet", ![w].ring = lastRing', ![w].row = row]
  BY DEF PdbCreateRing, CreateRing
<1> HIDE DEF row
<1>4. CASE End(w) /\ UNCHANGED <<ringUsers, lastRing>> /\ Taken(req[w].name, ringUsers)
  <2>1. Ends(w)
    BY <1>1, <1>4, EndEnds
  <2> QED BY <1>1, <1>4, <2>1
<1>5. CASE /\ ~Taken(req[w].name, ringUsers)
           /\ lastRing < MaxRing
           /\ lastRing' = lastRing + 1
           /\ ringUsers' = Put(ringUsers, lastRing + 1, row)
           /\ req' = [req EXCEPT ![w].at = "linkGet", ![w].ring = lastRing', ![w].row = row]
  <2> DEFINE q == [req[w] EXCEPT !.at = "linkGet", !.ring = lastRing + 1, !.row = row]
  <2>0. lastRing + 1 \in Opt(RingId) /\ row \in Opt(RingRow)
    BY <1>1, <1>2, <1>5 DEF Opt, RingId
  <2>1. /\ q \in Request /\ q.at = "linkGet" /\ q.ring = lastRing + 1
        /\ SameUser(req[w], q) /\ SameNet(req[w], q)
    <3>1. q \in Request
      BY <1>1, <2>0 DEF Request, Step
    <3>2. q.at = "linkGet" /\ q.ring = lastRing + 1 /\ SameUser(req[w], q) /\ SameNet(req[w], q)
      BY <1>1 DEF Request, SameUser, SameNet
    <3> QED BY <3>1, <3>2
  <2>2. req' = [req EXCEPT ![w] = q]
    BY <1>5
  <2> HIDE DEF q
  <2>3. Steps(w, q.at) /\ req'[w] = q
    BY <1>1, <2>1, <2>2, Becomes
  <2>4. Wrote(ringUsers, ringUsers', lastRing + 1, row)
    BY <1>5, PutWrites
  <2>5. Steps(w, "linkGet")
    BY <2>1, <2>3
  <2> QED BY <1>1, <1>5, <2>1, <2>3, <2>4, <2>5 DEF row
<1> QED BY <1>3, <1>4, <1>5

(* Who can be at which statement, and what that says of what it holds.     *)
LEMMA LinkerHolds ==
  ASSUME Inv, NEW w \in Worker, Linking(req[w].at)
  PROVE  /\ req[w].op \in {"login", "pdbApprove"} /\ HasUser(req[w]) /\ HasName(req[w]) /\ HasNet(req[w])
         /\ req[w].pdb \in Pdb /\ req[w].pdb # None
         /\ req[w].asn \in Manages[req[w].pdb] /\ req[w].asn \in Asn
         /\ req[w].org \in Org /\ Fits(req[w].org, req[w].asn)
         /\ req[w].name \in Name /\ req[w].user \in UserId
<1>1. Shape(req[w]) /\ req[w] \in Request
  BY RequestsTyped DEF Inv, RequestShape
<1>2. /\ req[w].op \in {"login", "pdbApprove"} /\ HasUser(req[w]) /\ HasName(req[w]) /\ HasNet(req[w])
  BY <1>1 DEF Shape, Linking, HasUser, HasName, HasNet, Looking, RejectStep
<1>3. /\ req[w].pdb \in Pdb /\ req[w].asn \in Manages[req[w].pdb] /\ req[w].org # None
      /\ Fits(req[w].org, req[w].asn) /\ req[w].name \in Name /\ req[w].user \in UserId
  BY <1>1, <1>2 DEF Shape
<1>4. req[w].org \in Org /\ req[w].asn \in Asn /\ req[w].pdb # None
  BY <1>1, <1>3, PdbAssumption, StoreAssumption DEF Request, Opt
<1> QED BY <1>2, <1>3, <1>4

LinkGetEffect(w) ==
  LET q == req[w]
      row == [ring |-> q.ring, pdb |-> None] IN
  /\ q.at = "linkGet"
  /\ UNCHANGED <<users, tokens, ringUsers, lastUser, lastRing, pdbSignups, nets>>
  /\ \/ /\ UNCHANGED profiles /\ Ends(w) /\ q.user \notin DOMAIN profiles
        /\ q.user \notin DOMAIN users \/ \E u \in DOMAIN profiles : profiles[u].ring = q.ring
     \/ /\ Carries(w, "linkSave")
        /\ \/ q.user \in DOMAIN profiles /\ UNCHANGED profiles
           \/ /\ q.user \in DOMAIN users \ DOMAIN profiles
              /\ \A u \in DOMAIN profiles : profiles[u].ring # q.ring
              /\ profiles' = Put(profiles, q.user, row) /\ Wrote(profiles, profiles', q.user, row)
(* get_or_create of the profile: a new one is linked at once.              *)
LEMMA LinkGetDoes ==
  ASSUME Inv, NEW w \in Worker, PdbLinkGet(w)
  PROVE  LinkGetEffect(w)
<1> USE DEF LinkGetEffect
<1>1. /\ req[w].at = "linkGet" /\ UNCHANGED deployment /\ req[w] \in Request
      /\ UNCHANGED <<users, tokens, ringUsers, lastUser, lastRing, pdbSignups, nets>>
  BY RequestsTyped DEF PdbLinkGet, LinkGet, At, nets, pdbVars
<1>2. req[w].pdb # None
  BY <1>1, LinkerHolds DEF Linking
<1>3. CASE /\ req[w].user \in DOMAIN profiles /\ UNCHANGED profiles
           /\ req' = [req EXCEPT ![w].at = "linkSave",
                        ![w].pdb = IF @ = None THEN profiles[req[w].user].pdb ELSE @]
  <2>1. Go(w, "linkSave")
    <3>1. [req[w] EXCEPT !.at = "linkSave", !.pdb = req[w].pdb] = [req[w] EXCEPT !.at = "linkSave"]
      BY <1>1 DEF Request
    <3> QED BY <1>1, <1>2, <1>3, <3>1, RequestsTyped DEF Go
  <2> QED BY <1>1, <1>3, <2>1, GoCarries DEF Step
<1>4. CASE /\ req[w].user \notin DOMAIN profiles /\ req[w].user \in DOMAIN users
           /\ \A u \in DOMAIN profiles : profiles[u].ring # req[w].ring
           /\ profiles' = Put(profiles, req[w].user, [ring |-> req[w].ring, pdb |-> None])
           /\ Go(w, "linkSave")
  BY <1>1, <1>4, GoCarries, PutWrites DEF Step
<1>5. CASE /\ req[w].user \notin DOMAIN profiles
           /\ ~(req[w].user \in DOMAIN users /\ \A u \in DOMAIN profiles : profiles[u].ring # req[w].ring)
           /\ End(w) /\ UNCHANGED profiles
  BY <1>1, <1>5, EndEnds
<1> QED BY <1>3, <1>4, <1>5 DEF PdbLinkGet, LinkGet

LinkSaveEffect(w) ==
  LET q == req[w]
      row == [ring |-> q.ring, pdb |-> q.pdb] IN
  /\ q.at = "linkSave"
  /\ UNCHANGED <<users, tokens, ringUsers, lastUser, lastRing, pdbSignups, nets>>
  /\ \/ /\ UNCHANGED profiles /\ Ends(w)
        /\ \/ q.user \notin DOMAIN users
           \/ \E u \in DOMAIN profiles \ {q.user} :
                profiles[u].ring = q.ring \/ profiles[u].pdb = q.pdb
     \/ /\ Carries(w, IF q.op = "login" THEN "token" ELSE "activate")
        /\ q.user \in DOMAIN users
        /\ \A u \in DOMAIN profiles \ {q.user} :
             profiles[u].ring # q.ring /\ profiles[u].pdb # q.pdb
        /\ profiles' = Put(profiles, q.user, row) /\ Wrote(profiles, profiles', q.user, row)
(* The save of the profile links account, ring user and identity.          *)
LEMMA LinkSaveDoes ==
  ASSUME Inv, NEW w \in Worker, PdbLinkSave(w)
  PROVE  LinkSaveEffect(w)
<1>1. /\ req[w].at = "linkSave" /\ UNCHANGED deployment
      /\ UNCHANGED <<users, tokens, ringUsers, lastUser, lastRing, pdbSignups, nets>>
  BY DEF PdbLinkSave, LinkSave, At, nets, pdbVars
<1>2. req[w].pdb # None
  BY <1>1, LinkerHolds DEF Linking
<1> DEFINE next == IF req[w].op = "login" THEN "token" ELSE "activate"
           maySave == /\ req[w].user \in DOMAIN users
                      /\ \A u \in DOMAIN profiles \ {req[w].user} :
                           profiles[u].ring # req[w].ring /\ profiles[u].pdb # req[w].pdb
           row == [ring |-> req[w].ring, pdb |-> req[w].pdb]
<1>3. \/ maySave /\ profiles' = Put(profiles, req[w].user, row) /\ Go(w, next)
      \/ ~maySave /\ End(w) /\ UNCHANGED profiles
  BY <1>2 DEF PdbLinkSave, LinkSave
<1>4. maySave /\ profiles' = Put(profiles, req[w].user, row) /\ Go(w, next)
        => Carries(w, next) /\ Wrote(profiles, profiles', req[w].user, row)
  BY <1>1, GoCarries, PutWrites DEF Step
<1>5. End(w) => Ends(w)
  BY <1>1, EndEnds
<1> QED BY <1>1, <1>3, <1>4, <1>5 DEF LinkSaveEffect

TokenEffect(w) ==
  LET q == req[w] IN
  /\ q.at = "token" /\ UNCHANGED <<users, profiles, ringUsers, lastUser, lastRing, pdbSignups, nets>>
  /\ \/ q.user \notin DOMAIN users /\ Ends(w) /\ UNCHANGED tokens
     \/ /\ q.user \in DOMAIN users /\ tokens' = tokens \union {q.user}
        /\ IF q.op = "login" THEN Ends(w) ELSE Carries(w, "finish")
(* The token is issued, or the account is gone.                            *)
LEMMA TokenDoes ==
  ASSUME Inv, NEW w \in Worker, PdbToken(w)
  PROVE  TokenEffect(w)
BY GoCarries, EndEnds DEF TokenEffect, PdbToken, IssueToken, At, GoOn, nets, pdbVars, Step

OpenApprovalEffect(w, u) ==
  LET p == req'[w] IN
  /\ req[w].at = "idle" /\ w \in Site.workers /\ UNCHANGED <<tables, nets>>
  /\ Pending(u) /\ u \in DOMAIN users /\ u \in UserId
  /\ Steps(w, "resolve") /\ p.op = "pdbApprove" /\ p.user = u /\ p.name = users[u].name
  /\ p.pdb = pdbSignups[u].pdb /\ p.asn = pdbSignups[u].asn /\ p.org = None
(* An approval starts from what the pending signup and its user say.       *)
LEMMA OpenApprovalDoes ==
  ASSUME Inv, NEW w \in Worker, NEW u \in UserId, OpenPdbApproval(w, u)
  PROVE  OpenApprovalEffect(w, u)
<1> USE DEF OpenApprovalEffect
<1>1. /\ req[w].at = "idle" /\ w \in Site.workers /\ UNCHANGED <<tables, nets>>
      /\ UNCHANGED deployment /\ Pending(u) /\ u \in DOMAIN users /\ u \in DOMAIN pdbSignups
  BY IdleIsRequest DEF OpenPdbApproval, Free, tables, nets, pdbVars, Pending, Inv, Referential
<1> DEFINE user == users[u]
           row == pdbSignups[u]
           q == [Idle EXCEPT !.op = "pdbApprove", !.at = "resolve",
               !.user = u, !.name = user.name, !.pdb = row.pdb, !.asn = row.asn]
<1>2. user \in UserRow /\ row \in PdbSignupRow
  BY <1>1, RequestsTyped, UserRows, SignupRows DEF StoreTypeOK, TypeOK
<1>3. req' = [req EXCEPT ![w] = q]
  BY DEF OpenPdbApproval
<1> HIDE DEF user, row
<1>4. q \in Request
  BY <1>2, IdleIsRequest DEF Idle, Request, Opt, Handler, Step, UserRow, PdbSignupRow
<1>5. /\ q.at = "resolve" /\ q.op = "pdbApprove" /\ q.user = u /\ q.name = user.name
      /\ q.pdb = row.pdb /\ q.asn = row.asn /\ q.org = None
  BY DEF Idle
<1> HIDE DEF q
<1>6. Steps(w, "resolve") /\ req'[w] = q
  BY <1>1, <1>3, <1>4, <1>5, Becomes
<1> QED BY <1>1, <1>5, <1>6 DEF user, row

OpenRejectionEffect(w, u) ==
  LET p == req'[w] IN
  /\ req[w].at = "idle" /\ w \in Site.workers /\ UNCHANGED <<tables, nets>>
  /\ Rejects /\ Pending(u) /\ u \in UserId
  /\ Steps(w, "deleteUser") /\ p.op = "pdbReject" /\ p.user = u
  /\ p.org = None /\ p.pdb = None
(* A rejection starts; nothing is written yet.                             *)
LEMMA OpenRejectionDoes ==
  ASSUME Inv, NEW w \in Worker, NEW u \in UserId, OpenPdbRejection(w, u)
  PROVE  OpenRejectionEffect(w, u)
<1> USE DEF OpenRejectionEffect
<1> DEFINE q == [Idle EXCEPT !.op = "pdbReject", !.at = "deleteUser", !.user = u]
<1>1. /\ q \in Request /\ q.at = "deleteUser" /\ q.op = "pdbReject" /\ q.user = u
      /\ q.org = None /\ q.pdb = None
  BY IdleIsRequest DEF Idle, Request, Opt, Handler, Step
<1>2. /\ req' = [req EXCEPT ![w] = q] /\ req[w].at = "idle" /\ UNCHANGED <<tables, nets>>
      /\ UNCHANGED deployment /\ w \in Site.workers /\ Rejects /\ Pending(u)
  BY IdleIsRequest DEF OpenPdbRejection, Free, tables, nets, pdbVars
<1> HIDE DEF q
<1>3. Steps(w, "deleteUser") /\ req'[w] = q
  BY <1>1, <1>2, Becomes
<1> QED BY <1>1, <1>2, <1>3

RejectUserEffect(w) ==
  LET u == req[w].user IN
  /\ req[w].at = "deleteUser" /\ Carries(w, "deleteSignup")
  /\ users' = Without(users, u) /\ Erased(users, users', u)
  /\ profiles' = Without(profiles, u) /\ Erased(profiles, profiles', u)
  /\ pdbSignups' = Without(pdbSignups, u) /\ Erased(pdbSignups, pdbSignups', u)
  /\ tokens' = tokens \ {u} /\ UNCHANGED <<ringUsers, lastUser, lastRing, nets>>
(* The delete of the user takes the rows with it that point at it.         *)
LEMMA RejectUserDoes ==
  ASSUME Inv, NEW w \in Worker, PdbRejectUser(w)
  PROVE  RejectUserEffect(w)
BY GoCarries, WithoutErases DEF RejectUserEffect, PdbRejectUser, DeleteUser, At, Step, nets

RejectSignupEffect(w) ==
  LET u == req[w].user IN
  /\ req[w].at = "deleteSignup" /\ Ends(w)
  /\ pdbSignups' = Without(pdbSignups, u) /\ Erased(pdbSignups, pdbSignups', u)
  /\ UNCHANGED <<users, profiles, tokens, ringUsers, lastUser, lastRing, nets>>
(* The delete of the signup removes what is left of it.                    *)
LEMMA RejectSignupDoes ==
  ASSUME Inv, NEW w \in Worker, PdbRejectSignup(w)
  PROVE  RejectSignupEffect(w)
BY EndEnds, WithoutErases DEF RejectSignupEffect, PdbRejectSignup, At, nets

DieEffect(w) == Ends(w) /\ UNCHANGED <<tables, nets>> /\ Faults
(* A request that dies writes nothing more.                                *)
LEMMA DieDoes ==
  ASSUME Inv, NEW w \in Worker, RequestDies(w)
  PROVE  DieEffect(w)
BY EndEnds DEF DieEffect, RequestDies, Die, tables, nets, pdbVars

DestroyEffect(r) ==
  /\ r \in Removable /\ LegacyWritable /\ UNCHANGED <<req, deployment>>
  /\ ringUsers' = Without(ringUsers, r) /\ Erased(ringUsers, ringUsers', r)
  /\ UNCHANGED <<users, profiles, tokens, lastUser, lastRing, pdbSignups, nets>>
(* The API deletes one ring user, where its database can be written.       *)
LEMMA DestroyDoes ==
  ASSUME Inv, NEW r \in RingId, RingUserDestroyed(r)
  PROVE  DestroyEffect(r)
BY WithoutErases DEF DestroyEffect, RingUserDestroyed, DestroyRingUser, nets, pdbVars

-----------------------------------------------------------------------------
(***************************************************************************)
(* Inv is inductive.                                                       *)
(***************************************************************************)
Beside == UNCHANGED backfill /\ calm' \in BOOLEAN

(* A step of one request keeps Inv if what it has written fits, and what   *)
(* the request holds afterwards is in shape.                               *)
LEMMA StepKeeps ==
  ASSUME Inv, Beside, NEW w \in Worker, NEW step, Steps(w, step),
         users' \in Table(UserId, UserRow), profiles' \in Table(UserId, ProfileRow),
         tokens' \subseteq UserId, ringUsers' \in Table(RingId, RingRow),
         lastUser' \in 0..MaxUser, lastRing' \in 0..MaxRing,
         pdbSignups' \in Table(UserId, PdbSignupRow),
         orgs' \subseteq Org, orgAsn' \in Table(Org, Opt(Asn)),
         lastUser <= lastUser', lastRing <= lastRing',
         Referential', SignupsFit', RecordedAsnFits', Shape(req[w])'
  PROVE  Inv'
<1>1. BackfillTypeOK'
  BY DEF Inv, BackfillTypeOK, TypeOK, StoreTypeOK, Beside, Steps
<1>2. BackfillShape'
  BY SameSite DEF Inv, BackfillShape, Beside, Steps
<1>3. \A v \in Worker \ {w} : Shape(req[v])'
  <2> SUFFICES ASSUME NEW v \in Worker \ {w} PROVE Shape(req[v])'
    OBVIOUS
  <2>1. /\ Shape(req[v]) /\ req'[v] = req[v] /\ req[v] \in Request
        /\ lastUser \in Nat /\ lastRing \in Nat /\ lastUser' \in Nat /\ lastRing' \in Nat
    BY RequestsTyped DEF Inv, RequestShape, Steps, StoreTypeOK
  <2>2. Fits(req[v].org, req[v].asn)' <=> Fits(req[v].org, req[v].asn)
    BY <2>1, SameSite DEF Steps
  <2>3. /\ HasUser(req[v])' <=> HasUser(req[v])
        /\ HasName(req[v])' <=> HasName(req[v])
        /\ HasNet(req[v])' <=> HasNet(req[v])
    BY <2>1 DEF HasUser, HasName, HasNet
  <2>4. HasUser(req[v]) => req[v].user \in UserId /\ req[v].user <= lastUser'
    BY <2>1, StoreAssumption DEF Shape, UserId
  <2>5. HasRing(req[v].at) => req[v].ring \in RingId /\ req[v].ring <= lastRing'
    BY <2>1, StoreAssumption DEF Shape, RingId
  <2> QED BY <2>1, <2>2, <2>3, <2>4, <2>5 DEF Shape
<1>4. RequestShape'
  BY <1>3 DEF RequestShape
<1> QED BY <1>1, <1>2, <1>4 DEF Inv

(* Where it has written nothing, only the shape is left.                   *)
LEMMA QuietKeeps ==
  ASSUME Inv, Beside, NEW w \in Worker, NEW step, Steps(w, step),
         UNCHANGED <<tables, nets>>, Shape(req[w])'
  PROVE  Inv'
<1>1. /\ StoreTypeOK /\ TypeOK /\ lastUser <= lastUser' /\ lastRing <= lastRing'
  BY RequestsTyped DEF tables, StoreTypeOK
<1>2. Referential' /\ SignupsFit' /\ RecordedAsnFits'
  BY SameSite DEF Inv, Referential, SignupsFit, RecordedAsnFits, tables, nets, Steps
<1> QED BY <1>1, <1>2, StepKeeps DEF tables, nets, StoreTypeOK, TypeOK

(* An idle worker holds nothing.                                           *)
LEMMA IdleShape == ASSUME NEW w \in Worker, Ends(w) PROVE Shape(req[w])'
BY DEF Shape, Ends, Idle, HasUser, HasName, HasNet, HasRing, Linking

(* Moving on keeps what there was to hold; only what is new is to be shown.*)
LEMMA CarriedShape ==
  ASSUME Inv, NEW w \in Worker, NEW step, Carries(w, step),
         lastUser <= lastUser', lastRing <= lastRing', lastUser' \in Nat, lastRing' \in Nat,
         req[w].op = "login" => step \in LoginStep,
         req[w].op = "pdbApprove" => step \in ApproveStep,
         req[w].op = "pdbReject" => step \in RejectStep,
         req[w].op # "idle",
         Looking(req[w].at) \/ req[w].at = "createUser"
            => req[w].op = "pdbApprove" \/ step = "pickName" \/ step = "asnSave",
         HasRing(step) => HasRing(req[w].at), step # "updateRing",
         req[w].at \in {"updateRing", "sync"} => step \in {"updateRing", "sync"},
         step = "asnSave" \/ Linking(step) => req[w].org # None,
         step # "asnGet",
         req[w].op = "login" => step # "activate",
         step \in {"deactivate", "queue"} => req[w].org = None
  PROVE  Shape(req[w])'
<1>1. /\ Shape(req[w]) /\ req[w] \in Request
      /\ lastUser \in Nat /\ lastRing \in Nat
  BY RequestsTyped DEF Inv, RequestShape, Steps, StoreTypeOK
<1>2. /\ req'[w].at = step /\ req'[w].op = req[w].op /\ req'[w].user = req[w].user
      /\ req'[w].name = req[w].name /\ req'[w].ring = req[w].ring /\ req'[w].row = req[w].row
      /\ req'[w].org = req[w].org /\ req'[w].pdb = req[w].pdb /\ req'[w].asn = req[w].asn
      /\ UNCHANGED deployment
  BY DEF Carries, Steps, Alike, SameUser, SameRing, SameNet
<1>3. Fits(req[w].org, req[w].asn)' <=> Fits(req[w].org, req[w].asn)
  BY <1>2, SameSite
<1>4. /\ HasUser(req[w])' => HasUser(req[w])
      /\ HasName(req[w])' => HasName(req[w])
      /\ HasNet(req[w])' => HasNet(req[w])
  BY <1>1, <1>2 DEF HasUser, HasName, HasNet, Looking, Shape, LoginStep, ApproveStep, RejectStep
<1>5. HasUser(req[w]) => req[w].user \in UserId /\ req[w].user <= lastUser'
  BY <1>1, StoreAssumption DEF Shape, UserId
<1>6. HasRing(req[w].at) => req[w].ring \in RingId /\ req[w].ring <= lastRing'
  BY <1>1, StoreAssumption DEF Shape, RingId
<1> QED BY <1>1, <1>2, <1>3, <1>4, <1>5, <1>6 DEF Shape

(* What is known of the request that takes a step.                         *)
LEMMA Actor ==
  ASSUME Inv, NEW w \in Worker
  PROVE  /\ Shape(req[w]) /\ req[w] \in Request
         /\ lastUser \in Nat /\ lastRing \in Nat /\ lastUser \in 0..MaxUser /\ lastRing \in 0..MaxRing
         /\ MaxUser \in Nat /\ MaxRing \in Nat
         /\ req[w].op \in {"login", "pdbApprove"} => req[w].pdb \in Pdb /\ req[w].pdb # None
         /\ HasNet(req[w]) => req[w].asn \in Asn /\ req[w].asn # None
         /\ req[w].org # None => req[w].org \in Org
BY RequestsTyped, StoreAssumption, PdbAssumption
   DEF Inv, RequestShape, StoreTypeOK, Shape, HasNet, Request, Opt

(* A login begins.                                                         *)
LEMMA LoginKeeps ==
  ASSUME Inv, Beside, NEW w \in Worker, NEW pdb \in Pdb, NEW asn \in Asn, Login(w, pdb, asn)
  PROVE  Inv'
<1>1. LoginEffect(w, pdb, asn)
  BY LoginDoes
<1>2. UNCHANGED <<tables, nets>> /\ (Steps(w, "updateRing") \/ Steps(w, "resolve"))
  BY <1>1 DEF LoginEffect
<1>3. Shape(req[w])'
  <2>1. /\ req'[w].op = "login" /\ req'[w].pdb \in Pdb /\ req'[w].asn \in Manages[req'[w].pdb]
        /\ req'[w].org = None
    BY <1>1 DEF LoginEffect
  <2>2. CASE Steps(w, "resolve")
    BY <2>1, <2>2 DEF Steps, Shape, HasUser, HasName, HasNet, HasRing, Linking, Looking, LoginStep
  <2>3. CASE ~Steps(w, "resolve")
    <3> DEFINE u == req'[w].user
    <3>1. /\ Steps(w, "updateRing") /\ u \in DOMAIN users /\ u \in DOMAIN profiles
          /\ req'[w].name = users[u].name /\ req'[w].ring = profiles[u].ring
          /\ req'[w].row = ringUsers[req'[w].ring] /\ req'[w].ring \in DOMAIN ringUsers
      BY <1>1, <2>3 DEF LoginEffect, LinkedLive, LinkedTo
    <3>2. /\ u \in UserId /\ u <= lastUser /\ users[u] \in UserRow /\ profiles[u] \in ProfileRow
          /\ ringUsers[req'[w].ring] \in RingRow /\ req'[w].ring \in RingId
          /\ req'[w].ring <= lastRing
      BY <3>1, RequestsTyped, UserRows, ProfileRows, RingRows DEF StoreTypeOK, Inv, Referential
    <3> HIDE DEF u
    <3>3. users[u].name \in Name
      BY <3>2 DEF UserRow
    <3>4. req'[w].user = u
      BY DEF u
    <3> QED BY <1>2, <2>1, <3>1, <3>2, <3>3, <3>4
            DEF Steps, Shape, HasUser, HasName, HasNet, HasRing, Linking, Looking, LoginStep, tables
  <2> QED BY <2>2, <2>3
<1> QED BY <1>2, <1>3, QuietKeeps

(* An admin opens an approval or a rejection.                              *)
LEMMA OpeningKeeps ==
  ASSUME Inv, Beside, NEW w \in Worker, NEW u \in UserId,
         OpenPdbApproval(w, u) \/ OpenPdbRejection(w, u)
  PROVE  Inv'
<1>1. CASE OpenPdbApproval(w, u)
  <2>1. OpenApprovalEffect(w, u)
    BY <1>1, OpenApprovalDoes
  <2>2. /\ u \in DOMAIN users /\ u \in DOMAIN pdbSignups /\ u <= lastUser
        /\ users[u] \in UserRow /\ pdbSignups[u] \in PdbSignupRow
        /\ pdbSignups[u].asn \in Manages[pdbSignups[u].pdb]
    BY <2>1, RequestsTyped, UserRows, SignupRows
       DEF OpenApprovalEffect, StoreTypeOK, TypeOK, Inv, Referential, SignupsFit, Pending
  <2>3. users[u].name \in Name /\ pdbSignups[u].pdb \in Pdb
    BY <2>2 DEF UserRow, PdbSignupRow
  <2>4. Shape(req[w])'
    BY <2>1, <2>2, <2>3 DEF OpenApprovalEffect, tables, Steps, Shape, HasUser, HasName, HasNet,
       HasRing, Linking, Looking, ApproveStep
  <2> QED BY <2>1, <2>4, QuietKeeps DEF OpenApprovalEffect
<1>2. CASE OpenPdbRejection(w, u)
  <2>1. OpenRejectionEffect(w, u)
    BY <1>2, OpenRejectionDoes
  <2>2. u \in DOMAIN users /\ u <= lastUser
    BY <2>1 DEF OpenRejectionEffect, Pending, Inv, Referential
  <2>3. Shape(req[w])'
    BY <2>1, <2>2 DEF OpenRejectionEffect, tables, Steps, Shape, HasUser, HasName, HasNet,
       HasRing, Linking, Looking, RejectStep
  <2> QED BY <2>1, <2>3, QuietKeeps DEF OpenRejectionEffect
<1> QED BY <1>1, <1>2

(* A request that ends without writing.                                    *)
LEMMA EndKeeps ==
  ASSUME Inv, Beside, NEW w \in Worker, Ends(w), UNCHANGED <<tables, nets>>
  PROVE  Inv'
BY IdleShape, QuietKeeps DEF Ends

(* The rows that a step leaves alone have the type they had.               *)
LEMMA TablesTyped ==
  Inv => /\ users \in Table(UserId, UserRow) /\ profiles \in Table(UserId, ProfileRow)
         /\ tokens \subseteq UserId /\ ringUsers \in Table(RingId, RingRow)
         /\ lastUser \in 0..MaxUser /\ lastRing \in 0..MaxRing
         /\ pdbSignups \in Table(UserId, PdbSignupRow)
         /\ orgs \subseteq Org /\ orgAsn \in Table(Org, Opt(Asn))
         /\ lastUser <= lastUser /\ lastRing <= lastRing
         /\ Referential /\ SignupsFit /\ RecordedAsnFits
BY RequestsTyped DEF StoreTypeOK, TypeOK, Inv

(* The two saves of a login by a linked identity.                          *)
LEMMA SyncKeeps ==
  ASSUME Inv, Beside, NEW w \in Worker, SyncRing(w) \/ SyncUser(w)
  PROVE  Inv'
<1>1. CASE SyncRing(w)
  <2>1. SyncRingEffect(w)
    BY <1>1, SyncRingDoes
  <2>2. /\ req[w].at = "updateRing" /\ req[w].op = "login"
        /\ req[w].ring \in RingId /\ req[w].row \in RingRow /\ req[w].ring <= lastRing
    BY <2>1, Actor DEF SyncRingEffect, Shape, HasRing, ApproveStep, RejectStep
  <2>3. CASE Ends(w) /\ UNCHANGED <<tables, nets>>
    BY <2>3, EndKeeps
  <2>4. CASE Carries(w, "sync")
    <3>1. Shape(req[w])'
      BY <2>1, <2>2, <2>4, Actor, CarriedShape DEF SyncRingEffect, LoginStep, Looking, HasRing, Linking
    <3>2. ringUsers' \in Table(RingId, RingRow)
      <4>1. ringUsers \in Table(RingId, RingRow)
        BY TablesTyped
      <4>2. Put(ringUsers, req[w].ring, req[w].row) \in Table(RingId, RingRow)
        BY <2>2, <4>1, PutRing
      <4> QED BY <2>1, <4>1, <4>2 DEF SyncRingEffect
    <3>3. Referential'
      BY <2>1, <2>2, TablesTyped DEF SyncRingEffect, Referential, Wrote
    <3>4. SignupsFit' /\ RecordedAsnFits'
      BY <2>1, <2>4, TablesTyped, SameSite
         DEF SyncRingEffect, SignupsFit, RecordedAsnFits, Carries, Steps, nets
    <3> QED BY <2>1, <2>4, <3>1, <3>2, <3>3, <3>4, TablesTyped, StepKeeps
            DEF SyncRingEffect, Carries, nets
  <2> QED BY <2>1, <2>3, <2>4 DEF SyncRingEffect, tables
<1>2. CASE SyncUser(w)
  <2>1. SyncUserEffect(w)
    BY <1>2, SyncUserDoes
  <2>2. req[w].op = "login" /\ req[w].at = "sync"
    BY <2>1, Actor DEF SyncUserEffect, Shape, ApproveStep, RejectStep
  <2>3. HasUser(req[w]) /\ HasName(req[w])
    BY <2>2 DEF HasUser, HasName, Looking
  <2>4. req[w].user \in UserId /\ req[w].name \in Name /\ req[w].user <= lastUser
        /\ req[w].active \in BOOLEAN
    BY <2>3, Actor DEF Shape, Request
  <2> DEFINE row == [name |-> req[w].name, active |-> req[w].active]
  <2>5. row \in UserRow
    BY <2>4 DEF UserRow
  <2>6. users' \in Table(UserId, UserRow)
    <3>1. users \in Table(UserId, UserRow)
      BY TablesTyped
    <3>2. Put(users, req[w].user, row) \in Table(UserId, UserRow)
      BY <2>4, <2>5, <3>1, PutUser
    <3> QED BY <2>1, <3>1, <3>2 DEF SyncUserEffect
  <2>7. Referential'
    BY <2>1, <2>4, TablesTyped DEF SyncUserEffect, Referential, Wrote
  <2>8. SignupsFit' /\ RecordedAsnFits'
    BY <2>1, TablesTyped, SameSite
       DEF SyncUserEffect, SignupsFit, RecordedAsnFits, Ends, Steps, nets
  <2> QED BY <2>1, <2>6, <2>7, <2>8, TablesTyped, StepKeeps, IdleShape
          DEF SyncUserEffect, Ends, nets
<1> QED BY <1>1, <1>2

(* Whichever of its three ways it takes, the lookup finds a participant    *)
(* that fits the network.                                                  *)
LEMMA FoundFits ==
  ASSUME Inv, NEW asn \in Asn, NEW o \in ParticipantForPdb(asn)
  PROVE  Fits(o, asn) /\ o \in Org /\ o # None
<1>1. o \in orgs /\ orgs \subseteq Org
  BY RequestsTyped DEF TypeOK, ParticipantForPdb, ByAsn, ByMachine, ByName
<1>2. o \in ByAsn(asn) => Fits(o, asn)
  BY StoreAssumption DEF ByAsn, Inv, RecordedAsnFits
<1>3. ASSUME o \in ByMachine(asn) PROVE Fits(o, asn)
  <2>1. PICK i \in DOMAIN Machines : Machines[i].org = o /\ Machines[i].asn = asn
    BY <1>3 DEF ByMachine
  <2>2. Machines \in Seq([org: Org, asn: Asn])
    BY RequestsTyped, PdbAssumption DEF TypeOK, Machines, Site
  <2>3. Machines[i] \in [org: Org, asn: Asn]
    <3>1. \A S : \A q \in Seq(S) : \A j \in DOMAIN q : q[j] \in S
      OBVIOUS
    <3> QED BY <2>1, <2>2, <3>1, Zenon
  <2>4. Machines[i] = [org |-> o, asn |-> asn]
    BY <2>1, <2>3
  <2> QED BY <2>4 DEF Fits, HasMachine
<1>4. o \in ByName(asn) => Fits(o, asn)
  BY DEF ByName, Fits
<1> QED BY <1>1, <1>2, <1>3, <1>4, StoreAssumption DEF ParticipantForPdb

(* The participant is looked up.                                           *)
LEMMA ResolveKeeps ==
  ASSUME Inv, Beside, NEW w \in Worker, Resolve(w)
  PROVE  Inv'
<1>1. ResolveEffect(w)
  BY ResolveDoes
<1>2. /\ req[w].at = "resolve" /\ UNCHANGED <<tables, nets>>
      /\ req[w].op \in {"login", "pdbApprove"} /\ HasNet(req[w])
  BY <1>1, Actor DEF ResolveEffect, Shape, RejectStep, HasNet
<1>3. CASE Ends(w)
  BY <1>2, <1>3, EndKeeps
<1>4. CASE Carries(w, "pickName") /\ req[w].op = "login"
  <2>1. Shape(req[w])'
    BY <1>2, <1>4, Actor, CarriedShape DEF tables, LoginStep, Looking, HasRing, Linking
  <2> QED BY <1>2, <1>4, <2>1, QuietKeeps DEF Carries
<1>5. CASE Carries(w, "createOrg") /\ req[w].op = "pdbApprove"
  <2>1. Shape(req[w])'
    BY <1>2, <1>5, Actor, CarriedShape DEF tables, ApproveStep, Looking, HasRing, Linking
  <2> QED BY <1>2, <1>5, <2>1, QuietKeeps DEF Carries
<1>6. CASE /\ Steps(w, "asnGet") /\ SameUser(req[w], req'[w]) /\ req'[w].pdb = req[w].pdb
           /\ req'[w].asn = req[w].asn /\ req'[w].org \in ParticipantForPdb(req[w].asn)
  <2>1. Fits(req'[w].org, req[w].asn) /\ req'[w].org \in Org /\ req'[w].org # None
    BY <1>2, <1>6, Actor, FoundFits
  <2>2. Fits(req[w].org, req[w].asn)'
    BY <1>6, <2>1, SameSite DEF Steps
  <2>3. Shape(req[w])'
    BY <1>2, <1>6, <2>1, <2>2, Actor DEF Steps, SameUser, tables, Shape, HasUser, HasName, HasNet,
       HasRing, Linking, Looking, LoginStep, ApproveStep
  <2> QED BY <1>2, <1>6, <2>3, QuietKeeps
<1> QED BY <1>1, <1>3, <1>4, <1>5, <1>6 DEF ResolveEffect

(* The participant is created.                                             *)
LEMMA CreateOrgKeeps ==
  ASSUME Inv, Beside, NEW w \in Worker, CreateOrg(w)
  PROVE  Inv'
<1>1. req[w].at = "createOrg"
  BY DEF CreateOrg, At
<1>2. req[w].op = "pdbApprove" /\ HasNet(req[w])
  BY <1>1, Actor DEF Shape, LoginStep, RejectStep, HasNet
<1>3. CreateOrgEffect(w) /\ req[w].asn \in Asn
  BY <1>2, Actor, CreateOrgDoes
<1>4. /\ UNCHANGED <<tables, orgAsn>> /\ orgs' = orgs \union {req'[w].org}
      /\ req'[w].org \in Org /\ req'[w].org = NetOrg[req[w].asn]
      /\ Steps(w, "asnGet") /\ SameUser(req[w], req'[w])
      /\ req'[w].pdb = req[w].pdb /\ req'[w].asn = req[w].asn
  BY <1>3, PdbAssumption DEF CreateOrgEffect
<1>5. Fits(req[w].org, req[w].asn)' /\ req'[w].org # None
  BY <1>4, SameSite, StoreAssumption DEF Fits
<1>6. Shape(req[w])'
  BY <1>1, <1>2, <1>4, <1>5, Actor DEF Steps, SameUser, tables, Shape, HasUser, HasName, HasNet,
     HasRing, Linking, Looking, ApproveStep
<1>7. Referential' /\ SignupsFit' /\ RecordedAsnFits'
  BY <1>4, TablesTyped, SameSite DEF Steps, tables, Referential, SignupsFit, RecordedAsnFits
<1> QED BY <1>4, <1>6, <1>7, TablesTyped, StepKeeps DEF tables

(* The ASN of the participant is recorded.                                 *)
LEMMA AsnKeeps ==
  ASSUME Inv, Beside, NEW w \in Worker, AsnGet(w) \/ AsnSave(w)
  PROVE  Inv'
<1>1. req[w].at \in {"asnGet", "asnSave"}
  BY DEF AsnGet, AsnSave, At
<1>2. req[w].op \in {"login", "pdbApprove"} /\ HasNet(req[w])
  BY <1>1, Actor DEF Shape, RejectStep, HasNet
<1>3. /\ req[w].org \in Org /\ req[w].org # None /\ req[w].asn \in Asn
      /\ Fits(req[w].org, req[w].asn)
  BY <1>1, <1>2, Actor DEF Shape
<1>4. orgAsn \in Table(Org, Opt(Asn)) /\ RecordedAsnFits /\ req[w].asn \in Opt(Asn) /\ None \in Opt(Asn)
  BY <1>3, TablesTyped DEF Opt
<1>5. CASE AsnGet(w)
  <2>1. AsnGetEffect(w)
    BY <1>5, AsnGetDoes
  <2>2. Shape(req[w])'
    BY <1>1, <1>2, <1>3, <2>1, Actor, CarriedShape
       DEF AsnGetEffect, tables, LoginStep, ApproveStep, Looking, HasRing, Linking
  <2>3. orgAsn' \in Table(Org, Opt(Asn))
    <3>1. Put(orgAsn, req[w].org, None) \in Table(Org, Opt(Asn))
      BY <1>3, <1>4, PutAsn
    <3> QED BY <1>4, <2>1, <3>1 DEF AsnGetEffect
  <2>4. RecordedAsnFits'
    BY <1>4, <2>1, SameSite DEF AsnGetEffect, Carries, Steps, RecordedAsnFits, Wrote
  <2>5. Referential' /\ SignupsFit'
    BY <2>1, TablesTyped DEF AsnGetEffect, tables, Referential, SignupsFit
  <2> QED BY <2>1, <2>2, <2>3, <2>4, <2>5, TablesTyped, StepKeeps DEF AsnGetEffect, Carries, tables
<1>6. CASE AsnSave(w)
  <2>1. AsnSaveEffect(w)
    BY <1>6, AsnSaveDoes
  <2>2. /\ Shape(req[w])' /\ UNCHANGED <<tables, orgs>>
        /\ Steps(w, "idle") \/ Steps(w, "pickName") \/ Steps(w, "createRing")
    <3>1. CASE Ends(w)
      BY <2>1, <3>1, IdleShape DEF AsnSaveEffect, Ends
    <3>2. CASE req[w].op = "login" /\ Carries(w, "pickName")
      <4>1. Shape(req[w])'
        BY <1>1, <1>3, <2>1, <3>2, Actor, CarriedShape
           DEF AsnSaveEffect, tables, LoginStep, Looking, HasRing, Linking
      <4> QED BY <2>1, <3>2, <4>1 DEF AsnSaveEffect, Carries
    <3>3. CASE req[w].op = "pdbApprove" /\ Carries(w, "createRing")
      <4>1. Shape(req[w])'
        BY <1>1, <1>3, <2>1, <3>3, Actor, CarriedShape
           DEF AsnSaveEffect, tables, ApproveStep, Looking, HasRing, Linking
      <4> QED BY <2>1, <3>3, <4>1 DEF AsnSaveEffect, Carries
    <3> QED BY <1>2, <2>1, <3>1, <3>2, <3>3 DEF AsnSaveEffect
  <2>3. orgAsn' \in Table(Org, Opt(Asn))
    <3>1. Put(orgAsn, req[w].org, req[w].asn) \in Table(Org, Opt(Asn))
      BY <1>3, <1>4, PutAsn
    <3> QED BY <1>4, <2>1, <3>1 DEF AsnSaveEffect
  <2>4. UNCHANGED deployment
    BY <2>2 DEF Steps
  <2>5. RecordedAsnFits'
    BY <1>3, <1>4, <2>1, <2>4, SameSite DEF AsnSaveEffect, RecordedAsnFits, Wrote
  <2>6. Referential' /\ SignupsFit'
    BY <2>2, TablesTyped DEF tables, Referential, SignupsFit
  <2> QED BY <2>2, <2>3, <2>5, <2>6, TablesTyped, StepKeeps DEF tables
<1> QED BY <1>5, <1>6

(* A username is chosen.                                                   *)
LEMMA PickNameKeeps ==
  ASSUME Inv, Beside, NEW w \in Worker, PickName(w)
  PROVE  Inv'
<1>1. PickNameEffect(w)
  BY PickNameDoes
<1>2. req[w].op = "login" /\ HasNet(req[w])
  BY <1>1, Actor DEF PickNameEffect, Shape, ApproveStep, RejectStep, HasNet
<1>3. Fits(req[w].org, req[w].asn)' <=> Fits(req[w].org, req[w].asn)
  BY <1>1, SameSite DEF PickNameEffect, Steps, SameNet
<1>4. Shape(req[w])'
  BY <1>1, <1>2, <1>3, Actor DEF PickNameEffect, SameNet, Steps, Shape, HasUser, HasName, HasNet,
     HasRing, Linking, Looking, LoginStep
<1> QED BY <1>1, <1>4, QuietKeeps DEF PickNameEffect

(* A username has been chosen, and the account is created.                 *)
LEMMA CreateUserKeeps ==
  ASSUME Inv, Beside, NEW w \in Worker, PdbCreateUser(w)
  PROVE  Inv'
<1>1. CreateUserEffect(w)
  BY CreateUserDoes
<1>2. CASE Ends(w) /\ UNCHANGED <<users, lastUser>>
  <2>1. UNCHANGED <<tables, nets>>
    BY <1>1, <1>2 DEF CreateUserEffect, tables
  <2> QED BY <1>2, <2>1, EndKeeps
<1>3. CASE ~(Ends(w) /\ UNCHANGED <<users, lastUser>>)
  <2> DEFINE k == lastUser + 1
             row == [name |-> req[w].name, active |-> TRUE]
             step == IF req[w].org = None THEN "deactivate" ELSE "activate"
  <2>1. /\ req[w].at = "createUser" /\ Steps(w, step) /\ lastUser < MaxUser /\ lastUser' = k
        /\ req'[w].op = req[w].op /\ req'[w].user = k /\ req'[w].name = req[w].name
        /\ SameNet(req[w], req'[w]) /\ users' = Put(users, k, row) /\ Wrote(users, users', k, row)
        /\ UNCHANGED <<profiles, tokens, ringUsers, lastRing, pdbSignups, nets>>
    BY <1>1, <1>3 DEF CreateUserEffect
  <2>2. req[w].op = "login" /\ HasName(req[w]) /\ HasNet(req[w]) /\ req[w].name \in Name
    BY <2>1, Actor DEF Shape, ApproveStep, RejectStep, HasName, HasNet, Looking
  <2>3. k \in UserId /\ k <= lastUser' /\ row \in UserRow /\ lastUser' \in 0..MaxUser /\ lastUser <= lastUser'
    BY <2>1, <2>2, Actor DEF UserId, UserRow
  <2> HIDE DEF row
  <2>4. users' \in Table(UserId, UserRow)
    <3>1. users \in Table(UserId, UserRow)
      BY TablesTyped
    <3> QED BY <2>1, <2>3, <3>1, PutUser
  <2>5. Referential'
    <3>1. Referential /\ DOMAIN users \subseteq UserId
      BY TablesTyped, UserRows
    <3> QED BY <2>1, <2>3, <3>1, Actor DEF Referential, Wrote, UserId
  <2>6. SignupsFit' /\ RecordedAsnFits'
    BY <2>1, TablesTyped, SameSite DEF SignupsFit, RecordedAsnFits, Steps, nets
  <2>7. Fits(req[w].org, req[w].asn)' <=> Fits(req[w].org, req[w].asn)
    BY <2>1, SameSite DEF Steps, SameNet
  <2>8. Shape(req[w])'
    BY <2>1, <2>2, <2>3, <2>7, Actor DEF SameNet, Steps, Shape, HasUser, HasName, HasNet,
       HasRing, Linking, Looking, LoginStep
  <2> HIDE DEF step
  <2> QED BY <2>1, <2>3, <2>4, <2>5, <2>6, <2>8, TablesTyped, StepKeeps DEF nets
<1> QED BY <1>2, <1>3

(* An account is saved inactive, or active.                                *)
LEMMA SaveKeeps ==
  ASSUME Inv, Beside, NEW w \in Worker, PdbDeactivate(w) \/ PdbActivate(w)
  PROVE  Inv'
<1> DEFINE next == IF PdbDeactivate(w) THEN "queue"
                   ELSE IF req[w].op = "login" THEN "createRing" ELSE "token"
           step == IF PdbDeactivate(w) THEN "deactivate" ELSE "activate"
           active == ~PdbDeactivate(w)
           row == [name |-> req[w].name, active |-> active]
<1>1. SaveEffect(w, step, active, next)
  <2>1. CASE PdbDeactivate(w)
    BY <2>1, DeactivateDoes DEF DeactivateEffect
  <2>2. CASE ~PdbDeactivate(w)
    BY <2>2, ActivateDoes DEF ActivateEffect
  <2> QED BY <2>1, <2>2
<1>2. /\ req[w].at = step
      /\ UNCHANGED <<profiles, tokens, ringUsers, lastUser, lastRing, pdbSignups, nets>>
      /\ \/ Ends(w) /\ UNCHANGED users
         \/ /\ Carries(w, next)
            /\ users' = Put(users, req[w].user, row) /\ Wrote(users, users', req[w].user, row)
  BY <1>1 DEF SaveEffect
<1>3. /\ req[w].op \in {"login", "pdbApprove"} /\ HasUser(req[w]) /\ HasName(req[w])
      /\ step = "deactivate" => req[w].op = "login"
      /\ req[w].org # None \/ step = "deactivate" \/ req[w].op = "pdbApprove"
      /\ step = "deactivate" => req[w].org = None
  BY <1>2, Actor DEF Shape, RejectStep, ApproveStep, HasUser, HasName, Looking
<1>4. /\ req[w].user \in UserId /\ req[w].name \in Name /\ row \in UserRow
      /\ req[w].user <= lastUser
  BY <1>3, Actor DEF Shape, UserRow
<1> HIDE DEF row
<1>5. CASE Ends(w) /\ UNCHANGED users
  <2>1. UNCHANGED <<tables, nets>>
    BY <1>2, <1>5 DEF tables
  <2> QED BY <1>5, <2>1, EndKeeps
<1>6. CASE Carries(w, next) /\ users' = Put(users, req[w].user, row) /\ Wrote(users, users', req[w].user, row)
  <2>1. users' \in Table(UserId, UserRow)
    <3>1. users \in Table(UserId, UserRow)
      BY TablesTyped
    <3> QED BY <1>4, <1>6, <3>1, PutUser
  <2>2. Referential'
    BY <1>2, <1>4, <1>6, TablesTyped DEF Referential, Wrote
  <2>3. SignupsFit' /\ RecordedAsnFits'
    BY <1>2, <1>6, TablesTyped, SameSite DEF SignupsFit, RecordedAsnFits, Carries, Steps, nets
  <2>4. Shape(req[w])'
    BY <1>2, <1>3, <1>6, Actor, CarriedShape DEF LoginStep, ApproveStep, Looking, HasRing, Linking
  <2> HIDE DEF next
  <2> QED BY <1>2, <1>6, <2>1, <2>2, <2>3, <2>4, TablesTyped, StepKeeps DEF Carries, nets
<1> QED BY <1>2, <1>5, <1>6

(* The signup is put on file, or marked.                                   *)
LEMMA FileKeeps ==
  ASSUME Inv, Beside, NEW w \in Worker, PdbQueue(w) \/ PdbFinish(w)
  PROVE  Inv'
<1>1. PICK step \in {"queue", "finish"}, done \in BOOLEAN : FileEffect(w, step, done)
  BY QueueDoes, FinishDoes
<1> DEFINE row == SignupRowOf(w, done)
<1>2. /\ req[w].at \in {"queue", "finish"} /\ Ends(w)
      /\ UNCHANGED <<users, profiles, tokens, ringUsers, lastUser, lastRing, nets>>
      /\ \/ UNCHANGED pdbSignups
         \/ /\ req[w].user \in DOMAIN users
            /\ pdbSignups' = Put(pdbSignups, req[w].user, row)
            /\ Wrote(pdbSignups, pdbSignups', req[w].user, row)
  BY <1>1 DEF FileEffect
<1>3. /\ req[w].op \in {"login", "pdbApprove"} /\ HasUser(req[w]) /\ HasNet(req[w])
  BY <1>2, Actor DEF Shape, RejectStep, HasUser, HasNet, Looking
<1>4. /\ req[w].user \in UserId /\ req[w].pdb \in Pdb /\ req[w].asn \in Asn
      /\ req[w].asn \in Manages[req[w].pdb]
  BY <1>3, Actor DEF Shape
<1>5. row \in PdbSignupRow /\ row.pdb = req[w].pdb /\ row.asn = req[w].asn
  BY <1>4 DEF SignupRowOf, PdbSignupRow
<1> HIDE DEF row
<1>6. pdbSignups' \in Table(UserId, PdbSignupRow)
  <2>1. pdbSignups \in Table(UserId, PdbSignupRow)
    BY TablesTyped
  <2>2. Put(pdbSignups, req[w].user, row) \in Table(UserId, PdbSignupRow)
    BY <1>4, <1>5, <2>1, PutSignup
  <2> QED BY <1>2, <2>1, <2>2
<1>7. Referential'
  BY <1>2, TablesTyped DEF Referential, Wrote
<1>8. SignupsFit'
  BY <1>2, <1>4, <1>5, TablesTyped DEF SignupsFit, Wrote
<1>9. RecordedAsnFits'
  BY <1>2, TablesTyped, SameSite DEF RecordedAsnFits, Ends, Steps, nets
<1> QED BY <1>2, <1>6, <1>7, <1>8, <1>9, TablesTyped, StepKeeps, IdleShape DEF Ends, nets

(* The ring user is created.                                               *)
LEMMA CreateRingKeeps ==
  ASSUME Inv, Beside, NEW w \in Worker, PdbCreateRing(w)
  PROVE  Inv'
<1>1. req[w].at = "createRing"
  BY DEF PdbCreateRing, CreateRing, At
<1>2. /\ req[w].op \in {"login", "pdbApprove"} /\ HasUser(req[w]) /\ HasName(req[w]) /\ HasNet(req[w])
      /\ req[w].name \in Name /\ req[w].org \in Org /\ Fits(req[w].org, req[w].asn)
  BY <1>1, LinkerHolds DEF Linking
<1>3. CreateRingEffect(w)
  BY <1>2, CreateRingDoes
<1>4. CASE Ends(w) /\ UNCHANGED <<ringUsers, lastRing>>
  <2>1. UNCHANGED <<tables, nets>>
    BY <1>3, <1>4 DEF CreateRingEffect, tables
  <2> QED BY <1>4, <2>1, EndKeeps
<1>5. CASE ~(Ends(w) /\ UNCHANGED <<ringUsers, lastRing>>)
  <2> DEFINE k == lastRing + 1
             row == [name |-> req[w].name, org |-> req[w].org, admin |-> FALSE]
  <2>1. /\ Steps(w, "linkGet") /\ lastRing < MaxRing /\ lastRing' = k
        /\ SameUser(req[w], req'[w]) /\ SameNet(req[w], req'[w]) /\ req'[w].ring = k
        /\ ringUsers' = Put(ringUsers, k, row) /\ Wrote(ringUsers, ringUsers', k, row)
        /\ UNCHANGED <<users, profiles, tokens, lastUser, pdbSignups, nets>>
    BY <1>3, <1>5 DEF CreateRingEffect
  <2>2. k \in RingId /\ k <= lastRing' /\ row \in RingRow /\ lastRing' \in 0..MaxRing /\ lastRing <= lastRing'
    BY <1>2, <2>1, Actor DEF RingId, RingRow
  <2> HIDE DEF row
  <2>3. ringUsers' \in Table(RingId, RingRow)
    <3>1. ringUsers \in Table(RingId, RingRow)
      BY TablesTyped
    <3> QED BY <2>1, <2>2, <3>1, PutRing
  <2>4. Referential'
    <3>1. Referential /\ DOMAIN ringUsers \subseteq RingId /\ \A u \in DOMAIN profiles : profiles[u].ring \in RingId
      BY TablesTyped, RingRows, ProfileRows DEF ProfileRow
    <3> QED BY <2>1, <2>2, <3>1, Actor DEF Referential, Wrote, RingId
  <2>5. SignupsFit' /\ RecordedAsnFits'
    BY <2>1, TablesTyped, SameSite DEF SignupsFit, RecordedAsnFits, Steps, nets
  <2>6. Fits(req[w].org, req[w].asn)'
    BY <1>2, <2>1, SameSite DEF Steps, SameNet
  <2>7. Shape(req[w])'
    BY <1>2, <2>1, <2>2, <2>6, Actor, StoreAssumption DEF SameUser, SameNet, Steps, Shape, HasUser, HasName, HasNet,
       HasRing, Linking, Looking, LoginStep, ApproveStep
  <2> QED BY <2>1, <2>2, <2>3, <2>4, <2>5, <2>7, TablesTyped, StepKeeps DEF nets
<1> QED BY <1>4, <1>5

(* The account is linked: found or inserted, then saved.                   *)
LEMMA LinkKeeps ==
  ASSUME Inv, Beside, NEW w \in Worker, PdbLinkGet(w) \/ PdbLinkSave(w)
  PROVE  Inv'
<1>1. req[w].at \in {"linkGet", "linkSave"}
  BY DEF PdbLinkGet, PdbLinkSave, LinkGet, LinkSave, At
<1>2. /\ req[w].op \in {"login", "pdbApprove"} /\ req[w].user \in UserId
      /\ req[w].pdb \in Pdb /\ req[w].org # None
  BY <1>1, LinkerHolds, StoreAssumption DEF Linking
<1>3. req[w].ring \in RingId /\ req[w].ring <= lastRing
  BY <1>1, Actor DEF Shape, HasRing
<1> DEFINE next == IF PdbLinkGet(w) THEN "linkSave"
                   ELSE IF req[w].op = "login" THEN "token" ELSE "activate"
           pdb == IF PdbLinkGet(w) THEN None ELSE req[w].pdb
           row == [ring |-> req[w].ring, pdb |-> pdb]
<1>4. /\ UNCHANGED <<users, tokens, ringUsers, lastUser, lastRing, pdbSignups, nets>>
      /\ \/ UNCHANGED profiles /\ (Ends(w) \/ Carries(w, next))
         \/ /\ Carries(w, next) /\ req[w].user \in DOMAIN users
            /\ profiles' = Put(profiles, req[w].user, row) /\ Wrote(profiles, profiles', req[w].user, row)
  <2>1. CASE PdbLinkGet(w)
    BY <2>1, LinkGetDoes DEF LinkGetEffect
  <2>2. CASE ~PdbLinkGet(w)
    BY <2>2, LinkSaveDoes DEF LinkSaveEffect
  <2> QED BY <2>1, <2>2
<1>5. row \in ProfileRow /\ row.ring = req[w].ring
  BY <1>2, <1>3 DEF ProfileRow, Opt
<1>6. next \in {"linkSave", "token", "activate"}
      /\ (next = "linkSave" => req[w].at = "linkGet")
      /\ (req[w].op = "login" => next # "activate")
  BY DEF PdbLinkGet, LinkGet, At
<1> HIDE DEF row, next
<1>7. CASE Ends(w) /\ UNCHANGED profiles
  <2>1. UNCHANGED <<tables, nets>>
    BY <1>4, <1>7 DEF tables
  <2> QED BY <1>7, <2>1, EndKeeps
<1>8. CASE Carries(w, next)
  <2>1. profiles' \in Table(UserId, ProfileRow)
    <3>1. profiles \in Table(UserId, ProfileRow)
      BY TablesTyped
    <3>2. Put(profiles, req[w].user, row) \in Table(UserId, ProfileRow)
      BY <1>2, <1>5, <3>1, PutProfile
    <3> QED BY <1>4, <3>1, <3>2
  <2>2. Referential'
    BY <1>3, <1>4, <1>5, TablesTyped DEF Referential, Wrote
  <2>3. SignupsFit' /\ RecordedAsnFits'
    BY <1>4, <1>8, TablesTyped, SameSite DEF SignupsFit, RecordedAsnFits, Carries, Steps, nets
  <2>4. Shape(req[w])'
    BY <1>1, <1>2, <1>4, <1>6, <1>8, Actor, CarriedShape DEF LoginStep, ApproveStep, Looking, HasRing, Linking
  <2> QED BY <1>4, <1>8, <2>1, <2>2, <2>3, <2>4, TablesTyped, StepKeeps DEF Carries, nets
<1> QED BY <1>4, <1>7, <1>8

(* The token is issued.                                                    *)
LEMMA TokenKeeps ==
  ASSUME Inv, Beside, NEW w \in Worker, PdbToken(w)
  PROVE  Inv'
<1>1. TokenEffect(w)
  BY TokenDoes
<1>2. /\ req[w].at = "token" /\ req[w].op \in {"login", "pdbApprove"} /\ HasUser(req[w])
      /\ UNCHANGED <<users, profiles, ringUsers, lastUser, lastRing, pdbSignups, nets>>
  BY <1>1, Actor DEF TokenEffect, Shape, RejectStep, HasUser, Looking
<1>3. tokens' \subseteq UserId
  BY <1>1, <1>2, Actor, TablesTyped DEF TokenEffect, Shape
<1>4. Ends(w) \/ (Carries(w, "finish") /\ req[w].op = "pdbApprove")
  BY <1>1, <1>2 DEF TokenEffect
<1>5. /\ Shape(req[w])'
      /\ Steps(w, "idle") \/ Steps(w, "finish")
  <2>1. CASE Ends(w)
    BY <2>1, IdleShape DEF Ends
  <2>2. CASE Carries(w, "finish") /\ req[w].op = "pdbApprove"
    BY <1>2, <2>2, Actor, CarriedShape DEF ApproveStep, Looking, HasRing, Linking, Carries
  <2> QED BY <1>4, <2>1, <2>2
<1>6. Referential' /\ SignupsFit' /\ RecordedAsnFits'
  BY <1>2, <1>5, TablesTyped, SameSite DEF Referential, SignupsFit, RecordedAsnFits, Steps, nets
<1> QED BY <1>2, <1>3, <1>5, <1>6, TablesTyped, StepKeeps DEF nets

(* The two deletes of a rejection.                                         *)
LEMMA RejectKeeps ==
  ASSUME Inv, Beside, NEW w \in Worker, PdbRejectUser(w) \/ PdbRejectSignup(w)
  PROVE  Inv'
<1> DEFINE u == req[w].user
<1>1. /\ UNCHANGED <<ringUsers, lastUser, lastRing, nets>>
      /\ pdbSignups' = Without(pdbSignups, u) /\ Erased(pdbSignups, pdbSignups', u)
      /\ \/ /\ req[w].at = "deleteUser" /\ Carries(w, "deleteSignup")
            /\ users' = Without(users, u) /\ Erased(users, users', u)
            /\ profiles' = Without(profiles, u) /\ Erased(profiles, profiles', u)
            /\ tokens' = tokens \ {u}
         \/ req[w].at = "deleteSignup" /\ Ends(w) /\ UNCHANGED <<users, profiles, tokens>>
  BY RejectUserDoes, RejectSignupDoes DEF RejectUserEffect, RejectSignupEffect
<1>2. req[w].op = "pdbReject" /\ HasUser(req[w]) /\ u \in UserId
  BY <1>1, Actor DEF Shape, LoginStep, ApproveStep, HasUser, Looking
<1>3. Shape(req[w])' /\ (Steps(w, "deleteSignup") \/ Steps(w, "idle"))
  <2>1. CASE Ends(w)
    BY <2>1, IdleShape DEF Ends
  <2>2. CASE Carries(w, "deleteSignup")
    BY <1>1, <1>2, <2>2, Actor, CarriedShape DEF RejectStep, Looking, HasRing, Linking, Carries
  <2> QED BY <1>1, <2>1, <2>2
<1>4. pdbSignups' \in Table(UserId, PdbSignupRow)
  BY <1>1, <1>2, TablesTyped, WithoutSignup
<1>5. users' \in Table(UserId, UserRow) /\ profiles' \in Table(UserId, ProfileRow) /\ tokens' \subseteq UserId
  <2>1. users \in Table(UserId, UserRow) /\ profiles \in Table(UserId, ProfileRow) /\ tokens \subseteq UserId
    BY TablesTyped
  <2>2. Without(users, u) \in Table(UserId, UserRow) /\ Without(profiles, u) \in Table(UserId, ProfileRow)
    BY <1>2, <2>1, WithoutUser, WithoutProfile
  <2> QED BY <1>1, <2>1, <2>2
<1>6. Referential'
  BY <1>1, TablesTyped DEF Referential, Erased
<1>7. SignupsFit' /\ RecordedAsnFits'
  BY <1>1, <1>3, TablesTyped, SameSite DEF SignupsFit, RecordedAsnFits, Erased, Steps, nets
<1> QED BY <1>1, <1>3, <1>4, <1>5, <1>6, <1>7, TablesTyped, StepKeeps DEF nets

(* A ring user is deleted through the API.                                 *)
LEMMA DestroyKeeps ==
  ASSUME Inv, Beside, NEW r \in RingId, RingUserDestroyed(r)
  PROVE  Inv'
<1>1. DestroyEffect(r)
  BY DestroyDoes
<1>2. /\ UNCHANGED <<req, deployment, users, profiles, tokens, lastUser, lastRing, pdbSignups, nets>>
      /\ ringUsers' = Without(ringUsers, r) /\ Erased(ringUsers, ringUsers', r)
  BY <1>1 DEF DestroyEffect
<1>3. ringUsers' \in Table(RingId, RingRow)
  BY <1>2, TablesTyped, WithoutRing
<1>4. BackfillTypeOK'
  BY <1>2, <1>3 DEF Inv, BackfillTypeOK, TypeOK, StoreTypeOK, Beside, nets
<1>5. RequestShape'
  BY <1>2, SameSite DEF Inv, RequestShape, Shape, HasUser, HasName, HasNet
<1>6. Referential' /\ SignupsFit' /\ RecordedAsnFits' /\ BackfillShape'
  BY <1>2, SameSite DEF Inv, Referential, SignupsFit, RecordedAsnFits, BackfillShape, Beside, Erased, nets
<1> QED BY <1>4, <1>5, <1>6 DEF Inv

(* Every step of a request.                                                *)
LEMMA ContinueKeeps ==
  ASSUME Inv, Beside, NEW w \in Worker, Continue(w)
  PROVE  Inv'
BY SyncKeeps, ResolveKeeps, CreateOrgKeeps, AsnKeeps, PickNameKeeps, CreateUserKeeps, SaveKeeps,
   FileKeeps, CreateRingKeeps, LinkKeeps, TokenKeeps, RejectKeeps
   DEF Continue

(* A step of the backfill command: it touches nothing but recorded ASNs.   *)
LEMMA BackfillKeeps ==
  ASSUME Inv, BackfillActs
  PROVE  Inv'
<1>1. UNCHANGED <<storeVars, pdbSignups, orgs>>
  BY DEF BackfillActs
<1>2. UNCHANGED <<req, deployment, tables, orgs>>
  BY <1>1 DEF storeVars, tables
<1>3. RequestShape' /\ Referential' /\ SignupsFit'
  BY <1>2, SameSite DEF Inv, RequestShape, Shape, HasUser, HasName, HasNet, Referential, SignupsFit, tables
<1>4. /\ orgAsn \in Table(Org, Opt(Asn)) /\ backfill \in Backfill /\ calm \in BOOLEAN
      /\ orgs \subseteq Org /\ RecordedAsnFits /\ BackfillShape
  BY DEF Inv, BackfillTypeOK, TypeOK
<1>5. \A S : None \in Opt(S)
  BY DEF Opt
<1>6. /\ NotRunning \in Backfill /\ [NotRunning EXCEPT !.at = "done"] \in Backfill
      /\ \A D \in SUBSET Org : [NotRunning EXCEPT !.at = "look", !.todo = D] \in Backfill
  BY <1>5 DEF NotRunning, Backfill, Stage
<1>7. /\ backfill.at \in Stage /\ backfill.todo \subseteq Org
      /\ backfill.org \in Opt(Org) /\ backfill.asn \in Opt(Asn)
  BY <1>4 DEF Backfill
<1>8. Skip => backfill' \in Backfill /\ backfill'.at = "look"
  <2>1. backfill.todo \ {backfill.org} \in SUBSET Org
    BY <1>7
  <2> QED BY <1>6, <2>1 DEF Skip, NotRunning
<1> DEFINE Kept == backfill' \in Backfill /\ calm' \in BOOLEAN /\ BackfillShape'
<1>9. ASSUME backfill' \in Backfill, backfill'.at \notin {"claim", "get", "save"} PROVE BackfillShape'
  BY <1>9 DEF BackfillShape
<1>10. ASSUME BackfillStarts PROVE Kept /\ UNCHANGED orgAsn
  BY <1>4, <1>6, <1>9, <1>10 DEF BackfillStarts, NotRunning
<1>11. ASSUME BackfillLooks PROVE Kept /\ UNCHANGED orgAsn
  <2>1. ASSUME NEW o \in backfill.todo, backfill' = [backfill EXCEPT !.todo = @ \ {o}] PROVE Kept
    <3>1. backfill' \in Backfill /\ backfill'.at = "look"
      BY <1>4, <1>7, <1>11, <2>1 DEF BackfillLooks, On, Backfill
    <3> QED BY <1>4, <1>9, <1>11, <3>1 DEF BackfillLooks
  <2>2. ASSUME NEW o \in backfill.todo, NEW asn \in AsnOf(o),
               backfill' = [backfill EXCEPT !.at = "claim", !.org = o, !.asn = asn]
        PROVE  Kept
    <3>1. o \in Org /\ asn \in Asn /\ HasMachine(o, asn)
      BY <1>7 DEF AsnOf
    <3>2. backfill' \in Backfill /\ backfill'.org = o /\ backfill'.asn = asn
      BY <1>4, <2>2, <3>1 DEF Backfill, Stage, Opt
    <3>3. HasMachine(o, asn)'
      BY <1>2, <3>1, SameSite
    <3> QED BY <1>4, <1>11, <3>1, <3>2, <3>3 DEF BackfillLooks, BackfillShape
  <2>3. ASSUME backfill' = [NotRunning EXCEPT !.at = "done"] PROVE Kept
    BY <1>4, <1>6, <1>9, <1>11, <2>3 DEF BackfillLooks, NotRunning
  <2> QED BY <1>11, <2>1, <2>2, <2>3 DEF BackfillLooks
<1>12. ASSUME backfill' = [backfill EXCEPT !.at = "get"] \/ backfill' = [backfill EXCEPT !.at = "save"],
              backfill.at \in {"claim", "get"}, UNCHANGED calm
       PROVE  Kept
  <2>1. backfill' \in Backfill /\ backfill'.org = backfill.org /\ backfill'.asn = backfill.asn
    BY <1>4, <1>12 DEF Backfill, Stage
  <2>2. HasMachine(backfill.org, backfill.asn)' <=> HasMachine(backfill.org, backfill.asn)
    BY <1>2, <2>1, SameSite
  <2> QED BY <1>4, <1>12, <2>1, <2>2 DEF BackfillShape
<1>13. ASSUME BackfillClaims PROVE Kept /\ UNCHANGED orgAsn
  BY <1>4, <1>8, <1>9, <1>12, <1>13 DEF BackfillClaims, On
<1>14. ASSUME BackfillGets
       PROVE  Kept /\ orgAsn' \in Table(Org, Opt(Asn)) /\ RecordedAsnFits'
  <2>1. Kept /\ backfill.org \in Org
    BY <1>4, <1>12, <1>14 DEF BackfillGets, On, BackfillShape
  <2>2. Put(orgAsn, backfill.org, None) \in Table(Org, Opt(Asn)) /\ Wrote(orgAsn, Put(orgAsn, backfill.org, None), backfill.org, None)
    BY <1>4, <1>5, <2>1, PutAsn, PutWrites
  <2>3. orgAsn' = orgAsn \/ orgAsn' = Put(orgAsn, backfill.org, None)
    BY <1>14 DEF BackfillGets
  <2> QED BY <1>2, <1>4, <2>1, <2>2, <2>3, SameSite DEF RecordedAsnFits, Wrote
<1>15. ASSUME BackfillSaves
       PROVE  Kept /\ orgAsn' \in Table(Org, Opt(Asn)) /\ RecordedAsnFits'
  <2>1. Kept
    <3>1. (backfill' = NotRunning \/ Skip) /\ UNCHANGED calm
      BY <1>15 DEF BackfillSaves
    <3>2. NotRunning.at = "idle"
      BY DEF NotRunning
    <3> QED BY <1>4, <1>6, <1>8, <1>9, <3>1, <3>2
  <2>2. /\ backfill.org \in Org /\ backfill.asn \in Opt(Asn) /\ Fits(backfill.org, backfill.asn)
    BY <1>4, <1>7, <1>15 DEF BackfillSaves, On, BackfillShape, Fits
  <2>3. Put(orgAsn, backfill.org, backfill.asn) \in Table(Org, Opt(Asn))
        /\ Wrote(orgAsn, Put(orgAsn, backfill.org, backfill.asn), backfill.org, backfill.asn)
    BY <1>4, <2>2, PutAsn, PutWrites
  <2>4. orgAsn' = orgAsn \/ orgAsn' = Put(orgAsn, backfill.org, backfill.asn)
    BY <1>15 DEF BackfillSaves
  <2> QED BY <1>2, <1>4, <2>1, <2>2, <2>3, <2>4, SameSite DEF RecordedAsnFits, Wrote
<1>16. ASSUME BackfillDies PROVE Kept /\ UNCHANGED orgAsn
  BY <1>4, <1>6, <1>9, <1>16 DEF BackfillDies, NotRunning
<1>17. UNCHANGED orgAsn => orgAsn' \in Table(Org, Opt(Asn)) /\ RecordedAsnFits'
  BY <1>2, <1>4, SameSite DEF RecordedAsnFits
<1>18. Kept /\ orgAsn' \in Table(Org, Opt(Asn)) /\ RecordedAsnFits'
  BY <1>10, <1>11, <1>13, <1>14, <1>15, <1>16, <1>17 DEF BackfillActs
<1> QED BY <1>2, <1>3, <1>4, <1>18 DEF Inv, BackfillTypeOK, TypeOK, StoreTypeOK, tables

(* The first state is one that Inv describes.                              *)
LEMMA InitEstablishesInv == BackfillInit => Inv
<1> SUFFICES ASSUME BackfillInit PROVE Inv
  OBVIOUS
<1>1. Init /\ StoreInit
  BY DEF BackfillInit, Init
<1>2. /\ users = << >> /\ profiles = << >> /\ pdbSignups = << >> /\ orgAsn = << >>
      /\ tokens = {} /\ lastUser = 0 /\ lastRing = Len(SeedRing) /\ ringUsers = SeedRing
      /\ req = [w \in Worker |-> Idle] /\ deployment \in DOMAIN Deployments
  BY <1>1 DEF Init, StoreInit
<1>3. /\ users \in Table(UserId, UserRow) /\ profiles \in Table(UserId, ProfileRow)
      /\ pdbSignups \in Table(UserId, PdbSignupRow) /\ orgAsn \in Table(Org, Opt(Asn))
      /\ DOMAIN users = {} /\ DOMAIN profiles = {} /\ DOMAIN pdbSignups = {} /\ DOMAIN orgAsn = {}
  BY <1>2, EmptyTable
<1>4. lastRing \in 0..MaxRing /\ DOMAIN ringUsers = 1..lastRing /\ lastUser \in 0..MaxUser
  BY <1>2, StoreAssumption
<1>5. ringUsers \in Table(RingId, RingRow)
  <2>1. DOMAIN SeedRing \in SUBSET RingId
    BY <1>2, <1>4, StoreAssumption DEF RingId
  <2>2. SeedRing \in [DOMAIN SeedRing -> RingRow]
    <3>1. \A S : \A q \in Seq(S) : q \in [DOMAIN q -> S]
      OBVIOUS
    <3> QED BY <3>1, StoreAssumption, Zenon
  <2> QED BY <1>2, <2>1, <2>2, TableIntro
<1>6. req \in [Worker -> Request] /\ \A w \in Worker : req[w] = Idle
  BY <1>2, IdleIsRequest
<1>7. orgs \subseteq Org
  <2>1. SeedOrgs \subseteq Org /\ orgs = SeedOrgs \union {Machines[i].org : i \in DOMAIN Machines}
    BY <1>1, PdbAssumption DEF Init
  <2>2. Machines \in Seq([org: Org, asn: Asn])
    BY <1>2, PdbAssumption DEF Machines, Site
  <2>3. \A i \in DOMAIN Machines : Machines[i] \in [org: Org, asn: Asn]
    <3>1. \A S : \A q \in Seq(S) : \A j \in DOMAIN q : q[j] \in S
      OBVIOUS
    <3> QED BY <2>2, <3>1, Zenon
  <2> QED BY <2>1, <2>3
<1>8. backfill = NotRunning /\ NotRunning \in Backfill /\ NotRunning.at = "idle" /\ calm = FALSE
  <2>1. \A S : None \in Opt(S)
    BY DEF Opt
  <2> QED BY <2>1 DEF BackfillInit, NotRunning, Backfill, Stage
<1>9. BackfillTypeOK
  BY <1>2, <1>3, <1>4, <1>5, <1>6, <1>7, <1>8 DEF BackfillTypeOK, TypeOK, StoreTypeOK
<1>10. RequestShape
  BY <1>6 DEF RequestShape, Shape, Idle, HasUser, HasName, HasNet, HasRing, Linking
<1>11. Referential /\ SignupsFit /\ RecordedAsnFits /\ BackfillShape
  BY <1>3, <1>4, <1>8 DEF Referential, SignupsFit, RecordedAsnFits, BackfillShape
<1> QED BY <1>9, <1>10, <1>11 DEF Inv

(* Every action keeps it.                                                  *)
LEMMA NextKeepsInv == Inv /\ [BackfillNext]_backfillVars => Inv'
<1> SUFFICES ASSUME Inv, [BackfillNext]_backfillVars PROVE Inv'
  OBVIOUS
<1>1. CASE UNCHANGED backfillVars
  <2>1. UNCHANGED <<req, deployment, tables, nets, backfill, calm>>
    BY <1>1 DEF backfillVars, vars, storeVars, tables, nets
  <2> QED BY <2>1, SameSite DEF Inv, BackfillTypeOK, TypeOK, StoreTypeOK, RequestShape, Shape,
     HasUser, HasName, HasNet, Referential, SignupsFit, RecordedAsnFits, BackfillShape, tables, nets
<1>2. CASE BackfillActs
  BY <1>2, BackfillKeeps
<1>3. CASE Accounts
  <2>1. Beside
    BY <1>3 DEF Accounts, Beside, Inv, BackfillTypeOK
  <2>2. ASSUME NEW w \in Visitor, VisitorBegins(w) PROVE Inv'
    BY <2>1, <2>2, LoginKeeps DEF VisitorBegins, Worker
  <2>3. ASSUME NEW w \in Admin, AdminBegins(w) PROVE Inv'
    BY <2>1, <2>3, OpeningKeeps DEF AdminBegins, Worker
  <2>4. ASSUME NEW w \in Worker, Continue(w) PROVE Inv'
    BY <2>1, <2>4, ContinueKeeps
  <2>5. ASSUME NEW w \in Worker, RequestDies(w) PROVE Inv'
    BY <2>1, <2>5, DieDoes, EndKeeps DEF DieEffect
  <2>6. ASSUME NEW r \in RingId, RingUserDestroyed(r) PROVE Inv'
    BY <2>1, <2>6, DestroyKeeps
  <2> QED BY <1>3, <2>2, <2>3, <2>4, <2>5, <2>6 DEF Accounts, Next
<1> QED BY <1>1, <1>2, <1>3 DEF BackfillNext

(* Inv is an invariant.                                                    *)
THEOREM PdbInvariant == BackfillSpec => []Inv
BY InitEstablishesInv, NextKeepsInv, PTL DEF BackfillSpec

(***************************************************************************)
(* The tables, the requests and the command keep their types, whoever logs *)
(* in, approves, rejects or records ASNs at once.                          *)
(***************************************************************************)
THEOREM TypeCorrect == BackfillSpec => []BackfillTypeOK
<1>1. Inv => BackfillTypeOK
  BY DEF Inv
<1> QED BY <1>1, PdbInvariant, PTL

(***************************************************************************)
(* Every ASN recorded for a participant is one of its machines', or of a   *)
(* network named as it: neither a login, nor an approval, nor the command  *)
(* records what it looked up for another participant.                      *)
(***************************************************************************)
THEOREM RecordedAsnsFit == BackfillSpec => []RecordedAsnFits
<1>1. Inv => RecordedAsnFits
  BY DEF Inv
<1> QED BY <1>1, PdbInvariant, PTL

-----------------------------------------------------------------------------
(***************************************************************************)
(* Who runs which handler, and behind which switch: the statements that    *)
(* write the ring database, and for a login that has a participant those   *)
(* on the way to them, are reached only where it can be written.           *)
(***************************************************************************)
May(w) ==
  LET q == req[w] IN
  /\ q.op \in {"pdbApprove", "pdbReject"} => w \in Site.workers \intersect Admin
  /\ q.op = "login" => w \in Site.workers \intersect Visitor
  /\ q.op = "pdbReject" => Rejects
  /\ q.at \in {"createOrg", "createRing"} => LegacyWritable
  /\ q.op = "login" /\ q.org # None /\ q.at \in {"pickName", "createUser", "activate"}
       => LegacyWritable
  /\ q.at = "resolve" => q.org = None
Roles == \A w \in Worker : May(w)

(* A step that leaves its own request where it may be keeps Roles.         *)
LEMMA RolesStep ==
  ASSUME Roles, NEW w \in Worker, NEW step, Steps(w, step), May(w)'
  PROVE  Roles'
<1>1. \A v \in Worker \ {w} : May(v)'
  BY SameSite DEF Roles, May, Steps
<1> QED BY <1>1 DEF Roles

(* A request that ends is nowhere.                                         *)
LEMMA RolesEnd ==
  ASSUME Roles, NEW w \in Worker, Ends(w)
  PROVE  Roles'
<1>1. May(w)'
  BY DEF May, Ends, Idle
<1> QED BY <1>1, RolesStep DEF Ends

(* One that moves on has passed the switch, if there was one.              *)
LEMMA RolesOn ==
  ASSUME Roles, NEW w \in Worker, NEW step, Steps(w, step), req'[w].op = req[w].op,
         step # "resolve", step \in {"createOrg", "createRing"} => LegacyWritable,
         req[w].op = "login" /\ step \in {"pickName", "createUser", "activate"} =>
           req'[w].org = req[w].org /\ (req[w].org # None => LegacyWritable)
  PROVE  Roles'
<1>1. May(w)'
  BY SameSite DEF Roles, May, Steps
<1> QED BY <1>1, RolesStep

(* What moving on keeps.                                                   *)
LEMMA Carried ==
  ASSUME NEW w \in Worker, NEW step, Carries(w, step)
  PROVE  /\ Steps(w, step) /\ req'[w].at = step
         /\ req'[w].op = req[w].op /\ req'[w].user = req[w].user /\ req'[w].name = req[w].name
         /\ req'[w].active = req[w].active /\ req'[w].ring = req[w].ring /\ req'[w].row = req[w].row
         /\ req'[w].org = req[w].org /\ req'[w].pdb = req[w].pdb /\ req'[w].asn = req[w].asn
BY DEF Carries, Steps, Alike, SameUser, SameRing, SameNet

(* Every step of a request keeps Roles.                                    *)
LEMMA RolesContinue ==
  ASSUME Inv, Roles, NEW w \in Worker, Continue(w)
  PROVE  Roles'
<1>0. Shape(req[w]) /\ May(w)
  BY Actor DEF Roles
<1>1. CASE SyncRing(w) \/ SyncUser(w)
  <2>1. Ends(w) \/ Carries(w, "sync")
    BY <1>1, SyncRingDoes, SyncUserDoes DEF SyncRingEffect, SyncUserEffect
  <2> QED BY <2>1, RolesEnd, RolesOn, Carried
<1>2. CASE Resolve(w)
  <2>1. /\ req[w].at = "resolve"
        /\ \/ Ends(w)
           \/ Steps(w, "asnGet") /\ req'[w].op = req[w].op
           \/ Carries(w, "pickName")
           \/ LegacyWritable /\ Carries(w, "createOrg")
    BY <1>2, ResolveDoes DEF ResolveEffect, SameUser
  <2>2. req[w].org = None
    BY <1>0, <2>1 DEF May
  <2> QED BY <2>1, <2>2, RolesEnd, RolesOn, Carried
<1>3. CASE CreateOrg(w)
  <2>1. req[w].at = "createOrg" /\ req[w].asn \in Asn
    BY <1>0, <1>3, Actor DEF CreateOrg, At, Shape, HasNet, LoginStep, RejectStep
  <2>2. Steps(w, "asnGet") /\ req'[w].op = req[w].op
    BY <1>3, <2>1, CreateOrgDoes DEF CreateOrgEffect, SameUser
  <2> QED BY <2>2, RolesOn
<1>4. CASE AsnGet(w) \/ AsnSave(w)
  <2>1. \/ Ends(w) \/ Carries(w, "asnSave")
        \/ LegacyWritable /\ (Carries(w, "pickName") \/ Carries(w, "createRing"))
    BY <1>4, AsnGetDoes, AsnSaveDoes DEF AsnGetEffect, AsnSaveEffect
  <2> QED BY <2>1, RolesEnd, RolesOn, Carried
<1>5. CASE PickName(w)
  <2>1. /\ req[w].at = "pickName" /\ Steps(w, "createUser") /\ req'[w].op = req[w].op
        /\ req'[w].org = req[w].org
    BY <1>5, PickNameDoes DEF PickNameEffect, SameNet
  <2> QED BY <1>0, <2>1, RolesOn DEF May
<1>6. CASE PdbCreateUser(w)
  <2>1. /\ req[w].at = "createUser"
        /\ \/ Ends(w)
           \/ /\ Steps(w, "deactivate") \/ Steps(w, "activate")
              /\ req'[w].op = req[w].op /\ req'[w].org = req[w].org
    BY <1>6, CreateUserDoes DEF CreateUserEffect, SameNet
  <2> QED BY <1>0, <2>1, RolesEnd, RolesOn DEF May
<1>7. CASE PdbDeactivate(w)
  <2>1. Ends(w) \/ Carries(w, "queue")
    BY <1>7, DeactivateDoes DEF DeactivateEffect, SaveEffect
  <2> QED BY <2>1, RolesEnd, RolesOn, Carried
<1>8. CASE PdbActivate(w)
  <2>1. /\ req[w].at = "activate"
        /\ Ends(w) \/ Carries(w, IF req[w].op = "login" THEN "createRing" ELSE "token")
    BY <1>8, ActivateDoes DEF ActivateEffect, SaveEffect
  <2>2. req[w].op = "login" => LegacyWritable
    BY <1>0, <2>1 DEF May, Shape
  <2> QED BY <2>1, <2>2, RolesEnd, RolesOn, Carried
<1>9. CASE PdbCreateRing(w)
  <2>1. req[w].at = "createRing"
    BY <1>9 DEF PdbCreateRing, CreateRing, At
  <2>2. CreateRingEffect(w)
    BY <1>9, <2>1, LinkerHolds, CreateRingDoes DEF Linking
  <2>3. Ends(w) \/ (Steps(w, "linkGet") /\ req'[w].op = req[w].op)
    BY <2>2 DEF CreateRingEffect, SameUser
  <2> QED BY <2>3, RolesEnd, RolesOn
<1>10. CASE PdbLinkGet(w) \/ PdbLinkSave(w)
  <2>1. \/ Ends(w) \/ Carries(w, "linkSave") \/ Carries(w, "token")
        \/ Carries(w, "activate") /\ req[w].op # "login"
    BY <1>10, LinkGetDoes, LinkSaveDoes DEF LinkGetEffect, LinkSaveEffect
  <2> QED BY <2>1, RolesEnd, RolesOn, Carried
<1>11. CASE PdbToken(w)
  <2>1. Ends(w) \/ Carries(w, "finish")
    BY <1>11, TokenDoes DEF TokenEffect
  <2> QED BY <2>1, RolesEnd, RolesOn, Carried
<1>12. CASE PdbQueue(w) \/ PdbFinish(w)
  BY <1>12, QueueDoes, FinishDoes, RolesEnd DEF FileEffect
<1>13. CASE PdbRejectUser(w) \/ PdbRejectSignup(w)
  <2>1. Ends(w) \/ Carries(w, "deleteSignup")
    BY <1>13, RejectUserDoes, RejectSignupDoes DEF RejectUserEffect, RejectSignupEffect
  <2> QED BY <2>1, RolesEnd, RolesOn, Carried
<1> QED BY <1>1, <1>2, <1>3, <1>4, <1>5, <1>6, <1>7, <1>8, <1>9, <1>10, <1>11, <1>12, <1>13
        DEF Continue

(* Every action of the handlers keeps Roles.                               *)
LEMMA RolesKept == Inv /\ Roles /\ [BackfillNext]_backfillVars => Roles'
<1> SUFFICES ASSUME Inv, Roles, [BackfillNext]_backfillVars PROVE Roles'
  OBVIOUS
<1>1. CASE UNCHANGED <<req, deployment>>
  BY <1>1, SameSite DEF Roles, May
<1>2. ASSUME NEW w \in Visitor, VisitorBegins(w) PROVE Roles'
  <2>1. PICK pdb \in Pdb, asn \in Asn : LoginEffect(w, pdb, asn)
    BY <1>2, LoginDoes DEF VisitorBegins, Worker
  <2>2. May(w)' /\ (Steps(w, "updateRing") \/ Steps(w, "resolve")) /\ w \in Worker
    BY <2>1, SameSite DEF LoginEffect, Steps, May, Worker
  <2> QED BY <2>2, RolesStep
<1>3. ASSUME NEW w \in Admin, AdminBegins(w) PROVE Roles'
  <2>1. PICK u \in UserId : OpenApprovalEffect(w, u) \/ OpenRejectionEffect(w, u)
    BY <1>3, OpenApprovalDoes, OpenRejectionDoes DEF AdminBegins, Worker
  <2>2. May(w)' /\ (Steps(w, "resolve") \/ Steps(w, "deleteUser")) /\ w \in Worker
    BY <2>1, SameSite DEF OpenApprovalEffect, OpenRejectionEffect, Steps, May, Worker
  <2> QED BY <2>2, RolesStep
<1>4. ASSUME NEW w \in Worker, RequestDies(w) PROVE Roles'
  BY <1>4, DieDoes, RolesEnd DEF DieEffect
<1>5. ASSUME NEW r \in RingId, RingUserDestroyed(r) PROVE UNCHANGED <<req, deployment>>
  BY <1>5 DEF RingUserDestroyed, DestroyRingUser
<1>6. CASE BackfillActs \/ UNCHANGED backfillVars
  <2>1. UNCHANGED <<req, deployment>>
    BY <1>6 DEF BackfillActs, backfillVars, vars, storeVars
  <2> QED BY <1>1, <2>1
<1> QED BY <1>1, <1>2, <1>3, <1>4, <1>5, <1>6, RolesContinue DEF BackfillNext, Accounts, Next

(***************************************************************************)
(* Where the ring database is read-only, no login, approval or backfill    *)
(* writes a ring user or a participant, whatever a request looked up       *)
(* before.                                                                 *)
(***************************************************************************)
THEOREM ReadOnlyHolds == BackfillSpec => ReadOnlyIsRespected
<1>1. BackfillInit => Roles
  <2> SUFFICES ASSUME BackfillInit PROVE Roles
    OBVIOUS
  <2>1. \A w \in Worker : req[w] = Idle
    BY DEF BackfillInit, Init, StoreInit
  <2> QED BY <2>1 DEF Roles, May, Idle
<1>2. Inv /\ Roles /\ [BackfillNext]_backfillVars =>
        [~LegacyWritable => UNCHANGED <<ringUsers, lastRing, orgs>>]_vars
  <2> SUFFICES ASSUME Inv, Roles, BackfillNext, ~LegacyWritable
               PROVE  UNCHANGED <<ringUsers, lastRing, orgs>>
    BY DEF backfillVars
  <2>1. ASSUME NEW w \in Worker, Continue(w) PROVE UNCHANGED <<ringUsers, lastRing, orgs>>
    <3>1. ~PdbCreateRing(w) /\ ~CreateOrg(w)
      BY DEF PdbCreateRing, CreateRing, CreateOrg, At, Roles, May
    <3>2. CASE SyncRing(w)
      BY <3>2 DEF SyncRing, pdbVars
    <3> QED BY <2>1, <3>1, <3>2 DEF Continue, SyncUser, SaveUser, Resolve, AsnGet, AsnSave, PickName,
         PdbCreateUser, CreateUser, PdbDeactivate, PdbQueue, PdbActivate, PdbLinkGet, LinkGet,
         PdbLinkSave, LinkSave, PdbToken, IssueToken, PdbFinish, PdbRejectUser, DeleteUser,
         PdbRejectSignup, pdbVars
  <2>2. ASSUME NEW w \in Visitor, VisitorBegins(w) PROVE UNCHANGED <<ringUsers, lastRing, orgs>>
    BY <2>2 DEF VisitorBegins, Login, pdbVars
  <2>3. ASSUME NEW w \in Admin, AdminBegins(w) PROVE UNCHANGED <<ringUsers, lastRing, orgs>>
    BY <2>3 DEF AdminBegins, OpenPdbApproval, OpenPdbRejection, pdbVars
  <2>4. ASSUME NEW w \in Worker, RequestDies(w) PROVE UNCHANGED <<ringUsers, lastRing, orgs>>
    BY <2>4 DEF RequestDies, Die, pdbVars
  <2>5. ASSUME NEW r \in RingId, RingUserDestroyed(r) PROVE FALSE
    BY <2>5, DestroyDoes DEF DestroyEffect
  <2>6. CASE BackfillActs
    BY <2>6 DEF BackfillActs, storeVars
  <2> QED BY <2>1, <2>2, <2>3, <2>4, <2>5, <2>6 DEF BackfillNext, Accounts, Next
<1> QED BY <1>1, <1>2, InitEstablishesInv, NextKeepsInv, RolesKept, PTL
        DEF BackfillSpec, ReadOnlyIsRespected
=============================================================================
