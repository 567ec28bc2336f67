------------------------------ MODULE PdbLogin ------------------------------
(***************************************************************************)
(* Accounts that come in through PeeringDB (ring/views.py: _pdb_provision, *)
(* _pdb_create_signup, approve_peeringdb_signup, reject_peeringdb_signup;  *)
(* ring/services/profiles.py).  A login carries a PeeringDB user id and a  *)
(* network the user may act for.  A linked identity logs straight in; a    *)
(* network that matches a participant gets an account on the spot; any     *)
(* other is queued for an admin.  Handlers interleave and die as in        *)
(* AccountStore.                                                           *)
(***************************************************************************)
EXTENDS AccountStore

CONSTANTS
  Manages,     \* PeeringDB id -> the ASNs it may act for
  NetOrg,      \* ASN -> the participant named as PeeringDB names the network
  SeedOrgs     \* participants at the start, beside those that own machines

ASSUME PdbAssumption ==
  /\ Manages \in [Pdb -> SUBSET Asn]
  /\ NetOrg \in [Asn -> Org]
  /\ SeedOrgs \subseteq Org
  /\ \A i \in DOMAIN Deployments : /\ Deployments[i].tabs \in BOOLEAN
                                   /\ Deployments[i].machines \in Seq([org: Org, asn: Asn])

VARIABLES
  pdbSignups,  \* PeeringDBSignup, keyed by django_user (one-to-one)
  orgs,        \* Participant rows
  orgAsn       \* ParticipantProfile.autnum, keyed by participant

vars == <<storeVars, pdbSignups, orgs, orgAsn>>
pdbVars == <<pdbSignups, orgs, orgAsn>>

(***************************************************************************)
(* Of the deployment: may one identity log in from two tabs at once?  And  *)
(* the autnum and participant of the machines, in the order of hostnames.  *)
(***************************************************************************)
Tabs == Site.tabs
Machines == Site.machines
HasMachine(o, asn) == \E i \in DOMAIN Machines : Machines[i] = [org |-> o, asn |-> asn]

PdbSignupRow == [pdb: Pdb, asn: Asn, approved: BOOLEAN]

TypeOK ==
  /\ StoreTypeOK
  /\ deployment \in DOMAIN Deployments
  /\ pdbSignups \in Table(UserId, PdbSignupRow)
  /\ orgs \subseteq Org
  /\ orgAsn \in Table(Org, Opt(Asn))

Init ==
  /\ StoreInit
  /\ pdbSignups = << >>
  /\ orgs = SeedOrgs \union {Machines[i].org : i \in DOMAIN Machines}
  /\ orgAsn = << >>

-----------------------------------------------------------------------------
(* Mutant: any participant that has an ASN will do.                        *)
ByAnyAsn(asn) == {o \in DOMAIN orgAsn : orgAsn[o] # None} \intersect orgs
(***************************************************************************)
(* participant_for_pdb: by recorded ASN, else by a machine's ASN, else by  *)
(* the network's name.  At most one participant each.                      *)
(***************************************************************************)
ByAsn(asn) == {o \in DOMAIN orgAsn : orgAsn[o] = asn} \intersect orgs
ByMachine(asn) ==
  {Machines[i].org : i \in {j \in DOMAIN Machines :
     Machines[j].asn = asn /\ \A k \in 1..(j - 1) : Machines[k].asn # asn}} \intersect orgs
ByName(asn) == {NetOrg[asn]} \intersect orgs

ParticipantForPdb(asn) ==
  IF ByAsn(asn) # {} THEN ByAsn(asn)
  ELSE IF ByMachine(asn) # {} THEN ByMachine(asn)
  ELSE ByName(asn)

LinkedTo(pdb) == {u \in DOMAIN profiles : profiles[u].pdb = pdb}
LinkedLive(pdb) == {u \in LinkedTo(pdb) : profiles[u].ring \in DOMAIN ringUsers}

(***************************************************************************)
(* _pdb_provision begins: ring_user_for_pdb finds both rows, or it goes on *)
(* to look for a participant.                                              *)
(***************************************************************************)
Login(w, pdb, asn) ==
  /\ Free(w)
  /\ asn \in Manages[pdb]
  /\ \/ \E u \in LinkedLive(pdb) :
          req' = [req EXCEPT ![w] = [Idle EXCEPT !.op = "login", !.at = "updateRing",
                    !.user = u, !.name = users[u].name, !.active = users[u].active,
                    !.ring = profiles[u].ring, !.row = ringUsers[profiles[u].ring],
                    !.pdb = pdb, !.asn = asn]]
     \/ /\ LinkedLive(pdb) = {}
        /\ req' = [req EXCEPT ![w] = [Idle EXCEPT !.op = "login", !.at = "resolve",
                     !.pdb = pdb, !.asn = asn]]
  /\ UNCHANGED <<users, profiles, tokens, ringUsers, lastUser, lastRing, pdbVars, deployment>>

(***************************************************************************)
(* _pdb_sync_user: the ring user is saved if PeeringDB's email differs.  A *)
(* row that is gone by now is inserted again, unless an approval that was  *)
(* repeated has given its name to another.                                 *)
(***************************************************************************)
SyncRing(w) ==
  LET q == req[w] IN
  /\ At(w, "updateRing")
  /\ \/ /\ Go(w, "sync")
        /\ UNCHANGED ringUsers
     \/ /\ LegacyWritable /\ ~TakenByOther(q.row.name, ringUsers, q.ring)
        /\ ringUsers' = Put(ringUsers, q.ring, q.row)
        /\ Go(w, "sync")
     \/ /\ LegacyWritable /\ TakenByOther(q.row.name, ringUsers, q.ring)
        /\ End(w)
        /\ UNCHANGED ringUsers
  /\ UNCHANGED <<users, profiles, tokens, lastUser, lastRing, pdbVars, deployment>>

(* Then the account is saved, unless PeeringDB gave no name and no news.   *)
SyncUser(w) ==
  \/ /\ SaveUser(w, "sync", req[w].active, "idle")
     /\ UNCHANGED pdbVars
  \/ /\ At(w, "sync")
     /\ End(w)
     /\ UNCHANGED <<users, profiles, tokens, ringUsers, lastUser, lastRing, pdbVars, deployment>>

-----------------------------------------------------------------------------
(* Mutant: an approval goes on without the participant it should create.   *)
ResolveWithoutOrg(w) ==
  LET found == ParticipantForPdb(req[w].asn) IN
  /\ At(w, "resolve")
  /\ \/ \E o \in found : req' = [req EXCEPT ![w].at = "asnGet", ![w].org = o]
     \/ found = {} /\ Go(w, IF req[w].op = "login" THEN "pickName" ELSE "asnGet")
  /\ UNCHANGED <<users, profiles, tokens, ringUsers, lastUser, lastRing, pdbVars, deployment>>

(***************************************************************************)
(* The participant is looked up; a login that finds none goes on to queue  *)
(* a signup, an approval that finds none creates the participant.          *)
(***************************************************************************)
Resolve(w) ==
  LET found == ParticipantForPdb(req[w].asn) IN
  /\ At(w, "resolve")
  /\ \/ \E o \in found : req' = [req EXCEPT ![w].at = "asnGet", ![w].org = o]
     \/ /\ found = {} /\ req[w].op = "login"
        /\ Go(w, "pickName")
     \/ /\ found = {} /\ req[w].op = "pdbApprove"
        /\ IF LegacyWritable THEN Go(w, "createOrg") ELSE End(w)
  /\ UNCHANGED <<users, profiles, tokens, ringUsers, lastUser, lastRing, pdbVars, deployment>>

(* Participant.objects.create, or the participant that got there first.    *)
CreateOrg(w) ==
  /\ At(w, "createOrg")
  /\ orgs' = orgs \union {NetOrg[req[w].asn]}
  /\ req' = [req EXCEPT ![w].at = "asnGet", ![w].org = NetOrg[req[w].asn]]
  /\ UNCHANGED <<users, profiles, tokens, ringUsers, lastUser, lastRing, deployment>>
  /\ UNCHANGED <<pdbSignups, orgAsn>>

(***************************************************************************)
(* set_participant_autnum: get_or_create, then save; autnum is unique.     *)
(***************************************************************************)
AsnGet(w) ==
  /\ At(w, "asnGet")
  /\ orgAsn' = IF req[w].org \in DOMAIN orgAsn THEN orgAsn ELSE Put(orgAsn, req[w].org, None)
  /\ Go(w, "asnSave")
  /\ UNCHANGED <<users, profiles, tokens, ringUsers, lastUser, lastRing, deployment>>
  /\ UNCHANGED <<pdbSignups, orgs>>

(* Mutant: the question whether it may write is turned round.              *)
AfterAsnTurned(w) ==
  IF LegacyWritable THEN End(w)
  ELSE Go(w, IF req[w].op = "login" THEN "pickName" ELSE "createRing")
(* Only now either handler asks whether it may write ring accounts.        *)
AfterAsn(w) ==
  IF ~LegacyWritable THEN End(w)
  ELSE Go(w, IF req[w].op = "login" THEN "pickName" ELSE "createRing")

AsnSave(w) ==
  LET q == req[w]
      taken == \E o \in DOMAIN orgAsn \ {q.org} : orgAsn[o] = q.asn
  IN
  /\ At(w, "asnSave")
  /\ \/ /\ taken
        /\ End(w)
        /\ UNCHANGED orgAsn
     \/ /\ ~taken
        /\ orgAsn' = Put(orgAsn, q.org, q.asn)
        /\ AfterAsn(w)
  /\ UNCHANGED <<users, profiles, tokens, ringUsers, lastUser, lastRing, deployment>>
  /\ UNCHANGED <<pdbSignups, orgs>>

(* Mutant: only the web accounts are asked for the name.                   *)
FreeWebNames == {n \in Name : ~Taken(n, users)}
(***************************************************************************)
(* _pdb_username: the first candidate that neither table has.  Every       *)
(* identity has the same base name here, so candidates collide as much as  *)
(* they can; candidate n is "base-n".                                      *)
(***************************************************************************)
FreeNames == {n \in Name : ~Taken(n, users) /\ ~Taken(n, ringUsers)}

PickName(w) ==
  /\ At(w, "pickName")
  /\ \E n \in FreeNames :
       /\ \A m \in FreeNames : n <= m
       /\ req' = [req EXCEPT ![w].at = "createUser", ![w].name = n]
  /\ UNCHANGED <<users, profiles, tokens, ringUsers, lastUser, lastRing, pdbVars, deployment>>

(* A login that has a participant keeps the account active.                *)
PdbCreateUser(w) ==
  /\ CreateUser(w, IF req[w].org = None THEN "deactivate" ELSE "activate")
  /\ UNCHANGED pdbVars

(* Mutant: is_active = False is forgotten.                                 *)
PdbDeactivateForgotten(w) ==
  /\ SaveUser(w, "deactivate", TRUE, "queue")
  /\ UNCHANGED pdbVars

PdbDeactivate(w) ==
  /\ SaveUser(w, "deactivate", FALSE, "queue")
  /\ UNCHANGED pdbVars

(* PeeringDBSignup.objects.create: peeringdb_id is unique.                 *)
PdbQueue(w) ==
  LET q == req[w]
      mayInsert == /\ q.user \in DOMAIN users
                   /\ \A u \in DOMAIN pdbSignups : pdbSignups[u].pdb # q.pdb
  IN
  /\ At(w, "queue")
  /\ pdbSignups' = IF mayInsert
                   THEN Put(pdbSignups, q.user, [pdb |-> q.pdb, asn |-> q.asn, approved |-> FALSE])
                   ELSE pdbSignups
  /\ End(w)
  /\ UNCHANGED <<users, profiles, tokens, ringUsers, lastUser, lastRing, orgs, orgAsn, deployment>>

(* Mutant: an approval issues no token.                                    *)
PdbActivateToFinish(w) ==
  /\ SaveUser(w, "activate", TRUE, IF req[w].op = "login" THEN "createRing" ELSE "finish")
  /\ UNCHANGED pdbVars

(* user.save() with is_active = True: before the ring user on a login,     *)
(* after the link on an approval.                                          *)
PdbActivate(w) ==
  /\ SaveUser(w, "activate", TRUE, IF req[w].op = "login" THEN "createRing" ELSE "token")
  /\ UNCHANGED pdbVars

PdbCreateRing(w) ==
  /\ CreateRing(w, req[w].name, "linkGet")
  /\ UNCHANGED pdbVars

PdbLinkGet(w) == LinkGet(w) /\ UNCHANGED pdbVars

(* Mutant: the IntegrityError of an identity that another account has is   *)
(* swallowed, and the login goes on.                                       *)
PdbLinkSaveSwallowed(w) ==
  LET next == IF req[w].op = "login" THEN "token" ELSE "activate" IN
  /\ \/ LinkSave(w, next)
     \/ /\ At(w, "linkSave")
        /\ \E u \in DOMAIN profiles \ {req[w].user} : profiles[u].pdb = req[w].pdb
        /\ Go(w, next)
        /\ UNCHANGED <<users, profiles, tokens, ringUsers, lastUser, lastRing, deployment>>
  /\ UNCHANGED pdbVars

PdbLinkSave(w) ==
  /\ LinkSave(w, IF req[w].op = "login" THEN "token" ELSE "activate")
  /\ UNCHANGED pdbVars

PdbToken(w) ==
  /\ IssueToken(w, IF req[w].op = "login" THEN "idle" ELSE "finish")
  /\ UNCHANGED pdbVars

-----------------------------------------------------------------------------
Pending(u) == u \in DOMAIN pdbSignups /\ ~pdbSignups[u].approved

(* approve_peeringdb_signup: the steps above, for the queued account.      *)
OpenPdbApproval(w, u) ==
  /\ Free(w)
  /\ Pending(u)
  /\ req' = [req EXCEPT ![w] = [Idle EXCEPT !.op = "pdbApprove", !.at = "resolve",
               !.user = u, !.name = users[u].name,
               !.pdb = pdbSignups[u].pdb, !.asn = pdbSignups[u].asn]]
  /\ UNCHANGED <<users, profiles, tokens, ringUsers, lastUser, lastRing, pdbVars, deployment>>

PdbFinish(w) ==
  LET q == req[w]
      maySave == /\ q.user \in DOMAIN users
                 /\ \A u \in DOMAIN pdbSignups \ {q.user} : pdbSignups[u].pdb # q.pdb
  IN
  /\ At(w, "finish")
  /\ pdbSignups' = IF maySave
                   THEN Put(pdbSignups, q.user, [pdb |-> q.pdb, asn |-> q.asn, approved |-> TRUE])
                   ELSE pdbSignups
  /\ End(w)
  /\ UNCHANGED <<users, profiles, tokens, ringUsers, lastUser, lastRing, orgs, orgAsn, deployment>>

(* reject_peeringdb_signup.                                                *)
OpenPdbRejection(w, u) ==
  /\ Rejects
  /\ Free(w)
  /\ Pending(u)
  /\ req' = [req EXCEPT ![w] = [Idle EXCEPT !.op = "pdbReject", !.at = "deleteUser", !.user = u]]
  /\ UNCHANGED <<users, profiles, tokens, ringUsers, lastUser, lastRing, pdbVars, deployment>>

PdbRejectUser(w) ==
  /\ DeleteUser(w, "deleteSignup")
  /\ pdbSignups' = Without(pdbSignups, req[w].user)
  /\ UNCHANGED <<orgs, orgAsn>>

PdbRejectSignup(w) ==
  /\ At(w, "deleteSignup")
  /\ pdbSignups' = Without(pdbSignups, req[w].user)
  /\ End(w)
  /\ UNCHANGED <<users, profiles, tokens, ringUsers, lastUser, lastRing, orgs, orgAsn, deployment>>

-----------------------------------------------------------------------------
VisitorBegins(w) ==
  \E pdb \in Pdb, asn \in Asn :
    /\ Tabs \/ \A v \in Worker : req[v].pdb # pdb
    /\ Login(w, pdb, asn)
AdminBegins(w) == \E u \in UserId : OpenPdbApproval(w, u) \/ OpenPdbRejection(w, u)

Continue(w) ==
  \/ SyncRing(w) \/ SyncUser(w)
  \/ Resolve(w) \/ CreateOrg(w) \/ AsnGet(w) \/ AsnSave(w)
  \/ PickName(w) \/ PdbCreateUser(w) \/ PdbDeactivate(w) \/ PdbQueue(w)
  \/ PdbActivate(w) \/ PdbCreateRing(w) \/ PdbLinkGet(w) \/ PdbLinkSave(w)
  \/ PdbToken(w) \/ PdbFinish(w)
  \/ PdbRejectUser(w) \/ PdbRejectSignup(w)

RequestDies(w) == Die(w) /\ UNCHANGED pdbVars
RingUserDestroyed(r) == DestroyRingUser(r) /\ UNCHANGED pdbVars

Next ==
  \/ \E w \in Visitor : VisitorBegins(w)
  \/ \E w \in Admin : AdminBegins(w)
  \/ \E w \in Worker : Continue(w) \/ RequestDies(w)
  \/ \E r \in RingId : RingUserDestroyed(r)

Spec == Init /\ [][Next]_vars

-----------------------------------------------------------------------------
Usable(u) == u \in DOMAIN users /\ users[u].active
Approved(u) == u \in DOMAIN pdbSignups /\ pdbSignups[u].approved
Quiescent == \A w \in Worker : req[w] = Idle
HasLiveRing(u) == u \in DOMAIN profiles /\ profiles[u].ring \in DOMAIN ringUsers

(***************************************************************************)
(* A PeeringDB identity, once linked, stays with its account, and the      *)
(* account with its ring user, while those exist: later logins refresh     *)
(* what _pdb_sync_user may and move nothing, nor do repeated approvals     *)
(* unless ring users are deleted while requests overlap.                   *)
(***************************************************************************)
IdentityKeepsAccount ==
  [][Removable = {} \/ OneWorker =>
     \A u \in DOMAIN profiles \intersect DOMAIN profiles' :
       profiles[u].pdb # None =>
         /\ profiles'[u].pdb = profiles[u].pdb
         /\ HasLiveRing(u) => profiles'[u].ring = profiles[u].ring]_vars

(***************************************************************************)
(* An account opened through PeeringDB belongs to the participant of a     *)
(* network its identity manages, whichever of the recorded ASN, the        *)
(* machines and the name led there, and whoever recorded ASNs meanwhile.   *)
(***************************************************************************)
Fits(o, asn) == HasMachine(o, asn) \/ NetOrg[asn] = o
AccountFitsNetwork ==
  \A u \in DOMAIN profiles :
    profiles[u].pdb # None /\ HasLiveRing(u) =>
      \E asn \in Manages[profiles[u].pdb] : Fits(ringUsers[profiles[u].ring].org, asn)

(***************************************************************************)
(* An approved signup has an active account with that PeeringDB identity   *)
(* and a token: what approve_peeringdb_signup promises when it marks it.   *)
(***************************************************************************)
ApprovedMeansComplete ==
  \A u \in DOMAIN pdbSignups :
    Approved(u) => /\ Usable(u) /\ u \in tokens
                   /\ u \in DOMAIN profiles /\ profiles[u].pdb = pdbSignups[u].pdb

(***************************************************************************)
(* That promise is kept where one worker serves all requests, one after    *)
(* the other, wherever they die and whichever ring users are deleted.      *)
(***************************************************************************)
ApprovedIsComplete == OneWorker => ApprovedMeansComplete

(***************************************************************************)
(* Once its login request is done, a queued account can neither log in nor *)
(* use the API until an admin has approved it, unless a request has died   *)
(* half way.                                                               *)
(***************************************************************************)
PendingIsLocked ==
  ~Faults /\ Quiescent => \A u \in UserId : Pending(u) => ~Usable(u) /\ u \notin tokens

(***************************************************************************)
(* When no request is running, every account that PeeringDB logins opened  *)
(* is linked to an identity or on an admin's list: none is orphaned where  *)
(* every network is known, no identity logs in twice at once, nothing dies *)
(* and no ring user is deleted.  (Otherwise a second login of a pending    *)
(* identity, or two at once, do leave an orphan: see the README.)          *)
(***************************************************************************)
EveryNetworkIsKnown == \A asn \in Asn : \E o \in Org : HasMachine(o, asn)
NoOrphanAccount ==
  EveryNetworkIsKnown /\ ~Tabs /\ ~Faults /\ Removable = {} /\ Quiescent =>
    \A u \in DOMAIN users :
      \/ u \in DOMAIN pdbSignups
      \/ u \in DOMAIN profiles /\ profiles[u].pdb # None

(***************************************************************************)
(* What an orphan can do: nothing.  Wherever requests die, in however many *)
(* tabs an identity logs in, and whichever ring users are deleted, a token *)
(* belongs to an account that is linked to an identity, and an identity    *)
(* has one such account.  (A rejection beside an approval of the same      *)
(* signup may leave a token without a link.)                               *)
(***************************************************************************)
OrphanIsNotServed ==
  ~Rejects \/ OneWorker =>
    /\ \A u \in tokens : u \in DOMAIN profiles /\ profiles[u].pdb # None
    /\ \A u, x \in tokens : profiles[u].pdb = profiles[x].pdb => u = x

(***************************************************************************)
(* An account nobody approved rests on an ASN: its participant owned a     *)
(* machine with an ASN of the identity, or an admin approved that ASN.     *)
(* A mere coincidence of names does not let anyone in.                     *)
(***************************************************************************)
AutoLoginIsAsnGrounded ==
  \A u \in DOMAIN profiles :
    profiles[u].pdb # None /\ HasLiveRing(u) /\ u \notin DOMAIN pdbSignups =>
      \E asn \in Manages[profiles[u].pdb] :
        \/ HasMachine(ringUsers[profiles[u].ring].org, asn)
        \/ \E v \in DOMAIN pdbSignups : Approved(v) /\ pdbSignups[v].asn = asn

(***************************************************************************)
(* Where the ring database is read-only, neither logins nor approvals      *)
(* write ring users or participants.  (The recorded ASNs are in the app's  *)
(* own database: a login that is then blocked has recorded one.)           *)
(***************************************************************************)
ReadOnlyIsRespected ==
  [][~LegacyWritable => UNCHANGED <<ringUsers, lastRing, orgs>>]_vars

(***************************************************************************)
(* An identity that begins to log in with a known network and keeps trying *)
(* ends up linked to a ring user, however logins of others interfere.      *)
(***************************************************************************)
LogsIn(pdb) == \E w \in Worker : req[w].op = "login" /\ req[w].pdb = pdb
IdentityGetsLinked == \A pdb \in Pdb : LogsIn(pdb) ~> LinkedLive(pdb) # {}
=============================================================================
