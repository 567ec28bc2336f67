-------------------------- MODULE PdbPromiseProofs --------------------------
(***************************************************************************)
(* What PeeringDB accounts promise, beyond what PdbProofs proves of them.  *)
(* No promise is inductive; each gets a strengthening of its own:          *)
(*   - History: there is one assignment of participants to ring users and  *)
(*     of identities to accounts that every row, deleted or held in memory,*)
(*     agrees with (for AccountFitsNetwork, and what follows);             *)
(*   - Ownership: an account that is being created is in one request's     *)
(*     hands and in no table but auth_user;                                *)
(*   - Complete: how far an approval by the only worker has got;           *)
(*   - Locked: an account that can log in is not, and will not be, on the  *)
(*     list of those that wait;                                            *)
(*   - Steady: the link that a request is about to set is still free;      *)
(*   - Passed: the participants a backfill has behind it are settled;      *)
(*   - Homes: with known networks, names in auth_user and in ring_users    *)
(*     agree, so that no statement of a login can fail half way;           *)
(*   - Served: a token is still to be issued only to a linked account.     *)
(***************************************************************************)
EXTENDS PdbProofs, FiniteSetTheorems, WellFoundedInduction

(* What one worker may do next, said by the effects of its statements.     *)
Acts(w) ==
  \/ \E pdb \in Pdb, asn \in Asn : LoginEffect(w, pdb, asn)
  \/ \E u \in UserId : OpenApprovalEffect(w, u)
  \/ \E u \in UserId : OpenRejectionEffect(w, u)
  \/ SyncRingEffect(w)
  \/ SyncUserEffect(w)
  \/ ResolveEffect(w)
  \/ CreateOrgEffect(w)
  \/ AsnGetEffect(w)
  \/ AsnSaveEffect(w)
  \/ PickNameEffect(w)
  \/ CreateUserEffect(w)
  \/ DeactivateEffect(w)
  \/ ActivateEffect(w)
  \/ FileEffect(w, "queue", FALSE)
  \/ FileEffect(w, "finish", TRUE)
  \/ CreateRingEffect(w)
  \/ LinkGetEffect(w)
  \/ LinkSaveEffect(w)
  \/ TokenEffect(w)
  \/ RejectUserEffect(w)
  \/ RejectSignupEffect(w)
  \/ DieEffect(w)

(* A request that goes on is at a statement.                               *)
LEMMA ContinueIsBusy ==
  ASSUME NEW w \in Worker, Continue(w)
  PROVE  req[w].at # "idle"
BY DEF Continue, SyncRing, SyncUser, SaveUser, Resolve, CreateOrg, AsnGet, AsnSave, PickName,
   PdbCreateUser, CreateUser, PdbDeactivate, PdbQueue, PdbActivate, PdbCreateRing, CreateRing,
   PdbLinkGet, LinkGet, PdbLinkSave, LinkSave, PdbToken, IssueToken, PdbFinish, PdbRejectUser,
   DeleteUser, PdbRejectSignup, At

(* A step of a worker begins no login, or one whose identity no other has. *)
LEMMA NextBegins ==
  ASSUME Inv, [BackfillNext]_backfillVars
  PROVE  \/ UNCHANGED <<req, deployment, tables, orgs>>
         \/ \E w \in Worker : Acts(w) /\ req[w].at # "idle"
         \/ \E w \in Worker : Acts(w) /\ req'[w].op # "login"
         \/ \E w \in Worker, pdb \in Pdb, asn \in Asn :
              LoginEffect(w, pdb, asn) /\ (Tabs \/ \A v \in Worker : req[v].pdb # pdb)
         \/ \E r \in RingId : DestroyEffect(r)
<1>1. CASE UNCHANGED backfillVars \/ BackfillActs
  BY <1>1 DEF backfillVars, vars, storeVars, BackfillActs, tables
<1>2. ASSUME NEW w \in Visitor, VisitorBegins(w)
      PROVE  \E v \in Worker, pdb \in Pdb, asn \in Asn :
               LoginEffect(v, pdb, asn) /\ (Tabs \/ \A x \in Worker : req[x].pdb # pdb)
  <2>1. PICK pdb \in Pdb, asn \in Asn :
          Login(w, pdb, asn) /\ (Tabs \/ \A x \in Worker : req[x].pdb # pdb)
    BY <1>2 DEF VisitorBegins
  <2> QED BY <2>1, LoginDoes DEF Worker
<1>3. ASSUME NEW w \in Admin, AdminBegins(w)
      PROVE  w \in Worker /\ Acts(w) /\ req'[w].op # "login"
  <2>1. PICK u \in UserId : OpenPdbApproval(w, u) \/ OpenPdbRejection(w, u)
    BY <1>3 DEF AdminBegins
  <2>2. w \in Worker /\ (OpenApprovalEffect(w, u) \/ OpenRejectionEffect(w, u))
    BY <2>1, OpenApprovalDoes, OpenRejectionDoes DEF Worker
  <2>3. Acts(w)
    BY <2>2 DEF Acts
  <2>4. req'[w].op # "login"
    BY <2>2 DEF OpenApprovalEffect, OpenRejectionEffect
  <2> QED BY <2>2, <2>3, <2>4
<1>4. ASSUME NEW w \in Worker, Continue(w) PROVE Acts(w) /\ req[w].at # "idle"
  <2>1. CASE CreateOrg(w)
    <3>1. req[w].asn \in Asn
      BY <2>1, Actor DEF CreateOrg, At, Shape, HasNet, LoginStep, RejectStep
    <3> QED BY <1>4, <2>1, <3>1, CreateOrgDoes, ContinueIsBusy DEF Acts
  <2>2. CASE PdbCreateRing(w)
    <3>1. req[w].at = "createRing"
      BY <2>2 DEF PdbCreateRing, CreateRing, At
    <3> QED BY <2>2, <3>1, LinkerHolds, CreateRingDoes DEF Linking, Acts
  <2> QED BY <1>4, <2>1, <2>2, SyncRingDoes, SyncUserDoes, ResolveDoes, AsnGetDoes, AsnSaveDoes,
       PickNameDoes, CreateUserDoes, DeactivateDoes, ActivateDoes, QueueDoes, FinishDoes,
       LinkGetDoes, LinkSaveDoes, TokenDoes, RejectUserDoes, RejectSignupDoes, ContinueIsBusy
       DEF Continue, Acts
<1>5. ASSUME NEW w \in Worker, RequestDies(w) PROVE Acts(w) /\ req'[w].op # "login"
  <2>1. DieEffect(w)
    BY <1>5, DieDoes
  <2>2. req'[w].op # "login"
    BY <2>1 DEF DieEffect, Ends, Idle
  <2> QED BY <2>1, <2>2 DEF Acts
<1> QED BY <1>1, <1>2, <1>3, <1>4, <1>5, DestroyDoes DEF BackfillNext, Accounts, Next

(* A step is one of those, or deletes a ring user, or has nothing to do    *)
(* with accounts.                                                          *)
LEMMA NextActs ==
  ASSUME Inv, [BackfillNext]_backfillVars
  PROVE  \/ UNCHANGED <<req, deployment, tables, orgs>>
         \/ \E w \in Worker : Acts(w)
         \/ \E r \in RingId : DestroyEffect(r)
BY NextBegins DEF Acts

-----------------------------------------------------------------------------
(* Which handler is at which statement.                                    *)
LEMMA HandlerAt ==
  ASSUME Inv, NEW w \in Worker
  PROVE  LET q == req[w] IN
         /\ q.at \in {"updateRing", "sync", "pickName", "createUser", "deactivate", "queue"}
              => q.op = "login"
         /\ q.at \in {"createOrg", "finish"} => q.op = "pdbApprove"
         /\ q.at \in {"deleteUser", "deleteSignup"} => q.op = "pdbReject"
         /\ q.at \in {"resolve", "asnGet", "asnSave", "createRing", "linkGet", "linkSave",
                      "activate", "token"} => q.op \in {"login", "pdbApprove"}
         /\ q.op = "idle" <=> q.at = "idle"
<1>1. Shape(req[w])
  BY Actor
<1> QED BY <1>1 DEF Shape, LoginStep, ApproveStep, RejectStep

(***************************************************************************)
(* The invariant History says that some things never change: F is what the *)
(* ring user of each key was when it was created, A the name and identity  *)
(* that each account was created for.                                      *)
(***************************************************************************)
Handles(q) == HasUser(q) /\ q.op # "pdbReject"
Remembered(q, F, A) ==
  /\ q.at = "updateRing" => q.row = F[q.ring]
  /\ q.at \in {"linkGet", "linkSave"} => F[q.ring].org = q.org /\ F[q.ring].name = q.name
  /\ Handles(q) => q.name = A[q.user].name /\ q.pdb = A[q.user].pdb
Leads(o, pdb) == \E asn \in Manages[pdb] : Fits(o, asn)
RowsAre(F) == \A r \in DOMAIN ringUsers : ringUsers[r] = F[r]
AccountsAre(A) ==
  /\ \A u \in DOMAIN users : users[u].name = A[u].name
  /\ \A u \in DOMAIN pdbSignups : pdbSignups[u].pdb = A[u].pdb
LinksAre(F, A) ==
  \A u \in DOMAIN profiles :
    /\ F[profiles[u].ring].name = A[u].name
    /\ profiles[u].pdb # None => /\ profiles[u].pdb = A[u].pdb
                                 /\ Leads(F[profiles[u].ring].org, profiles[u].pdb)
RequestsAre(F, A) == \A w \in Worker : Remembered(req[w], F, A)
Facts(F, A) == RowsAre(F) /\ AccountsAre(A) /\ LinksAre(F, A) /\ RequestsAre(F, A)
History == \E F, A : Facts(F, A)

(* What was fitting once is.                                               *)
LEMMA SameLeads ==
  ASSUME UNCHANGED deployment
  PROVE  \A o, pdb : Leads(o, pdb)' <=> Leads(o, pdb)
BY SameSite DEF Leads

(* A step of one request adds to History only what it holds after it.      *)
LEMMA RequestsStep ==
  ASSUME NEW F, NEW A, RequestsAre(F, A), NEW w \in Worker, NEW step, Steps(w, step),
         Remembered(req'[w], F, A)
  PROVE  RequestsAre(F, A)'
BY DEF RequestsAre, Steps, Remembered, Handles, HasUser

(* An idle worker remembers nothing.                                       *)
LEMMA EndRemembers ==
  ASSUME NEW F, NEW A, NEW w \in Worker, Ends(w)
  PROVE  Remembered(req'[w], F, A)
BY DEF Ends, Idle, Remembered, Handles, HasUser

(* A request that goes on with the same account and ring user remembers    *)
(* the same.                                                               *)
LEMMA GoRemembers ==
  ASSUME Inv, NEW F, NEW A, RequestsAre(F, A), NEW w \in Worker, NEW step, Steps(w, step),
         SameUser(req[w], req'[w]), req'[w].pdb = req[w].pdb, step # "updateRing",
         step \in {"linkGet", "linkSave"} =>
           /\ req[w].at \in {"linkGet", "linkSave"}
           /\ req'[w].ring = req[w].ring /\ req'[w].org = req[w].org,
         req[w].op = "login" /\ (Looking(req[w].at) \/ req[w].at = "createUser")
           => Looking(step)
  PROVE  Remembered(req'[w], F, A)
<1>1. Remembered(req[w], F, A)
  BY DEF RequestsAre
<1>2. Handles(req'[w]) => Handles(req[w])
  BY DEF Handles, HasUser, SameUser, Steps, Looking
<1> QED BY <1>1, <1>2 DEF Remembered, Steps, SameUser

(* One that carries on holds all it held.                                  *)
LEMMA CarryRemembers ==
  ASSUME Inv, NEW F, NEW A, RequestsAre(F, A), NEW w \in Worker, NEW step, Carries(w, step),
         step # "updateRing",
         step \in {"linkGet", "linkSave"} => req[w].at \in {"linkGet", "linkSave"},
         req[w].op = "login" /\ (Looking(req[w].at) \/ req[w].at = "createUser")
           => Looking(step)
  PROVE  Remembered(req'[w], F, A)
BY Carried, GoRemembers DEF Carries, Alike

(* Nothing that History speaks of was written.                             *)
LEMMA TablesRemember ==
  ASSUME NEW F, NEW A, Facts(F, A), UNCHANGED <<users, profiles, ringUsers, pdbSignups, deployment>>
  PROVE  RowsAre(F)' /\ AccountsAre(A)' /\ LinksAre(F, A)'
BY SameLeads DEF Facts, RowsAre, AccountsAre, LinksAre

-----------------------------------------------------------------------------
(* The tables do not change, and the request remembers.                    *)
LEMMA QuietHistory ==
  ASSUME NEW F, NEW A, Facts(F, A), NEW w \in Worker, NEW step, Steps(w, step),
         UNCHANGED <<users, profiles, ringUsers, pdbSignups>>, Remembered(req'[w], F, A)
  PROVE  Facts(F, A)'
BY TablesRemember, RequestsStep DEF Facts, Steps

(* A request ends that wrote nothing of this.                              *)
LEMMA EndHistory ==
  ASSUME NEW F, NEW A, Facts(F, A), NEW w \in Worker, Ends(w),
         UNCHANGED <<users, profiles, ringUsers, pdbSignups>>
  PROVE  Facts(F, A)'
BY EndRemembers, QuietHistory DEF Ends

(* The beginning of a request copies what History knows.                   *)
LEMMA OpeningHistory ==
  ASSUME Inv, NEW F, NEW A, Facts(F, A), NEW w \in Worker,
         \/ \E pdb \in Pdb, asn \in Asn : LoginEffect(w, pdb, asn)
         \/ \E u \in UserId : OpenApprovalEffect(w, u)
         \/ \E u \in UserId : OpenRejectionEffect(w, u)
  PROVE  Facts(F, A)'
<1>1. ASSUME NEW pdb \in Pdb, NEW asn \in Asn, LoginEffect(w, pdb, asn) PROVE Facts(F, A)'
  <2>1. UNCHANGED <<users, profiles, ringUsers, pdbSignups>>
    BY <1>1 DEF LoginEffect, tables
  <2>2. CASE Steps(w, "resolve")
    <3>1. Remembered(req'[w], F, A)
      BY <1>1, <2>2 DEF LoginEffect, Steps, Remembered, Handles, HasUser, Looking
    <3> QED BY <2>1, <2>2, <3>1, QuietHistory
  <2>3. CASE ~Steps(w, "resolve")
    <3> DEFINE q == req'[w]
    <3>1. /\ Steps(w, "updateRing") /\ q.op = "login" /\ q.pdb = pdb
          /\ q.user \in LinkedLive(pdb) /\ q.user \in DOMAIN users
          /\ q.name = users[q.user].name
          /\ q.ring = profiles[q.user].ring /\ q.row = ringUsers[q.ring]
      BY <1>1, <2>3 DEF LoginEffect
    <3>2. /\ q.user \in DOMAIN profiles /\ profiles[q.user].pdb = pdb
          /\ q.ring \in DOMAIN ringUsers
      BY <3>1 DEF LinkedLive, LinkedTo
    <3>3. pdb # None
      BY StoreAssumption
    <3>4. q.row = F[q.ring] /\ q.name = A[q.user].name /\ q.pdb = A[q.user].pdb
      BY <3>1, <3>2, <3>3 DEF Facts, RowsAre, AccountsAre, LinksAre
    <3>5. Remembered(q, F, A)
      BY <3>1, <3>4 DEF Remembered, Steps
    <3> QED BY <2>1, <3>1, <3>5, QuietHistory
  <2> QED BY <2>2, <2>3
<1>2. ASSUME NEW u \in UserId, OpenApprovalEffect(w, u) PROVE Facts(F, A)'
  <2>1. /\ UNCHANGED <<users, profiles, ringUsers, pdbSignups>> /\ Steps(w, "resolve")
        /\ u \in DOMAIN users /\ u \in DOMAIN pdbSignups
    BY <1>2 DEF OpenApprovalEffect, tables, Pending
  <2>2. req'[w].name = A[u].name /\ req'[w].pdb = A[u].pdb /\ req'[w].user = u
    BY <1>2, <2>1 DEF OpenApprovalEffect, Facts, AccountsAre
  <2>3. Remembered(req'[w], F, A)
    BY <2>1, <2>2 DEF Remembered, Steps
  <2> QED BY <2>1, <2>3, QuietHistory
<1>3. ASSUME NEW u \in UserId, OpenRejectionEffect(w, u) PROVE Facts(F, A)'
  <2>1. /\ UNCHANGED <<users, profiles, ringUsers, pdbSignups>> /\ Steps(w, "deleteUser")
        /\ req'[w].op = "pdbReject"
    BY <1>3 DEF OpenRejectionEffect, tables
  <2>2. Remembered(req'[w], F, A)
    BY <2>1 DEF Remembered, Steps, Handles
  <2> QED BY <2>1, <2>2, QuietHistory
<1> QED BY <1>1, <1>2, <1>3

(* The lookups, the participant and its ASN leave accounts alone.          *)
LEMMA LookupHistory ==
  ASSUME Inv, NEW F, NEW A, Facts(F, A), NEW w \in Worker,
         \/ ResolveEffect(w) \/ CreateOrgEffect(w) \/ AsnGetEffect(w) \/ AsnSaveEffect(w)
         \/ PickNameEffect(w) \/ TokenEffect(w) \/ DieEffect(w)
  PROVE  Facts(F, A)'
<1>1. RequestsAre(F, A)
  BY DEF Facts
<1>2. CASE ResolveEffect(w)
  <2>1. UNCHANGED <<users, profiles, ringUsers, pdbSignups>> /\ req[w].at = "resolve"
    BY <1>2 DEF ResolveEffect, tables
  <2>2. CASE Ends(w)
    BY <2>1, <2>2, EndHistory
  <2>3. CASE Steps(w, "asnGet") /\ SameUser(req[w], req'[w]) /\ req'[w].pdb = req[w].pdb
    BY <1>1, <2>1, <2>3, GoRemembers, QuietHistory DEF Looking
  <2>4. CASE req[w].op = "login" /\ Carries(w, "pickName")
    BY <1>1, <2>1, <2>4, CarryRemembers, QuietHistory DEF Looking, Carries
  <2>5. CASE req[w].op = "pdbApprove" /\ Carries(w, "createOrg")
    BY <1>1, <2>1, <2>5, CarryRemembers, QuietHistory DEF Carries
  <2> QED BY <1>2, <2>2, <2>3, <2>4, <2>5 DEF ResolveEffect
<1>3. CASE CreateOrgEffect(w)
  <2>1. /\ UNCHANGED <<users, profiles, ringUsers, pdbSignups>>
        /\ Steps(w, "asnGet") /\ SameUser(req[w], req'[w]) /\ req'[w].pdb = req[w].pdb
    BY <1>3 DEF CreateOrgEffect, tables
  <2> QED BY <1>1, <2>1, GoRemembers, QuietHistory DEF Looking
<1>4. CASE AsnGetEffect(w)
  <2>1. UNCHANGED <<users, profiles, ringUsers, pdbSignups>> /\ Carries(w, "asnSave")
    BY <1>4 DEF AsnGetEffect, tables
  <2> QED BY <1>1, <2>1, CarryRemembers, QuietHistory DEF Looking, Carries
<1>5. CASE AsnSaveEffect(w)
  <2>1. /\ UNCHANGED <<users, profiles, ringUsers, pdbSignups>>
        /\ \/ Ends(w)
           \/ Carries(w, "pickName")
           \/ req[w].op # "login" /\ Carries(w, "createRing")
    BY <1>5 DEF AsnSaveEffect, tables
  <2> QED BY <1>1, <2>1, EndHistory, CarryRemembers, QuietHistory DEF Looking, Carries
<1>6. CASE PickNameEffect(w)
  <2>1. /\ UNCHANGED <<users, profiles, ringUsers, pdbSignups>>
        /\ req[w].at = "pickName" /\ Steps(w, "createUser") /\ req'[w].op = req[w].op
    BY <1>6 DEF PickNameEffect, tables
  <2>2. req[w].op = "login"
    BY <2>1, HandlerAt
  <2>3. Remembered(req'[w], F, A)
    BY <2>1, <2>2 DEF Remembered, Handles, HasUser, Steps
  <2> QED BY <2>1, <2>3, QuietHistory
<1>7. CASE TokenEffect(w)
  <2>1. /\ UNCHANGED <<users, profiles, ringUsers, pdbSignups>> /\ req[w].at = "token"
        /\ Ends(w) \/ Carries(w, "finish")
    BY <1>7 DEF TokenEffect
  <2> QED BY <1>1, <2>1, EndHistory, CarryRemembers, QuietHistory DEF Looking, Carries
<1>8. CASE DieEffect(w)
  BY <1>8, EndHistory DEF DieEffect, tables
<1> QED BY <1>2, <1>3, <1>4, <1>5, <1>6, <1>7, <1>8

(* A saved account keeps its name, a saved ring user its row.              *)
LEMMA SaveHistory ==
  ASSUME Inv, NEW F, NEW A, Facts(F, A), NEW w \in Worker,
         SyncRingEffect(w) \/ SyncUserEffect(w) \/ DeactivateEffect(w) \/ ActivateEffect(w)
  PROVE  Facts(F, A)'
<1>1. RequestsAre(F, A) /\ Remembered(req[w], F, A) /\ RowsAre(F) /\ AccountsAre(A) /\ LinksAre(F, A)
  BY DEF Facts, RequestsAre
<1>2. CASE SyncRingEffect(w)
  <2>1. /\ req[w].at = "updateRing" /\ UNCHANGED <<users, profiles, pdbSignups>>
        /\ Ends(w) \/ Carries(w, "sync")
    BY <1>2 DEF SyncRingEffect
  <2>2. UNCHANGED deployment
    BY <2>1 DEF Ends, Carries, Steps
  <2>3. RowsAre(F)'
    BY <1>1, <1>2, <2>1 DEF SyncRingEffect, RowsAre, Remembered, Wrote
  <2>4. AccountsAre(A)' /\ LinksAre(F, A)'
    BY <1>1, <2>1, <2>2, SameLeads DEF AccountsAre, LinksAre
  <2>5. RequestsAre(F, A)'
    <3>1. CASE Ends(w)
      BY <1>1, <3>1, EndRemembers, RequestsStep DEF Ends
    <3>2. CASE Carries(w, "sync")
      BY <1>1, <2>1, <3>2, CarryRemembers, RequestsStep DEF Looking, Carries
    <3> QED BY <2>1, <3>1, <3>2
  <2> QED BY <2>3, <2>4, <2>5 DEF Facts
<1>3. CASE SyncUserEffect(w) \/ DeactivateEffect(w) \/ ActivateEffect(w)
  <2>1. /\ UNCHANGED <<profiles, ringUsers, pdbSignups>>
        /\ req[w].at \in {"sync", "deactivate", "activate"}
        /\ \/ Ends(w)
           \/ \E step \in {"queue", "createRing", "token"} : Carries(w, step)
        /\ \/ UNCHANGED users
           \/ \E active \in BOOLEAN :
                Wrote(users, users', req[w].user, [name |-> req[w].name, active |-> active])
    <3>1. req[w].active \in BOOLEAN
      BY Actor DEF Request
    <3> QED BY <1>3, <3>1 DEF SyncUserEffect, DeactivateEffect, ActivateEffect, SaveEffect
  <2>2. Handles(req[w])
    BY <2>1, HandlerAt DEF Handles, HasUser, Looking
  <2>3. AccountsAre(A)'
    <3>1. req[w].name = A[req[w].user].name
      BY <1>1, <2>2 DEF Remembered
    <3>2. CASE UNCHANGED users
      BY <1>1, <2>1, <3>2 DEF AccountsAre
    <3>3. ASSUME NEW active \in BOOLEAN,
                 Wrote(users, users', req[w].user, [name |-> req[w].name, active |-> active])
          PROVE  AccountsAre(A)'
      <4>1. /\ users'[req[w].user].name = req[w].name
            /\ \A u \in DOMAIN users' : u = req[w].user \/ (u \in DOMAIN users /\ users'[u] = users[u])
        BY <3>3 DEF Wrote
      <4> QED BY <1>1, <2>1, <3>1, <4>1 DEF AccountsAre
    <3> QED BY <2>1, <3>2, <3>3
  <2>4. UNCHANGED deployment
    BY <2>1 DEF Ends, Carries, Steps
  <2>5. RowsAre(F)' /\ LinksAre(F, A)'
    BY <1>1, <2>1, <2>4, SameLeads DEF RowsAre, LinksAre
  <2>6. RequestsAre(F, A)'
    <3>1. CASE Ends(w)
      BY <1>1, <3>1, EndRemembers, RequestsStep DEF Ends
    <3>2. ASSUME NEW step \in {"queue", "createRing", "token"}, Carries(w, step)
          PROVE  RequestsAre(F, A)'
      <4>1. Remembered(req'[w], F, A)
        BY <1>1, <2>1, <3>2, CarryRemembers DEF Looking
      <4> QED BY <1>1, <3>2, <4>1, RequestsStep DEF Carries
    <3> QED BY <2>1, <3>1, <3>2
  <2> QED BY <2>3, <2>5, <2>6 DEF Facts
<1> QED BY <1>2, <1>3

(* A request on file carries the identity of its account.                  *)
LEMMA FileHistory ==
  ASSUME Inv, NEW F, NEW A, Facts(F, A), NEW w \in Worker,
         FileEffect(w, "queue", FALSE) \/ FileEffect(w, "finish", TRUE)
  PROVE  Facts(F, A)'
<1>1. /\ UNCHANGED <<users, profiles, ringUsers>> /\ Ends(w) /\ req[w].at \in {"queue", "finish"}
      /\ \/ UNCHANGED pdbSignups
         \/ \E done \in BOOLEAN : Wrote(pdbSignups, pdbSignups', req[w].user, SignupRowOf(w, done))
  BY DEF FileEffect
<1>2. CASE UNCHANGED pdbSignups
  BY <1>1, <1>2, EndHistory
<1>3. ASSUME NEW done \in BOOLEAN,
             Wrote(pdbSignups, pdbSignups', req[w].user, SignupRowOf(w, done))
      PROVE  Facts(F, A)'
  <2>1. Handles(req[w])
    BY <1>1, HandlerAt DEF Handles, HasUser, Looking
  <2>2. req[w].pdb = A[req[w].user].pdb
    BY <2>1 DEF Facts, RequestsAre, Remembered
  <2>3. pdbSignups'[req[w].user].pdb = req[w].pdb
    BY <1>3 DEF Wrote, SignupRowOf
  <2>4. \A u \in DOMAIN pdbSignups' : u = req[w].user \/ (u \in DOMAIN pdbSignups /\ pdbSignups'[u] = pdbSignups[u])
    BY <1>3 DEF Wrote
  <2>5. AccountsAre(A)'
    BY <1>1, <2>2, <2>3, <2>4 DEF Facts, AccountsAre
  <2>6. RowsAre(F)' /\ LinksAre(F, A)'
    BY <1>1, SameLeads DEF Facts, RowsAre, LinksAre, Ends, Steps
  <2>7. RequestsAre(F, A)'
    BY <1>1, EndRemembers, RequestsStep DEF Facts, Ends
  <2> QED BY <2>5, <2>6, <2>7 DEF Facts
<1> QED BY <1>1, <1>2, <1>3

(* A link joins what was created for the same name, and fits.              *)
LEMMA LinkHistory ==
  ASSUME Inv, NEW F, NEW A, Facts(F, A), NEW w \in Worker,
         LinkGetEffect(w) \/ LinkSaveEffect(w)
  PROVE  Facts(F, A)'
<1>1. /\ UNCHANGED <<users, ringUsers, pdbSignups>>
      /\ req[w].at \in {"linkGet", "linkSave"}
      /\ \/ UNCHANGED profiles
         \/ \E p \in {None, req[w].pdb} :
              Wrote(profiles, profiles', req[w].user, [ring |-> req[w].ring, pdb |-> p])
      /\ Ends(w) \/ \E step \in {"linkSave", "token", "activate"} : Carries(w, step)
  BY DEF LinkGetEffect, LinkSaveEffect
<1>2. /\ HasUser(req[w]) /\ req[w].op # "pdbReject"
      /\ req[w].pdb # None /\ req[w].asn \in Manages[req[w].pdb] /\ Fits(req[w].org, req[w].asn)
  BY <1>1, LinkerHolds DEF Linking
<1>3. /\ req[w].name = A[req[w].user].name /\ req[w].pdb = A[req[w].user].pdb
      /\ F[req[w].ring].org = req[w].org /\ F[req[w].ring].name = req[w].name
  BY <1>1, <1>2 DEF Facts, RequestsAre, Remembered, Handles
<1>4. Leads(F[req[w].ring].org, req[w].pdb)
  BY <1>2, <1>3 DEF Leads
<1>5. UNCHANGED deployment
  BY <1>1 DEF Ends, Carries, Steps
<1>6. LinksAre(F, A)'
  <2>1. CASE UNCHANGED profiles
    BY <1>5, <2>1, SameLeads DEF Facts, LinksAre
  <2>2. ASSUME NEW p \in {None, req[w].pdb},
               Wrote(profiles, profiles', req[w].user, [ring |-> req[w].ring, pdb |-> p])
        PROVE  LinksAre(F, A)'
    <3>1. profiles'[req[w].user].ring = req[w].ring /\ profiles'[req[w].user].pdb = p
      BY <2>2 DEF Wrote
    <3>2. \A u \in DOMAIN profiles' :
            u = req[w].user \/ (u \in DOMAIN profiles /\ profiles'[u] = profiles[u])
      BY <2>2 DEF Wrote
    <3>3. LinksAre(F, A)
      BY DEF Facts
    <3> QED BY <1>3, <1>4, <1>5, <3>1, <3>2, <3>3, SameLeads DEF LinksAre
  <2> QED BY <1>1, <2>1, <2>2
<1>7. RowsAre(F)' /\ AccountsAre(A)'
  BY <1>1 DEF Facts, RowsAre, AccountsAre
<1>8. RequestsAre(F, A)'
  <2>1. CASE Ends(w)
    BY <2>1, EndRemembers, RequestsStep DEF Ends, Facts
  <2>2. ASSUME NEW step \in {"linkSave", "token", "activate"}, Carries(w, step)
        PROVE  RequestsAre(F, A)'
    <3>1. Remembered(req'[w], F, A)
      BY <1>1, <2>2, CarryRemembers DEF Looking, Facts
    <3> QED BY <2>2, <3>1, RequestsStep DEF Carries, Facts
  <2> QED BY <1>1, <2>1, <2>2
<1> QED BY <1>6, <1>7, <1>8 DEF Facts

(* What is deleted need not be remembered.                                 *)
LEMMA EraseHistory ==
  ASSUME Inv, NEW F, NEW A, Facts(F, A),
         \/ \E w \in Worker : RejectUserEffect(w) \/ RejectSignupEffect(w)
         \/ \E r \in RingId : DestroyEffect(r)
  PROVE  Facts(F, A)'
<1>1. ASSUME NEW r \in RingId, DestroyEffect(r) PROVE Facts(F, A)'
  <2>1. UNCHANGED <<req, deployment, users, profiles, pdbSignups>>
    BY <1>1 DEF DestroyEffect
  <2>2. RowsAre(F)'
    BY <1>1 DEF DestroyEffect, Erased, Facts, RowsAre
  <2> QED BY <2>1, <2>2, SameLeads
          DEF Facts, AccountsAre, LinksAre, RequestsAre, Remembered, Handles, HasUser
<1>2. ASSUME NEW w \in Worker, RejectUserEffect(w) \/ RejectSignupEffect(w) PROVE Facts(F, A)'
  <2>1. /\ req[w].at \in {"deleteUser", "deleteSignup"} /\ UNCHANGED ringUsers
        /\ Ends(w) \/ Carries(w, "deleteSignup")
        /\ \A u \in DOMAIN users' : u \in DOMAIN users /\ users'[u] = users[u]
        /\ \A u \in DOMAIN profiles' : u \in DOMAIN profiles /\ profiles'[u] = profiles[u]
        /\ \A u \in DOMAIN pdbSignups' : u \in DOMAIN pdbSignups /\ pdbSignups'[u] = pdbSignups[u]
    BY <1>2 DEF RejectUserEffect, RejectSignupEffect, Erased
  <2>2. UNCHANGED deployment
    BY <2>1 DEF Ends, Carries, Steps
  <2>3. RowsAre(F)' /\ AccountsAre(A)'
    BY <2>1 DEF Facts, RowsAre, AccountsAre
  <2>4. LinksAre(F, A)'
    BY <2>1, <2>2, SameLeads DEF Facts, LinksAre
  <2>5. RequestsAre(F, A)'
    <3>1. CASE Ends(w)
      BY <3>1, EndRemembers, RequestsStep DEF Ends, Facts
    <3>2. CASE Carries(w, "deleteSignup")
      <4>1. Remembered(req'[w], F, A)
        BY <2>1, <3>2, HandlerAt, CarryRemembers DEF Looking, Facts
      <4> QED BY <3>2, <4>1, RequestsStep DEF Carries, Facts
    <3> QED BY <2>1, <3>1, <3>2
  <2> QED BY <2>3, <2>4, <2>5 DEF Facts
<1> QED BY <1>1, <1>2

(* A new account adds what it was created for.                             *)
LEMMA CreateUserHistory ==
  ASSUME Inv, NEW F, NEW A, Facts(F, A), NEW w \in Worker, CreateUserEffect(w)
  PROVE  \E B : Facts(F, B)'
<1>1. /\ req[w].at = "createUser" /\ UNCHANGED <<profiles, ringUsers, pdbSignups>>
  BY DEF CreateUserEffect
<1>2. CASE Ends(w) /\ UNCHANGED users
  BY <1>1, <1>2, EndHistory
<1>3. CASE ~(Ends(w) /\ UNCHANGED users)
  <2> DEFINE n == lastUser + 1
             row == [name |-> req[w].name, active |-> TRUE]
  <2>1. /\ Steps(w, "deactivate") \/ Steps(w, "activate")
        /\ req'[w].user = n /\ req'[w].name = req[w].name /\ req'[w].pdb = req[w].pdb
        /\ Wrote(users, users', n, row)
    BY <1>3 DEF CreateUserEffect, SameNet
  <2>2. lastUser \in Nat /\ n \in Nat /\ n > lastUser
    BY Actor
  <2>0. PICK B : B = [u \in Nat |-> IF u = n THEN [name |-> req[w].name, pdb |-> req[w].pdb]
                                   ELSE A[u]]
    OBVIOUS
  <2>3. B[n].name = req[w].name /\ B[n].pdb = req[w].pdb /\ \A u \in Nat : u <= lastUser => B[u] = A[u]
    BY <2>0, <2>2
  <2> HIDE DEF n
  <2>4. \A u \in UserId : u \in Nat
    BY StoreAssumption DEF UserId
  <2>5. /\ \A u \in DOMAIN users : u \in Nat /\ u <= lastUser
        /\ \A u \in DOMAIN profiles : u \in DOMAIN users
        /\ \A u \in DOMAIN pdbSignups : u \in DOMAIN users
    BY <2>4, TablesTyped, UserRows DEF Referential
  <2>6. \A v \in Worker : HasUser(req[v]) => req[v].user \in Nat /\ req[v].user <= lastUser
    BY <2>4, Actor DEF Shape
  <2>7. AccountsAre(B)'
    <3>1. /\ users'[n].name = req[w].name
          /\ \A u \in DOMAIN users' : u = n \/ (u \in DOMAIN users /\ users'[u] = users[u])
      BY <2>1 DEF Wrote
    <3> QED BY <1>1, <2>3, <2>5, <3>1 DEF Facts, AccountsAre
  <2>8. RowsAre(F)' /\ LinksAre(F, B)'
    <3>1. UNCHANGED deployment
      BY <2>1 DEF Steps
    <3> QED BY <1>1, <2>3, <2>5, <3>1, SameLeads DEF Facts, RowsAre, LinksAre
  <2>9. RequestsAre(F, B)
    BY <2>3, <2>6 DEF Facts, RequestsAre, Remembered, Handles
  <2>10. Remembered(req'[w], F, B)
    BY <2>1, <2>3 DEF Remembered, Steps
  <2>11. RequestsAre(F, B)'
    BY <2>1, <2>9, <2>10, RequestsStep
  <2> QED BY <2>7, <2>8, <2>11 DEF Facts
<1> QED BY <1>2, <1>3

(* A new ring user adds its row.                                           *)
LEMMA CreateRingHistory ==
  ASSUME Inv, NEW F, NEW A, Facts(F, A), NEW w \in Worker, CreateRingEffect(w)
  PROVE  \E G : Facts(G, A)'
<1>1. /\ req[w].at = "createRing" /\ UNCHANGED <<users, profiles, pdbSignups>>
  BY DEF CreateRingEffect
<1>2. CASE Ends(w) /\ UNCHANGED ringUsers
  BY <1>1, <1>2, EndHistory
<1>3. CASE ~(Ends(w) /\ UNCHANGED ringUsers)
  <2> DEFINE n == lastRing + 1
             row == [name |-> req[w].name, org |-> req[w].org, admin |-> FALSE]
  <2>1. /\ Steps(w, "linkGet") /\ SameUser(req[w], req'[w]) /\ SameNet(req[w], req'[w])
        /\ req'[w].ring = n /\ Wrote(ringUsers, ringUsers', n, row)
    BY <1>3 DEF CreateRingEffect
  <2>2. lastRing \in Nat /\ n \in Nat /\ n > lastRing
    BY Actor
  <2>0. PICK G : G = [r \in Nat |-> IF r = n THEN row ELSE F[r]]
    OBVIOUS
  <2>3. G[n] = row /\ \A r \in Nat : r <= lastRing => G[r] = F[r]
    BY <2>0, <2>2
  <2>4. row.name = req[w].name /\ row.org = req[w].org
    OBVIOUS
  <2> HIDE DEF n, row
  <2>5. \A r \in RingId : r \in Nat
    BY StoreAssumption DEF RingId
  <2>6. /\ \A r \in DOMAIN ringUsers : r \in Nat /\ r <= lastRing
        /\ \A u \in DOMAIN profiles : profiles[u].ring \in Nat /\ profiles[u].ring <= lastRing
    <3>1. \A u \in DOMAIN profiles : profiles[u].ring \in RingId
      BY TablesTyped, ProfileRows DEF ProfileRow
    <3> QED BY <2>5, <3>1, TablesTyped, RingRows DEF Referential
  <2>7. \A v \in Worker : HasRing(req[v].at) => req[v].ring \in Nat /\ req[v].ring <= lastRing
    BY <2>5, Actor DEF Shape
  <2>8. RowsAre(G)'
    <3>1. /\ ringUsers'[n] = row
          /\ \A r \in DOMAIN ringUsers' : r = n \/ (r \in DOMAIN ringUsers /\ ringUsers'[r] = ringUsers[r])
      BY <2>1 DEF Wrote
    <3> QED BY <2>3, <2>6, <3>1 DEF Facts, RowsAre
  <2>9. AccountsAre(A)' /\ LinksAre(G, A)'
    <3>1. UNCHANGED deployment
      BY <2>1 DEF Steps
    <3> QED BY <1>1, <2>3, <2>6, <3>1, SameLeads DEF Facts, AccountsAre, LinksAre
  <2>10. RequestsAre(G, A)
    BY <2>3, <2>7 DEF Facts, RequestsAre, Remembered, HasRing
  <2>11. Remembered(req'[w], G, A)
    <3>1. Remembered(req[w], G, A) /\ (Handles(req'[w]) => Handles(req[w]))
      BY <1>1, <2>1, <2>10, LinkerHolds DEF RequestsAre, Handles, SameUser, Linking
    <3> QED BY <2>1, <2>3, <2>4, <3>1 DEF Remembered, Steps, SameUser, SameNet
  <2>12. RequestsAre(G, A)'
    BY <2>1, <2>10, <2>11, RequestsStep
  <2> QED BY <2>8, <2>9, <2>12 DEF Facts
<1> QED BY <1>2, <1>3

(* No step contradicts History.                                            *)
LEMMA HistoryKept == Inv /\ History /\ [BackfillNext]_backfillVars => History'
<1> SUFFICES ASSUME Inv, History, [BackfillNext]_backfillVars PROVE History'
  OBVIOUS
<1>1. PICK F, A : Facts(F, A)
  BY DEF History
<1>2. CASE UNCHANGED <<req, deployment, tables>>
  <2>1. RequestsAre(F, A)'
    BY <1>1, <1>2 DEF Facts, RequestsAre, Remembered, Handles, HasUser
  <2>2. RowsAre(F)' /\ AccountsAre(A)' /\ LinksAre(F, A)'
    BY <1>1, <1>2, TablesRemember DEF tables
  <2> QED BY <2>1, <2>2 DEF Facts, History
<1>3. ASSUME NEW w \in Worker, Acts(w) PROVE History'
  BY <1>1, <1>3, OpeningHistory, LookupHistory, SaveHistory, FileHistory, LinkHistory, EraseHistory,
     CreateUserHistory, CreateRingHistory DEF Acts, History
<1>4. ASSUME NEW r \in RingId, DestroyEffect(r) PROVE History'
  BY <1>1, <1>4, EraseHistory DEF History
<1> QED BY <1>2, <1>3, <1>4, NextActs

(* It holds at the start: the imported ring users are what they are.       *)
LEMMA HistoryInit == BackfillInit => History
<1> SUFFICES ASSUME BackfillInit PROVE Facts(ringUsers, users)
  BY DEF History
<1>1. /\ \A w \in Worker : req[w] = Idle
      /\ DOMAIN users = {} /\ DOMAIN profiles = {} /\ DOMAIN pdbSignups = {}
  BY DEF BackfillInit, Init, StoreInit
<1> QED BY <1>1 DEF Facts, RowsAre, AccountsAre, LinksAre, RequestsAre, Remembered, Handles, HasUser,
         Idle

(***************************************************************************)
(* An account that was opened through PeeringDB belongs to the participant *)
(* of a network that its identity manages, whatever logins, approvals and  *)
(* deletions of ring users happened meanwhile.                             *)
(***************************************************************************)
THEOREM AccountsFit == BackfillSpec => []AccountFitsNetwork
<1>1. History => AccountFitsNetwork
  BY DEF History, Facts, RowsAre, LinksAre, Leads, AccountFitsNetwork, HasLiveRing
<1> QED BY <1>1, InitEstablishesInv, NextKeepsInv, HistoryInit, HistoryKept, PTL DEF BackfillSpec

-----------------------------------------------------------------------------
(***************************************************************************)
(* The account that a login has created is its own: no other request holds *)
(* it until it is linked, and only later logins of its identity after      *)
(* that.                                                                   *)
(***************************************************************************)
Holds(q, u) == HasUser(q) /\ q.user = u
Refreshing(at) == at \in {"updateRing", "sync"}
Creates(q) == q.op = "login" /\ HasUser(q) /\ ~Refreshing(q.at)
Unlinked(q) == Creates(q) /\ q.at # "token"
Alone(w) ==
  LET q == req[w] IN
  /\ Creates(q) =>
       /\ q.user \notin DOMAIN pdbSignups
       /\ \A v \in Worker \ {w} : Holds(req[v], q.user) => Refreshing(req[v].at)
  /\ Unlinked(q) =>
       /\ \A v \in Worker \ {w} : ~Holds(req[v], q.user)
       /\ q.user \notin tokens
       /\ q.user \in DOMAIN profiles => profiles[q.user].pdb = None
       /\ q.at \in {"deactivate", "queue"} => q.user \notin DOMAIN profiles
CreatorsAlone == \A w \in Worker : Alone(w)
TokensCounted == \A u \in tokens : u <= lastUser
Ownership == CreatorsAlone /\ TokensCounted

(* What a step does to the rows of accounts that its request does not hold.*)
Spares(v) ==
  \A u : ~Holds(req[v], u) =>
    /\ u \in tokens' => u \in tokens
    /\ u \in DOMAIN pdbSignups' => u \in DOMAIN pdbSignups
    /\ u \in DOMAIN profiles' => u \in DOMAIN profiles /\ profiles'[u] = profiles[u]
(* Whom it may hold afterwards.                                            *)
Takes(v) ==
  \A u : Holds(req'[v], u) =>
    \/ Holds(req[v], u) /\ (Refreshing(req[v].at) => Refreshing(req'[v].at))
    \/ \A w \in Worker \ {v} : ~(Creates(req[w]) /\ req[w].user = u)
    \/ /\ Refreshing(req'[v].at)
       /\ \A w \in Worker \ {v} : ~(Unlinked(req[w]) /\ req[w].user = u)

(* The creators beside a step that spares what it does not hold.           *)
LEMMA OthersAlone ==
  ASSUME CreatorsAlone, NEW v \in Worker, NEW step, Steps(v, step), Spares(v), Takes(v),
         Refreshing(req[v].at) => UNCHANGED <<tokens, pdbSignups, profiles>>
  PROVE  \A w \in Worker \ {v} : Alone(w)'
<1> SUFFICES ASSUME NEW w \in Worker \ {v} PROVE Alone(w)'
  OBVIOUS
<1> DEFINE q == req[w]
<1>1. req'[w] = q /\ \A x \in Worker \ {v} : req'[x] = req[x]
  BY DEF Steps
<1>2. Alone(w)
  BY DEF CreatorsAlone
<1>3. ASSUME Creates(q) PROVE q.user \notin DOMAIN pdbSignups'
  <2>1. Holds(req[v], q.user) => Refreshing(req[v].at)
    BY <1>2, <1>3 DEF Alone
  <2> QED BY <1>2, <1>3, <2>1 DEF Alone, Spares
<1>4. ASSUME Creates(q) PROVE Holds(req'[v], q.user) => Refreshing(req'[v].at)
  BY <1>2, <1>4 DEF Alone, Takes
<1>5. ASSUME Unlinked(q) PROVE ~Holds(req'[v], q.user)
  BY <1>2, <1>5 DEF Alone, Takes, Unlinked
<1>6. ASSUME Unlinked(q)
      PROVE  /\ q.user \notin tokens'
             /\ q.user \in DOMAIN profiles' => q.user \in DOMAIN profiles /\ profiles'[q.user] = profiles[q.user]
  BY <1>2, <1>6 DEF Alone, Spares
<1>7. /\ Creates(req[w])' <=> Creates(q)
      /\ Unlinked(req[w])' <=> Unlinked(q)
  BY <1>1 DEF Creates, Unlinked, HasUser
<1>8. \A x \in Worker \ {v} : \A u : Holds(req[x], u)' <=> Holds(req[x], u)
  BY <1>1 DEF Holds, HasUser
<1> HIDE DEF q
<1>9. \A u : Holds(req[v], u)' <=> Holds(req'[v], u)
  BY DEF Holds, HasUser
<1> QED BY <1>1, <1>2, <1>3, <1>4, <1>5, <1>6, <1>7, <1>8, <1>9 DEF Alone, q

(* What is to be shown of a step of one request.                           *)
LEMMA OwnershipStep ==
  ASSUME Ownership, NEW v \in Worker, NEW step, Steps(v, step), Spares(v), Takes(v),
         Refreshing(req[v].at) => UNCHANGED <<tokens, pdbSignups, profiles>>,
         Alone(v)', TokensCounted'
  PROVE  Ownership'
<1>1. \A w \in Worker \ {v} : Alone(w)'
  BY OthersAlone DEF Ownership
<1> QED BY <1>1 DEF Ownership, CreatorsAlone

(* A request that ends leaves its account to others.                       *)
LEMMA OwnershipEnd ==
  ASSUME Ownership, NEW v \in Worker, Ends(v), UNCHANGED <<tokens, pdbSignups, profiles>>,
         lastUser' = lastUser
  PROVE  Ownership'
<1>1. Steps(v, "idle") /\ Takes(v) /\ Spares(v) /\ TokensCounted'
  BY DEF Ends, Takes, Spares, Holds, HasUser, Idle, Ownership, TokensCounted
<1>2. Alone(v)'
  BY DEF Ends, Alone, Creates, Unlinked, Idle
<1> QED BY <1>1, <1>2, OwnershipStep

(* One that goes on with its account keeps it alone.                       *)
LEMMA OwnershipGo ==
  ASSUME Inv, Ownership, NEW v \in Worker, NEW step, Steps(v, step),
         UNCHANGED <<tokens, pdbSignups, profiles>>, lastUser' = lastUser,
         req'[v].op = req[v].op, HasUser(req'[v]) => HasUser(req[v]) /\ req'[v].user = req[v].user,
         Refreshing(req[v].at) <=> Refreshing(step),
         req[v].at = "token" => step = "token" \/ req[v].op # "login",
         step \in {"deactivate", "queue"} => req[v].at = "deactivate"
  PROVE  Ownership'
<1>1. Takes(v) /\ Spares(v) /\ TokensCounted'
  BY DEF Steps, Takes, Spares, Holds, Ownership, TokensCounted
<1>2. Alone(v)'
  <2>1. /\ Creates(req[v])' => Creates(req[v]) /\ req'[v].user = req[v].user
        /\ Unlinked(req[v])' => Unlinked(req[v])
    BY DEF Steps, Creates, Unlinked, HasUser
  <2>2. \A x \in Worker \ {v} : req'[x] = req[x]
    BY DEF Steps
  <2>3. Alone(v) /\ req'[v].at = step
    BY DEF Ownership, CreatorsAlone, Steps
  <2>4. \A x \in Worker \ {v} : \A u : Holds(req[x], u)' <=> Holds(req[x], u)
    BY <2>2 DEF Holds, HasUser
  <2>5. ASSUME Creates(req[v])'
        PROVE  /\ req'[v].user \notin DOMAIN pdbSignups'
               /\ \A x \in Worker \ {v} : Holds(req[x], req[v].user)' => Refreshing(req[x].at)'
    BY <2>1, <2>2, <2>3, <2>4, <2>5 DEF Alone, Holds, HasUser
  <2>6. ASSUME Unlinked(req[v])'
        PROVE  \A x \in Worker \ {v} : ~Holds(req[x], req[v].user)'
    BY <2>1, <2>2, <2>3, <2>6 DEF Alone, Unlinked, Holds, HasUser
  <2>7. ASSUME Unlinked(req[v])'
        PROVE  /\ req'[v].user \notin tokens'
               /\ req'[v].user \in DOMAIN profiles' => profiles'[req'[v].user].pdb = None
               /\ step \in {"deactivate", "queue"} => req'[v].user \notin DOMAIN profiles'
    BY <2>1, <2>3, <2>7 DEF Alone, Unlinked
  <2> QED BY <2>3, <2>5, <2>6, <2>7 DEF Alone
<1> QED BY <1>1, <1>2, OwnershipStep

(* Who does not create holds nothing alone.                                *)
LEMMA NotCreating ==
  ASSUME NEW v \in Worker, ~Creates(req[v])'
  PROVE  Alone(v)'
BY DEF Alone, Unlinked

(* A request begins with an account that is linked or on file.             *)
LEMMA OpeningOwnership ==
  ASSUME Inv, Ownership, NEW w \in Worker,
         \/ \E pdb \in Pdb, asn \in Asn : LoginEffect(w, pdb, asn)
         \/ \E u \in UserId : OpenApprovalEffect(w, u)
         \/ \E u \in UserId : OpenRejectionEffect(w, u)
  PROVE  Ownership'
<1>1. \A v \in Worker : Alone(v)
  BY DEF Ownership, CreatorsAlone
<1>2. ASSUME UNCHANGED tables PROVE Spares(w) /\ TokensCounted'
  BY <1>2 DEF tables, Spares, Ownership, TokensCounted
<1>3. ASSUME NEW pdb \in Pdb, NEW asn \in Asn, LoginEffect(w, pdb, asn) PROVE Ownership'
  <2>1. UNCHANGED tables /\ req[w].at = "idle" /\ req'[w].op = "login"
    BY <1>3 DEF LoginEffect
  <2>2. CASE Steps(w, "resolve")
    <3>1. Takes(w) /\ ~Creates(req[w])'
      BY <2>1, <2>2 DEF Takes, Holds, HasUser, Looking, Steps, Creates
    <3> QED BY <1>2, <2>1, <2>2, <3>1, NotCreating, OwnershipStep DEF Refreshing
  <2>3. CASE ~Steps(w, "resolve")
    <3>1. Steps(w, "updateRing") /\ req'[w].user \in LinkedLive(pdb)
      BY <1>3, <2>3 DEF LoginEffect
    <3>2. /\ req'[w].user \in DOMAIN profiles /\ profiles[req'[w].user].pdb # None
      BY <3>1, StoreAssumption DEF LinkedLive, LinkedTo
    <3>3. \A v \in Worker : ~(Unlinked(req[v]) /\ req[v].user = req'[w].user)
      BY <1>1, <3>2 DEF Alone
    <3>4. Takes(w) /\ ~Creates(req[w])'
      BY <3>1, <3>3 DEF Takes, Holds, Refreshing, Steps, Creates
    <3> QED BY <1>2, <2>1, <3>1, <3>4, NotCreating, OwnershipStep DEF Refreshing
  <2> QED BY <2>2, <2>3
<1>4. ASSUME NEW u \in UserId, OpenApprovalEffect(w, u) \/ OpenRejectionEffect(w, u)
      PROVE  Ownership'
  <2>1. /\ UNCHANGED tables /\ req[w].at = "idle" /\ u \in DOMAIN pdbSignups
        /\ req'[w].op # "login" /\ req'[w].user = u
        /\ Steps(w, "resolve") \/ Steps(w, "deleteUser")
    BY <1>4 DEF OpenApprovalEffect, OpenRejectionEffect, Pending
  <2>2. \A v \in Worker : ~(Creates(req[v]) /\ req[v].user = u)
    BY <1>1, <2>1 DEF Alone
  <2>3. Takes(w) /\ ~Creates(req[w])'
    BY <2>1, <2>2 DEF Takes, Holds, Creates
  <2> QED BY <1>2, <2>1, <2>3, NotCreating, OwnershipStep DEF Refreshing
<1> QED BY <1>3, <1>4

(* A created account has a key that nobody has seen.                       *)
LEMMA CreateUserOwnership ==
  ASSUME Inv, Ownership, NEW w \in Worker, CreateUserEffect(w)
  PROVE  Ownership'
<1>1. req[w].at = "createUser" /\ UNCHANGED <<profiles, tokens, pdbSignups>>
  BY DEF CreateUserEffect
<1>2. CASE Ends(w) /\ lastUser' = lastUser
  BY <1>1, <1>2, OwnershipEnd
<1>3. CASE ~(Ends(w) /\ lastUser' = lastUser)
  <2>0. PICK n : n = lastUser + 1
    OBVIOUS
  <2>1. /\ Steps(w, "deactivate") \/ Steps(w, "activate")
        /\ req'[w].user = n /\ lastUser' = n
    BY <1>3, <2>0 DEF CreateUserEffect
  <2>2. \A u \in UserId : u \in Nat
    BY StoreAssumption DEF UserId
  <2>3. /\ \A u \in DOMAIN profiles \union DOMAIN pdbSignups \union tokens : u \in Nat /\ u <= lastUser
        /\ \A v \in Worker : HasUser(req[v]) => req[v].user \in Nat /\ req[v].user <= lastUser
        /\ lastUser \in Nat
    <3>1. \A u \in DOMAIN users : u \in Nat /\ u <= lastUser
      BY <2>2, TablesTyped, UserRows DEF Referential
    <3>2. \A u \in tokens : u \in Nat /\ u <= lastUser
      BY <2>2, TablesTyped DEF Ownership, TokensCounted
    <3> QED BY <2>2, <3>1, <3>2, TablesTyped, Actor DEF Referential, Shape
  <2>4. \A u \in Nat : u <= lastUser => u # n
    BY <2>0, <2>3
  <2>5. TokensCounted'
    BY <1>1, <2>0, <2>1, <2>3 DEF TokensCounted
  <2>6. /\ n \notin DOMAIN profiles /\ n \notin DOMAIN pdbSignups /\ n \notin tokens
        /\ \A v \in Worker : ~Holds(req[v], n)
    BY <2>3, <2>4 DEF Holds
  <2>7. Takes(w) /\ Spares(w)
    BY <1>1, <2>1, <2>6 DEF Takes, Spares, Holds, Creates
  <2>8. Alone(w)'
    <3>1. \A x \in Worker \ {w} : Holds(req[x], n)' <=> Holds(req[x], n)
      BY <2>1 DEF Steps, Holds, HasUser
    <3> QED BY <1>1, <2>1, <2>6, <3>1 DEF Alone
  <2> QED BY <1>1, <2>1, <2>5, <2>7, <2>8, OwnershipStep DEF Refreshing
<1> QED BY <1>2, <1>3

(* Statements that carry on, or end, without a word to these tables.       *)
LEMMA GoingOwnership ==
  ASSUME Inv, Ownership, NEW w \in Worker,
         \/ SyncRingEffect(w) \/ SyncUserEffect(w) \/ ResolveEffect(w) \/ CreateOrgEffect(w)
         \/ AsnGetEffect(w) \/ AsnSaveEffect(w) \/ PickNameEffect(w) \/ DeactivateEffect(w)
         \/ ActivateEffect(w) \/ CreateRingEffect(w) \/ DieEffect(w)
  PROVE  Ownership'
<1>1. UNCHANGED <<tokens, pdbSignups, profiles, lastUser>>
  BY DEF SyncRingEffect, SyncUserEffect, ResolveEffect, CreateOrgEffect, AsnGetEffect,
     AsnSaveEffect, PickNameEffect, DeactivateEffect, ActivateEffect, SaveEffect,
     CreateRingEffect, DieEffect, tables
<1>2. CASE Ends(w)
  BY <1>1, <1>2, OwnershipEnd
<1>3. CASE ~Ends(w)
  <2> DEFINE at == req[w].at
             To(step) == Steps(w, step) /\ req'[w].op = req[w].op
                           /\ (at \in {"pickName"} \/ req'[w].user = req[w].user)
  <2>1. \A step : Carries(w, step) => To(step)
    BY Carried
  <2>2. \/ at = "updateRing" /\ To("sync")
        \/ at = "resolve" /\ \E s \in {"asnGet", "pickName", "createOrg"} :
             To(s) /\ (s = "pickName" => req[w].op = "login") /\ (s = "createOrg" => req[w].op # "login")
        \/ at = "createOrg" /\ To("asnGet")
        \/ at = "asnGet" /\ To("asnSave")
        \/ at = "asnSave" /\ \E s \in {"pickName", "createRing"} :
             To(s) /\ (s = "createRing" => req[w].op # "login")
        \/ at = "pickName" /\ To("createUser")
        \/ at = "deactivate" /\ To("queue")
        \/ at = "activate" /\ \E s \in {"createRing", "token"} :
             To(s) /\ (s = "createRing" => req[w].op = "login")
        \/ at = "createRing" /\ To("linkGet")
    BY <1>3, <2>1 DEF SyncRingEffect, SyncUserEffect, ResolveEffect, CreateOrgEffect, AsnGetEffect,
       AsnSaveEffect, PickNameEffect, DeactivateEffect, ActivateEffect, SaveEffect,
       CreateRingEffect, DieEffect, SameUser
  <2>3. /\ at = "createOrg" => req[w].op = "pdbApprove"
        /\ at = "pickName" => req[w].op = "login"
    BY HandlerAt
  <2>5. CASE at = "pickName" /\ To("createUser")
    <3>1. ~HasUser(req'[w])
      BY <2>3, <2>5 DEF HasUser, Steps
    <3> QED BY <1>1, <2>5, <3>1, OwnershipGo DEF Refreshing
  <2>6. ASSUME at # "pickName",
               NEW s \in {"sync", "asnGet", "pickName", "createOrg", "asnSave", "createRing", "queue",
                          "token", "linkGet"}, To(s),
               HasUser(req'[w]) => HasUser(req[w]), Refreshing(at) <=> Refreshing(s),
               at # "token", s = "queue" => at = "deactivate"
        PROVE  Ownership'
    <3>1. /\ Steps(w, s) /\ req'[w].op = req[w].op
          /\ HasUser(req'[w]) => HasUser(req[w]) /\ req'[w].user = req[w].user
      BY <2>6
    <3> QED BY <1>1, <2>6, <3>1, OwnershipGo
  <2>7. \A s : To(s) => req'[w].at = s
    BY DEF Steps
  <2>8. CASE at = "resolve" /\ \E s \in {"asnGet", "pickName", "createOrg"} :
               To(s) /\ (s = "pickName" => req[w].op = "login") /\ (s = "createOrg" => req[w].op # "login")
    <3>1. PICK s \in {"asnGet", "pickName", "createOrg"} :
            To(s) /\ (s = "pickName" => req[w].op = "login") /\ (s = "createOrg" => req[w].op # "login")
      BY <2>8
    <3>2. HasUser(req'[w]) => HasUser(req[w])
      BY <2>7, <2>8, <3>1 DEF HasUser, Looking
    <3> QED BY <2>6, <2>8, <3>1, <3>2 DEF Refreshing
  <2>9. CASE at = "asnSave" /\ \E s \in {"pickName", "createRing"} :
               To(s) /\ (s = "createRing" => req[w].op # "login")
    <3>1. PICK s \in {"pickName", "createRing"} :
            To(s) /\ (s = "createRing" => req[w].op # "login")
      BY <2>9
    <3>2. HasUser(req'[w]) => HasUser(req[w])
      BY <2>7, <2>9, <3>1 DEF HasUser, Looking
    <3> QED BY <2>6, <2>9, <3>1, <3>2 DEF Refreshing
  <2>10. CASE at = "activate" /\ \E s \in {"createRing", "token"} :
                To(s) /\ (s = "createRing" => req[w].op = "login")
    <3>1. PICK s \in {"createRing", "token"} : To(s)
      BY <2>10
    <3>2. HasUser(req'[w]) => HasUser(req[w])
      BY <2>7, <2>10, <3>1 DEF HasUser, Looking
    <3> QED BY <2>6, <2>10, <3>1, <3>2 DEF Refreshing
  <2>11. CASE at = "asnGet" /\ To("asnSave")
    <3>1. HasUser(req'[w]) => HasUser(req[w])
      BY <2>7, <2>11 DEF HasUser, Looking
    <3> QED BY <2>6, <2>11, <3>1 DEF Refreshing
  <2>12. CASE \/ at = "updateRing" /\ To("sync")
              \/ at = "createOrg" /\ To("asnGet")
              \/ at = "deactivate" /\ To("queue")
              \/ at = "createRing" /\ To("linkGet")
    <3>1. at \in {"updateRing", "createOrg", "deactivate", "createRing"}
      BY <2>12
    <3>2. HasUser(req[w])
      BY <3>1, HandlerAt DEF HasUser, Looking
    <3> QED BY <2>6, <2>12, <3>2 DEF Refreshing
  <2> QED BY <2>2, <2>5, <2>8, <2>9, <2>10, <2>11, <2>12
<1> QED BY <1>2, <1>3

(* The file and the token of an account are in the hands of its request.   *)
LEMMA FilingOwnership ==
  ASSUME Inv, Ownership, NEW w \in Worker,
         \/ FileEffect(w, "queue", FALSE) \/ FileEffect(w, "finish", TRUE) \/ TokenEffect(w)
  PROVE  Ownership'
<1> DEFINE q == req[w]
<1>1. /\ q.at \in {"queue", "finish", "token"} /\ UNCHANGED <<profiles, lastUser>>
      /\ DOMAIN pdbSignups' \subseteq DOMAIN pdbSignups \union {q.user}
      /\ tokens' \subseteq tokens \union {q.user}
      /\ Ends(w) \/ (Carries(w, "finish") /\ q.op # "login")
  BY DEF FileEffect, TokenEffect, Wrote
<1>2. HasUser(q) /\ q.user <= lastUser
  <2>1. HasUser(q)
    BY <1>1, HandlerAt DEF HasUser, Looking
  <2> QED BY <2>1, Actor DEF Shape
<1>3. Spares(w)
  BY <1>1, <1>2 DEF Spares, Holds
<1>4. TokensCounted'
  BY <1>1, <1>2 DEF Ownership, TokensCounted
<1>5. Takes(w) /\ ~Creates(req[w])'
  <2>1. CASE Ends(w)
    BY <2>1 DEF Ends, Idle, Takes, Holds, HasUser, Creates
  <2>2. CASE Carries(w, "finish") /\ q.op # "login"
    BY <1>1, <2>2, Carried DEF Takes, Holds, HasUser, Creates, Refreshing
  <2> QED BY <1>1, <2>1, <2>2
<1>6. \E step : Steps(w, step)
  BY <1>1 DEF Ends, Carries
<1> QED BY <1>1, <1>3, <1>4, <1>5, <1>6, NotCreating, OwnershipStep DEF Refreshing

(* A link without an identity is not yet a link.                           *)
LEMMA LinkingOwnership ==
  ASSUME Inv, Ownership, NEW w \in Worker, LinkGetEffect(w) \/ LinkSaveEffect(w)
  PROVE  Ownership'
<1> DEFINE q == req[w]
<1>1. /\ q.at \in {"linkGet", "linkSave"} /\ UNCHANGED <<tokens, pdbSignups, lastUser>>
      /\ \A u \in DOMAIN profiles' :
           u # q.user => u \in DOMAIN profiles /\ profiles'[u] = profiles[u]
      /\ \/ Ends(w)
         \/ /\ LinkGetEffect(w) /\ Carries(w, "linkSave")
            /\ \A u \in DOMAIN profiles' :
                 \/ u \in DOMAIN profiles /\ profiles'[u] = profiles[u]
                 \/ profiles'[u].pdb = None
         \/ Carries(w, IF q.op = "login" THEN "token" ELSE "activate")
  BY DEF LinkGetEffect, LinkSaveEffect, Wrote
<1>2. HasUser(q) /\ Alone(w)
  BY <1>1, LinkerHolds DEF Linking, Ownership, CreatorsAlone
<1>3. Spares(w)
  BY <1>1, <1>2 DEF Spares, Holds
<1>4. TokensCounted'
  BY <1>1 DEF Ownership, TokensCounted
<1>5. CASE Ends(w)
  <2>1. Takes(w) /\ ~Creates(req[w])'
    BY <1>5 DEF Ends, Idle, Takes, Holds, HasUser, Creates
  <2> QED BY <1>1, <1>3, <1>4, <1>5, <2>1, NotCreating, OwnershipStep DEF Refreshing, Ends
<1>6. ASSUME NEW step \in {"linkSave", "token", "activate"}, Carries(w, step),
             step = "activate" => q.op # "login",
             step = "linkSave" => \A u \in DOMAIN profiles' :
                 \/ u \in DOMAIN profiles /\ profiles'[u] = profiles[u]
                 \/ profiles'[u].pdb = None
      PROVE  Ownership'
  <2>1. /\ Steps(w, step) /\ req'[w].op = q.op /\ req'[w].user = q.user
        /\ \A x \in Worker \ {w} : req'[x] = req[x]
    BY <1>6, Carried DEF Steps
  <2>2. HasUser(req'[w])
    BY <1>2, <2>1 DEF HasUser, Steps, Looking
  <2>3. Takes(w)
    BY <1>1, <1>2, <2>1 DEF Takes, Holds, Refreshing
  <2>4. /\ \A x \in Worker \ {w} : Holds(req[x], req[w].user)' <=> Holds(req[x], q.user)
        /\ Creates(req[w])' => Creates(q)
        /\ Creates(q) => Unlinked(q)
        /\ Unlinked(req[w])' => step = "linkSave"
    BY <1>1, <1>2, <1>6, <2>1, <2>2 DEF Holds, HasUser, Creates, Unlinked, Steps, Refreshing
  <2>5. Alone(w)'
    <3>1. Creates(q) => /\ q.user \notin DOMAIN pdbSignups /\ q.user \notin tokens
                        /\ \A x \in Worker \ {w} : ~Holds(req[x], q.user)
                        /\ q.user \in DOMAIN profiles => profiles[q.user].pdb = None
      BY <1>2, <2>4 DEF Alone
    <3>2. req'[w].user \in DOMAIN profiles' /\ step = "linkSave" /\ Creates(q)
            => profiles'[req'[w].user].pdb = None
      BY <1>6, <2>1, <3>1
    <3>3. req'[w].at = step
      BY <2>1 DEF Steps
    <3>4. \A x \in Worker \ {w} : Creates(q) => ~Holds(req[x], req[w].user)'
      BY <2>1, <2>4, <3>1
    <3>5. Creates(req[w])' => req'[w].user \notin DOMAIN pdbSignups'
      BY <1>1, <2>1, <2>4, <3>1
    <3>6. Unlinked(req[w])' => Creates(req[w])' /\ req'[w].user \notin tokens'
      BY <1>1, <2>1, <2>4, <3>1 DEF Unlinked
    <3> QED BY <1>6, <2>4, <3>2, <3>3, <3>4, <3>5, <3>6 DEF Alone
  <2> QED BY <1>1, <1>3, <1>4, <2>1, <2>3, <2>5, OwnershipStep DEF Refreshing
<1> QED BY <1>1, <1>5, <1>6

(* What is deleted is nobody's.                                            *)
LEMMA RejectOwnership ==
  ASSUME Inv, Ownership, NEW w \in Worker, RejectUserEffect(w) \/ RejectSignupEffect(w)
  PROVE  Ownership'
<1>1. /\ req[w].at \in {"deleteUser", "deleteSignup"} /\ lastUser' = lastUser
      /\ tokens' \subseteq tokens /\ DOMAIN pdbSignups' \subseteq DOMAIN pdbSignups
      /\ \A u \in DOMAIN profiles' : u \in DOMAIN profiles /\ profiles'[u] = profiles[u]
      /\ Ends(w) \/ Carries(w, "deleteSignup")
  BY DEF RejectUserEffect, RejectSignupEffect, Erased
<1>2. req[w].op = "pdbReject"
  BY <1>1, HandlerAt
<1>3. Spares(w) /\ TokensCounted'
  BY <1>1 DEF Spares, Ownership, TokensCounted
<1>4. Takes(w) /\ ~Creates(req[w])'
  <2>1. CASE Ends(w)
    BY <2>1 DEF Ends, Idle, Takes, Holds, HasUser, Creates
  <2>2. CASE Carries(w, "deleteSignup")
    BY <1>1, <1>2, <2>2, Carried DEF Takes, Holds, HasUser, Creates, Refreshing
  <2> QED BY <1>1, <2>1, <2>2
<1>5. \E step : Steps(w, step)
  BY <1>1 DEF Ends, Carries
<1> QED BY <1>1, <1>3, <1>4, <1>5, NotCreating, OwnershipStep DEF Refreshing

(* Every step keeps creators alone.                                        *)
LEMMA OwnershipKept == Inv /\ Ownership /\ [BackfillNext]_backfillVars => Ownership'
<1> SUFFICES ASSUME Inv, Ownership, [BackfillNext]_backfillVars PROVE Ownership'
  OBVIOUS
<1>1. CASE UNCHANGED <<req, tokens, pdbSignups, profiles, lastUser>>
  BY <1>1 DEF Ownership, CreatorsAlone, TokensCounted, Alone, Creates, Unlinked, Holds, HasUser
<1>2. UNCHANGED tables => UNCHANGED <<tokens, pdbSignups, profiles, lastUser>>
  BY DEF tables
<1>3. ASSUME NEW w \in Worker, Acts(w) PROVE Ownership'
  BY <1>3, OpeningOwnership, GoingOwnership, CreateUserOwnership, FilingOwnership, LinkingOwnership,
     RejectOwnership DEF Acts
<1>4. ASSUME NEW r \in RingId, DestroyEffect(r) PROVE Ownership'
  BY <1>1, <1>4 DEF DestroyEffect
<1> QED BY <1>1, <1>2, <1>3, <1>4, NextActs

(* At the start nothing is created.                                        *)
LEMMA OwnershipInit == BackfillInit => Ownership
<1> SUFFICES ASSUME BackfillInit PROVE Ownership
  OBVIOUS
<1>1. tokens = {} /\ \A w \in Worker : req[w] = Idle
  BY DEF BackfillInit, Init, StoreInit
<1> QED BY <1>1 DEF Ownership, CreatorsAlone, TokensCounted, Alone, Creates, Unlinked, Idle

-----------------------------------------------------------------------------
(* A worker that is at a statement is one that serves requests.            *)
LEMMA AtWork ==
  ASSUME Inv, Roles, NEW w \in Worker, req[w].at # "idle"
  PROVE  w \in Site.workers
<1>1. Shape(req[w]) /\ May(w)
  BY Actor DEF Roles
<1> QED BY <1>1 DEF Shape, May

(* Where one worker serves them all, the others have none in hand.         *)
LEMMA OthersIdle ==
  ASSUME Inv, Roles, OneWorker, NEW w \in Worker, req[w].at # "idle" \/ w \in Site.workers
  PROVE  \A v \in Worker \ {w} : req[v].at = "idle"
BY AtWork DEF OneWorker

(* Whatever a worker does is a step of its own request.                    *)
LEMMA ActsSteps ==
  ASSUME NEW w \in Worker, Acts(w)
  PROVE  /\ \E step : Steps(w, step)
         /\ \/ req[w].at # "idle" \/ w \in Site.workers
            \/ UNCHANGED tables /\ Ends(w)
<1>1. \A step : Carries(w, step) => Steps(w, step)
  BY DEF Carries
<1>2. Ends(w) => \E step : Steps(w, step)
  BY DEF Ends
<1>3. ASSUME NEW pdb \in Pdb, NEW asn \in Asn, LoginEffect(w, pdb, asn)
      PROVE  w \in Site.workers /\ \E step : Steps(w, step)
  BY <1>3 DEF LoginEffect
<1>4. ASSUME NEW u \in UserId, OpenApprovalEffect(w, u) \/ OpenRejectionEffect(w, u)
      PROVE  w \in Site.workers /\ \E step : Steps(w, step)
  BY <1>4 DEF OpenApprovalEffect, OpenRejectionEffect
<1>5. CASE \/ SyncRingEffect(w) \/ SyncUserEffect(w) \/ ResolveEffect(w) \/ CreateOrgEffect(w)
           \/ AsnGetEffect(w) \/ AsnSaveEffect(w) \/ PickNameEffect(w)
  BY <1>1, <1>2, <1>5 DEF SyncRingEffect, SyncUserEffect, ResolveEffect, CreateOrgEffect, AsnGetEffect,
     AsnSaveEffect, PickNameEffect
<1>6. CASE \/ CreateUserEffect(w) \/ DeactivateEffect(w) \/ ActivateEffect(w)
           \/ FileEffect(w, "queue", FALSE) \/ FileEffect(w, "finish", TRUE) \/ CreateRingEffect(w)
  BY <1>1, <1>2, <1>6 DEF CreateUserEffect, DeactivateEffect, ActivateEffect, SaveEffect, FileEffect,
     CreateRingEffect
<1>7. CASE \/ LinkGetEffect(w) \/ LinkSaveEffect(w) \/ TokenEffect(w)
           \/ RejectUserEffect(w) \/ RejectSignupEffect(w) \/ DieEffect(w)
  BY <1>1, <1>2, <1>7 DEF LinkGetEffect, LinkSaveEffect, TokenEffect, RejectUserEffect,
     RejectSignupEffect, DieEffect
<1> QED BY <1>3, <1>4, <1>5, <1>6, <1>7 DEF Acts

(***************************************************************************)
(* What a request has done already, where no other interferes: an approval *)
(* has linked the account, made it active and given it a token, in this    *)
(* order; a later login has the account as it is.                          *)
(***************************************************************************)
Progress(w) ==
  LET q == req[w] IN
  /\ Refreshing(q.at) => q.user \in DOMAIN users /\ users[q.user].active = q.active
  /\ q.op = "pdbApprove" /\ q.at \in {"activate", "token", "finish"} =>
       q.user \in DOMAIN profiles /\ profiles[q.user].pdb = q.pdb
  /\ q.op = "pdbApprove" /\ q.at \in {"token", "finish"} => Usable(q.user)
  /\ q.at = "finish" => q.user \in tokens
Complete == OneWorker => ApprovedMeansComplete /\ \A w \in Worker : Progress(w)

(* Only the worker that acts, and what it writes, is to be looked at.      *)
LEMMA CompleteStep ==
  ASSUME Inv, Roles, Complete, NEW w \in Worker, Acts(w),
         OneWorker => ApprovedMeansComplete' /\ Progress(w)'
  PROVE  Complete'
<1>1. UNCHANGED OneWorker
  BY ActsSteps, SameSite DEF OneWorker, Steps
<1>2. ASSUME OneWorker, NEW v \in Worker \ {w} PROVE Progress(v)'
  <2>1. req'[v] = req[v] /\ Progress(v)
    BY <1>2, ActsSteps DEF Steps, Complete
  <2>2. CASE UNCHANGED tables
    BY <2>1, <2>2 DEF Progress, Usable, tables
  <2>3. CASE req[w].at # "idle" \/ w \in Site.workers
    <3>1. req[v].at = "idle"
      BY <1>2, <2>3, OthersIdle
    <3> QED BY <2>1, <3>1 DEF Progress, Refreshing
  <2> QED BY <2>2, <2>3, ActsSteps
<1> QED BY <1>1, <1>2 DEF Complete

(* Statements that leave the accounts as they are.                         *)
LEMMA QuietComplete ==
  ASSUME Inv, Complete, OneWorker, NEW w \in Worker,
         \/ \E pdb \in Pdb, asn \in Asn : LoginEffect(w, pdb, asn)
         \/ \E u \in UserId : OpenApprovalEffect(w, u)
         \/ \E u \in UserId : OpenRejectionEffect(w, u)
         \/ SyncRingEffect(w) \/ ResolveEffect(w) \/ CreateOrgEffect(w) \/ AsnGetEffect(w)
         \/ AsnSaveEffect(w) \/ PickNameEffect(w) \/ CreateRingEffect(w) \/ DieEffect(w)
  PROVE  ApprovedMeansComplete' /\ Progress(w)'
<1>1. UNCHANGED <<users, profiles, tokens, pdbSignups>>
  BY DEF LoginEffect, OpenApprovalEffect, OpenRejectionEffect, SyncRingEffect, ResolveEffect,
     CreateOrgEffect, AsnGetEffect, AsnSaveEffect, PickNameEffect, CreateRingEffect, DieEffect, tables
<1>2. ApprovedMeansComplete'
  BY <1>1 DEF Complete, ApprovedMeansComplete, Approved, Usable
<1>3. CASE req'[w].at \notin {"updateRing", "sync", "activate", "token", "finish"}
  BY <1>2, <1>3 DEF Progress, Refreshing
<1>4. CASE req'[w].at \in {"updateRing", "sync", "activate", "token", "finish"}
  <2>1. ASSUME NEW pdb \in Pdb, NEW asn \in Asn, LoginEffect(w, pdb, asn) PROVE Progress(w)'
    <3>1. /\ req'[w].op = "login" /\ Steps(w, "updateRing") /\ req'[w].user \in DOMAIN users
          /\ req'[w].active = users[req'[w].user].active
      BY <1>4, <2>1 DEF LoginEffect, Steps
    <3> QED BY <1>1, <3>1 DEF Steps, Progress, Refreshing
  <2>2. CASE SyncRingEffect(w)
    <3>1. Carries(w, "sync") /\ req[w].at = "updateRing"
      BY <1>4, <2>2 DEF SyncRingEffect, Ends, Idle
    <3>2. Progress(w)
      BY DEF Complete
    <3>3. req[w].user \in DOMAIN users /\ users[req[w].user].active = req[w].active
      BY <3>1, <3>2 DEF Progress, Refreshing
    <3>4. /\ req'[w].at = "sync" /\ req'[w].user = req[w].user /\ req'[w].active = req[w].active
      BY <3>1, Carried
    <3> QED BY <1>2, <1>1, <3>3, <3>4 DEF Progress, Refreshing
  <2>3. ASSUME \/ \E u \in UserId : OpenApprovalEffect(w, u)
               \/ \E u \in UserId : OpenRejectionEffect(w, u)
               \/ ResolveEffect(w) \/ CreateOrgEffect(w) \/ AsnGetEffect(w)
               \/ AsnSaveEffect(w) \/ PickNameEffect(w) \/ CreateRingEffect(w) \/ DieEffect(w)
        PROVE  FALSE
    BY <1>4, <2>3 DEF OpenApprovalEffect, OpenRejectionEffect, ResolveEffect,
       CreateOrgEffect, AsnGetEffect, AsnSaveEffect, PickNameEffect, CreateRingEffect, DieEffect,
       Ends, Carries, Steps
  <2> QED BY <1>2, <2>1, <2>2, <2>3
<1> QED BY <1>2, <1>3, <1>4

(* Saving an account.                                                      *)
LEMMA SaveComplete ==
  ASSUME Inv, Ownership, Complete, OneWorker, NEW w \in Worker,
         \/ SyncUserEffect(w) \/ CreateUserEffect(w) \/ DeactivateEffect(w) \/ ActivateEffect(w)
  PROVE  ApprovedMeansComplete' /\ Progress(w)'
<1> DEFINE q == req[w]
<1>1. /\ UNCHANGED <<profiles, tokens, pdbSignups>>
      /\ ApprovedMeansComplete /\ Progress(w) /\ Alone(w) /\ Shape(q)
      /\ \A u \in DOMAIN pdbSignups : u \in DOMAIN users /\ u # lastUser + 1
  <2>1. \A u \in DOMAIN pdbSignups : u \in DOMAIN users /\ u <= lastUser /\ u \in Nat
    BY TablesTyped, UserRows, StoreAssumption DEF Referential, UserId
  <2>2. lastUser \in Nat
    BY Actor
  <2>3. \A u \in DOMAIN pdbSignups : u # lastUser + 1
    BY <2>1, <2>2
  <2> QED BY <2>1, <2>3, Actor
          DEF SyncUserEffect, CreateUserEffect, DeactivateEffect, ActivateEffect, SaveEffect,
          Complete, Ownership, CreatorsAlone
<1>2. CASE UNCHANGED users /\ Ends(w)
  BY <1>1, <1>2 DEF ApprovedMeansComplete, Approved, Usable, Progress, Refreshing, Ends, Idle
<1>3. ASSUME NEW row, Wrote(users, users', q.user, row),
             Approved(q.user) => row.active = TRUE
      PROVE  ApprovedMeansComplete'
  BY <1>1, <1>3 DEF ApprovedMeansComplete, Approved, Usable, Wrote
<1>4. CASE SyncUserEffect(w)
  <2>1. q.at = "sync" /\ Ends(w)
    BY <1>4 DEF SyncUserEffect
  <2>2. Approved(q.user) => q.active = TRUE
    BY <1>1, <2>1 DEF Progress, ApprovedMeansComplete, Approved, Usable, Refreshing
  <2>3. Progress(w)'
    BY <2>1 DEF Progress, Refreshing, Ends, Idle
  <2>4. UNCHANGED users \/ Wrote(users, users', q.user, [name |-> q.name, active |-> q.active])
    BY <1>4 DEF SyncUserEffect
  <2> QED BY <1>2, <1>3, <2>1, <2>2, <2>3, <2>4
<1>5. CASE CreateUserEffect(w)
  <2>1. CASE Ends(w) /\ UNCHANGED users
    BY <1>2, <2>1
  <2>2. CASE ~(Ends(w) /\ UNCHANGED users)
    <3>1. PICK n : n = lastUser + 1
      OBVIOUS
    <3>2. /\ Wrote(users, users', n, [name |-> q.name, active |-> TRUE])
          /\ req[w].at = "createUser" /\ req'[w].op = q.op
          /\ Steps(w, "deactivate") \/ Steps(w, "activate")
      BY <1>5, <2>2, <3>1 DEF CreateUserEffect
    <3>3. ApprovedMeansComplete'
      BY <1>1, <3>1, <3>2 DEF ApprovedMeansComplete, Approved, Usable, Wrote
    <3>4. q.op = "login"
      BY <3>2, HandlerAt
    <3> QED BY <3>2, <3>3, <3>4 DEF Progress, Steps, Refreshing
  <2> QED BY <2>1, <2>2
<1>6. CASE DeactivateEffect(w)
  <2>1. q.at = "deactivate"
    BY <1>6 DEF DeactivateEffect, SaveEffect
  <2>2. q.user \notin DOMAIN pdbSignups
    BY <1>1, <2>1, HandlerAt DEF Alone, Creates, HasUser, Looking, Refreshing
  <2>3. \/ UNCHANGED users /\ Ends(w)
        \/ Carries(w, "queue") /\ Wrote(users, users', q.user, [name |-> q.name, active |-> FALSE])
    BY <1>6 DEF DeactivateEffect, SaveEffect
  <2>4. CASE Carries(w, "queue") /\ Wrote(users, users', q.user, [name |-> q.name, active |-> FALSE])
    <3>1. ApprovedMeansComplete'
      BY <1>1, <2>2, <2>4 DEF ApprovedMeansComplete, Approved, Usable, Wrote
    <3>2. req'[w].at = "queue"
      BY <2>4, Carried
    <3> QED BY <3>1, <3>2 DEF Progress, Refreshing
  <2> QED BY <1>2, <2>3, <2>4
<1>7. CASE ActivateEffect(w)
  <2>1. q.at = "activate"
    BY <1>7 DEF ActivateEffect, SaveEffect
  <2>2. \/ UNCHANGED users /\ Ends(w)
        \/ /\ Carries(w, IF q.op = "login" THEN "createRing" ELSE "token")
           /\ Wrote(users, users', q.user, [name |-> q.name, active |-> TRUE])
    BY <1>7 DEF ActivateEffect, SaveEffect
  <2>5. ASSUME Wrote(users, users', q.user, [name |-> q.name, active |-> TRUE])
        PROVE  ApprovedMeansComplete'
    BY <1>1, <2>5 DEF ApprovedMeansComplete, Approved, Usable, Wrote
  <2>3. CASE Carries(w, "createRing") /\ Wrote(users, users', q.user, [name |-> q.name, active |-> TRUE])
    <3>1. req'[w].at = "createRing"
      BY <2>3, Carried
    <3>2. Progress(w)'
      BY <3>1 DEF Progress, Refreshing
    <3> QED BY <2>3, <2>5, <3>2
  <2>4. CASE /\ q.op # "login" /\ Carries(w, "token")
             /\ Wrote(users, users', q.user, [name |-> q.name, active |-> TRUE])
    <3>1. q.op = "pdbApprove"
      BY <2>1, <2>4, HandlerAt
    <3>2. q.user \in DOMAIN users' /\ users'[q.user].active
      BY <2>4 DEF Wrote
    <3>3. q.user \in DOMAIN profiles' /\ profiles'[q.user].pdb = q.pdb
      BY <1>1, <2>1, <3>1 DEF Progress
    <3>5. req'[w].at = "token" /\ req'[w].user = q.user /\ req'[w].pdb = q.pdb
      BY <2>4, Carried
    <3>4. Progress(w)'
      BY <3>2, <3>3, <3>5 DEF Progress, Usable, Refreshing
    <3> QED BY <2>4, <2>5, <3>4
  <2> QED BY <1>2, <2>2, <2>3, <2>4
<1> QED BY <1>4, <1>5, <1>6, <1>7

(* Filing, linking and the token.                                          *)
LEMMA LinkComplete ==
  ASSUME Inv, NEW F, NEW A, Facts(F, A), Complete, OneWorker, NEW w \in Worker,
         \/ FileEffect(w, "queue", FALSE) \/ FileEffect(w, "finish", TRUE)
         \/ LinkGetEffect(w) \/ LinkSaveEffect(w) \/ TokenEffect(w)
  PROVE  ApprovedMeansComplete' /\ Progress(w)'
<1> DEFINE q == req[w]
<1>1. ApprovedMeansComplete /\ Progress(w) /\ Remembered(q, F, A)
  BY DEF Complete, Facts, RequestsAre
<1>2. Ends(w) => Progress(w)'
  BY DEF Progress, Refreshing, Ends, Idle
<1>3. CASE FileEffect(w, "queue", FALSE)
  <2>1. \/ UNCHANGED pdbSignups
        \/ Wrote(pdbSignups, pdbSignups', q.user, [pdb |-> q.pdb, asn |-> q.asn, approved |-> FALSE])
    BY <1>3 DEF FileEffect, SignupRowOf
  <2>2. Ends(w) /\ UNCHANGED <<users, tokens, profiles>>
    BY <1>3 DEF FileEffect
  <2>3. \A u : Approved(u)' => Approved(u) /\ pdbSignups'[u] = pdbSignups[u]
    BY <2>1 DEF Approved, Wrote
  <2>4. \A u \in DOMAIN pdbSignups' : Approved(u)' => u \in DOMAIN pdbSignups
    BY <2>3 DEF Approved
  <2>5. ApprovedMeansComplete'
    BY <1>1, <2>2, <2>3, <2>4 DEF ApprovedMeansComplete, Usable
  <2> QED BY <1>2, <2>2, <2>5
<1>4. CASE FileEffect(w, "finish", TRUE)
  <2>1. \/ UNCHANGED pdbSignups
        \/ Wrote(pdbSignups, pdbSignups', q.user, [pdb |-> q.pdb, asn |-> q.asn, approved |-> TRUE])
    BY <1>4 DEF FileEffect, SignupRowOf
  <2>2. Ends(w) /\ UNCHANGED <<users, tokens, profiles>> /\ q.at = "finish"
    BY <1>4 DEF FileEffect
  <2>3. /\ Usable(q.user) /\ q.user \in tokens
        /\ q.user \in DOMAIN profiles /\ profiles[q.user].pdb = q.pdb
    BY <1>1, <2>2, HandlerAt DEF Progress
  <2>4. \A u : Usable(u)' <=> Usable(u)
    BY <2>2 DEF Usable
  <2>5. ApprovedMeansComplete'
    BY <1>1, <2>1, <2>2, <2>3, <2>4 DEF ApprovedMeansComplete, Approved, Wrote
  <2> QED BY <1>2, <2>2, <2>5
<1>5. CASE LinkGetEffect(w)
  <2>1. /\ UNCHANGED <<users, tokens, pdbSignups>>
        /\ Ends(w) \/ Carries(w, "linkSave")
        /\ \A u \in DOMAIN profiles : u \in DOMAIN profiles' /\ profiles'[u] = profiles[u]
    BY <1>5 DEF LinkGetEffect, Wrote
  <2>2. Progress(w)'
    BY <1>2, <2>1, Carried DEF Progress, Refreshing
  <2>3. ApprovedMeansComplete'
    BY <1>1, <2>1 DEF ApprovedMeansComplete, Approved, Usable
  <2> QED BY <2>2, <2>3
<1>6. CASE LinkSaveEffect(w)
  <2>1. /\ UNCHANGED <<users, tokens, pdbSignups>> /\ q.at = "linkSave"
        /\ \/ Ends(w) /\ UNCHANGED profiles
           \/ /\ Carries(w, IF q.op = "login" THEN "token" ELSE "activate")
              /\ Wrote(profiles, profiles', q.user, [ring |-> q.ring, pdb |-> q.pdb])
    BY <1>6 DEF LinkSaveEffect
  <2>2. q.user \in DOMAIN pdbSignups => pdbSignups[q.user].pdb = q.pdb
    <3>1. Handles(q)
      BY <2>1, LinkerHolds DEF Linking, Handles
    <3> QED BY <1>1, <3>1 DEF Remembered, Facts, AccountsAre
  <2>3. ApprovedMeansComplete'
    BY <1>1, <2>1, <2>2 DEF ApprovedMeansComplete, Approved, Usable, Wrote
  <2>4. CASE Ends(w)
    BY <1>2, <2>3, <2>4
  <2>5. CASE ~Ends(w)
    <3>1. /\ q.user \in DOMAIN profiles' /\ profiles'[q.user].pdb = q.pdb
          /\ (Carries(w, "token") /\ q.op = "login") \/ Carries(w, "activate")
      BY <2>1, <2>5 DEF Wrote
    <3>2. /\ req'[w].op = q.op /\ req'[w].user = q.user /\ req'[w].pdb = q.pdb
          /\ (req'[w].at = "token" /\ q.op = "login") \/ req'[w].at = "activate"
      BY <3>1, Carried
    <3> QED BY <2>3, <3>1, <3>2 DEF Progress, Refreshing
  <2> QED BY <2>4, <2>5
<1>7. CASE TokenEffect(w)
  <2>1. /\ UNCHANGED <<users, profiles, pdbSignups>> /\ q.at = "token"
        /\ Ends(w) \/ (Carries(w, "finish") /\ q.op # "login" /\ q.user \in tokens')
        /\ tokens \subseteq tokens'
    BY <1>7 DEF TokenEffect
  <2>2. ApprovedMeansComplete'
    BY <1>1, <2>1 DEF ApprovedMeansComplete, Approved, Usable
  <2>3. CASE Ends(w)
    BY <1>2, <2>2, <2>3
  <2>4. CASE Carries(w, "finish") /\ q.op # "login" /\ q.user \in tokens'
    <3>1. /\ req'[w].op = q.op /\ req'[w].user = q.user /\ req'[w].pdb = q.pdb
          /\ req'[w].at = "finish" /\ q.op = "pdbApprove"
      BY <2>1, <2>4, Carried, HandlerAt
    <3>2. Usable(q.user) /\ q.user \in DOMAIN profiles /\ profiles[q.user].pdb = q.pdb
      BY <1>1, <2>1, <3>1 DEF Progress
    <3> QED BY <2>1, <2>2, <2>4, <3>1, <3>2 DEF Progress, Refreshing, Usable
  <2> QED BY <2>1, <2>3, <2>4
<1> QED BY <1>3, <1>4, <1>5, <1>6, <1>7

(* What is deleted is deleted together.                                    *)
LEMMA RejectComplete ==
  ASSUME Inv, Complete, OneWorker, NEW w \in Worker, RejectUserEffect(w) \/ RejectSignupEffect(w)
  PROVE  ApprovedMeansComplete' /\ Progress(w)'
<1> DEFINE q == req[w]
<1>1. ApprovedMeansComplete
  BY DEF Complete
<1>2. /\ Erased(pdbSignups, pdbSignups', q.user)
      /\ \A u \in DOMAIN users : u # q.user => u \in DOMAIN users' /\ users'[u] = users[u]
      /\ \A u \in DOMAIN profiles : u # q.user => u \in DOMAIN profiles' /\ profiles'[u] = profiles[u]
      /\ \A u \in tokens : u # q.user => u \in tokens'
      /\ Ends(w) \/ Carries(w, "deleteSignup")
  BY DEF RejectUserEffect, RejectSignupEffect, Erased
<1>3. ApprovedMeansComplete'
  BY <1>1, <1>2 DEF ApprovedMeansComplete, Approved, Usable, Erased
<1>4. req'[w].at \in {"idle", "deleteSignup"}
  BY <1>2, Carried DEF Ends, Idle
<1> QED BY <1>3, <1>4 DEF Progress, Refreshing

(* Every step keeps it.                                                    *)
LEMMA CompleteKept ==
  Inv /\ Roles /\ History /\ Ownership /\ Complete /\ [BackfillNext]_backfillVars => Complete'
<1> SUFFICES ASSUME Inv, Roles, History, Ownership, Complete, [BackfillNext]_backfillVars
             PROVE  Complete'
  OBVIOUS
<1>1. CASE UNCHANGED <<req, deployment, users, tokens, profiles, pdbSignups>>
  <2>1. UNCHANGED OneWorker
    BY <1>1, SameSite DEF OneWorker
  <2>2. ApprovedMeansComplete' <=> ApprovedMeansComplete
    BY <1>1 DEF ApprovedMeansComplete, Approved, Usable
  <2>3. \A w \in Worker : Progress(w)' <=> Progress(w)
    BY <1>1 DEF Progress, Usable
  <2> QED BY <2>1, <2>2, <2>3 DEF Complete
<1>2. UNCHANGED tables => UNCHANGED <<users, tokens, profiles, pdbSignups>>
  BY DEF tables
<1>3. ASSUME NEW w \in Worker, Acts(w) PROVE Complete'
  <2>1. PICK F, A : Facts(F, A)
    BY DEF History
  <2>2. OneWorker => ApprovedMeansComplete' /\ Progress(w)'
    BY <1>3, <2>1, QuietComplete, SaveComplete, LinkComplete, RejectComplete DEF Acts
  <2> QED BY <1>3, <2>2, CompleteStep
<1>4. ASSUME NEW r \in RingId, DestroyEffect(r) PROVE Complete'
  BY <1>1, <1>4 DEF DestroyEffect
<1> QED BY <1>1, <1>2, <1>3, <1>4, NextActs

(* At the start nothing is approved.                                       *)
LEMMA CompleteInit == BackfillInit => Complete /\ Roles
<1> SUFFICES ASSUME BackfillInit PROVE Complete /\ Roles
  OBVIOUS
<1>1. DOMAIN pdbSignups = {} /\ \A w \in Worker : req[w] = Idle
  BY DEF BackfillInit, Init, StoreInit
<1> QED BY <1>1 DEF Complete, ApprovedMeansComplete, Progress, Refreshing, Idle, Roles, May

(***************************************************************************)
(* Where one worker serves all requests, a signup that is marked approved  *)
(* has an active account with its identity and a token, wherever requests  *)
(* die, whoever logs in again and whatever is rejected or deleted.         *)
(***************************************************************************)
THEOREM ApprovalsAreComplete == BackfillSpec => []ApprovedIsComplete
<1>1. Complete => ApprovedIsComplete
  BY DEF Complete, ApprovedIsComplete
<1> QED BY <1>1, InitEstablishesInv, NextKeepsInv, HistoryInit, HistoryKept, OwnershipInit,
        OwnershipKept, RolesKept, CompleteInit, CompleteKept, PTL DEF BackfillSpec

-----------------------------------------------------------------------------
(***************************************************************************)
(* An account is open if it can be used, has a token, or is about to be    *)
(* saved active by a later login.  A pending one is so only in the hands   *)
(* of an approval that is about to mark it; a login that is about to queue *)
(* an account has closed it; and no identity is on file twice, so that the *)
(* approval does mark it.                                                  *)
(***************************************************************************)
Refreshes(w, u) == Refreshing(req[w].at) /\ req[w].user = u /\ req[w].active
Open(u) == Usable(u) \/ u \in tokens \/ \E w \in Worker : Refreshes(w, u)
Opens(w, u) == req[w].op = "pdbApprove" /\ req[w].at \in {"token", "finish"} /\ req[w].user = u
OnFileOnce ==
  \A u, v \in DOMAIN pdbSignups : pdbSignups[u].pdb = pdbSignups[v].pdb => u = v
Closed(w) == req[w].at = "queue" => ~Usable(req[w].user)
Locked ==
  /\ OnFileOnce
  /\ \A w \in Worker : Closed(w)
  /\ ~Faults => \A u \in UserId : Pending(u) /\ Open(u) => \E w \in Worker : Opens(w, u)

(* How an account is opened.                                               *)
LEMMA OpenBy ==
  ASSUME NEW w \in Worker, NEW step, Steps(w, step), NEW u, Open(u)'
  PROVE  Open(u) \/ Usable(u)' \/ u \in tokens' \/ Refreshes(w, u)'
<1>1. ASSUME NEW v \in Worker \ {w}, Refreshes(v, u)' PROVE Refreshes(v, u)
  BY <1>1 DEF Steps, Refreshes
<1> QED BY <1>1 DEF Open

(* Whoever is about to queue an account holds it alone.                    *)
LEMMA OthersClosed ==
  ASSUME Inv, Ownership, Locked, NEW w \in Worker, NEW step, Steps(w, step),
         \A u : Usable(u)' => Usable(u) \/ Holds(req[w], u) \/ u = lastUser + 1
  PROVE  \A v \in Worker \ {w} : Closed(v)'
<1> SUFFICES ASSUME NEW v \in Worker \ {w}, (req[v].at = "queue")' PROVE ~Usable(req[v].user)'
  BY DEF Closed
<1> DEFINE u == req[v].user
<1>1. req'[v] = req[v] /\ req[v].at = "queue"
  BY DEF Steps
<1>2. Unlinked(req[v]) /\ HasUser(req[v])
  BY <1>1, HandlerAt DEF Unlinked, Creates, HasUser, Looking, Refreshing
<1>3. ~Holds(req[w], u) /\ ~Usable(u)
  BY <1>1, <1>2 DEF Ownership, CreatorsAlone, Alone, Locked, Closed
<1>4. u # lastUser + 1
  <2>1. u \in Nat /\ u <= lastUser /\ lastUser \in Nat
    BY <1>2, Actor, StoreAssumption DEF Shape, UserId
  <2> QED BY <2>1
<1>5. PICK x : x = u
  OBVIOUS
<1>6. ~Usable(x)'
  BY <1>3, <1>4, <1>5
<1> QED BY <1>1, <1>5, <1>6 DEF Usable

(* What is to be shown of a step of one request.                           *)
LEMMA LockedStep ==
  ASSUME Inv, Ownership, Locked, NEW w \in Worker, NEW step, Steps(w, step), OnFileOnce',
         \A u : Usable(u)' => Usable(u) \/ Holds(req[w], u) \/ u = lastUser + 1,
         Closed(w)',
         ~Faults => \A u \in UserId :
           /\ Pending(u)' /\ Open(u)' => (Pending(u) /\ Open(u)) \/ Opens(w, u)'
           /\ Pending(u)' /\ Opens(w, u) => Opens(w, u)'
  PROVE  Locked'
<1>1. \A v \in Worker : Closed(v)'
  BY OthersClosed
<1>2. ASSUME ~Faults, NEW u \in UserId, Pending(u)', Open(u)'
      PROVE  \E v \in Worker : Opens(v, u)'
  <2>1. CASE Opens(w, u)'
    BY <2>1
  <2>2. CASE ~Opens(w, u)'
    <3>1. PICK v \in Worker : Opens(v, u)
      BY <1>2, <2>2 DEF Locked
    <3>2. v # w
      BY <1>2, <2>2, <3>1
    <3> QED BY <3>1, <3>2 DEF Opens, Steps
  <2> QED BY <2>1, <2>2
<1>3. Faults' = Faults
  BY SameSite DEF Steps
<1> QED BY <1>1, <1>2, <1>3 DEF Locked

(* Steps that neither save accounts nor write signups.                     *)
LEMMA QuietLocked ==
  ASSUME Inv, Ownership, Locked, NEW w \in Worker, NEW step, Steps(w, step),
         UNCHANGED <<users, tokens, pdbSignups>>, step # "queue",
         \A u : Refreshes(w, u)' => Open(u),
         ~Faults => \A u : Opens(w, u) => Opens(w, u)'
  PROVE  Locked'
<1>1. OnFileOnce' /\ Closed(w)'
  BY DEF Locked, OnFileOnce, Closed, Steps
<1>2. \A u : /\ Usable(u)' <=> Usable(u)
             /\ Pending(u)' <=> Pending(u)
  BY DEF Usable, Pending
<1>3. \A u : Open(u)' => Open(u)
  BY <1>2, OpenBy DEF Open
<1> QED BY <1>1, <1>2, <1>3, LockedStep

(* A request that is somewhere else opens nothing.                         *)
LEMMA OpensNothing ==
  ASSUME NEW w \in Worker, req[w].at \notin {"token", "finish"}
  PROVE  \A u : ~Opens(w, u)
BY DEF Opens

(* The beginning of requests, and the statements about other tables.       *)
LEMMA GoingLocked ==
  ASSUME Inv, Ownership, Locked, NEW w \in Worker,
         \/ \E pdb \in Pdb, asn \in Asn : LoginEffect(w, pdb, asn)
         \/ \E u \in UserId : OpenApprovalEffect(w, u)
         \/ \E u \in UserId : OpenRejectionEffect(w, u)
         \/ SyncRingEffect(w) \/ ResolveEffect(w) \/ CreateOrgEffect(w) \/ AsnGetEffect(w)
         \/ AsnSaveEffect(w) \/ PickNameEffect(w) \/ CreateRingEffect(w) \/ DieEffect(w)
         \/ LinkGetEffect(w) \/ LinkSaveEffect(w)
  PROVE  Locked'
<1>1. UNCHANGED <<users, tokens, pdbSignups>>
  BY DEF LoginEffect, OpenApprovalEffect, OpenRejectionEffect, SyncRingEffect, ResolveEffect,
     CreateOrgEffect, AsnGetEffect, AsnSaveEffect, PickNameEffect, CreateRingEffect, DieEffect,
     LinkGetEffect, LinkSaveEffect, tables
<1>2. ASSUME NEW pdb \in Pdb, NEW asn \in Asn, LoginEffect(w, pdb, asn) PROVE Locked'
  <2>1. CASE Steps(w, "resolve")
    BY <1>1, <1>2, <2>1, QuietLocked, OpensNothing
       DEF LoginEffect, Refreshes, Refreshing, Steps
  <2>2. CASE ~Steps(w, "resolve")
    <3>1. /\ Steps(w, "updateRing") /\ req'[w].user \in DOMAIN users /\ req[w].at = "idle"
          /\ req'[w].active = users[req'[w].user].active
      BY <1>2, <2>2 DEF LoginEffect
    <3>2. \A u : Refreshes(w, u)' => Open(u)
      BY <3>1 DEF Refreshes, Open, Usable
    <3> QED BY <1>1, <3>1, <3>2, QuietLocked, OpensNothing
  <2> QED BY <2>1, <2>2
<1>3. CASE SyncRingEffect(w) /\ Carries(w, "sync")
  <2>1. req[w].at = "updateRing"
    BY <1>3 DEF SyncRingEffect
  <2>2. \A u : Refreshes(w, u)' => Refreshes(w, u)
    BY <1>3, <2>1, Carried DEF Refreshes, Refreshing
  <2>3. Steps(w, "sync")
    BY <1>3, Carried
  <2> QED BY <1>1, <2>1, <2>2, <2>3, QuietLocked, OpensNothing DEF Open
<1>4. ASSUME NEW step, Steps(w, step), step \notin {"queue", "updateRing", "sync"},
             Faults \/ req[w].at \notin {"token", "finish"}
      PROVE  Locked'
  <2>1. \A u : ~Refreshes(w, u)'
    BY <1>4 DEF Steps, Refreshes, Refreshing
  <2> QED BY <1>1, <1>4, <2>1, QuietLocked, OpensNothing
<1>5. \A step : Carries(w, step) => Steps(w, step)
  BY DEF Carries
<1>6. Ends(w) => Steps(w, "idle")
  BY DEF Ends
<1>7. ASSUME NEW u \in UserId, OpenApprovalEffect(w, u) \/ OpenRejectionEffect(w, u) PROVE Locked'
  BY <1>4, <1>7 DEF OpenApprovalEffect, OpenRejectionEffect
<1>8. CASE \/ ResolveEffect(w) \/ CreateOrgEffect(w) \/ AsnGetEffect(w)
           \/ AsnSaveEffect(w) \/ PickNameEffect(w)
  BY <1>4, <1>5, <1>6, <1>8 DEF ResolveEffect, CreateOrgEffect, AsnGetEffect,
     AsnSaveEffect, PickNameEffect
<1>9. CASE CreateRingEffect(w) \/ DieEffect(w) \/ LinkGetEffect(w)
  BY <1>4, <1>5, <1>6, <1>9 DEF CreateRingEffect, DieEffect, LinkGetEffect
<1>10. CASE LinkSaveEffect(w)
  BY <1>4, <1>5, <1>6, <1>10 DEF LinkSaveEffect
<1>11. CASE SyncRingEffect(w) /\ ~Carries(w, "sync")
  BY <1>4, <1>6, <1>11 DEF SyncRingEffect
<1> QED BY <1>2, <1>3, <1>7, <1>8, <1>9, <1>10, <1>11

(* Saving an account.                                                      *)
LEMMA SaveLocked ==
  ASSUME Inv, Ownership, Locked, NEW w \in Worker,
         \/ SyncUserEffect(w) \/ CreateUserEffect(w) \/ DeactivateEffect(w) \/ ActivateEffect(w)
  PROVE  Locked'
<1> DEFINE q == req[w]
<1>1. UNCHANGED <<tokens, pdbSignups>> /\ Alone(w) /\ q.at \notin {"token", "finish"}
  BY DEF SyncUserEffect, CreateUserEffect, DeactivateEffect, ActivateEffect, SaveEffect,
     Ownership, CreatorsAlone
<1>2. OnFileOnce' /\ \A u : /\ Pending(u)' <=> Pending(u)
                            /\ ~Opens(w, u)
  BY <1>1 DEF Locked, OnFileOnce, Pending, Opens
<1>3. CASE UNCHANGED users /\ Ends(w)
  BY <1>1, <1>2, <1>3, QuietLocked DEF Ends, Idle, Refreshes, Refreshing
<1>4. ASSUME NEW step \in {"idle", "queue", "createRing", "token"}, Steps(w, step),
             NEW row, Wrote(users, users', q.user, row), HasUser(q), Closed(w)',
             row.active /\ Pending(q.user) => Open(q.user)
      PROVE  Locked'
  <2>1. \A u : Usable(u)' => Usable(u) \/ (u = q.user /\ row.active)
    BY <1>4 DEF Usable, Wrote
  <2>2. \A u : ~Refreshes(w, u)'
    BY <1>4 DEF Steps, Refreshes, Refreshing
  <2>3. \A u : Pending(u)' /\ Open(u)' => Pending(u) /\ Open(u)
    BY <1>1, <1>2, <1>4, <2>1, <2>2, OpenBy DEF Open
  <2>4. \A u : Usable(u)' => Usable(u) \/ Holds(req[w], u) \/ u = lastUser + 1
    BY <1>4, <2>1 DEF Holds
  <2> QED BY <1>2, <1>4, <2>3, <2>4, LockedStep
<1>5. CASE SyncUserEffect(w)
  <2>1. q.at = "sync" /\ Ends(w) /\ HasUser(q)
    BY <1>5, HandlerAt DEF SyncUserEffect, HasUser, Looking
  <2>2. q.active => Refreshes(w, q.user)
    BY <2>1 DEF Refreshes, Refreshing
  <2>3. q.active => Open(q.user)
    BY <2>2 DEF Open
  <2>4. Closed(w)' /\ Steps(w, "idle")
    BY <2>1 DEF Ends, Idle, Closed
  <2>5. UNCHANGED users \/ Wrote(users, users', q.user, [name |-> q.name, active |-> q.active])
    BY <1>5 DEF SyncUserEffect
  <2> QED BY <1>3, <1>4, <2>1, <2>3, <2>4, <2>5
<1>6. CASE CreateUserEffect(w)
  <2>1. CASE Ends(w) /\ UNCHANGED users
    BY <1>3, <2>1
  <2>2. CASE ~(Ends(w) /\ UNCHANGED users)
    <3>1. PICK n : n = lastUser + 1
      OBVIOUS
    <3>2. PICK step \in {"deactivate", "activate"} : Steps(w, step)
      BY <1>6, <2>2 DEF CreateUserEffect
    <3>3. Wrote(users, users', n, [name |-> q.name, active |-> TRUE])
      BY <1>6, <2>2, <3>1 DEF CreateUserEffect
    <3>4. n \notin DOMAIN pdbSignups
      <4>1. \A u \in DOMAIN pdbSignups : u <= lastUser /\ u \in Nat
        BY TablesTyped, UserRows, StoreAssumption DEF Referential, UserId
      <4>2. lastUser \in Nat
        BY Actor
      <4> QED BY <3>1, <4>1, <4>2
    <3>5. \A u : Usable(u)' => Usable(u) \/ u = n
      BY <3>3 DEF Usable, Wrote
    <3>6. Closed(w)' /\ \A u : ~Refreshes(w, u)'
      BY <3>2 DEF Closed, Steps, Refreshes, Refreshing
    <3>7. \A u : Pending(u)' /\ Open(u)' => Pending(u) /\ Open(u)
      BY <1>1, <1>2, <3>2, <3>4, <3>5, <3>6, OpenBy DEF Open, Pending
    <3> QED BY <1>2, <3>1, <3>2, <3>5, <3>6, <3>7, LockedStep
  <2> QED BY <2>1, <2>2
<1>7. CASE DeactivateEffect(w)
  <2>1. \/ UNCHANGED users /\ Ends(w)
        \/ Carries(w, "queue") /\ Wrote(users, users', q.user, [name |-> q.name, active |-> FALSE])
    BY <1>7 DEF DeactivateEffect, SaveEffect
  <2>2. CASE Carries(w, "queue") /\ Wrote(users, users', q.user, [name |-> q.name, active |-> FALSE])
    <3>1. HasUser(q)
      BY <1>7, HandlerAt DEF DeactivateEffect, SaveEffect, HasUser, Looking
    <3>2. Closed(w)' /\ Steps(w, "queue")
      BY <2>2, Carried DEF Closed, Usable, Wrote
    <3> QED BY <1>4, <2>2, <3>1, <3>2
  <2> QED BY <1>3, <2>1, <2>2
<1>8. CASE ActivateEffect(w)
  <2>1. \/ UNCHANGED users /\ Ends(w)
        \/ /\ Carries(w, IF q.op = "login" THEN "createRing" ELSE "token")
           /\ Wrote(users, users', q.user, [name |-> q.name, active |-> TRUE])
    BY <1>8 DEF ActivateEffect, SaveEffect
  <2>2. q.at = "activate" /\ HasUser(q) /\ q.op \in {"login", "pdbApprove"}
    BY <1>8, HandlerAt DEF ActivateEffect, SaveEffect, HasUser, Looking
  <2>3. CASE /\ q.op = "login" /\ Carries(w, "createRing")
             /\ Wrote(users, users', q.user, [name |-> q.name, active |-> TRUE])
    <3>1. ~Pending(q.user)
      BY <1>1, <2>2, <2>3 DEF Alone, Creates, Refreshing, Pending
    <3>2. Closed(w)' /\ Steps(w, "createRing")
      BY <2>3, Carried DEF Closed
    <3> QED BY <1>4, <2>2, <2>3, <3>1, <3>2
  <2>4. CASE /\ q.op = "pdbApprove" /\ Carries(w, "token")
             /\ Wrote(users, users', q.user, [name |-> q.name, active |-> TRUE])
    <3>1. PICK n : n = q.user
      OBVIOUS
    <3>2. Closed(w)' /\ Steps(w, "token") /\ Opens(w, n)'
      BY <2>4, <3>1, Carried DEF Closed, Opens
    <3>3. \A u : Usable(u)' => Usable(u) \/ u = n
      BY <2>4, <3>1 DEF Usable, Wrote
    <3>4. \A u : ~Refreshes(w, u)'
      BY <3>2 DEF Steps, Refreshes, Refreshing
    <3>7. \A u : Open(u)' => Open(u) \/ u = n
      BY <1>1, <3>2, <3>3, <3>4, OpenBy DEF Open
    <3>5. \A u : Pending(u)' /\ Open(u)' => (Pending(u) /\ Open(u)) \/ Opens(w, u)'
      <4>1. \A u : Pending(u)' => Pending(u)
        BY <1>2
      <4>2. \A u : u = n => Opens(w, u)'
        BY <3>2
      <4> QED BY <4>1, <4>2, <3>7
    <3>6. \A u : Usable(u)' => Usable(u) \/ Holds(req[w], u) \/ u = lastUser + 1
      BY <2>2, <3>1, <3>3 DEF Holds
    <3> QED BY <1>2, <3>2, <3>5, <3>6, LockedStep
  <2> QED BY <1>3, <2>1, <2>2, <2>3, <2>4
<1> QED BY <1>5, <1>6, <1>7, <1>8

(* Filing: an account is put on file closed, or is approved.               *)
LEMMA FileLocked ==
  ASSUME Inv, Ownership, Locked, NEW F, NEW A, Facts(F, A), NEW w \in Worker,
         \/ FileEffect(w, "queue", FALSE) \/ FileEffect(w, "finish", TRUE)
  PROVE  Locked'
<1> DEFINE q == req[w]
<1>0. PICK n : n = q.user
  OBVIOUS
<1>1. /\ UNCHANGED <<users, tokens, profiles>> /\ Ends(w) /\ Steps(w, "idle")
      /\ q.at \in {"queue", "finish"}
  BY DEF FileEffect, Ends
<1>2. /\ \A u : Usable(u)' <=> Usable(u)
      /\ \A u : ~Refreshes(w, u)' /\ ~Opens(w, u)'
      /\ Closed(w)'
  BY <1>1 DEF Usable, Ends, Idle, Refreshes, Refreshing, Opens, Closed
<1>3. \A u : Open(u)' => Open(u)
  BY <1>1, <1>2, OpenBy DEF Open
<1>4. Handles(q) /\ HasUser(q) /\ Remembered(q, F, A)
  BY <1>1, HandlerAt DEF Handles, HasUser, Looking, Facts, RequestsAre
<1>5. n \in DOMAIN pdbSignups => pdbSignups[n].pdb = q.pdb
  BY <1>0, <1>4 DEF Remembered, Facts, AccountsAre
<1>6. ASSUME UNCHANGED pdbSignups PROVE OnFileOnce' /\ \A u : Pending(u)' <=> Pending(u)
  BY <1>6 DEF Locked, OnFileOnce, Pending
<1>7. ASSUME NEW row, row.pdb = q.pdb, Wrote(pdbSignups, pdbSignups', n, row),
             \A u \in DOMAIN pdbSignups : u # n => pdbSignups[u].pdb # q.pdb
      PROVE  OnFileOnce' /\ \A u : u # n => (Pending(u)' <=> Pending(u))
  BY <1>7 DEF Locked, OnFileOnce, Pending, Wrote
<1>8. CASE FileEffect(w, "queue", FALSE)
  <2>1. q.at = "queue"
    BY <1>8 DEF FileEffect
  <2>2. ~Open(n)
    <3>1. ~Usable(n)
      BY <1>0, <2>1 DEF Locked, Closed
    <3>2. Unlinked(q)
      BY <1>4, <2>1, HandlerAt DEF Unlinked, Creates, Refreshing
    <3>3. n \notin tokens /\ \A v \in Worker \ {w} : ~Holds(req[v], n)
      BY <1>0, <3>2 DEF Ownership, CreatorsAlone, Alone
    <3>4. \A v \in Worker : ~Refreshes(v, n)
      <4>1. \A v \in Worker : Refreshing(req[v].at) => HasUser(req[v])
        BY HandlerAt DEF Refreshing, HasUser, Looking
      <4> QED BY <2>1, <3>3, <4>1 DEF Refreshes, Holds, Refreshing
    <3> QED BY <3>1, <3>3, <3>4 DEF Open
  <2>3. OnFileOnce' /\ \A u : u # n => (Pending(u)' <=> Pending(u))
    <3>1. \/ UNCHANGED pdbSignups
          \/ /\ Wrote(pdbSignups, pdbSignups', n, SignupRowOf(w, FALSE))
             /\ \A u \in DOMAIN pdbSignups : pdbSignups[u].pdb # q.pdb
      BY <1>0, <1>8 DEF FileEffect
    <3>2. SignupRowOf(w, FALSE).pdb = q.pdb
      BY DEF SignupRowOf
    <3> QED BY <1>6, <1>7, <3>1, <3>2
  <2>4. \A u : ~Opens(w, u)
    BY <2>1, OpensNothing
  <2>5. \A u : Pending(u)' /\ Open(u)' => Pending(u) /\ Open(u)
    BY <1>3, <2>2, <2>3
  <2> QED BY <1>1, <1>2, <2>3, <2>4, <2>5, LockedStep
<1>9. CASE FileEffect(w, "finish", TRUE)
  <2>1. ~Pending(n)' /\ OnFileOnce' /\ \A u : u # n => (Pending(u)' <=> Pending(u))
    <3>1. CASE /\ Wrote(pdbSignups, pdbSignups', n, SignupRowOf(w, TRUE))
               /\ \A u \in DOMAIN pdbSignups : u # n => pdbSignups[u].pdb # q.pdb
      <4>1. SignupRowOf(w, TRUE).pdb = q.pdb /\ SignupRowOf(w, TRUE).approved
        BY DEF SignupRowOf
      <4>2. ~Pending(n)'
        BY <3>1, <4>1 DEF Pending, Wrote
      <4> QED BY <1>7, <3>1, <4>1, <4>2
    <3>2. CASE /\ UNCHANGED pdbSignups
               /\ \/ n \notin DOMAIN users
                  \/ \E u \in DOMAIN pdbSignups : u # n /\ pdbSignups[u].pdb = q.pdb
      <4>1. n \notin DOMAIN pdbSignups
        BY <1>5, <3>2, TablesTyped DEF Referential, Locked, OnFileOnce
      <4> QED BY <1>6, <3>2, <4>1 DEF Pending
    <3> QED BY <1>0, <1>9, <3>1, <3>2 DEF FileEffect
  <2>2. \A u : Opens(w, u) => u = n
    BY <1>0 DEF Opens
  <2> QED BY <1>1, <1>2, <1>3, <2>1, <2>2, LockedStep
<1> QED BY <1>8, <1>9

(* The token of a pending account is issued by its approval.               *)
LEMMA TokenLocked ==
  ASSUME Inv, Ownership, Locked, NEW w \in Worker, TokenEffect(w)
  PROVE  Locked'
<1> DEFINE q == req[w]
<1>0. PICK n : n = q.user
  OBVIOUS
<1>1. /\ UNCHANGED <<users, profiles, pdbSignups>> /\ q.at = "token"
      /\ \/ n \notin DOMAIN users /\ Ends(w) /\ UNCHANGED tokens
         \/ /\ tokens' = tokens \union {n}
            /\ IF q.op = "login" THEN Ends(w) ELSE Carries(w, "finish")
  BY <1>0 DEF TokenEffect
<1>2. /\ \A u : Usable(u)' <=> Usable(u)
      /\ \A u : Pending(u)' <=> Pending(u)
      /\ OnFileOnce'
  BY <1>1 DEF Usable, Pending, Locked, OnFileOnce
<1>3. req'[w].at \in {"idle", "finish"} /\ \E step : Steps(w, step)
  BY <1>1, Carried DEF Ends, Idle
<1>4. Closed(w)' /\ \A u : ~Refreshes(w, u)'
  BY <1>3 DEF Closed, Refreshes, Refreshing
<1>5. \A u : Open(u)' => Open(u) \/ u \in tokens'
  BY <1>2, <1>3, <1>4, OpenBy DEF Open
<1>6. \A u : Opens(w, u) => u = n
  BY <1>0 DEF Opens
<1>7. Pending(n) => Opens(w, n)'
  <2>1. ASSUME Pending(n) PROVE n \in DOMAIN users /\ q.op # "login"
    <3>1. n \in DOMAIN users
      BY <2>1, TablesTyped DEF Pending, Referential
    <3>2. ASSUME q.op = "login" PROVE FALSE
      <4>1. Creates(q)
        BY <1>1, <3>2 DEF Creates, HasUser, Looking, Refreshing
      <4> QED BY <1>0, <2>1, <4>1 DEF Ownership, CreatorsAlone, Alone, Pending
    <3> QED BY <3>1, <3>2
  <2>2. ASSUME Pending(n)
        PROVE  req'[w].op = "pdbApprove" /\ req'[w].at = "finish" /\ req'[w].user = n
    <3>1. q.op = "pdbApprove"
      BY <1>1, <2>1, <2>2, HandlerAt
    <3> QED BY <1>0, <1>1, <2>1, <2>2, <3>1, Carried
  <2> QED BY <2>2 DEF Opens
<1>8. \A u : u \in tokens' => u \in tokens \/ u = n
  BY <1>1
<1>9. \A u : Pending(u)' /\ Open(u)' => (Pending(u) /\ Open(u)) \/ Opens(w, u)'
  BY <1>2, <1>5, <1>7, <1>8 DEF Open
<1> QED BY <1>2, <1>3, <1>4, <1>6, <1>7, <1>9, LockedStep

(* A rejection takes the signup with the account.                          *)
LEMMA RejectLocked ==
  ASSUME Inv, Ownership, Locked, NEW w \in Worker, RejectUserEffect(w) \/ RejectSignupEffect(w)
  PROVE  Locked'
<1>1. /\ req[w].at \in {"deleteUser", "deleteSignup"} /\ tokens' \subseteq tokens
      /\ \A u \in DOMAIN pdbSignups' : u \in DOMAIN pdbSignups /\ pdbSignups'[u] = pdbSignups[u]
      /\ \A u \in DOMAIN users' : u \in DOMAIN users /\ users'[u] = users[u]
      /\ Ends(w) \/ Carries(w, "deleteSignup")
  BY DEF RejectUserEffect, RejectSignupEffect, Erased
<1>2. /\ \A u : Usable(u)' => Usable(u)
      /\ \A u : Pending(u)' => Pending(u)
      /\ OnFileOnce'
  BY <1>1 DEF Usable, Pending, Locked, OnFileOnce
<1>3. req'[w].at \in {"idle", "deleteSignup"} /\ \E step : Steps(w, step)
  BY <1>1, Carried DEF Ends, Idle
<1>4. Closed(w)' /\ \A u : ~Refreshes(w, u)'
  BY <1>3 DEF Closed, Refreshes, Refreshing
<1>5. \A u : Open(u)' => Open(u)
  BY <1>1, <1>2, <1>3, <1>4, OpenBy DEF Open
<1>6. \A u : ~Opens(w, u)
  BY <1>1, OpensNothing
<1> QED BY <1>2, <1>3, <1>4, <1>5, <1>6, LockedStep

(* Every step keeps pending accounts locked.                               *)
LEMMA LockedKept ==
  Inv /\ History /\ Ownership /\ Locked /\ [BackfillNext]_backfillVars => Locked'
<1> SUFFICES ASSUME Inv, History, Ownership, Locked, [BackfillNext]_backfillVars
             PROVE  Locked'
  OBVIOUS
<1>1. CASE UNCHANGED <<req, deployment, users, tokens, pdbSignups>>
  <2>1. Faults' = Faults
    BY <1>1, SameSite
  <2>2. OnFileOnce' /\ \A w \in Worker : Closed(w)'
    BY <1>1 DEF Locked, OnFileOnce, Closed, Usable
  <2>3. \A u : /\ Pending(u)' <=> Pending(u)
               /\ Open(u)' <=> Open(u)
               /\ \A w \in Worker : Opens(w, u)' <=> Opens(w, u)
    BY <1>1 DEF Pending, Open, Usable, Refreshes, Opens
  <2> QED BY <2>1, <2>2, <2>3 DEF Locked
<1>2. UNCHANGED tables => UNCHANGED <<users, tokens, pdbSignups>>
  BY DEF tables
<1>3. ASSUME NEW w \in Worker, Acts(w) PROVE Locked'
  <2>1. PICK F, A : Facts(F, A)
    BY DEF History
  <2> QED BY <1>3, <2>1, GoingLocked, SaveLocked, FileLocked, TokenLocked, RejectLocked DEF Acts
<1>4. ASSUME NEW r \in RingId, DestroyEffect(r) PROVE Locked'
  BY <1>1, <1>4 DEF DestroyEffect
<1> QED BY <1>1, <1>2, <1>3, <1>4, NextActs

(* At the start nothing is on file.                                        *)
LEMMA LockedInit == BackfillInit => Locked
<1> SUFFICES ASSUME BackfillInit PROVE Locked
  OBVIOUS
<1>1. DOMAIN pdbSignups = {} /\ \A w \in Worker : req[w] = Idle
  BY DEF BackfillInit, Init, StoreInit
<1> QED BY <1>1 DEF Locked, OnFileOnce, Closed, Pending, Idle

(***************************************************************************)
(* Where requests run to their end, a queued account that no admin has     *)
(* approved can neither log in nor use the API once nothing is running,    *)
(* whoever logged in, approved, rejected or deleted beside each other.     *)
(***************************************************************************)
THEOREM PendingAreLocked == BackfillSpec => []PendingIsLocked
<1>1. Locked => PendingIsLocked
  <2> SUFFICES ASSUME Locked, ~Faults, Quiescent, NEW u \in UserId, Pending(u), Open(u)
               PROVE  FALSE
    BY DEF PendingIsLocked, Open
  <2>1. PICK w \in Worker : Opens(w, u)
    BY DEF Locked
  <2>2. req[w] = Idle
    BY DEF Quiescent
  <2> QED BY <2>1, <2>2 DEF Opens, Idle
<1> QED BY <1>1, InitEstablishesInv, NextKeepsInv, HistoryInit, HistoryKept, OwnershipInit,
        OwnershipKept, LockedInit, LockedKept, PTL DEF BackfillSpec

-----------------------------------------------------------------------------
(***************************************************************************)
(* What a request is about to link: a ring user that is there where none   *)
(* is deleted; and, there or where no requests overlap, the only one that  *)
(* has its name.                                                           *)
(***************************************************************************)
There(w) ==
  Removable = {} /\ HasRing(req[w].at) => req[w].ring \in DOMAIN ringUsers
OnlyOne(w) ==
  (Removable = {} \/ OneWorker) /\ req[w].at \in {"linkGet", "linkSave"} =>
    \A r \in DOMAIN ringUsers : ringUsers[r].name = req[w].name => r = req[w].ring
Steady == \A w \in Worker : There(w) /\ OnlyOne(w)

(* Steps that leave the ring users as they are.                            *)
LEMMA QuietSteady ==
  ASSUME Steady, NEW w \in Worker, NEW step, Steps(w, step), UNCHANGED ringUsers,
         HasRing(step) => req'[w].ring \in DOMAIN ringUsers \/ (HasRing(req[w].at) /\ req'[w].ring = req[w].ring),
         step \in {"linkGet", "linkSave"} =>
           /\ req[w].at \in {"linkGet", "linkSave"}
           /\ req'[w].ring = req[w].ring /\ req'[w].name = req[w].name
  PROVE  Steady'
<1>1. (Removable' = Removable) /\ (OneWorker' <=> OneWorker)
  BY SameSite DEF Steps, OneWorker
<1>2. \A v \in Worker \ {w} : There(v)' /\ OnlyOne(v)'
  BY <1>1 DEF Steady, There, OnlyOne, Steps
<1>3. There(w)' /\ OnlyOne(w)'
  BY <1>1 DEF Steady, There, OnlyOne, Steps
<1> QED BY <1>2, <1>3 DEF Steady

(* Where no ring user is deleted, or no requests overlap, a name that is   *)
(* free for a new ring user is not the name of one being linked.           *)
LEMMA OthersSteady ==
  ASSUME Inv, Roles, NEW F, NEW A, Facts(F, A), Steady, NEW w \in Worker, NEW step, Steps(w, step),
         NEW k, NEW row, Wrote(ringUsers, ringUsers', k, row), req[w].at # "idle",
         Removable = {} => (k \in DOMAIN ringUsers /\ row = ringUsers[k]) \/ ~Taken(row.name, ringUsers)
  PROVE  \A v \in Worker \ {w} : There(v)' /\ OnlyOne(v)'
<1> SUFFICES ASSUME NEW v \in Worker \ {w} PROVE There(v)' /\ OnlyOne(v)'
  OBVIOUS
<1> DEFINE q == req[v]
<1>1. (Removable' = Removable) /\ (OneWorker' <=> OneWorker) /\ req'[v] = q
  BY SameSite DEF Steps, OneWorker
<1>2. There(v) /\ OnlyOne(v)
  BY DEF Steady
<1>3. There(v)'
  BY <1>1, <1>2 DEF There, Wrote
<1>4. ASSUME OneWorker PROVE OnlyOne(v)'
  <2>1. q.at = "idle"
    BY <1>4, OthersIdle
  <2> QED BY <1>1, <2>1 DEF OnlyOne
<1>5. ASSUME Removable = {}, q.at \in {"linkGet", "linkSave"}, NEW r \in DOMAIN ringUsers',
             ringUsers'[r].name = q.name
      PROVE  r = q.ring
  <2>1. q.ring \in DOMAIN ringUsers /\ ringUsers[q.ring].name = q.name
    BY <1>2, <1>5 DEF There, HasRing, Facts, RowsAre, RequestsAre, Remembered
  <2>2. r \in DOMAIN ringUsers /\ ringUsers[r] = ringUsers'[r]
    BY <1>5, <2>1 DEF Wrote, Taken
  <2> QED BY <1>2, <1>5, <2>2 DEF OnlyOne
<1>6. ASSUME Removable = {} PROVE OnlyOne(v)'
  BY <1>1, <1>5, <1>6 DEF OnlyOne
<1> QED BY <1>1, <1>3, <1>4, <1>6 DEF OnlyOne

(* A later login saves the ring user as it was.                            *)
LEMMA SyncSteady ==
  ASSUME Inv, Roles, NEW F, NEW A, Facts(F, A), Steady, NEW w \in Worker, SyncRingEffect(w)
  PROVE  Steady'
<1> DEFINE q == req[w]
<1>1. q.at = "updateRing"
  BY DEF SyncRingEffect
<1>2. CASE UNCHANGED ringUsers
  BY <1>2, QuietSteady DEF SyncRingEffect, Carries, Ends, HasRing
<1>3. CASE ~UNCHANGED ringUsers
  <2>1. Steps(w, "sync") /\ Wrote(ringUsers, ringUsers', q.ring, q.row)
    BY <1>3 DEF SyncRingEffect, Carries
  <2>2. Removable = {} => q.ring \in DOMAIN ringUsers /\ q.row = ringUsers[q.ring]
    BY <1>1 DEF Steady, There, HasRing, Facts, RowsAre, RequestsAre, Remembered
  <2>3. \A v \in Worker \ {w} : There(v)' /\ OnlyOne(v)'
    BY <1>1, <2>1, <2>2, OthersSteady
  <2>4. There(w)' /\ OnlyOne(w)'
    BY <2>1 DEF Steps, There, OnlyOne, HasRing
  <2> QED BY <2>3, <2>4 DEF Steady
<1> QED BY <1>2, <1>3

(* A new ring user is the only one of its name.                            *)
LEMMA CreateRingSteady ==
  ASSUME Inv, Roles, NEW F, NEW A, Facts(F, A), Steady, NEW w \in Worker, CreateRingEffect(w)
  PROVE  Steady'
<1> DEFINE q == req[w]
<1>1. q.at = "createRing"
  BY DEF CreateRingEffect
<1>2. CASE Ends(w) /\ UNCHANGED ringUsers
  BY <1>2, QuietSteady DEF Ends, HasRing
<1>3. CASE ~(Ends(w) /\ UNCHANGED ringUsers)
  <2>1. PICK n : n = lastRing + 1
    OBVIOUS
  <2>2. PICK row : row = [name |-> q.name, org |-> q.org, admin |-> FALSE]
    OBVIOUS
  <2>3. /\ Steps(w, "linkGet") /\ ~Taken(q.name, ringUsers) /\ Wrote(ringUsers, ringUsers', n, row)
        /\ req'[w].ring = n /\ req'[w].name = q.name
    BY <1>3, <2>1, <2>2 DEF CreateRingEffect, SameUser
  <2>4. \A v \in Worker \ {w} : There(v)' /\ OnlyOne(v)'
    BY <1>1, <2>2, <2>3, OthersSteady
  <2>5. There(w)'
    BY <2>3 DEF There, Wrote
  <2>6. OnlyOne(w)'
    BY <2>3 DEF OnlyOne, Wrote, Taken
  <2> QED BY <2>4, <2>5, <2>6 DEF Steady
<1> QED BY <1>2, <1>3

(* The other statements.                                                   *)
LEMMA GoingSteady ==
  ASSUME Inv, Steady, NEW w \in Worker, Acts(w), ~SyncRingEffect(w), ~CreateRingEffect(w)
  PROVE  Steady'
<1>1. UNCHANGED ringUsers
  BY DEF Acts, LoginEffect, OpenApprovalEffect, OpenRejectionEffect, ResolveEffect, CreateOrgEffect,
     AsnGetEffect, AsnSaveEffect, PickNameEffect, DieEffect, SyncUserEffect, CreateUserEffect,
     DeactivateEffect, ActivateEffect, SaveEffect, FileEffect, LinkGetEffect, LinkSaveEffect,
     TokenEffect, RejectUserEffect, RejectSignupEffect, tables
<1>2. ASSUME NEW step, Steps(w, step), ~HasRing(step) PROVE Steady'
  BY <1>1, <1>2, QuietSteady DEF HasRing
<1>3. \A step : Carries(w, step) => Steps(w, step)
  BY DEF Carries
<1>4. Ends(w) => Steady'
  BY <1>2 DEF Ends, HasRing
<1>5. ASSUME NEW pdb \in Pdb, NEW asn \in Asn, LoginEffect(w, pdb, asn) PROVE Steady'
  <2>1. CASE Steps(w, "resolve")
    BY <1>2, <2>1 DEF HasRing
  <2>2. CASE ~Steps(w, "resolve")
    <3>1. Steps(w, "updateRing") /\ req'[w].ring \in DOMAIN ringUsers
      BY <1>5, <2>2 DEF LoginEffect, LinkedLive
    <3> QED BY <1>1, <3>1, QuietSteady
  <2> QED BY <2>1, <2>2
<1>6. ASSUME NEW u \in UserId, OpenApprovalEffect(w, u) \/ OpenRejectionEffect(w, u) PROVE Steady'
  BY <1>2, <1>6 DEF OpenApprovalEffect, OpenRejectionEffect, HasRing
<1>7. CASE LinkGetEffect(w)
  <2>1. CASE Carries(w, "linkSave")
    BY <1>1, <1>7, <2>1, Carried, QuietSteady DEF LinkGetEffect, HasRing
  <2> QED BY <1>4, <1>7, <2>1 DEF LinkGetEffect
<1>8. CASE \/ ResolveEffect(w) \/ CreateOrgEffect(w) \/ AsnGetEffect(w) \/ AsnSaveEffect(w)
           \/ PickNameEffect(w) \/ DieEffect(w)
  BY <1>2, <1>3, <1>4, <1>8 DEF ResolveEffect, CreateOrgEffect, AsnGetEffect, AsnSaveEffect,
     PickNameEffect, DieEffect, HasRing
<1>9. CASE \/ SyncUserEffect(w) \/ CreateUserEffect(w) \/ DeactivateEffect(w) \/ ActivateEffect(w)
  BY <1>2, <1>3, <1>4, <1>9 DEF SyncUserEffect, CreateUserEffect, DeactivateEffect, ActivateEffect,
     SaveEffect, HasRing
<1>10. CASE \/ FileEffect(w, "queue", FALSE) \/ FileEffect(w, "finish", TRUE) \/ LinkSaveEffect(w)
            \/ TokenEffect(w) \/ RejectUserEffect(w) \/ RejectSignupEffect(w)
  BY <1>2, <1>3, <1>4, <1>10 DEF FileEffect, LinkSaveEffect, TokenEffect, RejectUserEffect,
     RejectSignupEffect, HasRing
<1> QED BY <1>5, <1>6, <1>7, <1>8, <1>9, <1>10 DEF Acts

(* Every step keeps it.                                                    *)
LEMMA SteadyKept ==
  Inv /\ Roles /\ History /\ Steady /\ [BackfillNext]_backfillVars => Steady'
<1> SUFFICES ASSUME Inv, Roles, History, Steady, [BackfillNext]_backfillVars PROVE Steady'
  OBVIOUS
<1>1. CASE UNCHANGED <<req, deployment, tables>>
  <2>1. (Removable' = Removable) /\ (OneWorker' <=> OneWorker)
    BY <1>1, SameSite DEF OneWorker
  <2> QED BY <1>1, <2>1 DEF tables, Steady, There, OnlyOne
<1>2. ASSUME NEW w \in Worker, Acts(w) PROVE Steady'
  <2>1. PICK F, A : Facts(F, A)
    BY DEF History
  <2> QED BY <1>2, <2>1, SyncSteady, CreateRingSteady, GoingSteady
<1>3. ASSUME NEW r \in RingId, DestroyEffect(r) PROVE Steady'
  <2>1. (Removable' = Removable) /\ (OneWorker' <=> OneWorker) /\ Removable # {} /\ UNCHANGED req
    BY <1>3, SameSite DEF OneWorker, DestroyEffect
  <2>2. Erased(ringUsers, ringUsers', r)
    BY <1>3 DEF DestroyEffect
  <2> QED BY <2>1, <2>2 DEF Steady, There, OnlyOne, Erased
<1> QED BY <1>1, <1>2, <1>3, NextActs

(* At the start nothing is linked.                                         *)
LEMMA SteadyInit == BackfillInit => Steady
<1> SUFFICES ASSUME BackfillInit PROVE Steady
  OBVIOUS
<1>1. \A w \in Worker : req[w] = Idle
  BY DEF BackfillInit, Init, StoreInit
<1> QED BY <1>1 DEF Steady, There, OnlyOne, HasRing, Idle

(***************************************************************************)
(* An account that is linked to an identity keeps it, and keeps its ring   *)
(* user while that is there, where no ring user is deleted or one worker   *)
(* serves all requests: logins that come back and approvals that are       *)
(* repeated find the same rows again.                                      *)
(***************************************************************************)
THEOREM IdentitiesKeepAccounts == BackfillSpec => IdentityKeepsAccount
<1> DEFINE Moved ==
      \A u \in DOMAIN profiles \intersect DOMAIN profiles' :
        profiles[u].pdb # None =>
          /\ profiles'[u].pdb = profiles[u].pdb
          /\ HasLiveRing(u) => profiles'[u].ring = profiles[u].ring
<1>1. Inv /\ History /\ Ownership /\ Steady /\ [BackfillNext]_backfillVars =>
        [Removable = {} \/ OneWorker => Moved]_vars
  <2> SUFFICES ASSUME Inv, History, Ownership, Steady, [BackfillNext]_backfillVars,
                      Removable = {} \/ OneWorker
               PROVE  Moved
    OBVIOUS
  <2>1. CASE UNCHANGED profiles
    BY <2>1
  <2>2. ASSUME NEW w \in Worker, Acts(w) PROVE Moved
    <3>1. PICK F, A : Facts(F, A)
      BY DEF History
    <3> DEFINE q == req[w]
    <3>2. CASE LinkSaveEffect(w) /\ ~UNCHANGED profiles
      <4>1. /\ Wrote(profiles, profiles', q.user, [ring |-> q.ring, pdb |-> q.pdb])
            /\ q.at = "linkSave"
        BY <3>2 DEF LinkSaveEffect
      <4>2. HasUser(q) /\ Handles(q) /\ Remembered(q, F, A) /\ Alone(w) /\ OnlyOne(w)
        BY <3>1, <4>1, LinkerHolds
           DEF Linking, Handles, Facts, RequestsAre, Ownership, CreatorsAlone, Steady
      <4>3. ASSUME q.user \in DOMAIN profiles, profiles[q.user].pdb # None
            PROVE  profiles[q.user].pdb = q.pdb
        BY <3>1, <4>2, <4>3 DEF Facts, LinksAre, Remembered
      <4>4. ASSUME q.user \in DOMAIN profiles, profiles[q.user].ring \in DOMAIN ringUsers
            PROVE  profiles[q.user].ring = q.ring
        <5>1. ringUsers[profiles[q.user].ring].name = q.name
          BY <3>1, <4>2, <4>4 DEF Facts, RowsAre, LinksAre, Remembered
        <5> QED BY <4>1, <4>2, <4>4, <5>1 DEF OnlyOne
      <4> QED BY <4>1, <4>3, <4>4 DEF Wrote, HasLiveRing
    <3>3. CASE LinkGetEffect(w) /\ ~UNCHANGED profiles
      BY <3>3 DEF LinkGetEffect, Wrote
    <3>4. CASE RejectUserEffect(w)
      BY <3>4 DEF RejectUserEffect, Erased
    <3>5. \/ UNCHANGED profiles \/ RejectUserEffect(w)
          \/ LinkSaveEffect(w) \/ LinkGetEffect(w)
      BY <2>2 DEF Acts, LoginEffect, OpenApprovalEffect, OpenRejectionEffect, ResolveEffect, CreateOrgEffect,
     AsnGetEffect, AsnSaveEffect, PickNameEffect, DieEffect, SyncUserEffect, CreateUserEffect,
     DeactivateEffect, ActivateEffect, SaveEffect, FileEffect, SyncRingEffect, CreateRingEffect,
     TokenEffect, RejectSignupEffect, tables
    <3> QED BY <2>1, <3>2, <3>3, <3>4, <3>5
  <2>3. ASSUME NEW r \in RingId, DestroyEffect(r) PROVE UNCHANGED profiles
    BY <2>3 DEF DestroyEffect
  <2>4. UNCHANGED tables => UNCHANGED profiles
    BY DEF tables
  <2> QED BY <2>1, <2>2, <2>3, <2>4, NextActs
<1> QED BY <1>1, InitEstablishesInv, NextKeepsInv, HistoryInit, HistoryKept, OwnershipInit,
        OwnershipKept, RolesKept, CompleteInit, SteadyInit, SteadyKept, PTL
        DEF BackfillSpec, IdentityKeepsAccount

-----------------------------------------------------------------------------
(* Every set of numbers has a least one.                                   *)
LEMMA LeastNumber ==
  ASSUME NEW T, T \subseteq Nat, T # {}
  PROVE  \E x \in T : \A y \in T : x <= y
<1> DEFINE Less == {p \in Nat \X Nat : p[1] < p[2]}
<1>1. OpToRel(<, Nat) = Less
  BY DEF OpToRel
<1>2. IsWellFoundedOn(Less, Nat)
  BY <1>1, NatLessThanWellFounded
<1> HIDE DEF Less
<1>3. PICK x \in T : \A y \in T : <<y, x>> \notin Less
  BY <1>2, WFMin
<1>4. ASSUME NEW y \in T PROVE ~(y < x) /\ x \in Nat /\ y \in Nat
  <2>1. <<y, x>> \notin Less /\ x \in Nat /\ y \in Nat
    BY <1>3
  <2>2. <<y, x>> \in Nat \X Nat /\ <<y, x>>[1] = y /\ <<y, x>>[2] = x
    BY <2>1
  <2> QED BY <2>1, <2>2 DEF Less
<1> QED BY <1>4

(* The machines are a list.                                                *)
LEMMA MachineList ==
  Inv => /\ Machines \in Seq([org: Org, asn: Asn])
         /\ DOMAIN Machines = 1..Len(Machines) /\ Len(Machines) \in Nat
<1> SUFFICES ASSUME Inv PROVE Machines \in Seq([org: Org, asn: Asn])
  OBVIOUS
<1>1. deployment \in DOMAIN Deployments
  BY RequestsTyped DEF TypeOK
<1> QED BY <1>1, PdbAssumption DEF Machines, Site

(* First finds the first machine that a participant has in an ASN.         *)
LEMMA FirstIs ==
  ASSUME Inv, NEW o, NEW asn, HasMachine(o, asn)
  PROVE  First(o, asn) \in DOMAIN Machines /\ Machines[First(o, asn)] = [org |-> o, asn |-> asn]
<1> DEFINE T == {i \in DOMAIN Machines : Machines[i] = [org |-> o, asn |-> asn]}
<1>1. T \subseteq Nat /\ T # {}
  BY MachineList DEF HasMachine
<1>2. PICK x \in T : \A y \in T : x <= y
  BY <1>1, LeastNumber
<1>3. /\ x \in DOMAIN Machines /\ Machines[x] = [org |-> o, asn |-> asn]
      /\ \A j \in 1..(x - 1) : Machines[j] # Machines[x]
  <2>1. ASSUME NEW j \in 1..(x - 1), Machines[j] = Machines[x] PROVE FALSE
    <3>1. x \in 1..Len(Machines) /\ Machines[x] = [org |-> o, asn |-> asn]
      BY MachineList
    <3>2. j \in T /\ j \in Nat /\ j < x
      BY <2>1, <3>1, MachineList
    <3> HIDE DEF T
    <3>3. x <= j
      BY <1>2, <3>2
    <3> QED BY <3>1, <3>2, <3>3, MachineList
  <2> QED BY <2>1
<1> QED BY <1>3 DEF First

(* Often counts.                                                           *)
LEMMA OftenCounts ==
  ASSUME Inv, NEW o, NEW asn
  PROVE  Often(o, asn) \in Nat
<1> DEFINE T == {i \in DOMAIN Machines : Machines[i] = [org |-> o, asn |-> asn]}
<1>1. IsFiniteSet(DOMAIN Machines)
  BY MachineList, FS_Interval
<1>2. IsFiniteSet(T)
  BY <1>1, FS_Subset
<1> QED BY <1>2, FS_CardinalityType DEF Often

(* A participant has at most one most frequent ASN: the first of them.     *)
LEMMA OneAsn ==
  ASSUME Inv, NEW o, NEW a \in AsnOf(o), NEW b \in AsnOf(o)
  PROVE  a = b
<1>1. /\ a \in Asn /\ b \in Asn /\ HasMachine(o, a) /\ HasMachine(o, b)
      /\ Often(o, a) > Often(o, b) \/ (Often(o, a) = Often(o, b) /\ First(o, a) <= First(o, b))
      /\ Often(o, b) > Often(o, a) \/ (Often(o, b) = Often(o, a) /\ First(o, b) <= First(o, a))
  BY DEF AsnOf
<1>2. Often(o, a) \in Nat /\ Often(o, b) \in Nat
  BY OftenCounts
<1>3. /\ First(o, a) \in Nat /\ First(o, b) \in Nat
      /\ Machines[First(o, a)] = [org |-> o, asn |-> a]
      /\ Machines[First(o, b)] = [org |-> o, asn |-> b]
  BY <1>1, FirstIs, MachineList
<1>4. First(o, a) = First(o, b)
  BY <1>1, <1>2, <1>3
<1>5. [org |-> o, asn |-> a] = [org |-> o, asn |-> b]
  BY <1>3, <1>4
<1> QED BY <1>5

(***************************************************************************)
(* While nobody else records ASNs, the participants that the command has   *)
(* passed are settled, and the one in its hands has no ASN yet.            *)
(***************************************************************************)
Settled(o) ==
  \/ \E asn \in Asn : o \in DOMAIN orgAsn /\ orgAsn[o] = asn
  \/ \A asn \in AsnOf(o) : \E p \in DOMAIN orgAsn \ {o} : orgAsn[p] = asn
Passed ==
  /\ calm /\ backfill.at # "idle" => \A o \in orgs \ backfill.todo : Settled(o)
  /\ backfill.at \in {"claim", "get", "save"} =>
       /\ backfill.asn \in AsnOf(backfill.org) /\ backfill.org \in backfill.todo
       /\ calm => ~Recorded(backfill.org)
  /\ backfill.at = "done" => backfill.todo = {}

(* The machines, and with them the ASNs, are what they are.                *)
LEMMA SameAsns ==
  ASSUME UNCHANGED deployment
  PROVE  \A o : AsnOf(o)' = AsnOf(o)
BY DEF AsnOf, HasMachine, Often, First, Machines, Site

(* Recording an ASN for a participant that has none unsettles no other.    *)
LEMMA StaysSettled ==
  ASSUME UNCHANGED deployment, NEW k, NEW asn, ~Recorded(k), None \notin Asn,
         UNCHANGED orgAsn \/ Wrote(orgAsn, orgAsn', k, asn),
         NEW o, o # k, Settled(o), AsnOf(o) \subseteq Asn
  PROVE  Settled(o)'
<1>1. AsnOf(o)' = AsnOf(o)
  BY SameAsns
<1>2. ASSUME NEW p \in DOMAIN orgAsn, orgAsn[p] \in Asn PROVE p \in DOMAIN orgAsn' /\ orgAsn'[p] = orgAsn[p]
  BY <1>2 DEF Recorded, Wrote
<1>3. CASE \E a \in Asn : o \in DOMAIN orgAsn /\ orgAsn[o] = a
  BY <1>2, <1>3 DEF Settled
<1>4. CASE \A a \in AsnOf(o) : \E p \in DOMAIN orgAsn \ {o} : orgAsn[p] = a
  <2>1. ASSUME NEW a \in AsnOf(o) PROVE \E p \in DOMAIN orgAsn' \ {o} : orgAsn'[p] = a
    <3>1. PICK p \in DOMAIN orgAsn \ {o} : orgAsn[p] = a
      BY <1>4
    <3>2. orgAsn[p] \in Asn
      BY <3>1
    <3> QED BY <1>2, <3>1, <3>2
  <2> QED BY <1>1, <2>1 DEF Settled
<1> QED BY <1>3, <1>4 DEF Settled

(* Beside the command, ASNs and participants do not change while it is     *)
(* calm.                                                                   *)
LEMMA AccountsPassed ==
  ASSUME Passed, UNCHANGED <<deployment, backfill>>, calm' => calm /\ UNCHANGED <<orgs, orgAsn>>
  PROVE  Passed'
<1>1. \A o : AsnOf(o)' = AsnOf(o)
  BY SameAsns
<1>2. backfill.at \in {"claim", "get", "save"} => (backfill.asn \in AsnOf(backfill.org))'
  BY <1>1 DEF Passed
<1>3. ASSUME calm' PROVE Passed'
  <2>1. \A o : Settled(o)' <=> Settled(o)
    BY <1>1, <1>3 DEF Settled
  <2>2. Recorded(backfill.org)' <=> Recorded(backfill.org)
    BY <1>3 DEF Recorded
  <2> QED BY <1>2, <1>3, <2>1, <2>2 DEF Passed
<1>4. ASSUME ~calm' PROVE Passed'
  BY <1>2, <1>4 DEF Passed
<1> QED BY <1>3, <1>4

(* Each of the command's own statements.                                   *)
LEMMA CommandPassed ==
  ASSUME Inv, Passed, BackfillActs
  PROVE  Passed'
<1>0. /\ UNCHANGED <<deployment, orgs>> /\ backfill \in Backfill /\ None \notin Asn
      /\ \A o : AsnOf(o)' = AsnOf(o) /\ AsnOf(o) \subseteq Asn
  BY SameAsns, StoreAssumption DEF BackfillActs, storeVars, Inv, BackfillTypeOK, AsnOf
<1>1. CASE BackfillStarts
  <2>1. backfill'.at = "look" /\ backfill'.todo = orgs
    BY <1>1 DEF BackfillStarts, NotRunning
  <2> QED BY <1>0, <2>1 DEF Passed
<1>2. CASE BackfillLooks
  <2>0. UNCHANGED <<orgAsn, calm>> /\ backfill.at = "look"
    BY <1>2 DEF BackfillLooks, On
  <2>1. \A o : Settled(o)' <=> Settled(o)
    BY <1>0, <2>0 DEF Settled
  <2>2. ASSUME NEW o \in backfill.todo, Recorded(o) \/ AsnOf(o) = {},
               backfill' = [backfill EXCEPT !.todo = @ \ {o}]
        PROVE  Passed'
    <3>1. backfill'.at = "look" /\ backfill'.todo = backfill.todo \ {o}
      BY <1>0, <2>0, <2>2 DEF Backfill
    <3>2. Settled(o)
      <4>1. CASE Recorded(o)
        BY <1>0, <4>1, TablesTyped, AsnRows DEF Recorded, Settled, Opt
      <4> QED BY <2>2, <4>1 DEF Settled
    <3> QED BY <1>0, <2>0, <2>1, <3>1, <3>2 DEF Passed
  <2>3. ASSUME NEW o \in backfill.todo, ~Recorded(o), NEW asn \in AsnOf(o),
               backfill' = [backfill EXCEPT !.at = "claim", !.org = o, !.asn = asn]
        PROVE  Passed'
    <3>1. /\ backfill'.at = "claim" /\ backfill'.todo = backfill.todo
          /\ backfill'.org = o /\ backfill'.asn = asn
      BY <1>0, <2>3 DEF Backfill
    <3>2. ~Recorded(o)'
      BY <2>0, <2>3 DEF Recorded
    <3> QED BY <1>0, <2>0, <2>1, <2>3, <3>1, <3>2 DEF Passed, Recorded
  <2>4. CASE backfill.todo = {} /\ backfill' = [NotRunning EXCEPT !.at = "done"]
    <3>1. backfill'.at = "done" /\ backfill'.todo = {}
      BY <2>4 DEF NotRunning
    <3> QED BY <1>0, <2>0, <2>1, <2>4, <3>1 DEF Passed
  <2> QED BY <1>2, <2>2, <2>3, <2>4 DEF BackfillLooks
<1>3. PICK k, a : k = backfill.org /\ a = backfill.asn
  OBVIOUS
<1>4. backfill.at \in {"claim", "get", "save"} =>
        a \in AsnOf(k) /\ a \in Asn /\ k \in backfill.todo /\ (calm => ~Recorded(k))
  BY <1>0, <1>3 DEF Passed
<1>5. ASSUME Skip, UNCHANGED calm, backfill.at # "idle",
             calm => Settled(k)' /\ \A o : o # k /\ Settled(o) => Settled(o)'
      PROVE  Passed'
  <2>1. backfill'.at = "look" /\ backfill'.todo = backfill.todo \ {k}
    BY <1>3, <1>5 DEF Skip, NotRunning
  <2> QED BY <1>0, <1>5, <2>1 DEF Passed
<1>6. CASE BackfillClaims
  <2>0. UNCHANGED <<orgAsn, calm>> /\ backfill.at = "claim"
    BY <1>6 DEF BackfillClaims, On
  <2>1. \A o : Settled(o)' <=> Settled(o)
    BY <1>0, <2>0 DEF Settled
  <2>2. CASE Claimed(k, a)
    <3>1. \A b \in AsnOf(k) : b = a
      BY <1>4, <2>0, OneAsn
    <3>2. Settled(k)
      BY <2>2, <3>1 DEF Claimed, Settled
    <3>3. Skip
      BY <1>3, <1>6, <2>2 DEF BackfillClaims
    <3> QED BY <1>5, <2>0, <2>1, <3>2, <3>3
  <2>3. CASE ~Claimed(k, a)
    <3>1. backfill' = [backfill EXCEPT !.at = "get"]
      BY <1>3, <1>6, <2>3 DEF BackfillClaims
    <3>2. /\ backfill'.at = "get" /\ backfill'.todo = backfill.todo
          /\ backfill'.org = k /\ backfill'.asn = a
      BY <1>0, <1>3, <3>1 DEF Backfill
    <3>3. Recorded(k)' <=> Recorded(k)
      BY <2>0 DEF Recorded
    <3> QED BY <1>0, <1>4, <2>0, <2>1, <3>2, <3>3 DEF Passed, Recorded
  <2> QED BY <2>2, <2>3
<1>7. CASE BackfillGets
  <2>0. /\ UNCHANGED calm /\ backfill.at = "get" /\ backfill' = [backfill EXCEPT !.at = "save"]
        /\ UNCHANGED orgAsn \/ (k \notin DOMAIN orgAsn /\ Wrote(orgAsn, orgAsn', k, None))
    BY <1>3, <1>7, PutWrites DEF BackfillGets, On
  <2>1. calm => ~Recorded(k) /\ ~Recorded(k)'
    BY <1>4, <2>0 DEF Recorded, Wrote
  <2>2. calm => \A o : o # k /\ Settled(o) => Settled(o)'
    BY <1>0, <2>0, <2>1, StaysSettled
  <2>3. /\ backfill'.at = "save" /\ backfill'.todo = backfill.todo
        /\ backfill'.org = k /\ backfill'.asn = a
    BY <1>0, <1>3, <2>0 DEF Backfill
  <2>4. calm => \A o \in orgs \ backfill.todo : Settled(o)'
    BY <1>4, <2>0, <2>2 DEF Passed
  <2> QED BY <1>0, <1>4, <2>0, <2>1, <2>3, <2>4 DEF Passed, Recorded
<1>8. CASE BackfillSaves
  <2>0. UNCHANGED calm /\ backfill.at = "save"
    BY <1>8 DEF BackfillSaves, On
  <2>1. CASE backfill' = NotRunning
    BY <2>1 DEF Passed, NotRunning
  <2>2. CASE Skip /\ Wrote(orgAsn, orgAsn', k, a)
    <3>1. Settled(k)'
      BY <1>4, <2>0, <2>2 DEF Settled, Wrote
    <3>2. calm => \A o : o # k /\ Settled(o) => Settled(o)'
      BY <1>0, <1>4, <2>0, <2>2, StaysSettled
    <3> QED BY <1>5, <2>0, <2>2, <3>1, <3>2
  <2> QED BY <1>3, <1>8, <2>1, <2>2, PutWrites DEF BackfillSaves
<1>9. CASE BackfillDies
  BY <1>9 DEF BackfillDies, Passed, NotRunning
<1> QED BY <1>1, <1>2, <1>6, <1>7, <1>8, <1>9 DEF BackfillActs

(***************************************************************************)
(* A backfill that ran undisturbed to its end leaves nothing to a second   *)
(* one, in whatever order it took the participants and whatever earlier    *)
(* runs left behind.                                                       *)
(***************************************************************************)
THEOREM BackfillsAreComplete == BackfillSpec => []BackfillIsComplete
<1>1. BackfillInit => Passed
  BY DEF BackfillInit, Passed, NotRunning
<1>2. Inv /\ Passed /\ [BackfillNext]_backfillVars => Passed'
  <2> SUFFICES ASSUME Inv, Passed, [BackfillNext]_backfillVars PROVE Passed'
    OBVIOUS
  <2>1. CASE BackfillActs
    BY <2>1, CommandPassed
  <2>2. CASE Accounts
    <3>1. UNCHANGED deployment
      <4>1. ASSUME NEW w \in Worker, Acts(w) PROVE UNCHANGED deployment
        BY <4>1, ActsSteps DEF Steps
      <4> QED BY <4>1, NextActs DEF DestroyEffect
    <3> QED BY <2>2, <3>1, AccountsPassed DEF Accounts
  <2>3. CASE UNCHANGED backfillVars
    BY <2>3, AccountsPassed DEF backfillVars, vars, storeVars, pdbVars
  <2> QED BY <2>1, <2>2, <2>3 DEF BackfillNext
<1>3. Passed => BackfillIsComplete
  BY DEF Passed, BackfillIsComplete, Settled
<1> QED BY <1>1, <1>2, <1>3, InitEstablishesInv, NextKeepsInv, PTL DEF BackfillSpec

-----------------------------------------------------------------------------
(***************************************************************************)
(* Where an identity logs in from one tab at a time, no two logins in      *)
(* progress are of the same one.                                           *)
(***************************************************************************)
OneTab ==
  ~Tabs => \A v, w \in Worker :
    req[v].op = "login" /\ req[w].op = "login" /\ req[v].pdb = req[w].pdb => v = w

(* Statements in the middle of a request begin no login.                   *)
LEMMA SamePdb ==
  ASSUME Inv, NEW w \in Worker, Acts(w), req[w].at # "idle"
  PROVE  req'[w].op = "login" => req[w].op = "login" /\ req'[w].pdb = req[w].pdb
<1>1. \A step : Carries(w, step) => req'[w].op = req[w].op /\ req'[w].pdb = req[w].pdb
  BY Carried
<1>2. Ends(w) => req'[w].op # "login"
  BY DEF Ends, Idle
<1>3. CASE \/ SyncRingEffect(w) \/ SyncUserEffect(w) \/ ResolveEffect(w) \/ CreateOrgEffect(w)
           \/ AsnGetEffect(w) \/ AsnSaveEffect(w) \/ PickNameEffect(w)
  BY <1>1, <1>2, <1>3 DEF SyncRingEffect, SyncUserEffect, ResolveEffect, CreateOrgEffect, AsnGetEffect,
     AsnSaveEffect, PickNameEffect, SameUser, SameNet
<1>4. CASE \/ CreateUserEffect(w) \/ DeactivateEffect(w) \/ ActivateEffect(w)
           \/ FileEffect(w, "queue", FALSE) \/ FileEffect(w, "finish", TRUE) \/ CreateRingEffect(w)
  BY <1>1, <1>2, <1>4 DEF CreateUserEffect, DeactivateEffect, ActivateEffect, SaveEffect, FileEffect,
     CreateRingEffect, SameUser, SameNet
<1>5. CASE \/ LinkGetEffect(w) \/ LinkSaveEffect(w) \/ TokenEffect(w)
           \/ RejectUserEffect(w) \/ RejectSignupEffect(w) \/ DieEffect(w)
  BY <1>1, <1>2, <1>5 DEF LinkGetEffect, LinkSaveEffect, TokenEffect, RejectUserEffect,
     RejectSignupEffect, DieEffect
<1>6. ~(\E pdb \in Pdb, asn \in Asn : LoginEffect(w, pdb, asn))
  BY DEF LoginEffect
<1>7. ~(\E u \in UserId : OpenApprovalEffect(w, u) \/ OpenRejectionEffect(w, u))
  BY DEF OpenApprovalEffect, OpenRejectionEffect
<1> QED BY <1>3, <1>4, <1>5, <1>6, <1>7 DEF Acts

(* OneTab is kept.                                                         *)
LEMMA OneTabKept == Inv /\ OneTab /\ [BackfillNext]_backfillVars => OneTab'
<1> SUFFICES ASSUME Inv, OneTab, [BackfillNext]_backfillVars PROVE OneTab'
  OBVIOUS
<1>1. ASSUME UNCHANGED <<req, deployment>> PROVE OneTab'
  BY <1>1, SameSite DEF OneTab
<1>2. ASSUME NEW w \in Worker, NEW step, Steps(w, step),
             req'[w].op = "login" =>
               \/ req[w].op = "login" /\ req'[w].pdb = req[w].pdb
               \/ Tabs \/ \A v \in Worker : req[v].pdb # req'[w].pdb
      PROVE  OneTab'
  <2>1. UNCHANGED Tabs /\ \A v \in Worker \ {w} : req'[v] = req[v]
    BY <1>2, SameSite DEF Steps
  <2> QED BY <1>2, <2>1 DEF OneTab
<1>3. ASSUME NEW w \in Worker, NEW pdb \in Pdb, NEW asn \in Asn, LoginEffect(w, pdb, asn),
             Tabs \/ \A v \in Worker : req[v].pdb # pdb
      PROVE  OneTab'
  BY <1>2, <1>3 DEF LoginEffect
<1>4. ASSUME NEW w \in Worker, Acts(w), req[w].at # "idle" \/ req'[w].op # "login" PROVE OneTab'
  BY <1>2, <1>4, SamePdb, ActsSteps
<1> QED BY <1>1, <1>3, <1>4, NextBegins DEF DestroyEffect

-----------------------------------------------------------------------------
(***************************************************************************)
(* The invariant behind NoOrphanAccount.  Where a site is orderly, nothing *)
(* is ever queued, every account is linked to an identity or in the hands  *)
(* of the login that created it, and nothing stands in the way of that     *)
(* login: the ring user's name stays free for it, its identity is not      *)
(* linked elsewhere.                                                       *)
(***************************************************************************)
Orderly == EveryNetworkIsKnown /\ ~Tabs /\ ~Faults /\ Removable = {}
AtHome(w) ==
  LET q == req[w] IN
  /\ q.op \in {"idle", "login"} /\ q.at \notin {"deactivate", "queue"}
  /\ q.at \in {"pickName", "createUser"} => q.org # None
  /\ HasUser(q) => q.user \in DOMAIN users
  /\ q.at = "createUser" /\ Taken(q.name, ringUsers) => Taken(q.name, users)
  /\ q.at \in {"activate", "createRing"} => ~Taken(q.name, ringUsers)
  /\ q.op = "login" /\ ~Refreshing(q.at) /\ q.at # "token" => LinkedTo(q.pdb) = {}
IsLinked(u) == u \in DOMAIN profiles /\ profiles[u].pdb # None
Housed(u) == IsLinked(u) \/ \E w \in Worker : Unlinked(req[w]) /\ req[w].user = u
NamesDiffer == \A u, v \in DOMAIN users : users[u].name = users[v].name => u = v
RowsInOrder ==
  /\ DOMAIN pdbSignups = {} /\ \A i \in DOMAIN Machines : Machines[i].org \in orgs
  /\ NamesDiffer
  /\ \A u \in DOMAIN profiles : HasLiveRing(u)
AllAtHome == \A w \in Worker : AtHome(w)
AllHoused == \A u \in DOMAIN users : Housed(u)
Homes == Orderly => RowsInOrder /\ AllAtHome /\ AllHoused

(***************************************************************************)
(* What a step of one request does to the rows that others go by.          *)
(***************************************************************************)
KeepsUsers(w) ==
  /\ \A u \in DOMAIN users : u \in DOMAIN users' /\ users'[u].name = users[u].name
  /\ \A u \in DOMAIN users' \ DOMAIN users :
       ~Taken(users'[u].name, users) /\ Unlinked(req'[w]) /\ req'[w].user = u
KeepsRings(w) ==
  /\ DOMAIN ringUsers \subseteq DOMAIN ringUsers'
  /\ \A n : Taken(n, ringUsers') =>
       Taken(n, ringUsers) \/ (Unlinked(req[w]) /\ n = req[w].name)
KeepsLinks(w) ==
  /\ \A u \in DOMAIN profiles' :
       \/ u \in DOMAIN profiles /\ profiles'[u] = profiles[u]
       \/ /\ Unlinked(req[w]) /\ profiles'[u].ring \in DOMAIN ringUsers
          /\ profiles'[u].pdb \in {None, req[w].pdb}
  /\ \A u : IsLinked(u) => IsLinked(u)'
  /\ \A u : Unlinked(req[w]) /\ req[w].user = u =>
       (Unlinked(req'[w]) /\ req'[w].user = u) \/ IsLinked(u)'
Keeps(w) == KeepsUsers(w) /\ KeepsRings(w) /\ KeepsLinks(w)

(* Who is in the middle of creating an account holds its name.             *)
LEMMA NameHeld ==
  ASSUME Inv, NEW F, NEW A, Facts(F, A), NEW w \in Worker, AtHome(w), Unlinked(req[w])
  PROVE  /\ req[w].op = "login" /\ HasUser(req[w]) /\ req[w].pdb \in Pdb /\ req[w].pdb # None
         /\ req[w].user \in DOMAIN users /\ users[req[w].user].name = req[w].name
<1>1. req[w].op = "login" /\ HasUser(req[w]) /\ Handles(req[w])
  BY DEF Unlinked, Creates, Handles
<1>2. req[w].user \in DOMAIN users /\ req[w].name = A[req[w].user].name
  BY <1>1 DEF AtHome, Facts, RequestsAre, Remembered
<1>3. req[w].pdb \in Pdb
  BY <1>1, Actor DEF Shape
<1> QED BY <1>1, <1>2, <1>3, StoreAssumption DEF Facts, AccountsAre

(* What such a step leaves the other requests.                             *)
LEMMA OthersAtHome ==
  ASSUME Inv, NEW F, NEW A, Facts(F, A), Ownership, OneTab, ~Tabs, RowsInOrder, AllAtHome,
         NEW w \in Worker, NEW step, Steps(w, step), Keeps(w)
  PROVE  \A v \in Worker \ {w} : AtHome(v)'
<1> SUFFICES ASSUME NEW v \in Worker \ {w} PROVE AtHome(v)'
  OBVIOUS
<1>1. PICK q : q = req[v]
  OBVIOUS
<1>2. req'[v] = q /\ AtHome(v) /\ AtHome(w)
  BY <1>1 DEF Steps, AllAtHome
<1>3. \A n : Taken(n, users) => Taken(n, users')
  BY DEF Keeps, KeepsUsers, Taken
<1>4. ASSUME q.at = "createUser", Taken(q.name, ringUsers') PROVE Taken(q.name, users')
  <2>1. CASE Taken(q.name, ringUsers)
    BY <1>1, <1>2, <1>3, <1>4, <2>1 DEF AtHome
  <2>2. CASE ~Taken(q.name, ringUsers)
    <3>1. Unlinked(req[w]) /\ q.name = req[w].name
      BY <1>4, <2>2 DEF Keeps, KeepsRings
    <3>2. Taken(q.name, users)
      BY <1>2, <3>1, NameHeld DEF Taken
    <3> QED BY <1>3, <3>2
  <2> QED BY <2>1, <2>2
<1>5. ASSUME q.at \in {"activate", "createRing"} PROVE ~Taken(q.name, ringUsers')
  <2>1. Unlinked(req[v])
    BY <1>1, <1>2, <1>5, HandlerAt DEF AtHome, Unlinked, Creates, HasUser, Looking, Refreshing
  <2>2. ASSUME Unlinked(req[w]), q.name = req[w].name PROVE FALSE
    <3>1. req[w].user = req[v].user
      BY <1>1, <1>2, <2>1, <2>2, NameHeld DEF RowsInOrder, NamesDiffer
    <3>2. Holds(req[w], req[v].user)
      BY <1>2, <2>2, <3>1, NameHeld DEF Holds
    <3> QED BY <2>1, <3>2 DEF Ownership, CreatorsAlone, Alone
  <2> QED BY <1>1, <1>2, <1>5, <2>2 DEF AtHome, Keeps, KeepsRings
<1>6. ASSUME q.op = "login", ~Refreshing(q.at), q.at # "token" PROVE LinkedTo(q.pdb)' = {}
  <2>1. LinkedTo(q.pdb) = {} /\ q.pdb \in Pdb /\ q.pdb # None
    BY <1>1, <1>2, <1>6, Actor, StoreAssumption DEF AtHome, Shape
  <2>2. ASSUME NEW u \in DOMAIN profiles', profiles'[u].pdb = q.pdb PROVE FALSE
    <3>1. ~(u \in DOMAIN profiles /\ profiles'[u] = profiles[u])
      BY <2>1, <2>2 DEF LinkedTo
    <3>2. Unlinked(req[w]) /\ req[w].pdb = q.pdb
      BY <2>1, <2>2, <3>1 DEF Keeps, KeepsLinks
    <3> QED BY <1>1, <1>2, <1>6, <3>2 DEF OneTab, Unlinked, Creates
  <2> QED BY <2>2 DEF LinkedTo
<1>7. HasUser(q) => q.user \in DOMAIN users'
  BY <1>1, <1>2 DEF AtHome, Keeps, KeepsUsers
<1> QED BY <1>1, <1>2, <1>4, <1>5, <1>6, <1>7 DEF AtHome, HasUser, Refreshing, LinkedTo

(* And the accounts.                                                       *)
LEMMA AccountsHoused ==
  ASSUME AllHoused, RowsInOrder, NEW w \in Worker, NEW step, Steps(w, step), Keeps(w)
  PROVE  AllHoused' /\ NamesDiffer'
<1>1. ASSUME NEW u \in DOMAIN users' PROVE Housed(u)'
  <2>1. CASE u \notin DOMAIN users
    <3>1. Unlinked(req'[w]) /\ req'[w].user = u
      BY <2>1 DEF Keeps, KeepsUsers
    <3> QED BY <3>1 DEF Housed, Unlinked, Creates, HasUser
  <2>2. CASE IsLinked(u)
    BY <2>2 DEF Keeps, KeepsLinks, Housed
  <2>3. ASSUME NEW v \in Worker, Unlinked(req[v]), req[v].user = u PROVE Housed(u)'
    <3>1. CASE v # w
      <4>1. req'[v] = req[v]
        BY <3>1 DEF Steps
      <4> QED BY <2>3, <4>1 DEF Housed, Unlinked, Creates, HasUser
    <3>2. CASE v = w
      <4>1. (Unlinked(req'[w]) /\ req'[w].user = u) \/ IsLinked(u)'
        BY <2>3, <3>2 DEF Keeps, KeepsLinks
      <4> QED BY <4>1 DEF Housed, Unlinked, Creates, HasUser
    <3> QED BY <3>1, <3>2
  <2> QED BY <2>1, <2>2, <2>3 DEF AllHoused, Housed
<1>2. ASSUME NEW u \in DOMAIN users', NEW v \in DOMAIN users', users'[u].name = users'[v].name
      PROVE  u = v
  <2>1. CASE u \in DOMAIN users /\ v \in DOMAIN users
    BY <1>2, <2>1 DEF Keeps, KeepsUsers, RowsInOrder, NamesDiffer
  <2>2. CASE u \notin DOMAIN users /\ v \notin DOMAIN users
    BY <1>2, <2>2 DEF Keeps, KeepsUsers
  <2>3. ASSUME NEW x \in DOMAIN users', NEW y \in DOMAIN users', x \in DOMAIN users,
               y \notin DOMAIN users, users'[x].name = users'[y].name
        PROVE  FALSE
    BY <2>3 DEF Keeps, KeepsUsers, Taken
  <2> QED BY <1>2, <2>1, <2>2, <2>3
<1> QED BY <1>1, <1>2 DEF AllHoused, NamesDiffer

(* What is to be shown of a step of one request.                           *)
LEMMA HomesStep ==
  ASSUME Inv, NEW F, NEW A, Facts(F, A), Ownership, OneTab, Orderly, RowsInOrder, AllAtHome, AllHoused,
         NEW w \in Worker, NEW step, Steps(w, step), Keeps(w), AtHome(w)',
         UNCHANGED pdbSignups, orgs \subseteq orgs'
  PROVE  RowsInOrder' /\ AllAtHome' /\ AllHoused'
<1>1. AllHoused' /\ NamesDiffer'
  BY AccountsHoused
<1>2. AllAtHome'
  BY OthersAtHome DEF AllAtHome, Orderly
<1>3. \A u \in DOMAIN profiles' : HasLiveRing(u)'
  BY DEF RowsInOrder, HasLiveRing, Keeps, KeepsLinks, KeepsRings
<1>4. \A i \in DOMAIN Machines' : Machines'[i].org \in orgs'
  BY SameSite DEF Steps, RowsInOrder
<1> QED BY <1>1, <1>2, <1>3, <1>4 DEF RowsInOrder

(* Statements that write none of these rows.                               *)
LEMMA QuietKeepsHomes ==
  ASSUME NEW w \in Worker, UNCHANGED <<users, profiles, ringUsers>>,
         Unlinked(req[w]) => Unlinked(req'[w]) /\ req'[w].user = req[w].user
  PROVE  Keeps(w)
BY DEF Keeps, KeepsUsers, KeepsRings, KeepsLinks, Taken, IsLinked

(* Every ASN leads to a participant that has a machine.                    *)
LEMMA NetworkIsFound ==
  ASSUME Inv, EveryNetworkIsKnown, RowsInOrder, NEW asn \in Asn
  PROVE  ParticipantForPdb(asn) # {}
<1>1. PICK o \in Org : HasMachine(o, asn)
  BY DEF EveryNetworkIsKnown
<1> DEFINE Rows == {i \in DOMAIN Machines : Machines[i].asn = asn}
<1>2. DOMAIN Machines \subseteq Nat /\ \A j \in DOMAIN Machines : 1..(j - 1) \subseteq DOMAIN Machines
  BY MachineList
<1>3. Rows # {} /\ Rows \subseteq Nat
  BY <1>1, <1>2 DEF HasMachine
<1>4. PICK i \in Rows : \A k \in Rows : i <= k
  BY <1>3, LeastNumber
<1>5. \A k \in 1..(i - 1) : Machines[k].asn # asn
  BY <1>2, <1>4
<1>6. Machines[i].org \in ByMachine(asn)
  BY <1>4, <1>5 DEF ByMachine, RowsInOrder
<1> QED BY <1>6 DEF ParticipantForPdb

(* Where the steps of an orderly site are looked at.                       *)
Setting(F, A) ==
  /\ Inv /\ Facts(F, A) /\ Ownership /\ Steady /\ OneTab
  /\ Orderly /\ RowsInOrder /\ AllAtHome /\ AllHoused
Homes1 == RowsInOrder' /\ AllAtHome' /\ AllHoused'

(* HomesStep, said in these words.                                         *)
LEMMA SettingStep ==
  ASSUME NEW F, NEW A, Setting(F, A), NEW w \in Worker, NEW step, Steps(w, step), Keeps(w),
         AtHome(w)', UNCHANGED <<pdbSignups, orgs>>
  PROVE  Homes1
BY HomesStep DEF Setting, Homes1

(* A request that ends where it has no account to itself.                  *)
LEMMA EndHomes ==
  ASSUME NEW F, NEW A, Setting(F, A), NEW w \in Worker, Ends(w), Keeps(w),
         UNCHANGED <<pdbSignups, orgs>>
  PROVE  Homes1
<1>1. AtHome(w)'
  BY DEF Ends, Idle, AtHome, HasUser
<1> QED BY <1>1, SettingStep DEF Ends

(* What an orderly site never comes to.                                    *)
LEMMA NeverHappens ==
  ASSUME NEW F, NEW A, Setting(F, A), NEW w \in Worker
  PROVE  /\ \A u \in UserId : ~OpenApprovalEffect(w, u) /\ ~OpenRejectionEffect(w, u)
         /\ ~CreateOrgEffect(w) /\ ~DeactivateEffect(w)
         /\ ~FileEffect(w, "queue", FALSE) /\ ~FileEffect(w, "finish", TRUE)
         /\ ~RejectUserEffect(w) /\ ~RejectSignupEffect(w) /\ ~DieEffect(w)
<1>1. /\ req[w].at \notin {"createOrg", "deactivate", "queue", "finish", "deleteUser", "deleteSignup"}
      /\ ~Faults /\ DOMAIN pdbSignups = {}
  BY HandlerAt DEF Setting, AllAtHome, AtHome, Orderly, RowsInOrder
<1> QED BY <1>1 DEF OpenApprovalEffect, OpenRejectionEffect, Pending, CreateOrgEffect, DeactivateEffect,
     SaveEffect, FileEffect, RejectUserEffect, RejectSignupEffect, DieEffect

(* A login begins.                                                         *)
LEMMA LoginHomes ==
  ASSUME NEW F, NEW A, Setting(F, A), NEW w \in Worker, NEW pdb \in Pdb, NEW asn \in Asn,
         LoginEffect(w, pdb, asn)
  PROVE  Homes1
<1>1. PICK p : p = req'[w]
  OBVIOUS
<1>2. /\ req[w].at = "idle" /\ UNCHANGED <<users, profiles, ringUsers, pdbSignups, orgs>>
      /\ p.op = "login" /\ p.pdb = pdb
      /\ \/ Steps(w, "updateRing") /\ p.user \in DOMAIN users
         \/ Steps(w, "resolve") /\ LinkedLive(pdb) = {}
  BY <1>1 DEF LoginEffect, tables, nets
<1>3. Keeps(w)
  BY <1>2, QuietKeepsHomes, HandlerAt DEF Setting, Unlinked, Creates
<1>4. CASE Steps(w, "updateRing") /\ p.user \in DOMAIN users
  <2>1. AtHome(w)'
    BY <1>1, <1>2, <1>4 DEF AtHome, Steps, Refreshing
  <2> QED BY <1>2, <1>3, <1>4, <2>1, SettingStep
<1>5. CASE Steps(w, "resolve") /\ LinkedLive(pdb) = {}
  <2>1. LinkedTo(pdb) = {}
    BY <1>5 DEF LinkedLive, LinkedTo, Setting, RowsInOrder, HasLiveRing
  <2>2. LinkedTo(p.pdb)' = {}
    BY <1>1, <1>2, <2>1 DEF LinkedTo
  <2>3. AtHome(w)'
    BY <1>1, <1>2, <1>5, <2>2 DEF AtHome, Steps, HasUser, Looking, LinkedTo
  <2> QED BY <1>2, <1>3, <1>5, <2>3, SettingStep
<1> QED BY <1>2, <1>4, <1>5

(* It finds the participant, records the ASN and picks a name.             *)
LEMMA LookingHomes ==
  ASSUME NEW F, NEW A, Setting(F, A), NEW w \in Worker,
         ResolveEffect(w) \/ AsnGetEffect(w) \/ AsnSaveEffect(w) \/ PickNameEffect(w)
  PROVE  Homes1
<1>1. PICK q : q = req[w]
  OBVIOUS
<1>2. PICK p : p = req'[w]
  OBVIOUS
<1>3. /\ q.at \in {"resolve", "asnGet", "asnSave", "pickName"} /\ q.op = "login"
      /\ UNCHANGED <<users, profiles, ringUsers, pdbSignups, orgs>>
  <2>1. /\ q.at \in {"resolve", "asnGet", "asnSave", "pickName"}
        /\ UNCHANGED <<users, profiles, ringUsers, pdbSignups, orgs>>
    BY <1>1 DEF ResolveEffect, AsnGetEffect, AsnSaveEffect, PickNameEffect, tables, nets
  <2>2. q.op \in {"idle", "login"} /\ (q.op = "idle" <=> q.at = "idle")
    BY <1>1, HandlerAt DEF Setting, AllAtHome, AtHome
  <2> QED BY <2>1, <2>2
<1>4. Keeps(w)
  BY <1>1, <1>3, QuietKeepsHomes DEF Unlinked, Creates, HasUser, Looking
<1>5. LinkedTo(q.pdb) = {}
  BY <1>1, <1>3 DEF Setting, AllAtHome, AtHome, Refreshing
<1>6. ASSUME NEW step \in {"asnGet", "asnSave", "pickName", "createUser"}, Steps(w, step),
             p.op = q.op, p.pdb = q.pdb,
             step \in {"pickName", "createUser"} => p.org # None,
             step = "createUser" => ~Taken(p.name, ringUsers)
      PROVE  Homes1
  <2>1. AtHome(w)'
    BY <1>2, <1>3, <1>5, <1>6 DEF AtHome, Steps, HasUser, Looking, Refreshing, LinkedTo, Taken
  <2> QED BY <1>3, <1>4, <1>6, <2>1, SettingStep
<1>7. Ends(w) => Homes1
  BY <1>3, <1>4, EndHomes
<1>8. CASE ResolveEffect(w)
  <2>1. q.asn \in Asn
    BY <1>1, <1>3, Actor, PdbAssumption DEF Setting, Shape, HasNet
  <2>2. ParticipantForPdb(q.asn) # {}
    BY <2>1, NetworkIsFound DEF Setting, Orderly
  <2> QED BY <1>1, <1>2, <1>3, <1>6, <1>8, <2>2 DEF ResolveEffect, SameUser
<1>9. CASE AsnGetEffect(w)
  BY <1>1, <1>2, <1>6, <1>9, Carried DEF AsnGetEffect, Carries
<1>10. CASE AsnSaveEffect(w)
  <2>1. q.org # None
    BY <1>1, <1>10, Actor DEF Setting, Shape, AsnSaveEffect
  <2> QED BY <1>1, <1>2, <1>3, <1>6, <1>7, <1>10, <2>1, Carried DEF AsnSaveEffect, Carries
<1>11. CASE PickNameEffect(w)
  <2>1. q.org # None
    BY <1>1, <1>11 DEF Setting, AllAtHome, AtHome, PickNameEffect
  <2> QED BY <1>1, <1>2, <1>6, <1>11, <2>1 DEF PickNameEffect, SameNet
<1> QED BY <1>8, <1>9, <1>10, <1>11

(* A login that comes back saves its rows as they are.                     *)
LEMMA SyncHomes ==
  ASSUME NEW F, NEW A, Setting(F, A), NEW w \in Worker, SyncRingEffect(w) \/ SyncUserEffect(w)
  PROVE  Homes1
<1>1. PICK q : q = req[w]
  OBVIOUS
<1>2. /\ Refreshing(q.at) /\ q.op = "login" /\ HasUser(q) /\ ~Unlinked(q)
      /\ UNCHANGED <<profiles, pdbSignups, orgs>>
  <2>1. q.at \in {"updateRing", "sync"} /\ UNCHANGED <<profiles, pdbSignups, orgs>>
    BY <1>1 DEF SyncRingEffect, SyncUserEffect, nets
  <2>2. q.op = "login"
    BY <1>1, <2>1, HandlerAt DEF Setting
  <2> QED BY <2>1, <2>2 DEF Refreshing, HasUser, Looking, Unlinked, Creates
<1>3. q.user \in DOMAIN users /\ users[q.user].name = q.name
  BY <1>1, <1>2 DEF Setting, AllAtHome, AtHome, Facts, AccountsAre, RequestsAre, Remembered, Handles
<1>4. CASE SyncRingEffect(w)
  <2>1. q.ring \in DOMAIN ringUsers /\ ringUsers[q.ring] = q.row
    BY <1>1, <1>4 DEF SyncRingEffect, Setting, Steady, There, Orderly, HasRing, Facts, RowsAre,
       RequestsAre, Remembered
  <2>2. KeepsRings(w)
    <3>1. UNCHANGED ringUsers \/ Wrote(ringUsers, ringUsers', q.ring, q.row)
      BY <1>1, <1>4 DEF SyncRingEffect
    <3> QED BY <2>1, <3>1 DEF KeepsRings, Wrote, Taken
  <2>3. Keeps(w)
    BY <1>1, <1>2, <1>4, <2>2 DEF Keeps, KeepsUsers, KeepsLinks, SyncRingEffect, IsLinked
  <2>4. CASE Carries(w, "sync")
    <3>1. AtHome(w)'
      BY <1>1, <1>2, <1>3, <1>4, <2>4, Carried DEF AtHome, SyncRingEffect, Refreshing
    <3> QED BY <1>2, <2>3, <2>4, <3>1, SettingStep DEF Carries
  <2> QED BY <1>2, <1>4, <2>3, <2>4, EndHomes DEF SyncRingEffect
<1>5. CASE SyncUserEffect(w)
  <2>1. KeepsUsers(w)
    <3>1. PICK row : row = [name |-> q.name, active |-> q.active]
      OBVIOUS
    <3>2. UNCHANGED users \/ Wrote(users, users', q.user, row)
      BY <1>1, <1>5, <3>1 DEF SyncUserEffect
    <3> QED BY <1>3, <3>1, <3>2 DEF KeepsUsers, Wrote
  <2>2. Keeps(w)
    BY <1>1, <1>2, <1>5, <2>1 DEF Keeps, KeepsRings, KeepsLinks, SyncUserEffect, IsLinked, Taken
  <2> QED BY <1>2, <1>5, <2>2, EndHomes DEF SyncUserEffect
<1> QED BY <1>4, <1>5

(* A login creates the account.                                            *)
LEMMA CreateUserHomes ==
  ASSUME NEW F, NEW A, Setting(F, A), NEW w \in Worker, CreateUserEffect(w)
  PROVE  Homes1
<1>1. PICK q : q = req[w]
  OBVIOUS
<1>2. PICK p : p = req'[w]
  OBVIOUS
<1>3. /\ q.at = "createUser" /\ q.op = "login" /\ q.org # None /\ ~Unlinked(q)
      /\ UNCHANGED <<profiles, ringUsers, pdbSignups, orgs>>
  <2>1. q.at = "createUser" /\ UNCHANGED <<profiles, ringUsers, pdbSignups, orgs>>
    BY <1>1 DEF CreateUserEffect, nets
  <2>2. q.op = "login"
    BY <1>1, <2>1, HandlerAt DEF Setting
  <2> QED BY <1>1, <2>1, <2>2 DEF Setting, AllAtHome, AtHome, Unlinked, Creates, HasUser, Looking
<1>4. CASE Ends(w) /\ UNCHANGED users
  <2>1. Keeps(w)
    BY <1>1, <1>3, <1>4, QuietKeepsHomes
  <2> QED BY <1>3, <1>4, <2>1, EndHomes
<1>5. CASE ~(Ends(w) /\ UNCHANGED users)
  <2>1. PICK n : n = lastUser + 1
    OBVIOUS
  <2>2. PICK row : row = [name |-> q.name, active |-> TRUE]
    OBVIOUS
  <2>3. /\ Steps(w, "activate") /\ ~Taken(q.name, users) /\ Wrote(users, users', n, row)
        /\ p.op = q.op /\ p.user = n /\ p.name = q.name /\ p.pdb = q.pdb
    BY <1>1, <1>2, <1>3, <1>5, <2>1, <2>2 DEF CreateUserEffect, SameNet
  <2>4. n \notin DOMAIN users
    BY <2>1, Actor DEF Setting, Inv, Referential
  <2>5. Unlinked(p)
    BY <1>2, <1>3, <2>3 DEF Unlinked, Creates, HasUser, Looking, Refreshing, Steps
  <2>6. KeepsUsers(w)
    BY <1>2, <2>2, <2>3, <2>4, <2>5 DEF KeepsUsers, Wrote
  <2>7. Keeps(w)
    BY <1>1, <1>3, <2>6 DEF Keeps, KeepsRings, KeepsLinks, IsLinked, Taken
  <2>8. ~Taken(q.name, ringUsers) /\ LinkedTo(q.pdb) = {}
    BY <1>1, <1>3, <2>3 DEF Setting, AllAtHome, AtHome, Refreshing
  <2>9. AtHome(w)'
    BY <1>2, <1>3, <2>3, <2>8 DEF AtHome, Steps, Wrote, LinkedTo, Taken
  <2> QED BY <1>3, <2>3, <2>7, <2>9, SettingStep
<1> QED BY <1>4, <1>5

(* It saves the account active, and creates the ring user.                 *)
LEMMA CreateRingHomes ==
  ASSUME NEW F, NEW A, Setting(F, A), NEW w \in Worker, ActivateEffect(w) \/ CreateRingEffect(w)
  PROVE  Homes1
<1>1. PICK q : q = req[w]
  OBVIOUS
<1>2. PICK p : p = req'[w]
  OBVIOUS
<1>3. /\ q.at \in {"activate", "createRing"} /\ q.op = "login" /\ Unlinked(q)
      /\ UNCHANGED <<profiles, pdbSignups, orgs>>
  <2>1. q.at \in {"activate", "createRing"} /\ UNCHANGED <<profiles, pdbSignups, orgs>>
    BY <1>1 DEF ActivateEffect, SaveEffect, CreateRingEffect, nets
  <2>2. q.op = "login"
    BY <1>1, <2>1, HandlerAt DEF Setting, AllAtHome, AtHome
  <2> QED BY <2>1, <2>2 DEF Unlinked, Creates, HasUser, Looking, Refreshing
<1>4. /\ ~Taken(q.name, ringUsers) /\ LinkedTo(q.pdb) = {} /\ q.pdb # None
      /\ q.user \in DOMAIN users /\ users[q.user].name = q.name
  BY <1>1, <1>3, NameHeld DEF Setting, AllAtHome, AtHome, Refreshing
<1>5. CASE ActivateEffect(w)
  <2>1. q.at = "activate"
    BY <1>1, <1>5 DEF ActivateEffect, SaveEffect
  <2>2. ~TakenByOther(q.name, users, q.user)
    BY <1>4 DEF TakenByOther, Taken, Without, Setting, RowsInOrder, NamesDiffer
  <2>3. PICK row : row = [name |-> q.name, active |-> TRUE]
    OBVIOUS
  <2>4. Carries(w, "createRing") /\ Wrote(users, users', q.user, row) /\ UNCHANGED ringUsers
    BY <1>1, <1>3, <1>5, <2>2, <2>3 DEF ActivateEffect, SaveEffect
  <2>5. p.at = "createRing" /\ p.op = q.op /\ p.user = q.user /\ p.name = q.name /\ p.pdb = q.pdb
    BY <1>1, <1>2, <2>4, Carried
  <2>6. Unlinked(p)
    BY <1>3, <2>5 DEF Unlinked, Creates, HasUser, Looking, Refreshing
  <2>7. KeepsUsers(w) /\ q.user \in DOMAIN users'
    BY <1>4, <2>3, <2>4 DEF KeepsUsers, Wrote
  <2>8. Keeps(w)
    BY <1>1, <1>2, <1>3, <2>4, <2>5, <2>6, <2>7 DEF Keeps, KeepsRings, KeepsLinks, IsLinked, Taken
  <2>9. AtHome(w)'
    BY <1>2, <1>3, <1>4, <2>4, <2>5, <2>7 DEF AtHome, LinkedTo, Taken
  <2> QED BY <1>3, <2>4, <2>8, <2>9, SettingStep DEF Carries
<1>6. CASE CreateRingEffect(w)
  <2>1. PICK n : n = lastRing + 1
    OBVIOUS
  <2>2. PICK row : row = [name |-> q.name, org |-> q.org, admin |-> FALSE]
    OBVIOUS
  <2>3. /\ Steps(w, "linkGet") /\ Wrote(ringUsers, ringUsers', n, row) /\ UNCHANGED users
        /\ p.op = q.op /\ p.user = q.user /\ p.pdb = q.pdb
    BY <1>1, <1>2, <1>4, <1>6, <2>1, <2>2 DEF CreateRingEffect, SameUser, SameNet
  <2>4. Unlinked(p)
    BY <1>2, <1>3, <2>3 DEF Unlinked, Creates, HasUser, Looking, Refreshing, Steps
  <2>5. KeepsRings(w)
    BY <1>1, <1>3, <2>2, <2>3 DEF KeepsRings, Wrote, Taken
  <2>6. Keeps(w)
    BY <1>1, <1>2, <1>3, <2>3, <2>4, <2>5 DEF Keeps, KeepsUsers, KeepsLinks, IsLinked
  <2>7. AtHome(w)'
    BY <1>2, <1>3, <1>4, <2>3 DEF AtHome, Steps, LinkedTo
  <2> QED BY <1>3, <2>3, <2>6, <2>7, SettingStep
<1> QED BY <1>5, <1>6

(* It links them.                                                          *)
LEMMA LinkHomes ==
  ASSUME NEW F, NEW A, Setting(F, A), NEW w \in Worker, LinkGetEffect(w) \/ LinkSaveEffect(w)
  PROVE  Homes1
<1>1. PICK q : q = req[w]
  OBVIOUS
<1>2. PICK p : p = req'[w]
  OBVIOUS
<1>3. /\ q.at \in {"linkGet", "linkSave"} /\ q.op = "login" /\ Unlinked(q) /\ HasUser(q)
      /\ UNCHANGED <<users, ringUsers, pdbSignups, orgs>>
  <2>1. q.at \in {"linkGet", "linkSave"} /\ UNCHANGED <<users, ringUsers, pdbSignups, orgs>>
    BY <1>1 DEF LinkGetEffect, LinkSaveEffect, nets
  <2>2. q.op = "login"
    BY <1>1, <2>1, HandlerAt DEF Setting, AllAtHome, AtHome
  <2> QED BY <2>1, <2>2 DEF Unlinked, Creates, HasUser, Looking, Refreshing
<1>4. /\ LinkedTo(q.pdb) = {} /\ q.pdb # None
      /\ q.user \in DOMAIN users /\ users[q.user].name = q.name
  BY <1>1, <1>3, NameHeld DEF Setting, AllAtHome, AtHome, Refreshing
<1>5. q.ring \in DOMAIN ringUsers
  BY <1>1, <1>3 DEF Setting, Orderly, Steady, There, HasRing
<1>6. ASSUME NEW u \in DOMAIN profiles \ {q.user} PROVE profiles[u].ring # q.ring
  <2>1. u \in DOMAIN users /\ users[u].name = A[u].name /\ users[q.user].name = A[q.user].name
    BY <1>4 DEF Setting, Inv, Referential, Facts, AccountsAre
  <2>2. F[profiles[u].ring].name = A[u].name /\ F[q.ring].name = q.name
    BY <1>1, <1>3 DEF Setting, Facts, LinksAre, RequestsAre, Remembered
  <2> QED BY <1>4, <2>1, <2>2 DEF Setting, RowsInOrder, NamesDiffer
<1>7. \A u \in DOMAIN profiles : profiles[u].pdb # q.pdb
  BY <1>4 DEF LinkedTo
<1>8. KeepsUsers(w) /\ KeepsRings(w)
  BY <1>3 DEF KeepsUsers, KeepsRings, Taken
<1>9. CASE LinkGetEffect(w)
  <2>1. PICK row : row = [ring |-> q.ring, pdb |-> None]
    OBVIOUS
  <2>2. /\ Carries(w, "linkSave")
        /\ UNCHANGED profiles \/ (q.user \notin DOMAIN profiles /\ Wrote(profiles, profiles', q.user, row))
    BY <1>1, <1>4, <1>6, <1>9, <2>1 DEF LinkGetEffect
  <2>3. p.at = "linkSave" /\ p.op = q.op /\ p.user = q.user /\ p.pdb = q.pdb
    BY <1>1, <1>2, <2>2, Carried
  <2>4. Unlinked(p)
    BY <1>3, <2>3 DEF Unlinked, Creates, HasUser, Looking, Refreshing
  <2>5. KeepsLinks(w)
    BY <1>1, <1>2, <1>3, <1>5, <2>1, <2>2, <2>3, <2>4 DEF KeepsLinks, IsLinked, Wrote
  <2>6. \A u \in DOMAIN profiles' : profiles'[u].pdb # q.pdb
    BY <1>4, <1>7, <2>1, <2>2 DEF Wrote
  <2>7. AtHome(w)'
    BY <1>2, <1>3, <1>4, <2>3, <2>6 DEF AtHome, LinkedTo
  <2> QED BY <1>3, <1>8, <2>2, <2>5, <2>7, SettingStep DEF Keeps, Carries
<1>10. CASE LinkSaveEffect(w)
  <2>1. PICK row : row = [ring |-> q.ring, pdb |-> q.pdb]
    OBVIOUS
  <2>2. Carries(w, "token") /\ Wrote(profiles, profiles', q.user, row)
    BY <1>1, <1>3, <1>4, <1>6, <1>7, <1>10, <2>1 DEF LinkSaveEffect
  <2>3. p.at = "token" /\ p.op = q.op /\ p.user = q.user
    BY <1>1, <1>2, <2>2, Carried
  <2>4. KeepsLinks(w)
    BY <1>1, <1>3, <1>4, <1>5, <2>1, <2>2 DEF KeepsLinks, IsLinked, Wrote
  <2>5. AtHome(w)'
    BY <1>2, <1>3, <1>4, <2>3 DEF AtHome
  <2> QED BY <1>3, <1>8, <2>2, <2>4, <2>5, SettingStep DEF Keeps, Carries
<1> QED BY <1>9, <1>10

(* And it ends with a token.                                               *)
LEMMA TokenHomes ==
  ASSUME NEW F, NEW A, Setting(F, A), NEW w \in Worker, TokenEffect(w)
  PROVE  Homes1
<1>1. /\ req[w].at = "token" /\ req[w].op = "login"
      /\ UNCHANGED <<users, profiles, ringUsers, pdbSignups, orgs>>
  <2>1. req[w].at = "token" /\ UNCHANGED <<users, profiles, ringUsers, pdbSignups, orgs>>
    BY DEF TokenEffect, nets
  <2> QED BY <2>1, HandlerAt DEF Setting, AllAtHome, AtHome
<1>2. Ends(w)
  BY <1>1 DEF TokenEffect
<1>3. Keeps(w)
  BY <1>1, QuietKeepsHomes DEF Unlinked
<1> QED BY <1>1, <1>2, <1>3, EndHomes

(* Every step keeps an orderly site orderly.                               *)
LEMMA HomesKept ==
  Inv /\ History /\ Ownership /\ Steady /\ OneTab /\ Homes /\ [BackfillNext]_backfillVars => Homes'
<1> SUFFICES ASSUME Inv, History, Ownership, Steady, OneTab, Homes, [BackfillNext]_backfillVars
             PROVE  Homes'
  OBVIOUS
<1>1. UNCHANGED deployment => (Orderly' <=> Orderly)
  BY SameSite DEF Orderly, EveryNetworkIsKnown
<1>2. CASE UNCHANGED <<req, deployment, tables, orgs>>
  <2>1. UNCHANGED <<req, deployment, users, profiles, ringUsers, pdbSignups, orgs>>
    BY <1>2 DEF tables
  <2> QED BY <1>1, <2>1, SameSite DEF Homes, RowsInOrder, NamesDiffer, HasLiveRing, AllAtHome, AtHome,
       LinkedTo, Taken, AllHoused, Housed, IsLinked
<1>3. ASSUME NEW w \in Worker, Acts(w) PROVE Homes'
  <2>1. UNCHANGED deployment
    BY <1>3, ActsSteps DEF Steps
  <2>2. PICK F, A : Facts(F, A)
    BY DEF History
  <2>3. ASSUME Orderly PROVE Homes1
    <3>1. Setting(F, A)
      BY <2>2, <2>3 DEF Setting, Homes
    <3> QED BY <1>3, <3>1, NeverHappens, LoginHomes, LookingHomes, SyncHomes, CreateUserHomes,
         CreateRingHomes, LinkHomes, TokenHomes DEF Acts
  <2> QED BY <1>1, <2>1, <2>3 DEF Homes, Homes1
<1>4. ASSUME NEW r \in RingId, DestroyEffect(r) PROVE Homes'
  <2>1. ~Orderly /\ UNCHANGED deployment
    BY <1>4 DEF DestroyEffect, Orderly
  <2> QED BY <1>1, <2>1 DEF Homes
<1> QED BY <1>2, <1>3, <1>4, NextActs

(* At the start there are no accounts.                                     *)
LEMMA HomesInit == BackfillInit => Homes /\ OneTab
<1> SUFFICES ASSUME BackfillInit PROVE Homes /\ OneTab
  OBVIOUS
<1>1. \A w \in Worker : req[w].op = "idle" /\ req[w].at = "idle"
  BY DEF BackfillInit, Init, StoreInit, Idle
<1>2. /\ DOMAIN users = {} /\ DOMAIN profiles = {} /\ DOMAIN pdbSignups = {}
      /\ \A i \in DOMAIN Machines : Machines[i].org \in orgs
  BY DEF BackfillInit, Init, StoreInit
<1> QED BY <1>1, <1>2 DEF Homes, RowsInOrder, NamesDiffer, AllAtHome, AtHome, HasUser, AllHoused, OneTab

(***************************************************************************)
(* Where every network is known, no identity logs in from two tabs at once,*)
(* nothing dies and no ring user is deleted, every account is linked to an *)
(* identity as soon as no request is at work, however many logins overlap. *)
(***************************************************************************)
THEOREM AccountsAreLinked == BackfillSpec => []NoOrphanAccount
<1>1. Homes => NoOrphanAccount
  <2> SUFFICES ASSUME Homes, Orderly, Quiescent, NEW u \in DOMAIN users PROVE IsLinked(u)
    BY DEF NoOrphanAccount, Orderly, IsLinked
  <2>1. Housed(u)
    BY DEF Homes, AllHoused
  <2>2. \A w \in Worker : req[w].op # "login"
    BY DEF Quiescent, Idle
  <2> QED BY <2>1, <2>2 DEF Housed, Unlinked, Creates
<1> QED BY <1>1, InitEstablishesInv, NextKeepsInv, HistoryInit, HistoryKept, OwnershipInit, OwnershipKept,
        RolesKept, CompleteInit, SteadyInit, SteadyKept, HomesInit, OneTabKept, HomesKept, PTL
        DEF BackfillSpec

-----------------------------------------------------------------------------
(***************************************************************************)
(* Who is served: a request that has the token still to issue, or to mark  *)
(* the approval, has linked its account, and a link is taken back only     *)
(* with the whole account.  That an identity has one account to serve      *)
(* rests on links being exclusive.                                         *)
(***************************************************************************)
Due(q) == q.at \in {"token", "finish"} \/ (q.op = "pdbApprove" /\ q.at = "activate")
Linked == {u \in DOMAIN profiles : profiles[u].pdb # None}
AllDueLinked == \A w \in Worker : Due(req[w]) => req[w].user \in Linked
TokensLinked == tokens \subseteq Linked
LinksExclude ==
  \A u, x \in DOMAIN profiles : profiles[u].pdb # None /\ profiles[u].pdb = profiles[x].pdb => u = x
Served == LinksExclude /\ (~Rejects \/ OneWorker => AllDueLinked /\ TokensLinked)

(* A step that keeps all links, and gives the token to a linked account.   *)
LEMMA ServedStep ==
  ASSUME Served, NEW w \in Worker, NEW step, Steps(w, step), LinksExclude',
         Linked \subseteq Linked',
         ~Rejects \/ OneWorker =>
           /\ Due(req'[w]) => req'[w].user \in Linked'
           /\ tokens' \subseteq tokens \union Linked'
  PROVE  Served'
<1>1. UNCHANGED Rejects /\ (OneWorker' <=> OneWorker)
  BY SameSite DEF OneWorker, Steps
<1>2. ASSUME ~Rejects \/ OneWorker PROVE AllDueLinked' /\ TokensLinked'
  <2>1. AllDueLinked /\ TokensLinked
    BY <1>2 DEF Served
  <2>2. ASSUME NEW v \in Worker, Due(req'[v]) PROVE req'[v].user \in Linked'
    BY <1>2, <2>1, <2>2 DEF AllDueLinked, Steps
  <2>3. ASSUME NEW u \in tokens' PROVE u \in Linked'
    BY <1>2, <2>1, <2>3 DEF TokensLinked
  <2> QED BY <2>2, <2>3 DEF AllDueLinked, TokensLinked
<1> QED BY <1>1, <1>2 DEF Served

(* Statements that neither link nor serve.                                 *)
LEMMA QuietServed ==
  ASSUME Served, NEW w \in Worker, NEW step, Steps(w, step), UNCHANGED <<profiles, tokens>>,
         Due(req'[w]) => Due(req[w]) /\ req'[w].user = req[w].user
  PROVE  Served'
<1>1. UNCHANGED Linked
  BY DEF Linked
<1>2. LinksExclude'
  BY DEF Served, LinksExclude
<1>3. ASSUME ~Rejects \/ OneWorker, Due(req'[w]) PROVE req'[w].user \in Linked'
  BY <1>1, <1>3 DEF Served, AllDueLinked
<1> QED BY <1>1, <1>2, <1>3, ServedStep

(* A request that ends has nothing more to do.                             *)
LEMMA EndServed ==
  ASSUME Served, NEW w \in Worker, Ends(w), UNCHANGED <<profiles, tokens>>
  PROVE  Served'
<1>1. Steps(w, "idle") /\ ~Due(req'[w])
  BY DEF Ends, Due, Idle
<1> QED BY <1>1, QuietServed

(* The statements before the link, and the saves of accounts.              *)
LEMMA LookingServed ==
  ASSUME Inv, Served, NEW w \in Worker,
         \/ \E pdb \in Pdb, asn \in Asn : LoginEffect(w, pdb, asn)
         \/ \E u \in UserId : OpenApprovalEffect(w, u)
         \/ \E u \in UserId : OpenRejectionEffect(w, u)
         \/ SyncRingEffect(w) \/ SyncUserEffect(w)
         \/ ResolveEffect(w) \/ CreateOrgEffect(w) \/ AsnGetEffect(w) \/ AsnSaveEffect(w)
         \/ PickNameEffect(w) \/ CreateRingEffect(w)
         \/ FileEffect(w, "queue", FALSE) \/ FileEffect(w, "finish", TRUE) \/ DieEffect(w)
  PROVE  Served'
<1>1. UNCHANGED <<profiles, tokens>>
  BY DEF LoginEffect, OpenApprovalEffect, OpenRejectionEffect, SyncRingEffect, SyncUserEffect, ResolveEffect,
     CreateOrgEffect, AsnGetEffect, AsnSaveEffect, PickNameEffect, CreateRingEffect, FileEffect,
     DieEffect, tables
<1>2. \/ Ends(w)
      \/ \E step \in {"updateRing", "sync", "resolve", "createOrg", "asnGet", "asnSave", "pickName",
                      "createUser", "createRing", "linkGet", "deleteUser"} : Steps(w, step)
  BY DEF LoginEffect, OpenApprovalEffect, OpenRejectionEffect, SyncRingEffect, SyncUserEffect, ResolveEffect,
     CreateOrgEffect, AsnGetEffect, AsnSaveEffect, PickNameEffect, CreateRingEffect, FileEffect,
     DieEffect, Carries
<1>3. CASE Ends(w)
  BY <1>1, <1>3, EndServed
<1>4. ASSUME NEW step \in {"updateRing", "sync", "resolve", "createOrg", "asnGet", "asnSave", "pickName",
                           "createUser", "createRing", "linkGet", "deleteUser"},
             Steps(w, step)
      PROVE  Served'
  <2>1. ~Due(req'[w])
    BY <1>4 DEF Steps, Due
  <2> QED BY <1>1, <1>4, <2>1, QuietServed
<1> QED BY <1>2, <1>3, <1>4

(* Creating and saving an account: only an approval, which has linked it,  *)
(* goes on to the token.                                                   *)
LEMMA SavingServed ==
  ASSUME Inv, Served, NEW w \in Worker,
         CreateUserEffect(w) \/ DeactivateEffect(w) \/ ActivateEffect(w)
  PROVE  Served'
<1>1. UNCHANGED <<profiles, tokens>>
  BY DEF CreateUserEffect, DeactivateEffect, ActivateEffect, SaveEffect
<1>2. CASE Ends(w)
  BY <1>1, <1>2, EndServed
<1>3. CASE CreateUserEffect(w) /\ ~Ends(w)
  <2>1. /\ req[w].at = "createUser" /\ req'[w].op = req[w].op
        /\ \E step \in {"deactivate", "activate"} : Steps(w, step)
    BY <1>3 DEF CreateUserEffect, SameUser
  <2>2. req[w].op = "login"
    BY <2>1, HandlerAt
  <2>3. ~Due(req'[w])
    BY <2>1, <2>2 DEF Steps, Due
  <2> QED BY <1>1, <2>1, <2>3, QuietServed
<1>4. CASE DeactivateEffect(w) /\ ~Ends(w)
  <2>1. Steps(w, "queue") /\ req'[w].at = "queue"
    BY <1>4, Carried DEF DeactivateEffect, SaveEffect
  <2>2. ~Due(req'[w])
    BY <2>1 DEF Due
  <2> QED BY <1>1, <2>1, <2>2, QuietServed
<1>5. CASE ActivateEffect(w) /\ ~Ends(w)
  <2>1. /\ req[w].at = "activate"
        /\ Carries(w, IF req[w].op = "login" THEN "createRing" ELSE "token")
    BY <1>5 DEF ActivateEffect, SaveEffect
  <2>2. req[w].op \in {"login", "pdbApprove"}
    BY <2>1, HandlerAt
  <2>3. CASE req[w].op = "login"
    <3>1. Steps(w, "createRing") /\ req'[w].at = "createRing"
      BY <2>1, <2>3, Carried
    <3>2. ~Due(req'[w])
      BY <3>1 DEF Due
    <3> QED BY <1>1, <3>1, <3>2, QuietServed
  <2>4. CASE req[w].op = "pdbApprove"
    <3>1. Steps(w, "token") /\ req'[w].user = req[w].user
      BY <2>1, <2>4, Carried
    <3>2. Due(req[w])
      BY <2>1, <2>4 DEF Due
    <3> QED BY <1>1, <3>1, <3>2, QuietServed
  <2> QED BY <2>2, <2>3, <2>4
<1> QED BY <1>2, <1>3, <1>4, <1>5

(* Linking.  The profile that get_or_create makes has no identity yet; the *)
(* save gives it one that no other account has.                            *)
LEMMA LinkServed ==
  ASSUME Inv, Served, NEW w \in Worker, LinkGetEffect(w) \/ LinkSaveEffect(w)
  PROVE  Served'
<1> DEFINE q == req[w]
<1>1. UNCHANGED tokens
  BY DEF LinkGetEffect, LinkSaveEffect
<1>2. CASE Ends(w) /\ UNCHANGED profiles
  BY <1>1, <1>2, EndServed
<1>3. CASE Carries(w, "linkSave") /\ UNCHANGED profiles
  <2>1. Steps(w, "linkSave") /\ req'[w].at = "linkSave"
    BY <1>3, Carried
  <2>2. ~Due(req'[w])
    BY <2>1 DEF Due
  <2> QED BY <1>1, <1>3, <2>1, <2>2, QuietServed
<1>4. CASE /\ Carries(w, "linkSave") /\ q.user \in DOMAIN users \ DOMAIN profiles
           /\ Wrote(profiles, profiles', q.user, [ring |-> q.ring, pdb |-> None])
  <2>1. Steps(w, "linkSave") /\ req'[w].at = "linkSave"
    BY <1>4, Carried
  <2>2. LinksExclude'
    BY <1>4 DEF Served, LinksExclude, Wrote
  <2>3. Linked \subseteq Linked'
    BY <1>4 DEF Linked, Wrote
  <2>4. ~Due(req'[w])
    BY <2>1 DEF Due
  <2> QED BY <1>1, <2>1, <2>2, <2>3, <2>4, ServedStep
<1>5. CASE /\ Carries(w, IF q.op = "login" THEN "token" ELSE "activate")
           /\ q.at = "linkSave"
           /\ \A u \in DOMAIN profiles \ {q.user} : profiles[u].pdb # q.pdb
           /\ Wrote(profiles, profiles', q.user, [ring |-> q.ring, pdb |-> q.pdb])
  <2>1. q.pdb # None
    BY <1>5, LinkerHolds DEF Linking
  <2>2. LinksExclude'
    BY <1>5, <2>1 DEF Served, LinksExclude, Wrote
  <2>3. Linked \union {q.user} \subseteq Linked'
    BY <1>5, <2>1 DEF Linked, Wrote
  <2>4. req'[w].user = q.user /\ \E step : Steps(w, step)
    BY <1>5, Carried
  <2> QED BY <1>1, <2>2, <2>3, <2>4, ServedStep
<1> QED BY <1>2, <1>3, <1>4, <1>5 DEF LinkGetEffect, LinkSaveEffect

(* The token goes to the account that was linked.                          *)
LEMMA TokenServed ==
  ASSUME Inv, Served, NEW w \in Worker, TokenEffect(w)
  PROVE  Served'
<1> DEFINE q == req[w]
<1>1. /\ q.at = "token" /\ UNCHANGED profiles /\ tokens' \subseteq tokens \union {q.user}
      /\ Ends(w) \/ Carries(w, "finish")
  BY DEF TokenEffect
<1>2. Due(q)
  BY <1>1 DEF Due
<1>3. UNCHANGED Linked
  BY <1>1 DEF Linked
<1>4. LinksExclude'
  BY <1>1 DEF Served, LinksExclude
<1>5. /\ \E step : Steps(w, step)
      /\ Due(req'[w]) => req'[w].user = q.user
  BY <1>1, Carried DEF Ends, Due, Idle
<1>6. ~Rejects \/ OneWorker => q.user \in Linked
  BY <1>2 DEF Served, AllDueLinked
<1> QED BY <1>1, <1>3, <1>4, <1>5, <1>6, ServedStep

(* A rejection takes the links of one account, which no other request has  *)
(* in hand where one worker serves all, and its token with them.           *)
LEMMA RejectServed ==
  ASSUME Inv, Roles, Served, NEW w \in Worker, RejectUserEffect(w) \/ RejectSignupEffect(w)
  PROVE  Served'
<1>1. CASE RejectSignupEffect(w)
  BY <1>1, EndServed DEF RejectSignupEffect
<1>2. CASE RejectUserEffect(w)
  <2>1. /\ req[w].at = "deleteUser" /\ Carries(w, "deleteSignup")
        /\ Erased(profiles, profiles', req[w].user) /\ tokens' = tokens \ {req[w].user}
    BY <1>2 DEF RejectUserEffect
  <2>2. Steps(w, "deleteSignup") /\ req'[w].at = "deleteSignup"
    BY <2>1, Carried
  <2>3. Rejects
    BY <2>1, HandlerAt DEF Roles, May
  <2>4. UNCHANGED Rejects /\ (OneWorker' <=> OneWorker)
    BY <2>2, SameSite DEF OneWorker, Steps
  <2>5. LinksExclude'
    BY <2>1 DEF Served, LinksExclude, Erased
  <2>6. ASSUME OneWorker PROVE AllDueLinked' /\ TokensLinked'
    <3>1. \A v \in Worker : ~Due(req'[v])
      <4>1. \A v \in Worker \ {w} : req'[v].at = "idle"
        BY <2>1, <2>2, <2>6, OthersIdle DEF Steps
      <4> QED BY <2>2, <4>1 DEF Due
    <3>2. TokensLinked
      BY <2>6 DEF Served
    <3>3. TokensLinked'
      BY <2>1, <3>2 DEF TokensLinked, Linked, Erased
    <3> QED BY <3>1, <3>3 DEF AllDueLinked
  <2> QED BY <2>3, <2>4, <2>5, <2>6 DEF Served
<1> QED BY <1>1, <1>2

(* Every step keeps it.                                                    *)
LEMMA ServedKept == Inv /\ Roles /\ Served /\ [BackfillNext]_backfillVars => Served'
<1> SUFFICES ASSUME Inv, Roles, Served, [BackfillNext]_backfillVars PROVE Served'
  OBVIOUS
<1>1. CASE UNCHANGED <<req, deployment, profiles, tokens>>
  <2>1. UNCHANGED Rejects /\ (OneWorker' <=> OneWorker)
    BY <1>1, SameSite DEF OneWorker
  <2>2. UNCHANGED Linked
    BY <1>1 DEF Linked
  <2> QED BY <1>1, <2>1, <2>2 DEF Served, LinksExclude, AllDueLinked, TokensLinked
<1>2. UNCHANGED tables => UNCHANGED <<profiles, tokens>>
  BY DEF tables
<1>3. ASSUME NEW w \in Worker, Acts(w) PROVE Served'
  BY <1>3, LookingServed, SavingServed, LinkServed, TokenServed, RejectServed DEF Acts
<1>4. ASSUME NEW r \in RingId, DestroyEffect(r) PROVE Served'
  BY <1>1, <1>4 DEF DestroyEffect
<1> QED BY <1>1, <1>2, <1>3, <1>4, NextActs

(* At the start nobody is linked and nobody has a token.                   *)
LEMMA ServedInit == BackfillInit => Served
<1> SUFFICES ASSUME BackfillInit PROVE Served
  OBVIOUS
<1>1. DOMAIN profiles = {} /\ tokens = {} /\ \A w \in Worker : req[w] = Idle
  BY DEF BackfillInit, Init, StoreInit
<1> QED BY <1>1 DEF Served, LinksExclude, AllDueLinked, TokensLinked, Due, Idle

(***************************************************************************)
(* Where nobody rejects, or one worker serves all requests, a token is an  *)
(* account's that is linked to an identity, and an identity has one such   *)
(* account, however many it opened.                                        *)
(***************************************************************************)
THEOREM OrphansAreNotServed == BackfillSpec => []OrphanIsNotServed
<1>1. Served => OrphanIsNotServed
  BY DEF Served, LinksExclude, TokensLinked, Linked, OrphanIsNotServed
<1> QED BY <1>1, InitEstablishesInv, NextKeepsInv, RolesKept, CompleteInit, ServedInit, ServedKept, PTL
        DEF BackfillSpec
=============================================================================
