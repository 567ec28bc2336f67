------------------------------- MODULE Accounts -------------------------------
(***************************************************************************)
(* The two ways to a portal account over one store: self-service signups   *)
(* and PeeringDB logins compete for usernames and ring users, and the same *)
(* admins approve both.  The handlers are those of SelfSignup and          *)
(* AsnBackfill (with PdbLogin); a request goes on in its own.              *)
(***************************************************************************)
EXTENDS AccountStore

CONSTANTS Manages, NetOrg, SeedOrgs

VARIABLES signups, pdbSignups, orgs, orgAsn, backfill, calm

Self == INSTANCE SelfSignup WITH RingNameChoice <- Opt(Name)
Pdbs == INSTANCE AsnBackfill

pdbOnly == <<pdbSignups, orgs, orgAsn, backfill, calm>>
accountVars == <<storeVars, signups, pdbOnly>>

(***************************************************************************)
(* The handlers save whole rows, so the accounts live as they should only  *)
(* where requests that handle one account are kept apart (the runs of      *)
(* SelfSignup and PdbLogin show what happens elsewhere): on a server with  *)
(* one worker; or where at most one admin works if any rejects, nobody     *)
(* logs in twice at once unless the network is known, and no PeeringDB     *)
(* approval that died, which leaves a linked account locked, is followed   *)
(* by a rejection or by a second one that succeeds.                        *)
(***************************************************************************)
Orderly(d) ==
  \/ Cardinality(d.workers) = 1
  \/ /\ d.rejects => Cardinality(d.workers \intersect Admin) <= 1
     /\ d.tabs => \A pdb \in d.logins : \A asn \in Manages[pdb] :
                   \E i \in DOMAIN d.machines : d.machines[i].asn = asn
     /\ d.logins # {} /\ d.faults => ~d.rejects /\ d.removable = {}

(***************************************************************************)
(* Of the deployment: what visitors enter in the signup form, and which    *)
(* PeeringDB users log in.                                                 *)
(***************************************************************************)
ASSUME AccountsAssumption ==
  \A i \in DOMAIN Deployments :
    /\ Deployments[i].forms \subseteq [name: Name, ringName: Opt(Name)]
    /\ Deployments[i].logins \subseteq Pdb
    /\ Orderly(Deployments[i])

AccountsInit == Self!Init /\ Pdbs!BackfillInit

SelfServes(w) == req[w].op \in {"signup", "approve", "reject"}
PdbServes(w) == req[w].op \in {"login", "pdbApprove", "pdbReject"}

(* The form offers the participants that exist.                            *)
SignsUp(w) ==
  \E form \in Site.forms, org \in orgs :
    Self!SubmitSignup(w, form.name, org, form.ringName)

SelfStep(w) == SelfServes(w) /\ Self!Continue(w) /\ UNCHANGED pdbOnly
PdbStep(w) ==
  /\ PdbServes(w) /\ Pdbs!Continue(w)
  /\ calm' = (calm /\ UNCHANGED <<orgs, orgAsn>>)
  /\ UNCHANGED <<signups, backfill>>
Serve(w) == SelfStep(w) \/ PdbStep(w)

Approves(w, u) ==
  \/ \E role \in BOOLEAN : Self!OpenApproval(w, u, role) /\ UNCHANGED pdbOnly
  \/ Pdbs!OpenPdbApproval(w, u) /\ UNCHANGED <<signups, backfill, calm>>
Declines(w, u) ==
  \/ Self!OpenRejection(w, u) /\ UNCHANGED pdbOnly
  \/ Pdbs!OpenPdbRejection(w, u) /\ UNCHANGED <<signups, backfill, calm>>

LogsInAs(w, pdb) ==
  /\ pdb \in Site.logins
  /\ \E asn \in Asn : Pdbs!Login(w, pdb, asn)
  /\ UNCHANGED <<signups, backfill, calm>>
LogsIn(w) ==
  \E pdb \in Pdb :
    /\ Site.tabs \/ \A x \in Worker : req[x].pdb # pdb
    /\ LogsInAs(w, pdb)

AccountsNext ==
  \/ \E w \in Visitor : \/ SignsUp(w) /\ UNCHANGED pdbOnly
                        \/ LogsIn(w)
  \/ \E w \in Admin, u \in UserId : Approves(w, u) \/ Declines(w, u)
  \/ \E w \in Worker : \/ Serve(w)
                       \/ Die(w) /\ UNCHANGED <<signups, pdbOnly>>
  \/ \E r \in RingId : DestroyRingUser(r) /\ UNCHANGED <<signups, pdbOnly>>
  \/ Pdbs!BackfillActs /\ UNCHANGED signups

AccountsSpec == AccountsInit /\ [][AccountsNext]_accountVars

(***************************************************************************)
(* A handler that runs is not suspended for ever; an admin who faces a     *)
(* pending request goes on pressing "Approve"; and a PeeringDB user who    *)
(* was not let in tries again.                                             *)
(***************************************************************************)
Fairness ==
  /\ \A w \in Worker : WF_accountVars(Serve(w))
  /\ \A u \in UserId : SF_accountVars(\E w \in Admin : Approves(w, u))
  /\ \A pdb \in Pdb : SF_accountVars(\E w \in Visitor : LogsInAs(w, pdb))

AccountsFairSpec == AccountsSpec /\ Fairness

-----------------------------------------------------------------------------
(***************************************************************************)
(* The stage of an account: can it log in, and has it a ring user?         *)
(***************************************************************************)
StageOf(u) ==
  CASE u > lastUser         -> "absent"
    [] u \in 1..lastUser \ DOMAIN users -> "gone"
    [] OTHER -> IF users[u].active
                THEN IF u \in DOMAIN profiles THEN "admitted" ELSE "open"
                ELSE IF u \in DOMAIN profiles THEN "vetted" ELSE "locked"

Lifecycle == INSTANCE AccountLifecycle WITH
  Account  <- UserId,
  stage    <- [u \in UserId |-> StageOf(u)],
  approved <- {u \in UserId : Self!Approved(u) \/ Pdbs!Approved(u)}

(***************************************************************************)
(* Together the handlers implement the life of an account, whatever dies,  *)
(* is repeated, rejected or deleted: no account can log in with a ring     *)
(* user unless it was vetted or let in, none gets a token before, none is  *)
(* marked approved without, and none that is marked is locked or lost.     *)
(***************************************************************************)
LifecycleIsKept == Lifecycle!Spec

(***************************************************************************)
(* The ring user of an account stays as it is while requests about other   *)
(* accounts are handled, unless the visitor named it in a signup: then     *)
(* approve_signup moves it to the visitor's participant, and only then     *)
(* finds that it is linked already.                                        *)
(***************************************************************************)
OthersRingUserIsKept ==
  [][\A u \in DOMAIN profiles :
       LET r == profiles[u].ring IN
       r \in DOMAIN ringUsers \intersect DOMAIN ringUsers' /\ ringUsers'[r] # ringUsers[r] =>
         \E w \in Worker :
           /\ req[w].ring = r
           /\ req[w].user = u \/ req[w].ringName = ringUsers[r].name]_accountVars

(***************************************************************************)
(* A signup that was left pending gets approved while an admin goes on     *)
(* pressing "Approve": "once a ring admin approves it the account is       *)
(* activated, linked to (or paired with) the matching RingUser"            *)
(* (README.md:176-177).                                                    *)
(***************************************************************************)
EverySignupGetsApproved == Self!PendingGetsApproved

(***************************************************************************)
(* It does where the ring database is writable, no request dies, admins    *)
(* reject nothing, ring users are not deleted, and visitors ask for no     *)
(* ring username and have none of an imported ring user: whatever names    *)
(* PeeringDB logins take.  A signup without a ring username whose username *)
(* is that of a ring user cannot be approved: approve_signup does not look *)
(* the username up, and creates a second row of it, which is refused.      *)
(***************************************************************************)
NamesAreNew(form) ==
  form.ringName = None /\ \A i \in DOMAIN SeedRing : SeedRing[i].name # form.name
PendingGetsApproved ==
  /\ LegacyWritable /\ Removable = {} /\ ~Faults /\ ~Rejects
  /\ \A form \in Site.forms : NamesAreNew(form)
  => EverySignupGetsApproved

(***************************************************************************)
(* Where the ring database is writable, no request dies, ring users are    *)
(* not deleted and every network is known, a PeeringDB identity that       *)
(* begins to log in and keeps trying ends up linked to a ring user,        *)
(* however the logins and signups of others interfere.                     *)
(***************************************************************************)
IdentityGetsLinked ==
  LegacyWritable /\ Removable = {} /\ ~Faults /\ Pdbs!EveryNetworkIsKnown =>
    Pdbs!IdentityGetsLinked
=============================================================================
