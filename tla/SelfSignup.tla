----------------------------- MODULE SelfSignup -----------------------------
(***************************************************************************)
(* Self-service accounts (ring/views.py: signup, approve_signup,           *)
(* reject_signup).  A visitor's request leaves an inactive auth.User and a *)
(* RingSignup row; a ring admin approves it (the account is linked to a    *)
(* RingUser, activated, given an API token) or rejects it (the account is  *)
(* deleted).  Handlers interleave statement by statement and may die       *)
(* between statements; see AccountStore.                                   *)
(***************************************************************************)
EXTENDS AccountStore

CONSTANTS
  RingNameChoice   \* what visitors enter as ring username; None: left blank

ASSUME SignupAssumption == RingNameChoice \subseteq Opt(Name)

VARIABLE signups   \* RingSignup, keyed by django_user (one-to-one)

vars == <<storeVars, signups>>

SignupRow == [org: Org, ringName: Opt(Name), approved: BOOLEAN]

TablesOK == StoreTypeOK /\ signups \in Table(UserId, SignupRow)
TypeOK == TablesOK /\ deployment \in DOMAIN Deployments

Init == StoreInit /\ signups = << >>

-----------------------------------------------------------------------------
(***************************************************************************)
(* signup.                                                                 *)
(***************************************************************************)
SubmitSignup(w, name, org, ringName) ==
  /\ Free(w)
  /\ ~Taken(name, users)
  /\ req' = [req EXCEPT ![w] = [Idle EXCEPT !.op = "signup", !.at = "createUser",
               !.name = name, !.org = org, !.ringName = ringName]]
  /\ UNCHANGED <<users, profiles, tokens, ringUsers, lastUser, lastRing, signups, deployment>>

SignupCreateUser(w) ==
  /\ CreateUser(w, "deactivate")
  /\ UNCHANGED signups

(* Mutant: is_active = False is forgotten.                                 *)
DeactivateForgotten(w) ==
  /\ SaveUser(w, "deactivate", TRUE, "queue")
  /\ UNCHANGED signups

Deactivate(w) ==
  /\ SaveUser(w, "deactivate", FALSE, "queue")
  /\ UNCHANGED signups

Queue(w) ==
  /\ At(w, "queue")
  /\ signups' = IF req[w].user \in DOMAIN users
                THEN Put(signups, req[w].user,
                       [org |-> req[w].org, ringName |-> req[w].ringName, approved |-> FALSE])
                ELSE signups
  /\ End(w)
  /\ UNCHANGED <<users, profiles, tokens, ringUsers, lastUser, lastRing, deployment>>

-----------------------------------------------------------------------------
(***************************************************************************)
(* approve_signup.  It looks for the ring user by the requested name, then *)
(* through the account's profile, and creates one when there is none.  The *)
(* ring user it found is moved to the requested company.                   *)
(***************************************************************************)
Pending(u) == u \in DOMAIN signups /\ ~signups[u].approved

OpenApproval(w, u, role) ==
  /\ Free(w)
  /\ Pending(u)
  /\ req' = [req EXCEPT ![w] = [Idle EXCEPT !.op = "approve", !.at = "findRing",
               !.user = u, !.name = users[u].name, !.org = signups[u].org,
               !.ringName = signups[u].ringName, !.role = role]]
  /\ UNCHANGED <<users, profiles, tokens, ringUsers, lastUser, lastRing, signups, deployment>>

(* Mutant: where no ring username was given, the username is looked up.    *)
NamedOrOwn(w) ==
  {r \in DOMAIN ringUsers :
     ringUsers[r].name = IF req[w].ringName = None THEN req[w].name ELSE req[w].ringName}
Named(w) == {r \in DOMAIN ringUsers : ringUsers[r].name = req[w].ringName}
Linked(w) == IF req[w].user \in DOMAIN profiles
             THEN {profiles[req[w].user].ring} \intersect DOMAIN ringUsers
             ELSE {}
Found(w) == IF Named(w) # {} THEN Named(w) ELSE Linked(w)

(* Mutant: a missing ring user is refused even where one may be created.   *)
FindRingRefuses(w) ==
  /\ At(w, "findRing")
  /\ \/ \E r \in Found(w) :
          req' = [req EXCEPT ![w].ring = r, ![w].row = ringUsers[r],
                    ![w].at = IF LegacyWritable THEN "updateRing" ELSE "linkGet"]
     \/ Found(w) = {} /\ End(w)
  /\ UNCHANGED <<users, profiles, tokens, ringUsers, lastUser, lastRing, signups, deployment>>

FindRing(w) ==
  /\ At(w, "findRing")
  /\ \/ \E r \in Found(w) :
          req' = [req EXCEPT ![w].ring = r, ![w].row = ringUsers[r],
                    ![w].at = IF LegacyWritable THEN "updateRing" ELSE "linkGet"]
     \/ /\ Found(w) = {} /\ LegacyWritable
        /\ Go(w, "createRing")
     \/ /\ Found(w) = {} /\ ~LegacyWritable
        /\ End(w)
  /\ UNCHANGED <<users, profiles, tokens, ringUsers, lastUser, lastRing, signups, deployment>>

(* Mutant: the blank ring username is used as it stands.                   *)
ApproveCreateBlank(w) ==
  /\ CreateRing(w, req[w].ringName, "updateRing")
  /\ UNCHANGED signups

ApproveCreateRing(w) ==
  /\ CreateRing(w, IF req[w].ringName # None THEN req[w].ringName ELSE req[w].name,
                "updateRing")
  /\ UNCHANGED signups

UpdateRing(w) ==
  LET q == req[w]
      row == [name |-> q.row.name, org |-> q.org, admin |-> q.row.admin \/ q.role]
  IN
  /\ At(w, "updateRing")
  /\ \/ /\ TakenByOther(row.name, ringUsers, q.ring)
        /\ End(w)
        /\ UNCHANGED ringUsers
     \/ /\ ~TakenByOther(row.name, ringUsers, q.ring)
        /\ ringUsers' = Put(ringUsers, q.ring, row)
        /\ Go(w, "linkGet")
  /\ UNCHANGED <<users, profiles, tokens, lastUser, lastRing, signups, deployment>>

ApproveLinkGet(w) == LinkGet(w) /\ UNCHANGED signups
(* Mutant: the token is issued before the account is activated.            *)
ApproveLinkSaveToToken(w) == LinkSave(w, "token") /\ UNCHANGED signups
ApproveLinkSave(w) == LinkSave(w, "activate") /\ UNCHANGED signups
(* Mutant: no token is issued.                                             *)
ActivateToFinish(w) == SaveUser(w, "activate", TRUE, "finish") /\ UNCHANGED signups
Activate(w) == SaveUser(w, "activate", TRUE, "token") /\ UNCHANGED signups
ApproveToken(w) == IssueToken(w, "finish") /\ UNCHANGED signups

(* Mutant: the foreign key of the signup is not enforced.                  *)
FinishApprovalNoForeignKey(w) ==
  /\ At(w, "finish")
  /\ signups' = Put(signups, req[w].user,
                   [org |-> req[w].org, ringName |-> req[w].ringName, approved |-> TRUE])
  /\ End(w)
  /\ UNCHANGED <<users, profiles, tokens, ringUsers, lastUser, lastRing, deployment>>

FinishApproval(w) ==
  /\ At(w, "finish")
  /\ signups' = IF req[w].user \in DOMAIN users
                THEN Put(signups, req[w].user,
                       [org |-> req[w].org, ringName |-> req[w].ringName, approved |-> TRUE])
                ELSE signups
  /\ End(w)
  /\ UNCHANGED <<users, profiles, tokens, ringUsers, lastUser, lastRing, deployment>>

-----------------------------------------------------------------------------
(* Mutant: the signup is deleted, and its account is forgotten.            *)
OpenRejectionForgets(w, u) ==
  /\ Rejects
  /\ Free(w)
  /\ Pending(u)
  /\ req' = [req EXCEPT ![w] = [Idle EXCEPT !.op = "reject", !.at = "deleteSignup", !.user = u]]
  /\ UNCHANGED <<users, profiles, tokens, ringUsers, lastUser, lastRing, signups, deployment>>

(***************************************************************************)
(* reject_signup.  Deleting the user cascades to the signup; signup.delete *)
(* then deletes whatever row has that pk by now.                           *)
(***************************************************************************)
OpenRejection(w, u) ==
  /\ Rejects
  /\ Free(w)
  /\ Pending(u)
  /\ req' = [req EXCEPT ![w] = [Idle EXCEPT !.op = "reject", !.at = "deleteUser", !.user = u]]
  /\ UNCHANGED <<users, profiles, tokens, ringUsers, lastUser, lastRing, signups, deployment>>

RejectUser(w) ==
  /\ DeleteUser(w, "deleteSignup")
  /\ signups' = Without(signups, req[w].user)

RejectSignup(w) ==
  /\ At(w, "deleteSignup")
  /\ signups' = Without(signups, req[w].user)
  /\ End(w)
  /\ UNCHANGED <<users, profiles, tokens, ringUsers, lastUser, lastRing, deployment>>

-----------------------------------------------------------------------------
VisitorBegins(w) ==
  \E name \in Name, org \in Org, ringName \in RingNameChoice :
    SubmitSignup(w, name, org, ringName)

AdminBegins(w) ==
  \E u \in UserId : \/ \E role \in BOOLEAN : OpenApproval(w, u, role)
                    \/ OpenRejection(w, u)

Continue(w) ==
  \/ SignupCreateUser(w) \/ Deactivate(w) \/ Queue(w)
  \/ FindRing(w) \/ ApproveCreateRing(w) \/ UpdateRing(w)
  \/ ApproveLinkGet(w) \/ ApproveLinkSave(w) \/ Activate(w)
  \/ ApproveToken(w) \/ FinishApproval(w)
  \/ RejectUser(w) \/ RejectSignup(w)

RequestDies(w) == Die(w) /\ UNCHANGED signups
RingUserDestroyed(r) == DestroyRingUser(r) /\ UNCHANGED signups

Next ==
  \/ \E w \in Visitor : VisitorBegins(w)
  \/ \E w \in Admin : AdminBegins(w)
  \/ \E w \in Worker : Continue(w) \/ RequestDies(w)
  \/ \E r \in RingId : RingUserDestroyed(r)

Spec == Init /\ [][Next]_vars

-----------------------------------------------------------------------------
Usable(u) == u \in DOMAIN users /\ users[u].active
Approved(u) == u \in DOMAIN signups /\ signups[u].approved
Quiescent == \A w \in Worker : req[w] = Idle

(***************************************************************************)
(* Whatever the interleaving, and wherever requests die, an API token      *)
(* belongs to an active account.  Token authentication never finds the     *)
(* token of an account that was deleted, or that signup has yet to         *)
(* deactivate.                                                             *)
(***************************************************************************)
TokenImpliesActive == \A u \in tokens : Usable(u)

(***************************************************************************)
(* A signup marked approved is never left with an inactive or deleted      *)
(* account: nobody can approve it again, so it could not be repaired.      *)
(* approve_signup writes the account first and the mark last; reject       *)
(* handlers run meanwhile.                                                 *)
(***************************************************************************)
ApprovedIsActive == \A u \in DOMAIN signups : Approved(u) => Usable(u)

(***************************************************************************)
(* An account linked to a live ring user stays linked to that ring user:   *)
(* approvals of the same signup by two admins, or one that died half way   *)
(* and is repeated, do not move it to a second RingUser row.  (With both   *)
(* at once, ring users deleted while two admins approve, one of the admins *)
(* may link the account to the row that is gone: see the README.)          *)
(***************************************************************************)
LinkIsStable ==
  [][Removable = {} \/ OneAdmin =>
     \A u \in DOMAIN profiles \intersect DOMAIN profiles' :
       profiles[u].ring \in DOMAIN ringUsers => profiles'[u].ring = profiles[u].ring]_vars

(***************************************************************************)
(* Where the ring database is read-only, no handler writes to it: what     *)
(* approve_signup does to a ring user happens behind legacy_writable().    *)
(***************************************************************************)
ReadOnlyIsRespected == [][~LegacyWritable => UNCHANGED <<ringUsers, lastRing>>]_vars

(* An approval never meets a rejection: one admin, or none that rejects.   *)
ApprovalsAreSafe == Rejects => OneAdmin

(***************************************************************************)
(* What an approval promises: the account is linked to a ring user, active *)
(* and has its token, however many approvals of it ran at once or died and *)
(* were repeated.  A rejection beside an approval does break it.           *)
(***************************************************************************)
ApprovedIsComplete ==
  ApprovalsAreSafe =>
    \A u \in DOMAIN signups :
      Approved(u) => Usable(u) /\ u \in DOMAIN profiles /\ u \in tokens

(***************************************************************************)
(* "Self-service access requests create an inactive auth.User and a        *)
(* RingSignup row; once a ring admin approves it the account is activated" *)
(* (README.md:175-177): when no request is running, every account is a     *)
(* request on file, and it can log in only if an admin approved it.  A     *)
(* signup that dies once it has created the account leaves one behind that *)
(* is active, and that no admin can see.                                   *)
(***************************************************************************)
QuiescentIsVetted ==
  ApprovalsAreSafe /\ ~Faults /\ Quiescent =>
    \A u \in DOMAIN users :
      /\ u \in DOMAIN signups
      /\ users[u].active <=> signups[u].approved

(***************************************************************************)
(* Even so, at any moment and wherever requests die, an account with a     *)
(* token or a link to a ring user is on file: what such a signup left      *)
(* behind can do nothing in the ring, and a rejection leaves nothing of an *)
(* approval that died before it.                                           *)
(***************************************************************************)
ServedAreOnFile ==
  ApprovalsAreSafe => \A u \in tokens \union DOMAIN profiles : u \in DOMAIN signups

(***************************************************************************)
(* A pending request whose approval is repeated until it succeeds does get *)
(* approved.  Not every request can be: see PendingGetsApproved and        *)
(* EverySignupGetsApproved of Accounts.                                    *)
(***************************************************************************)
PendingGetsApproved == \A u \in UserId : Pending(u) ~> Approved(u)
=============================================================================
