-------------------------- MODULE SelfSignupProofs --------------------------
(***************************************************************************)
(* Proofs about SelfSignup, for any number of visitors, admins and names,  *)
(* with requests dying anywhere.  TokenImpliesActive and ApprovedIsActive  *)
(* are not inductive: a step that issues a token, or marks a signup,       *)
(* relies on what the same request wrote some steps before, and on no      *)
(* other request having undone it.  The inductive invariant Inv adds       *)
(*   - the shape of a request at each of its statements;                   *)
(*   - that a user pk is never reused, so that only the request that is    *)
(*     creating an account can write is_active = False to it;              *)
(*   - that past "activate" the account is active, if it still exists.     *)
(***************************************************************************)
EXTENDS SelfSignup, AccountStoreProofs

HasUser(at) == at \notin {"idle", "createUser"}
HasName(at) == at \notin {"idle", "queue", "deleteUser", "deleteSignup"}
HasOrg(at) == at \notin {"idle", "deleteUser", "deleteSignup"}
Creating(at) == at \in {"deactivate", "queue"}

(* What a request holds at each of its statements.                         *)
Shape(q) ==
  /\ HasName(q.at) => q.name \in Name
  /\ HasUser(q.at) => q.user \in UserId /\ q.user <= lastUser
  /\ HasOrg(q.at) => q.org \in Org
  /\ q.at \in {"updateRing", "linkGet", "linkSave"} => q.ring \in RingId
  /\ q.at = "updateRing" => q.row \in RingRow

RequestShape == \A w \in Worker : Shape(req[w])

(* Rows point at users that exist; pks are handed out in order.            *)
Referential ==
  /\ \A u \in DOMAIN users : u <= lastUser
  /\ DOMAIN signups \subseteq DOMAIN users

(* The request that is creating an account is alone with it.               *)
CreatorIsAlone ==
  \A w \in Worker :
    Creating(req[w].at) =>
      /\ req[w].user \notin DOMAIN signups
      /\ req[w].user \notin tokens
      /\ \A v \in Worker \ {w} : HasUser(req[v].at) => req[v].user # req[w].user

(* Past "activate", the account is active unless it has been deleted.      *)
ActivatedStays ==
  \A w \in Worker :
    req[w].at \in {"token", "finish"} /\ req[w].user \in DOMAIN users =>
      users[req[w].user].active

Inv == /\ TablesOK
       /\ RequestShape
       /\ Referential
       /\ CreatorIsAlone
       /\ ActivatedStays
       /\ TokenImpliesActive
       /\ ApprovedIsActive

(* Writing a RingSignup row.                                               *)
LEMMA PutSignup ==
  ASSUME NEW t \in Table(UserId, SignupRow), NEW k \in UserId, NEW row \in SignupRow
  PROVE  /\ Put(t, k, row) \in Table(UserId, SignupRow)
         /\ DOMAIN Put(t, k, row) = DOMAIN t \union {k}
         /\ Put(t, k, row)[k] = row
         /\ \A x \in DOMAIN t : x # k => Put(t, k, row)[x] = t[x]
<1>1. DOMAIN t \subseteq UserId /\ \A x \in DOMAIN t : t[x] \in SignupRow
  BY TableElim, Zenon
<1>2. Put(t, k, row) \in [DOMAIN t \union {k} -> SignupRow]
  BY <1>1 DEF Put
<1>3. Put(t, k, row) \in Table(UserId, SignupRow)
  BY <1>1, <1>2, TableIntro
<1> QED BY <1>3 DEF Put

(* Deleting one of them.                                                   *)
LEMMA WithoutSignup ==
  ASSUME NEW t \in Table(UserId, SignupRow), NEW k \in UserId
  PROVE  /\ Without(t, k) \in Table(UserId, SignupRow)
         /\ DOMAIN Without(t, k) = DOMAIN t \ {k}
         /\ \A x \in DOMAIN t : x # k => Without(t, k)[x] = t[x]
<1>1. DOMAIN t \subseteq UserId /\ \A x \in DOMAIN t : t[x] \in SignupRow
  BY TableElim, Zenon
<1>2. Without(t, k) \in [DOMAIN t \ {k} -> SignupRow]
  BY <1>1 DEF Without
<1>3. Without(t, k) \in Table(UserId, SignupRow)
  BY <1>1, <1>2, TableIntro
<1> QED BY <1>3 DEF Without

(* What the rows of such a table are.                                      *)
LEMMA SignupRows ==
  ASSUME NEW t \in Table(UserId, SignupRow)
  PROVE  DOMAIN t \subseteq UserId /\ \A k \in DOMAIN t : t[k] \in SignupRow
BY TableElim, Zenon

accounts == <<users, tokens, lastUser, signups>>
linked == <<profiles, ringUsers, lastRing>>

LinkedTypeOK ==
  /\ profiles \in Table(UserId, ProfileRow)
  /\ ringUsers \in Table(RingId, RingRow)
  /\ lastRing \in 0..MaxRing

(***************************************************************************)
(* A step that writes no account, token or signup keeps the invariant if   *)
(* what the request holds afterwards is in shape, it does not claim to     *)
(* have activated an account, and it is not about one being created.       *)
(***************************************************************************)
LEMMA QuietStep ==
  ASSUME Inv, NEW w \in Worker, UNCHANGED accounts, LinkedTypeOK',
         req' \in [Worker -> Request],
         \A v \in Worker \ {w} : req'[v] = req[v],
         Shape(req'[w]),
         ~Creating(req'[w].at),
         req'[w].at \notin {"token", "finish"},
         HasUser(req'[w].at) =>
           \A v \in Worker \ {w} : Creating(req[v].at) => req[v].user # req'[w].user
  PROVE  Inv'
<1>1. TablesOK'
  BY DEF Inv, TablesOK, StoreTypeOK, accounts, LinkedTypeOK
<1>2. RequestShape'
  BY DEF Inv, RequestShape, Shape, accounts
<1>3. Referential'
  BY DEF Inv, Referential, accounts
<1>4. CreatorIsAlone'
  BY DEF Inv, CreatorIsAlone, accounts
<1>5. ActivatedStays'
  BY DEF Inv, ActivatedStays, accounts
<1>6. TokenImpliesActive' /\ ApprovedIsActive'
  BY DEF Inv, TokenImpliesActive, ApprovedIsActive, Usable, Approved, accounts
<1> QED BY <1>1, <1>2, <1>3, <1>4, <1>5, <1>6 DEF Inv

(* Where the linked tables are not written either, their types persist.    *)
LEMMA LinkedUnchanged == ASSUME Inv, UNCHANGED linked PROVE LinkedTypeOK'
BY DEF Inv, TablesOK, StoreTypeOK, LinkedTypeOK, linked

(* A request that ends, whatever the reason, keeps the invariant.          *)
LEMMA EndStep ==
  ASSUME Inv, NEW w \in Worker, End(w), UNCHANGED accounts, UNCHANGED linked
  PROVE  Inv'
<1>1. req \in [Worker -> Request]
  BY DEF Inv, TablesOK, StoreTypeOK
<1>2. /\ req' \in [Worker -> Request]
      /\ \A v \in Worker \ {w} : req'[v] = req[v]
      /\ req'[w].at = "idle"
  BY <1>1, EndFacts, IdleIsRequest
<1>3. /\ Shape(req'[w])
      /\ ~Creating(req'[w].at)
      /\ ~HasUser(req'[w].at)
      /\ req'[w].at \notin {"token", "finish"}
  BY <1>2 DEF Shape, Creating, HasUser, HasName, HasOrg
<1> QED BY <1>2, <1>3, LinkedUnchanged, QuietStep

(***************************************************************************)
(* A request that moves on within an approval stays with its account: no   *)
(* other request is creating it.                                           *)
(***************************************************************************)
LEMMA MovesOn ==
  ASSUME Inv, NEW w \in Worker, HasUser(req[w].at), ~Creating(req[w].at),
         UNCHANGED accounts, LinkedTypeOK',
         req' \in [Worker -> Request],
         \A v \in Worker \ {w} : req'[v] = req[v],
         Shape(req'[w]),
         ~Creating(req'[w].at),
         req'[w].at \notin {"token", "finish"},
         req'[w].user = req[w].user
  PROVE  Inv'
<1>1. \A v \in Worker \ {w} : Creating(req[v].at) => req[v].user # req'[w].user
  BY DEF Inv, CreatorIsAlone
<1> QED BY <1>1, QuietStep

(* A visitor submits the form: only the request begins.                    *)
LEMMA SubmitSignupKeepsInv ==
  ASSUME Inv, NEW w \in Worker, NEW name \in Name, NEW org \in Org,
         NEW ringName \in RingNameChoice, SubmitSignup(w, name, org, ringName)
  PROVE  Inv'
<1> DEFINE q == [Idle EXCEPT !.op = "signup", !.at = "createUser",
                   !.name = name, !.org = org, !.ringName = ringName]
<1>1. req \in [Worker -> Request]
  BY DEF Inv, TablesOK, StoreTypeOK
<1>2. /\ q \in Request
      /\ q.at = "createUser" /\ q.name = name /\ q.org = org
  BY IdleIsRequest, SignupAssumption DEF Idle, Request, Opt, Handler, Step
<1>3. req' = [req EXCEPT ![w] = q]
  BY DEF SubmitSignup, Free
<1> HIDE DEF q
<1>4. /\ req' \in [Worker -> Request]
      /\ \A v \in Worker \ {w} : req'[v] = req[v]
      /\ req'[w] = q
  BY <1>1, <1>2, <1>3
<1>5. /\ Shape(req'[w])
      /\ ~Creating(req'[w].at)
      /\ ~HasUser(req'[w].at)
      /\ req'[w].at \notin {"token", "finish"}
  BY <1>2, <1>4 DEF Shape, Creating, HasUser, HasName, HasOrg
<1>6. UNCHANGED accounts /\ UNCHANGED linked
  BY DEF SubmitSignup, Free, accounts, linked
<1> QED BY <1>4, <1>5, <1>6, LinkedUnchanged, QuietStep

(* An admin opens an approval of a pending signup.                         *)
LEMMA OpenApprovalKeepsInv ==
  ASSUME Inv, NEW w \in Worker, NEW u \in UserId, NEW role \in BOOLEAN,
         OpenApproval(w, u, role)
  PROVE  Inv'
<1> DEFINE q == [Idle EXCEPT !.op = "approve", !.at = "findRing",
                   !.user = u, !.name = users[u].name, !.org = signups[u].org,
                   !.ringName = signups[u].ringName, !.role = role]
<1>1. req \in [Worker -> Request]
  BY DEF Inv, TablesOK, StoreTypeOK
<1>2. /\ u \in DOMAIN signups /\ u \in DOMAIN users /\ u <= lastUser
      /\ users[u].name \in Name
      /\ signups[u].org \in Org /\ signups[u].ringName \in Opt(Name)
  <2>1. u \in DOMAIN signups /\ u \in DOMAIN users /\ u <= lastUser
    BY DEF OpenApproval, Free, Pending, Inv, Referential
  <2>2. users[u] \in UserRow /\ signups[u] \in SignupRow
    BY <2>1, UserRows, SignupRows DEF Inv, TablesOK, StoreTypeOK
  <2> QED BY <2>1, <2>2 DEF UserRow, SignupRow
<1>3. /\ q \in Request
      /\ q.at = "findRing" /\ q.user = u /\ q.name = users[u].name /\ q.org = signups[u].org
  BY <1>2, IdleIsRequest DEF Idle, Request, Opt, Handler, Step
<1>4. req' = [req EXCEPT ![w] = q]
  BY DEF OpenApproval, Free, Free
<1> HIDE DEF q
<1>5. /\ req' \in [Worker -> Request]
      /\ \A v \in Worker \ {w} : req'[v] = req[v]
      /\ req'[w] = q
  BY <1>1, <1>3, <1>4
<1>6. UNCHANGED accounts /\ UNCHANGED linked
  BY DEF OpenApproval, Free, accounts, linked
<1>7. /\ Shape(req'[w])
      /\ ~Creating(req'[w].at)
      /\ req'[w].at \notin {"token", "finish"}
      /\ \A v \in Worker \ {w} : Creating(req[v].at) => req[v].user # req'[w].user
  BY <1>2, <1>3, <1>5, <1>6 DEF Shape, Creating, HasUser, HasName, HasOrg, Inv, CreatorIsAlone, accounts
<1> QED BY <1>5, <1>6, <1>7, LinkedUnchanged, QuietStep

(* An admin opens a rejection of a pending signup.                         *)
LEMMA OpenRejectionKeepsInv ==
  ASSUME Inv, NEW w \in Worker, NEW u \in UserId, OpenRejection(w, u)
  PROVE  Inv'
<1> DEFINE q == [Idle EXCEPT !.op = "reject", !.at = "deleteUser", !.user = u]
<1>1. req \in [Worker -> Request]
  BY DEF Inv, TablesOK, StoreTypeOK
<1>2. u \in DOMAIN signups /\ u <= lastUser
  BY DEF OpenRejection, Free, Pending, Inv, Referential
<1>3. /\ q \in Request
      /\ q.at = "deleteUser" /\ q.user = u
  BY IdleIsRequest DEF Idle, Request, Opt, Handler, Step
<1>4. req' = [req EXCEPT ![w] = q]
  BY DEF OpenRejection, Free, Free
<1> HIDE DEF q
<1>5. /\ req' \in [Worker -> Request]
      /\ \A v \in Worker \ {w} : req'[v] = req[v]
      /\ req'[w] = q
  BY <1>1, <1>3, <1>4
<1>6. UNCHANGED accounts /\ UNCHANGED linked
  BY DEF OpenRejection, Free, accounts, linked
<1>7. /\ Shape(req'[w])
      /\ ~Creating(req'[w].at)
      /\ req'[w].at \notin {"token", "finish"}
      /\ \A v \in Worker \ {w} : Creating(req[v].at) => req[v].user # req'[w].user
  BY <1>2, <1>3, <1>5, <1>6 DEF Shape, Creating, HasUser, HasName, HasOrg, Inv, CreatorIsAlone, accounts
<1> QED BY <1>5, <1>6, <1>7, LinkedUnchanged, QuietStep

(* The account row is inserted under a pk that nothing else refers to.     *)
LEMMA CreateUserKeepsInv ==
  ASSUME Inv, NEW w \in Worker, SignupCreateUser(w)
  PROVE  Inv'
<1>1. CASE End(w) /\ UNCHANGED <<users, lastUser>>
  BY <1>1, EndStep DEF SignupCreateUser, CreateUser, accounts, linked
<1>2. CASE /\ lastUser < MaxUser
           /\ lastUser' = lastUser + 1
           /\ users' = Put(users, lastUser', [name |-> req[w].name, active |-> TRUE])
           /\ req' = [req EXCEPT ![w].at = "deactivate", ![w].user = lastUser']
  <2> DEFINE u == lastUser + 1
             row == [name |-> req[w].name, active |-> TRUE]
  <2>1. /\ lastUser \in 0..MaxUser /\ users \in Table(UserId, UserRow)
        /\ req \in [Worker -> Request] /\ MaxUser \in Nat
        /\ req[w].at = "createUser" /\ Shape(req[w])
    BY StoreAssumption DEF Inv, TablesOK, StoreTypeOK, RequestShape, SignupCreateUser, CreateUser, At
  <2>2. /\ u \in UserId /\ lastUser' = u /\ u \in 0..MaxUser
        /\ row \in UserRow
    BY <1>2, <2>1 DEF UserId, UserRow, Shape, HasName
  <2>. users' = Put(users, u, row)
    BY <1>2, <2>2
  <2> HIDE DEF u, row
  <2>3. /\ users' \in Table(UserId, UserRow)
        /\ DOMAIN users' = DOMAIN users \union {u}
        /\ \A x \in DOMAIN users : x # u => users'[x] = users[x]
    BY <2>1, <2>2, PutUser
  <2>4. u \notin DOMAIN users /\ u \notin tokens /\ u \notin DOMAIN signups
    BY <2>1, <2>2 DEF u, Inv, Referential, TokenImpliesActive, Usable
  <2>5. \A v \in Worker : HasUser(req[v].at) => req[v].user # u
    BY <2>1, <2>2 DEF u, Inv, RequestShape, Shape, UserId
  <2>6. /\ req' \in [Worker -> Request]
        /\ \A v \in Worker \ {w} : req'[v] = req[v]
        /\ req'[w].at = "deactivate" /\ req'[w].user = u
        /\ req'[w].name = req[w].name /\ req'[w].org = req[w].org
    <3> DEFINE q == [req[w] EXCEPT !.at = "deactivate", !.user = u]
    <3>1. req[w] \in Request
      BY <2>1
    <3>2. q \in Request /\ q.at = "deactivate" /\ q.user = u
          /\ q.name = req[w].name /\ q.org = req[w].org
      <4>1. q \in Request
        BY <3>1, <2>2 DEF Request, Step, Opt
      <4>2. q.at = "deactivate" /\ q.user = u /\ q.name = req[w].name /\ q.org = req[w].org
        BY <3>1 DEF Request
      <4> QED BY <4>1, <4>2
    <3>3. req' = [req EXCEPT ![w] = q]
      BY <1>2, <2>2
    <3> QED BY <2>1, <3>2, <3>3
  <2>7. UNCHANGED <<profiles, tokens, ringUsers, lastRing, signups>>
    BY DEF SignupCreateUser, CreateUser
  <2>8. TablesOK'
    BY <2>2, <2>3, <2>6, <2>7 DEF Inv, TablesOK, StoreTypeOK
  <2>9. RequestShape'
    <3>1. \A v \in Worker \ {w} : Shape(req[v])'
      BY <1>2, <2>1, <2>6 DEF Inv, RequestShape, Shape, UserId
    <3>2. Shape(req[w])'
      BY <2>1, <2>2, <2>6 DEF Shape, HasUser, HasName, HasOrg, u, UserId
    <3> QED BY <3>1, <3>2 DEF RequestShape
  <2>10. Referential'
    <3>1. DOMAIN users \subseteq UserId
      BY <2>1, UserRows
    <3> QED BY <3>1, <2>1, <2>2, <2>3, <2>7 DEF Inv, Referential, u, UserId
  <2>11. CreatorIsAlone'
    BY <2>4, <2>5, <2>6, <2>7 DEF Inv, CreatorIsAlone, Creating, HasUser
  <2>12. ActivatedStays'
    BY <2>3, <2>5, <2>6 DEF Inv, ActivatedStays, HasUser
  <2>13. TokenImpliesActive' /\ ApprovedIsActive'
    BY <2>3, <2>4, <2>7 DEF Inv, Referential, TokenImpliesActive, ApprovedIsActive, Usable, Approved
  <2> QED BY <2>8, <2>9, <2>10, <2>11, <2>12, <2>13 DEF Inv
<1> QED BY <1>1, <1>2 DEF SignupCreateUser, CreateUser

(***************************************************************************)
(* user.save(), from "deactivate" or from "activate".                      *)
(***************************************************************************)
LEMMA SaveUserFacts ==
  ASSUME Inv, NEW w \in Worker, HasUser(req[w].at), HasName(req[w].at),
         NEW active \in BOOLEAN,
         users' = Put(users, req[w].user, [name |-> req[w].name, active |-> active])
  PROVE  /\ users' \in Table(UserId, UserRow)
         /\ DOMAIN users' = DOMAIN users \union {req[w].user}
         /\ users'[req[w].user].active = active
         /\ \A x \in DOMAIN users : x # req[w].user => users'[x] = users[x]
         /\ req[w].user \in UserId /\ req[w].user <= lastUser
<1> DEFINE row == [name |-> req[w].name, active |-> active]
<1>1. req[w].user \in UserId /\ req[w].user <= lastUser /\ req[w].name \in Name
  BY DEF Inv, RequestShape, Shape
<1>2. row \in UserRow /\ row.active = active
  BY <1>1 DEF UserRow
<1> HIDE DEF row
<1>3. users' = Put(users, req[w].user, row) /\ users \in Table(UserId, UserRow)
  BY DEF row, Inv, TablesOK, StoreTypeOK
<1>4. /\ Put(users, req[w].user, row) \in Table(UserId, UserRow)
      /\ DOMAIN Put(users, req[w].user, row) = DOMAIN users \union {req[w].user}
      /\ Put(users, req[w].user, row)[req[w].user] = row
      /\ \A x \in DOMAIN users : x # req[w].user => Put(users, req[w].user, row)[x] = users[x]
  BY <1>1, <1>2, <1>3, PutUser
<1> QED BY <1>1, <1>2, <1>3, <1>4

(* is_active = False is written while nobody else knows the account.       *)
LEMMA DeactivateKeepsInv ==
  ASSUME Inv, NEW w \in Worker, Deactivate(w)
  PROVE  Inv'
<1>1. CASE End(w) /\ UNCHANGED users
  BY <1>1, EndStep DEF Deactivate, SaveUser, accounts, linked
<1>2. CASE /\ users' = Put(users, req[w].user, [name |-> req[w].name, active |-> FALSE])
           /\ Go(w, "queue")
  <2> DEFINE u == req[w].user
  <2>1. req[w].at = "deactivate" /\ req \in [Worker -> Request]
    BY DEF Deactivate, SaveUser, At, Inv, TablesOK, StoreTypeOK
  <2>2. /\ users' \in Table(UserId, UserRow)
        /\ DOMAIN users' = DOMAIN users \union {u}
        /\ \A x \in DOMAIN users : x # u => users'[x] = users[x]
        /\ u \in UserId /\ u <= lastUser
    BY <1>2, <2>1, SaveUserFacts DEF HasUser, HasName
  <2>3. /\ u \notin tokens /\ u \notin DOMAIN signups
        /\ \A v \in Worker \ {w} : HasUser(req[v].at) => req[v].user # u
    BY <2>1 DEF Inv, CreatorIsAlone, Creating
  <2>4. /\ req' \in [Worker -> Request]
        /\ \A v \in Worker \ {w} : req'[v] = req[v]
        /\ req'[w].at = "queue" /\ req'[w].user = u /\ req'[w].org = req[w].org
    BY <1>2, <2>1, GoFacts DEF Step
  <2>5. UNCHANGED <<profiles, tokens, ringUsers, lastUser, lastRing, signups>>
    BY DEF Deactivate, SaveUser
  <2> HIDE DEF u
  <2>6. TablesOK'
    BY <2>2, <2>4, <2>5 DEF Inv, TablesOK, StoreTypeOK
  <2>7. RequestShape'
    BY <2>1, <2>2, <2>4, <2>5 DEF Inv, RequestShape, Shape, HasUser, HasName, HasOrg
  <2>8. Referential'
    BY <2>2, <2>5 DEF Inv, Referential
  <2>9. CreatorIsAlone'
    BY <2>3, <2>4, <2>5 DEF Inv, CreatorIsAlone, Creating, HasUser
  <2>10. ActivatedStays'
    BY <2>2, <2>3, <2>4 DEF Inv, ActivatedStays, HasUser
  <2>11. TokenImpliesActive' /\ ApprovedIsActive'
    BY <2>2, <2>3, <2>5 DEF Inv, TokenImpliesActive, ApprovedIsActive, Usable, Approved
  <2> QED BY <2>6, <2>7, <2>8, <2>9, <2>10, <2>11 DEF Inv
<1> QED BY <1>1, <1>2 DEF Deactivate, SaveUser, GoOn

(***************************************************************************)
(* Writing a signup row for a user that exists and is not being created    *)
(* by another request, then ending.  An approved row needs an active user. *)
(***************************************************************************)
LEMMA FileSignupKeepsInv ==
  ASSUME Inv, NEW w \in Worker, NEW row \in SignupRow,
         HasUser(req[w].at), req[w].user \in DOMAIN users,
         row.approved => users[req[w].user].active,
         signups' = Put(signups, req[w].user, row), End(w),
         UNCHANGED <<users, profiles, tokens, ringUsers, lastUser, lastRing>>
  PROVE  Inv'
<1> DEFINE u == req[w].user
<1>1. /\ req \in [Worker -> Request] /\ signups \in Table(UserId, SignupRow)
      /\ u \in UserId
      /\ signups' = Put(signups, u, row)
  BY DEF Inv, TablesOK, StoreTypeOK, RequestShape, Shape
<1> HIDE DEF u
<1>2. /\ signups' \in Table(UserId, SignupRow)
      /\ DOMAIN signups' = DOMAIN signups \union {u}
      /\ signups'[u] = row
      /\ \A x \in DOMAIN signups : x # u => signups'[x] = signups[x]
  <2>1. /\ Put(signups, u, row) \in Table(UserId, SignupRow)
        /\ DOMAIN Put(signups, u, row) = DOMAIN signups \union {u}
        /\ Put(signups, u, row)[u] = row
        /\ \A x \in DOMAIN signups : x # u => Put(signups, u, row)[x] = signups[x]
    BY <1>1, PutSignup, Zenon
  <2> QED BY <1>1, <2>1
<1>3. /\ req' \in [Worker -> Request]
      /\ \A v \in Worker \ {w} : req'[v] = req[v]
      /\ req'[w].at = "idle"
  BY <1>1, EndFacts, IdleIsRequest
<1> USE DEF u
<1>4. TablesOK'
  BY <1>2, <1>3 DEF Inv, TablesOK, StoreTypeOK
<1>5. RequestShape'
  BY <1>3 DEF Inv, RequestShape, Shape, HasUser, HasName, HasOrg
<1>6. Referential'
  BY <1>2 DEF Inv, Referential
<1>7. CreatorIsAlone'
  BY <1>2, <1>3 DEF Inv, CreatorIsAlone, Creating, HasUser
<1>8. ActivatedStays'
  BY <1>3 DEF Inv, ActivatedStays
<1>9. TokenImpliesActive' /\ ApprovedIsActive'
  BY <1>2 DEF Inv, TokenImpliesActive, ApprovedIsActive, Usable, Approved
<1> QED BY <1>4, <1>5, <1>6, <1>7, <1>8, <1>9 DEF Inv

(* What a blank or given ring username may be.                             *)
LEMMA RingNameType ==
  ASSUME Inv, NEW w \in Worker
  PROVE  req[w].ringName \in Opt(Name)
BY DEF Inv, TablesOK, StoreTypeOK, Request

(* The signup form's request files the signup, unless the user vanished.   *)
LEMMA QueueKeepsInv ==
  ASSUME Inv, NEW w \in Worker, Queue(w)
  PROVE  Inv'
<1>1. CASE req[w].user \notin DOMAIN users
  BY <1>1, EndStep DEF Queue, accounts, linked
<1>2. CASE req[w].user \in DOMAIN users
  <2> DEFINE row == [org |-> req[w].org, ringName |-> req[w].ringName, approved |-> FALSE]
  <2>1. req[w].at = "queue"
    BY DEF Queue, At
  <2>2. row \in SignupRow /\ ~row.approved
    BY <2>1, RingNameType DEF SignupRow, Inv, RequestShape, Shape, HasOrg
  <2>3. signups' = Put(signups, req[w].user, row) /\ HasUser(req[w].at)
    BY <1>2, <2>1 DEF Queue, HasUser
  <2> HIDE DEF row
  <2> QED BY <1>2, <2>2, <2>3, FileSignupKeepsInv DEF Queue
<1> QED BY <1>1, <1>2

(* The mark is set on an account that this request has activated.          *)
LEMMA FinishApprovalKeepsInv ==
  ASSUME Inv, NEW w \in Worker, FinishApproval(w)
  PROVE  Inv'
<1>1. CASE req[w].user \notin DOMAIN users
  BY <1>1, EndStep DEF FinishApproval, accounts, linked
<1>2. CASE req[w].user \in DOMAIN users
  <2> DEFINE row == [org |-> req[w].org, ringName |-> req[w].ringName, approved |-> TRUE]
  <2>1. req[w].at = "finish"
    BY DEF FinishApproval, At
  <2>2. row \in SignupRow
    BY <2>1, RingNameType DEF SignupRow, Inv, RequestShape, Shape, HasOrg
  <2>3. /\ signups' = Put(signups, req[w].user, row) /\ HasUser(req[w].at)
        /\ users[req[w].user].active
    BY <1>2, <2>1 DEF FinishApproval, HasUser, Inv, ActivatedStays
  <2> HIDE DEF row
  <2> QED BY <1>2, <2>2, <2>3, FileSignupKeepsInv DEF FinishApproval
<1> QED BY <1>1, <1>2

(* Activation: no request is creating the account any more.                *)
LEMMA ActivateKeepsInv ==
  ASSUME Inv, NEW w \in Worker, Activate(w)
  PROVE  Inv'
<1>1. CASE End(w) /\ UNCHANGED users
  BY <1>1, EndStep DEF Activate, SaveUser, accounts, linked
<1>2. CASE /\ users' = Put(users, req[w].user, [name |-> req[w].name, active |-> TRUE])
           /\ Go(w, "token")
  <2> DEFINE u == req[w].user
  <2>1. req[w].at = "activate" /\ req \in [Worker -> Request]
    BY DEF Activate, SaveUser, At, Inv, TablesOK, StoreTypeOK
  <2>2. /\ users' \in Table(UserId, UserRow)
        /\ DOMAIN users' = DOMAIN users \union {u}
        /\ users'[u].active
        /\ \A x \in DOMAIN users : x # u => users'[x] = users[x]
        /\ u \in UserId /\ u <= lastUser
    BY <1>2, <2>1, SaveUserFacts DEF HasUser, HasName
  <2>3. \A v \in Worker \ {w} : Creating(req[v].at) => req[v].user # u
    BY <2>1 DEF Inv, CreatorIsAlone, HasUser
  <2>4. /\ req' \in [Worker -> Request]
        /\ \A v \in Worker \ {w} : req'[v] = req[v]
        /\ req'[w].at = "token" /\ req'[w].user = u
        /\ req'[w].org = req[w].org /\ req'[w].name = req[w].name
    BY <1>2, <2>1, GoFacts DEF Step
  <2>5. UNCHANGED <<profiles, tokens, ringUsers, lastUser, lastRing, signups>>
    BY DEF Activate, SaveUser
  <2> HIDE DEF u
  <2>6. TablesOK'
    BY <2>2, <2>4, <2>5 DEF Inv, TablesOK, StoreTypeOK
  <2>7. RequestShape'
    BY <2>1, <2>2, <2>4, <2>5 DEF Inv, RequestShape, Shape, HasUser, HasName, HasOrg
  <2>8. Referential'
    BY <2>2, <2>5 DEF Inv, Referential
  <2>9. CreatorIsAlone'
    BY <2>3, <2>4, <2>5 DEF Inv, CreatorIsAlone, Creating, HasUser
  <2>10. ActivatedStays'
    BY <2>2, <2>4 DEF Inv, ActivatedStays
  <2>11. TokenImpliesActive' /\ ApprovedIsActive'
    BY <2>2, <2>5 DEF Inv, TokenImpliesActive, ApprovedIsActive, Usable, Approved
  <2> QED BY <2>6, <2>7, <2>8, <2>9, <2>10, <2>11 DEF Inv
<1> QED BY <1>1, <1>2 DEF Activate, SaveUser, GoOn

(* The token goes to an account that this request has activated.           *)
LEMMA TokenKeepsInv ==
  ASSUME Inv, NEW w \in Worker, ApproveToken(w)
  PROVE  Inv'
<1>1. CASE End(w) /\ UNCHANGED tokens
  BY <1>1, EndStep DEF ApproveToken, IssueToken, accounts, linked
<1>2. CASE /\ req[w].user \in DOMAIN users
           /\ tokens' = tokens \union {req[w].user}
           /\ Go(w, "finish")
  <2> DEFINE u == req[w].user
  <2>1. req[w].at = "token" /\ req \in [Worker -> Request]
    BY DEF ApproveToken, IssueToken, At, Inv, TablesOK, StoreTypeOK
  <2>2. /\ u \in UserId /\ u <= lastUser /\ users[u].active
        /\ \A v \in Worker \ {w} : Creating(req[v].at) => req[v].user # u
    BY <1>2, <2>1 DEF Inv, RequestShape, Shape, HasUser, ActivatedStays, CreatorIsAlone
  <2>3. /\ req' \in [Worker -> Request]
        /\ \A v \in Worker \ {w} : req'[v] = req[v]
        /\ req'[w].at = "finish" /\ req'[w].user = u
        /\ req'[w].org = req[w].org /\ req'[w].name = req[w].name
    BY <1>2, <2>1, GoFacts DEF Step
  <2>4. UNCHANGED <<users, profiles, ringUsers, lastUser, lastRing, signups>>
    BY DEF ApproveToken, IssueToken
  <2>5. TablesOK'
    BY <1>2, <2>2, <2>3, <2>4 DEF Inv, TablesOK, StoreTypeOK
  <2>6. RequestShape'
    BY <2>1, <2>2, <2>3, <2>4 DEF Inv, RequestShape, Shape, HasUser, HasName, HasOrg
  <2>7. Referential'
    BY <2>4 DEF Inv, Referential
  <2>8. CreatorIsAlone'
    BY <1>2, <2>2, <2>3, <2>4 DEF Inv, CreatorIsAlone, Creating, HasUser
  <2>9. ActivatedStays'
    BY <2>2, <2>3, <2>4 DEF Inv, ActivatedStays
  <2>10. TokenImpliesActive' /\ ApprovedIsActive'
    BY <1>2, <2>2, <2>4 DEF Inv, TokenImpliesActive, ApprovedIsActive, Usable, Approved
  <2> QED BY <2>5, <2>6, <2>7, <2>8, <2>9, <2>10 DEF Inv
<1> QED BY <1>1, <1>2 DEF ApproveToken, IssueToken, GoOn

(* Looking the ring user up only changes what the request holds.           *)
LEMMA FindRingKeepsInv ==
  ASSUME Inv, NEW w \in Worker, FindRing(w)
  PROVE  Inv'
<1>1. /\ req[w].at = "findRing" /\ req \in [Worker -> Request]
      /\ UNCHANGED accounts /\ UNCHANGED linked
      /\ ringUsers \in Table(RingId, RingRow)
  BY DEF FindRing, At, accounts, linked, Inv, TablesOK, StoreTypeOK
<1>2. CASE End(w)
  BY <1>1, <1>2, EndStep
<1>3. CASE Go(w, "createRing")
  <2>1. /\ req' \in [Worker -> Request]
        /\ \A v \in Worker \ {w} : req'[v] = req[v]
        /\ req'[w].at = "createRing" /\ req'[w].user = req[w].user
        /\ req'[w].org = req[w].org /\ req'[w].name = req[w].name
    BY <1>1, <1>3, GoFacts DEF Step
  <2>2. Shape(req'[w])
    BY <1>1, <2>1 DEF Inv, RequestShape, Shape, HasUser, HasName, HasOrg
  <2> QED BY <1>1, <2>1, <2>2, LinkedUnchanged, MovesOn DEF HasUser, Creating
<1>4. ASSUME NEW r \in Found(w),
             req' = [req EXCEPT ![w].ring = r, ![w].row = ringUsers[r],
                       ![w].at = IF LegacyWritable THEN "updateRing" ELSE "linkGet"]
      PROVE  Inv'
  <2> DEFINE step == IF LegacyWritable THEN "updateRing" ELSE "linkGet"
             q == [req[w] EXCEPT !.ring = r, !.row = ringUsers[r], !.at = step]
  <2>1. r \in DOMAIN ringUsers
    BY <1>4 DEF Found, Named, Linked
  <2>2. r \in RingId /\ ringUsers[r] \in RingRow
    BY <1>1, <2>1, RingRows
  <2>3. step \in {"updateRing", "linkGet"}
    OBVIOUS
  <2>4. req[w] \in Request /\ req' = [req EXCEPT ![w] = q]
    BY <1>1, <1>4
  <2> HIDE DEF step
  <2>5. /\ q \in Request /\ q.at = step /\ q.ring = r /\ q.row = ringUsers[r]
        /\ q.user = req[w].user /\ q.name = req[w].name /\ q.org = req[w].org
    <3>1. q \in Request
      BY <2>2, <2>3, <2>4 DEF Request, Step, Opt
    <3>2. /\ q.at = step /\ q.ring = r /\ q.row = ringUsers[r]
          /\ q.user = req[w].user /\ q.name = req[w].name /\ q.org = req[w].org
      BY <2>4 DEF Request
    <3> QED BY <3>1, <3>2
  <2> HIDE DEF q
  <2>6. /\ req' \in [Worker -> Request]
        /\ \A v \in Worker \ {w} : req'[v] = req[v]
        /\ req'[w] = q
    BY <1>1, <2>4, <2>5
  <2>7. Shape(req'[w])
    BY <1>1, <2>2, <2>3, <2>5, <2>6 DEF Inv, RequestShape, Shape, HasUser, HasName, HasOrg, accounts
  <2> QED BY <1>1, <2>3, <2>5, <2>6, <2>7, LinkedUnchanged, MovesOn DEF HasUser, Creating
<1> QED BY <1>2, <1>3, <1>4 DEF FindRing

(* A ring user is created under a fresh pk.                                *)
LEMMA CreateRingKeepsInv ==
  ASSUME Inv, NEW w \in Worker, ApproveCreateRing(w)
  PROVE  Inv'
<1> DEFINE name == IF req[w].ringName # None THEN req[w].ringName ELSE req[w].name
           row == [name |-> name, org |-> req[w].org, admin |-> FALSE]
           q == [req[w] EXCEPT !.at = "updateRing", !.ring = lastRing', !.row = row]
<1>1. /\ req[w].at = "createRing" /\ req \in [Worker -> Request] /\ req[w] \in Request
      /\ UNCHANGED accounts /\ UNCHANGED profiles
      /\ ringUsers \in Table(RingId, RingRow) /\ lastRing \in 0..MaxRing
      /\ MaxRing \in Nat
  BY StoreAssumption DEF ApproveCreateRing, CreateRing, At, accounts, Inv, TablesOK, StoreTypeOK
<1>2. CASE End(w) /\ UNCHANGED <<ringUsers, lastRing>>
  BY <1>1, <1>2, EndStep DEF linked
<1>3. CASE /\ lastRing < MaxRing
           /\ lastRing' = lastRing + 1
           /\ ringUsers' = Put(ringUsers, lastRing', row)
           /\ req' = [req EXCEPT ![w].at = "updateRing", ![w].ring = lastRing', ![w].row = row]
  <2>1. lastRing' \in RingId /\ lastRing' \in 0..MaxRing
    BY <1>1, <1>3 DEF RingId
  <2>2. row \in RingRow
    <3>1. req[w].name \in Name /\ req[w].org \in Org /\ req[w].ringName \in Opt(Name)
      BY <1>1, RingNameType DEF Inv, RequestShape, Shape, HasName, HasOrg
    <3>2. name \in Name
      BY <3>1 DEF Opt
    <3> QED BY <3>1, <3>2 DEF RingRow
  <2>3. req' = [req EXCEPT ![w] = q]
    BY <1>1, <1>3
  <2> HIDE DEF row
  <2>4. LinkedTypeOK'
    <3>1. Put(ringUsers, lastRing', row) \in Table(RingId, RingRow)
      BY <1>1, <2>1, <2>2, PutRing, Zenon
    <3> QED BY <1>1, <1>3, <2>1, <3>1 DEF LinkedTypeOK, Inv, TablesOK, StoreTypeOK
  <2>5. /\ q \in Request /\ q.at = "updateRing" /\ q.ring = lastRing' /\ q.row = row
        /\ q.user = req[w].user /\ q.name = req[w].name /\ q.org = req[w].org
    <3>1. q \in Request
      BY <1>1, <2>1, <2>2 DEF Request, Step, Opt
    <3>2. /\ q.at = "updateRing" /\ q.ring = lastRing' /\ q.row = row
          /\ q.user = req[w].user /\ q.name = req[w].name /\ q.org = req[w].org
      BY <1>1 DEF Request
    <3> QED BY <3>1, <3>2
  <2> HIDE DEF q
  <2>6. /\ req' \in [Worker -> Request]
        /\ \A v \in Worker \ {w} : req'[v] = req[v]
        /\ req'[w] = q
    BY <1>1, <2>3, <2>5
  <2>7. Shape(req'[w])
    BY <1>1, <2>1, <2>2, <2>5, <2>6 DEF Inv, RequestShape, Shape, HasUser, HasName, HasOrg, accounts
  <2> QED BY <1>1, <2>4, <2>5, <2>6, <2>7, MovesOn DEF HasUser, Creating
<1> QED BY <1>2, <1>3 DEF ApproveCreateRing, CreateRing

(* Saving the ring user moves the request on to the link.                  *)
LEMMA UpdateRingKeepsInv ==
  ASSUME Inv, NEW w \in Worker, UpdateRing(w)
  PROVE  Inv'
<1> DEFINE q == req[w]
           row == [name |-> q.row.name, org |-> q.org, admin |-> q.row.admin \/ q.role]
<1>1. /\ q.at = "updateRing" /\ req \in [Worker -> Request] /\ q \in Request
      /\ UNCHANGED accounts /\ UNCHANGED <<profiles, lastRing>>
      /\ ringUsers \in Table(RingId, RingRow)
  BY DEF UpdateRing, At, accounts, Inv, TablesOK, StoreTypeOK
<1>2. CASE End(w) /\ UNCHANGED ringUsers
  BY <1>1, <1>2, EndStep DEF linked
<1>3. CASE ringUsers' = Put(ringUsers, q.ring, row) /\ Go(w, "linkGet")
  <2>1. q.ring \in RingId /\ q.row \in RingRow /\ q.org \in Org /\ q.role \in BOOLEAN
    BY <1>1 DEF Inv, RequestShape, Shape, HasOrg, Request
  <2>2. q.row.admin \/ q.role \in BOOLEAN
    BY <2>1
  <2>3. row \in RingRow
    BY <2>1, <2>2 DEF RingRow
  <2>4. /\ req' \in [Worker -> Request]
        /\ \A v \in Worker \ {w} : req'[v] = req[v]
        /\ req'[w].at = "linkGet" /\ req'[w].user = q.user /\ req'[w].ring = q.ring
        /\ req'[w].org = q.org /\ req'[w].name = q.name
    BY <1>1, <1>3, GoFacts DEF Step
  <2> HIDE DEF row
  <2>5. LinkedTypeOK'
    <3>1. Put(ringUsers, q.ring, row) \in Table(RingId, RingRow)
      BY <1>1, <2>1, <2>3, PutRing, Zenon
    <3> QED BY <1>1, <1>3, <3>1 DEF LinkedTypeOK, Inv, TablesOK, StoreTypeOK
  <2>6. Shape(req'[w])
    BY <1>1, <2>1, <2>4 DEF Inv, RequestShape, Shape, HasUser, HasName, HasOrg, accounts
  <2> QED BY <1>1, <2>4, <2>5, <2>6, MovesOn DEF HasUser, Creating
<1> QED BY <1>2, <1>3 DEF UpdateRing

(* link_ring_user, get_or_create.                                          *)
LEMMA LinkGetKeepsInv ==
  ASSUME Inv, NEW w \in Worker, ApproveLinkGet(w)
  PROVE  Inv'
<1> DEFINE u == req[w].user
           new == [ring |-> req[w].ring, pdb |-> None]
<1>1. /\ req[w].at = "linkGet" /\ req \in [Worker -> Request] /\ req[w] \in Request
      /\ UNCHANGED accounts /\ UNCHANGED <<ringUsers, lastRing>>
      /\ profiles \in Table(UserId, ProfileRow)
      /\ u \in UserId /\ req[w].ring \in RingId
  BY DEF ApproveLinkGet, LinkGet, At, accounts, Inv, TablesOK, StoreTypeOK,
         RequestShape, Shape, HasUser
<1>2. CASE End(w) /\ UNCHANGED profiles
  BY <1>1, <1>2, EndStep DEF linked
<1>3. CASE /\ u \in DOMAIN profiles
           /\ req' = [req EXCEPT ![w].at = "linkSave",
                        ![w].pdb = IF @ = None THEN profiles[u].pdb ELSE @]
           /\ UNCHANGED profiles
  <2> DEFINE pdb == IF req[w].pdb = None THEN profiles[u].pdb ELSE req[w].pdb
             q == [req[w] EXCEPT !.at = "linkSave", !.pdb = pdb]
  <2>1. pdb \in Opt(Pdb)
    <3>1. profiles[u] \in ProfileRow
      BY <1>1, <1>3, ProfileRows
    <3> QED BY <1>1, <3>1 DEF ProfileRow, Request
  <2>2. req' = [req EXCEPT ![w] = q]
    BY <1>1, <1>3
  <2> HIDE DEF pdb
  <2>3. /\ q \in Request /\ q.at = "linkSave" /\ q.ring = req[w].ring
        /\ q.user = req[w].user /\ q.name = req[w].name /\ q.org = req[w].org
    BY <1>1, <2>1 DEF Request, Step
  <2> HIDE DEF q
  <2>4. /\ req' \in [Worker -> Request]
        /\ \A v \in Worker \ {w} : req'[v] = req[v]
        /\ req'[w] = q
    BY <1>1, <2>2, <2>3
  <2>5. Shape(req'[w])
    BY <1>1, <2>3, <2>4 DEF Inv, RequestShape, Shape, HasUser, HasName, HasOrg, accounts
  <2> QED BY <1>1, <1>3, <2>3, <2>4, <2>5, LinkedUnchanged, MovesOn DEF HasUser, Creating, linked
<1>4. CASE profiles' = Put(profiles, u, new) /\ Go(w, "linkSave")
  <2>1. new \in ProfileRow
    BY <1>1 DEF ProfileRow, Opt
  <2>2. /\ req' \in [Worker -> Request]
        /\ \A v \in Worker \ {w} : req'[v] = req[v]
        /\ req'[w].at = "linkSave" /\ req'[w].user = req[w].user /\ req'[w].ring = req[w].ring
        /\ req'[w].org = req[w].org /\ req'[w].name = req[w].name
    BY <1>1, <1>4, GoFacts DEF Step
  <2> HIDE DEF new, u
  <2>3. LinkedTypeOK'
    <3>1. Put(profiles, u, new) \in Table(UserId, ProfileRow)
      BY <1>1, <2>1, PutProfile, Zenon
    <3> QED BY <1>1, <1>4, <3>1 DEF LinkedTypeOK, Inv, TablesOK, StoreTypeOK
  <2>4. Shape(req'[w])
    BY <1>1, <2>2 DEF Inv, RequestShape, Shape, HasUser, HasName, HasOrg, accounts
  <2> QED BY <1>1, <2>2, <2>3, <2>4, MovesOn DEF HasUser, Creating
<1> QED BY <1>2, <1>3, <1>4 DEF ApproveLinkGet, LinkGet

(* link_ring_user, save.                                                   *)
LEMMA LinkSaveKeepsInv ==
  ASSUME Inv, NEW w \in Worker, ApproveLinkSave(w)
  PROVE  Inv'
<1> DEFINE u == req[w].user
           new == [ring |-> req[w].ring, pdb |-> req[w].pdb]
<1>1. /\ req[w].at = "linkSave" /\ req \in [Worker -> Request] /\ req[w] \in Request
      /\ UNCHANGED accounts /\ UNCHANGED <<ringUsers, lastRing>>
      /\ profiles \in Table(UserId, ProfileRow)
      /\ u \in UserId /\ req[w].ring \in RingId
  BY DEF ApproveLinkSave, LinkSave, At, accounts, Inv, TablesOK, StoreTypeOK,
         RequestShape, Shape, HasUser
<1>2. CASE End(w) /\ UNCHANGED profiles
  BY <1>1, <1>2, EndStep DEF linked
<1>3. CASE profiles' = Put(profiles, u, new) /\ Go(w, "activate")
  <2>1. new \in ProfileRow
    BY <1>1 DEF ProfileRow, Request
  <2>2. /\ req' \in [Worker -> Request]
        /\ \A v \in Worker \ {w} : req'[v] = req[v]
        /\ req'[w].at = "activate" /\ req'[w].user = req[w].user
        /\ req'[w].org = req[w].org /\ req'[w].name = req[w].name
    BY <1>1, <1>3, GoFacts DEF Step
  <2> HIDE DEF new, u
  <2>3. LinkedTypeOK'
    <3>1. Put(profiles, u, new) \in Table(UserId, ProfileRow)
      BY <1>1, <2>1, PutProfile, Zenon
    <3> QED BY <1>1, <1>3, <3>1 DEF LinkedTypeOK, Inv, TablesOK, StoreTypeOK
  <2>4. Shape(req'[w])
    BY <1>1, <2>2 DEF Inv, RequestShape, Shape, HasUser, HasName, HasOrg, accounts
  <2> QED BY <1>1, <2>2, <2>3, <2>4, MovesOn DEF HasUser, Creating
<1> QED BY <1>2, <1>3 DEF ApproveLinkSave, LinkSave

(* The user is deleted with the signup and the token that refer to it.     *)
LEMMA RejectUserKeepsInv ==
  ASSUME Inv, NEW w \in Worker, RejectUser(w)
  PROVE  Inv'
<1> DEFINE u == req[w].user
<1>1. /\ req[w].at = "deleteUser" /\ req \in [Worker -> Request] /\ u \in UserId
      /\ users \in Table(UserId, UserRow) /\ profiles \in Table(UserId, ProfileRow)
      /\ signups \in Table(UserId, SignupRow)
      /\ users' = Without(users, u) /\ profiles' = Without(profiles, u)
      /\ signups' = Without(signups, u) /\ tokens' = tokens \ {u}
      /\ UNCHANGED <<ringUsers, lastUser, lastRing>>
  BY DEF RejectUser, DeleteUser, At, Inv, TablesOK, StoreTypeOK, RequestShape, Shape, HasUser
<1>2. /\ req' \in [Worker -> Request]
      /\ \A v \in Worker \ {w} : req'[v] = req[v]
      /\ req'[w].at = "deleteSignup" /\ req'[w].user = u
  BY <1>1, GoFacts DEF Step, RejectUser, DeleteUser
<1>3. \A v \in Worker \ {w} : Creating(req[v].at) => req[v].user # u
  BY <1>1 DEF Inv, CreatorIsAlone, HasUser
<1> HIDE DEF u
<1>4. /\ users' \in Table(UserId, UserRow)
      /\ DOMAIN users' = DOMAIN users \ {u}
      /\ \A x \in DOMAIN users : x # u => users'[x] = users[x]
  <2>1. /\ Without(users, u) \in Table(UserId, UserRow)
        /\ DOMAIN Without(users, u) = DOMAIN users \ {u}
        /\ \A x \in DOMAIN users : x # u => Without(users, u)[x] = users[x]
    BY <1>1, WithoutUser, Zenon
  <2> QED BY <1>1, <2>1
<1>5. /\ signups' \in Table(UserId, SignupRow)
      /\ DOMAIN signups' = DOMAIN signups \ {u}
      /\ \A x \in DOMAIN signups : x # u => signups'[x] = signups[x]
  <2>1. /\ Without(signups, u) \in Table(UserId, SignupRow)
        /\ DOMAIN Without(signups, u) = DOMAIN signups \ {u}
        /\ \A x \in DOMAIN signups : x # u => Without(signups, u)[x] = signups[x]
    BY <1>1, WithoutSignup, Zenon
  <2> QED BY <1>1, <2>1
<1>6. profiles' \in Table(UserId, ProfileRow)
  <2>1. Without(profiles, u) \in Table(UserId, ProfileRow)
    BY <1>1, WithoutProfile, Zenon
  <2> QED BY <1>1, <2>1
<1>7. TablesOK'
  BY <1>1, <1>2, <1>4, <1>5, <1>6 DEF Inv, TablesOK, StoreTypeOK
<1>8. RequestShape'
  BY <1>1, <1>2 DEF u, Inv, RequestShape, Shape, HasUser, HasName, HasOrg
<1>9. Referential'
  BY <1>1, <1>4, <1>5 DEF Inv, Referential
<1>10. CreatorIsAlone'
  BY <1>1, <1>2, <1>3, <1>5 DEF u, Inv, CreatorIsAlone, Creating, HasUser
<1>11. ActivatedStays'
  BY <1>2, <1>4 DEF Inv, ActivatedStays
<1>12. TokenImpliesActive' /\ ApprovedIsActive'
  BY <1>1, <1>4, <1>5 DEF Inv, TokenImpliesActive, ApprovedIsActive, Usable, Approved
<1> QED BY <1>7, <1>8, <1>9, <1>10, <1>11, <1>12 DEF Inv

(* Deleting a signup row takes a promise away and makes none.              *)
LEMMA RejectSignupKeepsInv ==
  ASSUME Inv, NEW w \in Worker, RejectSignup(w)
  PROVE  Inv'
<1> DEFINE u == req[w].user
<1>1. /\ req[w].at = "deleteSignup" /\ req \in [Worker -> Request] /\ u \in UserId
      /\ signups \in Table(UserId, SignupRow) /\ signups' = Without(signups, u)
      /\ UNCHANGED <<users, profiles, tokens, ringUsers, lastUser, lastRing>>
  BY DEF RejectSignup, At, Inv, TablesOK, StoreTypeOK, RequestShape, Shape, HasUser
<1>2. /\ req' \in [Worker -> Request]
      /\ \A v \in Worker \ {w} : req'[v] = req[v]
      /\ req'[w].at = "idle"
  BY <1>1, EndFacts, IdleIsRequest DEF RejectSignup
<1> HIDE DEF u
<1>3. /\ signups' \in Table(UserId, SignupRow)
      /\ DOMAIN signups' = DOMAIN signups \ {u}
      /\ \A x \in DOMAIN signups : x # u => signups'[x] = signups[x]
  <2>1. /\ Without(signups, u) \in Table(UserId, SignupRow)
        /\ DOMAIN Without(signups, u) = DOMAIN signups \ {u}
        /\ \A x \in DOMAIN signups : x # u => Without(signups, u)[x] = signups[x]
    BY <1>1, WithoutSignup, Zenon
  <2> QED BY <1>1, <2>1
<1>4. TablesOK'
  BY <1>1, <1>2, <1>3 DEF Inv, TablesOK, StoreTypeOK
<1>5. RequestShape'
  BY <1>1, <1>2 DEF Inv, RequestShape, Shape, HasUser, HasName, HasOrg
<1>6. Referential'
  BY <1>1, <1>3 DEF Inv, Referential
<1>7. CreatorIsAlone'
  BY <1>1, <1>2, <1>3 DEF Inv, CreatorIsAlone, Creating, HasUser
<1>8. ActivatedStays'
  BY <1>1, <1>2 DEF Inv, ActivatedStays
<1>9. TokenImpliesActive' /\ ApprovedIsActive'
  BY <1>1, <1>3 DEF Inv, TokenImpliesActive, ApprovedIsActive, Usable, Approved
<1> QED BY <1>4, <1>5, <1>6, <1>7, <1>8, <1>9 DEF Inv

(* A ring user deleted through the API takes no account with it.           *)
LEMMA DestroyKeepsInv ==
  ASSUME Inv, NEW r \in RingId, RingUserDestroyed(r)
  PROVE  Inv'
<1>1. /\ ringUsers \in Table(RingId, RingRow) /\ ringUsers' = Without(ringUsers, r)
      /\ UNCHANGED <<users, profiles, tokens, lastUser, lastRing, req, signups>>
  BY DEF RingUserDestroyed, DestroyRingUser, Inv, TablesOK, StoreTypeOK
<1>2. ringUsers' \in Table(RingId, RingRow)
  <2>1. Without(ringUsers, r) \in Table(RingId, RingRow)
    BY <1>1, WithoutRing, Zenon
  <2> QED BY <1>1, <2>1
<1>3. TablesOK'
  BY <1>1, <1>2 DEF Inv, TablesOK, StoreTypeOK
<1> QED BY <1>1, <1>3 DEF Inv, RequestShape, Shape, Referential, CreatorIsAlone,
      ActivatedStays, TokenImpliesActive, ApprovedIsActive, Usable, Approved

-----------------------------------------------------------------------------
(* No account, no token and no running request: the invariant holds.       *)
LEMMA InitEstablishesInv == Init => Inv
<1> SUFFICES ASSUME Init PROVE Inv
  OBVIOUS
<1>1. /\ users = << >> /\ profiles = << >> /\ tokens = {} /\ signups = << >>
      /\ ringUsers = SeedRing /\ lastUser = 0 /\ lastRing = Len(SeedRing)
      /\ req = [w \in Worker |-> Idle]
  BY DEF Init, StoreInit
<1>2. /\ << >> \in Table(UserId, UserRow) /\ << >> \in Table(UserId, ProfileRow)
      /\ << >> \in Table(UserId, SignupRow) /\ DOMAIN << >> = {}
  BY EmptyTable, Zenon
<1>3. SeedRing \in Table(RingId, RingRow) /\ Len(SeedRing) \in 0..MaxRing
  <2>1. /\ SeedRing \in Seq(RingRow) /\ Len(SeedRing) <= MaxRing /\ MaxRing \in Nat
    BY StoreAssumption
  <2>2. Len(SeedRing) \in 0..MaxRing /\ 1..Len(SeedRing) \subseteq RingId
    BY <2>1 DEF RingId
  <2>3. SeedRing \in [1..Len(SeedRing) -> RingRow]
    BY <2>1
  <2> QED BY <2>2, <2>3 DEF Table
<1>4. \A w \in Worker : req[w].at = "idle"
  BY <1>1, IdleIsRequest
<1>5. TablesOK
  <2>1. lastUser \in 0..MaxUser
    BY <1>1, StoreAssumption
  <2>2. req \in [Worker -> Request]
    BY <1>1, IdleIsRequest
  <2> QED BY <1>1, <1>2, <1>3, <2>1, <2>2 DEF TablesOK, StoreTypeOK
<1>6. RequestShape /\ CreatorIsAlone /\ ActivatedStays
  BY <1>4 DEF RequestShape, Shape, HasUser, HasName, HasOrg, CreatorIsAlone, Creating, ActivatedStays
<1>7. Referential /\ TokenImpliesActive /\ ApprovedIsActive
  BY <1>1, <1>2 DEF Referential, TokenImpliesActive, ApprovedIsActive
<1> QED BY <1>5, <1>6, <1>7 DEF Inv

(* Every step of every request keeps the invariant.                        *)
LEMMA NextKeepsInv == Inv /\ [Next]_vars => Inv'
<1> SUFFICES ASSUME Inv, [Next]_vars PROVE Inv'
  OBVIOUS
<1>1. CASE UNCHANGED vars
  BY <1>1 DEF vars, storeVars, Inv, TablesOK, StoreTypeOK, RequestShape, Shape, Referential,
     CreatorIsAlone, ActivatedStays, TokenImpliesActive, ApprovedIsActive, Usable, Approved
<1>2. ASSUME NEW w \in Visitor, VisitorBegins(w) PROVE Inv'
  BY <1>2, SubmitSignupKeepsInv DEF VisitorBegins, Worker
<1>3. ASSUME NEW w \in Admin, AdminBegins(w) PROVE Inv'
  BY <1>3, OpenApprovalKeepsInv, OpenRejectionKeepsInv DEF AdminBegins, Worker
<1>4. ASSUME NEW w \in Worker, Continue(w) PROVE Inv'
  <2>1. CASE SignupCreateUser(w) \/ Deactivate(w) \/ Queue(w)
    BY <2>1, CreateUserKeepsInv, DeactivateKeepsInv, QueueKeepsInv
  <2>2. CASE FindRing(w) \/ ApproveCreateRing(w) \/ UpdateRing(w)
    BY <2>2, FindRingKeepsInv, CreateRingKeepsInv, UpdateRingKeepsInv
  <2>3. CASE ApproveLinkGet(w) \/ ApproveLinkSave(w) \/ Activate(w)
    BY <2>3, LinkGetKeepsInv, LinkSaveKeepsInv, ActivateKeepsInv
  <2>4. CASE ApproveToken(w) \/ FinishApproval(w)
    BY <2>4, TokenKeepsInv, FinishApprovalKeepsInv
  <2>5. CASE RejectUser(w) \/ RejectSignup(w)
    BY <2>5, RejectUserKeepsInv, RejectSignupKeepsInv
  <2> QED BY <1>4, <2>1, <2>2, <2>3, <2>4, <2>5 DEF Continue
<1>5. ASSUME NEW w \in Worker, RequestDies(w) PROVE Inv'
  BY <1>5, EndStep DEF RequestDies, Die, accounts, linked
<1>6. ASSUME NEW r \in RingId, RingUserDestroyed(r) PROVE Inv'
  BY <1>6, DestroyKeepsInv
<1> QED BY <1>1, <1>2, <1>3, <1>4, <1>5, <1>6 DEF Next

(***************************************************************************)
(* In every behaviour of the signup handlers the tables and the requests   *)
(* stay well typed; an API token belongs to an active account; and a       *)
(* signup marked approved has an active account: for any number of         *)
(* concurrent requests, any death of them, in read-only mode or not.       *)
(***************************************************************************)
THEOREM SignupInvariant == Spec => []Inv
<1>1. Init => Inv
  BY InitEstablishesInv
<1>2. Inv /\ [Next]_vars => Inv'
  BY NextKeepsInv
<1> QED BY <1>1, <1>2, PTL DEF Spec

(* Tables and requests stay well typed.                                    *)
THEOREM TypeCorrect == Spec => []TypeOK
<1>1. Inv => TablesOK
  BY DEF Inv
<1>2. Init => deployment \in DOMAIN Deployments
  BY DEF Init, StoreInit
<1>3. deployment \in DOMAIN Deployments /\ [Next]_vars => (deployment \in DOMAIN Deployments)'
  BY DEF Next, vars, storeVars, VisitorBegins, SubmitSignup, AdminBegins, OpenApproval,
     OpenRejection, Continue, SignupCreateUser, CreateUser, Deactivate, SaveUser, Queue,
     FindRing, ApproveCreateRing, CreateRing, UpdateRing, ApproveLinkGet, LinkGet,
     ApproveLinkSave, LinkSave, Activate, ApproveToken, IssueToken, FinishApproval,
     RejectUser, DeleteUser, RejectSignup, RequestDies, Die, RingUserDestroyed, DestroyRingUser
<1>4. TablesOK /\ deployment \in DOMAIN Deployments => TypeOK
  BY DEF TypeOK
<1> QED BY <1>1, <1>2, <1>3, <1>4, SignupInvariant, PTL DEF Spec

(* An API token always belongs to an active account.                       *)
THEOREM TokensAreActive == Spec => []TokenImpliesActive
<1>1. Inv => TokenImpliesActive
  BY DEF Inv
<1> QED BY <1>1, SignupInvariant, PTL

(* A signup marked approved always has an active account.                  *)
THEOREM ApprovedAccountsAreActive == Spec => []ApprovedIsActive
<1>1. Inv => ApprovedIsActive
  BY DEF Inv
<1> QED BY <1>1, SignupInvariant, PTL

-----------------------------------------------------------------------------
(***************************************************************************)
(* What signup promises beyond that: a read-only ring database is left     *)
(* alone, an approval is complete, who is served is on file, accounts are  *)
(* vetted, and an account keeps its ring user.                             *)
(* None of the five is inductive.  The invariants they rest on:            *)
(*   Roles       who can be at which statement, and behind which switch;   *)
(*   Completing  what an approval has already written by each statement;   *)
(*   Serving     whom an approval serves, and who is served, is on file;   *)
(*   OnFile      every account has a signup or is still being created, and *)
(*               usernames are unique, so that deactivation cannot fail;   *)
(*   Vetting     an account active ahead of its signup has the approval    *)
(*               that will mark it;                                        *)
(*   Rings       ring usernames are unique, and pks are not reused;        *)
(*   Names       all approvals of one signup are for the same names;       *)
(*   Links       a ring user that an approval holds, or an account has,    *)
(*               carries the name the approval is for;                     *)
(*   Sole        the only admin is moving the account to no other one.     *)
(* An operator XEffect(w) says of the action X what it changes in the      *)
(* tables and where it leaves the request; the lemma XDoes proves it, and  *)
(* the proofs about the invariants use only that.                          *)
(***************************************************************************)

tables == <<users, profiles, tokens, ringUsers, lastUser, lastRing, signups>>

(* A request ended without having written anything.                        *)
Stops(w) == Steps(w, "idle") /\ UNCHANGED tables

(* The requests have the type of requests.                                 *)
LEMMA RequestsTyped == Inv => req \in [Worker -> Request]
BY DEF Inv, TablesOK, StoreTypeOK

(* Ending a request is a step to "idle".                                   *)
LEMMA EndSteps ==
  ASSUME Inv, NEW w \in Worker, End(w), UNCHANGED deployment
  PROVE  Steps(w, "idle")
BY RequestsTyped, EndIsStep

(* Moving on is a step that keeps what the request holds.                  *)
LEMMA GoMoves ==
  ASSUME Inv, NEW w \in Worker, NEW step \in Step, Go(w, step), UNCHANGED deployment
  PROVE  /\ Moves(w, step)
         /\ req'[w].ring = req[w].ring /\ req'[w].row = req[w].row
BY RequestsTyped, GoIsMove

-----------------------------------------------------------------------------
SubmitEffect(w) ==
  Steps(w, "createUser") /\ UNCHANGED tables /\ req[w].at = "idle"
(* The registration form was posted: nothing is written yet.               *)
LEMMA SubmitDoes ==
  ASSUME Inv, NEW w \in Worker, NEW name \in Name, NEW org \in Org,
         NEW ringName \in RingNameChoice, SubmitSignup(w, name, org, ringName)
  PROVE  SubmitEffect(w)
<1> USE DEF SubmitEffect
<1> DEFINE q == [Idle EXCEPT !.op = "signup", !.at = "createUser",
                   !.name = name, !.org = org, !.ringName = ringName]
<1>1. q \in Request /\ q.at = "createUser"
  BY IdleIsRequest, SignupAssumption DEF Idle, Request, Opt, Handler, Step
<1>2. req' = [req EXCEPT ![w] = q] /\ req[w].at = "idle"
  BY IdleIsRequest DEF SubmitSignup, Free
<1> HIDE DEF q
<1>3. Steps(w, "createUser")
  BY <1>1, <1>2, RequestsTyped DEF Steps, SubmitSignup
<1> QED BY <1>2, <1>3 DEF SubmitSignup, tables

OpenApprovalEffect(w, u) ==
  /\ Steps(w, "findRing") /\ UNCHANGED tables /\ req[w].at = "idle"
  /\ Pending(u) /\ u \in DOMAIN users /\ w \in Site.workers
  /\ req'[w].user = u /\ req'[w].name = users[u].name
  /\ req'[w].ringName = signups[u].ringName
(* An approval starts from what the pending signup and its user say.       *)
LEMMA OpenApprovalDoes ==
  ASSUME Inv, NEW w \in Worker, NEW u \in UserId, NEW role \in BOOLEAN,
         OpenApproval(w, u, role)
  PROVE  OpenApprovalEffect(w, u)
<1> USE DEF OpenApprovalEffect
<1> DEFINE q == [Idle EXCEPT !.op = "approve", !.at = "findRing",
                   !.user = u, !.name = users[u].name, !.org = signups[u].org,
                   !.ringName = signups[u].ringName, !.role = role]
<1>1. /\ u \in DOMAIN signups /\ u \in DOMAIN users
      /\ users[u].name \in Name
      /\ signups[u].org \in Org /\ signups[u].ringName \in Opt(Name)
  <2>1. u \in DOMAIN signups /\ u \in DOMAIN users
    BY DEF OpenApproval, Pending, Inv, Referential
  <2>2. users[u] \in UserRow /\ signups[u] \in SignupRow
    BY <2>1, UserRows, SignupRows DEF Inv, TablesOK, StoreTypeOK
  <2> QED BY <2>1, <2>2 DEF UserRow, SignupRow
<1>2. /\ q \in Request /\ q.at = "findRing" /\ q.user = u
      /\ q.name = users[u].name /\ q.ringName = signups[u].ringName
  BY <1>1, IdleIsRequest DEF Idle, Request, Opt, Handler, Step
<1>3. /\ req' = [req EXCEPT ![w] = q] /\ req[w].at = "idle"
      /\ w \in Site.workers /\ Pending(u)
  BY IdleIsRequest DEF OpenApproval, Free
<1> HIDE DEF q
<1>4. Steps(w, "findRing") /\ req'[w] = q
  BY <1>2, <1>3, RequestsTyped DEF Steps, OpenApproval
<1> QED BY <1>1, <1>2, <1>3, <1>4 DEF OpenApproval, tables

OpenRejectionEffect(w) ==
  /\ Steps(w, "deleteUser") /\ UNCHANGED tables /\ req[w].at = "idle"
  /\ Rejects /\ w \in Site.workers
(* A rejection starts; nothing is written yet.                             *)
LEMMA OpenRejectionDoes ==
  ASSUME Inv, NEW w \in Worker, NEW u \in UserId, OpenRejection(w, u)
  PROVE  OpenRejectionEffect(w)
<1> USE DEF OpenRejectionEffect
<1> DEFINE q == [Idle EXCEPT !.op = "reject", !.at = "deleteUser", !.user = u]
<1>1. q \in Request /\ q.at = "deleteUser"
  BY IdleIsRequest DEF Idle, Request, Opt, Handler, Step
<1>2. /\ req' = [req EXCEPT ![w] = q] /\ req[w].at = "idle"
      /\ w \in Site.workers /\ Rejects
  BY IdleIsRequest DEF OpenRejection, Free
<1> HIDE DEF q
<1>3. Steps(w, "deleteUser")
  BY <1>1, <1>2, RequestsTyped DEF Steps, OpenRejection
<1> QED BY <1>2, <1>3 DEF OpenRejection, tables

CreateUserEffect(w) ==
  /\ req[w].at = "createUser"
  /\ \/ Stops(w)
     \/ /\ Steps(w, "deactivate") /\ ~Taken(req[w].name, users)
        /\ req'[w].user = lastUser + 1 /\ req'[w].name = req[w].name
        /\ lastUser' = lastUser + 1
        /\ Wrote(users, users', lastUser + 1, [name |-> req[w].name, active |-> TRUE])
        /\ UNCHANGED <<profiles, tokens, ringUsers, lastRing, signups>>
(* User.objects.create_user: a new account, or the name was taken.         *)
LEMMA CreateUserDoes ==
  ASSUME Inv, NEW w \in Worker, SignupCreateUser(w)
  PROVE  CreateUserEffect(w)
<1> USE DEF CreateUserEffect
<1>1. /\ req[w].at = "createUser" /\ UNCHANGED deployment /\ req[w] \in Request
      /\ lastUser \in 0..MaxUser /\ MaxUser \in Nat
      /\ UNCHANGED <<profiles, tokens, ringUsers, lastRing, signups>>
  BY StoreAssumption, RequestsTyped DEF SignupCreateUser, CreateUser, At, Inv, TablesOK, StoreTypeOK
<1>2. CASE End(w) /\ UNCHANGED <<users, lastUser>>
  BY <1>1, <1>2, EndSteps DEF Stops, tables
<1>3. CASE /\ ~Taken(req[w].name, users)
           /\ lastUser < MaxUser
           /\ lastUser' = lastUser + 1
           /\ users' = Put(users, lastUser', [name |-> req[w].name, active |-> TRUE])
           /\ req' = [req EXCEPT ![w].at = "deactivate", ![w].user = lastUser']
  <2> DEFINE q == [req[w] EXCEPT !.at = "deactivate", !.user = lastUser + 1]
  <2>0. lastUser + 1 \in Opt(UserId)
    BY <1>1, <1>3 DEF Opt, UserId
  <2>1. q \in Request /\ q.at = "deactivate" /\ q.user = lastUser + 1 /\ q.name = req[w].name
    BY <1>1, <2>0 DEF Request, Step
  <2>2. req' = [req EXCEPT ![w] = q]
    BY <1>3
  <2> HIDE DEF q
  <2>3. Steps(w, "deactivate") /\ req'[w] = q
    BY <1>1, <2>1, <2>2, RequestsTyped DEF Steps
  <2> QED BY <1>1, <1>3, <2>1, <2>3, PutWrites
<1> QED BY <1>1, <1>2, <1>3 DEF SignupCreateUser, CreateUser

DeactivateEffect(w) ==
  /\ req[w].at = "deactivate"
  /\ \/ Stops(w) /\ TakenByOther(req[w].name, users, req[w].user)
     \/ /\ Moves(w, "queue") /\ ~TakenByOther(req[w].name, users, req[w].user)
        /\ Wrote(users, users', req[w].user, [name |-> req[w].name, active |-> FALSE])
        /\ UNCHANGED <<profiles, tokens, ringUsers, lastUser, lastRing, signups>>
(* The new account is saved inactive, or its name is no longer its own.    *)
LEMMA DeactivateDoes ==
  ASSUME Inv, NEW w \in Worker, Deactivate(w)
  PROVE  DeactivateEffect(w)
BY EndSteps, GoMoves, PutWrites DEF DeactivateEffect, Deactivate, SaveUser, At, GoOn, Stops, tables, Step

QueueEffect(w) ==
  /\ req[w].at = "queue" /\ Steps(w, "idle")
  /\ UNCHANGED <<users, profiles, tokens, ringUsers, lastUser, lastRing>>
  /\ req[w].user \notin DOMAIN users => UNCHANGED signups
  /\ req[w].user \in DOMAIN users =>
       Wrote(signups, signups', req[w].user,
         [org |-> req[w].org, ringName |-> req[w].ringName, approved |-> FALSE])
(* The signup is put on file if its account still exists.                  *)
LEMMA QueueDoes ==
  ASSUME Inv, NEW w \in Worker, Queue(w)
  PROVE  QueueEffect(w)
BY EndSteps, PutWrites DEF QueueEffect, Queue, At

FindRingEffect(w) ==
  /\ req[w].at = "findRing" /\ UNCHANGED tables
  /\ \/ Stops(w)
     \/ Moves(w, "createRing") /\ Found(w) = {} /\ LegacyWritable
     \/ /\ (LegacyWritable /\ Moves(w, "updateRing")) \/ Moves(w, "linkGet")
        /\ req'[w].ring \in Found(w)
        /\ req'[w].row = ringUsers[req'[w].ring]
(* The lookup of the ring user writes nothing; it decides what is next.    *)
LEMMA FindRingDoes ==
  ASSUME Inv, NEW w \in Worker, FindRing(w)
  PROVE  FindRingEffect(w)
<1> USE DEF FindRingEffect
<1>1. /\ req[w].at = "findRing" /\ UNCHANGED tables /\ UNCHANGED deployment
      /\ req[w] \in Request
  BY RequestsTyped DEF FindRing, At, tables
<1>2. ASSUME NEW r \in Found(w),
             req' = [req EXCEPT ![w].ring = r, ![w].row = ringUsers[r],
                       ![w].at = IF LegacyWritable THEN "updateRing" ELSE "linkGet"]
      PROVE  /\ (LegacyWritable /\ Moves(w, "updateRing")) \/ Moves(w, "linkGet")
             /\ req'[w].ring = r
             /\ req'[w].row = ringUsers[r]
  <2> DEFINE at == IF LegacyWritable THEN "updateRing" ELSE "linkGet"
             row == ringUsers[r]
             q == [req[w] EXCEPT !.ring = r, !.row = row, !.at = at]
  <2>1. r \in DOMAIN ringUsers
    BY DEF Found, Named, Linked
  <2>2. row \in RingRow /\ r \in RingId
    BY <2>1, RingRows DEF Inv, TablesOK, StoreTypeOK
  <2>3. req' = [req EXCEPT ![w] = q] /\ at \in Step
    BY <1>2 DEF Step
  <2> HIDE DEF row
  <2>4. /\ q \in Request /\ q.at = at /\ q.ring = r /\ q.row = row
        /\ q.user = req[w].user /\ q.name = req[w].name /\ q.ringName = req[w].ringName
    <3>1. q \in Request
      BY <1>1, <2>2, <2>3, ZenonT(40) DEF Request, Opt
    <3>2. /\ q.at = at /\ q.ring = r /\ q.row = row
          /\ q.user = req[w].user /\ q.name = req[w].name /\ q.ringName = req[w].ringName
      BY <1>1 DEF Request
    <3> QED BY <3>1, <3>2
  <2> HIDE DEF q
  <2>5. Moves(w, at) /\ req'[w] = q
    BY <1>1, <2>3, <2>4, RequestsTyped DEF Moves, Steps
  <2> QED BY <2>4, <2>5 DEF row
<1>3. CASE Found(w) = {} /\ LegacyWritable /\ Go(w, "createRing")
  BY <1>1, <1>3, GoMoves DEF Step
<1>4. CASE End(w)
  BY <1>1, <1>4, EndSteps DEF Stops
<1> QED BY <1>1, <1>2, <1>3, <1>4 DEF FindRing

(* The name of the ring user that an approval is for.                      *)
RingKey(w) == IF req[w].ringName # None THEN req[w].ringName ELSE req[w].name

CreateRingEffect(w) ==
  LET name == RingKey(w)
      row == [name |-> name, org |-> req[w].org, admin |-> FALSE] IN
  /\ req[w].at = "createRing"
  /\ \/ Stops(w)
     \/ /\ Moves(w, "updateRing") /\ ~Taken(name, ringUsers)
        /\ req'[w].ring = lastRing + 1 /\ req'[w].row = row
        /\ lastRing' = lastRing + 1
        /\ Wrote(ringUsers, ringUsers', lastRing + 1, row)
        /\ UNCHANGED <<users, profiles, tokens, lastUser, signups>>
(* RingUser.objects.create: a new ring user, or the name was taken.        *)
LEMMA CreateRingDoes ==
  ASSUME Inv, NEW w \in Worker, ApproveCreateRing(w)
  PROVE  CreateRingEffect(w)
<1> USE DEF CreateRingEffect
<1> DEFINE name == RingKey(w)
           row == [name |-> name, org |-> req[w].org, admin |-> FALSE]
<1>1. /\ req[w].at = "createRing" /\ UNCHANGED deployment /\ req[w] \in Request
      /\ lastRing \in 0..MaxRing /\ MaxRing \in Nat
      /\ UNCHANGED <<users, profiles, tokens, lastUser, signups>>
  BY StoreAssumption, RequestsTyped
     DEF ApproveCreateRing, CreateRing, At, Inv, TablesOK, StoreTypeOK
<1>2. row \in RingRow
  <2>1. req[w].name \in Name /\ req[w].org \in Org
    BY <1>1 DEF Inv, RequestShape, Shape, HasName, HasOrg
  <2>2. name \in Name
    BY <1>1, <2>1 DEF Request, Opt, RingKey
  <2> QED BY <2>1, <2>2 DEF RingRow
<1>3. \/ End(w) /\ UNCHANGED <<ringUsers, lastRing>>
      \/ /\ ~Taken(name, ringUsers)
         /\ lastRing < MaxRing
         /\ lastRing' = lastRing + 1
         /\ ringUsers' = Put(ringUsers, lastRing', row)
         /\ req' = [req EXCEPT ![w].at = "updateRing", ![w].ring = lastRing', ![w].row = row]
  BY DEF ApproveCreateRing, CreateRing, RingKey
<1> HIDE DEF name, row
<1>4. CASE End(w) /\ UNCHANGED <<ringUsers, lastRing>>
  <2>1. Stops(w)
    BY <1>1, <1>4, EndSteps DEF Stops, tables
  <2> QED BY <1>1, <2>1
<1>5. CASE /\ ~Taken(name, ringUsers)
           /\ lastRing < MaxRing
           /\ lastRing' = lastRing + 1
           /\ ringUsers' = Put(ringUsers, lastRing', row)
           /\ req' = [req EXCEPT ![w].at = "updateRing", ![w].ring = lastRing', ![w].row = row]
  <2> DEFINE q == [req[w] EXCEPT !.at = "updateRing", !.ring = lastRing + 1, !.row = row]
  <2>0. lastRing + 1 \in Opt(RingId) /\ row \in Opt(RingRow)
    BY <1>1, <1>2, <1>5 DEF Opt, RingId
  <2>1. /\ q \in Request /\ q.at = "updateRing" /\ q.ring = lastRing + 1 /\ q.row = row
        /\ q.user = req[w].user /\ q.name = req[w].name /\ q.ringName = req[w].ringName
    BY <1>1, <2>0 DEF Request, Step
  <2>2. req' = [req EXCEPT ![w] = q]
    BY <1>5
  <2> HIDE DEF q
  <2>3. Moves(w, "updateRing") /\ req'[w] = q
    BY <1>1, <2>1, <2>2, RequestsTyped DEF Moves, Steps
  <2>4. Wrote(ringUsers, ringUsers', lastRing + 1, row)
    BY <1>5, PutWrites
  <2> QED BY <1>1, <1>5, <2>1, <2>3, <2>4 DEF name, row
<1> QED BY <1>3, <1>4, <1>5

UpdateRingEffect(w) ==
  /\ req[w].at = "updateRing"
  /\ \/ Stops(w)
     \/ /\ Moves(w, "linkGet") /\ req'[w].ring = req[w].ring
        /\ ~TakenByOther(req[w].row.name, ringUsers, req[w].ring)
        /\ Wrote(ringUsers, ringUsers', req[w].ring,
             [name |-> req[w].row.name, org |-> req[w].org,
              admin |-> req[w].row.admin \/ req[w].role])
        /\ UNCHANGED <<users, profiles, tokens, lastUser, lastRing, signups>>
(* The save of the ring user writes the row this request holds.            *)
LEMMA UpdateRingDoes ==
  ASSUME Inv, NEW w \in Worker, UpdateRing(w)
  PROVE  UpdateRingEffect(w)
BY EndSteps, GoMoves, PutWrites DEF UpdateRingEffect, UpdateRing, At, Stops, tables, Step

LinkGetEffect(w) ==
  /\ req[w].at = "linkGet"
  /\ UNCHANGED <<users, tokens, ringUsers, lastUser, lastRing, signups>>
  /\ \/ Stops(w)
     \/ /\ Moves(w, "linkSave") /\ req'[w].ring = req[w].ring
        /\ \/ req[w].user \in DOMAIN profiles /\ UNCHANGED profiles
           \/ /\ req[w].user \in DOMAIN users \ DOMAIN profiles
              /\ Wrote(profiles, profiles', req[w].user,
                       [ring |-> req[w].ring, pdb |-> None])
(* get_or_create of the profile: a new one is linked at once.              *)
LEMMA LinkGetDoes ==
  ASSUME Inv, NEW w \in Worker, ApproveLinkGet(w)
  PROVE  LinkGetEffect(w)
<1> USE DEF LinkGetEffect
<1>1. /\ req[w].at = "linkGet" /\ UNCHANGED deployment /\ req[w] \in Request
      /\ UNCHANGED <<users, tokens, ringUsers, lastUser, lastRing, signups>>
      /\ profiles \in Table(UserId, ProfileRow)
  BY RequestsTyped DEF ApproveLinkGet, LinkGet, At, Inv, TablesOK, StoreTypeOK
<1>2. CASE End(w) /\ UNCHANGED profiles
  BY <1>1, <1>2, EndSteps DEF Stops, tables
<1>3. CASE /\ req[w].user \in DOMAIN profiles
           /\ req' = [req EXCEPT ![w].at = "linkSave",
                        ![w].pdb = IF @ = None THEN profiles[req[w].user].pdb ELSE @]
           /\ UNCHANGED profiles
  <2> DEFINE pdb == IF req[w].pdb = None THEN profiles[req[w].user].pdb ELSE req[w].pdb
             q == [req[w] EXCEPT !.at = "linkSave", !.pdb = pdb]
  <2>1. pdb \in Opt(Pdb)
    <3>1. profiles[req[w].user] \in ProfileRow
      BY <1>1, <1>3, ProfileRows
    <3> QED BY <1>1, <3>1 DEF ProfileRow, Request
  <2>2. req' = [req EXCEPT ![w] = q]
    BY <1>1, <1>3
  <2> HIDE DEF pdb
  <2>3. /\ q \in Request /\ q.at = "linkSave" /\ q.ring = req[w].ring
        /\ q.user = req[w].user /\ q.name = req[w].name /\ q.ringName = req[w].ringName
    BY <1>1, <2>1 DEF Request, Step
  <2> HIDE DEF q
  <2>4. Moves(w, "linkSave") /\ req'[w] = q
    BY <1>1, <2>2, <2>3, RequestsTyped DEF Moves, Steps
  <2> QED BY <1>1, <1>3, <2>3, <2>4
<1>4. CASE /\ req[w].user \in DOMAIN users \ DOMAIN profiles
           /\ profiles' = Put(profiles, req[w].user, [ring |-> req[w].ring, pdb |-> None])
           /\ Go(w, "linkSave")
  BY <1>1, <1>4, GoMoves, PutWrites DEF Step
<1> QED BY <1>2, <1>3, <1>4 DEF ApproveLinkGet, LinkGet

LinkSaveEffect(w) ==
  /\ req[w].at = "linkSave"
  /\ UNCHANGED <<users, tokens, ringUsers, lastUser, lastRing, signups>>
  /\ \/ Stops(w)
     \/ /\ Moves(w, "activate") /\ req[w].user \in DOMAIN users /\ req'[w].ring = req[w].ring
        /\ Wrote(profiles, profiles', req[w].user,
                 [ring |-> req[w].ring, pdb |-> req[w].pdb])
(* The save of the profile links the account to the held ring user.        *)
LEMMA LinkSaveDoes ==
  ASSUME Inv, NEW w \in Worker, ApproveLinkSave(w)
  PROVE  LinkSaveEffect(w)
BY EndSteps, GoMoves, PutWrites DEF LinkSaveEffect, ApproveLinkSave, LinkSave, At, Stops, tables, Step

ActivateEffect(w) ==
  /\ req[w].at = "activate"
  /\ \/ Stops(w)
     \/ /\ Moves(w, "token") /\ ~TakenByOther(req[w].name, users, req[w].user)
        /\ Wrote(users, users', req[w].user, [name |-> req[w].name, active |-> TRUE])
        /\ UNCHANGED <<profiles, tokens, ringUsers, lastUser, lastRing, signups>>
(* The account is saved active, or its name is no longer its own.          *)
LEMMA ActivateDoes ==
  ASSUME Inv, NEW w \in Worker, Activate(w)
  PROVE  ActivateEffect(w)
BY EndSteps, GoMoves, PutWrites DEF ActivateEffect, Activate, SaveUser, At, GoOn, Stops, tables, Step

TokenEffect(w) ==
  /\ req[w].at = "token"
  /\ \/ Stops(w) /\ req[w].user \notin DOMAIN users
     \/ /\ Moves(w, "finish") /\ req[w].user \in DOMAIN users
        /\ tokens' = tokens \union {req[w].user}
        /\ UNCHANGED <<users, profiles, ringUsers, lastUser, lastRing, signups>>
(* The token is issued, or the account is gone.                            *)
LEMMA TokenDoes ==
  ASSUME Inv, NEW w \in Worker, ApproveToken(w)
  PROVE  TokenEffect(w)
BY EndSteps, GoMoves DEF TokenEffect, ApproveToken, IssueToken, At, GoOn, Stops, tables, Step

FinishEffect(w) ==
  /\ req[w].at = "finish" /\ Steps(w, "idle")
  /\ UNCHANGED <<users, profiles, tokens, ringUsers, lastUser, lastRing>>
  /\ req[w].user \notin DOMAIN users => UNCHANGED signups
  /\ req[w].user \in DOMAIN users =>
       Wrote(signups, signups', req[w].user,
         [org |-> req[w].org, ringName |-> req[w].ringName, approved |-> TRUE])
(* The signup is marked approved if its account still exists.              *)
LEMMA FinishDoes ==
  ASSUME Inv, NEW w \in Worker, FinishApproval(w)
  PROVE  FinishEffect(w)
BY EndSteps, PutWrites DEF FinishEffect, FinishApproval, At

RejectUserEffect(w) ==
  /\ req[w].at = "deleteUser" /\ Moves(w, "deleteSignup")
  /\ Erased(users, users', req[w].user)
  /\ Erased(profiles, profiles', req[w].user)
  /\ Erased(signups, signups', req[w].user)
  /\ tokens' = tokens \ {req[w].user}
  /\ UNCHANGED <<ringUsers, lastUser, lastRing>>
(* The delete of the user takes the rows with it that point at it.         *)
LEMMA RejectUserDoes ==
  ASSUME Inv, NEW w \in Worker, RejectUser(w)
  PROVE  RejectUserEffect(w)
BY GoMoves, WithoutErases DEF RejectUserEffect, RejectUser, DeleteUser, At, Step

RejectSignupEffect(w) ==
  /\ req[w].at = "deleteSignup" /\ Steps(w, "idle")
  /\ Erased(signups, signups', req[w].user)
  /\ UNCHANGED <<users, profiles, tokens, ringUsers, lastUser, lastRing>>
(* The delete of the signup removes what is left of it.                    *)
LEMMA RejectSignupDoes ==
  ASSUME Inv, NEW w \in Worker, RejectSignup(w)
  PROVE  RejectSignupEffect(w)
BY EndSteps, WithoutErases DEF RejectSignupEffect, RejectSignup, At

DieEffect(w) ==
  Stops(w) /\ Faults
(* A request that dies writes nothing more.                                *)
LEMMA DieDoes ==
  ASSUME Inv, NEW w \in Worker, RequestDies(w)
  PROVE  DieEffect(w)
BY EndSteps DEF DieEffect, RequestDies, Die, Stops, tables

DestroyEffect(r) ==
  /\ r \in Removable /\ LegacyWritable /\ UNCHANGED <<req, deployment>>
  /\ Erased(ringUsers, ringUsers', r)
  /\ UNCHANGED <<users, profiles, tokens, lastUser, lastRing, signups>>
(* The API deletes one ring user, where its database can be written.       *)
LEMMA DestroyDoes ==
  ASSUME Inv, NEW r \in RingId, RingUserDestroyed(r)
  PROVE  DestroyEffect(r)
BY WithoutErases DEF DestroyEffect, RingUserDestroyed, DestroyRingUser

(* What a behaviour finds around it does not change.                       *)
LEMMA SameSite ==
  ASSUME UNCHANGED deployment
  PROVE  UNCHANGED <<Site, LegacyWritable, Faults, Rejects, Removable, OneAdmin, ApprovalsAreSafe>>
BY DEF Site, LegacyWritable, Faults, Rejects, Removable, OneAdmin, ApprovalsAreSafe

-----------------------------------------------------------------------------
Approving(at) ==
  at \in {"findRing", "createRing", "updateRing", "linkGet", "linkSave",
          "activate", "token", "finish"}
Rejecting(at) == at \in {"deleteUser", "deleteSignup"}

(* Only admins approve and reject, and only behind legacy_writable() does  *)
(* an approval come to the statements that write the ring database.        *)
May(w, at) ==
  /\ Approving(at) \/ Rejecting(at) => w \in Site.workers \intersect Admin
  /\ Rejecting(at) => Rejects
  /\ at \in {"createRing", "updateRing"} => LegacyWritable

Roles == \A w \in Worker : May(w, req[w].at)

(* A step to a statement that its worker may be at keeps Roles.            *)
LEMMA RolesStep ==
  ASSUME Roles, NEW w \in Worker, NEW step, Steps(w, step), May(w, step)
  PROVE  Roles'
<1>1. \A v \in Worker : May(v, req'[v].at)
  BY DEF Roles, Steps
<1>2. \A v \in Worker : \A at : May(v, at)' <=> May(v, at)
  BY SameSite DEF May, Steps
<1> QED BY <1>1, <1>2 DEF Roles, May

(* Every action of signup keeps Roles.                                     *)
LEMMA RolesKept == Inv /\ Roles /\ [Next]_vars => Roles'
<1> SUFFICES ASSUME Inv, Roles, [Next]_vars PROVE Roles'
  OBVIOUS
<1> USE DEF Approving, Rejecting
<1>1. CASE UNCHANGED vars
  BY <1>1, SameSite DEF vars, storeVars, Roles, May
<1>2. ASSUME NEW w \in Visitor, VisitorBegins(w) PROVE Roles'
  <2>1. Steps(w, "createUser") /\ w \in Worker
    BY <1>2, SubmitDoes DEF SubmitEffect, VisitorBegins, Worker
  <2> QED BY <2>1, RolesStep DEF May
<1>3. ASSUME NEW w \in Admin, AdminBegins(w) PROVE Roles'
  <2>1. ASSUME NEW u \in UserId, NEW role \in BOOLEAN, OpenApproval(w, u, role) PROVE Roles'
    <3>1. Steps(w, "findRing") /\ w \in Worker /\ w \in Site.workers
      BY <2>1, OpenApprovalDoes DEF OpenApprovalEffect, Worker
    <3> QED BY <3>1, RolesStep DEF May
  <2>2. ASSUME NEW u \in UserId, OpenRejection(w, u) PROVE Roles'
    <3>1. Steps(w, "deleteUser") /\ w \in Worker /\ w \in Site.workers /\ Rejects
      BY <2>2, OpenRejectionDoes DEF OpenRejectionEffect, Worker
    <3> QED BY <3>1, RolesStep DEF May
  <2> QED BY <1>3, <2>1, <2>2 DEF AdminBegins
<1>4. ASSUME NEW w \in Worker, Continue(w) PROVE Roles'
  <2>1. May(w, req[w].at)
    BY DEF Roles
  <2>2. CASE SignupCreateUser(w) \/ Deactivate(w) \/ Queue(w)
    <3>1. Steps(w, "idle") \/ Steps(w, "deactivate") \/ Steps(w, "queue")
      BY <2>2, CreateUserDoes, DeactivateDoes, QueueDoes DEF CreateUserEffect, DeactivateEffect, QueueEffect, Stops, Moves
    <3> QED BY <3>1, RolesStep DEF May
  <2>3. CASE FindRing(w)
    <3>1. /\ req[w].at = "findRing"
          /\ \/ Steps(w, "idle") \/ Steps(w, "linkGet")
             \/ LegacyWritable /\ (Steps(w, "createRing") \/ Steps(w, "updateRing"))
      BY <2>3, FindRingDoes DEF FindRingEffect, Stops, Moves
    <3> QED BY <2>1, <3>1, RolesStep DEF May
  <2>4. CASE ApproveCreateRing(w) \/ UpdateRing(w)
    <3>1. /\ req[w].at \in {"createRing", "updateRing"}
          /\ Steps(w, "idle") \/ Steps(w, "updateRing") \/ Steps(w, "linkGet")
      BY <2>4, CreateRingDoes, UpdateRingDoes DEF CreateRingEffect, UpdateRingEffect, Stops, Moves
    <3> QED BY <2>1, <3>1, RolesStep DEF May
  <2>5. CASE ApproveLinkGet(w) \/ ApproveLinkSave(w) \/ Activate(w) \/ ApproveToken(w)
    <3>1. /\ req[w].at \in {"linkGet", "linkSave", "activate", "token"}
          /\ \/ Steps(w, "idle") \/ Steps(w, "linkSave") \/ Steps(w, "activate")
             \/ Steps(w, "token") \/ Steps(w, "finish")
      BY <2>5, LinkGetDoes, LinkSaveDoes, ActivateDoes, TokenDoes DEF LinkGetEffect, LinkSaveEffect, ActivateEffect, TokenEffect, Stops, Moves
    <3> QED BY <2>1, <3>1, RolesStep DEF May
  <2>6. CASE FinishApproval(w) \/ RejectUser(w) \/ RejectSignup(w)
    <3>1. /\ req[w].at \in {"finish", "deleteUser", "deleteSignup"}
          /\ \/ Steps(w, "idle")
             \/ req[w].at = "deleteUser" /\ Steps(w, "deleteSignup")
      BY <2>6, FinishDoes, RejectUserDoes, RejectSignupDoes DEF FinishEffect, RejectUserEffect, RejectSignupEffect, Moves
    <3> QED BY <2>1, <3>1, RolesStep DEF May
  <2> QED BY <1>4, <2>2, <2>3, <2>4, <2>5, <2>6 DEF Continue
<1>5. ASSUME NEW w \in Worker, RequestDies(w) PROVE Roles'
  <2>1. Steps(w, "idle")
    BY <1>5, DieDoes DEF DieEffect, Stops
  <2> QED BY <2>1, RolesStep DEF May
<1>6. ASSUME NEW r \in RingId, RingUserDestroyed(r) PROVE Roles'
  BY <1>6, DestroyDoes, SameSite DEF DestroyEffect, Roles, May
<1> QED BY <1>1, <1>2, <1>3, <1>4, <1>5, <1>6 DEF Next

(***************************************************************************)
(* Where the ring database is read-only, no handler of signup writes to    *)
(* it, whatever a request saw before another one acted.                    *)
(***************************************************************************)
THEOREM ReadOnlyHolds == Spec => ReadOnlyIsRespected
<1>1. Init => Roles
  <2> SUFFICES ASSUME Init PROVE Roles
    OBVIOUS
  <2>1. \A w \in Worker : req[w].at = "idle"
    BY IdleIsRequest DEF Init, StoreInit
  <2> QED BY <2>1 DEF Roles, May, Approving, Rejecting
<1>2. Inv /\ Roles /\ [Next]_vars =>
        [~LegacyWritable => UNCHANGED <<ringUsers, lastRing>>]_vars
  <2> SUFFICES ASSUME Inv, Roles, Next, ~LegacyWritable
               PROVE  UNCHANGED <<ringUsers, lastRing>>
    OBVIOUS
  <2>1. ASSUME NEW w \in Worker, Continue(w) PROVE UNCHANGED <<ringUsers, lastRing>>
    <3>1. CASE ApproveCreateRing(w) \/ UpdateRing(w)
      BY <3>1, CreateRingDoes, UpdateRingDoes DEF CreateRingEffect, UpdateRingEffect, Roles, May
    <3> QED BY <2>1, <3>1 DEF Continue, SignupCreateUser, CreateUser, Deactivate, SaveUser, Queue,
         FindRing, ApproveLinkGet, LinkGet, ApproveLinkSave, LinkSave, Activate, ApproveToken,
         IssueToken, FinishApproval, RejectUser, DeleteUser, RejectSignup
  <2>2. ASSUME NEW w \in Visitor, VisitorBegins(w) PROVE UNCHANGED <<ringUsers, lastRing>>
    BY <2>2 DEF VisitorBegins, SubmitSignup
  <2>3. ASSUME NEW w \in Admin, AdminBegins(w) PROVE UNCHANGED <<ringUsers, lastRing>>
    BY <2>3 DEF AdminBegins, OpenApproval, OpenRejection
  <2>4. ASSUME NEW w \in Worker, RequestDies(w) PROVE UNCHANGED <<ringUsers, lastRing>>
    BY <2>4 DEF RequestDies, Die
  <2>5. ASSUME NEW r \in RingId, RingUserDestroyed(r) PROVE FALSE
    BY <2>5, DestroyDoes DEF DestroyEffect
  <2> QED BY <2>1, <2>2, <2>3, <2>4, <2>5 DEF Next
<1> QED BY <1>1, <1>2, InitEstablishesInv, NextKeepsInv, RolesKept, PTL
        DEF Spec, ReadOnlyIsRespected

-----------------------------------------------------------------------------
(* Where approvals are safe, none runs beside a rejection.                 *)
LEMMA NoneRejects ==
  ASSUME Roles, ApprovalsAreSafe, NEW w \in Worker, Rejecting(req[w].at)
  PROVE  \A v \in Worker : ~Approving(req[v].at)
<1> SUFFICES ASSUME NEW v \in Worker, Approving(req[v].at) PROVE FALSE
  OBVIOUS
<1>1. Rejects /\ v \in Site.workers \intersect Admin /\ w \in Site.workers \intersect Admin
  BY DEF Roles, May
<1>2. v = w
  BY <1>1 DEF ApprovalsAreSafe, OneAdmin
<1> QED BY <1>2 DEF Approving, Rejecting

(* What an approval has done by each of its statements, and every          *)
(* finished one: the profile is there, the token is there.                 *)
Completing ==
  /\ \A w \in Worker :
       /\ req[w].at \in {"linkSave", "activate", "token", "finish"} =>
            req[w].user \in DOMAIN profiles
       /\ req[w].at = "finish" => req[w].user \in tokens
  /\ \A u \in DOMAIN signups : Approved(u) => u \in DOMAIN profiles /\ u \in tokens

(* Every action keeps Completing where no rejection runs beside it.        *)
LEMMA CompletingKept ==
  ASSUME Inv, Roles, ApprovalsAreSafe, Completing, [Next]_vars
  PROVE  Completing'
<1> USE DEF Approved
<1>1. CASE UNCHANGED vars
  BY <1>1 DEF vars, storeVars, Completing
<1>2. ASSUME NEW w \in Visitor, VisitorBegins(w) PROVE Completing'
  <2>1. Steps(w, "createUser") /\ w \in Worker /\ UNCHANGED tables
    BY <1>2, SubmitDoes DEF SubmitEffect, VisitorBegins, Worker
  <2> QED BY <2>1 DEF Completing, Steps, tables
<1>3. ASSUME NEW w \in Admin, AdminBegins(w) PROVE Completing'
  <2>1. w \in Worker /\ UNCHANGED tables /\ (Steps(w, "findRing") \/ Steps(w, "deleteUser"))
    BY <1>3, OpenApprovalDoes, OpenRejectionDoes DEF OpenApprovalEffect, OpenRejectionEffect, AdminBegins, Worker
  <2> QED BY <2>1 DEF Completing, Steps, tables
<1>4. ASSUME NEW w \in Worker, Stops(w) PROVE Completing'
  BY <1>4 DEF Completing, Stops, Steps, tables
<1>5. ASSUME NEW w \in Worker, Continue(w), ~Stops(w) PROVE Completing'
  <2>1. CASE SignupCreateUser(w) \/ Deactivate(w)
    <3>1. /\ Steps(w, "deactivate") \/ Steps(w, "queue")
          /\ UNCHANGED <<profiles, tokens, signups>>
      BY <1>5, <2>1, CreateUserDoes, DeactivateDoes DEF CreateUserEffect, DeactivateEffect, Moves
    <3> QED BY <3>1 DEF Completing, Steps
  <2>2. CASE Queue(w)
    <3>1. QueueEffect(w)
      BY <2>2, QueueDoes
    <3> QED BY <3>1 DEF QueueEffect, Completing, Steps, Wrote
  <2>3. CASE FindRing(w) \/ ApproveCreateRing(w) \/ UpdateRing(w)
    <3>1. /\ \/ Steps(w, "createRing") \/ Steps(w, "updateRing") \/ Steps(w, "linkGet")
          /\ UNCHANGED <<profiles, tokens, signups>>
      BY <1>5, <2>3, FindRingDoes, CreateRingDoes, UpdateRingDoes DEF FindRingEffect, CreateRingEffect, UpdateRingEffect, Moves, tables
    <3> QED BY <3>1 DEF Completing, Steps
  <2>4. CASE ApproveLinkGet(w)
    <3>1. LinkGetEffect(w)
      BY <2>4, LinkGetDoes
    <3> QED BY <1>5, <3>1 DEF LinkGetEffect, Completing, Moves, Steps, Wrote
  <2>5. CASE ApproveLinkSave(w)
    <3>1. LinkSaveEffect(w)
      BY <2>5, LinkSaveDoes
    <3> QED BY <1>5, <3>1 DEF LinkSaveEffect, Completing, Moves, Steps, Wrote
  <2>6. CASE Activate(w)
    <3>1. ActivateEffect(w)
      BY <2>6, ActivateDoes
    <3> QED BY <1>5, <3>1 DEF ActivateEffect, Completing, Moves, Steps
  <2>7. CASE ApproveToken(w)
    <3>1. TokenEffect(w)
      BY <2>7, TokenDoes
    <3> QED BY <1>5, <3>1 DEF TokenEffect, Completing, Moves, Steps
  <2>8. CASE FinishApproval(w)
    <3>1. FinishEffect(w)
      BY <2>8, FinishDoes
    <3> QED BY <3>1 DEF FinishEffect, Completing, Steps, Wrote
  <2>9. CASE RejectUser(w)
    <3>1. \A v \in Worker : ~Approving(req[v].at)
      BY <2>9, RejectUserDoes, NoneRejects DEF RejectUserEffect, Rejecting
    <3>2. RejectUserEffect(w)
      BY <2>9, RejectUserDoes
    <3> QED BY <3>1, <3>2 DEF RejectUserEffect, Completing, Approving, Moves, Steps, Erased
  <2>10. CASE RejectSignup(w)
    <3>1. RejectSignupEffect(w)
      BY <2>10, RejectSignupDoes
    <3> QED BY <3>1 DEF RejectSignupEffect, Completing, Steps, Erased
  <2> QED BY <1>5, <2>1, <2>2, <2>3, <2>4, <2>5, <2>6, <2>7, <2>8, <2>9, <2>10 DEF Continue
<1>6. ASSUME NEW w \in Worker, RequestDies(w) PROVE Completing'
  BY <1>4, <1>6, DieDoes DEF DieEffect
<1>7. ASSUME NEW r \in RingId, RingUserDestroyed(r) PROVE Completing'
  <2>1. UNCHANGED <<profiles, tokens, signups, req>>
    BY <1>7, DestroyDoes DEF DestroyEffect
  <2> QED BY <2>1 DEF Completing
<1> QED BY <1>1, <1>2, <1>3, <1>4, <1>5, <1>6, <1>7 DEF Next

(* No action changes the deployment.                                       *)
LEMMA NextSameSite == [Next]_vars => UNCHANGED deployment
BY DEF Next, vars, storeVars, VisitorBegins, SubmitSignup, AdminBegins, OpenApproval,
   OpenRejection, Continue, SignupCreateUser, CreateUser, Deactivate, SaveUser, Queue,
   FindRing, ApproveCreateRing, CreateRing, UpdateRing, ApproveLinkGet, LinkGet,
   ApproveLinkSave, LinkSave, Activate, ApproveToken, IssueToken, FinishApproval,
   RejectUser, DeleteUser, RejectSignup, RequestDies, Die, RingUserDestroyed, DestroyRingUser

(* No request is running at first.                                         *)
LEMMA AllIdle == ASSUME Init PROVE \A w \in Worker : req[w] = Idle /\ req[w].at = "idle"
BY IdleIsRequest DEF Init, StoreInit

(* There are no accounts, profiles and signups at first.                   *)
LEMMA NoRows == ASSUME Init PROVE DOMAIN users = {} /\ DOMAIN profiles = {} /\ DOMAIN signups = {}
BY EmptyTable DEF Init, StoreInit

(* Roles holds at first: nobody is at any statement.                       *)
LEMMA InitEstablishesRoles == Init => Roles
<1> SUFFICES ASSUME Init PROVE Roles
  OBVIOUS
<1> QED BY AllIdle DEF Roles, May, Approving, Rejecting

(***************************************************************************)
(* Where no rejection runs beside an approval, a signup marked approved    *)
(* has an active account that is linked and has its token, however many    *)
(* approvals of it ran at once, or died and were repeated.                 *)
(***************************************************************************)
THEOREM ApprovalsAreComplete == Spec => []ApprovedIsComplete
<1> DEFINE Safe == Inv /\ Roles /\ (ApprovalsAreSafe => Completing)
<1>1. Init => Safe
  <2> SUFFICES ASSUME Init PROVE Safe
    OBVIOUS
  <2>1. Completing
    BY AllIdle, NoRows DEF Completing
  <2> QED BY <2>1, InitEstablishesInv, InitEstablishesRoles
<1>2. Safe /\ [Next]_vars => Safe'
  <2> SUFFICES ASSUME Safe, [Next]_vars PROVE Safe'
    OBVIOUS
  <2>1. ApprovalsAreSafe' <=> ApprovalsAreSafe
    BY NextSameSite, SameSite
  <2> QED BY <2>1, NextKeepsInv, RolesKept, CompletingKept
<1>3. Safe => ApprovedIsComplete
  BY DEF Inv, ApprovedIsActive, Completing, ApprovedIsComplete
<1> QED BY <1>1, <1>2, <1>3, PTL DEF Spec

-----------------------------------------------------------------------------
(***************************************************************************)
(* Who is served is on file.  It is not inductive: the approvals that link *)
(* accounts and issue tokens must be about signups that are still there,   *)
(* and a rejection at its last statement about an account that is not.     *)
(***************************************************************************)
Serving ==
  /\ \A u \in tokens \union DOMAIN profiles : u \in DOMAIN signups
  /\ \A w \in Worker :
       /\ Approving(req[w].at) => req[w].user \in DOMAIN signups
       /\ req[w].at = "deleteSignup" => req[w].user \notin tokens \union DOMAIN profiles

(* A step within an approval, or one that ends a request, links or serves  *)
(* only the account it is about.                                           *)
LEMMA ServingQuiet ==
  ASSUME Serving, NEW w \in Worker, NEW step, Steps(w, step), step # "deleteSignup",
         DOMAIN signups \subseteq DOMAIN signups',
         Approving(step) => req'[w].user \in DOMAIN signups',
         UNCHANGED <<tokens, profiles>>
  PROVE  Serving'
BY DEF Serving, Steps

(* An approval that is on its way gives its own account a profile or a     *)
(* token, and no rejection is at its last statement meanwhile.             *)
LEMMA ServingGrows ==
  ASSUME Roles, ApprovalsAreSafe, Serving, NEW w \in Worker, NEW step, Moves(w, step),
         Approving(req[w].at), Approving(step), UNCHANGED signups,
         tokens' \union DOMAIN profiles' \subseteq
           (tokens \union DOMAIN profiles) \union {req[w].user}
  PROVE  Serving'
<1>1. \A v \in Worker : ~Rejecting(req[v].at)
  BY NoneRejects
<1>2. \A v \in Worker : req'[v].at # "deleteSignup"
  BY <1>1 DEF Moves, Steps, Approving, Rejecting
<1>3. \A v \in Worker : Approving(req'[v].at) => req'[v].user \in DOMAIN signups'
  BY DEF Serving, Moves, Steps
<1> QED BY <1>2, <1>3 DEF Serving

(* Every action keeps Serving where no rejection runs beside an approval.  *)
LEMMA ServingKept ==
  ASSUME Inv, Roles, ApprovalsAreSafe, Serving, [Next]_vars
  PROVE  Serving'
<1>1. CASE UNCHANGED vars
  BY <1>1 DEF vars, storeVars, Serving
<1>2. ASSUME NEW w \in Visitor, VisitorBegins(w) PROVE Serving'
  <2>1. Steps(w, "createUser") /\ w \in Worker /\ UNCHANGED tables
    BY <1>2, SubmitDoes DEF SubmitEffect, VisitorBegins, Worker
  <2> QED BY <2>1, ServingQuiet DEF tables, Approving
<1>3. ASSUME NEW w \in Admin, AdminBegins(w) PROVE Serving'
  <2>1. w \in Worker
    BY DEF Worker
  <2>2. ASSUME NEW u \in UserId, NEW role \in BOOLEAN, OpenApproval(w, u, role) PROVE Serving'
    <3>1. Steps(w, "findRing") /\ UNCHANGED tables /\ Pending(u) /\ req'[w].user = u
      BY <2>1, <2>2, OpenApprovalDoes DEF OpenApprovalEffect
    <3> QED BY <2>1, <3>1, ServingQuiet DEF tables, Pending
  <2>3. ASSUME NEW u \in UserId, OpenRejection(w, u) PROVE Serving'
    <3>1. Steps(w, "deleteUser") /\ UNCHANGED tables
      BY <2>1, <2>3, OpenRejectionDoes DEF OpenRejectionEffect
    <3> QED BY <2>1, <3>1, ServingQuiet DEF tables, Approving
  <2> QED BY <1>3, <2>2, <2>3 DEF AdminBegins
<1>4. ASSUME NEW w \in Worker, Stops(w) PROVE Serving'
  BY <1>4, ServingQuiet DEF Stops, tables, Approving
<1>5. ASSUME NEW w \in Worker, Continue(w), ~Stops(w) PROVE Serving'
  <2>1. CASE SignupCreateUser(w) \/ Deactivate(w)
    <3>1. /\ Steps(w, "deactivate") \/ Steps(w, "queue")
          /\ UNCHANGED <<profiles, tokens, signups>>
      BY <1>5, <2>1, CreateUserDoes, DeactivateDoes DEF CreateUserEffect, DeactivateEffect, Moves
    <3> QED BY <3>1, ServingQuiet DEF Approving
  <2>2. CASE Queue(w) \/ FinishApproval(w)
    <3>1. /\ Steps(w, "idle") /\ UNCHANGED <<profiles, tokens>>
          /\ DOMAIN signups \subseteq DOMAIN signups'
      BY <2>2, QueueDoes, FinishDoes DEF QueueEffect, FinishEffect, Wrote
    <3> QED BY <3>1, ServingQuiet DEF Approving
  <2>3. CASE FindRing(w) \/ ApproveCreateRing(w) \/ UpdateRing(w)
    <3>1. /\ Moves(w, "createRing") \/ Moves(w, "updateRing") \/ Moves(w, "linkGet")
          /\ Approving(req[w].at) /\ UNCHANGED <<profiles, tokens, signups>>
      BY <1>5, <2>3, FindRingDoes, CreateRingDoes, UpdateRingDoes
         DEF FindRingEffect, CreateRingEffect, UpdateRingEffect, tables, Approving
    <3> QED BY <3>1, ServingGrows DEF Approving
  <2>4. CASE ApproveLinkGet(w) \/ ApproveLinkSave(w)
    <3>1. /\ Moves(w, "linkSave") \/ Moves(w, "activate")
          /\ Approving(req[w].at) /\ UNCHANGED <<tokens, signups>>
          /\ DOMAIN profiles' \subseteq DOMAIN profiles \union {req[w].user}
      BY <1>5, <2>4, LinkGetDoes, LinkSaveDoes DEF LinkGetEffect, LinkSaveEffect, Wrote, Approving
    <3> QED BY <3>1, ServingGrows DEF Approving
  <2>5. CASE Activate(w) \/ ApproveToken(w)
    <3>1. /\ Moves(w, "token") \/ Moves(w, "finish")
          /\ Approving(req[w].at) /\ UNCHANGED <<profiles, signups>>
          /\ tokens' \subseteq tokens \union {req[w].user}
      BY <1>5, <2>5, ActivateDoes, TokenDoes DEF ActivateEffect, TokenEffect, Approving
    <3> QED BY <3>1, ServingGrows DEF Approving
  <2>6. CASE RejectUser(w)
    <3>1. RejectUserEffect(w)
      BY <2>6, RejectUserDoes
    <3>2. \A v \in Worker : ~Approving(req[v].at)
      BY <3>1, NoneRejects DEF RejectUserEffect, Rejecting
    <3> QED BY <3>1, <3>2 DEF RejectUserEffect, Serving, Moves, Steps, Erased, Approving
  <2>7. CASE RejectSignup(w)
    <3>1. RejectSignupEffect(w)
      BY <2>7, RejectSignupDoes
    <3>2. \A v \in Worker : ~Approving(req[v].at)
      BY <3>1, NoneRejects DEF RejectSignupEffect, Rejecting
    <3> QED BY <3>1, <3>2 DEF RejectSignupEffect, Serving, Steps, Erased, Approving
  <2> QED BY <1>5, <2>1, <2>2, <2>3, <2>4, <2>5, <2>6, <2>7 DEF Continue
<1>6. ASSUME NEW w \in Worker, RequestDies(w) PROVE Serving'
  BY <1>4, <1>6, DieDoes DEF DieEffect
<1>7. ASSUME NEW r \in RingId, RingUserDestroyed(r) PROVE Serving'
  BY <1>7, DestroyDoes DEF DestroyEffect, Serving
<1> QED BY <1>1, <1>2, <1>3, <1>4, <1>5, <1>6, <1>7 DEF Next

(***************************************************************************)
(* Where no rejection runs beside an approval, an account with a token or  *)
(* a link to a ring user always has its signup, wherever requests died.    *)
(***************************************************************************)
THEOREM ServedAccountsAreOnFile == Spec => []ServedAreOnFile
<1> DEFINE Safe == Inv /\ Roles /\ (ApprovalsAreSafe => Serving)
<1>1. Init => Safe
  <2> SUFFICES ASSUME Init PROVE Safe
    OBVIOUS
  <2>1. Serving
    BY AllIdle, NoRows DEF Serving, Approving, Init, StoreInit
  <2> QED BY <2>1, InitEstablishesInv, InitEstablishesRoles
<1>2. Safe /\ [Next]_vars => Safe'
  <2> SUFFICES ASSUME Safe, [Next]_vars PROVE Safe'
    OBVIOUS
  <2>1. ApprovalsAreSafe' <=> ApprovalsAreSafe
    BY NextSameSite, SameSite
  <2> QED BY <2>1, NextKeepsInv, RolesKept, ServingKept
<1>3. Safe => ServedAreOnFile
  BY DEF Serving, ServedAreOnFile
<1> QED BY <1>1, <1>2, <1>3, PTL DEF Spec

-----------------------------------------------------------------------------
(***************************************************************************)
(* Without deaths, an account is being created, or has its signup; it is   *)
(* active only on its way to be marked approved.  That it is inactive when *)
(* signup ends rests on deactivation not failing, and so on usernames      *)
(* being unique; that an approval which activates the account also marks   *)
(* it rests on nothing deleting the account meanwhile.                     *)
(***************************************************************************)
OnFile ==
  /\ \A u \in DOMAIN users :
       u \in DOMAIN signups \/ \E w \in Worker : Creating(req[w].at) /\ req[w].user = u
  /\ \A u, x \in DOMAIN users : users[u].name = users[x].name => u = x
  /\ \A w \in Worker :
       /\ Creating(req[w].at) => req[w].user \in DOMAIN users
       /\ req[w].at = "deactivate" => users[req[w].user].name = req[w].name
       /\ req[w].at = "queue" => ~users[req[w].user].active
       /\ Approving(req[w].at) => req[w].user \in DOMAIN signups
       /\ req[w].at = "deleteSignup" => req[w].user \notin DOMAIN users

Vetting ==
  \A u \in DOMAIN users \intersect DOMAIN signups :
    users[u].active /\ ~signups[u].approved =>
      \E w \in Worker : req[w].at \in {"token", "finish"} /\ req[w].user = u

(* Without deaths, the only statements that can fail under an account that *)
(* is on its way are those that would find it gone.                        *)
LEMMA StopsOnlyBefore ==
  ASSUME Inv, Roles, ApprovalsAreSafe, OnFile, NEW w \in Worker, Continue(w), Stops(w),
         ~Queue(w), ~FinishApproval(w), ~RejectSignup(w)
  PROVE  ~Creating(req[w].at) /\ req[w].at \notin {"token", "finish", "deleteSignup"}
<1>1. CASE Deactivate(w)
  <2>1. TakenByOther(req[w].name, users, req[w].user) /\ req[w].at = "deactivate"
    BY <1>1, DeactivateDoes DEF DeactivateEffect, Stops, Moves, Steps
  <2>2. PICK x \in DOMAIN users \ {req[w].user} : users[x].name = req[w].name
    BY <2>1, TakenByOtherIs
  <2> QED BY <2>1, <2>2 DEF OnFile, Creating
<1>2. CASE ApproveToken(w)
  <2>1. req[w].user \notin DOMAIN users /\ req[w].at = "token"
    BY <1>2, TokenDoes DEF TokenEffect, Stops, Moves, Steps
  <2> QED BY <2>1 DEF OnFile, Approving, Inv, Referential
<1>3. CASE RejectUser(w)
  BY <1>3, RejectUserDoes DEF RejectUserEffect, Creating
<1>4. CASE SignupCreateUser(w) \/ FindRing(w) \/ ApproveCreateRing(w) \/ UpdateRing(w)
  BY <1>4, CreateUserDoes, FindRingDoes, CreateRingDoes, UpdateRingDoes
     DEF CreateUserEffect, FindRingEffect, CreateRingEffect, UpdateRingEffect, Creating
<1>5. CASE ApproveLinkGet(w) \/ ApproveLinkSave(w) \/ Activate(w)
  BY <1>5, LinkGetDoes, LinkSaveDoes, ActivateDoes
     DEF LinkGetEffect, LinkSaveEffect, ActivateEffect, Creating
<1> QED BY <1>1, <1>2, <1>3, <1>4, <1>5 DEF Continue

(* A request that stops, or moves within an approval, changes no account.  *)
LEMMA OnFileQuiet ==
  ASSUME OnFile, NEW w \in Worker, NEW step, Steps(w, step),
         UNCHANGED <<users, signups>>,
         ~Creating(req[w].at), ~Creating(step), step # "deleteSignup",
         Approving(step) => req'[w].user \in DOMAIN signups
  PROVE  OnFile'
<1>1. \A v \in Worker : Creating(req[v].at) => req'[v] = req[v]
  BY DEF Steps
<1>2. \A u \in DOMAIN users' : \/ u \in DOMAIN signups'
                               \/ \E v \in Worker : Creating(req'[v].at) /\ req'[v].user = u
  BY <1>1 DEF OnFile
<1>3. \A u, x \in DOMAIN users' : users'[u].name = users'[x].name => u = x
  BY DEF OnFile
<1>4. \A v \in Worker :
       /\ Creating(req'[v].at) => req'[v].user \in DOMAIN users'
       /\ req'[v].at = "deactivate" => users'[req'[v].user].name = req'[v].name
       /\ req'[v].at = "queue" => ~users'[req'[v].user].active
       /\ Approving(req'[v].at) => req'[v].user \in DOMAIN signups'
       /\ req'[v].at = "deleteSignup" => req'[v].user \notin DOMAIN users'
  BY DEF OnFile, Steps, Creating
<1> QED BY <1>2, <1>3, <1>4 DEF OnFile

(* Without deaths, every action keeps OnFile.                              *)
LEMMA OnFileKept ==
  ASSUME Inv, Roles, ApprovalsAreSafe, ~Faults, OnFile, [Next]_vars
  PROVE  OnFile'
<1>1. CASE UNCHANGED vars
  BY <1>1 DEF vars, storeVars, OnFile
<1>2. ASSUME NEW w \in Visitor, VisitorBegins(w) PROVE OnFile'
  <2>1. SubmitEffect(w) /\ w \in Worker
    BY <1>2, SubmitDoes DEF VisitorBegins, Worker
  <2> QED BY <2>1, OnFileQuiet DEF SubmitEffect, tables, Creating, Approving
<1>3. ASSUME NEW w \in Admin, AdminBegins(w) PROVE OnFile'
  <2>1. w \in Worker
    BY DEF Worker
  <2>2. ASSUME NEW u \in UserId, NEW role \in BOOLEAN, OpenApproval(w, u, role) PROVE OnFile'
    <3>1. OpenApprovalEffect(w, u)
      BY <2>1, <2>2, OpenApprovalDoes
    <3> QED BY <2>1, <3>1, OnFileQuiet
            DEF OpenApprovalEffect, Pending, tables, Creating, Approving
  <2>3. ASSUME NEW u \in UserId, OpenRejection(w, u) PROVE OnFile'
    <3>1. OpenRejectionEffect(w)
      BY <2>1, <2>3, OpenRejectionDoes
    <3> QED BY <2>1, <3>1, OnFileQuiet DEF OpenRejectionEffect, tables, Creating, Approving
  <2> QED BY <1>3, <2>2, <2>3 DEF AdminBegins
<1>4. ASSUME NEW w \in Worker, Continue(w) PROVE OnFile'
  <2>1. CASE SignupCreateUser(w) /\ ~Stops(w)
    <3>1. CreateUserEffect(w) /\ ~Stops(w)
      BY <2>1, CreateUserDoes
    <3> DEFINE k == lastUser + 1
    <3>2. /\ Steps(w, "deactivate") /\ ~Taken(req[w].name, users) /\ req[w].at = "createUser"
          /\ req'[w].user = k /\ req'[w].name = req[w].name
          /\ Wrote(users, users', k, [name |-> req[w].name, active |-> TRUE])
          /\ UNCHANGED signups
      BY <3>1 DEF CreateUserEffect
    <3>3. /\ k \notin DOMAIN users
          /\ \A v \in Worker : HasUser(req[v].at) => req[v].user # k
      BY DEF Inv, Referential, RequestShape, Shape, TablesOK, StoreTypeOK, UserId
    <3> HIDE DEF k
    <3>4. \A u \in DOMAIN users' : \/ u \in DOMAIN signups'
                                   \/ \E v \in Worker : Creating(req'[v].at) /\ req'[v].user = u
      <4>1. \A v \in Worker : Creating(req[v].at) => req'[v] = req[v]
        BY <3>2 DEF Steps, Creating
      <4>2. Creating(req'[w].at) /\ req'[w].user = k
        BY <3>2 DEF Steps, Creating
      <4> QED BY <3>2, <4>1, <4>2 DEF OnFile, Wrote
    <3>5. \A u, x \in DOMAIN users' : users'[u].name = users'[x].name => u = x
      BY <3>2, <3>3 DEF OnFile, Wrote, Taken
    <3>6. \A v \in Worker :
       /\ Creating(req'[v].at) => req'[v].user \in DOMAIN users'
       /\ req'[v].at = "deactivate" => users'[req'[v].user].name = req'[v].name
       /\ req'[v].at = "queue" => ~users'[req'[v].user].active
       /\ Approving(req'[v].at) => req'[v].user \in DOMAIN signups'
       /\ req'[v].at = "deleteSignup" => req'[v].user \notin DOMAIN users'
      BY <3>2, <3>3 DEF OnFile, Steps, Creating, Approving, HasUser, Wrote
    <3> QED BY <3>4, <3>5, <3>6 DEF OnFile
  <2>2. CASE Deactivate(w) /\ ~Stops(w)
    <3>1. DeactivateEffect(w) /\ ~Stops(w)
      BY <2>2, DeactivateDoes
    <3> DEFINE k == req[w].user
    <3>2. /\ Moves(w, "queue") /\ req[w].at = "deactivate"
          /\ Wrote(users, users', k, [name |-> req[w].name, active |-> FALSE])
          /\ UNCHANGED signups
      BY <3>1 DEF DeactivateEffect
    <3>3. /\ k \in DOMAIN users /\ users[k].name = req[w].name /\ users'[k].name = req[w].name
          /\ DOMAIN users' = DOMAIN users /\ \A x \in DOMAIN users : users'[x].name = users[x].name
      <4>1. k \in DOMAIN users /\ users[k].name = req[w].name
        BY <3>2 DEF OnFile, Creating
      <4> QED BY <3>2, <4>1 DEF Wrote
    <3>4. \A v \in Worker \ {w} : HasUser(req[v].at) => req[v].user # k
      BY <3>2 DEF Inv, CreatorIsAlone, Creating
    <3>5. \A u \in DOMAIN users' : \/ u \in DOMAIN signups'
                                   \/ \E v \in Worker : Creating(req'[v].at) /\ req'[v].user = u
      <4>1. \A v \in Worker : Creating(req[v].at) => Creating(req'[v].at) /\ req'[v].user = req[v].user
        BY <3>2 DEF Moves, Steps, Creating
      <4> QED BY <3>2, <3>3, <4>1 DEF OnFile
    <3>6. \A u, x \in DOMAIN users' : users'[u].name = users'[x].name => u = x
      BY <3>3 DEF OnFile
    <3>7. \A v \in Worker :
       /\ Creating(req'[v].at) => req'[v].user \in DOMAIN users'
       /\ req'[v].at = "deactivate" => users'[req'[v].user].name = req'[v].name
       /\ req'[v].at = "queue" => ~users'[req'[v].user].active
       /\ Approving(req'[v].at) => req'[v].user \in DOMAIN signups'
       /\ req'[v].at = "deleteSignup" => req'[v].user \notin DOMAIN users'
      BY <3>2, <3>3, <3>4 DEF OnFile, Moves, Steps, Creating, Approving, HasUser, Wrote
    <3> QED BY <3>5, <3>6, <3>7 DEF OnFile
  <2>3. CASE Queue(w)
    <3>1. QueueEffect(w)
      BY <2>3, QueueDoes
    <3> DEFINE k == req[w].user
    <3>2. /\ Steps(w, "idle") /\ req[w].at = "queue" /\ UNCHANGED users
          /\ DOMAIN signups' = DOMAIN signups \union {k}
      BY <3>1 DEF QueueEffect, OnFile, Creating, Wrote
    <3>3. \A u \in DOMAIN users' : \/ u \in DOMAIN signups'
                                   \/ \E v \in Worker : Creating(req'[v].at) /\ req'[v].user = u
      <4>1. \A v \in Worker \ {w} : Creating(req[v].at) => Creating(req'[v].at) /\ req'[v].user = req[v].user
        BY <3>2 DEF Steps, Creating
      <4> QED BY <3>2, <4>1 DEF OnFile
    <3> QED BY <3>2, <3>3 DEF OnFile, Steps, Creating, Approving
  <2>4. CASE FindRing(w) \/ ApproveCreateRing(w) \/ UpdateRing(w)
    <3>1. /\ Approving(req[w].at) /\ UNCHANGED <<users, signups>>
          /\ \/ Steps(w, "idle") \/ Moves(w, "createRing") \/ Moves(w, "updateRing")
             \/ Moves(w, "linkGet")
      BY <2>4, FindRingDoes, CreateRingDoes, UpdateRingDoes
         DEF FindRingEffect, CreateRingEffect, UpdateRingEffect, Stops, tables, Approving
    <3> QED BY <3>1, OnFileQuiet DEF Moves, OnFile, Creating, Approving
  <2>5. CASE ApproveLinkGet(w) \/ ApproveLinkSave(w) \/ ApproveToken(w)
    <3>1. /\ Approving(req[w].at) /\ UNCHANGED <<users, signups>>
          /\ \/ Steps(w, "idle") \/ Moves(w, "linkSave") \/ Moves(w, "activate")
             \/ Moves(w, "finish")
      BY <2>5, LinkGetDoes, LinkSaveDoes, TokenDoes
         DEF LinkGetEffect, LinkSaveEffect, TokenEffect, Stops, tables, Approving
    <3> QED BY <3>1, OnFileQuiet DEF Moves, OnFile, Creating, Approving
  <2>6. CASE Activate(w) /\ ~Stops(w)
    <3>1. ActivateEffect(w) /\ ~Stops(w)
      BY <2>6, ActivateDoes
    <3> DEFINE k == req[w].user
    <3>2. /\ Moves(w, "token") /\ req[w].at = "activate"
          /\ ~TakenByOther(req[w].name, users, k)
          /\ Wrote(users, users', k, [name |-> req[w].name, active |-> TRUE])
          /\ UNCHANGED signups
      BY <3>1 DEF ActivateEffect
    <3>3. /\ k \in DOMAIN signups /\ k \in DOMAIN users /\ DOMAIN users' = DOMAIN users
          /\ \A v \in Worker : Creating(req[v].at) => req[v].user # k
      <4>1. k \in DOMAIN signups
        BY <3>2 DEF OnFile, Approving, Moves
      <4> QED BY <3>2, <4>1 DEF Inv, Referential, CreatorIsAlone, Wrote
    <3>4. \A v \in Worker : Creating(req[v].at) <=> Creating(req'[v].at)
      BY <3>2 DEF Moves, Steps, Creating
    <3>5. \A v \in Worker : req'[v].user = req[v].user /\ req'[v].name = req[v].name
      BY <3>2 DEF Moves, Steps
    <3>6. \A u, x \in DOMAIN users' : users'[u].name = users'[x].name => u = x
      BY <3>2, <3>3, TakenByOtherIs DEF OnFile, Wrote
    <3>7. \A v \in Worker :
       /\ Creating(req'[v].at) => req'[v].user \in DOMAIN users'
       /\ req'[v].at = "deactivate" => users'[req'[v].user].name = req'[v].name
       /\ req'[v].at = "queue" => ~users'[req'[v].user].active
       /\ Approving(req'[v].at) => req'[v].user \in DOMAIN signups'
       /\ req'[v].at = "deleteSignup" => req'[v].user \notin DOMAIN users'
      BY <3>2, <3>3, <3>5 DEF OnFile, Moves, Steps, Creating, Approving, Wrote
    <3>8. \A u \in DOMAIN users' : \/ u \in DOMAIN signups'
                                   \/ \E v \in Worker : Creating(req'[v].at) /\ req'[v].user = u
      BY <3>2, <3>3, <3>4, <3>5 DEF OnFile
    <3> QED BY <3>6, <3>7, <3>8 DEF OnFile
  <2>7. CASE FinishApproval(w)
    <3>1. FinishEffect(w)
      BY <2>7, FinishDoes
    <3>2. /\ Steps(w, "idle") /\ req[w].at = "finish" /\ UNCHANGED users
          /\ DOMAIN signups' = DOMAIN signups
      BY <3>1 DEF FinishEffect, OnFile, Approving, Wrote
    <3>3. \A v \in Worker : Creating(req[v].at) => req'[v] = req[v]
      BY <3>2 DEF Steps, Creating
    <3>4. \A u \in DOMAIN users' : \/ u \in DOMAIN signups'
                                   \/ \E v \in Worker : Creating(req'[v].at) /\ req'[v].user = u
      BY <3>2, <3>3 DEF OnFile
    <3> QED BY <3>2, <3>4 DEF OnFile, Steps, Creating, Approving
  <2>8. CASE RejectUser(w)
    <3>1. RejectUserEffect(w)
      BY <2>8, RejectUserDoes
    <3> DEFINE k == req[w].user
    <3>2. /\ Moves(w, "deleteSignup") /\ req[w].at = "deleteUser"
          /\ Erased(users, users', k) /\ Erased(signups, signups', k)
      BY <3>1 DEF RejectUserEffect
    <3>3. \A v \in Worker : ~Approving(req[v].at)
      BY <3>2, NoneRejects DEF Rejecting
    <3>4. \A v \in Worker : Creating(req[v].at) => req[v].user # k /\ req'[v] = req[v]
      BY <3>2 DEF Inv, CreatorIsAlone, Creating, HasUser, Moves, Steps
    <3>5. \A u \in DOMAIN users' : \/ u \in DOMAIN signups'
                                   \/ \E v \in Worker : Creating(req'[v].at) /\ req'[v].user = u
      BY <3>2, <3>4 DEF OnFile, Erased
    <3>6. \A u, x \in DOMAIN users' : users'[u].name = users'[x].name => u = x
      BY <3>2 DEF OnFile, Erased
    <3>7. \A v \in Worker :
       /\ Creating(req'[v].at) => req'[v].user \in DOMAIN users'
       /\ req'[v].at = "deactivate" => users'[req'[v].user].name = req'[v].name
       /\ req'[v].at = "queue" => ~users'[req'[v].user].active
       /\ Approving(req'[v].at) => req'[v].user \in DOMAIN signups'
       /\ req'[v].at = "deleteSignup" => req'[v].user \notin DOMAIN users'
      BY <3>2, <3>3, <3>4 DEF OnFile, Moves, Steps, Creating, Approving, Erased
    <3> QED BY <3>5, <3>6, <3>7 DEF OnFile
  <2>9. CASE RejectSignup(w)
    <3>1. RejectSignupEffect(w)
      BY <2>9, RejectSignupDoes
    <3> DEFINE k == req[w].user
    <3>2. /\ Steps(w, "idle") /\ req[w].at = "deleteSignup"
          /\ UNCHANGED users /\ Erased(signups, signups', k)
      BY <3>1 DEF RejectSignupEffect
    <3>3. \A v \in Worker : ~Approving(req[v].at)
      BY <3>2, NoneRejects DEF Rejecting
    <3>4. k \notin DOMAIN users /\ \A v \in Worker : Creating(req[v].at) => req'[v] = req[v]
      BY <3>2 DEF OnFile, Creating, Steps
    <3>5. \A u \in DOMAIN users' : \/ u \in DOMAIN signups'
                                   \/ \E v \in Worker : Creating(req'[v].at) /\ req'[v].user = u
      BY <3>2, <3>4 DEF OnFile, Erased
    <3> QED BY <3>2, <3>3, <3>5 DEF OnFile, Steps, Creating, Approving
  <2>10. CASE Stops(w) /\ ~Queue(w) /\ ~FinishApproval(w) /\ ~RejectSignup(w)
    <3>1. ~Creating(req[w].at)
      BY <1>4, <2>10, StopsOnlyBefore
    <3> QED BY <2>10, <3>1, OnFileQuiet DEF Stops, tables, Creating, Approving
  <2> QED BY <1>4, <2>1, <2>2, <2>3, <2>4, <2>5, <2>6, <2>7, <2>8, <2>9, <2>10 DEF Continue
<1>5. ASSUME NEW w \in Worker, RequestDies(w) PROVE FALSE
  BY <1>5, DieDoes DEF DieEffect
<1>6. ASSUME NEW r \in RingId, RingUserDestroyed(r) PROVE OnFile'
  BY <1>6, DestroyDoes DEF DestroyEffect, OnFile
<1> QED BY <1>1, <1>2, <1>3, <1>4, <1>5, <1>6 DEF Next

(* Where nothing about accounts and signups changes, Vetting only needs    *)
(* that no approval about to mark its signup goes away.                    *)
LEMMA VettingQuiet ==
  ASSUME Vetting, NEW w \in Worker, NEW step, Steps(w, step),
         UNCHANGED <<users, signups>>,
         req[w].at \notin {"token", "finish"}
  PROVE  Vetting'
<1>1. \A v \in Worker : req[v].at \in {"token", "finish"} => req'[v] = req[v]
  BY DEF Steps
<1> QED BY <1>1 DEF Vetting

(* Without deaths, every action keeps Vetting.                             *)
LEMMA VettingKept ==
  ASSUME Inv, Roles, ApprovalsAreSafe, ~Faults, OnFile, Vetting, [Next]_vars
  PROVE  Vetting'
<1>1. CASE UNCHANGED vars
  BY <1>1 DEF vars, storeVars, Vetting
<1>2. ASSUME NEW w \in Visitor, VisitorBegins(w) PROVE Vetting'
  <2>1. SubmitEffect(w) /\ w \in Worker
    BY <1>2, SubmitDoes DEF VisitorBegins, Worker
  <2> QED BY <2>1, VettingQuiet DEF SubmitEffect, tables
<1>3. ASSUME NEW w \in Admin, AdminBegins(w) PROVE Vetting'
  <2>1. /\ w \in Worker /\ req[w].at = "idle" /\ UNCHANGED tables
        /\ Steps(w, "findRing") \/ Steps(w, "deleteUser")
    BY <1>3, OpenApprovalDoes, OpenRejectionDoes
       DEF AdminBegins, Worker, OpenApprovalEffect, OpenRejectionEffect
  <2> QED BY <2>1, VettingQuiet DEF tables
<1>4. ASSUME NEW w \in Worker, Continue(w) PROVE Vetting'
  <2>1. CASE SignupCreateUser(w) /\ ~Stops(w)
    <3>1. CreateUserEffect(w) /\ ~Stops(w)
      BY <2>1, CreateUserDoes
    <3> DEFINE k == lastUser + 1
    <3>2. /\ Steps(w, "deactivate") /\ req[w].at = "createUser"
          /\ Wrote(users, users', k, [name |-> req[w].name, active |-> TRUE])
          /\ UNCHANGED signups
      BY <3>1 DEF CreateUserEffect
    <3>3. k \notin DOMAIN signups
      BY DEF Inv, Referential, RequestShape, Shape, TablesOK, StoreTypeOK, UserId
    <3>4. \A v \in Worker : req[v].at \in {"token", "finish"} => req'[v] = req[v]
      BY <3>2 DEF Steps
    <3> HIDE DEF k
    <3> QED BY <3>2, <3>3, <3>4 DEF Vetting, Wrote
  <2>2. CASE Deactivate(w) /\ ~Stops(w)
    <3>1. DeactivateEffect(w) /\ ~Stops(w)
      BY <2>2, DeactivateDoes
    <3> DEFINE k == req[w].user
    <3>2. /\ Moves(w, "queue") /\ req[w].at = "deactivate"
          /\ Wrote(users, users', k, [name |-> req[w].name, active |-> FALSE])
          /\ UNCHANGED signups
      BY <3>1 DEF DeactivateEffect
    <3>3. k \notin DOMAIN signups
      BY <3>2 DEF Inv, CreatorIsAlone, Creating
    <3>4. \A v \in Worker : req[v].at \in {"token", "finish"} => req'[v] = req[v]
      BY <3>2 DEF Moves, Steps
    <3> HIDE DEF k
    <3> QED BY <3>2, <3>3, <3>4 DEF Vetting, Wrote
  <2>3. CASE Queue(w)
    <3>1. QueueEffect(w)
      BY <2>3, QueueDoes
    <3> DEFINE k == req[w].user
    <3>2. /\ Steps(w, "idle") /\ req[w].at = "queue" /\ UNCHANGED users
          /\ DOMAIN signups' = DOMAIN signups \union {k}
          /\ \A x \in DOMAIN signups : x # k => signups'[x] = signups[x]
      BY <3>1 DEF QueueEffect, OnFile, Creating, Wrote
    <3>3. ~users[k].active
      BY <3>2 DEF OnFile
    <3>4. \A v \in Worker : req[v].at \in {"token", "finish"} => req'[v] = req[v]
      BY <3>2 DEF Steps
    <3> HIDE DEF k
    <3> QED BY <3>2, <3>3, <3>4 DEF Vetting
  <2>4. CASE FindRing(w) \/ ApproveCreateRing(w) \/ UpdateRing(w)
    <3>1. /\ req[w].at \in {"findRing", "createRing", "updateRing"}
          /\ UNCHANGED <<users, signups>>
          /\ \/ Steps(w, "idle") \/ Moves(w, "createRing") \/ Moves(w, "updateRing")
             \/ Moves(w, "linkGet")
      BY <2>4, FindRingDoes, CreateRingDoes, UpdateRingDoes
         DEF FindRingEffect, CreateRingEffect, UpdateRingEffect, Stops, tables
    <3> QED BY <3>1, VettingQuiet DEF Moves
  <2>5. CASE ApproveLinkGet(w) \/ ApproveLinkSave(w)
    <3>1. /\ req[w].at \in {"linkGet", "linkSave"} /\ UNCHANGED <<users, signups>>
          /\ \/ Steps(w, "idle") \/ Moves(w, "linkSave") \/ Moves(w, "activate")
      BY <2>5, LinkGetDoes, LinkSaveDoes DEF LinkGetEffect, LinkSaveEffect, Stops, tables
    <3> QED BY <3>1, VettingQuiet DEF Moves
  <2>6. CASE Activate(w) /\ ~Stops(w)
    <3>1. ActivateEffect(w) /\ ~Stops(w)
      BY <2>6, ActivateDoes
    <3> DEFINE k == req[w].user
    <3>2. /\ Moves(w, "token")
          /\ Wrote(users, users', k, [name |-> req[w].name, active |-> TRUE])
          /\ UNCHANGED signups /\ req[w].at = "activate"
      BY <3>1 DEF ActivateEffect
    <3>3. req'[w].at = "token" /\ req'[w].user = k
      BY <3>2 DEF Moves, Steps
    <3>4. \A v \in Worker : req[v].at \in {"token", "finish"} => req'[v] = req[v]
      BY <3>2 DEF Moves, Steps
    <3> HIDE DEF k
    <3> QED BY <3>2, <3>3, <3>4 DEF Vetting, Wrote
  <2>7. CASE ApproveToken(w) /\ ~Stops(w)
    <3>1. TokenEffect(w) /\ ~Stops(w)
      BY <2>7, TokenDoes
    <3>2. Moves(w, "finish") /\ UNCHANGED <<users, signups>>
      BY <3>1 DEF TokenEffect
    <3>3. \A v \in Worker : req[v].at \in {"token", "finish"} =>
            req'[v].at \in {"token", "finish"} /\ req'[v].user = req[v].user
      BY <3>2 DEF Moves, Steps
    <3> QED BY <3>2, <3>3 DEF Vetting
  <2>8. CASE FinishApproval(w)
    <3>1. FinishEffect(w)
      BY <2>8, FinishDoes
    <3> DEFINE k == req[w].user
    <3>2. /\ Steps(w, "idle") /\ UNCHANGED users
          /\ DOMAIN signups' = DOMAIN signups
          /\ signups'[k].approved
          /\ \A x \in DOMAIN signups : x # k => signups'[x] = signups[x]
      <4>1. k \in DOMAIN signups /\ k \in DOMAIN users
        BY <3>1 DEF FinishEffect, OnFile, Approving, Inv, Referential
      <4> QED BY <3>1, <4>1 DEF FinishEffect, Wrote
    <3>3. \A v \in Worker : req[v].at \in {"token", "finish"} =>
            req'[v] = req[v] \/ req[v].user = k
      BY <3>2 DEF Steps
    <3> HIDE DEF k
    <3> QED BY <3>2, <3>3 DEF Vetting
  <2>9. CASE RejectUser(w)
    <3>1. RejectUserEffect(w)
      BY <2>9, RejectUserDoes
    <3>2. /\ Moves(w, "deleteSignup") /\ req[w].at = "deleteUser"
          /\ Erased(users, users', req[w].user) /\ Erased(signups, signups', req[w].user)
      BY <3>1 DEF RejectUserEffect
    <3>3. \A v \in Worker : req[v].at \in {"token", "finish"} => req'[v] = req[v]
      BY <3>2 DEF Moves, Steps
    <3> QED BY <3>2, <3>3 DEF Vetting, Erased
  <2>10. CASE RejectSignup(w)
    <3>1. RejectSignupEffect(w)
      BY <2>10, RejectSignupDoes
    <3>2. /\ Steps(w, "idle") /\ req[w].at = "deleteSignup"
          /\ UNCHANGED users /\ Erased(signups, signups', req[w].user)
      BY <3>1 DEF RejectSignupEffect
    <3>3. \A v \in Worker : req[v].at \in {"token", "finish"} => req'[v] = req[v]
      BY <3>2 DEF Steps
    <3> QED BY <3>2, <3>3 DEF Vetting, Erased
  <2>11. CASE Stops(w) /\ ~Queue(w) /\ ~FinishApproval(w) /\ ~RejectSignup(w)
    <3>1. req[w].at \notin {"token", "finish"}
      BY <1>4, <2>11, StopsOnlyBefore
    <3> QED BY <2>11, <3>1, VettingQuiet DEF Stops, tables
  <2> QED BY <1>4, <2>1, <2>2, <2>3, <2>4, <2>5, <2>6, <2>7, <2>8, <2>9, <2>10, <2>11 DEF Continue
<1>5. ASSUME NEW w \in Worker, RequestDies(w) PROVE FALSE
  BY <1>5, DieDoes DEF DieEffect
<1>6. ASSUME NEW r \in RingId, RingUserDestroyed(r) PROVE Vetting'
  BY <1>6, DestroyDoes DEF DestroyEffect, Vetting
<1> QED BY <1>1, <1>2, <1>3, <1>4, <1>5, <1>6 DEF Next

(***************************************************************************)
(* Where requests do not die and no rejection runs beside an approval,     *)
(* whenever no request is running every account is on file and active      *)
(* exactly if it was approved.                                             *)
(***************************************************************************)
THEOREM AccountsAreVetted == Spec => []QuiescentIsVetted
<1> DEFINE Vetted == Inv /\ Roles /\ (ApprovalsAreSafe /\ ~Faults => OnFile /\ Vetting)
<1>1. Init => Vetted
  <2> SUFFICES ASSUME Init PROVE Vetted
    OBVIOUS
  <2>1. OnFile /\ Vetting
    BY AllIdle, NoRows DEF OnFile, Vetting, Creating, Approving
  <2> QED BY <2>1, InitEstablishesInv, InitEstablishesRoles
<1>2. Vetted /\ [Next]_vars => Vetted'
  <2> SUFFICES ASSUME Vetted, [Next]_vars PROVE Vetted'
    OBVIOUS
  <2>1. (ApprovalsAreSafe' <=> ApprovalsAreSafe) /\ (Faults' <=> Faults)
    BY NextSameSite, SameSite
  <2> QED BY <2>1, NextKeepsInv, RolesKept, OnFileKept, VettingKept
<1>3. Vetted => QuiescentIsVetted
  <2> SUFFICES ASSUME Vetted, ApprovalsAreSafe, ~Faults, Quiescent, NEW u \in DOMAIN users
               PROVE  u \in DOMAIN signups /\ (users[u].active <=> signups[u].approved)
    BY DEF QuiescentIsVetted
  <2>1. \A w \in Worker : req[w].at = "idle"
    BY IdleIsRequest DEF Quiescent
  <2>2. u \in DOMAIN signups
    BY <2>1 DEF OnFile, Creating
  <2>3. users[u].active => signups[u].approved
    BY <2>1, <2>2 DEF Vetting
  <2>4. signups[u].approved => users[u].active
    BY <2>2 DEF Inv, ApprovedIsActive, Approved, Usable
  <2>5. users[u].active \in BOOLEAN /\ signups[u].approved \in BOOLEAN
    <3>1. users[u] \in UserRow /\ signups[u] \in SignupRow
      BY <2>2, UserRows, SignupRows DEF Inv, TablesOK, StoreTypeOK
    <3> QED BY <3>1 DEF UserRow, SignupRow
  <2> QED BY <2>2, <2>3, <2>4, <2>5
<1> QED BY <1>1, <1>2, <1>3, PTL DEF Spec

-----------------------------------------------------------------------------
(***************************************************************************)
(* LinkIsStable.  The save of the profile writes the ring user that this   *)
(* approval found or created.  That it is the one the account has already  *)
(* is a matter of names: everything an approval touches carries the name   *)
(* it is for, and no two ring users have the same name.                    *)
(***************************************************************************)
Holding(at) == at \in {"updateRing", "linkGet", "linkSave"}

(* Ring usernames are unique; pks are handed out in order, and where no    *)
(* ring user can be deleted those that are referred to are there.          *)
Rings ==
  /\ \A r, x \in DOMAIN ringUsers : ringUsers[r].name = ringUsers[x].name => r = x
  /\ DOMAIN ringUsers \subseteq 1..lastRing
  /\ \A u \in DOMAIN profiles :
       /\ profiles[u].ring \in 1..lastRing
       /\ Removable = {} => profiles[u].ring \in DOMAIN ringUsers
  /\ \A w \in Worker :
       Holding(req[w].at) =>
         /\ req[w].ring \in 1..lastRing
         /\ Removable = {} => req[w].ring \in DOMAIN ringUsers

(* A step that changes no ring user and no link keeps Rings.               *)
LEMMA RingsQuiet ==
  ASSUME Rings, NEW w \in Worker, NEW step, Steps(w, step),
         UNCHANGED <<profiles, ringUsers, lastRing>>,
         Holding(step) => /\ req'[w].ring \in 1..lastRing
                          /\ Removable = {} => req'[w].ring \in DOMAIN ringUsers
  PROVE  Rings'
<1>1. Removable' = Removable
  BY SameSite DEF Steps
<1> QED BY <1>1 DEF Rings, Steps

(* Linking to the ring user that the request holds keeps Rings.            *)
LEMMA RingsLinked ==
  ASSUME Rings, NEW w \in Worker, NEW step, Steps(w, step),
         NEW pdb, Holding(req[w].at),
         Wrote(profiles, profiles', req[w].user, [ring |-> req[w].ring, pdb |-> pdb]),
         UNCHANGED <<ringUsers, lastRing>>,
         Holding(step) => req'[w].ring = req[w].ring
  PROVE  Rings'
<1>1. Removable' = Removable
  BY SameSite DEF Steps
<1>2. /\ req[w].ring \in 1..lastRing
      /\ Removable = {} => req[w].ring \in DOMAIN ringUsers
  BY DEF Rings
<1>3. \A u \in DOMAIN profiles' :
        /\ profiles'[u].ring \in 1..lastRing
        /\ Removable = {} => profiles'[u].ring \in DOMAIN ringUsers
  BY <1>2 DEF Rings, Wrote
<1>4. \A v \in Worker :
       Holding(req'[v].at) =>
         /\ req'[v].ring \in 1..lastRing
         /\ Removable = {} => req'[v].ring \in DOMAIN ringUsers
  BY <1>2 DEF Rings, Steps
<1> QED BY <1>1, <1>3, <1>4 DEF Rings

(* Every action keeps Rings.                                               *)
LEMMA RingsKept ==
  ASSUME Inv, Rings, [Next]_vars
  PROVE  Rings'
<1>0. lastRing \in Nat
  BY DEF Inv, TablesOK, StoreTypeOK
<1>1. CASE UNCHANGED vars
  BY <1>1, SameSite DEF vars, storeVars, Rings
<1>2. ASSUME NEW w \in Visitor, VisitorBegins(w) PROVE Rings'
  <2>1. SubmitEffect(w) /\ w \in Worker
    BY <1>2, SubmitDoes DEF VisitorBegins, Worker
  <2> QED BY <2>1, RingsQuiet DEF SubmitEffect, tables, Holding
<1>3. ASSUME NEW w \in Admin, AdminBegins(w) PROVE Rings'
  <2>1. /\ w \in Worker /\ UNCHANGED tables
        /\ Steps(w, "findRing") \/ Steps(w, "deleteUser")
    BY <1>3, OpenApprovalDoes, OpenRejectionDoes
       DEF AdminBegins, Worker, OpenApprovalEffect, OpenRejectionEffect
  <2> QED BY <2>1, RingsQuiet DEF tables, Holding
<1>4. ASSUME NEW w \in Worker, Stops(w) PROVE Rings'
  BY <1>4, RingsQuiet DEF Stops, tables, Holding
<1>5. ASSUME NEW w \in Worker, Continue(w), ~Stops(w) PROVE Rings'
  <2>1. CASE SignupCreateUser(w) \/ Deactivate(w) \/ Queue(w)
    <3>1. /\ Steps(w, "deactivate") \/ Steps(w, "queue") \/ Steps(w, "idle")
          /\ UNCHANGED <<profiles, ringUsers, lastRing>>
      BY <1>5, <2>1, CreateUserDoes, DeactivateDoes, QueueDoes
         DEF CreateUserEffect, DeactivateEffect, QueueEffect, Moves
    <3> QED BY <3>1, RingsQuiet DEF Holding
  <2>2. CASE FindRing(w)
    <3>1. FindRingEffect(w)
      BY <2>2, FindRingDoes
    <3>2. CASE Moves(w, "createRing")
      BY <3>1, <3>2, RingsQuiet DEF FindRingEffect, tables, Moves, Holding
    <3>3. CASE ~Moves(w, "createRing")
      <4>1. /\ Steps(w, "updateRing") \/ Steps(w, "linkGet")
            /\ req'[w].ring \in DOMAIN ringUsers
            /\ UNCHANGED tables
        BY <1>5, <3>1, <3>3 DEF FindRingEffect, Moves, Found, Named, Linked
      <4>2. req'[w].ring \in 1..lastRing
        BY <4>1 DEF Rings
      <4> QED BY <4>1, <4>2, RingsQuiet DEF tables
    <3> QED BY <3>2, <3>3
  <2>3. CASE ApproveCreateRing(w)
    <3>1. CreateRingEffect(w)
      BY <2>3, CreateRingDoes
    <3> DEFINE k == lastRing + 1
               row == [name |-> RingKey(w), org |-> req[w].org, admin |-> FALSE]
    <3>2. /\ Steps(w, "updateRing") /\ ~Taken(RingKey(w), ringUsers)
          /\ req'[w].ring = k /\ lastRing' = k
          /\ Wrote(ringUsers, ringUsers', k, row)
          /\ UNCHANGED profiles
      BY <1>5, <3>1 DEF CreateRingEffect, Moves
    <3>3. /\ Removable' = Removable /\ row.name = RingKey(w) /\ k \in 1..k
          /\ \A x \in 1..lastRing : x \in 1..k /\ x # k
      BY <1>0, <3>2, SameSite DEF Steps
    <3> HIDE DEF k, row
    <3>4. \A r, x \in DOMAIN ringUsers' : ringUsers'[r].name = ringUsers'[x].name => r = x
      BY <3>2, <3>3 DEF Rings, Wrote, Taken
    <3>5. DOMAIN ringUsers' \subseteq 1..k /\ DOMAIN ringUsers \subseteq DOMAIN ringUsers'
          /\ k \in DOMAIN ringUsers'
      BY <3>2, <3>3 DEF Rings, Wrote
    <3>6. \A u \in DOMAIN profiles' :
            /\ profiles'[u].ring \in 1..k
            /\ Removable = {} => profiles'[u].ring \in DOMAIN ringUsers'
      BY <3>2, <3>3, <3>5 DEF Rings
    <3>7. \A v \in Worker :
           Holding(req'[v].at) =>
             /\ req'[v].ring \in 1..k
             /\ Removable = {} => req'[v].ring \in DOMAIN ringUsers'
      BY <3>2, <3>3, <3>5 DEF Rings, Steps
    <3> QED BY <3>2, <3>3, <3>4, <3>5, <3>6, <3>7 DEF Rings
  <2>4. CASE UpdateRing(w)
    <3>1. UpdateRingEffect(w)
      BY <2>4, UpdateRingDoes
    <3> DEFINE k == req[w].ring
               row == [name |-> req[w].row.name, org |-> req[w].org,
                       admin |-> req[w].row.admin \/ req[w].role]
    <3>2. /\ Steps(w, "linkGet") /\ req[w].at = "updateRing" /\ req'[w].ring = k
          /\ ~TakenByOther(req[w].row.name, ringUsers, k)
          /\ Wrote(ringUsers, ringUsers', k, row)
          /\ UNCHANGED <<profiles, lastRing>>
      BY <1>5, <3>1 DEF UpdateRingEffect, Moves
    <3>3. /\ Removable' = Removable /\ row.name = req[w].row.name /\ k \in 1..lastRing
      BY <3>2, SameSite DEF Steps, Rings, Holding
    <3> HIDE DEF k, row
    <3>4. \A r, x \in DOMAIN ringUsers' : ringUsers'[r].name = ringUsers'[x].name => r = x
      BY <3>2, <3>3, TakenByOtherIs DEF Rings, Wrote
    <3>5. DOMAIN ringUsers' \subseteq 1..lastRing /\ DOMAIN ringUsers \subseteq DOMAIN ringUsers'
          /\ k \in DOMAIN ringUsers'
      BY <3>2, <3>3 DEF Rings, Wrote
    <3>6. \A u \in DOMAIN profiles' :
            /\ profiles'[u].ring \in 1..lastRing
            /\ Removable = {} => profiles'[u].ring \in DOMAIN ringUsers'
      BY <3>2, <3>5 DEF Rings
    <3>7. \A v \in Worker :
           Holding(req'[v].at) =>
             /\ req'[v].ring \in 1..lastRing
             /\ Removable = {} => req'[v].ring \in DOMAIN ringUsers'
      BY <3>2, <3>3, <3>5 DEF Rings, Steps
    <3> QED BY <3>2, <3>3, <3>4, <3>5, <3>6, <3>7 DEF Rings
  <2>5. CASE ApproveLinkGet(w)
    <3>1. LinkGetEffect(w)
      BY <2>5, LinkGetDoes
    <3>2. /\ Steps(w, "linkSave") /\ req[w].at = "linkGet" /\ req'[w].ring = req[w].ring
          /\ UNCHANGED <<ringUsers, lastRing>>
      BY <1>5, <3>1 DEF LinkGetEffect, Moves
    <3>3. CASE UNCHANGED profiles
      BY <3>2, <3>3, RingsQuiet DEF Rings, Holding
    <3>4. CASE Wrote(profiles, profiles', req[w].user, [ring |-> req[w].ring, pdb |-> None])
      BY <3>2, <3>4, RingsLinked DEF Holding
    <3> QED BY <1>5, <3>1, <3>3, <3>4 DEF LinkGetEffect
  <2>6. CASE ApproveLinkSave(w)
    <3>1. LinkSaveEffect(w)
      BY <2>6, LinkSaveDoes
    <3>2. /\ Steps(w, "activate") /\ req[w].at = "linkSave"
          /\ UNCHANGED <<ringUsers, lastRing>>
          /\ Wrote(profiles, profiles', req[w].user, [ring |-> req[w].ring, pdb |-> req[w].pdb])
      BY <1>5, <3>1 DEF LinkSaveEffect, Moves
    <3> QED BY <3>2, RingsLinked DEF Holding
  <2>7. CASE Activate(w) \/ ApproveToken(w) \/ FinishApproval(w) \/ RejectSignup(w)
    <3>1. /\ Steps(w, "token") \/ Steps(w, "finish") \/ Steps(w, "idle")
          /\ UNCHANGED <<profiles, ringUsers, lastRing>>
      BY <1>5, <2>7, ActivateDoes, TokenDoes, FinishDoes, RejectSignupDoes
         DEF ActivateEffect, TokenEffect, FinishEffect, RejectSignupEffect, Moves
    <3> QED BY <3>1, RingsQuiet DEF Holding
  <2>8. CASE RejectUser(w)
    <3>1. RejectUserEffect(w)
      BY <2>8, RejectUserDoes
    <3>2. /\ Steps(w, "deleteSignup") /\ Erased(profiles, profiles', req[w].user)
          /\ UNCHANGED <<ringUsers, lastRing>>
      BY <3>1 DEF RejectUserEffect, Moves
    <3>3. Removable' = Removable
      BY <3>2, SameSite DEF Steps
    <3> QED BY <3>2, <3>3 DEF Rings, Steps, Erased, Holding
  <2> QED BY <1>5, <2>1, <2>2, <2>3, <2>4, <2>5, <2>6, <2>7, <2>8 DEF Continue
<1>6. ASSUME NEW w \in Worker, RequestDies(w) PROVE Rings'
  BY <1>4, <1>6, DieDoes DEF DieEffect
<1>7. ASSUME NEW r \in RingId, RingUserDestroyed(r) PROVE Rings'
  <2>1. DestroyEffect(r)
    BY <1>7, DestroyDoes
  <2>2. Removable' # {}
    BY <2>1, SameSite DEF DestroyEffect
  <2> QED BY <2>1, <2>2 DEF DestroyEffect, Rings, Erased
<1> QED BY <1>1, <1>2, <1>3, <1>4, <1>5, <1>6, <1>7 DEF Next

(***************************************************************************)
(* A profile belongs to an account, which is past being created.  The      *)
(* approvals of an account agree with each other, with its row and with    *)
(* its signup about the username and the ring username.                    *)
(***************************************************************************)
Names ==
  /\ DOMAIN profiles \subseteq DOMAIN users
  /\ \A w \in Worker : Creating(req[w].at) => req[w].user \notin DOMAIN profiles
  /\ \A w \in Worker : Approving(req[w].at) =>
       /\ req[w].user \in DOMAIN users => users[req[w].user].name = req[w].name
       /\ req[w].user \in DOMAIN signups => signups[req[w].user].ringName = req[w].ringName
  /\ \A v, w \in Worker :
       Approving(req[v].at) /\ Approving(req[w].at) /\ req[v].user = req[w].user =>
         req[v].name = req[w].name /\ req[v].ringName = req[w].ringName

(* A request that moves on, or away, where accounts stay as they are.      *)
LEMMA NamesQuiet ==
  ASSUME Names, NEW w \in Worker, NEW step, Steps(w, step),
         UNCHANGED users,
         DOMAIN profiles' \subseteq DOMAIN users,
         \A x \in DOMAIN profiles' :
           x \in DOMAIN profiles \/ \A v \in Worker : Creating(req[v].at) => req[v].user # x,
         DOMAIN signups' \subseteq DOMAIN signups,
         \A x \in DOMAIN signups' : signups'[x].ringName = signups[x].ringName,
         ~Creating(step),
         Approving(step) => Approving(req[w].at) /\ Moves(w, step)
  PROVE  Names'
<1>1. \A v \in Worker : Approving(req'[v].at) =>
        /\ Approving(req[v].at) /\ req'[v].user = req[v].user
        /\ req'[v].name = req[v].name /\ req'[v].ringName = req[v].ringName
  BY DEF Steps, Moves
<1>2. \A v \in Worker : Creating(req'[v].at) => req'[v].user \notin DOMAIN profiles'
  BY DEF Names, Steps
<1>3. \A v \in Worker : Approving(req'[v].at) =>
       /\ req'[v].user \in DOMAIN users' => users'[req'[v].user].name = req'[v].name
       /\ req'[v].user \in DOMAIN signups' => signups'[req'[v].user].ringName = req'[v].ringName
  BY <1>1 DEF Names
<1>4. \A u, v \in Worker :
       Approving(req'[v].at) /\ Approving(req'[u].at) /\ req'[v].user = req'[u].user =>
         req'[v].name = req'[u].name /\ req'[v].ringName = req'[u].ringName
  BY <1>1 DEF Names
<1> QED BY <1>2, <1>3, <1>4 DEF Names

(* Every action keeps Names.                                               *)
LEMMA NamesKept ==
  ASSUME Inv, Names, [Next]_vars
  PROVE  Names'
<1>1. CASE UNCHANGED vars
  BY <1>1 DEF vars, storeVars, Names
<1>2. ASSUME NEW w \in Visitor, VisitorBegins(w) PROVE Names'
  <2>1. SubmitEffect(w) /\ w \in Worker
    BY <1>2, SubmitDoes DEF VisitorBegins, Worker
  <2>2. DOMAIN profiles \subseteq DOMAIN users
    BY DEF Names
  <2> QED BY <2>1, <2>2, NamesQuiet DEF SubmitEffect, tables, Creating, Approving
<1>3. ASSUME NEW w \in Admin, AdminBegins(w) PROVE Names'
  <2>1. w \in Worker /\ DOMAIN profiles \subseteq DOMAIN users
    BY DEF Worker, Names
  <2>2. ASSUME NEW u \in UserId, NEW role \in BOOLEAN, OpenApproval(w, u, role) PROVE Names'
    <3>1. OpenApprovalEffect(w, u)
      BY <2>1, <2>2, OpenApprovalDoes
    <3>2. /\ Steps(w, "findRing") /\ UNCHANGED <<users, profiles, signups>>
          /\ u \in DOMAIN users /\ u \in DOMAIN signups
          /\ req'[w].user = u /\ req'[w].name = users[u].name
          /\ req'[w].ringName = signups[u].ringName
      BY <3>1 DEF OpenApprovalEffect, Pending, tables
    <3> QED BY <2>1, <3>2 DEF Names, Steps, Creating
  <2>3. ASSUME NEW u \in UserId, OpenRejection(w, u) PROVE Names'
    <3>1. OpenRejectionEffect(w)
      BY <2>1, <2>3, OpenRejectionDoes
    <3> QED BY <2>1, <3>1, NamesQuiet DEF OpenRejectionEffect, tables, Creating, Approving
  <2> QED BY <1>3, <2>2, <2>3 DEF AdminBegins
<1>4. ASSUME NEW w \in Worker, Stops(w) PROVE Names'
  <2>1. DOMAIN profiles \subseteq DOMAIN users
    BY DEF Names
  <2> QED BY <1>4, <2>1, NamesQuiet DEF Stops, tables, Creating, Approving
<1>5. ASSUME NEW w \in Worker, Continue(w), ~Stops(w) PROVE Names'
  <2>0. DOMAIN profiles \subseteq DOMAIN users
    BY DEF Names
  <2>1. CASE SignupCreateUser(w)
    <3>1. CreateUserEffect(w)
      BY <2>1, CreateUserDoes
    <3> DEFINE k == lastUser + 1
    <3>2. /\ Steps(w, "deactivate") /\ req'[w].user = k
          /\ Wrote(users, users', k, [name |-> req[w].name, active |-> TRUE])
          /\ UNCHANGED <<profiles, signups>>
      BY <1>5, <3>1 DEF CreateUserEffect
    <3>3. /\ k \notin DOMAIN users
          /\ \A v \in Worker : HasUser(req[v].at) => req[v].user # k
      BY DEF Inv, Referential, RequestShape, Shape, TablesOK, StoreTypeOK, UserId
    <3> HIDE DEF k
    <3> QED BY <3>2, <3>3 DEF Names, Steps, Wrote, Creating, Approving, HasUser
  <2>2. CASE Deactivate(w)
    <3>1. DeactivateEffect(w)
      BY <2>2, DeactivateDoes
    <3> DEFINE k == req[w].user
    <3>2. /\ Moves(w, "queue") /\ Creating(req[w].at)
          /\ Wrote(users, users', k, [name |-> req[w].name, active |-> FALSE])
          /\ UNCHANGED <<profiles, signups>>
      BY <1>5, <3>1 DEF DeactivateEffect, Creating
    <3>3. \A v \in Worker \ {w} : HasUser(req[v].at) => req[v].user # k
      BY <3>2 DEF Inv, CreatorIsAlone
    <3> QED BY <3>2, <3>3 DEF Names, Moves, Steps, Wrote, Creating, Approving, HasUser
  <2>3. CASE Queue(w)
    <3>1. QueueEffect(w)
      BY <2>3, QueueDoes
    <3> DEFINE k == req[w].user
    <3>2. /\ Steps(w, "idle") /\ Creating(req[w].at)
          /\ UNCHANGED <<users, profiles>> /\ DOMAIN signups' \subseteq DOMAIN signups \union {k}
          /\ \A x \in DOMAIN signups : x # k => signups'[x] = signups[x]
      BY <3>1 DEF QueueEffect, Creating, Wrote
    <3>3. \A v \in Worker \ {w} : HasUser(req[v].at) => req[v].user # k
      BY <3>2 DEF Inv, CreatorIsAlone
    <3> QED BY <3>2, <3>3 DEF Names, Steps, Creating, Approving, HasUser
  <2>4. CASE FindRing(w) \/ ApproveCreateRing(w) \/ UpdateRing(w)
    <3>1. /\ Approving(req[w].at) /\ UNCHANGED <<users, profiles, signups>>
          /\ \/ Moves(w, "createRing") \/ Moves(w, "updateRing") \/ Moves(w, "linkGet")
      BY <1>5, <2>4, FindRingDoes, CreateRingDoes, UpdateRingDoes
         DEF FindRingEffect, CreateRingEffect, UpdateRingEffect, tables, Approving
    <3> QED BY <2>0, <3>1, NamesQuiet DEF Moves, Creating
  <2>5. CASE ApproveLinkGet(w) \/ ApproveLinkSave(w)
    <3>1. \/ LinkGetEffect(w)
          \/ LinkSaveEffect(w)
      BY <2>5, LinkGetDoes, LinkSaveDoes
    <3>2. /\ Approving(req[w].at) /\ UNCHANGED <<users, signups>>
          /\ Moves(w, "linkSave") \/ Moves(w, "activate")
          /\ \/ UNCHANGED profiles
             \/ req[w].user \in DOMAIN users /\ DOMAIN profiles' = DOMAIN profiles \union {req[w].user}
      BY <1>5, <3>1 DEF LinkGetEffect, LinkSaveEffect, Approving, Wrote
    <3>3. \A v \in Worker : Creating(req[v].at) => req[v].user # req[w].user
      BY <3>2 DEF Inv, CreatorIsAlone, Creating, Approving, HasUser
    <3>4. DOMAIN profiles' \subseteq DOMAIN users
      BY <2>0, <3>2
    <3>5. \A x \in DOMAIN profiles' :
            x \in DOMAIN profiles \/ \A v \in Worker : Creating(req[v].at) => req[v].user # x
      BY <3>2, <3>3
    <3> QED BY <3>2, <3>4, <3>5, NamesQuiet DEF Moves, Creating
  <2>6. CASE Activate(w)
    <3>1. ActivateEffect(w)
      BY <2>6, ActivateDoes
    <3> DEFINE k == req[w].user
    <3>2. /\ Moves(w, "token") /\ Approving(req[w].at)
          /\ Wrote(users, users', k, [name |-> req[w].name, active |-> TRUE])
          /\ UNCHANGED <<profiles, signups>>
      BY <1>5, <3>1 DEF ActivateEffect, Approving
    <3>3. \A v \in Worker : Approving(req'[v].at) =>
            /\ Approving(req[v].at) /\ req'[v].user = req[v].user
            /\ req'[v].name = req[v].name /\ req'[v].ringName = req[v].ringName
      BY <3>2 DEF Moves, Steps
    <3>4. \A v \in Worker : Creating(req'[v].at) => req'[v].user \notin DOMAIN profiles'
      BY <3>2 DEF Names, Moves, Steps, Creating
    <3>5. \A v \in Worker : Approving(req'[v].at) =>
            /\ req'[v].user \in DOMAIN users' => users'[req'[v].user].name = req'[v].name
            /\ req'[v].user \in DOMAIN signups' =>
                 signups'[req'[v].user].ringName = req'[v].ringName
      BY <3>2, <3>3 DEF Names, Wrote
    <3>6. \A u, v \in Worker :
            Approving(req'[v].at) /\ Approving(req'[u].at) /\ req'[v].user = req'[u].user =>
              req'[v].name = req'[u].name /\ req'[v].ringName = req'[u].ringName
      BY <3>3 DEF Names
    <3>7. DOMAIN profiles' \subseteq DOMAIN users'
      BY <2>0, <3>2 DEF Wrote
    <3> QED BY <3>4, <3>5, <3>6, <3>7 DEF Names
  <2>7. CASE ApproveToken(w)
    <3>1. TokenEffect(w)
      BY <2>7, TokenDoes
    <3> QED BY <1>5, <2>0, <3>1, NamesQuiet DEF TokenEffect, Moves, Creating, Approving
  <2>8. CASE FinishApproval(w)
    <3>1. FinishEffect(w)
      BY <2>8, FinishDoes
    <3> DEFINE k == req[w].user
    <3>2. /\ Steps(w, "idle") /\ Approving(req[w].at) /\ UNCHANGED <<users, profiles>>
          /\ DOMAIN signups' \subseteq DOMAIN signups \union {k}
          /\ \A x \in DOMAIN signups : x # k => signups'[x] = signups[x]
          /\ k \in DOMAIN signups' => signups'[k].ringName = req[w].ringName
      <4>1. CASE k \in DOMAIN users
        BY <3>1, <4>1 DEF FinishEffect, Approving, Wrote
      <4>2. CASE k \notin DOMAIN users
        BY <3>1, <4>2 DEF FinishEffect, Approving, Inv, Referential
      <4> QED BY <4>1, <4>2
    <3>3. \A v \in Worker \ {w} : Approving(req[v].at) /\ req[v].user = k =>
            req[v].ringName = req[w].ringName
      BY <3>2 DEF Names
    <3> HIDE DEF k
    <3> QED BY <3>2, <3>3 DEF Names, Steps, Creating, Approving
  <2>9. CASE RejectUser(w)
    <3>1. RejectUserEffect(w)
      BY <2>9, RejectUserDoes
    <3>2. /\ Moves(w, "deleteSignup") /\ Erased(users, users', req[w].user)
          /\ Erased(profiles, profiles', req[w].user) /\ Erased(signups, signups', req[w].user)
      BY <3>1 DEF RejectUserEffect
    <3> QED BY <3>2 DEF Names, Moves, Steps, Erased, Creating, Approving
  <2>10. CASE RejectSignup(w)
    <3>1. RejectSignupEffect(w)
      BY <2>10, RejectSignupDoes
    <3>2. /\ Steps(w, "idle") /\ UNCHANGED <<users, profiles>>
          /\ DOMAIN signups' \subseteq DOMAIN signups
          /\ \A x \in DOMAIN signups' : signups'[x].ringName = signups[x].ringName
      BY <3>1 DEF RejectSignupEffect, Erased
    <3> QED BY <2>0, <3>2, NamesQuiet DEF Creating, Approving
  <2> QED BY <1>5, <2>1, <2>2, <2>3, <2>4, <2>5, <2>6, <2>7, <2>8, <2>9, <2>10 DEF Continue
<1>6. ASSUME NEW w \in Worker, RequestDies(w) PROVE Names'
  BY <1>4, <1>6, DieDoes DEF DieEffect
<1>7. ASSUME NEW r \in RingId, RingUserDestroyed(r) PROVE Names'
  BY <1>7, DestroyDoes DEF DestroyEffect, Names
<1> QED BY <1>1, <1>2, <1>3, <1>4, <1>5, <1>6, <1>7 DEF Next

(***************************************************************************)
(* The name a pending signup asks for, and that every ring user an         *)
(* approval of it touches carries: the one its profile points to, the one  *)
(* an approval holds, and the row that an approval is about to write.      *)
(***************************************************************************)
FileKey(u) == IF signups[u].ringName # None THEN signups[u].ringName ELSE users[u].name

(* Each of these is about live ring users: a profile may outlive its own.  *)
ProfileKeys ==
  /\ \A w \in Worker :
       Approving(req[w].at) /\ req[w].user \in DOMAIN profiles =>
         LET r == profiles[req[w].user].ring IN
         r \in DOMAIN ringUsers => ringUsers[r].name = RingKey(w)
  /\ \A u \in DOMAIN profiles \intersect DOMAIN signups :
       LET r == profiles[u].ring IN
       r \in DOMAIN ringUsers => ringUsers[r].name = FileKey(u)
HeldKeys ==
  \A w \in Worker :
    /\ Holding(req[w].at) /\ req[w].ring \in DOMAIN ringUsers =>
         ringUsers[req[w].ring].name = RingKey(w)
    /\ req[w].at = "updateRing" => req[w].row.name = RingKey(w)
(* ... except that "updateRing" may bring one back to life.                *)
SavedKeys ==
  \A w \in Worker :
    req[w].at = "updateRing" =>
      /\ \A u \in DOMAIN profiles \intersect DOMAIN signups :
           profiles[u].ring = req[w].ring => req[w].row.name = FileKey(u)
      /\ \A v \in Worker :
           /\ Approving(req[v].at) /\ req[v].user \in DOMAIN profiles
           /\ profiles[req[v].user].ring = req[w].ring
           => req[w].row.name = RingKey(v)

Links == ProfileKeys /\ HeldKeys /\ SavedKeys

(* The one admin is moving the account to no other ring user.              *)
Sole ==
  OneAdmin =>
    \A w \in Worker :
      /\ req[w].at = "createRing" \/ Holding(req[w].at)
      /\ req[w].user \in DOMAIN profiles
      /\ profiles[req[w].user].ring \in DOMAIN ringUsers
      => Holding(req[w].at) /\ profiles[req[w].user].ring = req[w].ring

(* No two approvals where there is one admin.                              *)
LEMMA NoneElseApproves ==
  ASSUME Roles, OneAdmin, NEW w \in Worker, Approving(req[w].at)
  PROVE  \A v \in Worker \ {w} : ~Approving(req[v].at)
BY DEF Roles, May, OneAdmin

(* A request that neither takes up a ring user nor writes one or a link.   *)
LEMMA LinksQuiet ==
  ASSUME Links, NEW w \in Worker, NEW step, Steps(w, step),
         UNCHANGED <<profiles, ringUsers>>,
         \A u \in DOMAIN profiles \intersect DOMAIN signups' :
           u \in DOMAIN signups /\ FileKey(u)' = FileKey(u),
         Approving(step) => Approving(req[w].at) /\ Moves(w, step),
         Holding(step) => Holding(req[w].at) /\ req'[w].ring = req[w].ring,
         step # "updateRing"
  PROVE  Links'
<1>1. \A v \in Worker : Approving(req'[v].at) =>
        Approving(req[v].at) /\ req'[v].user = req[v].user /\ RingKey(v)' = RingKey(v)
  BY DEF Steps, Moves, RingKey
<1>2. \A v \in Worker : Holding(req'[v].at) =>
        Holding(req[v].at) /\ req'[v].ring = req[v].ring /\ RingKey(v)' = RingKey(v)
  BY <1>1 DEF Steps, Holding, Approving
<1>3. \A v \in Worker : req'[v].at = "updateRing" => req'[v] = req[v]
  BY DEF Steps
<1>4. ProfileKeys'
  BY <1>1 DEF Links, ProfileKeys
<1>5. HeldKeys'
  BY <1>2, <1>3 DEF Links, HeldKeys, Holding
<1>6. SavedKeys'
  BY <1>1, <1>3 DEF Links, SavedKeys
<1> QED BY <1>4, <1>5, <1>6 DEF Links

(* A step that takes up no ring user and writes no link keeps Sole.        *)
LEMMA SoleQuiet ==
  ASSUME Sole, NEW w \in Worker, NEW step, Steps(w, step),
         UNCHANGED <<profiles, ringUsers>>,
         step # "createRing",
         Holding(step) => /\ Holding(req[w].at) /\ Moves(w, step)
                          /\ req'[w].ring = req[w].ring
  PROVE  Sole'
<1>1. OneAdmin' <=> OneAdmin
  BY SameSite DEF Steps
<1> QED BY <1>1 DEF Sole, Steps, Moves, Holding

(* Where two approvals hold the same ring user, it is alive, and so both   *)
(* are for its name.                                                       *)
LEMMA SameRingSameKey ==
  ASSUME Roles, Rings, Links, Removable = {} \/ OneAdmin,
         NEW w \in Worker, NEW v \in Worker, Holding(req[w].at), Holding(req[v].at),
         req[v].ring = req[w].ring
  PROVE  RingKey(v) = RingKey(w)
<1>1. CASE Removable = {}
  BY <1>1 DEF Rings, Links, HeldKeys
<1>2. CASE OneAdmin
  BY <1>2, NoneElseApproves DEF Holding, Approving
<1> QED BY <1>1, <1>2

(***************************************************************************)
(* Linking an account to the ring user that its approval holds.            *)
(***************************************************************************)
LEMMA LinksLinked ==
  ASSUME Inv, Roles, Rings, Names, Links, Removable = {} \/ OneAdmin,
         NEW w \in Worker, NEW step, Moves(w, step), Holding(req[w].at), NEW pdb,
         Wrote(profiles, profiles', req[w].user, [ring |-> req[w].ring, pdb |-> pdb]),
         req[w].user \in DOMAIN users, UNCHANGED <<users, ringUsers, signups>>,
         step \in {"linkSave", "activate"}, req'[w].ring = req[w].ring
  PROVE  Links'
<1> DEFINE k == req[w].user
           r == req[w].ring
<1>0. Approving(req[w].at)
  BY DEF Approving, Holding
<1>1. /\ DOMAIN profiles' = DOMAIN profiles \union {k}
      /\ profiles'[k].ring = r
      /\ \A u \in DOMAIN profiles : u # k => profiles'[u] = profiles[u]
  BY DEF Wrote
<1>2. \A v \in Worker : Approving(req[v].at) /\ req[v].user = k => RingKey(v) = RingKey(w)
  BY <1>0 DEF Names, RingKey
<1>3. k \in DOMAIN signups => FileKey(k) = RingKey(w)
  BY <1>0 DEF Names, FileKey, RingKey
<1>4. \A v \in Worker : Approving(req'[v].at) =>
        Approving(req[v].at) /\ req'[v].user = req[v].user /\ RingKey(v)' = RingKey(v)
  BY <1>0 DEF Moves, Steps, RingKey
<1>5. \A u \in DOMAIN signups : FileKey(u)' = FileKey(u)
  BY DEF FileKey
<1>6. \A v \in Worker : Holding(req'[v].at) =>
        Holding(req[v].at) /\ req'[v].ring = req[v].ring /\ RingKey(v)' = RingKey(v)
  BY <1>4 DEF Moves, Steps, Holding, Approving
<1>7. \A v \in Worker : req'[v].at = "updateRing" => req'[v] = req[v] /\ v # w
  BY DEF Moves, Steps
<1>8. \A v \in Worker : req[v].at = "updateRing" /\ req[v].ring = r =>
        req[v].row.name = RingKey(w)
  <2>1. \A v \in Worker : req[v].at = "updateRing" /\ req[v].ring = r => RingKey(v) = RingKey(w)
    BY SameRingSameKey DEF Holding
  <2> QED BY <2>1 DEF Links, HeldKeys
<1>9. r \in DOMAIN ringUsers => ringUsers[r].name = RingKey(w)
  BY DEF Links, HeldKeys
<1> HIDE DEF k, r
<1>10. ProfileKeys'
  <2>1. \A v \in Worker :
       Approving(req'[v].at) /\ req'[v].user \in DOMAIN profiles' =>
         LET x == profiles'[req'[v].user].ring IN
         x \in DOMAIN ringUsers' => ringUsers'[x].name = RingKey(v)'
    BY <1>1, <1>2, <1>4, <1>9 DEF Links, ProfileKeys
  <2>2. \A u \in DOMAIN profiles' \intersect DOMAIN signups' :
       LET x == profiles'[u].ring IN
       x \in DOMAIN ringUsers' => ringUsers'[x].name = FileKey(u)'
    BY <1>1, <1>3, <1>5, <1>9 DEF Links, ProfileKeys
  <2> QED BY <2>1, <2>2 DEF ProfileKeys
<1>11. HeldKeys'
  BY <1>6, <1>7 DEF Links, HeldKeys, Holding
<1>12. SavedKeys'
  <2> SUFFICES ASSUME NEW v \in Worker, req'[v].at = "updateRing"
               PROVE  /\ \A u \in DOMAIN profiles' \intersect DOMAIN signups' :
                           profiles'[u].ring = req'[v].ring => req'[v].row.name = FileKey(u)'
                      /\ \A x \in Worker :
                           /\ Approving(req'[x].at) /\ req'[x].user \in DOMAIN profiles'
                           /\ profiles'[req'[x].user].ring = req'[v].ring
                           => req'[v].row.name = RingKey(x)'
    BY DEF SavedKeys
  <2>1. req'[v] = req[v] /\ req[v].at = "updateRing"
    BY <1>7
  <2>2. \A u \in DOMAIN profiles' \intersect DOMAIN signups' :
          profiles'[u].ring = req'[v].ring => req'[v].row.name = FileKey(u)'
    BY <1>1, <1>3, <1>5, <1>8, <2>1 DEF Links, SavedKeys
  <2>3. \A x \in Worker :
          /\ Approving(req'[x].at) /\ req'[x].user \in DOMAIN profiles'
          /\ profiles'[req'[x].user].ring = req'[v].ring
          => req'[v].row.name = RingKey(x)'
    BY <1>1, <1>2, <1>4, <1>8, <2>1 DEF Links, SavedKeys
  <2> QED BY <2>2, <2>3
<1> QED BY <1>10, <1>11, <1>12 DEF Links

(* Linking to the ring user that the request holds keeps Sole.             *)
LEMMA SoleLinked ==
  ASSUME Roles, Sole, NEW w \in Worker, NEW step, Moves(w, step), Holding(req[w].at), NEW pdb,
         Wrote(profiles, profiles', req[w].user, [ring |-> req[w].ring, pdb |-> pdb]),
         UNCHANGED ringUsers, step \in {"linkSave", "activate"}, req'[w].ring = req[w].ring
  PROVE  Sole'
<1> SUFFICES ASSUME OneAdmin' PROVE Sole'
  BY DEF Sole
<1>1. OneAdmin
  BY SameSite DEF Moves, Steps
<1>2. \A v \in Worker \ {w} : ~Approving(req'[v].at)
  BY <1>1, NoneElseApproves DEF Moves, Steps, Holding, Approving
<1>3. \A v \in Worker \ {w} : req'[v].at # "createRing" /\ ~Holding(req'[v].at)
  BY <1>2 DEF Approving, Holding
<1>4. /\ req'[w].at # "createRing"
      /\ profiles'[req'[w].user].ring = req'[w].ring
  BY DEF Moves, Steps, Wrote
<1> QED BY <1>3, <1>4 DEF Sole

(* An approval takes up a ring user that exists, or has just created it.   *)
LEMMA LinksTaken ==
  ASSUME Links, NEW w \in Worker, NEW step, Moves(w, step), Approving(req[w].at),
         Holding(step), UNCHANGED <<users, profiles, signups>>,
         req'[w].ring \in DOMAIN ringUsers',
         ringUsers'[req'[w].ring].name = RingKey(w),
         step = "updateRing" => req'[w].row = ringUsers'[req'[w].ring],
         \A r \in DOMAIN ringUsers : r \in DOMAIN ringUsers' /\ ringUsers'[r] = ringUsers[r],
         \A u \in DOMAIN profiles : profiles[u].ring \in DOMAIN ringUsers' =>
           profiles[u].ring \in DOMAIN ringUsers,
         \A v \in Worker \ {w} : Holding(req[v].at) /\ req[v].ring \in DOMAIN ringUsers' =>
           req[v].ring \in DOMAIN ringUsers
  PROVE  Links'
<1>1. \A v \in Worker : Approving(req'[v].at) =>
        Approving(req[v].at) /\ req'[v].user = req[v].user /\ RingKey(v)' = RingKey(v)
  BY DEF Moves, Steps, RingKey
<1>2. \A u \in DOMAIN signups : FileKey(u)' = FileKey(u)
  BY DEF FileKey
<1>3. \A v \in Worker \ {w} : req'[v] = req[v] /\ RingKey(v)' = RingKey(v)
  BY DEF Moves, Steps, RingKey
<1>4. RingKey(w)' = RingKey(w) /\ req'[w].at = step
  BY DEF Moves, Steps, RingKey
<1>5. ProfileKeys'
  <2>1. \A v \in Worker :
       Approving(req'[v].at) /\ req'[v].user \in DOMAIN profiles' =>
         LET x == profiles'[req'[v].user].ring IN
         x \in DOMAIN ringUsers' => ringUsers'[x].name = RingKey(v)'
    BY <1>1 DEF Links, ProfileKeys
  <2>2. \A u \in DOMAIN profiles' \intersect DOMAIN signups' :
       LET x == profiles'[u].ring IN
       x \in DOMAIN ringUsers' => ringUsers'[x].name = FileKey(u)'
    BY <1>2 DEF Links, ProfileKeys
  <2> QED BY <2>1, <2>2 DEF ProfileKeys
<1>6. HeldKeys'
  BY <1>3, <1>4 DEF Links, HeldKeys, Holding
<1>7. SavedKeys'
  <2>1. ASSUME NEW v \in Worker \ {w}, req'[v].at = "updateRing"
        PROVE  /\ \A u \in DOMAIN profiles' \intersect DOMAIN signups' :
                    profiles'[u].ring = req'[v].ring => req'[v].row.name = FileKey(u)'
               /\ \A x \in Worker :
                    /\ Approving(req'[x].at) /\ req'[x].user \in DOMAIN profiles'
                    /\ profiles'[req'[x].user].ring = req'[v].ring
                    => req'[v].row.name = RingKey(x)'
    BY <1>1, <1>2, <1>3, <2>1 DEF Links, SavedKeys
  <2>2. ASSUME req'[w].at = "updateRing"
        PROVE  /\ \A u \in DOMAIN profiles' \intersect DOMAIN signups' :
                    profiles'[u].ring = req'[w].ring => req'[w].row.name = FileKey(u)'
               /\ \A x \in Worker :
                    /\ Approving(req'[x].at) /\ req'[x].user \in DOMAIN profiles'
                    /\ profiles'[req'[x].user].ring = req'[w].ring
                    => req'[w].row.name = RingKey(x)'
    <3>1. req'[w].row = ringUsers'[req'[w].ring]
      BY <1>4, <2>2
    <3> QED BY <1>5, <3>1 DEF ProfileKeys
  <2> QED BY <2>1, <2>2 DEF SavedKeys
<1> QED BY <1>5, <1>6, <1>7 DEF Links

(* Every action keeps Links.                                               *)
LEMMA LinksKept ==
  ASSUME Inv, Roles, Rings, Names, Links, Removable = {} \/ OneAdmin, [Next]_vars
  PROVE  Links'
<1>0. DOMAIN profiles \subseteq DOMAIN users
  BY DEF Names
<1>1. CASE UNCHANGED vars
  BY <1>1 DEF vars, storeVars, Links, ProfileKeys, HeldKeys, SavedKeys, RingKey, FileKey
<1>2. ASSUME NEW w \in Visitor, VisitorBegins(w) PROVE Links'
  <2>1. SubmitEffect(w) /\ w \in Worker
    BY <1>2, SubmitDoes DEF VisitorBegins, Worker
  <2>2. \A u : FileKey(u)' = FileKey(u)
    BY <2>1 DEF SubmitEffect, tables, FileKey
  <2> QED BY <2>1, <2>2, LinksQuiet DEF SubmitEffect, tables, Holding, Approving
<1>3. ASSUME NEW w \in Admin, AdminBegins(w) PROVE Links'
  <2>1. w \in Worker
    BY DEF Worker
  <2>2. ASSUME NEW u \in UserId, NEW role \in BOOLEAN, OpenApproval(w, u, role) PROVE Links'
    <3>1. OpenApprovalEffect(w, u)
      BY <2>1, <2>2, OpenApprovalDoes
    <3>2. /\ Steps(w, "findRing") /\ UNCHANGED <<users, profiles, ringUsers, signups>>
          /\ u \in DOMAIN users /\ u \in DOMAIN signups /\ req'[w].user = u
          /\ RingKey(w)' = FileKey(u)
      BY <3>1 DEF OpenApprovalEffect, Pending, tables, RingKey, FileKey
    <3>3. \A x : FileKey(x)' = FileKey(x)
      BY <3>2 DEF FileKey
    <3>4. \A v \in Worker \ {w} : req'[v] = req[v] /\ RingKey(v)' = RingKey(v)
      BY <3>2 DEF Steps, RingKey
    <3>5. ~Holding(req'[w].at)
      BY <3>2 DEF Steps, Holding
    <3>6. ProfileKeys'
      <4>1. \A v \in Worker :
           Approving(req'[v].at) /\ req'[v].user \in DOMAIN profiles' =>
             LET x == profiles'[req'[v].user].ring IN
             x \in DOMAIN ringUsers' => ringUsers'[x].name = RingKey(v)'
        BY <3>2, <3>4 DEF Links, ProfileKeys
      <4>2. \A x \in DOMAIN profiles' \intersect DOMAIN signups' :
           LET r == profiles'[x].ring IN
           r \in DOMAIN ringUsers' => ringUsers'[r].name = FileKey(x)'
        BY <3>2, <3>3 DEF Links, ProfileKeys
      <4> QED BY <4>1, <4>2 DEF ProfileKeys
    <3>7. HeldKeys'
      BY <3>2, <3>4, <3>5 DEF Links, HeldKeys, Holding
    <3>8. SavedKeys'
      BY <3>2, <3>3, <3>4, <3>5 DEF Links, SavedKeys, Holding
    <3> QED BY <3>6, <3>7, <3>8 DEF Links
  <2>3. ASSUME NEW u \in UserId, OpenRejection(w, u) PROVE Links'
    <3>1. OpenRejectionEffect(w)
      BY <2>1, <2>3, OpenRejectionDoes
    <3>2. \A x : FileKey(x)' = FileKey(x)
      BY <3>1 DEF OpenRejectionEffect, tables, FileKey
    <3> QED BY <2>1, <3>1, <3>2, LinksQuiet DEF OpenRejectionEffect, tables, Holding, Approving
  <2> QED BY <1>3, <2>2, <2>3 DEF AdminBegins
<1>4. ASSUME NEW w \in Worker, Stops(w) PROVE Links'
  <2>1. \A u : FileKey(u)' = FileKey(u)
    BY <1>4 DEF Stops, tables, FileKey
  <2> QED BY <1>4, <2>1, LinksQuiet DEF Stops, tables, Holding, Approving
<1>5. ASSUME NEW w \in Worker, Continue(w), ~Stops(w) PROVE Links'
  <2>1. CASE SignupCreateUser(w)
    <3>1. CreateUserEffect(w)
      BY <2>1, CreateUserDoes
    <3> DEFINE k == lastUser + 1
    <3>2. /\ Steps(w, "deactivate")
          /\ Wrote(users, users', k, [name |-> req[w].name, active |-> TRUE])
          /\ UNCHANGED <<profiles, ringUsers, signups>>
      BY <1>5, <3>1 DEF CreateUserEffect
    <3>3. k \notin DOMAIN users
      BY DEF Inv, Referential, RequestShape, Shape, TablesOK, StoreTypeOK, UserId
    <3> HIDE DEF k
    <3>4. \A u \in DOMAIN users : FileKey(u)' = FileKey(u)
      BY <3>2, <3>3 DEF FileKey, Wrote
    <3> QED BY <1>0, <3>2, <3>4, LinksQuiet DEF Holding, Approving
  <2>2. CASE Deactivate(w)
    <3>1. DeactivateEffect(w)
      BY <2>2, DeactivateDoes
    <3> DEFINE k == req[w].user
    <3>2. /\ Steps(w, "queue") /\ Creating(req[w].at)
          /\ Wrote(users, users', k, [name |-> req[w].name, active |-> FALSE])
          /\ UNCHANGED <<profiles, ringUsers, signups>>
      BY <1>5, <3>1 DEF DeactivateEffect, Moves, Creating
    <3>3. k \notin DOMAIN profiles
      BY <3>2 DEF Names
    <3>4. \A u \in DOMAIN users : u # k => FileKey(u)' = FileKey(u)
      BY <3>2 DEF FileKey, Wrote
    <3> QED BY <1>0, <3>2, <3>3, <3>4, LinksQuiet DEF Holding, Approving
  <2>3. CASE Queue(w)
    <3>1. QueueEffect(w)
      BY <2>3, QueueDoes
    <3> DEFINE k == req[w].user
    <3>2. /\ Steps(w, "idle") /\ Creating(req[w].at)
          /\ UNCHANGED <<users, profiles, ringUsers>>
          /\ DOMAIN signups' \subseteq DOMAIN signups \union {k}
          /\ \A x \in DOMAIN signups : x # k => signups'[x] = signups[x]
      BY <3>1 DEF QueueEffect, Creating, Wrote
    <3>3. k \notin DOMAIN profiles
      BY <3>2 DEF Names
    <3>4. \A u \in DOMAIN signups : u # k => FileKey(u)' = FileKey(u)
      BY <3>2 DEF FileKey
    <3> QED BY <3>2, <3>3, <3>4, LinksQuiet DEF Holding, Approving
  <2>4. CASE FindRing(w)
    <3>1. FindRingEffect(w)
      BY <2>4, FindRingDoes
    <3>2. /\ req[w].at = "findRing" /\ UNCHANGED <<users, profiles, ringUsers, signups>>
      BY <3>1 DEF FindRingEffect, tables
    <3>3. CASE Moves(w, "createRing")
      <4>1. \A u : FileKey(u)' = FileKey(u)
        BY <3>2 DEF FileKey
      <4> QED BY <3>2, <3>3, <4>1, LinksQuiet DEF Moves, Holding, Approving
    <3>4. CASE ~Moves(w, "createRing")
      <4>1. /\ Moves(w, "updateRing") \/ Moves(w, "linkGet")
            /\ req'[w].ring \in Found(w)
            /\ req'[w].row = ringUsers[req'[w].ring]
        BY <1>5, <3>1, <3>4 DEF FindRingEffect
      <4>2. req'[w].ring \in DOMAIN ringUsers /\ ringUsers[req'[w].ring].name = RingKey(w)
        <5>1. CASE req'[w].ring \in Named(w)
          <6>1. req'[w].ring \in DOMAIN ringUsers /\ ringUsers[req'[w].ring].name = req[w].ringName
            BY <5>1 DEF Named
          <6>2. ringUsers[req'[w].ring] \in RingRow
            BY <6>1, RingRows DEF Inv, TablesOK, StoreTypeOK
          <6>3. req[w].ringName # None
            BY <6>1, <6>2, StoreAssumption DEF RingRow
          <6> QED BY <6>1, <6>3 DEF RingKey
        <5>2. CASE req'[w].ring \in Linked(w)
          BY <3>2, <5>2 DEF Linked, Links, ProfileKeys, Approving
        <5> QED BY <4>1, <5>1, <5>2 DEF Found
      <4> QED BY <3>2, <4>1, <4>2, LinksTaken DEF Holding, Approving
    <3> QED BY <3>3, <3>4
  <2>5. CASE ApproveCreateRing(w)
    <3>1. CreateRingEffect(w)
      BY <2>5, CreateRingDoes
    <3> DEFINE k == lastRing + 1
               row == [name |-> RingKey(w), org |-> req[w].org, admin |-> FALSE]
    <3>2. /\ Moves(w, "updateRing") /\ req[w].at = "createRing"
          /\ req'[w].ring = k /\ req'[w].row = row
          /\ Wrote(ringUsers, ringUsers', k, row)
          /\ UNCHANGED <<users, profiles, signups>>
      BY <1>5, <3>1 DEF CreateRingEffect
    <3>3. row.name = RingKey(w) /\ \A x \in 1..lastRing : x # k
      BY DEF Inv, TablesOK, StoreTypeOK
    <3> HIDE DEF k, row
    <3>4. /\ k \in DOMAIN ringUsers' /\ ringUsers'[k] = row
          /\ \A r \in DOMAIN ringUsers : r \in DOMAIN ringUsers' /\ ringUsers'[r] = ringUsers[r]
          /\ \A r \in DOMAIN ringUsers' : r # k => r \in DOMAIN ringUsers
      BY <3>2, <3>3 DEF Wrote, Rings
    <3>5. /\ \A u \in DOMAIN profiles : profiles[u].ring # k
          /\ \A v \in Worker : Holding(req[v].at) => req[v].ring # k
      BY <3>3 DEF Rings
    <3> QED BY <3>2, <3>3, <3>4, <3>5, LinksTaken DEF Holding, Approving
  <2>6. CASE UpdateRing(w)
    <3>1. UpdateRingEffect(w)
      BY <2>6, UpdateRingDoes
    <3> DEFINE k == req[w].ring
               row == [name |-> req[w].row.name, org |-> req[w].org,
                       admin |-> req[w].row.admin \/ req[w].role]
    <3>2. /\ Moves(w, "linkGet") /\ req[w].at = "updateRing" /\ req'[w].ring = k
          /\ Wrote(ringUsers, ringUsers', k, row)
          /\ UNCHANGED <<users, profiles, signups>>
      BY <1>5, <3>1 DEF UpdateRingEffect
    <3>3. row.name = RingKey(w) /\ req[w].row.name = RingKey(w)
      BY <3>2 DEF Links, HeldKeys
    <3>4. \A v \in Worker : Holding(req[v].at) /\ req[v].ring = k => RingKey(v) = RingKey(w)
      BY <3>2, SameRingSameKey DEF Holding
    <3>5. /\ \A u \in DOMAIN profiles \intersect DOMAIN signups :
               profiles[u].ring = k => FileKey(u) = RingKey(w)
          /\ \A v \in Worker :
               /\ Approving(req[v].at) /\ req[v].user \in DOMAIN profiles
               /\ profiles[req[v].user].ring = k
               => RingKey(v) = RingKey(w)
      BY <3>2, <3>3 DEF Links, SavedKeys
    <3> HIDE DEF k, row
    <3>6. /\ ringUsers'[k].name = RingKey(w)
          /\ \A r \in DOMAIN ringUsers' : r # k => r \in DOMAIN ringUsers /\ ringUsers'[r] = ringUsers[r]
      BY <3>2, <3>3 DEF Wrote
    <3>7. \A v \in Worker : Approving(req'[v].at) =>
            Approving(req[v].at) /\ req'[v].user = req[v].user /\ RingKey(v)' = RingKey(v)
      BY <3>2 DEF Moves, Steps, RingKey, Approving
    <3>8. \A v \in Worker : Holding(req'[v].at) =>
            Holding(req[v].at) /\ req'[v].ring = req[v].ring /\ RingKey(v)' = RingKey(v)
      BY <3>2, <3>7 DEF Moves, Steps, Holding, Approving, k
    <3>9. \A v \in Worker : req'[v].at = "updateRing" => req'[v] = req[v]
      BY <3>2 DEF Moves, Steps
    <3>10. \A u : FileKey(u)' = FileKey(u)
      BY <3>2 DEF FileKey
    <3>11. ProfileKeys'
      <4>1. \A v \in Worker :
           Approving(req'[v].at) /\ req'[v].user \in DOMAIN profiles' =>
             LET x == profiles'[req'[v].user].ring IN
             x \in DOMAIN ringUsers' => ringUsers'[x].name = RingKey(v)'
        BY <3>2, <3>5, <3>6, <3>7 DEF Links, ProfileKeys
      <4>2. \A u \in DOMAIN profiles' \intersect DOMAIN signups' :
           LET x == profiles'[u].ring IN
           x \in DOMAIN ringUsers' => ringUsers'[x].name = FileKey(u)'
        BY <3>2, <3>5, <3>6, <3>10 DEF Links, ProfileKeys
      <4> QED BY <4>1, <4>2 DEF ProfileKeys
    <3>12. HeldKeys'
      BY <3>4, <3>6, <3>8, <3>9 DEF Links, HeldKeys, Holding
    <3>13. SavedKeys'
      BY <3>2, <3>7, <3>9, <3>10 DEF Links, SavedKeys
    <3> QED BY <3>11, <3>12, <3>13 DEF Links
  <2>7. CASE ApproveLinkGet(w)
    <3>1. LinkGetEffect(w)
      BY <2>7, LinkGetDoes
    <3>2. /\ Moves(w, "linkSave") /\ req[w].at = "linkGet" /\ req'[w].ring = req[w].ring
          /\ UNCHANGED <<users, ringUsers, signups>>
      BY <1>5, <3>1 DEF LinkGetEffect
    <3>3. CASE UNCHANGED profiles
      <4>1. \A u : FileKey(u)' = FileKey(u)
        BY <3>2 DEF FileKey
      <4> QED BY <3>2, <3>3, <4>1, LinksQuiet DEF Moves, Holding, Approving
    <3>4. CASE /\ req[w].user \in DOMAIN users
               /\ Wrote(profiles, profiles', req[w].user, [ring |-> req[w].ring, pdb |-> None])
      BY <3>2, <3>4, LinksLinked DEF Holding
    <3> QED BY <1>5, <3>1, <3>3, <3>4 DEF LinkGetEffect
  <2>8. CASE ApproveLinkSave(w)
    <3>1. LinkSaveEffect(w)
      BY <2>8, LinkSaveDoes
    <3>2. /\ Moves(w, "activate") /\ req[w].at = "linkSave" /\ req[w].user \in DOMAIN users
          /\ req'[w].ring = req[w].ring /\ UNCHANGED <<users, ringUsers, signups>>
          /\ Wrote(profiles, profiles', req[w].user, [ring |-> req[w].ring, pdb |-> req[w].pdb])
      BY <1>5, <3>1 DEF LinkSaveEffect
    <3> QED BY <3>2, LinksLinked DEF Holding
  <2>9. CASE Activate(w)
    <3>1. ActivateEffect(w)
      BY <2>9, ActivateDoes
    <3> DEFINE k == req[w].user
    <3>2. /\ Moves(w, "token") /\ Approving(req[w].at)
          /\ Wrote(users, users', k, [name |-> req[w].name, active |-> TRUE])
          /\ UNCHANGED <<profiles, ringUsers, signups>>
      BY <1>5, <3>1 DEF ActivateEffect, Approving
    <3>3. k \in DOMAIN users => users[k].name = req[w].name
      BY <3>2 DEF Names
    <3>4. \A u \in DOMAIN users : users'[u].name = users[u].name
      BY <3>2, <3>3 DEF Wrote
    <3>5. \A u \in DOMAIN users : FileKey(u)' = FileKey(u)
      BY <3>2, <3>4 DEF FileKey
    <3> QED BY <1>0, <3>2, <3>5, LinksQuiet DEF Moves, Holding
  <2>10. CASE ApproveToken(w)
    <3>1. TokenEffect(w)
      BY <2>10, TokenDoes
    <3>2. /\ Moves(w, "finish") /\ Approving(req[w].at)
          /\ UNCHANGED <<users, profiles, ringUsers, signups>>
      BY <1>5, <3>1 DEF TokenEffect, Approving
    <3>3. \A u : FileKey(u)' = FileKey(u)
      BY <3>2 DEF FileKey
    <3> QED BY <3>2, <3>3, LinksQuiet DEF Moves, Holding
  <2>11. CASE FinishApproval(w)
    <3>1. FinishEffect(w)
      BY <2>11, FinishDoes
    <3> DEFINE k == req[w].user
    <3>2. /\ Steps(w, "idle") /\ Approving(req[w].at) /\ UNCHANGED <<users, profiles, ringUsers>>
          /\ DOMAIN signups' \subseteq DOMAIN signups \union {k}
          /\ \A x \in DOMAIN signups : x # k => signups'[x] = signups[x]
          /\ k \in DOMAIN signups' => k \in DOMAIN users /\ signups'[k].ringName = req[w].ringName
      <4>1. CASE k \in DOMAIN users
        BY <3>1, <4>1 DEF FinishEffect, Approving, Wrote
      <4>2. CASE k \notin DOMAIN users
        BY <3>1, <4>2 DEF FinishEffect, Approving, Inv, Referential
      <4> QED BY <4>1, <4>2
    <3>3. \A u \in DOMAIN signups' : u = k => FileKey(u)' = RingKey(w)
      <4>1. k \in DOMAIN users => users[k].name = req[w].name
        BY <3>2 DEF Names
      <4> HIDE DEF k
      <4> QED BY <3>2, <4>1 DEF FileKey, RingKey
    <3>4. \A u \in DOMAIN signups' : u # k => u \in DOMAIN signups /\ FileKey(u)' = FileKey(u)
      BY <3>2 DEF FileKey
    <3>10. k \in DOMAIN profiles =>
             /\ profiles[k].ring \in DOMAIN ringUsers => ringUsers[profiles[k].ring].name = RingKey(w)
             /\ \A v \in Worker : req[v].at = "updateRing" /\ profiles[k].ring = req[v].ring =>
                  req[v].row.name = RingKey(w)
      BY <3>2 DEF Links, ProfileKeys, SavedKeys
    <3> HIDE DEF k
    <3>5. \A v \in Worker \ {w} : req'[v] = req[v] /\ RingKey(v)' = RingKey(v)
      BY <3>2 DEF Steps, RingKey
    <3>6. ~Approving(req'[w].at) /\ ~Holding(req'[w].at)
      BY <3>2 DEF Steps, Approving, Holding
    <3>7. ProfileKeys'
      <4>1. \A v \in Worker :
           Approving(req'[v].at) /\ req'[v].user \in DOMAIN profiles' =>
             LET x == profiles'[req'[v].user].ring IN
             x \in DOMAIN ringUsers' => ringUsers'[x].name = RingKey(v)'
        BY <3>2, <3>5, <3>6 DEF Links, ProfileKeys
      <4>2. \A u \in DOMAIN profiles' \intersect DOMAIN signups' :
           LET x == profiles'[u].ring IN
           x \in DOMAIN ringUsers' => ringUsers'[x].name = FileKey(u)'
        <5> SUFFICES ASSUME NEW u \in DOMAIN profiles' \intersect DOMAIN signups',
                            profiles[u].ring \in DOMAIN ringUsers
                     PROVE  ringUsers[profiles[u].ring].name = FileKey(u)'
          BY <3>2
        <5>1. CASE u = k
          BY <3>2, <3>3, <3>10, <5>1
        <5>2. CASE u # k
          BY <3>2, <3>4, <5>2 DEF Links, ProfileKeys
        <5> QED BY <5>1, <5>2
      <4> QED BY <4>1, <4>2 DEF ProfileKeys
    <3>8. HeldKeys'
      BY <3>2, <3>5, <3>6 DEF Links, HeldKeys, Holding
    <3>9. SavedKeys'
      <4> SUFFICES ASSUME NEW v \in Worker, req'[v].at = "updateRing"
                   PROVE  /\ \A u \in DOMAIN profiles \intersect DOMAIN signups' :
                               profiles[u].ring = req[v].ring => req[v].row.name = FileKey(u)'
                          /\ \A x \in Worker :
                               /\ Approving(req'[x].at) /\ req'[x].user \in DOMAIN profiles
                               /\ profiles[req'[x].user].ring = req[v].ring
                               => req[v].row.name = RingKey(x)'
        BY <3>2, <3>5, <3>6 DEF SavedKeys, Holding
      <4>1. req[v].at = "updateRing"
        BY <3>5, <3>6 DEF Holding
      <4>2. ASSUME NEW u \in DOMAIN profiles \intersect DOMAIN signups',
                   profiles[u].ring = req[v].ring
            PROVE  req[v].row.name = FileKey(u)'
        <5>1. CASE u = k
          BY <3>3, <3>10, <4>1, <4>2, <5>1
        <5>2. CASE u # k
          BY <3>4, <4>1, <4>2, <5>2 DEF Links, SavedKeys
        <5> QED BY <5>1, <5>2
      <4>3. \A x \in Worker :
              /\ Approving(req'[x].at) /\ req'[x].user \in DOMAIN profiles
              /\ profiles[req'[x].user].ring = req[v].ring
              => req[v].row.name = RingKey(x)'
        BY <3>5, <3>6, <4>1 DEF Links, SavedKeys
      <4> QED BY <4>2, <4>3
    <3> QED BY <3>7, <3>8, <3>9 DEF Links
  <2>12. CASE RejectUser(w)
    <3>1. RejectUserEffect(w)
      BY <2>12, RejectUserDoes
    <3> DEFINE k == req[w].user
    <3>2. /\ Steps(w, "deleteSignup") /\ UNCHANGED ringUsers
          /\ Erased(users, users', k) /\ Erased(profiles, profiles', k)
          /\ Erased(signups, signups', k)
      BY <3>1 DEF RejectUserEffect, Moves
    <3>3. \A v \in Worker \ {w} : req'[v] = req[v] /\ RingKey(v)' = RingKey(v)
      BY <3>2 DEF Steps, RingKey
    <3>4. ~Approving(req'[w].at) /\ ~Holding(req'[w].at)
      BY <3>2 DEF Steps, Approving, Holding
    <3>5. \A u \in DOMAIN profiles' \intersect DOMAIN signups' :
            /\ u \in DOMAIN profiles \intersect DOMAIN signups /\ profiles'[u] = profiles[u]
            /\ FileKey(u)' = FileKey(u)
      BY <1>0, <3>2 DEF Erased, FileKey
    <3>6. \A u \in DOMAIN profiles' : u \in DOMAIN profiles /\ profiles'[u] = profiles[u]
      BY <3>2 DEF Erased
    <3>7. ProfileKeys'
      BY <3>2, <3>3, <3>4, <3>5, <3>6 DEF Links, ProfileKeys
    <3>8. HeldKeys'
      BY <3>2, <3>3, <3>4 DEF Links, HeldKeys, Holding
    <3>9. SavedKeys'
      BY <3>2, <3>3, <3>4, <3>5, <3>6 DEF Links, SavedKeys, Holding
    <3> QED BY <3>7, <3>8, <3>9 DEF Links
  <2>13. CASE RejectSignup(w)
    <3>1. RejectSignupEffect(w)
      BY <2>13, RejectSignupDoes
    <3>2. /\ Steps(w, "idle") /\ UNCHANGED <<users, profiles, ringUsers>>
          /\ Erased(signups, signups', req[w].user)
      BY <3>1 DEF RejectSignupEffect
    <3>3. \A u \in DOMAIN signups' : u \in DOMAIN signups /\ FileKey(u)' = FileKey(u)
      BY <3>2 DEF Erased, FileKey
    <3> QED BY <3>2, <3>3, LinksQuiet DEF Holding, Approving
  <2> QED BY <1>5, <2>1, <2>2, <2>3, <2>4, <2>5, <2>6, <2>7, <2>8, <2>9, <2>10, <2>11, <2>12,
             <2>13 DEF Continue
<1>6. ASSUME NEW w \in Worker, RequestDies(w) PROVE Links'
  BY <1>4, <1>6, DieDoes DEF DieEffect
<1>7. ASSUME NEW r \in RingId, RingUserDestroyed(r) PROVE Links'
  <2>1. DestroyEffect(r)
    BY <1>7, DestroyDoes
  <2>2. /\ \A x \in DOMAIN ringUsers' : x \in DOMAIN ringUsers /\ ringUsers'[x] = ringUsers[x]
        /\ UNCHANGED <<users, profiles, signups, req>>
    BY <2>1 DEF DestroyEffect, Erased
  <2>3. (\A v : RingKey(v)' = RingKey(v)) /\ \A u : FileKey(u)' = FileKey(u)
    BY <2>2 DEF RingKey, FileKey
  <2> QED BY <2>2, <2>3 DEF Links, ProfileKeys, HeldKeys, SavedKeys
<1> QED BY <1>1, <1>2, <1>3, <1>4, <1>5, <1>6, <1>7 DEF Next

(* Every action keeps Sole.                                                *)
LEMMA SoleKept ==
  ASSUME Inv, Roles, Rings, Links, Removable = {} \/ OneAdmin, Sole, [Next]_vars
  PROVE  Sole'
<1>1. CASE UNCHANGED vars
  BY <1>1, SameSite DEF vars, storeVars, Sole
<1>2. ASSUME NEW w \in Visitor, VisitorBegins(w) PROVE Sole'
  <2>1. SubmitEffect(w) /\ w \in Worker
    BY <1>2, SubmitDoes DEF VisitorBegins, Worker
  <2> QED BY <2>1, SoleQuiet DEF SubmitEffect, tables, Holding
<1>3. ASSUME NEW w \in Admin, AdminBegins(w) PROVE Sole'
  <2>1. /\ w \in Worker /\ UNCHANGED tables
        /\ Steps(w, "findRing") \/ Steps(w, "deleteUser")
    BY <1>3, OpenApprovalDoes, OpenRejectionDoes
       DEF AdminBegins, Worker, OpenApprovalEffect, OpenRejectionEffect
  <2> QED BY <2>1, SoleQuiet DEF tables, Holding
<1>4. ASSUME NEW w \in Worker, Stops(w) PROVE Sole'
  BY <1>4, SoleQuiet DEF Stops, tables, Holding
<1>5. ASSUME NEW w \in Worker, Continue(w), ~Stops(w) PROVE Sole'
  <2>1. CASE SignupCreateUser(w) \/ Deactivate(w) \/ Queue(w) \/ RejectSignup(w)
    <3>1. /\ Steps(w, "deactivate") \/ Steps(w, "queue") \/ Steps(w, "idle")
          /\ UNCHANGED <<profiles, ringUsers>>
      BY <1>5, <2>1, CreateUserDoes, DeactivateDoes, QueueDoes, RejectSignupDoes
         DEF CreateUserEffect, DeactivateEffect, QueueEffect, RejectSignupEffect, Moves
    <3> QED BY <3>1, SoleQuiet DEF Holding
  <2>2. CASE Activate(w) \/ ApproveToken(w) \/ FinishApproval(w)
    <3>1. /\ Steps(w, "token") \/ Steps(w, "finish") \/ Steps(w, "idle")
          /\ UNCHANGED <<profiles, ringUsers>>
      BY <1>5, <2>2, ActivateDoes, TokenDoes, FinishDoes
         DEF ActivateEffect, TokenEffect, FinishEffect, Moves
    <3> QED BY <3>1, SoleQuiet DEF Holding
  <2>3. CASE FindRing(w)
    <3>1. FindRingEffect(w)
      BY <2>3, FindRingDoes
    <3>2. req[w].at = "findRing" /\ UNCHANGED <<profiles, ringUsers>>
      BY <3>1 DEF FindRingEffect, tables
    <3>3. req[w].user \in DOMAIN profiles /\ profiles[req[w].user].ring \in DOMAIN ringUsers =>
            /\ ringUsers[profiles[req[w].user].ring].name = RingKey(w)
            /\ Linked(w) = {profiles[req[w].user].ring}
      BY <3>2 DEF Links, ProfileKeys, Approving, Linked
    <3>4. CASE Moves(w, "createRing")
      <4>1. Linked(w) = {}
        BY <1>5, <3>1, <3>4 DEF FindRingEffect, Moves, Steps, Found
      <4>2. OneAdmin' <=> OneAdmin
        BY <3>4, SameSite DEF Moves, Steps
      <4> QED BY <3>2, <3>3, <3>4, <4>1, <4>2 DEF Sole, Moves, Steps, Holding
    <3>5. CASE ~Moves(w, "createRing")
      <4>1. /\ Moves(w, "updateRing") \/ Moves(w, "linkGet")
            /\ req'[w].ring \in Found(w)
        BY <1>5, <3>1, <3>5 DEF FindRingEffect
      <4>2. req[w].user \in DOMAIN profiles /\ profiles[req[w].user].ring \in DOMAIN ringUsers =>
              profiles[req[w].user].ring = req'[w].ring
        <5>1. CASE Named(w) = {}
          BY <3>3, <4>1, <5>1 DEF Found
        <5>2. CASE Named(w) # {}
          <6>1. req'[w].ring \in DOMAIN ringUsers /\ ringUsers[req'[w].ring].name = req[w].ringName
            BY <4>1, <5>2 DEF Found, Named
          <6>2. ringUsers[req'[w].ring] \in RingRow
            BY <6>1, RingRows DEF Inv, TablesOK, StoreTypeOK
          <6>3. req[w].ringName # None
            BY <6>1, <6>2, StoreAssumption DEF RingRow
          <6> QED BY <3>3, <6>1, <6>3 DEF RingKey, Rings
        <5> QED BY <5>1, <5>2
      <4>3. OneAdmin' <=> OneAdmin
        BY <4>1, SameSite DEF Moves, Steps
      <4> QED BY <3>2, <4>1, <4>2, <4>3 DEF Sole, Moves, Steps, Holding
    <3> QED BY <3>4, <3>5
  <2>4. CASE ApproveCreateRing(w) \/ UpdateRing(w)
    <3> DEFINE k == req'[w].ring
    <3>1. \/ CreateRingEffect(w)
          \/ UpdateRingEffect(w)
      BY <2>4, CreateRingDoes, UpdateRingDoes
    <3>2. /\ UNCHANGED profiles /\ Approving(req[w].at)
          /\ \/ Moves(w, "updateRing") /\ req[w].at = "createRing"
             \/ Moves(w, "linkGet") /\ req[w].ring = k /\ Holding(req[w].at)
          /\ DOMAIN ringUsers' = DOMAIN ringUsers \union {k}
      BY <1>5, <3>1 DEF CreateRingEffect, UpdateRingEffect, Wrote, Approving, Holding
    <3> SUFFICES ASSUME OneAdmin' PROVE Sole'
      BY DEF Sole
    <3>3. OneAdmin
      BY <3>2, SameSite DEF Moves, Steps
    <3>4. \A v \in Worker \ {w} : ~Approving(req'[v].at)
      BY <3>2, <3>3, NoneElseApproves DEF Moves, Steps
    <3>5. \A v \in Worker \ {w} : req'[v].at # "createRing" /\ ~Holding(req'[v].at)
      BY <3>4 DEF Approving, Holding
    <3>6. req[w].user \in DOMAIN profiles /\ profiles[req[w].user].ring \in DOMAIN ringUsers' =>
            profiles[req[w].user].ring = k
      BY <3>2, <3>3 DEF Sole, Holding
    <3>7. req'[w].user = req[w].user /\ Holding(req'[w].at)
      BY <3>2 DEF Moves, Steps, Holding
    <3> QED BY <3>2, <3>5, <3>6, <3>7 DEF Sole
  <2>5. CASE ApproveLinkGet(w)
    <3>1. LinkGetEffect(w)
      BY <2>5, LinkGetDoes
    <3>2. /\ Moves(w, "linkSave") /\ req[w].at = "linkGet" /\ req'[w].ring = req[w].ring
          /\ UNCHANGED ringUsers
      BY <1>5, <3>1 DEF LinkGetEffect
    <3>3. CASE UNCHANGED profiles
      BY <3>2, <3>3, SoleQuiet DEF Moves, Holding
    <3>4. CASE Wrote(profiles, profiles', req[w].user, [ring |-> req[w].ring, pdb |-> None])
      BY <3>2, <3>4, SoleLinked DEF Holding
    <3> QED BY <1>5, <3>1, <3>3, <3>4 DEF LinkGetEffect
  <2>6. CASE ApproveLinkSave(w)
    <3>1. LinkSaveEffect(w)
      BY <2>6, LinkSaveDoes
    <3>2. /\ Moves(w, "activate") /\ req[w].at = "linkSave"
          /\ req'[w].ring = req[w].ring /\ UNCHANGED ringUsers
          /\ Wrote(profiles, profiles', req[w].user, [ring |-> req[w].ring, pdb |-> req[w].pdb])
      BY <1>5, <3>1 DEF LinkSaveEffect
    <3> QED BY <3>2, SoleLinked DEF Holding
  <2>7. CASE RejectUser(w)
    <3>1. RejectUserEffect(w)
      BY <2>7, RejectUserDoes
    <3>2. /\ Steps(w, "deleteSignup") /\ UNCHANGED ringUsers
          /\ Erased(profiles, profiles', req[w].user)
      BY <3>1 DEF RejectUserEffect, Moves
    <3>3. OneAdmin' <=> OneAdmin
      BY <3>2, SameSite DEF Steps
    <3> QED BY <3>2, <3>3 DEF Sole, Steps, Erased, Holding
  <2> QED BY <1>5, <2>1, <2>2, <2>3, <2>4, <2>5, <2>6, <2>7 DEF Continue
<1>6. ASSUME NEW w \in Worker, RequestDies(w) PROVE Sole'
  BY <1>4, <1>6, DieDoes DEF DieEffect
<1>7. ASSUME NEW r \in RingId, RingUserDestroyed(r) PROVE Sole'
  <2>1. DestroyEffect(r)
    BY <1>7, DestroyDoes
  <2>2. /\ DOMAIN ringUsers' \subseteq DOMAIN ringUsers /\ UNCHANGED <<profiles, req>>
        /\ OneAdmin' <=> OneAdmin
    BY <2>1, SameSite DEF DestroyEffect, Erased
  <2> QED BY <2>2 DEF Sole
<1> QED BY <1>1, <1>2, <1>3, <1>4, <1>5, <1>6, <1>7 DEF Next

(* The save of the profile: the one step that could move the account.      *)
LEMMA SaveKeepsLink ==
  ASSUME Inv, Roles, Rings, Links, Removable = {} \/ OneAdmin, Sole,
         NEW w \in Worker, req[w].at = "linkSave",
         req[w].user \in DOMAIN profiles, profiles[req[w].user].ring \in DOMAIN ringUsers
  PROVE  profiles[req[w].user].ring = req[w].ring
<1>1. CASE OneAdmin
  BY <1>1 DEF Sole, Holding
<1>2. CASE Removable = {}
  <2>1. req[w].ring \in DOMAIN ringUsers /\ ringUsers[req[w].ring].name = RingKey(w)
    BY <1>2 DEF Rings, Links, HeldKeys, Holding
  <2>2. ringUsers[profiles[req[w].user].ring].name = RingKey(w)
    BY DEF Links, ProfileKeys, Approving
  <2> QED BY <2>1, <2>2 DEF Rings
<1> QED BY <1>1, <1>2

(***************************************************************************)
(* Where ring users are not deleted, or one admin is at work, an account   *)
(* that is linked to a live ring user stays linked to it, however many     *)
(* approvals of its signup ran at once, or died and were repeated.         *)
(***************************************************************************)
THEOREM LinksAreStable == Spec => LinkIsStable
<1> DEFINE Tame == Removable = {} \/ OneAdmin
           Linking == Inv /\ Roles /\ Rings /\ Names /\ (Tame => Links /\ Sole)
<1>1. Init => Linking
  <2> SUFFICES ASSUME Init PROVE Linking
    OBVIOUS
  <2>1. Rings
    <3>1. ringUsers = SeedRing /\ lastRing = Len(SeedRing) /\ SeedRing \in Seq(RingRow)
      BY StoreAssumption DEF Init, StoreInit
    <3>2. DOMAIN ringUsers = 1..lastRing
      BY <3>1
    <3>3. \A r, x \in DOMAIN ringUsers : ringUsers[r].name = ringUsers[x].name => r = x
      BY <3>1, StoreAssumption
    <3> QED BY <3>2, <3>3, AllIdle, NoRows DEF Rings, Holding
  <2>2. Names
    BY AllIdle, NoRows DEF Names, Approving, Creating
  <2>3. Links
    BY AllIdle, NoRows DEF Links, ProfileKeys, HeldKeys, SavedKeys, Approving, Holding
  <2>4. Sole
    BY AllIdle DEF Sole, Holding
  <2> QED BY <2>1, <2>2, <2>3, <2>4, InitEstablishesInv, InitEstablishesRoles
<1>2. Linking /\ [Next]_vars => Linking'
  <2> SUFFICES ASSUME Linking, [Next]_vars PROVE Linking'
    OBVIOUS
  <2>1. Tame' <=> Tame
    BY NextSameSite, SameSite
  <2>2. Tame => Links' /\ Sole'
    BY LinksKept, SoleKept
  <2> QED BY <2>1, <2>2, NextKeepsInv, RolesKept, RingsKept, NamesKept
<1>3. Linking /\ [Next]_vars =>
        [Removable = {} \/ OneAdmin =>
           \A u \in DOMAIN profiles \intersect DOMAIN profiles' :
             profiles[u].ring \in DOMAIN ringUsers => profiles'[u].ring = profiles[u].ring]_vars
  <2> SUFFICES ASSUME Linking, Tame, Next,
                      NEW u \in DOMAIN profiles \intersect DOMAIN profiles',
                      profiles[u].ring \in DOMAIN ringUsers
               PROVE  profiles'[u].ring = profiles[u].ring
    OBVIOUS
  <2>1. ASSUME NEW w \in Worker, Continue(w) PROVE profiles'[u].ring = profiles[u].ring
    <3>1. CASE ApproveLinkGet(w)
      <4>1. LinkGetEffect(w)
        BY <3>1, LinkGetDoes
      <4> QED BY <4>1 DEF LinkGetEffect, Stops, tables, Wrote
    <3>2. CASE ApproveLinkSave(w)
      <4>1. LinkSaveEffect(w)
        BY <3>2, LinkSaveDoes
      <4>2. CASE UNCHANGED profiles
        BY <4>2
      <4>3. CASE Wrote(profiles, profiles', req[w].user, [ring |-> req[w].ring, pdb |-> req[w].pdb])
        <5>1. req[w].at = "linkSave"
          BY <4>1 DEF LinkSaveEffect
        <5>2. u = req[w].user => profiles[u].ring = req[w].ring
          BY <5>1, SaveKeepsLink
        <5> QED BY <4>3, <5>2 DEF Wrote
      <4> QED BY <4>1, <4>2, <4>3 DEF LinkSaveEffect, Stops, tables
    <3>3. CASE RejectUser(w)
      <4>1. RejectUserEffect(w)
        BY <3>3, RejectUserDoes
      <4> QED BY <4>1 DEF RejectUserEffect, Erased
    <3>4. CASE ~ApproveLinkGet(w) /\ ~ApproveLinkSave(w) /\ ~RejectUser(w)
      <4>1. UNCHANGED profiles
        BY <2>1, <3>4 DEF Continue, SignupCreateUser, CreateUser, Deactivate, SaveUser, Queue,
           FindRing, ApproveCreateRing, CreateRing, UpdateRing, Activate, ApproveToken,
           IssueToken, FinishApproval, RejectSignup
      <4> QED BY <4>1
    <3> QED BY <3>1, <3>2, <3>3, <3>4
  <2>2. ASSUME NEW w \in Visitor, VisitorBegins(w) PROVE UNCHANGED profiles
    BY <2>2 DEF VisitorBegins, SubmitSignup
  <2>3. ASSUME NEW w \in Admin, AdminBegins(w) PROVE UNCHANGED profiles
    BY <2>3 DEF AdminBegins, OpenApproval, OpenRejection
  <2>4. ASSUME NEW w \in Worker, RequestDies(w) PROVE UNCHANGED profiles
    BY <2>4 DEF RequestDies, Die
  <2>5. ASSUME NEW r \in RingId, RingUserDestroyed(r) PROVE UNCHANGED profiles
    BY <2>5 DEF RingUserDestroyed, DestroyRingUser
  <2> QED BY <2>1, <2>2, <2>3, <2>4, <2>5 DEF Next
<1> QED BY <1>1, <1>2, <1>3, PTL DEF Spec, LinkIsStable
=============================================================================
