---------------------------- MODULE OAuthSession ----------------------------
(***************************************************************************)
(* What a browser's session carries through a PeeringDB login              *)
(* (ring/views.py: peeringdb_login, peeringdb_callback, peeringdb_pick):   *)
(* the OAuth state between redirect and callback, the profile between      *)
(* callback and choice of a network, and at last the account.              *)
(*                                                                         *)
(* A request loads the whole session as it begins and saves the whole of   *)
(* it as it ends; while it waits for PeeringDB others of the same browser  *)
(* come and go.  auth_login alone writes to the session table at once.     *)
(* What _pdb_provision does is PdbLogin's business: here it has an outcome.*)
(***************************************************************************)
EXTENDS Naturals, FiniteSets, Sequences

CONSTANTS
  Browser,
  Pdb,        \* PeeringDB users, and what they log in as here
  Networks,   \* Pdb -> the networks of the profile: [asn, perms]
  Worker,     \* requests in progress at once
  MaxFlow,    \* bound: logins that are begun
  MaxSession, \* bound: session keys that are given out
  Deployments,\* sequence: what a behaviour may find around it, see below
  None        \* nothing: Python None, no cookie, no session row

Flow == 1..MaxFlow
SessionKey == 1..MaxSession
Opt(S) == S \union {None}
Put(t, k, row) == [x \in DOMAIN t \union {k} |-> IF x = k THEN row ELSE t[x]]
Without(t, k) == [x \in DOMAIN t \ {k} |-> t[x]]

ASSUME OAuthAssumption ==
  /\ MaxFlow \in Nat /\ MaxSession \in Nat
  /\ \A p \in Pdb : \A n \in Networks[p] : n.asn \in Opt(Nat) /\ n.perms \in 0..15
  /\ \A i \in DOMAIN Deployments : Deployments[i].serial \in BOOLEAN /\ Deployments[i].begun \in 0..MaxFlow
  /\ None \notin Nat \union Pdb

VARIABLES
  sessions,    \* django_session: key -> data
  lastKey,     \* keys are random: none is given twice
  cookie,      \* Browser -> session key, which may be of a deleted session
  flows,       \* logins begun, in order; state and code carry their number
  req,         \* Worker -> the request in progress
  fresh,       \* history: Browser -> its newest login, until something meets it
  deployment   \* which of Deployments; no step changes it

vars == <<sessions, lastKey, cookie, flows, req, fresh, deployment>>

(* Do requests come one after the other?  How many logins are begun?       *)
Serial == Deployments[deployment].serial
Begun == Deployments[deployment].begun

(***************************************************************************)
(* pdb_state, the login whose profile pdb_profile is, and the account.  Of *)
(* a login: the browser that began it, who consented at PeeringDB, whether *)
(* the code is spent, and how often it has logged in (none, once, more).   *)
(***************************************************************************)
Data == [state: Opt(Flow), profile: Opt(Flow), user: Opt(Pdb)]
Empty == [state |-> None, profile |-> None, user |-> None]
FlowRow == [browser: Browser, consent: Opt(Pdb), spent: BOOLEAN, logins: 0..2]
Request == [at: {"idle", "exchange", "enter", "save"}, browser: Opt(Browser),
            key: Opt(SessionKey), data: Data, flow: Opt(Flow), changed: BOOLEAN]
Idle == [at |-> "idle", browser |-> None, key |-> None, data |-> Empty,
         flow |-> None, changed |-> FALSE]

TypeOK ==
  /\ DOMAIN sessions \subseteq 1..lastKey /\ sessions \in [DOMAIN sessions -> Data]
  /\ lastKey \in 0..MaxSession
  /\ cookie \in [Browser -> Opt(1..lastKey)]
  /\ flows \in Seq(FlowRow) /\ Len(flows) <= MaxFlow
  /\ req \in [Worker -> Request]
  /\ \A w \in Worker : req[w].at \in {"exchange", "enter"} =>
       req[w].flow \in DOMAIN flows /\ flows[req[w].flow].consent # None
  /\ fresh \in [Browser -> Opt(DOMAIN flows)]
  /\ deployment \in DOMAIN Deployments

Init ==
  /\ deployment \in DOMAIN Deployments
  /\ sessions = << >> /\ lastKey = 0
  /\ cookie = [b \in Browser |-> None]
  /\ flows = << >>
  /\ req = [w \in Worker |-> Idle]
  /\ fresh = [b \in Browser |-> None]

-----------------------------------------------------------------------------
(***************************************************************************)
(* _pdb_candidates: the networks with any permission and an ASN; of these  *)
(* only the ones with permission to create, if there are any.              *)
(***************************************************************************)
Manageable(p) == {n \in Networks[p] : n.perms # 0 /\ n.asn \notin {None, 0}}
Creatable(p) == {n \in Manageable(p) : n.perms >= 8}
Candidates(p) == IF Creatable(p) # {} THEN Creatable(p) ELSE Manageable(p)

(* A request of browser b begins, with its session or an empty one.        *)
Loaded(b) == IF cookie[b] \in DOMAIN sessions THEN sessions[cookie[b]] ELSE Empty

Arrive(w, b, at, data, flow) ==
  /\ req[w] = Idle
  /\ Serial => \A v \in Worker : req[v] = Idle
  /\ req' = [req EXCEPT ![w] =
       [at |-> at, browser |-> b, data |-> data, flow |-> flow,
        key |-> IF cookie[b] \in DOMAIN sessions THEN cookie[b] ELSE None,
        changed |-> data # Loaded(b)]]

Go(w, at) == req' = [req EXCEPT ![w].at = at]
End(w) == req' = [req EXCEPT ![w] = Idle]
Consenter(w) == flows[req[w].flow].consent
Meets(b) == fresh' = [fresh EXCEPT ![b] = None]

(* peeringdb_login: a new state replaces the one of an earlier login.      *)
BeginLogin(w, b) ==
  /\ Len(flows) < Begun
  /\ flows' = Append(flows, [browser |-> b, consent |-> None, spent |-> FALSE, logins |-> 0])
  /\ Arrive(w, b, "save", [Loaded(b) EXCEPT !.state = Len(flows')], Len(flows'))
  /\ fresh' = [fresh EXCEPT ![b] = IF Serial THEN Len(flows') ELSE None]
  /\ UNCHANGED <<sessions, lastKey, cookie, deployment>>

(* At PeeringDB: somebody consents, once the redirect has got there.       *)
Consent(i, p) ==
  /\ i \in DOMAIN flows /\ flows[i].consent = None
  /\ \A w \in Worker : req[w].flow # i
  /\ flows' = [flows EXCEPT ![i].consent = p]
  /\ UNCHANGED <<sessions, lastKey, cookie, req, fresh, deployment>>

(* Mutant: any state will do, as long as the session has one.              *)
AnyStateMatches(b, i) == Loaded(b).state # None
Matches(b, i) == Loaded(b).state = i

(***************************************************************************)
(* peeringdb_callback, at whatever browser the URL is opened: the session  *)
(* gives up its state, whether it is the one of the URL or not.            *)
(***************************************************************************)
Callback(w, b, i) ==
  /\ i \in DOMAIN flows /\ flows[i].consent # None
  /\ Arrive(w, b, IF Matches(b, i) THEN "exchange" ELSE "save",
            [Loaded(b) EXCEPT !.state = None], i)
  /\ Meets(b)
  /\ UNCHANGED <<sessions, lastKey, cookie, flows, deployment>>

(***************************************************************************)
(* exchange_code and fetch_profile: PeeringDB takes a code once, and either*)
(* call may fail.  A profile with several networks waits for a choice.     *)
(***************************************************************************)
Exchange(w) ==
  LET i == req[w].flow
      offers == Cardinality(Candidates(Consenter(w)))
  IN
  /\ req[w].at = "exchange"
  /\ \/ /\ \E spent \in {flows[i].spent, TRUE} : flows' = [flows EXCEPT ![i].spent = spent]
        /\ Go(w, "save")
     \/ /\ ~flows[i].spent
        /\ flows' = [flows EXCEPT ![i].spent = TRUE]
        /\ req' = [req EXCEPT ![w] =
             CASE offers = 0 -> [@ EXCEPT !.at = "save"]
               [] offers = 1 -> [@ EXCEPT !.at = "enter"]
               [] OTHER      -> [@ EXCEPT !.at = "save", !.data.profile = i, !.changed = TRUE]]
  /\ UNCHANGED <<sessions, lastKey, cookie, fresh, deployment>>

(* Mutant: nobody asks whether a profile waits.                            *)
PickUnasked(w, b, at) ==
  /\ Arrive(w, b, at, [Loaded(b) EXCEPT !.profile = None], Loaded(b).profile)
  /\ UNCHANGED <<sessions, lastKey, cookie, flows, fresh, deployment>>
(* Mutant: the whole session is cleared.                                   *)
PickClears(w, b, at) ==
  /\ Loaded(b).profile # None
  /\ Arrive(w, b, at, [Empty EXCEPT !.user = Loaded(b).user], Loaded(b).profile)
  /\ UNCHANGED <<sessions, lastKey, cookie, flows, fresh, deployment>>
(* Mutant: the profile is left in the session.                             *)
PickKeeps(w, b, at) ==
  /\ Loaded(b).profile # None
  /\ Arrive(w, b, at, Loaded(b), Loaded(b).profile)
  /\ UNCHANGED <<sessions, lastKey, cookie, flows, fresh, deployment>>

(***************************************************************************)
(* POST to peeringdb_pick: the profile leaves the session; an ASN that is  *)
(* not on offer is refused, another is entered with.                       *)
(***************************************************************************)
Pick(w, b, at) ==
  /\ Loaded(b).profile # None
  /\ Arrive(w, b, at, [Loaded(b) EXCEPT !.profile = None], Loaded(b).profile)
  /\ UNCHANGED <<sessions, lastKey, cookie, flows, fresh, deployment>>

(***************************************************************************)
(* _pdb_provision.  It may end without an account (queued or blocked), or  *)
(* raise: of an HTTP 500 the session is not saved.  auth_login flushes a   *)
(* session of another account, and gives a session of none a new key.      *)
(***************************************************************************)
EnterLogsIn(w) ==
  LET q == req[w] IN
  /\ q.at = "enter"
  /\ flows' = [flows EXCEPT ![q.flow].logins = IF @ < 2 THEN @ + 1 ELSE @]
  /\ \/ /\ q.data.user = None
        /\ lastKey < MaxSession
        /\ lastKey' = lastKey + 1
        /\ sessions' = Put(Without(sessions, q.key), lastKey', Empty)
        /\ req' = [req EXCEPT ![w].at = "save", ![w].key = lastKey', ![w].changed = TRUE,
                     ![w].data.user = Consenter(w)]
        /\ UNCHANGED fresh
     \/ /\ q.data.user = Consenter(w)
        /\ Go(w, "save")
        /\ UNCHANGED <<sessions, lastKey, fresh>>
     \/ /\ q.data.user \notin {None, Consenter(w)}
        /\ sessions' = Without(sessions, q.key)
        /\ req' = [req EXCEPT ![w].at = "save", ![w].key = None, ![w].changed = TRUE,
                     ![w].data = [Empty EXCEPT !.user = Consenter(w)]]
        /\ Meets(q.browser)
        /\ UNCHANGED lastKey
  /\ UNCHANGED <<cookie, deployment>>

EnterElse(w) ==
  /\ req[w].at = "enter"
  /\ Go(w, "save") \/ End(w)
  /\ UNCHANGED <<sessions, lastKey, cookie, flows, fresh, deployment>>

(***************************************************************************)
(* The session middleware: what changed is saved, under a new key if there *)
(* was none; a session that was deleted meanwhile is not brought back      *)
(* (SessionInterrupted, HTTP 400).  The response sets the cookie.          *)
(***************************************************************************)
Save(w) ==
  LET q == req[w] IN
  /\ q.at = "save"
  /\ \/ /\ ~q.changed \/ (q.key # None /\ q.key \notin DOMAIN sessions)
        /\ UNCHANGED <<sessions, lastKey, cookie>>
     \/ /\ q.changed /\ q.key \in DOMAIN sessions
        /\ sessions' = Put(sessions, q.key, q.data)
        /\ cookie' = [cookie EXCEPT ![q.browser] = q.key]
        /\ UNCHANGED lastKey
     \/ /\ q.changed /\ q.key = None
        /\ lastKey < MaxSession
        /\ lastKey' = lastKey + 1
        /\ sessions' = Put(sessions, lastKey', q.data)
        /\ cookie' = [cookie EXCEPT ![q.browser] = lastKey']
  /\ End(w)
  /\ UNCHANGED <<flows, fresh, deployment>>

(* LogoutView: the session is flushed, the cookie deleted.                 *)
Logout(b) ==
  /\ Serial => \A w \in Worker : req[w] = Idle
  /\ cookie[b] # None
  /\ sessions' = Without(sessions, cookie[b])
  /\ cookie' = [cookie EXCEPT ![b] = None]
  /\ Meets(b)
  /\ UNCHANGED <<lastKey, flows, req, deployment>>

-----------------------------------------------------------------------------
Next ==
  \/ \E w \in Worker, b \in Browser :
       \/ BeginLogin(w, b)
       \/ \E i \in Flow : Callback(w, b, i)
       \/ \E at \in {"enter", "save"} : Pick(w, b, at)
  \/ \E w \in Worker : Exchange(w) \/ EnterLogsIn(w) \/ EnterElse(w) \/ Save(w)
  \/ \E i \in Flow, p \in Pdb : Consent(i, p)
  \/ \E b \in Browser : Logout(b)

Spec == Init /\ [][Next]_vars

-----------------------------------------------------------------------------
(***************************************************************************)
(* "state validation is enforced between login and callback"               *)
(* (docs/peeringdb-oauth.md:142): whoever a browser is logged in as, and   *)
(* whoever's profile waits for a choice there, consented in a login that   *)
(* this browser began, however its requests overlap and wherever callback  *)
(* URLs are opened.                                                        *)
(***************************************************************************)
SessionIsOwn ==
  \A b \in Browser : cookie[b] \in DOMAIN sessions =>
    LET data == sessions[cookie[b]] IN
    /\ data.user # None =>
         \E i \in DOMAIN flows : flows[i].browser = b /\ flows[i].consent = data.user
    /\ data.profile # None => flows[data.profile].browser = b

(***************************************************************************)
(* One consent logs in once, whatever is reloaded or posted again, as long *)
(* as requests come one after the other.  (A choice that is posted twice at*)
(* once enters twice: both requests loaded the waiting profile.)           *)
(***************************************************************************)
ConsentLogsInOnce == Serial => \A i \in DOMAIN flows : flows[i].logins <= 1

(***************************************************************************)
(* The state of the newest login is there for its callback, as long as     *)
(* requests come one after the other and no callback, login as another     *)
(* user or logout came in between: a choice of network leaves it alone.    *)
(***************************************************************************)
FreshLoginIsAwaited ==
  Serial => \A b \in Browser :
    fresh[b] # None /\ (\A w \in Worker : req[w] = Idle) => Matches(b, fresh[b])
=============================================================================
