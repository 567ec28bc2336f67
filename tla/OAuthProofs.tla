----------------------------- MODULE OAuthProofs -----------------------------
(***************************************************************************)
(* Proofs about OAuthSession, for any number of browsers, PeeringDB users, *)
(* requests in progress, logins and session keys.                          *)
(*                                                                         *)
(* SessionIsOwn is not inductive: what a request saves is what it loaded,  *)
(* and was handed by PeeringDB, some steps before.  The inductive          *)
(* invariant Inv adds                                                      *)
(*   - that everything a request holds, the state between redirect and     *)
(*     callback included, is of a login that its own browser began;        *)
(*   - that no session key is in the hands of two browsers.                *)
(* What holds of requests that come one after the other has an invariant   *)
(* of its own, Orderly, further down.                                      *)
(***************************************************************************)
EXTENDS OAuthSession, TLAPS

(* Session data d is browser b's own, as far as the logins f tell.         *)
Owned(f, b, d) ==
  /\ d.state # None => d.state \in DOMAIN f /\ f[d.state].browser = b
  /\ d.profile # None => /\ d.profile \in DOMAIN f
                         /\ f[d.profile].browser = b /\ f[d.profile].consent # None
  /\ d.user # None => \E i \in DOMAIN f : f[i].browser = b /\ f[i].consent = d.user

(* Logins are only ever added, and a consent is given once.                *)
Grows(f, g) ==
  /\ DOMAIN f \subseteq DOMAIN g
  /\ \A i \in DOMAIN f : /\ g[i].browser = f[i].browser
                         /\ f[i].consent # None => g[i].consent = f[i].consent

(* A request q in progress holds what is its browser's.                    *)
HoldsOwn(f, last, q) ==
  /\ q.at = "idle" => q = Idle
  /\ q.at # "idle" => /\ q.browser \in Browser
                      /\ q.key \in Opt(1..last)
                      /\ Owned(f, q.browser, q.data)
  /\ q.at \in {"exchange", "enter"} =>
       q.flow \in DOMAIN f /\ f[q.flow].browser = q.browser /\ f[q.flow].consent # None

RequestsHoldOwn == \A w \in Worker : HoldsOwn(flows, lastKey, req[w])

SessionsAreOwn ==
  \A b \in Browser : cookie[b] \in DOMAIN sessions => Owned(flows, b, sessions[cookie[b]])

(* A key that two have is in one browser.                                  *)
KeysApart ==
  /\ \A b, c \in Browser : cookie[b] # None /\ cookie[b] = cookie[c] => b = c
  /\ \A w \in Worker, b \in Browser :
       req[w].key # None /\ req[w].key = cookie[b] => req[w].browser = b
  /\ \A w, v \in Worker :
       req[w].key # None /\ req[w].key = req[v].key => req[w].browser = req[v].browser

Inv == TypeOK /\ RequestsHoldOwn /\ SessionsAreOwn /\ KeysApart

(* What is a browser's own stays its own as logins go on.                  *)
LEMMA OwnedPersists ==
  ASSUME NEW f, NEW g, Grows(f, g), NEW b, NEW d, Owned(f, b, d)
  PROVE  Owned(g, b, d)
BY DEF Owned, Grows

(* So does what a request holds.                                           *)
LEMMA HoldsOwnPersists ==
  ASSUME NEW f, NEW g, Grows(f, g), NEW m \in Nat, NEW n \in Nat, m <= n,
         NEW q, HoldsOwn(f, m, q)
  PROVE  HoldsOwn(g, n, q)
<1>1. Opt(1..m) \subseteq Opt(1..n)
  BY DEF Opt
<1>2. q.at # "idle" => Owned(g, q.browser, q.data)
  BY OwnedPersists DEF HoldsOwn
<1> QED BY <1>1, <1>2 DEF HoldsOwn, Grows

(* None is no number, and what may be missing may be there.                *)
LEMMA NoneFacts ==
  /\ None \notin Nat
  /\ \A S : None \in Opt(S) /\ S \subseteq Opt(S)
  /\ \A S : \A x \in Opt(S) : x # None => x \in S
BY OAuthAssumption DEF Opt

(* Nothing is in an empty session, and nothing in an idle worker's hands.  *)
LEMMA IdleFacts ==
  /\ Empty \in Data /\ Idle \in Request
  /\ Idle.at = "idle" /\ Idle.key = None
  /\ \A f, b : Owned(f, b, Empty)
  /\ \A f, n : HoldsOwn(f, n, Idle)
<1>1. Empty \in Data /\ Empty.state = None /\ Empty.profile = None /\ Empty.user = None
  BY NoneFacts DEF Empty, Data
<1>2. Idle \in Request /\ Idle.at = "idle" /\ Idle.key = None
  BY <1>1, NoneFacts DEF Idle, Request
<1> QED BY <1>1, <1>2 DEF Owned, HoldsOwn

(* What a request loads as it begins is its browser's own.                 *)
LEMMA LoadedIsOwn ==
  ASSUME Inv, NEW b \in Browser
  PROVE  Loaded(b) \in Data /\ Owned(flows, b, Loaded(b))
BY IdleFacts DEF Inv, TypeOK, SessionsAreOwn, Loaded

(* A request begins: what it holds then.                                   *)
LEMMA ArriveFacts ==
  ASSUME Inv, NEW w \in Worker, NEW b \in Browser, NEW at \in {"exchange", "enter", "save"},
         NEW data \in Data, NEW flow \in Opt(Flow), Arrive(w, b, at, data, flow)
  PROVE  /\ req' \in [Worker -> Request]
         /\ \A v \in Worker \ {w} : req'[v] = req[v]
         /\ req[w] = Idle
         /\ req'[w].at = at /\ req'[w].browser = b /\ req'[w].data = data
         /\ req'[w].flow = flow /\ (data # Loaded(b) => req'[w].changed)
         /\ req'[w].key \in Opt(1..lastKey)
         /\ req'[w].key = IF cookie[b] \in DOMAIN sessions THEN cookie[b] ELSE None
<1> DEFINE key == IF cookie[b] \in DOMAIN sessions THEN cookie[b] ELSE None
           q == [at |-> at, browser |-> b, data |-> data, flow |-> flow,
                 key |-> key, changed |-> data # Loaded(b)]
<1>1. /\ key \in Opt(1..lastKey) /\ 1..lastKey \subseteq SessionKey
      /\ req \in [Worker -> Request]
  BY NoneFacts, OAuthAssumption DEF Inv, TypeOK, SessionKey, Opt
<1>2. q \in Request
  BY <1>1 DEF Request, Opt
<1>3. req[w] = Idle /\ req' = [req EXCEPT ![w] = q]
  BY DEF Arrive
<1>4. req'[w] = q /\ req' \in [Worker -> Request] /\ \A v \in Worker \ {w} : req'[v] = req[v]
  BY <1>1, <1>2, <1>3
<1> QED BY <1>1, <1>3, <1>4

(***************************************************************************)
(* A step that writes no session keeps the invariant if the logins only    *)
(* grow, a request that changed holds what is its browser's, and its key   *)
(* is the one it had or the one of its browser's cookie.                   *)
(***************************************************************************)
LEMMA RequestMoves ==
  ASSUME Inv,
         UNCHANGED <<sessions, lastKey, cookie, deployment>>,
         flows' \in Seq(FlowRow), Len(flows') <= MaxFlow, Grows(flows, flows'),
         fresh' \in [Browser -> Opt(DOMAIN flows')],
         req' \in [Worker -> Request],
         \A w \in Worker :
           \/ req'[w] = req[w]
           \/ /\ HoldsOwn(flows', lastKey, req'[w])
              /\ \/ req'[w].key = None
                 \/ req'[w].key = req[w].key /\ req'[w].browser = req[w].browser
                 \/ req'[w].key = cookie[req'[w].browser] /\ req'[w].browser \in Browser
  PROVE  Inv'
<1>1. lastKey \in Nat
  BY DEF Inv, TypeOK
<1>2. \A v \in Worker : HoldsOwn(flows', lastKey', req'[v])
  BY <1>1, HoldsOwnPersists DEF Inv, RequestsHoldOwn
<1>3. RequestsHoldOwn'
  BY <1>2 DEF RequestsHoldOwn
<1>4. SessionsAreOwn'
  BY OwnedPersists DEF Inv, SessionsAreOwn
<1>5. KeysApart'
  BY DEF Inv, KeysApart
<1>6. TypeOK'
  BY <1>2 DEF Inv, TypeOK, HoldsOwn
<1> QED BY <1>3, <1>4, <1>5, <1>6 DEF Inv

(* Logins that are left alone have grown, in that nothing is gone.         *)
LEMMA SameFlows == Inv => Grows(flows, flows) /\ flows \in Seq(FlowRow) /\ Len(flows) <= MaxFlow
BY DEF Inv, TypeOK, Grows

(* The state that is handed out is of a login of this browser.             *)
LEMMA BeginLoginKeepsInv ==
  ASSUME Inv, NEW w \in Worker, NEW b \in Browser, BeginLogin(w, b)
  PROVE  Inv'
<1> DEFINE row == [browser |-> b, consent |-> None, spent |-> FALSE, logins |-> 0]
           n == Len(flows) + 1
           data == [Loaded(b) EXCEPT !.state = n]
<1>1. /\ flows \in Seq(FlowRow) /\ flows' = Append(flows, row) /\ row \in FlowRow
      /\ Len(flows) < MaxFlow /\ UNCHANGED <<sessions, lastKey, cookie, deployment>>
  BY NoneFacts, OAuthAssumption DEF Inv, TypeOK, BeginLogin, FlowRow, Begun
<1>2. /\ flows' \in Seq(FlowRow) /\ Len(flows') = n /\ DOMAIN flows' = 1..n /\ DOMAIN flows = 1..(n - 1)
      /\ n \in DOMAIN flows' /\ \A i \in DOMAIN flows : flows'[i] = flows[i]
      /\ flows'[n].browser = b /\ n \in Flow /\ Len(flows) \in Nat /\ Len(flows') <= MaxFlow
  BY <1>1, OAuthAssumption DEF Flow
<1>3. Grows(flows, flows')
  BY <1>2 DEF Grows
<1>4. data \in Data /\ Owned(flows', b, data)
  <2>1. Loaded(b) \in Data /\ Owned(flows', b, Loaded(b))
    BY <1>3, LoadedIsOwn, OwnedPersists
  <2>2. data \in Data /\ data.state = n /\ data.profile = Loaded(b).profile /\ data.user = Loaded(b).user
    BY <2>1, <1>2 DEF Data, Opt
  <2> QED BY <2>1, <2>2, <1>2 DEF Owned
<1>5. Arrive(w, b, "save", data, n) /\ n \in Opt(Flow)
  BY <1>2 DEF BeginLogin, Opt
<1> HIDE DEF data
<1>6. /\ req' \in [Worker -> Request] /\ \A v \in Worker \ {w} : req'[v] = req[v]
      /\ req'[w].at = "save" /\ req'[w].browser = b /\ req'[w].data = data
      /\ req'[w].key \in Opt(1..lastKey)
      /\ req'[w].key = IF cookie[b] \in DOMAIN sessions THEN cookie[b] ELSE None
  BY <1>4, <1>5, ArriveFacts
<1>7. HoldsOwn(flows', lastKey, req'[w])
  BY <1>4, <1>6 DEF HoldsOwn
<1>8. fresh' \in [Browser -> Opt(DOMAIN flows')]
  BY <1>2 DEF BeginLogin, Inv, TypeOK, Opt
<1> QED BY <1>1, <1>2, <1>3, <1>6, <1>7, <1>8, RequestMoves

(* A request that ends takes what it holds with it.                        *)
LEMMA EndKeepsInv ==
  ASSUME Inv, NEW w \in Worker, End(w), flows' \in Seq(FlowRow), Len(flows') <= MaxFlow,
         Grows(flows, flows'), DOMAIN flows' = DOMAIN flows,
         UNCHANGED <<sessions, lastKey, cookie, fresh, deployment>>
  PROVE  Inv'
<1>1. /\ req' \in [Worker -> Request] /\ \A v \in Worker \ {w} : req'[v] = req[v]
      /\ req'[w] = Idle
  BY IdleFacts DEF End, Inv, TypeOK
<1>2. fresh' \in [Browser -> Opt(DOMAIN flows')]
  BY DEF Inv, TypeOK
<1> QED BY <1>1, <1>2, IdleFacts, RequestMoves

(* Moving on changes nothing else that a request holds.                    *)
LEMMA GoFacts ==
  ASSUME req \in [Worker -> Request], NEW w \in Worker, NEW at \in {"enter", "save"}, Go(w, at)
  PROVE  /\ req' \in [Worker -> Request]
         /\ \A v \in Worker \ {w} : req'[v] = req[v]
         /\ req'[w].at = at /\ req'[w].browser = req[w].browser /\ req'[w].key = req[w].key
         /\ req'[w].data = req[w].data /\ req'[w].flow = req[w].flow
         /\ req'[w].changed = req[w].changed
BY DEF Go, Request

(* A step of a login: the others stay as they are.                         *)
Changed(f, i, row) == [f EXCEPT ![i] = row]
LEMMA FlowChange ==
  ASSUME NEW f \in Seq(FlowRow), NEW i \in DOMAIN f, NEW row \in FlowRow,
         row.browser = f[i].browser, f[i].consent # None => row.consent = f[i].consent
  PROVE  LET g == Changed(f, i, row) IN
         /\ g \in Seq(FlowRow) /\ Len(g) = Len(f) /\ DOMAIN g = DOMAIN f
         /\ Grows(f, g) /\ g[i] = row /\ \A j \in DOMAIN f \ {i} : g[j] = f[j]
<1> DEFINE g == Changed(f, i, row)
<1>1. g \in Seq(FlowRow) /\ Len(g) = Len(f) /\ DOMAIN g = DOMAIN f
  BY DEF Changed
<1>2. g[i] = row /\ \A j \in DOMAIN f \ {i} : g[j] = f[j]
  BY DEF Changed
<1> QED BY <1>1, <1>2 DEF Grows

(* A consent to a login that had none disowns nobody.                      *)
LEMMA ConsentKeepsInv ==
  ASSUME Inv, NEW i \in Flow, NEW p \in Pdb, Consent(i, p)
  PROVE  Inv'
<1> DEFINE row == [flows[i] EXCEPT !.consent = p]
<1>1. /\ i \in DOMAIN flows /\ flows[i].consent = None /\ flows' = Changed(flows, i, row)
      /\ flows \in Seq(FlowRow) /\ Len(flows) <= MaxFlow /\ flows[i] \in FlowRow
      /\ UNCHANGED <<sessions, lastKey, cookie, req, fresh, deployment>>
  BY DEF Inv, TypeOK, Consent, Changed
<1>2. /\ row \in FlowRow /\ row.browser = flows[i].browser
      /\ flows[i].consent # None => row.consent = flows[i].consent
  BY <1>1 DEF FlowRow, Opt
<1> HIDE DEF row
<1>3. /\ flows' \in Seq(FlowRow) /\ Len(flows') = Len(flows) /\ DOMAIN flows' = DOMAIN flows
      /\ Grows(flows, flows')
  BY <1>1, <1>2, FlowChange
<1>4. fresh' \in [Browser -> Opt(DOMAIN flows')] /\ req' \in [Worker -> Request]
  BY <1>1, <1>3 DEF Inv, TypeOK
<1> QED BY <1>1, <1>3, <1>4, RequestMoves

(* A state that matches is of a login that this browser began.             *)
LEMMA CallbackKeepsInv ==
  ASSUME Inv, NEW w \in Worker, NEW b \in Browser, NEW i \in Flow, Callback(w, b, i)
  PROVE  Inv'
<1> DEFINE data == [Loaded(b) EXCEPT !.state = None]
           at == IF Matches(b, i) THEN "exchange" ELSE "save"
<1>1. /\ i \in DOMAIN flows /\ flows[i].consent # None
      /\ UNCHANGED <<sessions, lastKey, cookie, flows, deployment>> /\ Meets(b)
      /\ Arrive(w, b, at, data, i)
      /\ i \in Opt(Flow) /\ at \in {"exchange", "save"}
  BY NoneFacts DEF Callback
<1>2. data \in Data /\ Owned(flows, b, data)
  <2>1. Loaded(b) \in Data /\ Owned(flows, b, Loaded(b))
    BY LoadedIsOwn
  <2>2. /\ data \in Data /\ data.state = None /\ data.profile = Loaded(b).profile
        /\ data.user = Loaded(b).user
    BY <2>1, NoneFacts DEF Data
  <2> QED BY <2>1, <2>2 DEF Owned
<1>3. at = "exchange" => flows[i].browser = b
  <2>1. i # None
    BY NoneFacts, OAuthAssumption DEF Flow
  <2> QED BY <2>1, LoadedIsOwn DEF Matches, Owned
<1> HIDE DEF data, at
<1>4. /\ req' \in [Worker -> Request] /\ \A v \in Worker \ {w} : req'[v] = req[v]
      /\ req'[w].at = at /\ req'[w].browser = b /\ req'[w].data = data /\ req'[w].flow = i
      /\ req'[w].key \in Opt(1..lastKey)
      /\ req'[w].key = IF cookie[b] \in DOMAIN sessions THEN cookie[b] ELSE None
  BY <1>1, <1>2, ArriveFacts
<1>5. HoldsOwn(flows', lastKey, req'[w])
  BY <1>1, <1>2, <1>3, <1>4 DEF HoldsOwn
<1>6. fresh' \in [Browser -> Opt(DOMAIN flows')]
  BY <1>1, NoneFacts DEF Meets, Inv, TypeOK
<1> QED BY <1>1, <1>4, <1>5, <1>6, SameFlows, RequestMoves

(* The profile that is fetched is of the login that is being exchanged.    *)
LEMMA ExchangeKeepsInv ==
  ASSUME Inv, NEW w \in Worker, Exchange(w)
  PROVE  Inv'
<1> DEFINE i == req[w].flow
           b == req[w].browser
           spent(x) == [flows[i] EXCEPT !.spent = x]
<1>1. /\ req[w].at = "exchange" /\ req[w] \in Request /\ req \in [Worker -> Request]
      /\ i \in DOMAIN flows /\ flows[i].browser = b /\ flows[i].consent # None
      /\ b \in Browser /\ req[w].key \in Opt(1..lastKey) /\ Owned(flows, b, req[w].data)
      /\ flows \in Seq(FlowRow) /\ Len(flows) <= MaxFlow /\ flows[i] \in FlowRow
      /\ i \in Flow
      /\ UNCHANGED <<sessions, lastKey, cookie, fresh, deployment>>
  BY OAuthAssumption DEF Inv, TypeOK, RequestsHoldOwn, HoldsOwn, Exchange, Flow
<1>2. \E x \in BOOLEAN : flows' = Changed(flows, i, spent(x))
  BY <1>1 DEF Exchange, Changed, FlowRow
<1>3. \A x \in BOOLEAN : /\ spent(x) \in FlowRow /\ spent(x).browser = flows[i].browser
                         /\ spent(x).consent = flows[i].consent
  BY <1>1 DEF FlowRow
<1> HIDE DEF spent
<1>4. /\ flows' \in Seq(FlowRow) /\ Len(flows') = Len(flows) /\ DOMAIN flows' = DOMAIN flows
      /\ Grows(flows, flows')
  BY <1>1, <1>2, <1>3, FlowChange
<1>5. fresh' \in [Browser -> Opt(DOMAIN flows')]
  BY <1>1, <1>4 DEF Inv, TypeOK
<1>6. /\ req' \in [Worker -> Request] /\ \A v \in Worker \ {w} : req'[v] = req[v]
      /\ req'[w].key = req[w].key /\ req'[w].browser = b
      /\ req'[w].at \in {"enter", "save"} /\ req'[w].flow = i
      /\ \/ req'[w].data = req[w].data
         \/ req'[w].data = [req[w].data EXCEPT !.profile = i]
  <2> DEFINE q1 == [req[w] EXCEPT !.at = "save"]
             q2 == [req[w] EXCEPT !.at = "enter"]
             q3 == [req[w] EXCEPT !.at = "save", !.data.profile = i, !.changed = TRUE]
  <2>1. \E q \in {q1, q2, q3} : req' = [req EXCEPT ![w] = q]
    <3>1. CASE Go(w, "save")
      BY <3>1 DEF Go
    <3>2. CASE req' = [req EXCEPT ![w] =
                 CASE Cardinality(Candidates(Consenter(w))) = 0 -> [@ EXCEPT !.at = "save"]
                   [] Cardinality(Candidates(Consenter(w))) = 1 -> [@ EXCEPT !.at = "enter"]
                   [] OTHER -> [@ EXCEPT !.at = "save", !.data.profile = i, !.changed = TRUE]]
      <4>1. CASE Cardinality(Candidates(Consenter(w))) = 0
        BY <3>2, <4>1
      <4>2. CASE Cardinality(Candidates(Consenter(w))) = 1
        BY <3>2, <4>2
      <4>3. CASE Cardinality(Candidates(Consenter(w))) \notin {0, 1}
        BY <3>2, <4>3
      <4> QED BY <4>1, <4>2, <4>3
    <3> QED BY <3>1, <3>2 DEF Exchange
  <2> DEFINE Fine(q) == /\ q \in Request /\ q.key = req[w].key /\ q.browser = b /\ q.flow = i
                        /\ q.at \in {"enter", "save"}
                        /\ q.data = req[w].data \/ q.data = [req[w].data EXCEPT !.profile = i]
  <2>2. Fine(q1) /\ Fine(q2) /\ Fine(q3)
    <3>1. [req[w].data EXCEPT !.profile = i] \in Data
      BY <1>1 DEF Request, Data, Opt
    <3>2. Fine(q1) /\ Fine(q2)
      BY <1>1 DEF Request
    <3>3. /\ q3.data = [req[w].data EXCEPT !.profile = i]
          /\ q3.key = req[w].key /\ q3.browser = b /\ q3.flow = i /\ q3.at = "save"
      BY <1>1 DEF Request
    <3>4. q3 \in Request
      BY <1>1, <3>1 DEF Request
    <3> QED BY <3>2, <3>3, <3>4
  <2> HIDE DEF q1, q2, q3
  <2>3. PICK q \in {q1, q2, q3} : req' = [req EXCEPT ![w] = q]
    BY <2>1
  <2>4. req'[w] = q /\ \A v \in Worker \ {w} : req'[v] = req[v]
    BY <1>1, <2>3
  <2>5. req' \in [Worker -> Request]
    BY <1>1, <2>2, <2>3
  <2> QED BY <2>2, <2>3, <2>4, <2>5
<1>7. Owned(flows', b, req'[w].data)
  <2>1. Owned(flows', b, req[w].data)
    BY <1>1, <1>4, OwnedPersists
  <2>2. /\ [req[w].data EXCEPT !.profile = i].profile = i
        /\ [req[w].data EXCEPT !.profile = i].state = req[w].data.state
        /\ [req[w].data EXCEPT !.profile = i].user = req[w].data.user
    BY <1>1 DEF Request, Data
  <2>3. flows'[i].browser = b /\ flows'[i].consent # None
    BY <1>1, <1>4 DEF Grows
  <2>4. Owned(flows', b, [req[w].data EXCEPT !.profile = i])
    BY <1>1, <1>4, <2>1, <2>2, <2>3 DEF Owned
  <2> QED BY <1>6, <2>1, <2>4
<1>8. HoldsOwn(flows', lastKey, req'[w])
  BY <1>1, <1>4, <1>6, <1>7 DEF HoldsOwn, Grows
<1> QED BY <1>1, <1>4, <1>5, <1>6, <1>8, RequestMoves

(* The profile that waited was of a login of this browser.                 *)
LEMMA PickKeepsInv ==
  ASSUME Inv, NEW w \in Worker, NEW b \in Browser, NEW at \in {"enter", "save"}, Pick(w, b, at)
  PROVE  Inv'
<1> DEFINE data == [Loaded(b) EXCEPT !.profile = None]
           i == Loaded(b).profile
<1>1. /\ i # None /\ Arrive(w, b, at, data, i)
      /\ UNCHANGED <<sessions, lastKey, cookie, flows, fresh, deployment>>
  BY DEF Pick
<1>2. Loaded(b) \in Data /\ Owned(flows, b, Loaded(b))
  BY LoadedIsOwn
<1>3. data \in Data /\ Owned(flows, b, data) /\ i \in Opt(Flow)
  <2>1. /\ data \in Data /\ data.profile = None /\ data.state = Loaded(b).state
        /\ data.user = Loaded(b).user
    BY <1>2, NoneFacts DEF Data
  <2> QED BY <1>2, <2>1 DEF Owned, Data
<1>4. i \in DOMAIN flows /\ flows[i].browser = b /\ flows[i].consent # None
  BY <1>1, <1>2 DEF Owned
<1> HIDE DEF data, i
<1>5. /\ req' \in [Worker -> Request] /\ \A v \in Worker \ {w} : req'[v] = req[v]
      /\ req'[w].at = at /\ req'[w].browser = b /\ req'[w].data = data /\ req'[w].flow = i
      /\ req'[w].key \in Opt(1..lastKey)
      /\ req'[w].key = IF cookie[b] \in DOMAIN sessions THEN cookie[b] ELSE None
  BY <1>1, <1>3, ArriveFacts
<1>6. HoldsOwn(flows', lastKey, req'[w])
  BY <1>1, <1>3, <1>4, <1>5 DEF HoldsOwn
<1>7. fresh' \in [Browser -> Opt(DOMAIN flows')]
  BY <1>1 DEF Inv, TypeOK
<1> QED BY <1>1, <1>5, <1>6, <1>7, SameFlows, RequestMoves

(* Without a login nothing is added to what the request holds.             *)
LEMMA EnterElseKeepsInv ==
  ASSUME Inv, NEW w \in Worker, EnterElse(w)
  PROVE  Inv'
<1>1. req[w].at = "enter" /\ UNCHANGED <<sessions, lastKey, cookie, flows, fresh, deployment>>
  BY DEF EnterElse
<1>2. CASE End(w)
  BY <1>1, <1>2, SameFlows, EndKeepsInv
<1>3. CASE Go(w, "save")
  <2>1. req \in [Worker -> Request] /\ HoldsOwn(flows, lastKey, req[w])
    BY DEF Inv, TypeOK, RequestsHoldOwn
  <2>2. /\ req' \in [Worker -> Request] /\ \A v \in Worker \ {w} : req'[v] = req[v]
        /\ req'[w].at = "save" /\ req'[w].browser = req[w].browser /\ req'[w].key = req[w].key
        /\ req'[w].data = req[w].data
    BY <1>3, <2>1, GoFacts
  <2>3. HoldsOwn(flows', lastKey, req'[w])
    BY <1>1, <2>1, <2>2 DEF HoldsOwn
  <2>4. fresh' \in [Browser -> Opt(DOMAIN flows')]
    BY <1>1 DEF Inv, TypeOK
  <2> QED BY <1>1, <2>2, <2>3, <2>4, SameFlows, RequestMoves
<1> QED BY <1>2, <1>3 DEF EnterElse

(* Writing a session row, and deleting one.                                *)
LEMMA PutFacts ==
  ASSUME NEW t, t \in [DOMAIN t -> Data], NEW k, NEW row \in Data
  PROVE  /\ DOMAIN Put(t, k, row) = DOMAIN t \union {k}
         /\ Put(t, k, row) \in [DOMAIN t \union {k} -> Data]
         /\ Put(t, k, row)[k] = row
         /\ \A x \in DOMAIN t : x # k => Put(t, k, row)[x] = t[x]
BY DEF Put

LEMMA WithoutFacts ==
  ASSUME NEW t, t \in [DOMAIN t -> Data], NEW k
  PROVE  /\ DOMAIN Without(t, k) = DOMAIN t \ {k}
         /\ Without(t, k) \in [DOMAIN t \ {k} -> Data]
         /\ \A x \in DOMAIN t : x # k => Without(t, k)[x] = t[x]
BY DEF Without

(***************************************************************************)
(* auth_login, in each of the three cases.  The account that the session   *)
(* gets is the one that consented in the login of the request.             *)
(***************************************************************************)
LEMMA LoginIsOwn ==
  ASSUME Inv, NEW w \in Worker, EnterLogsIn(w)
  PROVE  /\ req \in [Worker -> Request] /\ req[w].at = "enter"
         /\ req[w].browser \in Browser /\ req[w].key \in Opt(1..lastKey)
         /\ req[w].flow \in DOMAIN flows
         /\ Consenter(w) \in Pdb
         /\ req[w].data \in Data
         /\ Owned(flows, req[w].browser, req[w].data)
         /\ Owned(flows, req[w].browser, [req[w].data EXCEPT !.user = Consenter(w)])
         /\ [req[w].data EXCEPT !.user = Consenter(w)] \in Data
         /\ Owned(flows, req[w].browser, [Empty EXCEPT !.user = Consenter(w)])
         /\ [Empty EXCEPT !.user = Consenter(w)] \in Data
         /\ flows' \in Seq(FlowRow) /\ Len(flows') = Len(flows) /\ DOMAIN flows' = DOMAIN flows
         /\ Grows(flows, flows')
<1> DEFINE q == req[w]
           b == q.browser
           i == q.flow
           u == Consenter(w)
<1>1. /\ req \in [Worker -> Request] /\ q \in Request /\ q.at = "enter"
      /\ b \in Browser /\ q.key \in Opt(1..lastKey) /\ i \in DOMAIN flows
      /\ flows[i].browser = b /\ flows[i].consent # None /\ Owned(flows, b, q.data)
      /\ flows \in Seq(FlowRow) /\ flows[i] \in FlowRow /\ q.data \in Data
  BY DEF Inv, TypeOK, RequestsHoldOwn, HoldsOwn, EnterLogsIn, Request
<1>2. u \in Pdb /\ u = flows[i].consent
  BY <1>1 DEF Consenter, FlowRow, Opt
<1>3. /\ [q.data EXCEPT !.user = u] \in Data
      /\ [q.data EXCEPT !.user = u].user = u
      /\ [q.data EXCEPT !.user = u].state = q.data.state
      /\ [q.data EXCEPT !.user = u].profile = q.data.profile
  BY <1>1, <1>2 DEF Data, Opt
<1>4. Owned(flows, b, [q.data EXCEPT !.user = u])
  BY <1>1, <1>2, <1>3 DEF Owned
<1>5. /\ [Empty EXCEPT !.user = u] \in Data
      /\ [Empty EXCEPT !.user = u].user = u
      /\ [Empty EXCEPT !.user = u].state = None
      /\ [Empty EXCEPT !.user = u].profile = None
  BY <1>2, NoneFacts DEF Data, Empty, Opt
<1>6. Owned(flows, b, [Empty EXCEPT !.user = u])
  BY <1>1, <1>2, <1>5 DEF Owned
<1>7. /\ flows' \in Seq(FlowRow) /\ Len(flows') = Len(flows) /\ DOMAIN flows' = DOMAIN flows
      /\ Grows(flows, flows')
  <2> DEFINE row == [flows[i] EXCEPT !.logins = IF @ < 2 THEN @ + 1 ELSE @]
  <2>1. row \in FlowRow /\ row.browser = flows[i].browser /\ row.consent = flows[i].consent
    BY <1>1 DEF FlowRow
  <2>2. flows' = Changed(flows, i, row)
    BY <1>1 DEF EnterLogsIn, Changed
  <2> HIDE DEF row
  <2> QED BY <1>1, <2>1, <2>2, FlowChange
<1> QED BY <1>1, <1>2, <1>3, <1>4, <1>5, <1>6, <1>7

(* The account that is entered is of the request's login, under a key of its own. *)
LEMMA EnterLogsInKeepsInv ==
  ASSUME Inv, NEW w \in Worker, EnterLogsIn(w)
  PROVE  Inv'
<1> DEFINE q == req[w]
           b == q.browser
           u == Consenter(w)
           named(d) == [d EXCEPT !.user = u]
<1>1. /\ req \in [Worker -> Request] /\ q.at = "enter" /\ q \in Request
      /\ b \in Browser /\ q.key \in Opt(1..lastKey) /\ q.flow \in DOMAIN flows
      /\ u \in Pdb /\ q.data \in Data /\ Owned(flows, b, q.data)
      /\ Owned(flows, b, named(q.data)) /\ named(q.data) \in Data
      /\ Owned(flows, b, named(Empty)) /\ named(Empty) \in Data
      /\ flows' \in Seq(FlowRow) /\ Len(flows') = Len(flows) /\ DOMAIN flows' = DOMAIN flows
      /\ Grows(flows, flows')
  BY LoginIsOwn DEF Inv, TypeOK
<1>2. /\ sessions \in [DOMAIN sessions -> Data] /\ DOMAIN sessions \subseteq 1..lastKey
      /\ lastKey \in 0..MaxSession /\ MaxSession \in Nat
      /\ cookie \in [Browser -> Opt(1..lastKey)]
      /\ UNCHANGED <<cookie, deployment>>
      /\ Len(flows') <= MaxFlow
  BY <1>1, OAuthAssumption DEF Inv, TypeOK, EnterLogsIn
<1> HIDE DEF named
<1>3. CASE /\ q.data.user = None /\ lastKey < MaxSession /\ lastKey' = lastKey + 1
           /\ sessions' = Put(Without(sessions, q.key), lastKey', Empty)
           /\ req' = [req EXCEPT ![w].at = "save", ![w].key = lastKey', ![w].changed = TRUE,
                        ![w].data.user = u]
           /\ UNCHANGED fresh
  <2> DEFINE n == lastKey + 1
             r == [q EXCEPT !.at = "save", !.key = n, !.changed = TRUE, !.data = named(q.data)]
  <2>1. n \in SessionKey /\ n \in 1..n /\ 1..lastKey \subseteq 1..n /\ n \notin 1..lastKey
        /\ n \notin Opt(1..lastKey) /\ n # None /\ lastKey' = n /\ n \in 0..MaxSession
        /\ lastKey <= n /\ lastKey \in Nat /\ n \in Nat
    BY <1>2, <1>3, NoneFacts DEF SessionKey, Opt
  <2>2. /\ r \in Request /\ r.at = "save" /\ r.key = n /\ r.data = named(q.data) /\ r.browser = b
    BY <1>1, <2>1 DEF Request, Opt
  <2>3. req' = [req EXCEPT ![w] = r]
    BY <1>1, <1>3, <2>1 DEF named
  <2> HIDE DEF r
  <2>4. /\ req' \in [Worker -> Request] /\ \A v \in Worker \ {w} : req'[v] = req[v]
        /\ req'[w] = r
    BY <1>1, <2>2, <2>3
  <2>5. /\ DOMAIN sessions' = (DOMAIN sessions \ {q.key}) \union {n}
        /\ sessions' \in [DOMAIN sessions' -> Data]
        /\ \A x \in DOMAIN sessions \ {q.key} : sessions'[x] = sessions[x]
    <3> DEFINE t == Without(sessions, q.key)
    <3>1. /\ DOMAIN t = DOMAIN sessions \ {q.key} /\ t \in [DOMAIN t -> Data]
          /\ \A x \in DOMAIN sessions : x # q.key => t[x] = sessions[x]
      BY <1>2, WithoutFacts
    <3>2. sessions' = Put(t, n, Empty)
      BY <1>3, <2>1
    <3> HIDE DEF t
    <3>3. /\ DOMAIN Put(t, n, Empty) = DOMAIN t \union {n}
          /\ Put(t, n, Empty) \in [DOMAIN t \union {n} -> Data]
          /\ \A x \in DOMAIN t : x # n => Put(t, n, Empty)[x] = t[x]
      <4>1. Empty \in Data /\ t \in [DOMAIN t -> Data]
        BY <3>1, IdleFacts
      <4> QED BY <4>1 DEF Put
    <3> QED BY <1>2, <2>1, <3>1, <3>2, <3>3
  <2>6. \A v \in Worker : HoldsOwn(flows', lastKey', req'[v])
    <3>1. Owned(flows', b, named(q.data))
      BY <1>1, OwnedPersists
    <3>2. HoldsOwn(flows', lastKey', r)
      BY <1>1, <2>1, <2>2, <3>1 DEF HoldsOwn, Opt
    <3>3. \A v \in Worker \ {w} : HoldsOwn(flows', lastKey', req[v])
      BY <1>1, <2>1, HoldsOwnPersists DEF Inv, RequestsHoldOwn
    <3> QED BY <2>4, <3>2, <3>3
  <2>7. SessionsAreOwn'
    <3>1. \A c \in Browser : cookie[c] # n
      BY <1>2, <2>1
    <3>2. \A c \in Browser : cookie[c] \in DOMAIN sessions' =>
             cookie[c] \in DOMAIN sessions /\ sessions'[cookie[c]] = sessions[cookie[c]]
      BY <2>5, <3>1
    <3> QED BY <1>1, <1>2, <3>2, OwnedPersists DEF Inv, SessionsAreOwn
  <2>8. KeysApart'
    <3>1. \A c \in Browser : cookie[c] # n
      BY <1>2, <2>1
    <3>2. \A v \in Worker : req[v].key # n
      BY <2>1, IdleFacts DEF Inv, RequestsHoldOwn, HoldsOwn
    <3> QED BY <1>2, <2>2, <2>4, <3>1, <3>2 DEF Inv, KeysApart
  <2>9. TypeOK'
    <3>1. cookie' \in [Browser -> Opt(1..lastKey')]
      BY <1>2, <2>1 DEF Opt
    <3>2. fresh' \in [Browser -> Opt(DOMAIN flows')] /\ deployment' \in DOMAIN Deployments
      BY <1>1, <1>2, <1>3 DEF Inv, TypeOK
    <3>3. DOMAIN sessions' \subseteq 1..lastKey'
      BY <1>2, <2>1, <2>5
    <3> QED BY <1>1, <1>2, <2>1, <2>4, <2>5, <2>6, <3>1, <3>2, <3>3 DEF TypeOK, HoldsOwn
  <2> QED BY <2>6, <2>7, <2>8, <2>9 DEF Inv, RequestsHoldOwn
<1>4. CASE Go(w, "save") /\ UNCHANGED <<sessions, lastKey, fresh>>
  <2>1. /\ req' \in [Worker -> Request] /\ \A v \in Worker \ {w} : req'[v] = req[v]
        /\ req'[w].at = "save" /\ req'[w].browser = b /\ req'[w].key = q.key
        /\ req'[w].data = q.data
    BY <1>1, <1>4, GoFacts
  <2>2. Owned(flows', b, q.data)
    BY <1>1, OwnedPersists
  <2>3. HoldsOwn(flows', lastKey, req'[w])
    BY <1>1, <2>1, <2>2 DEF HoldsOwn
  <2>4. fresh' \in [Browser -> Opt(DOMAIN flows')]
    BY <1>1, <1>4 DEF Inv, TypeOK
  <2> QED BY <1>1, <1>2, <1>4, <2>1, <2>3, <2>4, RequestMoves
<1>5. CASE /\ sessions' = Without(sessions, q.key) /\ UNCHANGED lastKey
           /\ req' = [req EXCEPT ![w].at = "save", ![w].key = None, ![w].changed = TRUE,
                        ![w].data = [Empty EXCEPT !.user = u]]
           /\ Meets(b)
  <2> DEFINE r == [q EXCEPT !.at = "save", !.key = None, !.changed = TRUE, !.data = named(Empty)]
  <2>1. /\ r \in Request /\ r.at = "save" /\ r.key = None /\ r.data = named(Empty) /\ r.browser = b
    BY <1>1, NoneFacts DEF Request
  <2>2. req' = [req EXCEPT ![w] = r]
    BY <1>1, <1>5 DEF named
  <2> HIDE DEF r
  <2>3. /\ req' \in [Worker -> Request] /\ \A v \in Worker \ {w} : req'[v] = req[v]
        /\ req'[w] = r
    BY <1>1, <2>1, <2>2
  <2>4. /\ DOMAIN sessions' = DOMAIN sessions \ {q.key} /\ sessions' \in [DOMAIN sessions' -> Data]
        /\ \A x \in DOMAIN sessions' : sessions'[x] = sessions[x]
    BY <1>2, <1>5, WithoutFacts
  <2>5. \A v \in Worker : HoldsOwn(flows', lastKey', req'[v])
    <3>1. Owned(flows', b, named(Empty))
      BY <1>1, OwnedPersists
    <3>2. HoldsOwn(flows', lastKey', r)
      BY <1>1, <2>1, <3>1, NoneFacts DEF HoldsOwn
    <3>3. \A v \in Worker \ {w} : HoldsOwn(flows', lastKey', req[v])
      BY <1>1, <1>2, <1>5, HoldsOwnPersists DEF Inv, RequestsHoldOwn
    <3> QED BY <2>3, <3>2, <3>3
  <2>6. SessionsAreOwn'
    BY <1>1, <1>2, <2>4, OwnedPersists DEF Inv, SessionsAreOwn
  <2>7. KeysApart'
    BY <1>2, <2>1, <2>3 DEF Inv, KeysApart
  <2>8. TypeOK'
    <3>1. fresh' \in [Browser -> Opt(DOMAIN flows')] /\ deployment' \in DOMAIN Deployments
      BY <1>1, <1>2, <1>5, NoneFacts DEF Inv, TypeOK, Meets
    <3> QED BY <1>1, <1>2, <1>5, <2>3, <2>4, <2>5, <3>1 DEF TypeOK, HoldsOwn
  <2> QED BY <2>5, <2>6, <2>7, <2>8 DEF Inv, RequestsHoldOwn
<1> QED BY <1>3, <1>4, <1>5 DEF EnterLogsIn

(***************************************************************************)
(* The three things a request's end may do: save nothing, save under the   *)
(* key the session has, save under a new key.                              *)
(***************************************************************************)
LEMMA SaveKeepsInv ==
  ASSUME Inv, NEW w \in Worker, Save(w)
  PROVE  Inv'
<1> DEFINE q == req[w]
           b == q.browser
<1>1. /\ req \in [Worker -> Request] /\ q.at = "save" /\ q \in Request /\ q.data \in Data
      /\ b \in Browser /\ q.key \in Opt(1..lastKey) /\ Owned(flows, b, q.data)
      /\ sessions \in [DOMAIN sessions -> Data] /\ DOMAIN sessions \subseteq 1..lastKey
      /\ lastKey \in 0..MaxSession /\ MaxSession \in Nat
      /\ cookie \in [Browser -> Opt(1..lastKey)]
      /\ End(w) /\ UNCHANGED <<flows, fresh, deployment>>
  BY OAuthAssumption DEF Inv, TypeOK, RequestsHoldOwn, HoldsOwn, Save, Request
<1>2. /\ req' \in [Worker -> Request] /\ \A v \in Worker \ {w} : req'[v] = req[v]
      /\ req'[w] = Idle
  BY <1>1, IdleFacts DEF End
<1>3. CASE UNCHANGED <<sessions, lastKey, cookie>>
  BY <1>1, <1>3, SameFlows, EndKeepsInv
<1>4. CASE /\ q.key \in DOMAIN sessions /\ sessions' = Put(sessions, q.key, q.data)
           /\ cookie' = [cookie EXCEPT ![b] = q.key] /\ UNCHANGED lastKey
  <2>1. /\ DOMAIN sessions' = DOMAIN sessions /\ sessions' \in [DOMAIN sessions' -> Data]
        /\ sessions'[q.key] = q.data
        /\ \A x \in DOMAIN sessions : x # q.key => sessions'[x] = sessions[x]
    BY <1>1, <1>4 DEF Put
  <2>2. q.key \in 1..lastKey /\ q.key # None
    BY <1>1, <1>4, NoneFacts
  <2>3. /\ cookie' \in [Browser -> Opt(1..lastKey)] /\ cookie'[b] = q.key
        /\ \A c \in Browser : c # b => cookie'[c] = cookie[c]
    BY <1>1, <1>4
  <2>4. \A v \in Worker : HoldsOwn(flows', lastKey', req'[v])
    BY <1>1, <1>2, <1>4, IdleFacts DEF Inv, RequestsHoldOwn
  <2>5. SessionsAreOwn'
    <3>1. \A c \in Browser : c # b => cookie[c] # q.key
      BY <2>2 DEF Inv, KeysApart
    <3> QED BY <1>1, <2>1, <2>3, <3>1 DEF Inv, SessionsAreOwn
  <2>6. KeysApart'
    BY <1>1, <1>2, <2>2, <2>3, IdleFacts DEF Inv, KeysApart
  <2>7. TypeOK'
    BY <1>1, <1>2, <1>4, <2>1, <2>3, IdleFacts DEF Inv, TypeOK
  <2> QED BY <2>4, <2>5, <2>6, <2>7 DEF Inv, RequestsHoldOwn
<1>5. CASE /\ q.key = None /\ lastKey < MaxSession /\ lastKey' = lastKey + 1
           /\ sessions' = Put(sessions, lastKey', q.data)
           /\ cookie' = [cookie EXCEPT ![b] = lastKey']
  <2> DEFINE n == lastKey + 1
  <2>1. /\ n \in 1..n /\ 1..lastKey \subseteq 1..n /\ n \notin Opt(1..lastKey) /\ n # None
        /\ lastKey' = n /\ n \in 0..MaxSession /\ lastKey <= n /\ lastKey \in Nat /\ n \in Nat
    BY <1>1, <1>5, NoneFacts DEF Opt
  <2>2. /\ DOMAIN sessions' = DOMAIN sessions \union {n} /\ sessions' \in [DOMAIN sessions' -> Data]
        /\ sessions'[n] = q.data
        /\ \A x \in DOMAIN sessions : sessions'[x] = sessions[x]
    <3>1. n \notin DOMAIN sessions
      BY <1>1, <2>1 DEF Opt
    <3> QED BY <1>1, <1>5, <2>1, <3>1 DEF Put
  <2>3. /\ cookie' \in [Browser -> Opt(1..n)] /\ cookie'[b] = n
        /\ \A c \in Browser : c # b => cookie'[c] = cookie[c] /\ cookie'[c] # n
    BY <1>1, <1>5, <2>1 DEF Opt
  <2>4. \A v \in Worker : HoldsOwn(flows', lastKey', req'[v])
    BY <1>1, <1>2, <2>1, IdleFacts, HoldsOwnPersists, SameFlows DEF Inv, RequestsHoldOwn
  <2>5. SessionsAreOwn'
    BY <1>1, <2>2, <2>3 DEF Inv, SessionsAreOwn
  <2>6. KeysApart'
    <3>1. \A v \in Worker : req[v].key # n
      BY <2>1, IdleFacts DEF Inv, RequestsHoldOwn, HoldsOwn
    <3> QED BY <1>1, <1>2, <2>1, <2>3, <3>1, IdleFacts DEF Inv, KeysApart
  <2>7. TypeOK'
    <3>1. DOMAIN sessions' \subseteq 1..lastKey'
      BY <1>1, <2>1, <2>2
    <3> QED BY <1>1, <1>2, <2>1, <2>2, <2>3, <3>1, IdleFacts DEF Inv, TypeOK
  <2> QED BY <2>4, <2>5, <2>6, <2>7 DEF Inv, RequestsHoldOwn
<1> QED BY <1>3, <1>4, <1>5 DEF Save

(* A logout takes one session, and its browser's cookie.                   *)
LEMMA LogoutKeepsInv ==
  ASSUME Inv, NEW b \in Browser, Logout(b)
  PROVE  Inv'
<1>1. /\ sessions \in [DOMAIN sessions -> Data] /\ DOMAIN sessions \subseteq 1..lastKey
      /\ cookie \in [Browser -> Opt(1..lastKey)]
      /\ fresh \in [Browser -> Opt(DOMAIN flows)]
      /\ sessions' = Without(sessions, cookie[b]) /\ cookie' = [cookie EXCEPT ![b] = None]
      /\ fresh' = [fresh EXCEPT ![b] = None]
      /\ UNCHANGED <<lastKey, flows, req, deployment>>
  BY DEF Inv, TypeOK, Logout, Meets
<1>2. /\ DOMAIN sessions' = DOMAIN sessions \ {cookie[b]} /\ sessions' \in [DOMAIN sessions' -> Data]
      /\ \A x \in DOMAIN sessions' : sessions'[x] = sessions[x]
  BY <1>1, WithoutFacts
<1>3. /\ cookie' \in [Browser -> Opt(1..lastKey)] /\ cookie'[b] = None
      /\ \A c \in Browser : c # b => cookie'[c] = cookie[c]
  BY <1>1, NoneFacts
<1>4. None \notin DOMAIN sessions'
  BY <1>1, <1>2, NoneFacts DEF Inv, TypeOK
<1>5. RequestsHoldOwn'
  BY <1>1 DEF Inv, RequestsHoldOwn, HoldsOwn, Owned
<1>6. SessionsAreOwn'
  BY <1>1, <1>2, <1>3, <1>4 DEF Inv, SessionsAreOwn, Owned
<1>7. KeysApart'
  BY <1>1, <1>3 DEF Inv, KeysApart
<1>8. fresh' \in [Browser -> Opt(DOMAIN flows)]
  BY <1>1, NoneFacts
<1>9. TypeOK'
  BY <1>1, <1>2, <1>3, <1>8 DEF Inv, TypeOK
<1> QED BY <1>5, <1>6, <1>7, <1>9 DEF Inv

(* At first nobody has a session and nothing is under way.                 *)
LEMMA InitEstablishesInv == Init => Inv
<1> SUFFICES ASSUME Init PROVE Inv
  OBVIOUS
<1>1. /\ sessions = << >> /\ lastKey = 0 /\ flows = << >> /\ DOMAIN sessions = {}
      /\ cookie = [b \in Browser |-> None] /\ req = [w \in Worker |-> Idle]
      /\ fresh = [b \in Browser |-> None] /\ deployment \in DOMAIN Deployments
  BY DEF Init
<1>2. \A w \in Worker : req[w] = Idle
  BY <1>1
<1>3. TypeOK
  BY <1>1, <1>2, IdleFacts, NoneFacts, OAuthAssumption DEF TypeOK
<1>4. RequestsHoldOwn /\ SessionsAreOwn /\ KeysApart
  BY <1>1, <1>2, IdleFacts DEF RequestsHoldOwn, SessionsAreOwn, KeysApart
<1> QED BY <1>3, <1>4 DEF Inv

(* Whatever happens next, the invariant is kept.                           *)
LEMMA NextKeepsInv == Inv /\ [Next]_vars => Inv'
<1> SUFFICES ASSUME Inv, [Next]_vars PROVE Inv'
  OBVIOUS
<1>1. CASE UNCHANGED vars
  BY <1>1 DEF vars, Inv, TypeOK, RequestsHoldOwn, HoldsOwn, SessionsAreOwn, Owned, KeysApart
<1>2. CASE \E w \in Worker, b \in Browser :
             \/ BeginLogin(w, b)
             \/ \E i \in Flow : Callback(w, b, i)
             \/ \E at \in {"enter", "save"} : Pick(w, b, at)
  BY <1>2, BeginLoginKeepsInv, CallbackKeepsInv, PickKeepsInv
<1>3. CASE \E w \in Worker : Exchange(w) \/ EnterLogsIn(w) \/ EnterElse(w) \/ Save(w)
  BY <1>3, ExchangeKeepsInv, EnterLogsInKeepsInv, EnterElseKeepsInv, SaveKeepsInv
<1>4. CASE \E i \in Flow, p \in Pdb : Consent(i, p)
  BY <1>4, ConsentKeepsInv
<1>5. CASE \E b \in Browser : Logout(b)
  BY <1>5, LogoutKeepsInv
<1> QED BY <1>1, <1>2, <1>3, <1>4, <1>5 DEF Next

(* Requests and sessions hold what is their browser's own, always.         *)
THEOREM InvHolds == Spec => []Inv
BY InitEstablishesInv, NextKeepsInv, PTL DEF Spec

(* The state is always well-typed.                                         *)
THEOREM TypeOKHolds == Spec => []TypeOK
<1>1. Inv => TypeOK
  BY DEF Inv
<1> QED BY <1>1, InvHolds, PTL

(***************************************************************************)
(* Whoever a browser is logged in as, and whoever's profile waits there,   *)
(* consented in a login that this browser began: state validation of       *)
(* peeringdb_callback is enough, however requests overlap.                 *)
(***************************************************************************)
THEOREM SessionIsOwnHolds == Spec => []SessionIsOwn
<1>1. Inv => SessionIsOwn
  BY DEF Inv, SessionsAreOwn, Owned, SessionIsOwn
<1> QED BY <1>1, InvHolds, PTL

-----------------------------------------------------------------------------
(***************************************************************************)
(* Where requests come one after the other, ConsentLogsInOnce and          *)
(* FreshLoginIsAwaited hold.  Neither is inductive: a profile stays in the *)
(* session table while the request that has taken it out of the session    *)
(* logs in, and the new state of a login is not there before its request   *)
(* ends.  Orderly says what becomes of either:                             *)
(*   - a consent is spent before its profile waits or is entered with, and *)
(*     has logged nobody in while it does, except for the moment between   *)
(*     auth_login and the save of the session without the profile;         *)
(*   - the newest login's state is in the session, or in the hands of the  *)
(*     request that is going to save it there.                             *)
(***************************************************************************)
Busy(w) == req[w].at # "idle"
OneAtATime == \A v, w \in Worker : Busy(v) /\ Busy(w) => v = w

Waiting(b, i) == cookie[b] \in DOMAIN sessions /\ sessions[cookie[b]].profile = i
Overwrites(w, b) == req[w].changed /\ req[w].key = cookie[b] /\ cookie[b] \in DOMAIN sessions
Clears(w, b, i) == req[w].at = "save" /\ Overwrites(w, b) /\ req[w].data.profile # i
Counted(i) == flows[i].logins \in {0, 1} /\ (flows[i].logins = 1 => flows[i].spent)
Unused(i) == flows[i].spent /\ flows[i].logins = 0
Entering(w, i) == req[w].at = "enter" /\ req[w].flow = i
Claimed(w, i) ==
  /\ Entering(w, i) => Unused(i) /\ req[w].data.profile # i
  /\ Busy(w) /\ req[w].data.profile = i => Unused(i)
LoginsOnce ==
  \A i \in DOMAIN flows :
    /\ Counted(i) /\ \A w \in Worker : Claimed(w, i)
    /\ \A b \in Browser : Waiting(b, i) =>
         /\ flows[i].spent
         /\ \A w \in Worker : Entering(w, i) => Overwrites(w, b)
         /\ Unused(i) \/ \E w \in Worker : Clears(w, b, i)

Awaits(b, f) == cookie[b] \in DOMAIN sessions /\ sessions[cookie[b]].state = f
Carrying(w, b) ==
  /\ req[w].at # "exchange" /\ req[w].changed /\ req[w].data.state = fresh[b]
  /\ req[w].at = "enter" => Overwrites(w, b) /\ Awaits(b, fresh[b])
  /\ req[w].at = "save" => req[w].key \in DOMAIN sessions \union {None}
FreshIsKept ==
  \A b \in Browser : fresh[b] # None =>
    /\ \A w \in Worker : Busy(w) /\ req[w].browser = b => Carrying(w, b)
    /\ (\A w \in Worker : Busy(w) => req[w].browser # b) => Awaits(b, fresh[b])

Orderly == Serial => OneAtATime /\ LoginsOnce /\ FreshIsKept

(***************************************************************************)
(* The same, said of the one request that is at work.                      *)
(***************************************************************************)
Rest(w) == \A v \in Worker \ {w} : ~Busy(v)
OnceFor(w, i) ==
  /\ Counted(i) /\ Claimed(w, i)
  /\ \A b \in Browser : Waiting(b, i) =>
       /\ flows[i].spent
       /\ Entering(w, i) => Overwrites(w, b)
       /\ Unused(i) \/ Clears(w, b, i)
FreshFor(w, b) ==
  fresh[b] # None => IF Busy(w) /\ req[w].browser = b THEN Carrying(w, b) ELSE Awaits(b, fresh[b])
Fine(w) ==
  /\ Rest(w)
  /\ \A i \in DOMAIN flows : OnceFor(w, i)
  /\ \A b \in Browser : FreshFor(w, b)

(* What Orderly says of the only request at work, ...                      *)
LEMMA OrderlyMeans ==
  ASSUME Orderly, Serial, NEW w \in Worker, Rest(w)
  PROVE  Fine(w)
<1>1. \A i \in DOMAIN flows : OnceFor(w, i)
  <2>1. \A v \in Worker, b \in Browser, i \in DOMAIN flows : Clears(v, b, i) => v = w
    BY DEF Rest, Busy, Clears
  <2> QED BY <2>1 DEF Orderly, LoginsOnce, OnceFor
<1>2. \A b \in Browser : FreshFor(w, b)
  BY DEF Orderly, FreshIsKept, FreshFor, Rest
<1> QED BY <1>1, <1>2 DEF Fine

(* ... which is the one that acts.                                         *)
LEMMA ActorAlone ==
  ASSUME Inv, Orderly, Serial, NEW w \in Worker,
         Busy(w) \/ \A v \in Worker : req[v] = Idle
  PROVE  Fine(w)
<1>1. Rest(w)
  BY IdleFacts DEF Rest, Orderly, OneAtATime, Busy
<1> QED BY <1>1, OrderlyMeans

(* And what is to be shown of it.                                          *)
LEMMA FineSuffices ==
  ASSUME NEW w \in Worker, Fine(w)'
  PROVE  Orderly'
<1>1. OneAtATime'
  BY DEF Fine, Rest, OneAtATime
<1>2. LoginsOnce'
  <2> SUFFICES ASSUME NEW i \in DOMAIN flows'
               PROVE  /\ Counted(i)' /\ \A v \in Worker : Claimed(v, i)'
                      /\ \A b \in Browser : Waiting(b, i)' =>
                           /\ flows'[i].spent
                           /\ \A v \in Worker : Entering(v, i)' => Overwrites(v, b)'
                           /\ Unused(i)' \/ \E v \in Worker : Clears(v, b, i)'
    BY DEF LoginsOnce
  <2>1. OnceFor(w, i)'
    BY DEF Fine
  <2>2. \A v \in Worker \ {w} : ~Entering(v, i)' /\ Claimed(v, i)'
    BY DEF Fine, Rest, Busy, Entering, Claimed
  <2> QED BY <2>1, <2>2 DEF OnceFor
<1>3. FreshIsKept'
  BY DEF Fine, Rest, FreshFor, FreshIsKept
<1> QED BY <1>1, <1>2, <1>3 DEF Orderly

(* A step of one request leaves the others idle.                           *)
LEMMA RestKept ==
  ASSUME NEW w \in Worker, Rest(w), \A v \in Worker \ {w} : req'[v] = req[v]
  PROVE  Rest(w)'
BY DEF Rest, Busy

(* Who waits in a session, or is awaited there, is a login of its browser. *)
LEMMA WaitingIsOwn ==
  ASSUME Inv, NEW b \in Browser, NEW i
  PROVE  /\ Waiting(b, i) /\ i # None => i \in DOMAIN flows /\ flows[i].browser = b
         /\ Loaded(b).profile = i /\ i # None => Waiting(b, i)
         /\ Awaits(b, i) => Loaded(b).state = i
<1>1. Empty.profile = None
  BY DEF Empty
<1> QED BY <1>1 DEF Inv, SessionsAreOwn, Owned, Waiting, Awaits, Loaded

(* A login is a number.                                                    *)
LEMMA FlowIsSome == Inv => /\ None \notin DOMAIN flows /\ DOMAIN flows = 1..Len(flows)
                           /\ Len(flows) \in Nat
BY NoneFacts DEF Inv, TypeOK

(* A new login logs nobody in yet, and its state is on its way.            *)
LEMMA BeginLoginOrderly ==
  ASSUME Inv, Orderly, Serial, NEW w \in Worker, NEW b \in Browser, BeginLogin(w, b)
  PROVE  Fine(w)'
<1>0. PICK n : n = Len(flows) + 1
  OBVIOUS
<1>1. PICK data : data = [Loaded(b) EXCEPT !.state = n]
  OBVIOUS
<1>2. PICK p : p = req'[w]
  OBVIOUS
<1>3. /\ flows \in Seq(FlowRow) /\ DOMAIN flows = 1..Len(flows) /\ Len(flows) \in Nat
      /\ flows' = Append(flows, [browser |-> b, consent |-> None, spent |-> FALSE, logins |-> 0])
      /\ Len(flows) < MaxFlow /\ MaxFlow \in Nat /\ UNCHANGED <<sessions, cookie>>
  BY FlowIsSome, OAuthAssumption DEF Inv, TypeOK, BeginLogin, Begun
<1>4. /\ DOMAIN flows' = DOMAIN flows \union {n} /\ n \notin DOMAIN flows /\ n \in Flow /\ Len(flows') = n
      /\ \A i \in DOMAIN flows : flows'[i] = flows[i]
      /\ flows'[n].logins = 0
  BY <1>0, <1>3 DEF Flow
<1>5. Loaded(b) \in Data /\ Owned(flows, b, Loaded(b))
  BY LoadedIsOwn
<1>6. /\ data \in Data /\ data.state = n /\ data.profile = Loaded(b).profile
      /\ data # Loaded(b) /\ n # None
  <2>1. /\ data \in Data /\ data.state = n /\ data.profile = Loaded(b).profile
    BY <1>1, <1>4, <1>5 DEF Data, Opt
  <2>2. n # None
    BY <1>0, <1>3, NoneFacts
  <2> QED BY <1>4, <1>5, <2>1, <2>2 DEF Owned
<1>7. Arrive(w, b, "save", data, n) /\ n \in Opt(Flow) /\ \A v \in Worker : req[v] = Idle
  BY <1>1, <1>4 DEF BeginLogin, Arrive, Opt
<1>8. /\ \A v \in Worker \ {w} : req'[v] = req[v]
      /\ p.at = "save" /\ p.browser = b /\ p.data = data /\ p.changed
      /\ p.key = IF cookie[b] \in DOMAIN sessions THEN cookie[b] ELSE None
  BY <1>2, <1>6, <1>7, ArriveFacts
<1>9. Fine(w) /\ ~Busy(w)
  BY <1>7, ActorAlone, IdleFacts DEF Busy
<1>10. ASSUME NEW i \in DOMAIN flows PROVE OnceFor(w, i)'
  <2>1. OnceFor(w, i) /\ ~Clears(w, b, i) /\ \A c : ~Clears(w, c, i)
    BY <1>9 DEF Fine, Busy, Clears
  <2>2. i # None /\ (p.data.profile = i => Waiting(b, i))
    BY <1>6, <1>8, FlowIsSome, WaitingIsOwn
  <2>3. Unused(i)' <=> Unused(i)
    BY <1>4 DEF Unused
  <2>4. Counted(i)' /\ Claimed(w, i)'
    BY <1>2, <1>4, <1>8, <2>1, <2>2, <2>3 DEF OnceFor, Counted, Claimed, Entering
  <2> QED BY <1>2, <1>3, <1>4, <1>8, <2>1, <2>3, <2>4 DEF OnceFor, Waiting, Entering
<1>11. OnceFor(w, n)'
  <2>1. \A c \in Browser : ~Waiting(c, n)
    BY <1>4, <1>6, WaitingIsOwn
  <2>2. p.data.profile # n
    BY <1>4, <1>5, <1>6, <1>8 DEF Owned
  <2> QED BY <1>2, <1>3, <1>4, <1>8, <2>1, <2>2 DEF OnceFor, Waiting, Counted, Claimed, Entering
<1>12. ASSUME NEW c \in Browser PROVE FreshFor(w, c)'
  <2>1. fresh'[b] = n /\ \A d \in Browser \ {b} : fresh'[d] = fresh[d]
    BY <1>4 DEF BeginLogin, Inv, TypeOK
  <2>2. CASE c = b
    BY <1>2, <1>3, <1>6, <1>8, <2>1, <2>2 DEF FreshFor, Carrying, Busy
  <2>3. CASE c # b
    <3>1. FreshFor(w, c)
      BY <1>9 DEF Fine
    <3> QED BY <1>2, <1>3, <1>8, <1>9, <2>1, <2>3, <3>1 DEF FreshFor, Awaits, Busy
  <2> QED BY <2>2, <2>3
<1> QED BY <1>4, <1>8, <1>9, <1>10, <1>11, <1>12, RestKept DEF Fine

(* A callback takes the state with it; what waits stays unused.            *)
LEMMA CallbackOrderly ==
  ASSUME Inv, Orderly, Serial, NEW w \in Worker, NEW b \in Browser, NEW i \in Flow, Callback(w, b, i)
  PROVE  Fine(w)'
<1>1. PICK data : data = [Loaded(b) EXCEPT !.state = None]
  OBVIOUS
<1>2. PICK at : at = IF Matches(b, i) THEN "exchange" ELSE "save"
  OBVIOUS
<1>3. PICK p : p = req'[w]
  OBVIOUS
<1>4. /\ Arrive(w, b, at, data, i) /\ at \in {"exchange", "save"} /\ i \in Opt(Flow)
      /\ \A v \in Worker : req[v] = Idle
      /\ UNCHANGED <<sessions, cookie, flows>> /\ Meets(b)
  BY <1>1, <1>2, NoneFacts DEF Callback, Arrive
<1>5. data \in Data /\ data.profile = Loaded(b).profile
  BY <1>1, LoadedIsOwn, NoneFacts DEF Data
<1>6. /\ \A v \in Worker \ {w} : req'[v] = req[v]
      /\ p.at = at /\ p.browser = b /\ p.data = data
  BY <1>3, <1>4, <1>5, ArriveFacts
<1>7. Fine(w) /\ ~Busy(w)
  BY <1>4, ActorAlone, IdleFacts DEF Busy
<1>8. ASSUME NEW j \in DOMAIN flows PROVE OnceFor(w, j)'
  <2>1. OnceFor(w, j) /\ \A c : ~Clears(w, c, j)
    BY <1>7 DEF Fine, Busy, Clears
  <2>2. p.data.profile = j => Waiting(b, j)
    BY <1>5, <1>6, FlowIsSome, WaitingIsOwn
  <2>3. Unused(j)' <=> Unused(j)
    BY <1>4 DEF Unused
  <2> QED BY <1>3, <1>4, <1>6, <2>1, <2>2, <2>3 DEF OnceFor, Waiting, Counted, Claimed, Entering
<1>9. ASSUME NEW c \in Browser PROVE FreshFor(w, c)'
  <2>1. fresh'[b] = None /\ \A d \in Browser \ {b} : fresh'[d] = fresh[d]
    BY <1>4 DEF Meets, Inv, TypeOK
  <2>2. FreshFor(w, c)
    BY <1>7 DEF Fine
  <2> QED BY <1>3, <1>4, <1>6, <1>7, <2>1, <2>2 DEF FreshFor, Awaits, Busy
<1> QED BY <1>4, <1>6, <1>7, <1>8, <1>9, RestKept DEF Fine

(* The profile that is picked is unused, and will be out of the session.   *)
LEMMA PickOrderly ==
  ASSUME Inv, Orderly, Serial, NEW w \in Worker, NEW b \in Browser, NEW at \in {"enter", "save"},
         Pick(w, b, at)
  PROVE  Fine(w)'
<1>1. PICK data : data = [Loaded(b) EXCEPT !.profile = None]
  OBVIOUS
<1>2. PICK i : i = Loaded(b).profile
  OBVIOUS
<1>3. PICK p : p = req'[w]
  OBVIOUS
<1>4. /\ i # None /\ Arrive(w, b, at, data, i) /\ \A v \in Worker : req[v] = Idle
      /\ UNCHANGED <<sessions, cookie, flows, fresh>>
  BY <1>1, <1>2 DEF Pick, Arrive
<1>5. /\ data \in Data /\ data.profile = None /\ data.state = Loaded(b).state
      /\ data # Loaded(b) /\ i \in Opt(Flow)
  BY <1>1, <1>2, <1>4, LoadedIsOwn, NoneFacts DEF Data
<1>6. Waiting(b, i) /\ i \in DOMAIN flows /\ flows[i].browser = b
  BY <1>2, <1>4, WaitingIsOwn
<1>7. /\ \A v \in Worker \ {w} : req'[v] = req[v]
      /\ p.at = at /\ p.browser = b /\ p.data = data /\ p.flow = i /\ p.changed /\ p.key = cookie[b]
  <2>1. cookie[b] \in DOMAIN sessions
    BY <1>6 DEF Waiting
  <2> QED BY <1>3, <1>4, <1>5, <2>1, ArriveFacts
<1>8. Fine(w) /\ ~Busy(w)
  BY <1>4, ActorAlone, IdleFacts DEF Busy
<1>9. Overwrites(w, b)'
  BY <1>3, <1>4, <1>6, <1>7 DEF Overwrites, Waiting
<1>10. ASSUME NEW j \in DOMAIN flows PROVE OnceFor(w, j)'
  <2>1. OnceFor(w, j) /\ \A c : ~Clears(w, c, j)
    BY <1>8 DEF Fine, Busy, Clears
  <2>2. j # None /\ p.data.profile # j
    BY <1>5, <1>7, FlowIsSome
  <2>3. (Unused(j)' <=> Unused(j)) /\ \A c \in Browser : Waiting(c, j)' <=> Waiting(c, j)
    BY <1>4 DEF Unused, Waiting
  <2>4. Entering(w, j)' => j = i
    BY <1>3, <1>7 DEF Entering
  <2>5. ASSUME NEW c \in Browser, Waiting(c, j), j = i PROVE c = b
    BY <1>6, <2>2, <2>5, WaitingIsOwn
  <2>6. j = i => Unused(j)
    BY <1>6, <2>1 DEF OnceFor
  <2> QED BY <1>3, <1>4, <1>9, <2>1, <2>2, <2>3, <2>4, <2>5, <2>6 DEF OnceFor, Counted, Claimed
<1>11. ASSUME NEW c \in Browser PROVE FreshFor(w, c)'
  <2>1. FreshFor(w, c)
    BY <1>8 DEF Fine
  <2>2. CASE c = b /\ fresh[b] # None
    <3>1. Awaits(b, fresh[b]) /\ data.state = fresh[b]
      BY <1>5, <1>8, <2>1, <2>2, WaitingIsOwn DEF FreshFor
    <3>2. Carrying(w, b)'
      BY <1>3, <1>4, <1>7, <1>9, <3>1 DEF Carrying, Awaits
    <3> QED BY <1>3, <1>7, <2>2, <3>2 DEF FreshFor, Busy
  <2>3. CASE ~(c = b /\ fresh[b] # None)
    BY <1>3, <1>4, <1>7, <1>8, <2>1, <2>3 DEF FreshFor, Awaits, Busy
  <2> QED BY <2>2, <2>3
<1> QED BY <1>4, <1>7, <1>8, <1>10, <1>11, RestKept DEF Fine

(* What a call to PeeringDB does to the login, and to the request.         *)
LEMMA ExchangeDoes ==
  ASSUME Inv, NEW w \in Worker, Exchange(w)
  PROVE  /\ UNCHANGED <<sessions, cookie, fresh>> /\ DOMAIN flows' = DOMAIN flows
         /\ req[w].at = "exchange" /\ req[w].flow \in DOMAIN flows
         /\ \A v \in Worker \ {w} : req'[v] = req[v]
         /\ req'[w].browser = req[w].browser
         /\ \A j \in DOMAIN flows : /\ flows'[j].logins = flows[j].logins
                                    /\ flows[j].spent => flows'[j].spent
         /\ \/ req'[w].at = "save" /\ req'[w].data = req[w].data
            \/ /\ ~flows[req[w].flow].spent /\ flows'[req[w].flow].spent
               /\ req'[w].flow = req[w].flow
               /\ \/ req'[w].at = "enter" /\ req'[w].data = req[w].data
                  \/ req'[w].at = "save" /\ req'[w].data.profile = req[w].flow
<1> DEFINE i == req[w].flow
           q1 == [req[w] EXCEPT !.at = "save"]
           q2 == [req[w] EXCEPT !.at = "enter"]
           q3 == [req[w] EXCEPT !.at = "save", !.data.profile = i, !.changed = TRUE]
<1>1. /\ req[w].at = "exchange" /\ req[w] \in Request /\ req \in [Worker -> Request]
      /\ i \in DOMAIN flows /\ flows \in Seq(FlowRow) /\ flows[i] \in FlowRow
      /\ UNCHANGED <<sessions, cookie, fresh>>
  BY DEF Inv, TypeOK, Exchange
<1>2. \/ /\ req' = [req EXCEPT ![w] = q1]
         /\ \E x \in {flows[i].spent, TRUE} : flows' = [flows EXCEPT ![i].spent = x]
      \/ /\ ~flows[i].spent /\ flows' = [flows EXCEPT ![i].spent = TRUE]
         /\ req' \in {[req EXCEPT ![w] = q1], [req EXCEPT ![w] = q2], [req EXCEPT ![w] = q3]}
  <2>1. CASE Go(w, "save") /\ \E x \in {flows[i].spent, TRUE} : flows' = [flows EXCEPT ![i].spent = x]
    BY <2>1 DEF Go
  <2>2. CASE /\ ~flows[i].spent /\ flows' = [flows EXCEPT ![i].spent = TRUE]
             /\ req' = [req EXCEPT ![w] =
                  CASE Cardinality(Candidates(Consenter(w))) = 0 -> [@ EXCEPT !.at = "save"]
                    [] Cardinality(Candidates(Consenter(w))) = 1 -> [@ EXCEPT !.at = "enter"]
                    [] OTHER -> [@ EXCEPT !.at = "save", !.data.profile = i, !.changed = TRUE]]
    <3>1. CASE Cardinality(Candidates(Consenter(w))) = 0
      BY <2>2, <3>1
    <3>2. CASE Cardinality(Candidates(Consenter(w))) = 1
      BY <2>2, <3>2
    <3>3. CASE Cardinality(Candidates(Consenter(w))) \notin {0, 1}
      BY <2>2, <3>3
    <3> QED BY <3>1, <3>2, <3>3
  <2> QED BY <2>1, <2>2 DEF Exchange
<1>3. \E x \in {flows[i].spent, TRUE} :
        /\ flows' = [flows EXCEPT ![i].spent = x]
        /\ DOMAIN flows' = DOMAIN flows /\ flows'[i] = [flows[i] EXCEPT !.spent = x]
        /\ \A j \in DOMAIN flows \ {i} : flows'[j] = flows[j]
  BY <1>1, <1>2
<1>4. \A j \in DOMAIN flows : /\ flows'[j].logins = flows[j].logins
                              /\ flows[j].spent => flows'[j].spent
  BY <1>1, <1>3 DEF FlowRow
<1>5. /\ q1.at = "save" /\ q1.browser = req[w].browser /\ q1.data = req[w].data
      /\ q2.at = "enter" /\ q2.browser = req[w].browser /\ q2.data = req[w].data /\ q2.flow = i
      /\ q1.flow = i
      /\ q3.at = "save" /\ q3.browser = req[w].browser /\ q3.flow = i /\ q3.data.profile = i
  BY <1>1 DEF Request, Data
<1> HIDE DEF q1, q2, q3
<1>6. \A q : req' = [req EXCEPT ![w] = q] => req'[w] = q /\ \A v \in Worker \ {w} : req'[v] = req[v]
  BY <1>1
<1>7. CASE req' = [req EXCEPT ![w] = q1]
  BY <1>1, <1>3, <1>4, <1>5, <1>6, <1>7
<1>8. CASE /\ ~flows[i].spent /\ flows' = [flows EXCEPT ![i].spent = TRUE]
           /\ req' \in {[req EXCEPT ![w] = q2], [req EXCEPT ![w] = q3]}
  <2>1. flows'[i].spent
    BY <1>1, <1>8 DEF FlowRow
  <2> QED BY <1>1, <1>3, <1>4, <1>5, <1>6, <1>8, <2>1
<1> QED BY <1>2, <1>7, <1>8

(* A code that PeeringDB takes was not spent, so nobody waits with it yet. *)
LEMMA ExchangeOrderly ==
  ASSUME Inv, Orderly, Serial, NEW w \in Worker, Exchange(w)
  PROVE  Fine(w)'
<1>1. PICK i : i = req[w].flow
  OBVIOUS
<1>2. PICK q, p : q = req[w] /\ p = req'[w]
  OBVIOUS
<1>3. Fine(w)
  BY ExchangeDoes, ActorAlone DEF Busy
<1>4. /\ UNCHANGED <<sessions, cookie, fresh>> /\ DOMAIN flows' = DOMAIN flows
      /\ q.at = "exchange" /\ i \in DOMAIN flows /\ i # None
      /\ \A v \in Worker \ {w} : req'[v] = req[v]
      /\ p.browser = q.browser
      /\ \A j \in DOMAIN flows : /\ flows'[j].logins = flows[j].logins
                                 /\ flows[j].spent => flows'[j].spent
      /\ \/ p.at = "save" /\ p.data = q.data
         \/ /\ ~flows[i].spent /\ flows'[i].spent /\ p.flow = i
            /\ \/ p.at = "enter" /\ p.data = q.data
               \/ p.at = "save" /\ p.data.profile = i
  BY <1>1, <1>2, ExchangeDoes, FlowIsSome
<1>5. ASSUME NEW j \in DOMAIN flows PROVE OnceFor(w, j)'
  <2>1. /\ Counted(j) /\ (q.data.profile = j => Unused(j))
        /\ \A c \in Browser : Waiting(c, j) => Unused(j)
    BY <1>2, <1>3, <1>4 DEF Fine, OnceFor, Claimed, Clears, Busy
  <2>2. Counted(j)' /\ (Unused(j) => Unused(j)')
    BY <1>4, <2>1 DEF Counted, Unused
  <2>3. \A c \in Browser : Waiting(c, j)' <=> Waiting(c, j)
    BY <1>4 DEF Waiting
  <2>4. CASE p.at = "save" /\ p.data = q.data
    BY <1>2, <2>1, <2>2, <2>3, <2>4 DEF OnceFor, Claimed, Entering, Unused
  <2>5. CASE j = i /\ ~flows[i].spent /\ flows'[i].spent
    <3>1. Unused(i)' /\ q.data.profile # i /\ \A c \in Browser : ~Waiting(c, i)
      BY <1>4, <2>1, <2>5 DEF Unused, Counted
    <3> QED BY <1>2, <1>4, <2>2, <2>3, <2>5, <3>1 DEF OnceFor, Claimed, Entering
  <2>6. CASE /\ j # i /\ p.flow = i
             /\ \/ p.at = "enter" /\ p.data = q.data
                \/ p.at = "save" /\ p.data.profile = i
    BY <1>2, <2>1, <2>2, <2>3, <2>6 DEF OnceFor, Claimed, Entering, Unused
  <2> QED BY <1>4, <2>4, <2>5, <2>6
<1>6. ASSUME NEW c \in Browser PROVE FreshFor(w, c)'
  <2>1. FreshFor(w, c)
    BY <1>3 DEF Fine
  <2>2. c = q.browser => fresh[c] = None
    BY <1>2, <1>4, <2>1 DEF FreshFor, Carrying, Busy
  <2> QED BY <1>2, <1>4, <2>1, <2>2 DEF FreshFor, Awaits, Busy
<1>7. Rest(w)'
  BY <1>3, <1>4, RestKept DEF Fine
<1> QED BY <1>4, <1>5, <1>6, <1>7 DEF Fine

(* Without a login nothing has happened to the login or to the session.    *)
LEMMA EnterElseOrderly ==
  ASSUME Inv, Orderly, Serial, NEW w \in Worker, EnterElse(w)
  PROVE  Fine(w)'
<1>1. PICK q, p : q = req[w] /\ p = req'[w]
  OBVIOUS
<1>2. /\ UNCHANGED <<sessions, cookie, flows, fresh>> /\ q.at = "enter"
      /\ req \in [Worker -> Request] /\ q \in Request
  BY <1>1 DEF EnterElse, Inv, TypeOK
<1>3. Fine(w)
  BY <1>1, <1>2, ActorAlone DEF Busy
<1>4. /\ \A v \in Worker \ {w} : req'[v] = req[v]
      /\ \/ p.at = "idle"
         \/ /\ p.at = "save" /\ p.browser = q.browser /\ p.data = q.data
            /\ p.key = q.key /\ p.changed = q.changed
  <2>1. CASE End(w)
    BY <1>1, <1>2, <2>1, IdleFacts DEF End
  <2>2. CASE Go(w, "save")
    BY <1>1, <1>2, <2>2 DEF Go, Request
  <2> QED BY <2>1, <2>2 DEF EnterElse
<1>5. ASSUME NEW j \in DOMAIN flows PROVE OnceFor(w, j)'
  <2>1. /\ Counted(j) /\ (q.data.profile = j => Unused(j))
        /\ \A c \in Browser : Waiting(c, j) => Unused(j)
    BY <1>1, <1>2, <1>3 DEF Fine, OnceFor, Claimed, Clears, Busy
  <2>2. Counted(j)' /\ (Unused(j) <=> Unused(j)')
    BY <1>2, <2>1 DEF Counted, Unused
  <2>3. \A c \in Browser : Waiting(c, j)' <=> Waiting(c, j)
    BY <1>2 DEF Waiting
  <2> QED BY <1>1, <1>2, <1>4, <2>1, <2>2, <2>3 DEF OnceFor, Claimed, Entering, Busy, Unused
<1>6. ASSUME NEW c \in Browser PROVE FreshFor(w, c)'
  <2>1. FreshFor(w, c) /\ (Awaits(c, fresh[c])' <=> Awaits(c, fresh[c]))
    BY <1>2, <1>3 DEF Fine, Awaits
  <2>2. CASE c = q.browser /\ fresh[c] # None
    <3>1. Carrying(w, c) /\ Overwrites(w, c) /\ Awaits(c, fresh[c])
      BY <1>1, <1>2, <2>1, <2>2 DEF FreshFor, Carrying, Busy
    <3>2. q.key \in DOMAIN sessions
      BY <1>1, <3>1 DEF Overwrites
    <3> QED BY <1>1, <1>2, <1>4, <2>1, <2>2, <3>1, <3>2 DEF FreshFor, Carrying, Busy
  <2>3. CASE ~(c = q.browser /\ fresh[c] # None)
    BY <1>1, <1>2, <1>4, <2>1, <2>3 DEF FreshFor, Busy
  <2> QED BY <2>2, <2>3
<1>7. Rest(w)'
  BY <1>3, <1>4, RestKept DEF Fine
<1> QED BY <1>2, <1>5, <1>6, <1>7 DEF Fine

(***************************************************************************)
(* What auth_login leaves: the session as it is, or without the row that   *)
(* the request's key was of; the login has logged in once more.            *)
(***************************************************************************)
LEMMA LoginDoes ==
  ASSUME Inv, NEW w \in Worker, EnterLogsIn(w)
  PROVE  /\ req[w].at = "enter" /\ req[w].browser \in Browser /\ req[w].flow \in DOMAIN flows
         /\ UNCHANGED cookie /\ DOMAIN flows' = DOMAIN flows
         /\ \A v \in Worker \ {w} : req'[v] = req[v]
         /\ \A j \in DOMAIN flows : /\ flows'[j].spent <=> flows[j].spent
                                    /\ j # req[w].flow => flows'[j].logins = flows[j].logins
         /\ flows[req[w].flow].logins = 0 => flows'[req[w].flow].logins = 1
         /\ req'[w].at = "save" /\ req'[w].browser = req[w].browser
         /\ \/ /\ UNCHANGED <<sessions, fresh>> /\ req'[w].key = req[w].key
               /\ (req[w].changed => req'[w].changed) /\ req'[w].data = req[w].data
            \/ /\ \A c \in Browser : cookie[c] \in DOMAIN sessions' <=>
                    cookie[c] \in DOMAIN sessions /\ cookie[c] # req[w].key
               /\ \A c \in Browser : cookie[c] \in DOMAIN sessions' =>
                    sessions'[cookie[c]] = sessions[cookie[c]]
               /\ req'[w].changed
               /\ \/ /\ UNCHANGED fresh /\ req'[w].key \in DOMAIN sessions'
                     /\ req'[w].data.state = req[w].data.state
                     /\ req'[w].data.profile = req[w].data.profile
                  \/ /\ fresh' = [fresh EXCEPT ![req[w].browser] = None]
                     /\ req'[w].data.profile = None
<1> DEFINE q == req[w]
           b == q.browser
           i == q.flow
           u == Consenter(w)
           named(d) == [d EXCEPT !.user = u]
<1>1. /\ req \in [Worker -> Request] /\ q.at = "enter" /\ q \in Request
      /\ b \in Browser /\ q.key \in Opt(1..lastKey) /\ i \in DOMAIN flows
      /\ u \in Pdb /\ q.data \in Data /\ named(q.data) \in Data /\ named(Empty) \in Data
      /\ flows \in Seq(FlowRow) /\ flows[i] \in FlowRow /\ DOMAIN flows' = DOMAIN flows
      /\ sessions \in [DOMAIN sessions -> Data] /\ DOMAIN sessions \subseteq 1..lastKey
      /\ lastKey \in Nat /\ cookie \in [Browser -> Opt(1..lastKey)]
  BY LoginIsOwn, OAuthAssumption DEF Inv, TypeOK
<1>2. /\ UNCHANGED cookie
      /\ flows' = [flows EXCEPT ![i].logins = IF @ < 2 THEN @ + 1 ELSE @]
  BY DEF EnterLogsIn
<1>3. /\ \A j \in DOMAIN flows : /\ flows'[j].spent <=> flows[j].spent
                                 /\ j # i => flows'[j].logins = flows[j].logins
      /\ flows[i].logins = 0 => flows'[i].logins = 1
  BY <1>1, <1>2 DEF FlowRow
<1>4. /\ named(q.data).state = q.data.state /\ named(q.data).profile = q.data.profile
      /\ named(Empty).profile = None
  BY <1>1, IdleFacts DEF Data, Empty
<1> HIDE DEF named
<1>5. CASE /\ lastKey' = lastKey + 1
           /\ sessions' = Put(Without(sessions, q.key), lastKey', Empty)
           /\ req' = [req EXCEPT ![w].at = "save", ![w].key = lastKey', ![w].changed = TRUE,
                        ![w].data.user = u]
           /\ UNCHANGED fresh
  <2> DEFINE n == lastKey + 1
             t == Without(sessions, q.key)
             r == [q EXCEPT !.at = "save", !.key = n, !.changed = TRUE, !.data = named(q.data)]
  <2>1. /\ r.at = "save" /\ r.key = n /\ r.data = named(q.data) /\ r.browser = b /\ r.changed
    BY <1>1 DEF Request
  <2>2. req' = [req EXCEPT ![w] = r]
    BY <1>1, <1>5 DEF named
  <2> HIDE DEF r
  <2>3. req'[w] = r /\ \A v \in Worker \ {w} : req'[v] = req[v]
    BY <1>1, <2>2
  <2>4. /\ DOMAIN t = DOMAIN sessions \ {q.key}
        /\ \A x \in DOMAIN sessions : x # q.key => t[x] = sessions[x]
    BY <1>1, WithoutFacts
  <2>5. sessions' = Put(t, n, Empty)
    BY <1>5
  <2> HIDE DEF t
  <2>6. /\ DOMAIN sessions' = DOMAIN t \union {n}
        /\ \A x \in DOMAIN t : x # n => sessions'[x] = t[x]
    BY <2>5 DEF Put
  <2>7. \A c \in Browser : cookie[c] # n
    BY <1>1, NoneFacts DEF Opt
  <2> QED BY <1>1, <1>2, <1>3, <1>4, <1>5, <2>1, <2>3, <2>4, <2>6, <2>7
<1>6. CASE Go(w, "save") /\ UNCHANGED <<sessions, fresh>>
  <2>1. /\ \A v \in Worker \ {w} : req'[v] = req[v]
        /\ req'[w].at = "save" /\ req'[w].browser = b /\ req'[w].key = q.key
        /\ req'[w].data = q.data
    BY <1>1, <1>6, GoFacts
  <2>2. q.changed => req'[w].changed
    BY <1>1, <1>6 DEF Go, Request
  <2> QED BY <1>1, <1>2, <1>3, <1>6, <2>1, <2>2
<1>7. CASE /\ sessions' = Without(sessions, q.key)
           /\ req' = [req EXCEPT ![w].at = "save", ![w].key = None, ![w].changed = TRUE,
                        ![w].data = [Empty EXCEPT !.user = u]]
           /\ Meets(b)
  <2> DEFINE r == [q EXCEPT !.at = "save", !.key = None, !.changed = TRUE, !.data = named(Empty)]
  <2>1. /\ r.at = "save" /\ r.key = None /\ r.data = named(Empty) /\ r.browser = b /\ r.changed
    BY <1>1 DEF Request
  <2>2. req' = [req EXCEPT ![w] = r]
    BY <1>1, <1>7 DEF named
  <2> HIDE DEF r
  <2>3. req'[w] = r /\ \A v \in Worker \ {w} : req'[v] = req[v]
    BY <1>1, <2>2
  <2>4. /\ DOMAIN sessions' = DOMAIN sessions \ {q.key}
        /\ \A x \in DOMAIN sessions : x # q.key => sessions'[x] = sessions[x]
    BY <1>1, <1>7, WithoutFacts
  <2>5. fresh' = [fresh EXCEPT ![b] = None]
    BY <1>7 DEF Meets
  <2> QED BY <1>1, <1>2, <1>3, <1>4, <2>1, <2>3, <2>4, <2>5
<1> QED BY <1>5, <1>6, <1>7 DEF EnterLogsIn

(* The profile that has logged in is out of the session, or will be.       *)
LEMMA EnterLogsInOrderly ==
  ASSUME Inv, Orderly, Serial, NEW w \in Worker, EnterLogsIn(w)
  PROVE  Fine(w)'
<1>1. PICK q, p, b, i : q = req[w] /\ p = req'[w] /\ b = q.browser /\ i = q.flow
  OBVIOUS
<1>2. /\ q.at = "enter" /\ b \in Browser /\ i \in DOMAIN flows
      /\ UNCHANGED cookie /\ DOMAIN flows' = DOMAIN flows
      /\ \A v \in Worker \ {w} : req'[v] = req[v]
      /\ \A j \in DOMAIN flows : /\ flows'[j].spent <=> flows[j].spent
                                 /\ j # i => flows'[j].logins = flows[j].logins
      /\ flows[i].logins = 0 => flows'[i].logins = 1
      /\ p.at = "save" /\ p.browser = b
      /\ None \notin DOMAIN flows /\ fresh \in [Browser -> Opt(DOMAIN flows)]
  BY <1>1, LoginDoes, FlowIsSome DEF Inv, TypeOK
<1>3. \/ /\ UNCHANGED <<sessions, fresh>> /\ p.key = q.key
         /\ (q.changed => p.changed) /\ p.data = q.data
      \/ /\ \A c \in Browser : cookie[c] \in DOMAIN sessions' <=>
              cookie[c] \in DOMAIN sessions /\ cookie[c] # q.key
         /\ \A c \in Browser : cookie[c] \in DOMAIN sessions' =>
              sessions'[cookie[c]] = sessions[cookie[c]]
         /\ p.changed
         /\ \/ /\ UNCHANGED fresh /\ p.key \in DOMAIN sessions'
               /\ p.data.state = q.data.state /\ p.data.profile = q.data.profile
            \/ /\ fresh' = [fresh EXCEPT ![b] = None] /\ p.data.profile = None
  BY <1>1, LoginDoes
<1>4. Fine(w)
  BY <1>1, <1>2, ActorAlone DEF Busy
<1>5. /\ Unused(i) /\ q.data.profile # i
      /\ \A c \in Browser : Waiting(c, i) => q.changed /\ q.key = cookie[c]
  BY <1>1, <1>2, <1>4 DEF Fine, OnceFor, Claimed, Entering, Overwrites
<1>6. ASSUME NEW j \in DOMAIN flows PROVE OnceFor(w, j)'
  <2>1. /\ Counted(j) /\ (q.data.profile = j => Unused(j))
        /\ \A c \in Browser : Waiting(c, j) => Unused(j)
    BY <1>1, <1>2, <1>4 DEF Fine, OnceFor, Claimed, Clears, Busy
  <2>2. Counted(j)' /\ (j # i => (Unused(j) => Unused(j)'))
    BY <1>2, <1>5, <2>1 DEF Counted, Unused
  <2>3. \A c \in Browser : Waiting(c, j)' => Waiting(c, j)
    BY <1>2, <1>3 DEF Waiting
  <2>4. Claimed(w, j)' /\ ~Entering(w, j)'
    BY <1>1, <1>2, <1>3, <1>5, <2>1, <2>2 DEF Claimed, Entering
  <2>5. CASE j # i
    BY <2>1, <2>2, <2>3, <2>4, <2>5 DEF OnceFor, Unused
  <2>6. ASSUME NEW c \in Browser, Waiting(c, i)' PROVE flows'[i].spent /\ Clears(w, c, i)'
    <3>1. Waiting(c, i) /\ q.changed /\ q.key = cookie[c] /\ cookie[c] \in DOMAIN sessions'
      BY <1>2, <1>3, <1>5, <2>6 DEF Waiting
    <3> QED BY <1>1, <1>2, <1>3, <1>5, <3>1 DEF Clears, Overwrites, Unused
  <2> QED BY <2>2, <2>4, <2>5, <2>6 DEF OnceFor
<1>7. ASSUME NEW c \in Browser PROVE FreshFor(w, c)'
  <2>1. FreshFor(w, c)
    BY <1>4 DEF Fine
  <2>2. CASE c = b
    <3>1. fresh[b] # None => Carrying(w, b) /\ Overwrites(w, b)
      BY <1>1, <1>2, <2>1, <2>2 DEF FreshFor, Carrying, Busy
    <3>2. fresh'[b] # None => Carrying(w, b)'
      BY <1>1, <1>2, <1>3, <3>1 DEF Carrying, Overwrites
    <3> QED BY <1>1, <1>2, <2>2, <3>2 DEF FreshFor, Busy
  <2>3. CASE c # b
    <3>1. fresh'[c] = fresh[c]
      BY <1>2, <1>3, <2>3
    <3>2. q.key # None => q.key # cookie[c]
      BY <1>1, <2>3 DEF Inv, KeysApart
    <3>3. cookie[c] \in DOMAIN sessions => cookie[c] # None
      BY NoneFacts DEF Inv, TypeOK
    <3>4. fresh[c] # None => Awaits(c, fresh[c])
      BY <1>1, <2>1, <2>3 DEF FreshFor
    <3>5. fresh[c] # None => cookie[c] \in DOMAIN sessions' /\ sessions'[cookie[c]] = sessions[cookie[c]]
      BY <1>3, <3>2, <3>3, <3>4 DEF Awaits
    <3>6. fresh'[c] # None => Awaits(c, fresh[c])'
      BY <1>2, <3>1, <3>4, <3>5 DEF Awaits
    <3> QED BY <1>1, <1>2, <2>3, <3>6 DEF FreshFor
  <2> QED BY <2>2, <2>3
<1>8. Rest(w)'
  BY <1>2, <1>4, RestKept DEF Fine
<1> QED BY <1>2, <1>6, <1>7, <1>8 DEF Fine

(* What the end of a request writes, and to whose session.                 *)
LEMMA SaveDoes ==
  ASSUME Inv, NEW w \in Worker, Save(w)
  PROVE  /\ req[w].at = "save" /\ req[w].browser \in Browser
         /\ UNCHANGED <<flows, fresh>>
         /\ \A v \in Worker \ {w} : req'[v] = req[v]
         /\ req'[w].at = "idle"
         /\ \/ /\ UNCHANGED <<sessions, cookie>>
               /\ ~req[w].changed \/ req[w].key \notin DOMAIN sessions \union {None}
            \/ /\ req[w].key # None \/ None \notin DOMAIN sessions
               /\ cookie'[req[w].browser] \in DOMAIN sessions'
               /\ sessions'[cookie'[req[w].browser]] = req[w].data
               /\ \A c \in Browser \ {req[w].browser} :
                    /\ cookie'[c] = cookie[c]
                    /\ cookie[c] \in DOMAIN sessions => req[w].key # cookie[c]
                    /\ cookie[c] \in DOMAIN sessions' <=> cookie[c] \in DOMAIN sessions
                    /\ cookie[c] \in DOMAIN sessions => sessions'[cookie[c]] = sessions[cookie[c]]
<1> DEFINE q == req[w]
           b == q.browser
<1>1. /\ req \in [Worker -> Request] /\ q.at = "save" /\ q.data \in Data
      /\ b \in Browser /\ q.key \in Opt(1..lastKey)
      /\ sessions \in [DOMAIN sessions -> Data] /\ DOMAIN sessions \subseteq 1..lastKey
      /\ lastKey \in Nat /\ cookie \in [Browser -> Opt(1..lastKey)]
      /\ End(w) /\ UNCHANGED <<flows, fresh>>
  BY OAuthAssumption DEF Inv, TypeOK, RequestsHoldOwn, HoldsOwn, Save, Request
<1>2. /\ \A v \in Worker \ {w} : req'[v] = req[v]
      /\ req'[w].at = "idle"
  BY <1>1, IdleFacts DEF End
<1>3. None \notin DOMAIN sessions /\ \A c \in Browser \ {b} : q.key # None => cookie[c] # q.key
  BY <1>1, NoneFacts DEF Inv, KeysApart
<1>4. CASE /\ ~q.changed \/ (q.key # None /\ q.key \notin DOMAIN sessions)
           /\ UNCHANGED <<sessions, cookie>>
  BY <1>1, <1>2, <1>4
<1>5. CASE /\ q.key \in DOMAIN sessions /\ sessions' = Put(sessions, q.key, q.data)
           /\ cookie' = [cookie EXCEPT ![b] = q.key]
  <2>1. /\ DOMAIN sessions' = DOMAIN sessions /\ sessions'[q.key] = q.data
        /\ \A x \in DOMAIN sessions : x # q.key => sessions'[x] = sessions[x]
    BY <1>1, <1>5 DEF Put
  <2>2. cookie'[b] = q.key /\ \A c \in Browser \ {b} : cookie'[c] = cookie[c]
    BY <1>1, <1>5
  <2> QED BY <1>1, <1>2, <1>3, <1>5, <2>1, <2>2
<1>6. CASE /\ q.key = None /\ lastKey' = lastKey + 1
           /\ sessions' = Put(sessions, lastKey', q.data)
           /\ cookie' = [cookie EXCEPT ![b] = lastKey']
  <2> DEFINE n == lastKey + 1
  <2>1. n \notin Opt(1..lastKey) /\ n # None
    BY <1>1, NoneFacts DEF Opt
  <2>2. /\ DOMAIN sessions' = DOMAIN sessions \union {n} /\ sessions'[n] = q.data
        /\ \A x \in DOMAIN sessions : sessions'[x] = sessions[x]
    <3>1. n \notin DOMAIN sessions
      BY <1>1, <2>1 DEF Opt
    <3> QED BY <1>1, <1>6, <2>1, <3>1 DEF Put
  <2>3. cookie'[b] = n /\ \A c \in Browser \ {b} : cookie'[c] = cookie[c] /\ cookie[c] # n
    BY <1>1, <1>6, <2>1
  <2> QED BY <1>1, <1>2, <1>3, <1>6, <2>1, <2>2, <2>3
<1> QED BY <1>4, <1>5, <1>6 DEF Save

(* What the request held is in the session; what was used up is gone.      *)
LEMMA SaveOrderly ==
  ASSUME Inv, Orderly, Serial, NEW w \in Worker, Save(w)
  PROVE  Fine(w)'
<1>1. PICK q, b : q = req[w] /\ b = q.browser
  OBVIOUS
<1>2. /\ q.at = "save" /\ b \in Browser /\ UNCHANGED <<flows, fresh>>
      /\ \A v \in Worker \ {w} : req'[v] = req[v]
      /\ req'[w].at = "idle" /\ None \notin DOMAIN flows
      /\ \/ /\ UNCHANGED <<sessions, cookie>>
            /\ ~q.changed \/ q.key \notin DOMAIN sessions \union {None}
         \/ /\ cookie'[b] \in DOMAIN sessions' /\ sessions'[cookie'[b]] = q.data
            /\ \A c \in Browser \ {b} :
                 /\ cookie'[c] = cookie[c]
                 /\ cookie[c] \in DOMAIN sessions => q.key # cookie[c]
                 /\ cookie[c] \in DOMAIN sessions' <=> cookie[c] \in DOMAIN sessions
                 /\ cookie[c] \in DOMAIN sessions => sessions'[cookie[c]] = sessions[cookie[c]]
  BY <1>1, SaveDoes, FlowIsSome
<1>3. Fine(w)
  BY <1>1, <1>2, ActorAlone DEF Busy
<1>4. ASSUME NEW j \in DOMAIN flows PROVE OnceFor(w, j)'
  <2>1. /\ Counted(j) /\ (q.data.profile = j => Unused(j))
        /\ \A c \in Browser : Waiting(c, j) =>
             \/ Unused(j)
             \/ q.changed /\ q.key = cookie[c] /\ cookie[c] \in DOMAIN sessions
    BY <1>1, <1>2, <1>3 DEF Fine, OnceFor, Claimed, Clears, Overwrites, Busy
  <2>2. ASSUME NEW c \in Browser, Waiting(c, j)' PROVE Unused(j)
    BY <1>2, <2>1, <2>2 DEF Waiting
  <2>3. Counted(j)' /\ (Unused(j)' <=> Unused(j))
    BY <1>2, <2>1 DEF Counted, Unused
  <2> QED BY <1>1, <1>2, <2>2, <2>3 DEF OnceFor, Claimed, Entering, Busy, Unused
<1>5. ASSUME NEW c \in Browser PROVE FreshFor(w, c)'
  <2>1. FreshFor(w, c)
    BY <1>3 DEF Fine
  <2>2. CASE c = b
    <3>1. fresh[b] # None => /\ q.changed /\ q.data.state = fresh[b]
                             /\ q.key \in DOMAIN sessions \union {None}
      BY <1>1, <1>2, <2>1, <2>2 DEF FreshFor, Carrying, Busy
    <3>2. fresh'[b] # None => Awaits(b, fresh[b])'
      BY <1>2, <3>1 DEF Awaits
    <3> QED BY <1>2, <2>2, <3>2 DEF FreshFor, Busy
  <2>3. CASE c # b
    <3>1. fresh[c] # None => Awaits(c, fresh[c])
      BY <1>1, <2>1, <2>3 DEF FreshFor
    <3>2. fresh'[c] # None => Awaits(c, fresh[c])'
      BY <1>2, <2>3, <3>1 DEF Awaits
    <3> QED BY <1>2, <3>2 DEF FreshFor, Busy
  <2> QED BY <2>2, <2>3
<1>6. Rest(w)'
  BY <1>2, <1>3, RestKept DEF Fine
<1> QED BY <1>2, <1>4, <1>5, <1>6 DEF Fine

(* A consent at PeeringDB is nothing that sessions or requests know of.    *)
LEMMA ConsentOrderly ==
  ASSUME Inv, Orderly, Serial, NEW i \in Flow, NEW p \in Pdb, Consent(i, p)
  PROVE  Orderly'
<1>1. /\ UNCHANGED <<sessions, cookie, req, fresh>> /\ DOMAIN flows' = DOMAIN flows
      /\ \A j \in DOMAIN flows : flows'[j].logins = flows[j].logins /\ (flows'[j].spent <=> flows[j].spent)
  <2>1. /\ flows \in Seq(FlowRow) /\ i \in DOMAIN flows /\ flows[i] \in FlowRow
        /\ flows' = [flows EXCEPT ![i].consent = p]
        /\ UNCHANGED <<sessions, cookie, req, fresh>>
    BY DEF Inv, TypeOK, Consent
  <2> QED BY <2>1 DEF FlowRow
<1>2. \A j \in DOMAIN flows : (Unused(j)' <=> Unused(j)) /\ (Counted(j)' <=> Counted(j))
  BY <1>1 DEF Unused, Counted
<1>3. LoginsOnce'
  <2>1. \A j \in DOMAIN flows : \A w \in Worker : Claimed(w, j)'
    BY <1>1, <1>2 DEF Orderly, LoginsOnce, Claimed, Entering, Busy
  <2>2. \A j \in DOMAIN flows, b \in Browser : Waiting(b, j)' <=> Waiting(b, j)
    BY <1>1 DEF Waiting
  <2>4. \A w \in Worker, j \in DOMAIN flows : Entering(w, j)' <=> Entering(w, j)
    BY <1>1 DEF Entering
  <2>5. \A w \in Worker, b \in Browser : Overwrites(w, b)' <=> Overwrites(w, b)
    BY <1>1 DEF Overwrites
  <2>6. \A w \in Worker, b \in Browser, j \in DOMAIN flows : Clears(w, b, j)' <=> Clears(w, b, j)
    BY <1>1 DEF Overwrites, Clears
  <2>3. ASSUME NEW j \in DOMAIN flows
        PROVE  /\ Counted(j)' /\ \A b \in Browser : Waiting(b, j)' =>
                    /\ flows'[j].spent
                    /\ \A w \in Worker : Entering(w, j)' => Overwrites(w, b)'
                    /\ Unused(j)' \/ \E w \in Worker : Clears(w, b, j)'
    <3>1. /\ Counted(j) /\ \A b \in Browser : Waiting(b, j) =>
                    /\ flows[j].spent
                    /\ \A w \in Worker : Entering(w, j) => Overwrites(w, b)
                    /\ Unused(j) \/ \E w \in Worker : Clears(w, b, j)
      BY DEF Orderly, LoginsOnce
    <3>2. flows[j].spent => flows'[j].spent
      BY <1>1
    <3> QED BY <1>2, <2>2, <2>4, <2>5, <2>6, <3>1, <3>2, Zenon
  <2> QED BY <1>1, <2>1, <2>3 DEF LoginsOnce
<1>4. OneAtATime' /\ FreshIsKept'
  BY <1>1 DEF Orderly, OneAtATime, FreshIsKept, Carrying, Awaits, Overwrites, Busy
<1> QED BY <1>3, <1>4 DEF Orderly

(* Logging out is a request of its own; other browsers' sessions stay.     *)
LEMMA LogoutOrderly ==
  ASSUME Inv, Orderly, Serial, NEW b \in Browser, Logout(b)
  PROVE  Orderly'
<1>1. /\ sessions \in [DOMAIN sessions -> Data]
      /\ cookie \in [Browser -> Opt(1..lastKey)] /\ fresh \in [Browser -> Opt(DOMAIN flows)]
      /\ None \notin DOMAIN sessions /\ lastKey \in Nat
      /\ cookie[b] # None /\ sessions' = Without(sessions, cookie[b])
      /\ cookie' = [cookie EXCEPT ![b] = None] /\ fresh' = [fresh EXCEPT ![b] = None]
      /\ UNCHANGED <<flows, req>>
  BY NoneFacts, OAuthAssumption DEF Inv, TypeOK, Logout, Meets
<1>2. /\ DOMAIN sessions' = DOMAIN sessions \ {cookie[b]}
      /\ \A x \in DOMAIN sessions' : sessions'[x] = sessions[x]
  BY <1>1, WithoutFacts
<1>3. /\ cookie'[b] = None /\ fresh'[b] = None
      /\ \A c \in Browser : c # b => cookie'[c] = cookie[c] /\ fresh'[c] = fresh[c] /\ cookie[c] # cookie[b]
  BY <1>1 DEF Inv, KeysApart
<1>4. \A w \in Worker : ~Busy(w)
  BY IdleFacts DEF Logout, Busy
<1>5. LoginsOnce'
  <2>1. \A c \in Browser, j \in DOMAIN flows : Waiting(c, j)' => Waiting(c, j)
    BY <1>1, <1>2, <1>3 DEF Waiting
  <2>2. \A w \in Worker : \A j : ~Entering(w, j) /\ \A c : ~Clears(w, c, j)
    BY <1>4 DEF Busy, Entering, Clears
  <2>3. \A j \in DOMAIN flows :
          /\ Counted(j)' <=> Counted(j)
          /\ Unused(j)' <=> Unused(j)
          /\ \A w \in Worker : /\ Claimed(w, j)' <=> Claimed(w, j)
                               /\ Entering(w, j)' <=> Entering(w, j)
    BY <1>1 DEF Counted, Unused, Claimed, Entering, Busy
  <2>4. ASSUME NEW j \in DOMAIN flows
        PROVE  /\ Counted(j)' /\ \A w \in Worker : Claimed(w, j)' /\ ~Entering(w, j)'
               /\ \A c \in Browser : Waiting(c, j)' => flows'[j].spent /\ Unused(j)'
    <3>1. Counted(j) /\ \A w \in Worker : Claimed(w, j)
      BY DEF Orderly, LoginsOnce
    <3>2. \A c \in Browser : Waiting(c, j) => Unused(j)
      BY <2>2 DEF Orderly, LoginsOnce
    <3>3. Counted(j)' /\ \A w \in Worker : Claimed(w, j)' /\ ~Entering(w, j)'
      <4>1. Counted(j)'
        BY <2>3, <3>1
      <4>2. ASSUME NEW w \in Worker PROVE Claimed(w, j)' /\ ~Entering(w, j)'
        BY <2>2, <2>3, <3>1
      <4> QED BY <4>1, <4>2
    <3>4. \A c \in Browser : Waiting(c, j)' => Unused(j)'
      BY <2>1, <2>3, <3>2, Zenon
    <3> QED BY <3>3, <3>4, Zenon DEF Unused
  <2> QED BY <1>1, <2>4 DEF LoginsOnce
<1>6. FreshIsKept'
  <2>1. ASSUME NEW c \in Browser, fresh'[c] # None PROVE Awaits(c, fresh[c])'
    <3>1. c # b /\ Awaits(c, fresh[c])
      BY <1>3, <1>4, <2>1 DEF Orderly, FreshIsKept
    <3> QED BY <1>1, <1>2, <1>3, <3>1 DEF Awaits
  <2> QED BY <1>1, <1>4, <2>1 DEF FreshIsKept, Busy
<1>7. OneAtATime'
  BY <1>1 DEF Orderly, OneAtATime, Busy
<1> QED BY <1>5, <1>6, <1>7 DEF Orderly

(* Nothing is under way at first, and each step keeps it in order.         *)
LEMMA OrderlyInit == Init => Orderly
<1> SUFFICES ASSUME Init PROVE Orderly
  OBVIOUS
<1>1. \A w \in Worker : ~Busy(w)
  BY IdleFacts DEF Init, Busy
<1>2. DOMAIN flows = {}
  BY DEF Init
<1> QED BY <1>1, <1>2 DEF Init, Orderly, OneAtATime, LoginsOnce, FreshIsKept

LEMMA OrderlyKept == Inv /\ Orderly /\ [Next]_vars => Orderly'
<1> SUFFICES ASSUME Inv, Orderly, [Next]_vars PROVE Orderly'
  OBVIOUS
<1>1. CASE UNCHANGED vars
  BY <1>1 DEF vars, Serial, Orderly, OneAtATime, LoginsOnce, FreshIsKept, Counted, Claimed, Unused,
             Waiting, Clears, Overwrites, Entering, Carrying, Awaits, Busy
<1>2. CASE Next /\ ~Serial
  <2>1. UNCHANGED deployment
    BY <1>2 DEF Next, BeginLogin, Callback, Pick, Exchange, EnterLogsIn, EnterElse, Save, Consent, Logout
  <2> QED BY <1>2, <2>1 DEF Orderly, Serial
<1>3. CASE Next /\ Serial
  <2>1. CASE \E w \in Worker, b \in Browser :
               \/ BeginLogin(w, b)
               \/ \E i \in Flow : Callback(w, b, i)
               \/ \E at \in {"enter", "save"} : Pick(w, b, at)
    BY <1>3, <2>1, BeginLoginOrderly, CallbackOrderly, PickOrderly, FineSuffices
  <2>2. CASE \E w \in Worker : Exchange(w) \/ EnterLogsIn(w) \/ EnterElse(w) \/ Save(w)
    BY <1>3, <2>2, ExchangeOrderly, EnterLogsInOrderly, EnterElseOrderly, SaveOrderly, FineSuffices
  <2>3. CASE \E i \in Flow, p \in Pdb : Consent(i, p)
    BY <1>3, <2>3, ConsentOrderly
  <2>4. CASE \E b \in Browser : Logout(b)
    BY <1>3, <2>4, LogoutOrderly
  <2> QED BY <1>3, <2>1, <2>2, <2>3, <2>4 DEF Next
<1> QED BY <1>1, <1>2, <1>3

(***************************************************************************)
(* Where requests come one after the other, a consent logs in once: the    *)
(* code is good once, and peeringdb_pick takes the profile with it.        *)
(***************************************************************************)
THEOREM ConsentsLogInOnce == Spec => []ConsentLogsInOnce
<1>1. Orderly => ConsentLogsInOnce
  BY DEF Orderly, LoginsOnce, Counted, ConsentLogsInOnce
<1> QED BY <1>1, InvHolds, OrderlyInit, OrderlyKept, PTL DEF Spec

(***************************************************************************)
(* The newest login of a browser is awaited there until its callback comes,*)
(* or a callback of another, a login as another user or a logout.          *)
(***************************************************************************)
THEOREM FreshLoginsAreAwaited == Spec => []FreshLoginIsAwaited
<1>1. Inv /\ Orderly => FreshLoginIsAwaited
  <2> SUFFICES ASSUME Inv, Orderly, Serial, NEW b \in Browser, fresh[b] # None,
                      \A w \in Worker : req[w] = Idle
               PROVE  Matches(b, fresh[b])
    BY DEF FreshLoginIsAwaited
  <2>1. Awaits(b, fresh[b])
    BY IdleFacts DEF Orderly, FreshIsKept, Busy
  <2> QED BY <2>1, WaitingIsOwn DEF Matches
<1> QED BY <1>1, InvHolds, OrderlyInit, OrderlyKept, PTL DEF Spec
=============================================================================
