------------------------- MODULE AccountStoreProofs -------------------------
(***************************************************************************)
(* Lemmas about the account tables, for the proofs of the components that  *)
(* are built on them: what Put and Without do to a table.                  *)
(***************************************************************************)
EXTENDS AccountStore, TLAPS

(* A table of keys K and rows R has its domain in K and its values in R.   *)
LEMMA TableElim ==
  ASSUME NEW K, NEW R, NEW t \in Table(K, R)
  PROVE  /\ DOMAIN t \subseteq K
         /\ \A k \in DOMAIN t : t[k] \in R
         /\ t = [k \in DOMAIN t |-> t[k]]
BY DEF Table

(* A function from keys of K to rows of R is a table.                      *)
LEMMA TableIntro ==
  ASSUME NEW K, NEW R, NEW D \in SUBSET K, NEW t \in [D -> R]
  PROVE  t \in Table(K, R)
BY DEF Table

(* The table without rows is a table.                                      *)
LEMMA EmptyTable ==
  ASSUME NEW K, NEW R
  PROVE  << >> \in Table(K, R) /\ DOMAIN << >> = {}
<1>1. << >> \in [{} -> R] /\ DOMAIN << >> = {}
  OBVIOUS
<1> QED BY <1>1, TableIntro

(* Writing a row of the right kind under a key keeps a table a table, and  *)
(* changes what that key maps to and nothing else.                         *)
LEMMA PutTable ==
  ASSUME NEW K, NEW R, NEW t \in Table(K, R), NEW k \in K, NEW row \in R
  PROVE  /\ Put(t, k, row) \in Table(K, R)
         /\ DOMAIN Put(t, k, row) = DOMAIN t \union {k}
         /\ Put(t, k, row)[k] = row
         /\ \A x \in DOMAIN t : x # k => Put(t, k, row)[x] = t[x]
<1>1. DOMAIN t \subseteq K /\ \A x \in DOMAIN t : t[x] \in R
  BY TableElim
<1>2. Put(t, k, row) \in [DOMAIN t \union {k} -> R]
  BY <1>1 DEF Put
<1>3. Put(t, k, row) \in Table(K, R)
  BY <1>1, <1>2, TableIntro
<1> QED BY <1>3 DEF Put

(* Deleting a key keeps a table a table and leaves the other rows alone.   *)
LEMMA WithoutTable ==
  ASSUME NEW K, NEW R, NEW t \in Table(K, R), NEW k \in K
  PROVE  /\ Without(t, k) \in Table(K, R)
         /\ DOMAIN Without(t, k) = DOMAIN t \ {k}
         /\ \A x \in DOMAIN t : x # k => Without(t, k)[x] = t[x]
<1>1. DOMAIN t \subseteq K /\ \A x \in DOMAIN t : t[x] \in R
  BY TableElim
<1>2. Without(t, k) \in [DOMAIN t \ {k} -> R]
  BY <1>1 DEF Without
<1>3. Without(t, k) \in Table(K, R)
  BY <1>1, <1>2, TableIntro
<1> QED BY <1>3 DEF Without

(* Writing an auth.User row.                                               *)
LEMMA PutUser ==
  ASSUME NEW t \in Table(UserId, UserRow), NEW k \in UserId, NEW row \in UserRow
  PROVE  /\ Put(t, k, row) \in Table(UserId, UserRow)
         /\ DOMAIN Put(t, k, row) = DOMAIN t \union {k}
         /\ Put(t, k, row)[k] = row
         /\ \A x \in DOMAIN t : x # k => Put(t, k, row)[x] = t[x]
BY PutTable

(* Deleting one of them.                                                   *)
LEMMA WithoutUser ==
  ASSUME NEW t \in Table(UserId, UserRow), NEW k \in UserId
  PROVE  /\ Without(t, k) \in Table(UserId, UserRow)
         /\ DOMAIN Without(t, k) = DOMAIN t \ {k}
         /\ \A x \in DOMAIN t : x # k => Without(t, k)[x] = t[x]
BY WithoutTable

(* What the rows of such a table are.                                      *)
LEMMA UserRows ==
  ASSUME NEW t \in Table(UserId, UserRow)
  PROVE  DOMAIN t \subseteq UserId /\ \A k \in DOMAIN t : t[k] \in UserRow
BY TableElim, Zenon

(* Writing a RingUserProfile row.                                          *)
LEMMA PutProfile ==
  ASSUME NEW t \in Table(UserId, ProfileRow), NEW k \in UserId, NEW row \in ProfileRow
  PROVE  /\ Put(t, k, row) \in Table(UserId, ProfileRow)
         /\ DOMAIN Put(t, k, row) = DOMAIN t \union {k}
         /\ Put(t, k, row)[k] = row
         /\ \A x \in DOMAIN t : x # k => Put(t, k, row)[x] = t[x]
BY PutTable

(* Deleting one of them.                                                   *)
LEMMA WithoutProfile ==
  ASSUME NEW t \in Table(UserId, ProfileRow), NEW k \in UserId
  PROVE  /\ Without(t, k) \in Table(UserId, ProfileRow)
         /\ DOMAIN Without(t, k) = DOMAIN t \ {k}
         /\ \A x \in DOMAIN t : x # k => Without(t, k)[x] = t[x]
BY WithoutTable

(* What the rows of such a table are.                                      *)
LEMMA ProfileRows ==
  ASSUME NEW t \in Table(UserId, ProfileRow)
  PROVE  DOMAIN t \subseteq UserId /\ \A k \in DOMAIN t : t[k] \in ProfileRow
BY TableElim, Zenon

(* Writing a RingUser row.                                                 *)
LEMMA PutRing ==
  ASSUME NEW t \in Table(RingId, RingRow), NEW k \in RingId, NEW row \in RingRow
  PROVE  /\ Put(t, k, row) \in Table(RingId, RingRow)
         /\ DOMAIN Put(t, k, row) = DOMAIN t \union {k}
         /\ Put(t, k, row)[k] = row
         /\ \A x \in DOMAIN t : x # k => Put(t, k, row)[x] = t[x]
BY PutTable

(* Deleting one of them.                                                   *)
LEMMA WithoutRing ==
  ASSUME NEW t \in Table(RingId, RingRow), NEW k \in RingId
  PROVE  /\ Without(t, k) \in Table(RingId, RingRow)
         /\ DOMAIN Without(t, k) = DOMAIN t \ {k}
         /\ \A x \in DOMAIN t : x # k => Without(t, k)[x] = t[x]
BY WithoutTable

(* What the rows of such a table are.                                      *)
LEMMA RingRows ==
  ASSUME NEW t \in Table(RingId, RingRow)
  PROVE  DOMAIN t \subseteq RingId /\ \A k \in DOMAIN t : t[k] \in RingRow
BY TableElim, Zenon

(* Moving on to the next statement changes nothing else a request holds.   *)
LEMMA GoFacts ==
  ASSUME req \in [Worker -> Request], NEW w \in Worker, NEW step \in Step, Go(w, step)
  PROVE  /\ req' \in [Worker -> Request]
         /\ \A v \in Worker \ {w} : req'[v] = req[v]
         /\ req'[w].at = step
         /\ req'[w].user = req[w].user /\ req'[w].name = req[w].name
         /\ req'[w].ring = req[w].ring /\ req'[w].row = req[w].row
         /\ req'[w].org = req[w].org /\ req'[w].ringName = req[w].ringName
         /\ req'[w].pdb = req[w].pdb /\ req'[w].asn = req[w].asn
BY DEF Go, Request

(* The idle worker is a request of the right type.                         *)
LEMMA IdleIsRequest == Idle \in Request /\ Idle.at = "idle"
<1>1. \A S : None \in Opt(S)
  BY DEF Opt
<1> QED BY <1>1, Zenon DEF Idle, Request, Handler, Step

(* Ending a request leaves its worker idle and the others as they are.     *)
LEMMA EndFacts ==
  ASSUME req \in [Worker -> Request], NEW w \in Worker, End(w)
  PROVE  /\ req' \in [Worker -> Request]
         /\ \A v \in Worker \ {w} : req'[v] = req[v]
         /\ req'[w] = Idle
BY IdleIsRequest DEF End

-----------------------------------------------------------------------------
(* A table before and after one row was written, or deleted.               *)
Wrote(t, s, k, row) ==
  /\ DOMAIN s = DOMAIN t \union {k}
  /\ s[k] = row
  /\ \A x \in DOMAIN t : x # k => s[x] = t[x]
Erased(t, s, k) ==
  /\ DOMAIN s = DOMAIN t \ {k}
  /\ \A x \in DOMAIN s : s[x] = t[x]

(* The request w took a step: the other requests are where they were.      *)
Steps(w, step) ==
  /\ req' \in [Worker -> Request]
  /\ \A v \in Worker \ {w} : req'[v] = req[v]
  /\ req'[w].at = step
  /\ UNCHANGED deployment
(* ... and still holds the account and the form it is about, ...           *)
Moves(w, step) ==
  /\ Steps(w, step)
  /\ req'[w].user = req[w].user
  /\ req'[w].name = req[w].name /\ req'[w].ringName = req[w].ringName

(* Put writes one row and leaves the others.                               *)
LEMMA PutWrites ==
  ASSUME NEW t, NEW k, NEW row
  PROVE  Wrote(t, Put(t, k, row), k, row)
BY DEF Wrote, Put

(* Without deletes one row and leaves the others.                          *)
LEMMA WithoutErases ==
  ASSUME NEW t, NEW k
  PROVE  Erased(t, Without(t, k), k)
BY DEF Erased, Without

(* The unique check of a save, said of the rows of the table.              *)
LEMMA TakenByOtherIs ==
  ASSUME NEW name, NEW t, NEW k
  PROVE  TakenByOther(name, t, k) <=> \E x \in DOMAIN t \ {k} : t[x].name = name
BY DEF TakenByOther, Taken, Without

(* Ending a request is a step to "idle".                                   *)
LEMMA EndIsStep ==
  ASSUME req \in [Worker -> Request], NEW w \in Worker, End(w), UNCHANGED deployment
  PROVE  Steps(w, "idle")
BY EndFacts, IdleIsRequest DEF Steps

(* Moving on is a step that keeps what the request holds.                  *)
LEMMA GoIsMove ==
  ASSUME req \in [Worker -> Request], NEW w \in Worker, NEW step \in Step, Go(w, step),
         UNCHANGED deployment
  PROVE  /\ Moves(w, step)
         /\ req'[w].ring = req[w].ring /\ req'[w].row = req[w].row
BY GoFacts DEF Moves, Steps
=============================================================================
