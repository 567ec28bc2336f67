------------------------------- MODULE KpiProofs -------------------------------
(***************************************************************************)
(* Proofs about KpiCache, for any number of hosts, processes and threads,  *)
(* any lifetime of an entry and any length of a request.                   *)
(*                                                                         *)
(* What a page says of a machine passes through several hands: a thread    *)
(* computes it, an entry holds it, another thread looks it up and renders  *)
(* it.  The inductive invariant gives each of them a bound on its age: in  *)
(* whoever's hands a value is, it says of every host what the tables say,  *)
(* if nothing has changed about that host for so many ticks.  The bounds   *)
(* of a thread, an entry and a page add up to Stale.                       *)
(***************************************************************************)
EXTENDS KpiCache, FiniteSetTheorems, TLAPS

Aggregates == UNION {Aggregate(n) : n \in Name}
Gots == UNION {[N -> Aggregates] : N \in SUBSET Name}
Request ==
  [page : Opt(Page), org : Opt(Org), ubuntu : Opt(Releases), age : 0..MaxRequest,
   todo : Seq(Name \union {"rows"}), key : Opt(Key), names : SUBSET Host,
   value : Opt(Aggregates), rows : Rows, got : Gots]
Entry == [value : Aggregates, life : 1..KPI_TTL]
Entries == UNION {[K -> Entry] : K \in SUBSET Key}
Cache == [version : Opt(Nat), entries : Entries]

-----------------------------------------------------------------------------
(* What an aggregate should say of a host.                                 *)
Known(name, h) ==
  IF name = "failed_7d" THEN runs[h] > 0 ELSE h \in DOMAIN machines /\ reports[h] # None
Told(name, h) == IF name = "failed_7d" THEN runs[h] ELSE reports[h]
Agrees(name, value, h) ==
  /\ h \in DOMAIN value <=> Known(name, h)
  /\ h \in DOMAIN value => value[h] = Told(name, h)

(* The hosts that may have failed in the last b ticks, and whether the     *)
(* cut-off lets all of them through.                                       *)
FailedSince(b) == {h \in Host : runs[h] > 0 \/ stood[h] < b}
Uncut(name, b) == name = "failed_7d" => Cardinality(FailedSince(b)) <= MAX_FAILED

(* A value of an aggregate that is less than b ticks old.                  *)
Good(name, value, b) ==
  Uncut(name, b) => \A h \in Host : stood[h] >= b => Agrees(name, value, h)

Left(todo) == {todo[i] : i \in DOMAIN todo}
Scope(r, h) == r.page = "my_portal" => machines[h].org = r.org

(* What a page cannot be rendered without.                                 *)
Needs(page) ==
  IF page = "machines" THEN {"rows", "ubuntu_releases"}
  ELSE {"rows", "update_alerts", "failed_7d"}

-----------------------------------------------------------------------------
(* What a request holds is of its kind, and it has yet to read what it has *)
(* not got.                                                                *)
Serving(r) ==
  /\ r.key # None => r.todo # << >> /\ r.key.name = Head(r.todo)
  /\ r.value # None => r.key # None /\ r.value \in Aggregate(r.key.name)
  /\ \A n \in DOMAIN r.got : r.got[n] \in Aggregate(n)
  /\ r.page # None => Needs(r.page) \subseteq Left(r.todo) \union DOMAIN r.got \union {"rows"}

(* Rows and names were read, and values computed, since the request began; *)
(* what it looked up may be as old as an entry becomes.                    *)
FreshRows(r) ==
  /\ \A h \in DOMAIN r.rows :
       stood[h] > r.age => h \in DOMAIN machines /\ Scope(r, h) /\ r.rows[h] = machines[h]
  /\ r.page # None /\ "rows" \notin Left(r.todo) =>
       \A h \in DOMAIN machines : stood[h] > r.age /\ Scope(r, h) => h \in DOMAIN r.rows
FreshNames(r) ==
  r.key # None /\ r.value = None /\ r.key.name # "failed_7d" =>
    \A h \in Host : stood[h] > r.age => (h \in r.names <=> h \in DOMAIN machines)
FreshValues(r) ==
  /\ r.value # None => Good(r.key.name, r.value, r.age + 1)
  /\ \A n \in DOMAIN r.got : Good(n, r.got[n], KPI_TTL + MaxRequest + r.age)

FreshEntries(c) ==
  \A k \in DOMAIN c.entries :
    /\ c.entries[k].value \in Aggregate(k.name)
    /\ Good(k.name, c.entries[k].value, KPI_TTL + MaxRequest + 1 - c.entries[k].life)

-----------------------------------------------------------------------------
Tables ==
  /\ machines \in Rows
  /\ reports \in [Host -> Opt(Report)] /\ runs \in [Host -> 0..MaxRuns]
  /\ clock \in 0..(2 * Hour - 1)
  /\ stood \in [Host -> 0..Stale]
  /\ deployment \in DOMAIN Deployments

RequestOK(r) == Serving(r) /\ FreshRows(r) /\ FreshNames(r) /\ FreshValues(r)
Requests == req \in [Thread -> Request] /\ \A t \in Thread : RequestOK(req[t])
Caches ==
  /\ cache \in [Process \union {Cron} -> Cache]
  /\ \A p \in Process \union {Cron} : FreshEntries(cache[p])

Inv == Tables /\ Requests /\ Caches

-----------------------------------------------------------------------------
(* Sequences, tables and aggregates.                                       *)

(* The first of what is left to read, and the rest.                        *)
LEMMA TailOfSeq ==
  ASSUME NEW S, NEW s \in Seq(S), s # << >>
  PROVE  /\ Tail(s) \in Seq(S) /\ Head(s) \in S
         /\ Left(s) = {Head(s)} \union Left(Tail(s))
<1>1. Tail(s) \in Seq(S) /\ Head(s) \in S
  OBVIOUS
<1>2. DOMAIN s = 1..Len(s) /\ DOMAIN Tail(s) = 1..Len(Tail(s)) /\ Len(Tail(s)) = Len(s) - 1 /\ Len(s) \in Nat
  OBVIOUS
<1>3. \A i \in 1..Len(Tail(s)) : Tail(s)[i] = s[i + 1] /\ i + 1 \in 1..Len(s)
  BY <1>2
<1>4. Head(s) = s[1] /\ 1 \in 1..Len(s)
  BY <1>2
<1>5. \A i \in 1..Len(s) : i = 1 \/ (i - 1 \in 1..Len(Tail(s)) /\ s[i] = Tail(s)[i - 1])
  BY <1>2, <1>3
<1>6. {s[i] : i \in 1..Len(s)} = {s[1]} \union {Tail(s)[i] : i \in 1..Len(Tail(s))}
  <2>1. \A x \in {s[i] : i \in 1..Len(s)} : x = s[1] \/ x \in {Tail(s)[i] : i \in 1..Len(Tail(s))}
    BY <1>5
  <2>2. \A x \in {Tail(s)[i] : i \in 1..Len(Tail(s))} : x \in {s[i] : i \in 1..Len(s)}
    BY <1>3
  <2> QED BY <1>4, <2>1, <2>2
<1> QED BY <1>1, <1>2, <1>4, <1>6 DEF Left

LEMMA RowsElim ==
  ASSUME NEW f \in Rows
  PROVE  DOMAIN f \subseteq Host /\ \A h \in DOMAIN f : f[h] \in Row
BY DEF Rows

LEMMA RowsIntro ==
  ASSUME NEW D \in SUBSET Host, NEW f \in [D -> Row]
  PROVE  f \in Rows
BY DEF Rows

LEMMA AggregateIntro ==
  ASSUME NEW name, NEW D \in SUBSET Host,
         NEW f \in [D -> IF name = "failed_7d" THEN 1..MaxRuns ELSE Report]
  PROVE  f \in Aggregate(name)
BY DEF Aggregate

LEMMA AggregateIsOne ==
  ASSUME NEW name \in Name, NEW f \in Aggregate(name)
  PROVE  f \in Aggregates
BY DEF Aggregates

LEMMA GotsElim ==
  ASSUME NEW f \in Gots
  PROVE  DOMAIN f \subseteq Name /\ \A n \in DOMAIN f : f[n] \in Aggregates
BY DEF Gots

LEMMA GotsIntro ==
  ASSUME NEW D \in SUBSET Name, NEW f \in [D -> Aggregates]
  PROVE  f \in Gots
BY DEF Gots

LEMMA EntriesElim ==
  ASSUME NEW f \in Entries
  PROVE  DOMAIN f \subseteq Key /\ \A k \in DOMAIN f : f[k] \in Entry
BY DEF Entries

LEMMA EntriesIntro ==
  ASSUME NEW D \in SUBSET Key, NEW f \in [D -> Entry]
  PROVE  f \in Entries
BY DEF Entries

(* What a page looks up it has, and nothing it had changes.                *)
LEMMA GotIsGots ==
  ASSUME NEW f \in Gots, NEW name \in Name, NEW v \in Aggregates
  PROVE  /\ Got(f, name, v) \in Gots
         /\ DOMAIN Got(f, name, v) = DOMAIN f \union {name}
         /\ \A n \in DOMAIN Got(f, name, v) :
              Got(f, name, v)[n] = IF n \in DOMAIN f THEN f[n] ELSE v
<1>1. DOMAIN f \subseteq Name /\ \A n \in DOMAIN f : f[n] \in Aggregates
  BY GotsElim
<1>2. CASE name \in DOMAIN f
  BY <1>1, <1>2 DEF Got
<1>3. CASE name \notin DOMAIN f
  <2>1. Got(f, name, v) = [i \in DOMAIN f \union {name} |-> IF i = name THEN v ELSE f[i]]
    BY <1>3 DEF Got, Put
  <2>2. Got(f, name, v) \in [DOMAIN f \union {name} -> Aggregates]
    BY <1>1, <2>1
  <2>3. Got(f, name, v) \in Gots
    BY <1>1, <2>2, GotsIntro
  <2> QED BY <1>3, <2>1, <2>3
<1> QED BY <1>2, <1>3

(* The bounds are numbers, and add up.                                     *)
LEMMA Bounds ==
  /\ KPI_TTL \in Nat /\ MaxRequest \in Nat /\ MAX_FAILED \in Nat /\ Hour \in Nat /\ MaxRuns \in Nat
  /\ 0 < KPI_TTL /\ KPI_TTL < Hour
  /\ Stale \in Nat /\ Stale = KPI_TTL + 2 * MaxRequest
BY KpiAssumption DEF Stale

(* An idle thread holds nothing, whatever happens.                         *)
LEMMA IdleIsOK == Idle \in Request /\ RequestOK(Idle) /\ RequestOK(Idle)'
<1>1. << >> \in [{} -> Row] /\ << >> \in [{} -> Aggregates] /\ DOMAIN << >> = {}
  OBVIOUS
<1>2. << >> \in Rows /\ << >> \in Gots /\ << >> \in Seq(Name \union {"rows"})
  <2>1. {} \in SUBSET Host /\ {} \in SUBSET Name
    OBVIOUS
  <2>2. << >> \in Rows
    BY <1>1, <2>1 DEF Rows
  <2>3. << >> \in Gots
    BY <1>1, <2>1 DEF Gots
  <2> QED BY <2>2, <2>3
<1>3. Idle \in Request
  BY <1>2, Bounds DEF Idle, Request, Opt
<1>4. Serving(Idle)
  BY <1>1 DEF Idle, Serving
<1>5. FreshRows(Idle) /\ FreshNames(Idle) /\ FreshValues(Idle)
  BY <1>1 DEF Idle, FreshRows, FreshNames, FreshValues
<1>6. RequestOK(Idle)'
  BY <1>1 DEF Idle, RequestOK, Serving, FreshRows, FreshNames, FreshValues
<1> QED BY <1>3, <1>4, <1>5, <1>6 DEF RequestOK

-----------------------------------------------------------------------------
(* The age of a value.                                                     *)

(* There are finitely many hosts that may have failed, and no fewer in a   *)
(* longer time.                                                            *)
LEMMA MoreMayHaveFailed ==
  ASSUME Tables, NEW b \in Int, NEW c \in Int, b <= c
  PROVE  Cardinality(FailedSince(b)) <= Cardinality(FailedSince(c))
         /\ Cardinality(FailedSince(b)) \in Nat /\ Cardinality(FailedSince(c)) \in Nat
<1>1. FailedSince(c) \subseteq Host /\ FailedSince(b) \subseteq FailedSince(c)
  <2>1. \A h \in Host : stood[h] \in Int
    BY Bounds DEF Tables
  <2> QED BY <2>1 DEF FailedSince
<1>2. IsFiniteSet(FailedSince(c)) /\ IsFiniteSet(FailedSince(b))
  BY <1>1, KpiAssumption, FS_Subset
<1>3. Cardinality(FailedSince(b)) <= Cardinality(FailedSince(c))
  BY <1>1, <1>2, FS_Subset
<1> QED BY <1>2, <1>3, FS_CardinalityType

(* What is less than b ticks old is less than c ticks old.                 *)
LEMMA OlderIsGood ==
  ASSUME Tables, NEW name, NEW v, NEW b \in Int, NEW c \in Int, b <= c, Good(name, v, b)
  PROVE  Good(name, v, c)
<1> SUFFICES ASSUME Uncut(name, c), NEW h \in Host, stood[h] >= c PROVE Agrees(name, v, h)
  BY DEF Good
<1>1. Uncut(name, b)
  BY MoreMayHaveFailed, Bounds DEF Uncut
<1>2. stood[h] >= b
  BY Bounds DEF Tables
<1> QED BY <1>1, <1>2 DEF Good

(* The steps of a thread change nothing that values are compared with.     *)
LEMMA SameTables ==
  ASSUME UNCHANGED <<data, stood>>
  PROVE  /\ \A r : RequestOK(r) => RequestOK(r)'
         /\ \A c : FreshEntries(c) => FreshEntries(c)'
         /\ \A name, h : (Known(name, h) <=> Known(name, h)') /\ Told(name, h)' = Told(name, h)
<1>1. machines' = machines /\ reports' = reports /\ runs' = runs /\ stood' = stood
  BY DEF data
<1>2. \A name, v, b : Good(name, v, b) => Good(name, v, b)'
  BY <1>1 DEF Good, Uncut, FailedSince, Agrees, Known, Told
<1>3. \A r : Serving(r)' <=> Serving(r)
  BY DEF Serving
<1>4. \A r : FreshRows(r) => FreshRows(r)'
  BY <1>1 DEF FreshRows, Scope
<1>5. \A r : FreshNames(r) => FreshNames(r)'
  BY <1>1 DEF FreshNames
<1>6. \A r : FreshValues(r) => FreshValues(r)'
  BY <1>2 DEF FreshValues
<1>7. \A c : FreshEntries(c) => FreshEntries(c)'
  BY <1>2 DEF FreshEntries
<1>8. \A name, h : (Known(name, h) <=> Known(name, h)') /\ Told(name, h)' = Told(name, h)
  BY <1>1 DEF Known, Told
<1> QED BY <1>3, <1>4, <1>5, <1>6, <1>7, <1>8 DEF RequestOK

(* A tick keeps count of how long nothing has changed, up to Stale.        *)
LEMMA TickCounts ==
  ASSUME Tables, Tick
  PROVE  /\ Tables'
         /\ \A h \in Host : \A b \in Nat : b < Stale => (stood[h]' >= b + 1 <=> stood[h] >= b)
<1>1. stood' = [h \in Host |-> IF stood[h] = Stale THEN Stale ELSE stood[h] + 1]
  BY DEF Tick
<1>2. \A h \in Host : stood[h] \in 0..Stale
  BY DEF Tables
<1>3. stood' \in [Host -> 0..Stale]
  BY <1>1, <1>2, Bounds
<1>4. clock' \in 0..(2 * Hour - 1)
  <2>1. clock \in Nat /\ 2 * Hour \in Nat /\ 2 * Hour > 0 /\ clock' = (clock + 1) % (2 * Hour)
    BY Bounds DEF Tables, Tick
  <2>2. \A m \in Nat, k \in Nat : k > 0 => m % k \in 0..(k - 1)
    OBVIOUS
  <2>3. clock + 1 \in Nat
    BY <2>1
  <2> QED BY <2>1, <2>2, <2>3
<1>5. UNCHANGED <<machines, reports, runs, deployment>>
  BY DEF Tick, data
<1>6. Tables'
  BY <1>3, <1>4, <1>5 DEF Tables
<1>7. \A h \in Host : \A b \in Nat : b < Stale => (stood[h]' >= b + 1 <=> stood[h] >= b)
  <2> TAKE h \in Host
  <2> TAKE b \in Nat
  <2> HAVE b < Stale
  <2>1. stood'[h] = IF stood[h] = Stale THEN Stale ELSE stood[h] + 1
    BY <1>1
  <2> QED BY <1>2, <2>1, Bounds
<1> QED BY <1>6, <1>7

(* A value is a tick older after a tick.                                   *)
LEMMA TickAges ==
  ASSUME Tables, Tick
  PROVE  \A name, v : \A b \in Nat : b < Stale /\ Good(name, v, b) => Good(name, v, b + 1)'
<1> TAKE name, v
<1> TAKE b \in Nat
<1> HAVE b < Stale /\ Good(name, v, b)
<1>1. UNCHANGED <<machines, reports, runs>>
  BY DEF Tick, data
<1>2. \A h \in Host : stood[h]' >= b + 1 <=> stood[h] >= b
  BY TickCounts
<1>3. \A h \in Host : stood'[h] \in Int /\ stood[h] \in Int
  BY TickCounts, Bounds DEF Tables
<1>4. FailedSince(b + 1)' = FailedSince(b)
  BY <1>1, <1>2, <1>3 DEF FailedSince
<1>5. Uncut(name, b + 1)' => Uncut(name, b)
  BY <1>4 DEF Uncut
<1>6. \A h \in Host : Agrees(name, v, h) => Agrees(name, v, h)'
  BY <1>1 DEF Agrees, Known, Told
<1> QED BY <1>2, <1>5, <1>6 DEF Good

(* What changes about a host concerns what is said of that host, and it    *)
(* may have failed.                                                        *)
LEMMA ChangeIsLocal ==
  ASSUME Tables, NEW g \in Host, DataChange(g)
  PROVE  /\ Tables'
         /\ stood' = [stood EXCEPT ![g] = 0]
         /\ \A h \in Host \ {g} :
              /\ h \in DOMAIN machines <=> h \in DOMAIN machines'
              /\ h \in DOMAIN machines => machines'[h] = machines[h]
              /\ reports'[h] = reports[h] /\ runs'[h] = runs[h]
<1>1. stood' = [stood EXCEPT ![g] = 0] /\ UNCHANGED <<clock, deployment>>
  BY DEF DataChange
<1>2. stood' \in [Host -> 0..Stale]
  BY <1>1, Bounds DEF Tables
<1>3. Site.rows \subseteq Row /\ Site.reports \subseteq Opt(Report) /\ Site.runs \subseteq 0..MaxRuns
  BY KpiAssumption DEF Site, Tables
<1>4. DOMAIN machines \subseteq Host /\ \A h \in DOMAIN machines : machines[h] \in Row
  BY RowsElim DEF Tables
<1>5. ASSUME NEW row \in Site.rows, machines' = Put(machines, g, row)
      PROVE  /\ machines' \in Rows
             /\ \A h \in Host \ {g} :
                  /\ h \in DOMAIN machines <=> h \in DOMAIN machines'
                  /\ h \in DOMAIN machines => machines'[h] = machines[h]
  <2>1. machines' = [i \in DOMAIN machines \union {g} |-> IF i = g THEN row ELSE machines[i]]
    BY <1>5 DEF Put
  <2>2. machines' \in [DOMAIN machines \union {g} -> Row]
    BY <2>1, <1>3, <1>4
  <2>3. machines' \in Rows
    BY <2>2, <1>4, RowsIntro
  <2> QED BY <2>1, <2>3
<1>6. ASSUME machines' = [i \in DOMAIN machines \ {g} |-> machines[i]]
      PROVE  /\ machines' \in Rows
             /\ \A h \in Host \ {g} :
                  /\ h \in DOMAIN machines <=> h \in DOMAIN machines'
                  /\ h \in DOMAIN machines => machines'[h] = machines[h]
  <2>1. machines' \in [DOMAIN machines \ {g} -> Row]
    BY <1>6, <1>4
  <2>2. machines' \in Rows
    BY <2>1, <1>4, RowsIntro
  <2> QED BY <1>6, <2>2
<1>7. CASE MachineChanges(g)
  <2>1. UNCHANGED <<reports, runs>>
    BY <1>7 DEF MachineChanges
  <2>2. /\ machines' \in Rows
        /\ \A h \in Host \ {g} :
             /\ h \in DOMAIN machines <=> h \in DOMAIN machines'
             /\ h \in DOMAIN machines => machines'[h] = machines[h]
    BY <1>5, <1>6, <1>7 DEF MachineChanges
  <2> QED BY <1>1, <1>2, <2>1, <2>2 DEF Tables
<1>8. CASE HealthReported(g)
  <2>1. PICK report \in Site.reports : reports' = [reports EXCEPT ![g] = report]
    BY <1>8 DEF HealthReported
  <2>2. reports' \in [Host -> Opt(Report)] /\ \A h \in Host \ {g} : reports'[h] = reports[h]
    BY <2>1, <1>3 DEF Tables
  <2>3. UNCHANGED <<machines, runs>>
    BY <1>8 DEF HealthReported
  <2> QED BY <1>1, <1>2, <2>2, <2>3 DEF Tables
<1>9. CASE AnsibleRan(g)
  <2>1. PICK n \in Site.runs : runs' = [runs EXCEPT ![g] = n]
    BY <1>9 DEF AnsibleRan
  <2>2. runs' \in [Host -> 0..MaxRuns] /\ \A h \in Host \ {g} : runs'[h] = runs[h]
    BY <2>1, <1>3 DEF Tables
  <2>3. UNCHANGED <<machines, reports>>
    BY <1>9 DEF AnsibleRan
  <2> QED BY <1>1, <1>2, <2>2, <2>3 DEF Tables
<1> QED BY <1>7, <1>8, <1>9 DEF DataChange

(* A value of any age is as good after a change as it was before.          *)
LEMMA ChangeAges ==
  ASSUME Tables, NEW g \in Host, DataChange(g)
  PROVE  \A name, v : \A b \in Nat \ {0} : Good(name, v, b) => Good(name, v, b)'
<1> TAKE name, v
<1> TAKE b \in Nat \ {0}
<1> HAVE Good(name, v, b)
<1>1. stood'[g] = 0 /\ \A h \in Host \ {g} : stood'[h] = stood[h]
  BY ChangeIsLocal DEF Tables
<1>2. FailedSince(b) \subseteq FailedSince(b)'
  <2> SUFFICES ASSUME NEW h \in Host, runs[h] > 0 \/ stood[h] < b PROVE (runs[h] > 0 \/ stood[h] < b)'
    BY DEF FailedSince
  <2>1. CASE h = g
    BY <1>1, <2>1
  <2>2. CASE h # g
    BY <1>1, <2>2, ChangeIsLocal
  <2> QED BY <2>1, <2>2
<1>3. FailedSince(b)' \subseteq Host
  BY DEF FailedSince
<1>4. IsFiniteSet(FailedSince(b)') /\ IsFiniteSet(FailedSince(b))
  BY <1>2, <1>3, KpiAssumption, FS_Subset
<1>5. Cardinality(FailedSince(b)) <= Cardinality(FailedSince(b)')
      /\ Cardinality(FailedSince(b)) \in Nat /\ Cardinality(FailedSince(b)') \in Nat
  BY <1>2, <1>4, FS_Subset, FS_CardinalityType
<1>6. Uncut(name, b)' => Uncut(name, b)
  BY <1>5, Bounds DEF Uncut
<1>7. \A h \in Host \ {g} : Agrees(name, v, h) => Agrees(name, v, h)'
  BY ChangeIsLocal DEF Agrees, Known, Told
<1> SUFFICES ASSUME Uncut(name, b)', NEW h \in Host, stood'[h] >= b PROVE Agrees(name, v, h)'
  BY DEF Good
<1>8. h # g /\ stood[h] >= b
  BY <1>1
<1> QED BY <1>6, <1>7, <1>8 DEF Good

-----------------------------------------------------------------------------
(* The steps of a thread.                                                  *)

(* A step that leaves the tables alone keeps what the other threads hold.  *)
LEMMA RequestStep ==
  ASSUME Inv, UNCHANGED <<data, clock, stood, deployment>>,
         NEW t \in Thread, NEW r \in Request, RequestOK(r), req' = [req EXCEPT ![t] = r]
  PROVE  Tables' /\ Requests'
<1>1. Tables'
  BY DEF Inv, Tables, data
<1>2. \A q : RequestOK(q) => RequestOK(q)'
  BY SameTables DEF data
<1>3. req' \in [Thread -> Request] /\ \A u \in Thread : req'[u] = IF u = t THEN r ELSE req[u]
  BY DEF Inv, Requests
<1>4. \A u \in Thread : RequestOK(req'[u])
  BY <1>3 DEF Inv, Requests
<1>5. \A u \in Thread : RequestOK(req[u])'
  BY <1>2, <1>4
<1> QED BY <1>1, <1>3, <1>5 DEF Requests

(* And what the caches hold.                                               *)
LEMMA SameCaches ==
  ASSUME Inv, UNCHANGED <<data, stood, cache>>
  PROVE  Caches'
<1>1. \A c : FreshEntries(c) => FreshEntries(c)'
  BY SameTables DEF data
<1>2. \A p \in Process \union {Cron} : FreshEntries(cache'[p])
  BY DEF Inv, Caches
<1> QED BY <1>1, <1>2 DEF Inv, Caches

(* What is left of a request once its next read is done.                   *)
LEMMA AfterRead ==
  ASSUME NEW r \in Request, r.todo # << >>
  PROVE  /\ Tail(r.todo) \in Seq(Name \union {"rows"})
         /\ Head(r.todo) \in Name \union {"rows"}
         /\ Left(r.todo) = {Head(r.todo)} \union Left(Tail(r.todo))
<1>1. r.todo \in Seq(Name \union {"rows"})
  BY DEF Request
<1> QED BY <1>1, TailOfSeq

(* What a page reads is a sequence of aggregates and rows.                 *)
LEMMA ReadsAreSeq ==
  ASSUME NEW page \in Page, NEW ubuntu
  PROVE  Reads(page, ubuntu) \in Seq(Name \union {"rows"})
<1> DEFINE S == Name \union {"rows"}
<1>1. "rows" \in S /\ "update_alerts" \in S /\ "ubuntu_releases" \in S /\ "failed_7d" \in S
  BY DEF Name
<1> HIDE DEF S
<1>2. /\ <<"ubuntu_releases", "rows", "update_alerts", "failed_7d">> \in Seq(S)
      /\ <<"rows", "update_alerts", "failed_7d">> \in Seq(S)
      /\ <<"ubuntu_releases", "rows">> \in Seq(S)
      /\ <<"ubuntu_releases", "ubuntu_releases", "rows">> \in Seq(S)
  BY <1>1
<1>3. Reads(page, ubuntu) \in Seq(S)
  BY <1>2 DEF Reads, Page
<1> QED BY <1>3 DEF S

LEMMA AskKeepsInv ==
  ASSUME Inv, NEW t \in Thread, NEW wanted \in Page, NEW org \in Opt(Org), NEW ubuntu \in Opt(Releases),
         Ask(t, wanted, org, ubuntu)
  PROVE  Inv'
<1> DEFINE page == IF org = None THEN wanted ELSE "my_portal"
           r == [Idle EXCEPT !.page = page, !.org = org, !.todo = Reads(page, ubuntu),
                             !.ubuntu = IF page = "machines" THEN ubuntu ELSE None]
<1>1. req' = [req EXCEPT ![t] = r] /\ UNCHANGED <<data, cache, clock, stood, deployment>>
  BY DEF Ask
<1>2. page \in Page
  BY DEF Page
<1>3. Reads(page, ubuntu) \in Seq(Name \union {"rows"})
  <2> HIDE DEF page
  <2> QED BY <1>2, ReadsAreSeq
<1>4. r \in Request /\ r.todo = Reads(page, ubuntu) /\ r.page = page /\ r.key = Idle.key
      /\ r.value = Idle.value /\ r.got = Idle.got /\ r.rows = Idle.rows
  <2> HIDE DEF page
  <2> QED BY <1>2, <1>3, IdleIsOK DEF Request, Opt
<1>5. Needs(page) \subseteq Left(r.todo) /\ "rows" \in Left(r.todo)
  <2>1. CASE page = "index"
    <3>1. r.todo = <<"ubuntu_releases", "rows", "update_alerts", "failed_7d">>
      BY <1>4, <2>1 DEF Reads
    <3>2. r.todo[2] = "rows" /\ r.todo[3] = "update_alerts" /\ r.todo[4] = "failed_7d" /\ DOMAIN r.todo = 1..4
      BY <3>1
    <3>3. {"rows", "update_alerts", "failed_7d"} \subseteq Left(r.todo)
      BY <3>2 DEF Left
    <3> QED BY <2>1, <3>3 DEF Needs
  <2>2. CASE page = "my_portal"
    <3>1. r.todo = <<"rows", "update_alerts", "failed_7d">>
      BY <1>4, <2>2 DEF Reads
    <3>2. r.todo[1] = "rows" /\ r.todo[2] = "update_alerts" /\ r.todo[3] = "failed_7d" /\ DOMAIN r.todo = 1..3
      BY <3>1
    <3>3. {"rows", "update_alerts", "failed_7d"} \subseteq Left(r.todo)
      BY <3>2 DEF Left
    <3> QED BY <2>2, <3>3 DEF Needs
  <2>3. CASE page = "machines"
    <3>1. r.todo = <<"ubuntu_releases", "rows">> \/ r.todo = <<"ubuntu_releases", "ubuntu_releases", "rows">>
      BY <1>4, <2>3 DEF Reads
    <3>2. \E i, j \in DOMAIN r.todo : r.todo[i] = "rows" /\ r.todo[j] = "ubuntu_releases"
      <4>1. CASE r.todo = <<"ubuntu_releases", "rows">>
        <5>1. r.todo[2] = "rows" /\ r.todo[1] = "ubuntu_releases" /\ DOMAIN r.todo = 1..2
          BY <4>1
        <5> QED BY <5>1
      <4>2. CASE r.todo = <<"ubuntu_releases", "ubuntu_releases", "rows">>
        <5>1. r.todo[3] = "rows" /\ r.todo[1] = "ubuntu_releases" /\ DOMAIN r.todo = 1..3
          BY <4>2
        <5> QED BY <5>1
      <4> QED BY <3>1, <4>1, <4>2
    <3>3. {"rows", "ubuntu_releases"} \subseteq Left(r.todo)
      BY <3>2 DEF Left
    <3> QED BY <2>3, <3>3 DEF Needs
  <2> QED BY <1>2, <2>1, <2>2, <2>3 DEF Page
<1> HIDE DEF r, page
<1>6. DOMAIN r.got = {} /\ DOMAIN r.rows = {} /\ r.key = None /\ r.value = None
  BY <1>4 DEF Idle
<1>7. RequestOK(r)
  BY <1>4, <1>5, <1>6 DEF RequestOK, Serving, FreshRows, FreshNames, FreshValues
<1> QED BY <1>1, <1>4, <1>7, RequestStep, SameCaches DEF Inv

(* The rows of the page are read as they are.                              *)
LEMMA LoadRowsKeepsInv ==
  ASSUME Inv, NEW t \in Thread, LoadRows(t)
  PROVE  Inv'
<1> DEFINE q == req[t]
           mine == {g \in DOMAIN machines : InScope(t, g)}
           rows == [h \in mine |-> machines[h]]
           r == [q EXCEPT !.todo = Tail(q.todo), !.rows = rows]
<1>1. q \in Request /\ RequestOK(q)
  BY DEF Inv, Requests
<1>2. q.todo # << >> /\ Head(q.todo) = "rows"
  BY DEF LoadRows, Step
<1>3. req' = [req EXCEPT ![t] = r] /\ UNCHANGED <<data, cache, clock, stood, deployment>>
  <2>1. req' = [req EXCEPT ![t].todo = Tail(@), ![t].rows = rows]
    BY DEF LoadRows
  <2>2. req \in [Thread -> Request]
    BY DEF Inv, Requests
  <2>3. [req EXCEPT ![t].todo = Tail(@), ![t].rows = rows] = [req EXCEPT ![t] = r]
    <3> HIDE DEF rows
    <3> QED BY <2>2 DEF Request
  <2> QED BY <2>1, <2>3 DEF LoadRows
<1>4. rows \in Rows
  <2>1. DOMAIN machines \subseteq Host /\ \A h \in DOMAIN machines : machines[h] \in Row
    BY RowsElim DEF Inv, Tables
  <2>2. mine \in SUBSET Host /\ rows \in [mine -> Row]
    BY <2>1
  <2> HIDE DEF mine, rows
  <2> QED BY <2>2, RowsIntro
<1>5. Tail(q.todo) \in Seq(Name \union {"rows"})
  BY <1>1, <1>2, AfterRead
<1>6. r \in Request /\ r.todo = Tail(q.todo) /\ r.rows = rows /\ r.page = q.page /\ r.org = q.org
      /\ r.key = q.key /\ r.value = q.value /\ r.got = q.got /\ r.age = q.age
  <2> HIDE DEF rows, q
  <2> QED BY <1>1, <1>4, <1>5 DEF Request
<1>7. Left(q.todo) = {"rows"} \union Left(r.todo)
  <2> HIDE DEF q, r
  <2> QED BY <1>1, <1>2, <1>6, AfterRead
<1>8. q.key = None /\ q.value = None
  <2>1. q.key # None => q.key.name = "rows" /\ q.key \in Key
    BY <1>1, <1>2 DEF RequestOK, Serving, Request, Opt
  <2>2. q.key = None
    BY <2>1 DEF Key, Name
  <2> QED BY <1>1, <2>2 DEF RequestOK, Serving
<1>9. \A h : h \in DOMAIN r.rows <=> h \in DOMAIN machines /\ Scope(r, h)
  <2>1. \A h : Scope(r, h) <=> InScope(t, h)
    BY <1>6 DEF Scope, InScope
  <2> QED BY <1>6, <2>1
<1>10. \A h \in DOMAIN r.rows : r.rows[h] = machines[h]
  BY <1>6
<1> HIDE DEF q, r
<1>11. RequestOK(r)
  BY <1>1, <1>6, <1>7, <1>8, <1>9, <1>10 DEF RequestOK, Serving, FreshRows, FreshNames, FreshValues
<1> QED BY <1>3, <1>6, <1>11, RequestStep, SameCaches DEF Inv

(* A page is sent.                                                         *)
LEMMA SendKeepsInv ==
  ASSUME Inv, NEW t \in Thread, Send(t)
  PROVE  Inv'
<1>1. req' = [req EXCEPT ![t] = Idle] /\ UNCHANGED <<data, cache, clock, stood, deployment>>
  BY DEF Send
<1> QED BY <1>1, IdleIsOK, RequestStep, SameCaches DEF Inv

(* The two hours of the clock have two buckets.                            *)
LEMMA BucketIsBit == Tables => Bucket \in 0..1
<1> SUFFICES ASSUME Tables PROVE Bucket \in 0..1
  OBVIOUS
<1>1. clock \in Nat /\ clock < 2 * Hour /\ Hour \in Nat /\ Hour > 0
  BY Bounds DEF Tables
<1>2. clock \div Hour \in Int /\ clock = Hour * (clock \div Hour) + (clock % Hour) /\ clock % Hour \in 0..(Hour - 1)
  BY <1>1
<1> DEFINE b == clock \div Hour
           c == clock % Hour
<1>3. b \in Int /\ c \in Int /\ clock = Hour * b + c /\ 0 <= c /\ c < Hour
  BY <1>1, <1>2
<1> HIDE DEF b, c
<1>4. b >= 0
  <2> SUFFICES ASSUME b <= 0 - 1 PROVE FALSE
    BY <1>3
  <2>1. Hour * b <= Hour * (0 - 1)
    BY <1>1, <1>3
  <2> QED BY <1>1, <1>3, <2>1
<1>5. b <= 1
  <2> SUFFICES ASSUME b >= 2 PROVE FALSE
    BY <1>3
  <2>1. Hour * b >= Hour * 2
    BY <1>1, <1>3
  <2> QED BY <1>1, <1>3, <2>1
<1> QED BY <1>3, <1>4, <1>5 DEF b, Bucket

(* The keys that threads make are keys.                                    *)
LEMMA KeyIsKey ==
  ASSUME Inv, NEW t \in Thread, NEW name \in Name
  PROVE  /\ KpiKey(t, name) \in Key /\ KpiKey(t, name).name = name
         /\ Version(ProcessOf[t]) \in Nat /\ ProcessOf[t] \in Process
<1>1. ProcessOf[t] \in Process
  BY KpiAssumption
<1>2. Version(ProcessOf[t]) \in Nat
  BY <1>1 DEF Inv, Caches, Cache, Opt, Version
<1> QED BY <1>1, <1>2, BucketIsBit DEF KpiKey, Key, Inv

(* What is computed is an aggregate, and as old as the request at most.    *)
LEMMA ComputedIsGood ==
  ASSUME Tables, NEW name \in Name, NEW names \in SUBSET Host, NEW age \in Nat,
         name # "failed_7d" =>
           \A h \in Host : stood[h] > age => (h \in names <=> h \in DOMAIN machines),
         NEW value \in Computed(name, names)
  PROVE  value \in Aggregate(name) /\ Good(name, value, age + 1)
<1>1. \A h \in Host : stood[h] \in Int /\ runs[h] \in 0..MaxRuns /\ reports[h] \in Opt(Report)
  BY Bounds DEF Tables
<1>2. CASE name = "failed_7d"
  <2>1. PICK top \in MostFailing : value = [h \in top |-> runs[h]]
    BY <1>2 DEF Computed
  <2>2. top \subseteq Failing /\ Failing \subseteq Host
        /\ Cardinality(top) = IF Cardinality(Failing) > MAX_FAILED
                              THEN MAX_FAILED ELSE Cardinality(Failing)
    BY DEF MostFailing, Failing
  <2>3. IsFiniteSet(Failing)
    BY <2>2, KpiAssumption, FS_Subset
  <2>4. value \in Aggregate(name)
    <3>1. \A h \in top : runs[h] \in 1..MaxRuns
      BY <1>1, <2>2, Bounds DEF Failing
    <3>2. value \in [top -> 1..MaxRuns] /\ top \in SUBSET Host
      BY <2>1, <2>2, <3>1
    <3> QED BY <1>2, <3>2, AggregateIntro
  <2>5. ASSUME Uncut(name, age + 1) PROVE top = Failing
    <3>1. Failing \subseteq FailedSince(age + 1) /\ FailedSince(age + 1) \subseteq Host
      BY DEF Failing, FailedSince
    <3>2. IsFiniteSet(FailedSince(age + 1))
      BY <3>1, KpiAssumption, FS_Subset
    <3>3. Cardinality(Failing) <= Cardinality(FailedSince(age + 1))
          /\ Cardinality(Failing) \in Nat /\ Cardinality(FailedSince(age + 1)) \in Nat
      BY <2>3, <3>1, <3>2, FS_Subset, FS_CardinalityType
    <3>4. Cardinality(FailedSince(age + 1)) <= MAX_FAILED
      BY <1>2, <2>5 DEF Uncut
    <3>5. Cardinality(top) = Cardinality(Failing)
      BY <2>2, <3>3, <3>4, Bounds
    <3> QED BY <2>2, <2>3, <3>5, FS_Subset
  <2>6. top = Failing => \A h \in Host : Agrees(name, value, h)
    BY <1>2, <2>1 DEF Failing, Agrees, Known, Told
  <2> QED BY <2>4, <2>5, <2>6 DEF Good
<1>3. CASE name # "failed_7d"
  <2>1. value = Reported(names)
    BY <1>3 DEF Computed
  <2> DEFINE D == {n \in names : reports[n] # None}
  <2>2. value = [h \in D |-> reports[h]]
    BY <2>1 DEF Reported
  <2>3. D \in SUBSET Host /\ \A h \in D : reports[h] \in Report
    BY <1>1 DEF Opt
  <2>4. value \in Aggregate(name)
    <3>1. value \in [D -> Report]
      BY <2>2, <2>3
    <3> HIDE DEF D
    <3> QED BY <1>3, <2>3, <3>1, AggregateIntro
  <2>5. \A h \in Host : stood[h] >= age + 1 => Agrees(name, value, h)
    <3> TAKE h \in Host
    <3> HAVE stood[h] >= age + 1
    <3>1. h \in names <=> h \in DOMAIN machines
      BY <1>1, <1>3
    <3> QED BY <1>3, <2>2, <3>1 DEF Agrees, Known, Told
  <2> QED BY <2>4, <2>5 DEF Good
<1> QED BY <1>2, <1>3

(* A request takes something out of the cache, or begins to compute it.    *)
LEMMA LookupKeepsInv ==
  ASSUME Inv, NEW t \in Thread, Lookup(t)
  PROVE  Inv'
<1> DEFINE q == req[t]
           p == ProcessOf[t]
           key == KpiKey(t, Step(t))
           names == IF key.name = "failed_7d" THEN {} ELSE DOMAIN machines
           v == cache[p].entries[key].value
           hit == [q EXCEPT !.todo = Tail(q.todo), !.got = Got(q.got, key.name, v)]
           miss == [q EXCEPT !.key = key, !.names = names]
<1>1. q \in Request /\ RequestOK(q)
  BY DEF Inv, Requests
<1>2. q.todo # << >> /\ Head(q.todo) \in Name /\ q.key = None /\ Step(t) = Head(q.todo)
  BY DEF Lookup, Step
<1>3. q.value = None
  BY <1>1, <1>2 DEF RequestOK, Serving
<1>4. key \in Key /\ key.name = Head(q.todo) /\ p \in Process /\ Version(p) \in Nat
  BY <1>2, KeyIsKey
<1>5. cache' = [cache EXCEPT ![p].version = Version(p)] /\ UNCHANGED <<data, clock, stood, deployment>>
  BY DEF Lookup
<1>6. Caches'
  <2> HIDE DEF p
  <2>1. cache \in [Process \union {Cron} -> Cache]
    BY DEF Inv, Caches
  <2>2. cache' \in [Process \union {Cron} -> Cache]
        /\ \A s \in Process \union {Cron} : cache'[s].entries = cache[s].entries
    BY <1>4, <1>5, <2>1 DEF Cache, Opt
  <2>3. \A s \in Process \union {Cron} : FreshEntries(cache'[s])
    BY <2>2 DEF Inv, Caches, FreshEntries
  <2>4. \A c : FreshEntries(c) => FreshEntries(c)'
    BY <1>5, SameTables DEF data
  <2> QED BY <2>2, <2>3, <2>4 DEF Caches
<1>7. CASE key \in DOMAIN cache[p].entries
  <2>1. req' = [req EXCEPT ![t] = hit]
    <3> DEFINE was == [q EXCEPT !.todo = Tail(@), !.got = Got(@, key.name, v)]
    <3>1. req' = [req EXCEPT ![t] = was]
      BY <1>7 DEF Lookup
    <3>2. was = hit
      <4> HIDE DEF key, v, q
      <4> QED BY <1>1 DEF Request
    <3> HIDE DEF was, hit
    <3> QED BY <3>1, <3>2
  <2>2. cache[p].entries \in Entries /\ FreshEntries(cache[p])
    BY <1>4 DEF Inv, Caches, Cache
  <2>3. v \in Aggregates /\ cache[p].entries[key].life \in 1..KPI_TTL
    BY <1>7, <2>2, EntriesElim DEF Entry
  <2>4. v \in Aggregate(key.name) /\ Good(key.name, v, KPI_TTL + MaxRequest + 1 - cache[p].entries[key].life)
    BY <1>7, <2>2 DEF FreshEntries
  <2>5. q.age \in Nat
    BY <1>1, Bounds DEF Request
  <2>6. Good(key.name, v, KPI_TTL + MaxRequest + q.age)
    <3> HIDE DEF q, key, v, p
    <3>1. KPI_TTL + MaxRequest + 1 - cache[p].entries[key].life <= KPI_TTL + MaxRequest + q.age
          /\ KPI_TTL + MaxRequest + 1 - cache[p].entries[key].life \in Int
          /\ KPI_TTL + MaxRequest + q.age \in Int
      BY <2>3, <2>5, Bounds
    <3> QED BY <2>4, <3>1, OlderIsGood DEF Inv
  <2> HIDE DEF v, key, p
  <2>7. q.got \in Gots
    BY <1>1 DEF Request
  <2>8. /\ Got(q.got, key.name, v) \in Gots
        /\ DOMAIN Got(q.got, key.name, v) = DOMAIN q.got \union {key.name}
        /\ \A n \in DOMAIN Got(q.got, key.name, v) :
             Got(q.got, key.name, v)[n] = IF n \in DOMAIN q.got THEN q.got[n] ELSE v
    <3>1. key.name \in Name
      BY <1>2, <1>4
    <3> HIDE DEF q
    <3> QED BY <2>3, <2>7, <3>1, GotIsGots
  <2>9. Tail(q.todo) \in Seq(Name \union {"rows"}) /\ Left(q.todo) = {key.name} \union Left(Tail(q.todo))
    BY <1>1, <1>2, <1>4, AfterRead
  <2> HIDE DEF q
  <2>10. hit \in Request /\ hit.todo = Tail(q.todo) /\ hit.got = Got(q.got, key.name, v)
         /\ hit.page = q.page /\ hit.org = q.org /\ hit.rows = q.rows /\ hit.key = q.key
         /\ hit.value = q.value /\ hit.age = q.age
    BY <1>1, <2>8, <2>9 DEF Request
  <2> HIDE DEF hit
  <2>11. key.name # "rows"
    BY <1>2, <1>4 DEF Name
  <2>12. Serving(hit)
    BY <1>1, <1>2, <1>3, <2>4, <2>8, <2>9, <2>10 DEF RequestOK, Serving
  <2>13. FreshRows(hit)
    BY <1>1, <2>9, <2>10, <2>11 DEF RequestOK, FreshRows, Scope
  <2>14. FreshNames(hit) /\ FreshValues(hit)
    BY <1>1, <1>2, <1>3, <2>6, <2>8, <2>10 DEF RequestOK, FreshNames, FreshValues
  <2> QED BY <1>5, <1>6, <2>1, <2>10, <2>12, <2>13, <2>14, RequestStep DEF Inv, RequestOK
<1>8. CASE key \notin DOMAIN cache[p].entries
  <2>1. req' = [req EXCEPT ![t] = miss]
    BY <1>8 DEF Lookup
  <2>2. names \subseteq Host
    BY RowsElim DEF Inv, Tables
  <2> HIDE DEF q, key, p
  <2>3. (key.name # "failed_7d" => names = DOMAIN machines)
    OBVIOUS
  <2> HIDE DEF names
  <2>4. miss \in Request /\ miss.key = key /\ miss.names = names /\ miss.todo = q.todo /\ miss.got = q.got
        /\ miss.page = q.page /\ miss.org = q.org /\ miss.rows = q.rows
        /\ miss.value = q.value /\ miss.age = q.age
    BY <1>1, <1>4, <2>2 DEF Request, Opt
  <2> HIDE DEF miss
  <2>5. Serving(miss)
    BY <1>1, <1>2, <1>3, <1>4, <2>4 DEF RequestOK, Serving
  <2>6. FreshRows(miss)
    BY <1>1, <2>4 DEF RequestOK, FreshRows, Scope
  <2>7. FreshNames(miss) /\ FreshValues(miss)
    BY <1>1, <1>3, <2>3, <2>4 DEF RequestOK, FreshNames, FreshValues
  <2> QED BY <1>5, <1>6, <2>1, <2>4, <2>5, <2>6, <2>7, RequestStep DEF Inv, RequestOK
<1> QED BY <1>7, <1>8

(* A request computes what it did not find.                                *)
LEMMA ComputeKeepsInv ==
  ASSUME Inv, NEW t \in Thread, Compute(t)
  PROVE  Inv'
<1> DEFINE q == req[t]
<1>1. q \in Request /\ RequestOK(q)
  BY DEF Inv, Requests
<1>2. q.key # None /\ q.value = None /\ UNCHANGED <<data, cache, clock, stood, deployment>>
  BY DEF Compute
<1>3. PICK value \in Computed(q.key.name, q.names) :
        req' = [req EXCEPT ![t].value = value, ![t].names = {}]
  BY DEF Compute
<1> DEFINE r == [q EXCEPT !.value = value, !.names = {}]
<1>4. req' = [req EXCEPT ![t] = r]
  <2>1. req \in [Thread -> Request]
    BY DEF Inv, Requests
  <2> QED BY <1>3, <2>1 DEF Request
<1> HIDE DEF q
<1>5. q.key \in Key /\ q.key.name \in Name /\ q.names \in SUBSET Host /\ q.age \in Nat
  BY <1>1, <1>2, Bounds DEF Request, Opt, Key
<1>6. value \in Aggregate(q.key.name) /\ Good(q.key.name, value, q.age + 1)
  <2>1. q.key.name # "failed_7d" =>
          \A h \in Host : stood[h] > q.age => (h \in q.names <=> h \in DOMAIN machines)
    BY <1>1, <1>2 DEF RequestOK, FreshNames
  <2>2. Tables
    BY DEF Inv
  <2> QED BY <1>5, <2>1, <2>2, ComputedIsGood
<1>7. value \in Aggregates
  BY <1>5, <1>6, AggregateIsOne
<1>8. r \in Request /\ r.value = value /\ r.key = q.key /\ r.todo = q.todo /\ r.got = q.got
      /\ r.page = q.page /\ r.org = q.org /\ r.rows = q.rows /\ r.age = q.age
  BY <1>1, <1>7 DEF Request, Opt
<1> HIDE DEF r
<1>9. Serving(r)
  BY <1>1, <1>2, <1>6, <1>8 DEF RequestOK, Serving
<1>10. FreshRows(r)
  BY <1>1, <1>8 DEF RequestOK, FreshRows, Scope
<1>11. FreshValues(r)
  BY <1>1, <1>6, <1>8 DEF RequestOK, FreshValues
<1>12. FreshNames(r)
  <2>1. r.value # None
    BY <1>5, <1>6, <1>8, KpiAssumption
  <2> QED BY <2>1 DEF FreshNames
<1> QED BY <1>2, <1>4, <1>8, <1>9, <1>10, <1>11, <1>12, RequestStep, SameCaches DEF Inv, RequestOK

(* What was computed is kept: it is as old as the request.                 *)
LEMMA StoreKeepsInv ==
  ASSUME Inv, NEW t \in Thread, Store(t)
  PROVE  Inv'
<1> DEFINE q == req[t]
           p == ProcessOf[t]
           r == [q EXCEPT !.todo = Tail(q.todo), !.key = None, !.value = None,
                          !.got = Got(q.got, Head(q.todo), q.value)]
           e == [value |-> q.value, life |-> KPI_TTL]
<1>1. q \in Request /\ RequestOK(q)
  BY DEF Inv, Requests
<1>2. q.value # None /\ UNCHANGED <<data, clock, stood, deployment>>
      /\ cache' = [cache EXCEPT ![p].entries = Put(@, q.key, e)]
  BY DEF Store, Keep
<1>3. req' = [req EXCEPT ![t] = r]
  <2>1. req' = [req EXCEPT ![t] =
          [q EXCEPT !.todo = Tail(@), !.key = None, !.value = None, !.got = Got(@, Head(q.todo), q.value)]]
    BY DEF Store, Keep, Step
  <2>2. [q EXCEPT !.todo = Tail(@), !.key = None, !.value = None, !.got = Got(@, Head(q.todo), q.value)] = r
    <3> HIDE DEF q
    <3> QED BY <1>1 DEF Request
  <2> HIDE DEF r
  <2> QED BY <2>1, <2>2
<1> HIDE DEF q
<1>4. q.todo # << >> /\ q.key # None /\ q.key.name = Head(q.todo) /\ q.value \in Aggregate(q.key.name)
  BY <1>1, <1>2 DEF RequestOK, Serving
<1>5. q.key \in Key /\ q.key.name \in Name /\ q.age \in 0..MaxRequest /\ q.got \in Gots
  BY <1>1, <1>4 DEF Request, Opt, Key
<1>6. q.value \in Aggregates
  BY <1>4, <1>5, AggregateIsOne
<1>7. Good(q.key.name, q.value, q.age + 1)
  BY <1>1, <1>2 DEF RequestOK, FreshValues
<1>8. Good(q.key.name, q.value, MaxRequest + 1)
      /\ Good(q.key.name, q.value, KPI_TTL + MaxRequest + q.age)
  <2>1. q.age + 1 <= MaxRequest + 1 /\ q.age + 1 <= KPI_TTL + MaxRequest + q.age
        /\ q.age + 1 \in Int /\ MaxRequest + 1 \in Int /\ KPI_TTL + MaxRequest + q.age \in Int
    BY <1>5, Bounds
  <2> QED BY <1>7, <2>1, OlderIsGood DEF Inv
<1>9. Caches'
  <2>1. p \in Process
    BY KpiAssumption
  <2> HIDE DEF p
  <2> DEFINE es == Put(cache[p].entries, q.key, e)
  <2>2. cache \in [Process \union {Cron} -> Cache]
    BY DEF Inv, Caches
  <2>3. e \in Entry /\ e.value = q.value /\ e.life = KPI_TTL
    BY <1>6, Bounds DEF Entry
  <2> HIDE DEF e
  <2>4. DOMAIN cache[p].entries \subseteq Key /\ \A k \in DOMAIN cache[p].entries : cache[p].entries[k] \in Entry
    BY <2>1, <2>2, EntriesElim DEF Cache
  <2>5. es = [k \in DOMAIN cache[p].entries \union {q.key} |-> IF k = q.key THEN e ELSE cache[p].entries[k]]
    BY DEF Put
  <2>6. es \in Entries
    <3>1. es \in [DOMAIN cache[p].entries \union {q.key} -> Entry]
      BY <2>3, <2>4, <2>5
    <3> HIDE DEF es
    <3> QED BY <1>5, <2>4, <3>1, EntriesIntro
  <2>7. DOMAIN es = DOMAIN cache[p].entries \union {q.key}
        /\ es[q.key] = e /\ \A k \in DOMAIN es : k # q.key => k \in DOMAIN cache[p].entries /\ es[k] = cache[p].entries[k]
    BY <2>5
  <2>8. cache' = [cache EXCEPT ![p].entries = es]
    BY <1>2
  <2> HIDE DEF es
  <2>9. cache' \in [Process \union {Cron} -> Cache] /\ cache'[p].entries = es
        /\ \A s \in Process \union {Cron} : s # p => cache'[s] = cache[s]
    BY <2>1, <2>2, <2>6, <2>8 DEF Cache
  <2>10. KPI_TTL + MaxRequest + 1 - KPI_TTL = MaxRequest + 1
    BY Bounds
  <2>11. FreshEntries(cache[p])
    BY <2>1 DEF Inv, Caches
  <2>12. FreshEntries(cache'[p])
    BY <1>4, <1>8, <2>3, <2>7, <2>9, <2>10, <2>11 DEF FreshEntries
  <2>13. \A s \in Process \union {Cron} : FreshEntries(cache'[s])
    BY <2>9, <2>12 DEF Inv, Caches
  <2>14. \A c : FreshEntries(c) => FreshEntries(c)'
    BY <1>2, SameTables DEF data
  <2> QED BY <2>9, <2>13, <2>14 DEF Caches
<1>10. Tail(q.todo) \in Seq(Name \union {"rows"}) /\ Left(q.todo) = {q.key.name} \union Left(Tail(q.todo))
  BY <1>1, <1>4, AfterRead
<1>11. /\ Got(q.got, q.key.name, q.value) \in Gots
       /\ DOMAIN Got(q.got, q.key.name, q.value) = DOMAIN q.got \union {q.key.name}
       /\ \A n \in DOMAIN Got(q.got, q.key.name, q.value) :
            Got(q.got, q.key.name, q.value)[n] = IF n \in DOMAIN q.got THEN q.got[n] ELSE q.value
  <2> DEFINE name == q.key.name
             v == q.value
             got == q.got
  <2>1. name \in Name /\ v \in Aggregates /\ got \in Gots
    BY <1>5, <1>6
  <2> HIDE DEF r, e, p, name, v, got
  <2>2. /\ Got(got, name, v) \in Gots
        /\ DOMAIN Got(got, name, v) = DOMAIN got \union {name}
        /\ \A n \in DOMAIN Got(got, name, v) :
             Got(got, name, v)[n] = IF n \in DOMAIN got THEN got[n] ELSE v
    BY <2>1, GotIsGots
  <2> QED BY <2>2 DEF name, v, got
<1>12. r \in Request /\ r.todo = Tail(q.todo) /\ r.got = Got(q.got, q.key.name, q.value)
       /\ r.page = q.page /\ r.org = q.org /\ r.rows = q.rows /\ r.key = None
       /\ r.value = None /\ r.age = q.age
  BY <1>1, <1>4, <1>10, <1>11 DEF Request, Opt
<1> HIDE DEF r
<1>13. q.key.name # "rows"
  BY <1>5 DEF Name
<1>14. Serving(r)
  BY <1>1, <1>4, <1>10, <1>11, <1>12 DEF RequestOK, Serving
<1>15. FreshRows(r)
  BY <1>1, <1>10, <1>12, <1>13 DEF RequestOK, FreshRows, Scope
<1>16. FreshNames(r) /\ FreshValues(r)
  BY <1>1, <1>8, <1>11, <1>12 DEF RequestOK, FreshNames, FreshValues
<1> QED BY <1>2, <1>3, <1>9, <1>12, <1>14, <1>15, <1>16, RequestStep DEF Inv, RequestOK

-----------------------------------------------------------------------------
(* The steps around the threads.                                           *)

(* A command that bumps the version of its own cache changes no other.     *)
LEMMA ProcessStatusKeepsInv ==
  ASSUME Inv, ProcessStatus
  PROVE  Inv'
<1>1. cache' = [cache EXCEPT ![Cron] = [Empty EXCEPT !.version = 2]]
      /\ UNCHANGED <<data, clock, req, stood, deployment>>
  BY DEF ProcessStatus
<1> DEFINE c == [Empty EXCEPT !.version = 2]
<1>2. c \in Cache /\ DOMAIN c.entries = {}
  <2>1. NoEntries \in Entries /\ DOMAIN NoEntries = {}
    <3>1. NoEntries \in [{} -> Entry] /\ {} \in SUBSET Key
      BY DEF NoEntries
    <3> QED BY <3>1 DEF Entries, NoEntries
  <2> QED BY <2>1 DEF Empty, Cache, Opt
<1> HIDE DEF c
<1>3. FreshEntries(c)
  BY <1>2 DEF FreshEntries
<1>4. cache' \in [Process \union {Cron} -> Cache]
      /\ \A s \in Process \union {Cron} : FreshEntries(cache'[s])
  <2>1. cache' = [cache EXCEPT ![Cron] = c]
    BY <1>1 DEF c
  <2> QED BY <1>2, <1>3, <2>1 DEF Inv, Caches
<1>5. Caches'
  BY <1>1, <1>4, SameTables DEF data, Caches
<1>6. Requests'
  BY <1>1, SameTables DEF data, Inv, Requests
<1> QED BY <1>1, <1>5, <1>6 DEF Inv, Tables, data

(* Nothing survives in a process that is restarted.                        *)
LEMMA RestartKeepsInv ==
  ASSUME Inv, NEW p \in Process, Restart(p)
  PROVE  Inv'
<1>1. cache' = [cache EXCEPT ![p] = Empty]
      /\ req' = [t \in Thread |-> IF ProcessOf[t] = p THEN Idle ELSE req[t]]
      /\ UNCHANGED <<data, clock, stood, deployment>>
  BY DEF Restart
<1>2. Empty \in Cache /\ FreshEntries(Empty)
  <2>1. NoEntries \in Entries /\ DOMAIN NoEntries = {}
    <3>1. NoEntries \in [{} -> Entry] /\ {} \in SUBSET Key
      BY DEF NoEntries
    <3> QED BY <3>1 DEF Entries, NoEntries
  <2> QED BY <2>1 DEF Empty, Cache, Opt, FreshEntries
<1>3. cache' \in [Process \union {Cron} -> Cache]
      /\ \A s \in Process \union {Cron} : FreshEntries(cache'[s])
  BY <1>1, <1>2 DEF Inv, Caches
<1>4. Caches'
  BY <1>1, <1>3, SameTables DEF data, Caches
<1>5. req' \in [Thread -> Request] /\ \A t \in Thread : RequestOK(req'[t])
  BY <1>1, IdleIsOK DEF Inv, Requests
<1>6. Requests'
  BY <1>1, <1>5, SameTables DEF data, Requests
<1> QED BY <1>1, <1>4, <1>6 DEF Inv, Tables, data

(* A request is a tick older after a tick, and what it holds is too.       *)
LEMMA TickAgesRequest ==
  ASSUME Tables, Tick, NEW q \in Request, RequestOK(q), q.age < MaxRequest,
         NEW r, r = [q EXCEPT !.age = @ + 1]
  PROVE  r \in Request /\ RequestOK(r)'
<1>1. \A h \in Host : \A b \in Nat : b < Stale => (stood'[h] >= b + 1 <=> stood[h] >= b)
  BY TickCounts
<1>2. \A name, v : \A b \in Nat : b < Stale /\ Good(name, v, b) => Good(name, v, b + 1)'
  BY TickAges
<1>3. UNCHANGED <<machines, reports, runs>>
  BY DEF Tick, data
<1>4. \A h \in Host : stood[h] \in Int /\ stood'[h] \in Int
  BY TickCounts, Bounds DEF Tables
<1>5. DOMAIN machines \subseteq Host
  BY RowsElim DEF Tables
<1>6. q.age \in Nat /\ q.age + 1 <= MaxRequest
  BY Bounds DEF Request
<1>7. r \in Request /\ r.age = q.age + 1 /\ r.todo = q.todo /\ r.page = q.page /\ r.org = q.org
      /\ r.key = q.key /\ r.value = q.value /\ r.rows = q.rows /\ r.names = q.names /\ r.got = q.got
  BY <1>6, Bounds DEF Request
<1>8. \A h \in Host : stood'[h] > r.age <=> stood[h] > q.age
  <2> TAKE h \in Host
  <2>1. q.age + 1 \in Nat /\ q.age + 1 < Stale
    BY <1>6, Bounds
  <2>2. stood'[h] >= (q.age + 1) + 1 <=> stood[h] >= q.age + 1
    BY <1>1, <2>1
  <2> QED BY <1>4, <1>6, <1>7, <2>2
<1>9. DOMAIN q.rows \subseteq Host
  BY RowsElim DEF Request
<1>10. Serving(r)
  BY <1>7 DEF RequestOK, Serving
<1>11. FreshRows(r)'
  BY <1>3, <1>5, <1>7, <1>8, <1>9 DEF RequestOK, FreshRows, Scope
<1>12. FreshNames(r)'
  BY <1>3, <1>7, <1>8 DEF RequestOK, FreshNames
<1>13. r.value # None => Good(r.key.name, r.value, r.age + 1)'
  <2>1. q.age + 1 \in Nat /\ q.age + 1 < Stale
    BY <1>6, Bounds
  <2> QED BY <1>2, <1>7, <2>1 DEF RequestOK, FreshValues
<1>14. \A n \in DOMAIN r.got : Good(n, r.got[n], KPI_TTL + MaxRequest + r.age)'
  <2>1. KPI_TTL + MaxRequest + q.age \in Nat /\ KPI_TTL + MaxRequest + q.age < Stale
        /\ (KPI_TTL + MaxRequest + q.age) + 1 = KPI_TTL + MaxRequest + r.age
    BY <1>6, <1>7, Bounds
  <2> QED BY <1>2, <1>7, <2>1 DEF RequestOK, FreshValues
<1>15. FreshValues(r)'
  BY <1>13, <1>14 DEF FreshValues
<1> QED BY <1>7, <1>10, <1>11, <1>12, <1>15 DEF RequestOK, Serving

(* An entry is a tick older after a tick, or gone.                         *)
LEMMA TickAgesEntries ==
  ASSUME Tables, Tick, NEW c \in Cache, FreshEntries(c),
         NEW d, d = [c EXCEPT !.entries = Aged(@)]
  PROVE  d \in Cache /\ FreshEntries(d)'
<1> DEFINE es == c.entries
           live == {k \in DOMAIN es : es[k].life > 1}
           as == [k \in live |-> [es[k] EXCEPT !.life = @ - 1]]
<1>1. \A name, v : \A b \in Nat : b < Stale /\ Good(name, v, b) => Good(name, v, b + 1)'
  BY TickAges
<1>2. DOMAIN es \subseteq Key /\ \A k \in DOMAIN es : es[k] \in Entry
  BY EntriesElim DEF Cache
<1>3. as = Aged(es)
  BY DEF Aged
<1>4. \A k \in live : as[k] \in Entry /\ as[k].value = es[k].value /\ as[k].life = es[k].life - 1
        /\ es[k].life \in 2..KPI_TTL
  <2> TAKE k \in live
  <2>1. es[k] \in Entry /\ es[k].life > 1
    BY <1>2
  <2>2. es[k].life \in 2..KPI_TTL
    BY <2>1, Bounds DEF Entry
  <2>3. as[k] = [es[k] EXCEPT !.life = es[k].life - 1]
    OBVIOUS
  <2> QED BY <2>1, <2>2, <2>3, Bounds DEF Entry
<1>5. DOMAIN as = live /\ live \subseteq DOMAIN es /\ live \in SUBSET Key
  BY <1>2
<1>6. as \in Entries
  <2>1. as \in [live -> Entry]
    BY <1>4
  <2> HIDE DEF as, live
  <2> QED BY <1>5, <2>1, EntriesIntro
<1> HIDE DEF as, live
<1>7. d \in Cache /\ d.entries = as
  BY <1>3, <1>6 DEF Cache
<1>8. ASSUME NEW k \in live
      PROVE  /\ as[k].value \in Aggregate(k.name)
             /\ Good(k.name, as[k].value, KPI_TTL + MaxRequest + 1 - as[k].life)'
  <2>1. es[k].value \in Aggregate(k.name) /\ Good(k.name, es[k].value, KPI_TTL + MaxRequest + 1 - es[k].life)
    BY <1>5 DEF FreshEntries
  <2> DEFINE b == KPI_TTL + MaxRequest + 1 - es[k].life
  <2>2. b \in Nat /\ b < Stale /\ KPI_TTL + MaxRequest + 1 - as[k].life = b + 1
    <3>1. as[k].life = es[k].life - 1 /\ es[k].life \in 2..KPI_TTL
      BY <1>4
    <3> HIDE DEF es
    <3> QED BY <3>1, Bounds
  <2>3. Good(k.name, es[k].value, b)
    BY <2>1
  <2> HIDE DEF b
  <2>4. Good(k.name, es[k].value, b + 1)'
    BY <1>1, <2>2, <2>3
  <2> QED BY <1>4, <2>1, <2>2, <2>4
<1> QED BY <1>5, <1>7, <1>8 DEF FreshEntries

(* With a tick, requests and entries grow older as everything does.        *)
LEMMA TickKeepsInv ==
  ASSUME Inv, Tick
  PROVE  Inv'
<1>1. Tables'
  BY TickCounts DEF Inv
<1>2. \A q \in Request : RequestOK(q) /\ q.age < MaxRequest =>
        \A r : r = [q EXCEPT !.age = @ + 1] => r \in Request /\ RequestOK(r)'
  BY TickAgesRequest DEF Inv
<1>3. \A c \in Cache : FreshEntries(c) =>
        \A d : d = [c EXCEPT !.entries = Aged(@)] => d \in Cache /\ FreshEntries(d)'
  BY TickAgesEntries DEF Inv
<1>4. ASSUME NEW t \in Thread PROVE req'[t] \in Request /\ RequestOK(req[t])'
  <2>1. req[t] \in Request /\ RequestOK(req[t]) /\ req[t].age < MaxRequest
    BY DEF Inv, Requests, Tick
  <2>2. req'[t] = Idle \/ req'[t] = [req[t] EXCEPT !.age = @ + 1]
    BY DEF Tick
  <2> QED BY <1>2, <2>1, <2>2, IdleIsOK
<1>5. req' = [t \in Thread |-> req'[t]]
  BY DEF Tick
<1>6. Requests'
  BY <1>4, <1>5 DEF Requests
<1>7. ASSUME NEW p \in Process \union {Cron} PROVE cache'[p] \in Cache /\ FreshEntries(cache[p])'
  <2>1. cache[p] \in Cache /\ FreshEntries(cache[p])
    BY DEF Inv, Caches
  <2>2. cache'[p] = [cache[p] EXCEPT !.entries = Aged(@)]
    BY DEF Inv, Caches, Tick
  <2> QED BY <1>3, <2>1, <2>2
<1>8. cache' = [p \in Process \union {Cron} |-> cache'[p]]
  BY DEF Tick, Inv, Caches
<1>9. Caches'
  BY <1>7, <1>8 DEF Caches
<1> QED BY <1>1, <1>6, <1>9 DEF Inv

(* What changes about a host was not said of it so recently.               *)
LEMMA ChangeAgesRequest ==
  ASSUME Tables, NEW g \in Host, DataChange(g), NEW r \in Request, RequestOK(r)
  PROVE  RequestOK(r)'
<1>1. /\ stood'[g] = 0
      /\ \A h \in Host \ {g} : stood'[h] = stood[h]
      /\ machines' \in Rows
  BY ChangeIsLocal DEF Tables
<1>2. \A h \in Host \ {g} : (h \in DOMAIN machines <=> h \in DOMAIN machines')
                            /\ (h \in DOMAIN machines => machines'[h] = machines[h])
  BY ChangeIsLocal
<1>3. \A name, v : \A b \in Nat \ {0} : Good(name, v, b) => Good(name, v, b)'
  BY ChangeAges
<1>4. DOMAIN machines' \subseteq Host /\ DOMAIN r.rows \subseteq Host
  BY <1>1, RowsElim DEF Request
<1>5. r.age \in Nat
  BY Bounds DEF Request
<1>6. \A h \in Host : stood'[h] > r.age => h # g /\ stood[h] > r.age
  BY <1>1, <1>5
<1>7. Serving(r)'
  BY DEF RequestOK, Serving
<1>8. FreshRows(r)'
  <2>1. \A h \in DOMAIN r.rows :
          stood'[h] > r.age => h \in DOMAIN machines' /\ Scope(r, h)' /\ r.rows[h] = machines'[h]
    BY <1>2, <1>4, <1>6 DEF RequestOK, FreshRows, Scope
  <2>2. r.page # None /\ "rows" \notin Left(r.todo) =>
          \A h \in DOMAIN machines' : stood'[h] > r.age /\ Scope(r, h)' => h \in DOMAIN r.rows
    BY <1>2, <1>4, <1>6 DEF RequestOK, FreshRows, Scope
  <2> QED BY <2>1, <2>2 DEF FreshRows
<1>9. FreshNames(r)'
  BY <1>2, <1>6 DEF RequestOK, FreshNames
<1>10. FreshValues(r)'
  <2>1. r.age + 1 \in Nat \ {0} /\ KPI_TTL + MaxRequest + r.age \in Nat \ {0}
    BY <1>5, Bounds
  <2> QED BY <1>3, <2>1 DEF RequestOK, FreshValues
<1> QED BY <1>7, <1>8, <1>9, <1>10 DEF RequestOK

LEMMA ChangeAgesEntries ==
  ASSUME Tables, NEW g \in Host, DataChange(g), NEW c \in Cache, FreshEntries(c)
  PROVE  FreshEntries(c)'
<1>1. \A name, v : \A b \in Nat \ {0} : Good(name, v, b) => Good(name, v, b)'
  BY ChangeAges
<1>2. \A k \in DOMAIN c.entries : KPI_TTL + MaxRequest + 1 - c.entries[k].life \in Nat \ {0}
  <2> TAKE k \in DOMAIN c.entries
  <2>1. c.entries[k].life \in 1..KPI_TTL
    BY EntriesElim DEF Cache, Entry
  <2> QED BY <2>1, Bounds
<1> QED BY <1>1, <1>2 DEF FreshEntries

(* Machines, reports and runs change under the pages.                      *)
LEMMA DataChangeKeepsInv ==
  ASSUME Inv, NEW g \in Host, DataChange(g)
  PROVE  Inv'
<1>1. Tables'
  BY ChangeIsLocal DEF Inv
<1>2. UNCHANGED <<cache, req>>
  BY DEF DataChange
<1>3. \A r \in Request : RequestOK(r) => RequestOK(r)'
  BY ChangeAgesRequest DEF Inv
<1>4. \A c \in Cache : FreshEntries(c) => FreshEntries(c)'
  BY ChangeAgesEntries DEF Inv
<1>5. Requests'
  BY <1>2, <1>3 DEF Inv, Requests
<1>6. Caches'
  BY <1>2, <1>4 DEF Inv, Caches
<1> QED BY <1>1, <1>5, <1>6 DEF Inv

-----------------------------------------------------------------------------
(* At first all caches are empty and nobody is asked for anything.         *)
LEMMA InitEstablishesInv == Init => Inv
<1> SUFFICES ASSUME Init PROVE Inv
  OBVIOUS
<1>1. Empty \in Cache /\ FreshEntries(Empty)
  <2>1. NoEntries \in [{} -> Entry] /\ {} \in SUBSET Key
    BY DEF NoEntries
  <2>2. NoEntries \in Entries
    BY <2>1 DEF Entries, NoEntries
  <2> QED BY <2>1, <2>2 DEF Empty, Cache, Opt, FreshEntries
<1>2. Tables
  <2>1. deployment \in DOMAIN Deployments /\ Site.machines \in Rows
    BY KpiAssumption DEF Init, Site
  <2> QED BY <2>1, Bounds DEF Init, Tables, Opt
<1>3. Requests
  BY IdleIsOK DEF Init, Requests
<1>4. Caches
  BY <1>1 DEF Init, Caches
<1> QED BY <1>2, <1>3, <1>4 DEF Inv

(* Every step of a thread and everything around it keeps the invariant.    *)
LEMMA NextKeepsInv == Inv /\ [Next]_vars => Inv'
<1> SUFFICES ASSUME Inv, [Next]_vars PROVE Inv'
  OBVIOUS
<1>1. ASSUME NEW t \in Thread, Serve(t) PROVE Inv'
  BY <1>1, AskKeepsInv, LoadRowsKeepsInv, LookupKeepsInv, ComputeKeepsInv, StoreKeepsInv, SendKeepsInv DEF Serve
<1>2. ASSUME NEW p \in Process, Restart(p) PROVE Inv'
  BY <1>2, RestartKeepsInv
<1>3. ASSUME NEW h \in Host, DataChange(h) PROVE Inv'
  BY <1>3, DataChangeKeepsInv
<1>4. CASE UNCHANGED vars
  <2>1. UNCHANGED <<data, stood, cache, req, clock, deployment>>
    BY <1>4 DEF vars
  <2>2. Requests'
    BY <2>1, SameTables DEF data, Inv, Requests
  <2> QED BY <2>1, <2>2, SameCaches DEF Inv, Tables, data
<1> QED BY <1>1, <1>2, <1>3, <1>4, ProcessStatusKeepsInv, TickKeepsInv DEF Next

(* Whatever says something of a machine says what the tables said at some  *)
(* time within the bound for whose hands it is in.                         *)
THEOREM KpiInvariant == Spec => []Inv
BY InitEstablishesInv, NextKeepsInv, PTL DEF Spec

(* The state is always well typed.                                         *)
THEOREM TypeCorrect == Spec => []TypeOK
<1>1. ASSUME Inv PROVE TypeOK
  <2>1. ASSUME NEW p \in Process \union {Cron}
        PROVE  /\ cache[p].version \in Opt(Nat)
               /\ \A k \in DOMAIN cache[p].entries :
                    /\ k \in Key
                    /\ cache[p].entries[k].value \in Aggregate(k.name)
                    /\ cache[p].entries[k].life \in 1..Hour
    <3>1. cache[p] \in Cache /\ FreshEntries(cache[p])
      BY <1>1 DEF Inv, Caches
    <3>2. DOMAIN cache[p].entries \subseteq Key /\ \A k \in DOMAIN cache[p].entries : cache[p].entries[k] \in Entry
      BY <3>1, EntriesElim DEF Cache
    <3>3. \A k \in DOMAIN cache[p].entries : cache[p].entries[k].life \in 1..Hour
      BY <3>2, Bounds DEF Entry
    <3> QED BY <3>1, <3>2, <3>3 DEF Cache, FreshEntries
  <2>2. ASSUME NEW t \in Thread
        PROVE  /\ req[t].page \in Opt(Page) /\ req[t].org \in Opt(Org)
               /\ req[t].ubuntu \in Opt(Releases)
               /\ req[t].age \in 0..MaxRequest /\ req[t].names \subseteq Host
               /\ req[t].rows \in Rows
               /\ \A n \in DOMAIN req[t].got : req[t].got[n] \in Aggregate(n)
    <3>1. req[t] \in Request /\ Serving(req[t])
      BY <1>1 DEF Inv, Requests, RequestOK
    <3> QED BY <3>1 DEF Request, Serving
  <2> QED BY <1>1, <2>1, <2>2 DEF Inv, Tables, TypeOK
<1> QED BY <1>1, KpiInvariant, PTL

-----------------------------------------------------------------------------
(* What is shown of one host.                                              *)

Same(f, g, h) ==
  /\ h \in DOMAIN f <=> h \in DOMAIN g
  /\ h \in DOMAIN f => f[h] = g[h]

(* An issue is about the host it marks.                                    *)
LEMMA AboutMarked ==
  ASSUME NEW h, NEW type, NEW S
  PROVE  About(h, Marked(type, S)) = IF h \in S THEN {<<h, type>>} ELSE {}
BY DEF About, Marked

(* Issues are found host by host.                                          *)
LEMMA IssuesAreLocal ==
  ASSUME NEW h, NEW rows, NEW alerts, NEW failed, NEW rows2, NEW alerts2, NEW failed2,
         Same(rows, rows2, h), Same(alerts, alerts2, h), Same(failed, failed2, h)
  PROVE  About(h, Issues(rows, alerts, failed)) = About(h, Issues(rows2, alerts2, failed2))
<1> DEFINE alerting(rs, as) == {g \in DOMAIN as \intersect DOMAIN rs : as[g].reboot \/ as[g].updates}
           Dead(rs) == {g \in DOMAIN rs : rs[g].active /\ rs[g].dead}
           Inactive(rs) == {g \in DOMAIN rs : ~rs[g].active}
           Reboot(rs, as) == {g \in alerting(rs, as) : as[g].reboot}
           Failed(rs, fs) == DOMAIN fs \intersect DOMAIN rs
           On(type, S) == IF h \in S THEN {<<h, type>>} ELSE {}
<1>1. \A rs, as, fs :
        About(h, Issues(rs, as, fs)) =
          On("connectivity", Dead(rs)) \union On("inactive", Inactive(rs))
            \union On("updates", alerting(rs, as)) \union On("reboot", Reboot(rs, as))
            \union On("ansible_failed", Failed(rs, fs))
  <2> TAKE rs, as, fs
  <2> DEFINE A == Marked("connectivity", Dead(rs))
             B == Marked("inactive", Inactive(rs))
             C == Marked("updates", alerting(rs, as))
             D == Marked("reboot", Reboot(rs, as))
             E == Marked("ansible_failed", Failed(rs, fs))
  <2>1. Issues(rs, as, fs) = A \union B \union C \union D \union E
    BY DEF Issues
  <2> HIDE DEF alerting, Dead, Inactive, Reboot, Failed
  <2>2. /\ About(h, A) = On("connectivity", Dead(rs)) /\ About(h, B) = On("inactive", Inactive(rs))
        /\ About(h, C) = On("updates", alerting(rs, as)) /\ About(h, D) = On("reboot", Reboot(rs, as))
        /\ About(h, E) = On("ansible_failed", Failed(rs, fs))
    BY AboutMarked
  <2> HIDE DEF A, B, C, D, E, On
  <2>3. About(h, A \union B \union C \union D \union E)
          = About(h, A) \union About(h, B) \union About(h, C) \union About(h, D) \union About(h, E)
    BY DEF About
  <2> QED BY <2>1, <2>2, <2>3
<1>2. /\ h \in Dead(rows) <=> h \in Dead(rows2)
      /\ h \in Inactive(rows) <=> h \in Inactive(rows2)
      /\ h \in alerting(rows, alerts) <=> h \in alerting(rows2, alerts2)
      /\ h \in Reboot(rows, alerts) <=> h \in Reboot(rows2, alerts2)
      /\ h \in Failed(rows, failed) <=> h \in Failed(rows2, failed2)
  BY DEF Same
<1> HIDE DEF alerting, Dead, Inactive, Reboot, Failed
<1> QED BY <1>1, <1>2

(* And machines listed.                                                    *)
LEMMA ListedIsLocal ==
  ASSUME NEW h, NEW rows, NEW releases, NEW rows2, NEW releases2, NEW ubuntu,
         Same(rows, rows2, h), Same(releases, releases2, h)
  PROVE  About(h, Marked("listed", Listed(rows, releases, ubuntu)))
           = About(h, Marked("listed", Listed(rows2, releases2, ubuntu)))
<1>1. h \in Listed(rows, releases, ubuntu) <=> h \in Listed(rows2, releases2, ubuntu)
  BY DEF Same, Listed
<1> QED BY <1>1, AboutMarked

(* Only machines among the rows of a page are shown.                       *)
LEMMA ShownAreRows ==
  ASSUME NEW t, NEW rows, NEW got, NEW x \in Shown(t, rows, got)
  PROVE  x[1] \in DOMAIN rows
<1>1. \A type : \A S \in SUBSET DOMAIN rows : \A y \in Marked(type, S) : y[1] \in DOMAIN rows
  BY DEF Marked
<1>2. Listed(rows, got.ubuntu_releases, req[t].ubuntu) \in SUBSET DOMAIN rows
  BY DEF Listed
<1>3. \A as, fs : \A y \in Issues(rows, as, fs) : y[1] \in DOMAIN rows
  <2> TAKE as, fs
  <2> DEFINE alerting == {h \in DOMAIN as \intersect DOMAIN rows : as[h].reboot \/ as[h].updates}
  <2>1. /\ {h \in DOMAIN rows : rows[h].active /\ rows[h].dead} \in SUBSET DOMAIN rows
        /\ {h \in DOMAIN rows : ~rows[h].active} \in SUBSET DOMAIN rows
        /\ alerting \in SUBSET DOMAIN rows
        /\ {h \in alerting : as[h].reboot} \in SUBSET DOMAIN rows
        /\ DOMAIN fs \intersect DOMAIN rows \in SUBSET DOMAIN rows
    OBVIOUS
  <2> QED BY <1>1, <2>1 DEF Issues
<1> QED BY <1>1, <1>2, <1>3 DEF Shown

(***************************************************************************)
(* However old the aggregates are that a page is made of, and whatever     *)
(* happened while it was, it shows no machine that was already deleted, or *)
(* a member none that was already another's, when it was asked for.        *)
(***************************************************************************)
THEOREM NoDeadMachines == Spec => OnlyLiveMachines
<1>1. ASSUME Inv, NEW t \in Thread, NEW x \in Shown(t, req[t].rows, req[t].got), stood[x[1]] > req[t].age
      PROVE  x[1] \in DOMAIN machines /\ InScope(t, x[1])
  <2>1. x[1] \in DOMAIN req[t].rows
    BY ShownAreRows
  <2>2. FreshRows(req[t])
    BY <1>1 DEF Inv, Requests, RequestOK
  <2> QED BY <1>1, <2>1, <2>2 DEF FreshRows, Scope, InScope
<1>2. Inv => \A t \in Thread : Sends(t) /\ req'[t] = Idle =>
         \A x \in Shown(t, req[t].rows, req[t].got) :
           stood[x[1]] > req[t].age => x[1] \in DOMAIN machines /\ InScope(t, x[1])
  BY <1>1
<1> QED BY <1>2, KpiInvariant, PTL DEF OnlyLiveMachines

(* A page that is sent says of a host about which nothing has changed for  *)
(* long what the tables say.                                               *)
LEMMA PagesAreCurrent ==
  ASSUME Inv, NEW t \in Thread, Sends(t), Cardinality(MayHaveFailed) <= MAX_FAILED,
         NEW h \in Host, stood[h] = Stale
  PROVE  About(h, Shown(t, req[t].rows, req[t].got)) = About(h, Current(t))
<1> DEFINE q == req[t]
           rows == [g \in {i \in DOMAIN machines : InScope(t, i)} |-> machines[g]]
           reported == Reported(DOMAIN machines)
           failed == [g \in Failing |-> runs[g]]
<1>1. q \in Request /\ RequestOK(q) /\ q.page # None /\ q.todo = << >>
  BY DEF Inv, Requests, Sends
<1>2. Left(q.todo) = {}
  BY <1>1 DEF Left
<1>3. q.age \in Nat /\ q.age <= MaxRequest /\ stood[h] > q.age
      /\ KPI_TTL + MaxRequest + q.age \in Int /\ KPI_TTL + MaxRequest + q.age <= Stale /\ Stale \in Int
  BY <1>1, Bounds DEF Request
<1>4. Same(q.rows, rows, h)
  <2>1. h \in DOMAIN q.rows => h \in DOMAIN machines /\ InScope(t, h) /\ q.rows[h] = machines[h]
    BY <1>1, <1>3 DEF RequestOK, FreshRows, Scope, InScope
  <2>2. h \in DOMAIN machines /\ InScope(t, h) => h \in DOMAIN q.rows
    BY <1>1, <1>2, <1>3 DEF RequestOK, FreshRows, Scope, InScope
  <2> QED BY <2>1, <2>2 DEF Same
<1>5. \A name : Uncut(name, Stale)
  BY DEF Uncut, FailedSince, MayHaveFailed
<1>6. \A n \in DOMAIN q.got : Agrees(n, q.got[n], h)
  <2> TAKE n \in DOMAIN q.got
  <2> DEFINE v == q.got[n]
  <2>1. Good(n, v, KPI_TTL + MaxRequest + q.age)
    BY <1>1 DEF RequestOK, FreshValues
  <2> HIDE DEF q, v
  <2>2. Good(n, v, Stale)
    BY <1>3, <2>1, OlderIsGood DEF Inv
  <2> QED BY <1>3, <1>5, <2>2 DEF Good, v
<1>7. \A n \in Name : n # "failed_7d" /\ n \in DOMAIN q.got => Same(q.got[n], reported, h)
  <2>1. (h \in DOMAIN reported <=> h \in DOMAIN machines /\ reports[h] # None)
        /\ (h \in DOMAIN reported => reported[h] = reports[h])
    BY DEF Reported
  <2> HIDE DEF reported
  <2> QED BY <1>6, <2>1 DEF Same, Agrees, Known, Told
<1>8. "failed_7d" \in DOMAIN q.got => Same(q.got["failed_7d"], failed, h)
  <2>1. (h \in DOMAIN failed <=> runs[h] > 0) /\ (h \in DOMAIN failed => failed[h] = runs[h])
    BY DEF Failing
  <2> HIDE DEF failed
  <2> QED BY <1>6, <2>1 DEF Same, Agrees, Known, Told
<1>9. Needs(q.page) \subseteq DOMAIN q.got \union {"rows"}
  BY <1>1, <1>2 DEF RequestOK, Serving
<1>10. Current(t) = Shown(t, rows, [update_alerts |-> reported, ubuntu_releases |-> reported, failed_7d |-> failed])
  BY DEF Current
<1> HIDE DEF rows, reported, failed
<1>11. CASE q.page = "machines"
  <2>1. "ubuntu_releases" \in DOMAIN q.got
    BY <1>9, <1>11 DEF Needs
  <2>2. Same(q.got["ubuntu_releases"], reported, h)
    BY <1>7, <2>1 DEF Name
  <2> QED BY <1>4, <1>10, <1>11, <2>2, ListedIsLocal DEF Shown
<1>12. CASE q.page # "machines"
  <2>1. "update_alerts" \in DOMAIN q.got /\ "failed_7d" \in DOMAIN q.got
    BY <1>9, <1>12 DEF Needs
  <2>2. Same(q.got["update_alerts"], reported, h) /\ Same(q.got["failed_7d"], failed, h)
    BY <1>7, <1>8, <2>1 DEF Name
  <2> QED BY <1>4, <1>10, <1>12, <2>2, IssuesAreLocal DEF Shown
<1> QED BY <1>11, <1>12

(***************************************************************************)
(* Once nothing has changed about a machine for as long as an entry lives, *)
(* one request computes and another renders, every page says of it what    *)
(* the tables say: for any number of threads, whatever restarts, and       *)
(* however they interleave, unless the cut-off may have left one out.      *)
(***************************************************************************)
THEOREM PagesAreNotStale == Spec => StaleIsBounded
<1>1. Inv => \A t \in Thread :
         Sends(t) /\ req'[t] = Idle /\ Cardinality(MayHaveFailed) <= MAX_FAILED =>
           \A h \in Host : stood[h] = Stale =>
             About(h, Shown(t, req[t].rows, req[t].got)) = About(h, Current(t))
  BY PagesAreCurrent
<1> QED BY <1>1, KpiInvariant, PTL DEF StaleIsBounded
=============================================================================
