------------------------------- MODULE KpiCache -------------------------------
(***************************************************************************)
(* The dashboards (ring/views.py: index, machines, my_portal) and the      *)
(* cache of their expensive aggregates (ring/kpi_cache.py).  Each process  *)
(* of the web server has a cache of its own (Django's LocMemCache), shared *)
(* by its threads.  A thread looks an aggregate up, computes it from up to *)
(* two queries when it is missing, and stores it: machines, health reports *)
(* and ansible runs may change, and other threads look up, between any two *)
(* of these.                                                               *)
(*                                                                         *)
(* Time is a clock of ticks, modulo two hours: entries never live as long  *)
(* as an hour, so a bucket is empty when its turn comes again.             *)
(***************************************************************************)
EXTENDS Naturals, FiniteSets, Sequences

CONSTANTS
  Host,         \* hostnames, short and full: fqdn() makes them one to one
  Org,          \* participants
  Process,      \* processes of the web server
  Cron,         \* the process of ring_process_status
  Thread,       \* request threads
  ProcessOf,    \* Thread -> Process
  Report,       \* what the newest health report may say: [reboot, updates, release]
  MaxRuns,      \* bound: failed ansible runs of a host within seven days
  KPI_TTL,      \* lifetime of an entry, in ticks
  Hour,         \* ticks in a time bucket
  MaxRequest,   \* bound: ticks a request takes
  MAX_FAILED,   \* the cut-off of cached_failed_7d
  Deployments,  \* sequence: what a behaviour may find around it, see Site
  None

Row == [org: Org, active: BOOLEAN, dead: BOOLEAN]
Rows == UNION {[H -> Row] : H \in SUBSET Host}
Page == {"index", "machines", "my_portal"}
Opt(S) == S \union {None}

Name == {"update_alerts", "ubuntu_releases", "failed_7d"}
Aggregate(name) ==
  UNION {[H -> IF name = "failed_7d" THEN 1..MaxRuns ELSE Report] : H \in SUBSET Host}

ASSUME KpiAssumption ==
  /\ {MaxRuns, KPI_TTL, Hour, MaxRequest, MAX_FAILED} \subseteq Nat
  /\ 0 < KPI_TTL /\ KPI_TTL < Hour
  /\ IsFiniteSet(Host)
  /\ Cron \notin Process /\ ProcessOf \in [Thread -> Process]
  /\ \A r \in Report : r.reboot \in BOOLEAN /\ r.updates \in BOOLEAN
  /\ None \notin Report \union Org \union {r.release : r \in Report}
  /\ \A name \in Name : None \notin Aggregate(name)
  /\ \A i \in DOMAIN Deployments :
       LET d == Deployments[i] IN
       /\ d.machines \in Rows
       /\ d.threads \subseteq Thread /\ d.pages \subseteq Page
       /\ d.rows \subseteq Row /\ d.reports \subseteq Opt(Report) /\ d.runs \subseteq 0..MaxRuns
       /\ d.changing \subseteq Host
       /\ d.restarts \in BOOLEAN

VARIABLES
  machines,   \* Machine rows: host -> row
  reports,    \* newest HealthReport of the last seven days: host -> report
  runs,       \* failed AnsibleRuns of the last seven days: host -> how many
  cache,      \* process -> LocMemCache: version, and entries by key
  clock,
  req,        \* Thread -> the request it serves
  stood,      \* history: host -> ticks since anything changed about it
  deployment  \* which of Deployments; no step changes it

data == <<machines, reports, runs>>
vars == <<data, cache, clock, req, stood, deployment>>

(***************************************************************************)
(* The deployment a behaviour runs in: the machines at the start, the      *)
(* threads that serve and the pages they are asked for, the hosts about    *)
(* which something changes, the rows, newest reports and failed runs they  *)
(* come to have, and whether the server is restarted.                      *)
(***************************************************************************)
Site == Deployments[deployment]

NoEntries == [k \in {} |-> None]
Empty == [version |-> None, entries |-> NoEntries]

Releases == {r.release : r \in Report}
Idle == [page |-> None, org |-> None, ubuntu |-> None, age |-> 0, todo |-> << >>,
         key |-> None, names |-> {}, value |-> None, rows |-> << >>, got |-> << >>]

(* No page is stale for longer: a request computes, an entry lives, a      *)
(* request renders.                                                        *)
Stale == KPI_TTL + 2 * MaxRequest

Key == [name: Name, version: Nat, bucket: 0..1]

TypeOK ==
  /\ machines \in Rows
  /\ reports \in [Host -> Opt(Report)] /\ runs \in [Host -> 0..MaxRuns]
  /\ clock \in 0..(2 * Hour - 1)
  /\ \A p \in Process \union {Cron} :
       /\ cache[p].version \in Opt(Nat)
       /\ \A k \in DOMAIN cache[p].entries :
            /\ k \in Key
            /\ cache[p].entries[k].value \in Aggregate(k.name)
            /\ cache[p].entries[k].life \in 1..Hour
  /\ \A t \in Thread :
       /\ req[t].page \in Opt(Page) /\ req[t].org \in Opt(Org)
       /\ req[t].ubuntu \in Opt(Releases)
       /\ req[t].age \in 0..MaxRequest /\ req[t].names \subseteq Host
       /\ req[t].rows \in Rows
       /\ \A n \in DOMAIN req[t].got : req[t].got[n] \in Aggregate(n)
  /\ stood \in [Host -> 0..Stale]
  /\ deployment \in DOMAIN Deployments

Init ==
  /\ deployment \in DOMAIN Deployments
  /\ machines = Site.machines
  /\ reports = [h \in Host |-> None] /\ runs = [h \in Host |-> 0]
  /\ cache = [p \in Process \union {Cron} |-> Empty]
  /\ clock = 0
  /\ req = [t \in Thread |-> Idle]
  /\ stood = [h \in Host |-> 0]

-----------------------------------------------------------------------------
(* get_kpi_version: the version of the process, 1 before any is set.       *)
Version(p) == IF cache[p].version = None THEN 1 ELSE cache[p].version
Bucket == clock \div Hour
KpiKey(t, name) == [name |-> name, version |-> Version(ProcessOf[t]), bucket |-> Bucket]

Put(f, k, x) == [i \in DOMAIN f \union {k} |-> IF i = k THEN x ELSE f[i]]
(* The machines page filters by what it looked up first, and takes what it *)
(* looks up again for a menu.                                              *)
Got(f, name, value) == IF name \in DOMAIN f THEN f ELSE Put(f, name, value)

Failing == {h \in Host : runs[h] > 0}
(* What the queries find: cached_failed_7d takes the hosts that failed     *)
(* most often, of the whole ring, and no more than MAX_FAILED.             *)
MostFailing ==
  {top \in SUBSET Failing :
     /\ Cardinality(top) = IF Cardinality(Failing) > MAX_FAILED
                           THEN MAX_FAILED ELSE Cardinality(Failing)
     /\ \A h \in top, g \in Failing \ top : runs[h] >= runs[g]}
Reported(names) == [h \in {n \in names : reports[n] # None} |-> reports[h]]
Computed(name, names) ==
  IF name = "failed_7d" THEN {[h \in top |-> runs[h]] : top \in MostFailing}
  ELSE {Reported(names)}

(***************************************************************************)
(* A page: what it reads, in this order.  The queryset of the machines     *)
(* page is evaluated as the template renders.                              *)
(***************************************************************************)
Reads(page, ubuntu) ==
  CASE page = "index"     -> <<"ubuntu_releases", "rows", "update_alerts", "failed_7d">>
    [] page = "my_portal" -> <<"rows", "update_alerts", "failed_7d">>
    [] OTHER -> IF ubuntu = None THEN <<"ubuntu_releases", "rows">>
                ELSE <<"ubuntu_releases", "ubuntu_releases", "rows">>

(* Ring admins get what they ask for, a member (who has an org) the portal. *)
Ask(t, wanted, org, ubuntu) ==
  LET page == IF org = None THEN wanted ELSE "my_portal" IN
  /\ t \in Site.threads /\ page \in Site.pages
  /\ req[t] = Idle
  /\ req' = [req EXCEPT ![t] =
       [Idle EXCEPT !.page = page, !.org = org, !.todo = Reads(page, ubuntu),
                    !.ubuntu = IF page = "machines" THEN ubuntu ELSE None]]
  /\ UNCHANGED <<data, cache, clock, stood, deployment>>

(* An account without a participant has no machines on its portal.         *)
InScope(t, h) == req[t].page = "my_portal" => machines[h].org = req[t].org
Step(t) == Head(req[t].todo)

LoadRows(t) ==
  /\ req[t].todo # << >> /\ Step(t) = "rows"
  /\ req' = [req EXCEPT ![t].todo = Tail(@),
       ![t].rows = [h \in {g \in DOMAIN machines : InScope(t, g)} |-> machines[h]]]
  /\ UNCHANGED <<data, cache, clock, stood, deployment>>

(* The key is made before the lookup, and kept.  After a miss, the names   *)
(* of the machines are read.                                               *)
Lookup(t) ==
  LET p == ProcessOf[t]
      key == KpiKey(t, Step(t)) IN
  /\ req[t].todo # << >> /\ Step(t) \in Name /\ req[t].key = None
  /\ cache' = [cache EXCEPT ![p].version = Version(p)]
  /\ req' = [req EXCEPT ![t] =
       IF key \in DOMAIN cache[p].entries
       THEN [req[t] EXCEPT !.todo = Tail(@),
                           !.got = Got(@, key.name, cache[p].entries[key].value)]
       ELSE [req[t] EXCEPT !.key = key,
                           !.names = IF key.name = "failed_7d" THEN {} ELSE DOMAIN machines]]
  /\ UNCHANGED <<data, clock, stood, deployment>>

(* The reports, or the runs, are read.                                     *)
Compute(t) ==
  /\ req[t].key # None /\ req[t].value = None
  /\ \E value \in Computed(req[t].key.name, req[t].names) :
       req' = [req EXCEPT ![t].value = value, ![t].names = {}]
  /\ UNCHANGED <<data, cache, clock, stood, deployment>>

Keep(t, life) ==
  /\ req[t].value # None
  /\ cache' = [cache EXCEPT ![ProcessOf[t]].entries =
       Put(@, req[t].key, [value |-> req[t].value, life |-> life])]
  /\ req' = [req EXCEPT ![t] =
       [req[t] EXCEPT !.todo = Tail(@), !.key = None, !.value = None,
                      !.got = Got(@, Step(t), req[t].value)]]
  /\ UNCHANGED <<data, clock, stood, deployment>>

(* Mutant: the bucket alone ends an entry.                                 *)
StoreForTheHour(t) == Keep(t, Hour)
Store(t) == Keep(t, KPI_TTL)
(***************************************************************************)
(* _scoped_issues, as <<host, type>>: of the rows of the page, never of a  *)
(* host that only the cache knows.  The list of ansible failures has the   *)
(* cut-off of the whole ring.                                              *)
(***************************************************************************)
Marked(type, hosts) == {<<h, type>> : h \in hosts}

(* Mutant: alerts are not looked up among the rows of the page.            *)
IssuesOfAll(rows, alerts, failed) ==
  LET alerting == {h \in DOMAIN alerts : alerts[h].reboot \/ alerts[h].updates} IN
  Marked("connectivity", {h \in DOMAIN rows : rows[h].active /\ rows[h].dead})
    \union Marked("inactive", {h \in DOMAIN rows : ~rows[h].active})
    \union Marked("updates", alerting)
    \union Marked("reboot", {h \in alerting : alerts[h].reboot})
    \union Marked("ansible_failed", DOMAIN failed \intersect DOMAIN rows)

Issues(rows, alerts, failed) ==
  LET known == DOMAIN alerts \intersect DOMAIN rows
      alerting == {h \in known : alerts[h].reboot \/ alerts[h].updates} IN
  Marked("connectivity", {h \in DOMAIN rows : rows[h].active /\ rows[h].dead})
    \union Marked("inactive", {h \in DOMAIN rows : ~rows[h].active})
    \union Marked("updates", alerting)
    \union Marked("reboot", {h \in alerting : alerts[h].reboot})
    \union Marked("ansible_failed", DOMAIN failed \intersect DOMAIN rows)

(* The machines page: all of them, or those of the release asked for.      *)
Listed(rows, releases, ubuntu) ==
  {h \in DOMAIN rows :
     ubuntu = None \/ (h \in DOMAIN releases /\ releases[h].release = ubuntu)}

(* What request t shows, of such rows and such aggregates.                 *)
Shown(t, rows, got) ==
  IF req[t].page = "machines"
  THEN Marked("listed", Listed(rows, got.ubuntu_releases, req[t].ubuntu))
  ELSE Issues(rows, got.update_alerts, got.failed_7d)

Sends(t) == req[t].page # None /\ req[t].todo = << >>

Send(t) ==
  /\ Sends(t)
  /\ req' = [req EXCEPT ![t] = Idle]
  /\ UNCHANGED <<data, cache, clock, stood, deployment>>

-----------------------------------------------------------------------------
(***************************************************************************)
(* The end of ring_process_status: bump_kpi_version advances the version   *)
(* in the cache of the command's own process, which is new each time; no   *)
(* process of the web server sees it.                                      *)
(***************************************************************************)
ProcessStatus ==
  /\ Site.restarts
  /\ cache' = [cache EXCEPT ![Cron] = [Empty EXCEPT !.version = 2]]
  /\ UNCHANGED <<data, clock, req, stood, deployment>>

(* A process is restarted: its cache and the requests it served are lost.  *)
Restart(p) ==
  /\ Site.restarts
  /\ cache' = [cache EXCEPT ![p] = Empty]
  /\ req' = [t \in Thread |-> IF ProcessOf[t] = p THEN Idle ELSE req[t]]
  /\ UNCHANGED <<data, clock, stood, deployment>>

(* Mutant: an entry is there for a tick after its life.                    *)
AgedLate(entries) == [k \in DOMAIN entries |-> [entries[k] EXCEPT !.life = IF @ > 1 THEN @ - 1 ELSE 0]]
(* LocMemCache treats an entry past its timeout as missing.                *)
Aged(entries) ==
  [k \in {i \in DOMAIN entries : entries[i].life > 1} |->
     [entries[k] EXCEPT !.life = @ - 1]]

Tick ==
  /\ \A t \in Thread : req[t].age < MaxRequest
  /\ clock' = (clock + 1) % (2 * Hour)
  /\ cache' = [p \in DOMAIN cache |-> [cache[p] EXCEPT !.entries = Aged(@)]]
  /\ req' = [t \in Thread |->
       IF req[t] = Idle THEN Idle ELSE [req[t] EXCEPT !.age = @ + 1]]
  /\ stood' = [h \in Host |-> IF stood[h] = Stale THEN Stale ELSE stood[h] + 1]
  /\ UNCHANGED <<data, deployment>>

(***************************************************************************)
(* Status runs, the API and the purge change the row of a machine, create  *)
(* and delete it; nodes report; reports leave the window of seven days.    *)
(***************************************************************************)
MachineChanges(h) ==
  /\ Site.rows # {}
  /\ \/ \E row \in Site.rows : machines' = Put(machines, h, row)
     \/ machines' = [g \in DOMAIN machines \ {h} |-> machines[g]]
  /\ UNCHANGED <<reports, runs>>

HealthReported(h) ==
  /\ \E report \in Site.reports : reports' = [reports EXCEPT ![h] = report]
  /\ UNCHANGED <<machines, runs>>

AnsibleRan(h) ==
  /\ \E n \in Site.runs : runs' = [runs EXCEPT ![h] = n]
  /\ UNCHANGED <<machines, reports>>

DataChange(h) ==
  /\ h \in Site.changing
  /\ MachineChanges(h) \/ HealthReported(h) \/ AnsibleRan(h)
  /\ stood' = [stood EXCEPT ![h] = 0]
  /\ UNCHANGED <<cache, clock, req, deployment>>

-----------------------------------------------------------------------------
Serve(t) ==
  \/ \E wanted \in Page, org \in Opt(Org), ubuntu \in Opt(Releases) : Ask(t, wanted, org, ubuntu)
  \/ LoadRows(t) \/ Lookup(t) \/ Compute(t) \/ Store(t) \/ Send(t)

Next ==
  \/ \E t \in Thread : Serve(t)
  \/ \E p \in Process : Restart(p)
  \/ ProcessStatus
  \/ Tick
  \/ \E h \in Host : DataChange(h)

Spec == Init /\ [][Next]_vars

-----------------------------------------------------------------------------
Current(t) ==
  Shown(t, [h \in {g \in DOMAIN machines : InScope(t, g)} |-> machines[h]],
        [update_alerts |-> Reported(DOMAIN machines),
         ubuntu_releases |-> Reported(DOMAIN machines),
         failed_7d |-> [h \in Failing |-> runs[h]]])

About(h, shown) == {x \in shown : x[1] = h}

(***************************************************************************)
(* "a stale window is never served for more than the KPI_TTL duration"     *)
(* (kpi_cache.py:6): once nothing has changed about a machine for as long  *)
(* as an entry lives, one request computes and another renders, every page *)
(* that is sent says of it what the tables say.  Bumps and restarts, other *)
(* threads, and what they computed from older data and stored later, make  *)
(* no difference; and so do other machines, as long as no more of them     *)
(* may have failed than the cut-off lets through.                          *)
(***************************************************************************)
MayHaveFailed == {h \in Host : runs[h] > 0 \/ stood[h] < Stale}
StaleIsBounded ==
  [][\A t \in Thread :
       Sends(t) /\ req'[t] = Idle /\ Cardinality(MayHaveFailed) <= MAX_FAILED =>
         \A h \in Host : stood[h] = Stale =>
           About(h, Shown(t, req[t].rows, req[t].got)) = About(h, Current(t))]_vars

(***************************************************************************)
(* However old the aggregates are, a page shows no machine that was        *)
(* already deleted, or a member one that was already another's ("own       *)
(* company, account and nodes only", views.py:637), when it was asked for. *)
(***************************************************************************)
OnlyLiveMachines ==
  [][\A t \in Thread : Sends(t) /\ req'[t] = Idle =>
       \A x \in Shown(t, req[t].rows, req[t].got) :
         stood[x[1]] > req[t].age => x[1] \in DOMAIN machines /\ InScope(t, x[1])]_vars
=============================================================================
