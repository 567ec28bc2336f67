------------------------------ MODULE NodeStatus ------------------------------
(***************************************************************************)
(* Machine status (ring/services/nodestatus.py, ring_process_status,       *)
(* ring_purge_machines, the ingest and machine endpoints of                *)
(* ring/api/viewsets.py).  Nodes push ansible and health reports; every    *)
(* five minutes a status run reads the machines, then the reports of the   *)
(* last 24 hours, and then corrects the machines one UPDATE at a time.     *)
(* Runs may overlap, and reports, API edits and deletions commit between   *)
(* any two statements of a run.                                            *)
(*                                                                         *)
(* Time is abstract: a report leaves the 24 hour window at any moment      *)
(* (Expire), and the last_active of a machine grows older than the purge   *)
(* window at any moment (Age).                                             *)
(***************************************************************************)
EXTENDS Naturals, FiniteSets

CONSTANTS
  Host,            \* hostnames; numbers, because machines are read in order
  AdminOwned,      \* hosts whose owner is a ring admin
  Removable,       \* hosts without host keys and remarks
  Ageing,          \* hosts whose last_active may pass the purge window
  Family,          \* address families, 4 and 6
  RunKind,         \* ansible runs that are pushed: "ok", "failed", "null"
  HealthKind,      \* health reports that are pushed: "sound", "malformed"
  AdminPushes,     \* are reports pushed with a ring admin's token?
  Runner,          \* ring_process_status processes alive at once
  Deployments,     \* sequence: what a behaviour may find around it, see below
  MaxMissing,      \* the 10 of "More than 10 missing nodes"
  LegacyWritable,  \* the value of legacy_writable()
  None             \* SQL NULL, or nothing

ASSUME StatusAssumption ==
  /\ Host \subseteq Nat /\ IsFiniteSet(Host) /\ Family \subseteq Nat
  /\ AdminOwned \subseteq Host /\ Removable \subseteq Host /\ Ageing \subseteq Host
  /\ RunKind \subseteq {"ok", "failed", "null"}
  /\ HealthKind \subseteq {"sound", "malformed"}
  /\ MaxMissing \in Nat
  /\ AdminPushes \in BOOLEAN /\ LegacyWritable \in BOOLEAN
  /\ \A i \in DOMAIN Deployments : /\ Deployments[i].editing \in BOOLEAN
                                   /\ Deployments[i].runners \subseteq Runner
                                   /\ Deployments[i].registered \subseteq Host
  /\ None \notin BOOLEAN /\ None \notin Runner

VARIABLES
  machines,  \* Machine rows: host -> row
  gone,      \* hosts whose row was deleted; none of them registers again
  runs,      \* AnsibleRun in the window: host -> kinds
  health,    \* newest HealthReport in the window: host -> family -> kind, "none"
  run,       \* status runs in progress: runner -> what it holds
  edit,      \* a PATCH in progress: the row it loaded, or None
  purge,     \* the machines ring_purge_machines loaded and is to delete
  calm,      \* history: the last runner to begin, if nothing disturbed it since
  deployment \* which of Deployments; no step changes it

vars == <<machines, gone, runs, health, run, edit, purge, calm, deployment>>

(* Are machines created and edited through the API?  Which runners run?    *)
(* Which hosts have a machine row at the start?                            *)
Editing == Deployments[deployment].editing
OnCron(w) == w \in Deployments[deployment].runners
Registered == Deployments[deployment].registered

Flag == BOOLEAN \union {None}
Row == [active: Flag, alive: [Family -> Flag], last: {"never", "recent", "old"}]
Rows == UNION {[H -> Row] : H \in SUBSET Host}

(***************************************************************************)
(* What a status run decides, and the order in which _apply_changes writes *)
(* it: activations, deactivations, alive by family, dead by family.        *)
(***************************************************************************)
Kind == {"activate", "deactivate", "alive", "dead"}
Rank == [activate |-> 1, deactivate |-> 2, alive |-> 3, dead |-> 4]
Update == [kind: Kind, family: Family \union {0}, host: Host]

Before(u, v) ==
  \/ Rank[u.kind] < Rank[v.kind]
  \/ Rank[u.kind] = Rank[v.kind] /\ u.family < v.family
  \/ Rank[u.kind] = Rank[v.kind] /\ u.family = v.family /\ u.host < v.host

Stage == {"idle", "runs", "health", "apply"}
Run == [at: Stage, rows: Rows, todo: SUBSET Update]
NotRunning == [at |-> "idle", rows |-> << >>, todo |-> {}]

TypeOK ==
  /\ machines \in Rows
  /\ gone \subseteq Host
  /\ runs \in [Host -> SUBSET RunKind]
  /\ health \in [Host -> [Family -> HealthKind \union {"none"}]]
  /\ run \in [Runner -> Run]
  /\ edit = None \/ edit \in [host: Host, row: Row]
  /\ purge \subseteq Host
  /\ deployment \in DOMAIN Deployments
  /\ calm \in Runner \union {None}

NewRow(active) == [active |-> active, alive |-> [f \in Family |-> None], last |-> "never"]

Init ==
  /\ deployment \in DOMAIN Deployments
  /\ machines \in [Registered -> {NewRow(a) : a \in {TRUE, None}}]
  /\ gone = {}
  /\ runs = [h \in Host |-> {}]
  /\ health = [h \in Host |-> [f \in Family |-> "none"]]
  /\ run = [w \in Runner |-> NotRunning]
  /\ edit = None
  /\ purge = {}
  /\ calm = None

-----------------------------------------------------------------------------
(***************************************************************************)
(* The loop of process().  "seen" is a run in the window; a machine that   *)
(* only failed counts as seen, and is neither activated nor deactivated.   *)
(***************************************************************************)
Seen(h) == runs[h] # {}
Failed(h) == "failed" \in runs[h]
Status(k, h) == [kind |-> k, family |-> 0, host |-> h]

(* Mutant: a machine whose flag is NULL is overlooked.                     *)
ToActivateFalse(rows) ==
  {h \in DOMAIN rows \ AdminOwned : rows[h].active = FALSE /\ Seen(h) /\ ~Failed(h)}
ToActivate(rows) ==
  {h \in DOMAIN rows \ AdminOwned : rows[h].active # TRUE /\ Seen(h) /\ ~Failed(h)}
ToDeactivate(rows) ==
  {h \in DOMAIN rows \ AdminOwned : rows[h].active = TRUE /\ ~Seen(h)}
ToRevive(rows, f) == {h \in DOMAIN rows : health[h][f] # "none" /\ rows[h].alive[f] # TRUE}
ToBury(rows, f) == {h \in DOMAIN rows : health[h][f] = "none" /\ rows[h].alive[f] # FALSE}

(* Mutant: off by one.                                                     *)
GuardedAt(hosts) == IF Cardinality(hosts) >= MaxMissing THEN {} ELSE hosts
(* More than MaxMissing at once look like an outage of the ring itself.    *)
Guarded(hosts) == IF Cardinality(hosts) > MaxMissing THEN {} ELSE hosts

(* Mutant: activations are held back as well.                              *)
AllGuardedUpdates(rows) ==
  {Status("activate", h) : h \in Guarded(ToActivate(rows))}
    \union {Status("deactivate", h) : h \in Guarded(ToDeactivate(rows))}

ActiveUpdates(rows) ==
  {Status("activate", h) : h \in ToActivate(rows)}
    \union {Status("deactivate", h) : h \in Guarded(ToDeactivate(rows))}

AliveUpdates(rows) ==
  UNION {{[kind |-> "alive", family |-> f, host |-> h] : h \in ToRevive(rows, f)}
           \union {[kind |-> "dead", family |-> f, host |-> h] : h \in Guarded(ToBury(rows, f))}
         : f \in Family}

(* None > 0 is a TypeError, and the info of a malformed summary has no get. *)
RunsAreUnreadable(rows) == \E h \in DOMAIN rows : "null" \in runs[h]
HealthIsUnreadable(rows) ==
  \E h \in DOMAIN rows, f \in Family : health[h][f] = "malformed"

Disturbed == calm' = None

ReadMachines(w) ==
  /\ LegacyWritable /\ OnCron(w)
  /\ run[w].at = "idle"
  /\ run' = [run EXCEPT ![w] = [at |-> "runs", rows |-> machines, todo |-> {}]]
  /\ calm' = IF \A v \in Runner : run[v].at = "idle" THEN w ELSE None
  /\ UNCHANGED <<machines, gone, runs, health, edit, purge, deployment>>

ReadRuns(w) ==
  /\ run[w].at = "runs"
  /\ \/ /\ RunsAreUnreadable(run[w].rows)
        /\ run' = [run EXCEPT ![w] = NotRunning]
        /\ Disturbed
     \/ /\ ~RunsAreUnreadable(run[w].rows)
        /\ run' = [run EXCEPT ![w].at = "health", ![w].todo = ActiveUpdates(run[w].rows)]
        /\ UNCHANGED calm
  /\ UNCHANGED <<machines, gone, runs, health, edit, purge, deployment>>

ReadHealth(w) ==
  /\ run[w].at = "health"
  /\ \/ /\ HealthIsUnreadable(run[w].rows)
        /\ run' = [run EXCEPT ![w] = NotRunning]
        /\ Disturbed
     \/ /\ ~HealthIsUnreadable(run[w].rows)
        /\ run' = [run EXCEPT ![w] = [at |-> "apply", rows |-> << >>,
                     todo |-> @.todo \union AliveUpdates(@.rows)]]
        /\ UNCHANGED calm
  /\ UNCHANGED <<machines, gone, runs, health, edit, purge, deployment>>

(* Mutant: last_active is written as NULL.                                 *)
UpdatedUntimed(row, u) ==
  CASE u.kind = "activate"   -> [row EXCEPT !.active = TRUE, !.last = None]
    [] u.kind = "deactivate" -> [row EXCEPT !.active = FALSE, !.last = None]
    [] u.kind = "alive"      -> [row EXCEPT !.alive[u.family] = TRUE]
    [] u.kind = "dead"       -> [row EXCEPT !.alive[u.family] = FALSE]

(* Mutant: a dead family is written as NULL, the other way to say "off".   *)
UpdatedToNull(row, u) ==
  CASE u.kind = "activate"   -> [row EXCEPT !.active = TRUE, !.last = "recent"]
    [] u.kind = "deactivate" -> [row EXCEPT !.active = FALSE, !.last = "recent"]
    [] u.kind = "alive"      -> [row EXCEPT !.alive[u.family] = TRUE]
    [] u.kind = "dead"       -> [row EXCEPT !.alive[u.family] = None]

(* _set_active writes last_active with either flag.                        *)
Updated(row, u) ==
  CASE u.kind = "activate"   -> [row EXCEPT !.active = TRUE, !.last = "recent"]
    [] u.kind = "deactivate" -> [row EXCEPT !.active = FALSE, !.last = "recent"]
    [] u.kind = "alive"      -> [row EXCEPT !.alive[u.family] = TRUE]
    [] u.kind = "dead"       -> [row EXCEPT !.alive[u.family] = FALSE]

(* One UPDATE by hostname; it matches nothing when the machine is gone.    *)
Apply(w) ==
  /\ run[w].at = "apply"
  /\ \/ \E u \in run[w].todo :
          /\ \A v \in run[w].todo \ {u} : Before(u, v)
          /\ machines' = [h \in DOMAIN machines |->
                            IF h = u.host THEN Updated(machines[h], u) ELSE machines[h]]
          /\ run' = [run EXCEPT ![w].todo = @ \ {u}]
          /\ calm' = IF calm = w THEN w ELSE None
     \/ /\ run[w].todo = {}
        /\ run' = [run EXCEPT ![w] = NotRunning]
        /\ UNCHANGED <<machines, calm>>
  /\ UNCHANGED <<gone, runs, health, edit, purge, deployment>>

-----------------------------------------------------------------------------
(***************************************************************************)
(* POST to the ingest endpoints: an admin may report on any host, others   *)
(* only on active machines of their own.                                   *)
(***************************************************************************)
MayPush(h) ==
  /\ LegacyWritable
  /\ AdminPushes \/ (h \in DOMAIN machines /\ machines[h].active = TRUE)

IngestRun(h, kind) ==
  /\ MayPush(h)
  /\ runs' = [runs EXCEPT ![h] = @ \union {kind}]
  /\ Disturbed
  /\ UNCHANGED <<machines, gone, health, run, edit, purge, deployment>>

IngestHealth(h, f, kind) ==
  /\ MayPush(h)
  /\ health' = [health EXCEPT ![h][f] = kind]
  /\ Disturbed
  /\ UNCHANGED <<machines, gone, runs, run, edit, purge, deployment>>

(* timestamp >= now - 1 day no longer holds of a report.                   *)
Expire(h) ==
  /\ \/ /\ \E k \in runs[h] : runs' = [runs EXCEPT ![h] = @ \ {k}]
        /\ UNCHANGED health
     \/ /\ \E f \in Family : /\ health[h][f] # "none"
                             /\ health' = [health EXCEPT ![h][f] = "none"]
        /\ UNCHANGED runs
  /\ Disturbed
  /\ UNCHANGED <<machines, gone, run, edit, purge, deployment>>

(***************************************************************************)
(* PATCH /api/machines/<pk>/: the row is loaded, and serializer.save()     *)
(* writes every column of it back; only active is a status column that the *)
(* request may set.  POST creates a machine, DELETE removes one that       *)
(* nothing refers to.                                                      *)
(***************************************************************************)
OpenEdit(h) ==
  /\ Editing /\ LegacyWritable
  /\ edit = None
  /\ h \in DOMAIN machines
  /\ edit' = [host |-> h, row |-> machines[h]]
  /\ UNCHANGED <<machines, gone, runs, health, run, purge, calm, deployment>>

SaveEdit(active) ==
  /\ edit # None
  /\ machines' = [h \in DOMAIN machines \union {edit.host} |->
                    IF h = edit.host THEN [edit.row EXCEPT !.active = active] ELSE machines[h]]
  /\ edit' = None
  /\ Disturbed
  /\ UNCHANGED <<gone, runs, health, run, purge, deployment>>

CreateMachine(h, active) ==
  /\ Editing /\ LegacyWritable
  /\ h \notin DOMAIN machines \union gone
  /\ machines' = [g \in DOMAIN machines \union {h} |->
                    IF g = h THEN NewRow(active) ELSE machines[g]]
  /\ Disturbed
  /\ UNCHANGED <<gone, runs, health, run, edit, purge, deployment>>

DestroyMachine(h) ==
  /\ LegacyWritable
  /\ h \in DOMAIN machines \intersect Removable
  /\ machines' = [g \in DOMAIN machines \ {h} |-> machines[g]]
  /\ gone' = gone \union {h}
  /\ Disturbed
  /\ UNCHANGED <<runs, health, run, edit, purge, deployment>>

-----------------------------------------------------------------------------
(***************************************************************************)
(* ring_purge_machines: the machines it loads, and the first it is to      *)
(* delete.  generate_removemail comes before the deletion and looks for    *)
(* the machine in a module, ring/services/mail.py, that does not import    *)
(* Machine: the NameError ends the command.                                *)
(***************************************************************************)
Age(h) ==
  /\ h \in DOMAIN machines \intersect Ageing
  /\ machines[h].last = "recent"
  /\ machines' = [machines EXCEPT ![h].last = "old"]
  /\ UNCHANGED <<gone, runs, health, run, edit, purge, calm, deployment>>

PastWindow(h) ==
  /\ h \in DOMAIN machines \ AdminOwned
  /\ machines[h].active = FALSE
  /\ machines[h].last = "old"

OpenPurge ==
  /\ LegacyWritable
  /\ purge = {}
  /\ purge' = {h \in Host : PastWindow(h)}
  /\ UNCHANGED <<machines, gone, runs, health, run, edit, calm, deployment>>

PurgeMachine ==
  /\ purge # {}
  /\ purge' = {}
  /\ UNCHANGED <<machines, gone, runs, health, run, edit, calm, deployment>>

-----------------------------------------------------------------------------
Process(w) == ReadMachines(w) \/ ReadRuns(w) \/ ReadHealth(w) \/ Apply(w)

Report(h) ==
  \/ \E kind \in RunKind : IngestRun(h, kind)
  \/ \E f \in Family, kind \in HealthKind : IngestHealth(h, f, kind)
  \/ Expire(h)

Manage ==
  \/ \E h \in Host : OpenEdit(h) \/ DestroyMachine(h) \/ Age(h)
  \/ \E h \in Host, active \in Flag : CreateMachine(h, active)
  \/ \E active \in Flag : SaveEdit(active)

Next ==
  \/ \E w \in Runner : Process(w)
  \/ \E h \in Host : Report(h)
  \/ Manage
  \/ OpenPurge \/ PurgeMachine

Spec == Init /\ [][Next]_vars

(* cron starts both commands again and again, and they run on.             *)
Fairness ==
  /\ \A w \in Runner : WF_vars(Process(w))
  /\ WF_vars(OpenPurge) /\ WF_vars(PurgeMachine)

FairSpec == Spec /\ Fairness

-----------------------------------------------------------------------------
(***************************************************************************)
(* A status run that nothing disturbed leaves nothing to correct: a second *)
(* run would find no update to make, beyond what the outage guards hold    *)
(* back.                                                                   *)
(***************************************************************************)
UndisturbedRunSettles ==
  calm # None /\ run[calm].at = "idle" =>
    ActiveUpdates(machines) \union AliveUpdates(machines) = {}

(***************************************************************************)
(* A machine that keeps reporting good ansible runs is active again and    *)
(* again, whatever overlapping runs and stale API edits do to it.          *)
(***************************************************************************)
Active(h) == h \in DOMAIN machines /\ machines[h].active = TRUE
ReportsWell(h) == h \in DOMAIN machines \ AdminOwned /\ runs[h] = {"ok"}
ReportingIsActivated ==
  \A h \in Host : <>[]ReportsWell(h) => []<>Active(h)

(***************************************************************************)
(* Without API edits it then stays active: what an overlapping run read    *)
(* long ago is applied at most once more.                                  *)
(***************************************************************************)
ReportingStaysActive ==
  ~Editing => \A h \in Host : <>[]ReportsWell(h) => <>[]Active(h)

(***************************************************************************)
(* A machine that stops reporting is deactivated, as long as so few are    *)
(* missing that the ring itself is not in doubt.                           *)
(***************************************************************************)
Missing(h) ==
  /\ h \in DOMAIN machines \ AdminOwned
  /\ ~Seen(h)
  /\ Cardinality({g \in DOMAIN machines \ AdminOwned : ~Seen(g)}) <= MaxMissing
MissingIsDeactivated ==
  \A h \in Host : <>[]Missing(h) => []<>~Active(h)
=============================================================================
