------------------------------ MODULE MCKpiCache ------------------------------
(***************************************************************************)
(* Instances of KpiCache for TLC: one process of the web server with two   *)
(* threads.  A tick is the life of an entry and the length of a request.   *)
(***************************************************************************)
EXTENDS KpiCache

CONSTANTS w, h1, h2, o1, o2, jammy, noble

MCProcessOf == [t \in Thread |-> w]
Says(reboot, updates, release) == [reboot |-> reboot, updates |-> updates, release |-> release]
Clean == Says(FALSE, FALSE, jammy)
Behind == Says(FALSE, TRUE, jammy)
Upgraded == Says(TRUE, FALSE, noble)
MCReport == {Clean, Behind, Upgraded}

Well(org) == [org |-> org, active |-> TRUE, dead |-> FALSE]
Dead(org) == [Well(org) EXCEPT !.dead = TRUE]
Inactive(org) == [Well(org) EXCEPT !.active = FALSE]
Both == [h \in {h1, h2} |-> IF h = h1 THEN Well(o1) ELSE Well(o2)]

Place(threads, pages, changing, rows, news, failures, restarts) ==
  [machines |-> Both, threads |-> threads, pages |-> pages, changing |-> changing,
   rows |-> rows, reports |-> news, runs |-> failures, restarts |-> restarts]

(***************************************************************************)
(* Two threads, and reports about one host; a thread that serves members   *)
(* and admins while a machine changes hands and state; failed runs of two  *)
(* hosts; the machines page, for a release; a server that is restarted.    *)
(***************************************************************************)
Single == {CHOOSE t \in Thread : TRUE}
Places ==
  <<Place(Thread, {"my_portal"}, {h1}, {}, {None, Behind}, {}, FALSE),
    Place(Single, {"my_portal", "index"}, {h1}, {Well(o2), Dead(o1), Inactive(o1)}, {None, Behind}, {}, FALSE),
    Place(Single, {"my_portal"}, {h1, h2}, {}, {}, 0..MaxRuns, FALSE),
    Place(Single, {"machines"}, {h1}, {Well(o1)}, {None, Behind, Upgraded}, {}, FALSE),
    Place(Single, {"my_portal"}, {h1}, {}, {None, Behind}, {}, TRUE)>>
MCDeployments == <<Places[1], Places[2], Places[3], Places[4], Places[5]>>
=============================================================================
