--------------------------- MODULE NodeStatusProofs ---------------------------
(***************************************************************************)
(* Proofs about NodeStatus, for any number of hosts, address families and  *)
(* status runs at once, and any threshold of the outage guard.             *)
(*                                                                         *)
(* UndisturbedRunSettles speaks of the end of a run only.  The inductive   *)
(* invariant says of each of its statements what it has still to do: a run *)
(* that nothing disturbed has read what the machines still are, and has    *)
(* exactly those updates left that a run beginning now would decide on.    *)
(* It rests on two facts about the updates: none of them makes another     *)
(* one necessary or unnecessary, and the guards stay open as the hosts     *)
(* they count become fewer.                                                *)
(***************************************************************************)
EXTENDS NodeStatus, FiniteSetTheorems, TLAPS

(* What a status run would decide on, if it read these machines now.       *)
Updates(rows) == ActiveUpdates(rows) \union AliveUpdates(rows)

(* Rows that a status run cannot tell apart: last_active is not read.      *)
SameStatus(rows, others) ==
  /\ DOMAIN rows = DOMAIN others
  /\ \A h \in DOMAIN rows : rows[h].active = others[h].active /\ rows[h].alive = others[h].alive

(* How far the run that nothing disturbed has got.                         *)
CalmRun ==
  calm # None =>
    /\ \A v \in Runner \ {calm} : run[v].at = "idle"
    /\ run[calm].at \in {"runs", "health"} => SameStatus(run[calm].rows, machines)
    /\ run[calm].at = "health" => run[calm].todo = ActiveUpdates(machines)
    /\ run[calm].at = "apply" => run[calm].todo = Updates(machines)
    /\ run[calm].at = "idle" => Updates(machines) = {}

Inv == TypeOK /\ CalmRun

-----------------------------------------------------------------------------
(* A table of machines has hosts for keys and rows for values.             *)
LEMMA RowsElim ==
  ASSUME NEW t \in Rows
  PROVE  DOMAIN t \subseteq Host /\ \A h \in DOMAIN t : t[h] \in Row
BY DEF Rows

(* And whatever has, is one.                                               *)
LEMMA RowsIntro ==
  ASSUME NEW D \in SUBSET Host, NEW t \in [D -> Row]
  PROVE  t \in Rows
BY DEF Rows

(* No machines at all are a table, and a run that is over is a run.        *)
LEMMA NotRunningIsRun == NotRunning \in Run /\ NotRunning.at = "idle"
<1>1. << >> \in [{} -> Row]
  OBVIOUS
<1>2. << >> \in Rows
  BY <1>1, RowsIntro
<1> QED BY <1>2 DEF NotRunning, Run, Stage

(* What a run decides are updates.                                         *)
LEMMA UpdatesAreUpdates ==
  ASSUME NEW t \in Rows
  PROVE  ActiveUpdates(t) \subseteq Update /\ AliveUpdates(t) \subseteq Update
<1>1. DOMAIN t \subseteq Host
  BY RowsElim
<1>2. \A S \in SUBSET Host : Guarded(S) \subseteq Host
  BY DEF Guarded
<1>3. ToActivate(t) \subseteq Host /\ Guarded(ToDeactivate(t)) \subseteq Host
  <2>1. ToActivate(t) \subseteq Host /\ ToDeactivate(t) \subseteq Host
    BY <1>1 DEF ToActivate, ToDeactivate
  <2> QED BY <1>2, <2>1
<1>4. \A f \in Family : ToRevive(t, f) \subseteq Host /\ Guarded(ToBury(t, f)) \subseteq Host
  <2>1. \A f \in Family : ToRevive(t, f) \subseteq Host /\ ToBury(t, f) \subseteq Host
    BY <1>1 DEF ToRevive, ToBury
  <2> QED BY <1>2, <2>1
<1>5. ActiveUpdates(t) \subseteq Update
  BY <1>3 DEF ActiveUpdates, Status, Update, Kind
<1>6. AliveUpdates(t) \subseteq Update
  BY <1>4 DEF AliveUpdates, Update, Kind
<1> QED BY <1>5, <1>6

(* One update by hostname keeps the table a table.                         *)
LEMMA UpdatedIsRow ==
  ASSUME NEW row \in Row, NEW u \in Update
  PROVE  Updated(row, u) \in Row
<1>1. CASE u.kind = "activate"
  BY <1>1 DEF Updated, Row, Flag
<1>2. CASE u.kind = "deactivate"
  BY <1>2 DEF Updated, Row, Flag
<1>3. CASE u.kind = "alive"
  <2>1. [row.alive EXCEPT ![u.family] = TRUE] \in [Family -> Flag]
    BY DEF Row, Flag
  <2> QED BY <1>3, <2>1 DEF Updated, Row
<1>4. CASE u.kind = "dead"
  <2>1. [row.alive EXCEPT ![u.family] = FALSE] \in [Family -> Flag]
    BY DEF Row, Flag
  <2> QED BY <1>4, <2>1 DEF Updated, Row
<1> QED BY <1>1, <1>2, <1>3, <1>4 DEF Update, Kind

-----------------------------------------------------------------------------
(* Of the updates of a kind and family, the hosts they are for.            *)
Change(kind, f, h) == [kind |-> kind, family |-> f, host |-> h]

(* The four parts of what a run decides.                                   *)
LEMMA UpdateParts ==
  ASSUME NEW t, NEW u
  PROVE  u \in Updates(t) <=>
           \/ \E h \in ToActivate(t) : u = Change("activate", 0, h)
           \/ \E h \in Guarded(ToDeactivate(t)) : u = Change("deactivate", 0, h)
           \/ \E f \in Family : \E h \in ToRevive(t, f) : u = Change("alive", f, h)
           \/ \E f \in Family : \E h \in Guarded(ToBury(t, f)) : u = Change("dead", f, h)
<1>1. u \in ActiveUpdates(t) <=>
        \/ \E h \in ToActivate(t) : u = Change("activate", 0, h)
        \/ \E h \in Guarded(ToDeactivate(t)) : u = Change("deactivate", 0, h)
  BY DEF ActiveUpdates, Status, Change
<1>2. u \in AliveUpdates(t) <=>
        \/ \E f \in Family : \E h \in ToRevive(t, f) : u = Change("alive", f, h)
        \/ \E f \in Family : \E h \in Guarded(ToBury(t, f)) : u = Change("dead", f, h)
  BY DEF AliveUpdates, Change
<1> QED BY <1>1, <1>2 DEF Updates

(* Rows that a run cannot tell apart lead it to the same updates.          *)
LEMMA SameUpdates ==
  ASSUME NEW s, NEW t, SameStatus(s, t)
  PROVE  ActiveUpdates(s) = ActiveUpdates(t) /\ AliveUpdates(s) = AliveUpdates(t)
<1>1. ToActivate(s) = ToActivate(t) /\ ToDeactivate(s) = ToDeactivate(t)
  BY DEF SameStatus, ToActivate, ToDeactivate
<1>2. \A f : ToRevive(s, f) = ToRevive(t, f) /\ ToBury(s, f) = ToBury(t, f)
  BY DEF SameStatus, ToRevive, ToBury
<1>3. ActiveUpdates(s) = ActiveUpdates(t)
  BY <1>1 DEF ActiveUpdates
<1>4. AliveUpdates(s) = AliveUpdates(t)
  BY <1>2 DEF AliveUpdates
<1> QED BY <1>3, <1>4

(***************************************************************************)
(* A guard that let a host through lets the others through without it.     *)
(***************************************************************************)
LEMMA GuardStaysOpen ==
  ASSUME NEW S \in SUBSET Host, NEW h \in Guarded(S)
  PROVE  Guarded(S) = S /\ Guarded(S \ {h}) = S \ {h}
<1>1. Guarded(S) = S /\ ~(Cardinality(S) > MaxMissing)
  BY DEF Guarded
<1>2. IsFiniteSet(S) /\ h \in S
  BY <1>1, StatusAssumption, FS_Subset
<1>3. Cardinality(S \ {h}) = Cardinality(S) - 1 /\ Cardinality(S) \in Nat
  BY <1>2, FS_RemoveElement, FS_CardinalityType
<1> QED BY <1>1, <1>3, StatusAssumption DEF Guarded

(* One UPDATE by hostname.                                                 *)
After(t, u) == [h \in DOMAIN t |-> IF h = u.host THEN Updated(t[h], u) ELSE t[h]]

(* After an activation there is only that one update less.                 *)
LEMMA AfterActivate ==
  ASSUME NEW t \in Rows, NEW h \in ToActivate(t)
  PROVE  LET u == Change("activate", 0, h) IN
         Updates(After(t, u)) = Updates(t) \ {u}
<1> DEFINE u == Change("activate", 0, h)
           s == After(t, u)
<1>1. h \in DOMAIN t /\ t[h].active # TRUE /\ Seen(h) /\ t[h] \in Row
  BY RowsElim DEF ToActivate
<1>2. /\ DOMAIN s = DOMAIN t /\ s[h].active = TRUE /\ s[h].alive = t[h].alive
      /\ \A g \in DOMAIN t \ {h} : s[g] = t[g]
  BY <1>1 DEF After, Updated, Change, Row
<1> HIDE DEF s
<1>3. ToActivate(s) = ToActivate(t) \ {h} /\ ToDeactivate(s) = ToDeactivate(t)
  BY <1>1, <1>2 DEF ToActivate, ToDeactivate
<1>4. \A f \in Family : ToRevive(s, f) = ToRevive(t, f) /\ ToBury(s, f) = ToBury(t, f)
  BY <1>1, <1>2 DEF ToRevive, ToBury
<1>5. \A v : v \in Updates(s) <=> v \in Updates(t) /\ v # u
  BY <1>1, <1>3, <1>4, UpdateParts DEF Change
<1> QED BY <1>5 DEF s

(* Nor after a deactivation, which takes a host from those the guard counts.*)
LEMMA AfterDeactivate ==
  ASSUME NEW t \in Rows, NEW h \in Guarded(ToDeactivate(t))
  PROVE  LET u == Change("deactivate", 0, h) IN
         Updates(After(t, u)) = Updates(t) \ {u}
<1> DEFINE u == Change("deactivate", 0, h)
           s == After(t, u)
<1>1. h \in ToDeactivate(t) /\ ToDeactivate(t) \subseteq Host
  BY RowsElim DEF Guarded, ToDeactivate
<1>2. h \in DOMAIN t /\ t[h].active = TRUE /\ ~Seen(h) /\ t[h] \in Row
  BY <1>1, RowsElim DEF ToDeactivate
<1>3. /\ DOMAIN s = DOMAIN t /\ s[h].active = FALSE /\ s[h].alive = t[h].alive
      /\ \A g \in DOMAIN t \ {h} : s[g] = t[g]
  BY <1>2 DEF After, Updated, Change, Row
<1> HIDE DEF s
<1>4. ToActivate(s) = ToActivate(t) /\ ToDeactivate(s) = ToDeactivate(t) \ {h}
  BY <1>2, <1>3 DEF ToActivate, ToDeactivate
<1>5. Guarded(ToDeactivate(s)) = Guarded(ToDeactivate(t)) \ {h}
  BY <1>1, <1>4, GuardStaysOpen
<1>6. \A f \in Family : ToRevive(s, f) = ToRevive(t, f) /\ ToBury(s, f) = ToBury(t, f)
  BY <1>2, <1>3 DEF ToRevive, ToBury
<1>7. ASSUME NEW v
      PROVE  v \in Updates(s) <=> v \in Updates(t) /\ v # u
  <2>1. (\E g \in Guarded(ToDeactivate(s)) : v = Change("deactivate", 0, g))
          <=> (\E g \in Guarded(ToDeactivate(t)) : v = Change("deactivate", 0, g)) /\ v # u
    BY <1>5 DEF Change
  <2>2. (\E g \in ToActivate(t) : v = Change("activate", 0, g)) => v # u
    BY DEF Change
  <2>3. /\ (\E e \in Family : \E g \in ToRevive(t, e) : v = Change("alive", e, g)) => v # u
        /\ (\E e \in Family : \E g \in Guarded(ToBury(t, e)) : v = Change("dead", e, g)) => v # u
    BY DEF Change
  <2>4. /\ (\E e \in Family : \E g \in ToRevive(s, e) : v = Change("alive", e, g))
             <=> (\E e \in Family : \E g \in ToRevive(t, e) : v = Change("alive", e, g))
        /\ (\E e \in Family : \E g \in Guarded(ToBury(s, e)) : v = Change("dead", e, g))
             <=> (\E e \in Family : \E g \in Guarded(ToBury(t, e)) : v = Change("dead", e, g))
    BY <1>6
  <2>5. (\E g \in ToActivate(s) : v = Change("activate", 0, g))
          <=> (\E g \in ToActivate(t) : v = Change("activate", 0, g))
    BY <1>4
  <2> HIDE DEF u
  <2> QED BY <2>1, <2>2, <2>3, <2>4, <2>5, UpdateParts
<1> QED BY <1>7 DEF s

(* Nor after a family came alive.                                          *)
LEMMA AfterAlive ==
  ASSUME NEW t \in Rows, NEW f \in Family, NEW h \in ToRevive(t, f)
  PROVE  LET u == Change("alive", f, h) IN
         Updates(After(t, u)) = Updates(t) \ {u}
<1> DEFINE u == Change("alive", f, h)
           s == After(t, u)
<1>1. h \in DOMAIN t /\ t[h].alive[f] # TRUE /\ health[h][f] # "none" /\ t[h] \in Row
  BY RowsElim DEF ToRevive
<1>2. /\ DOMAIN s = DOMAIN t /\ s[h].active = t[h].active
      /\ s[h].alive[f] = TRUE /\ \A e \in Family \ {f} : s[h].alive[e] = t[h].alive[e]
      /\ \A g \in DOMAIN t \ {h} : s[g] = t[g]
  BY <1>1 DEF After, Updated, Change, Row
<1> HIDE DEF s
<1>3. ToActivate(s) = ToActivate(t) /\ ToDeactivate(s) = ToDeactivate(t)
  BY <1>1, <1>2 DEF ToActivate, ToDeactivate
<1>4. /\ ToRevive(s, f) = ToRevive(t, f) \ {h} /\ ToBury(s, f) = ToBury(t, f)
      /\ \A e \in Family \ {f} : ToRevive(s, e) = ToRevive(t, e) /\ ToBury(s, e) = ToBury(t, e)
  BY <1>1, <1>2 DEF ToRevive, ToBury
<1>5. \A v : v \in Updates(s) <=> v \in Updates(t) /\ v # u
  BY <1>3, <1>4, UpdateParts DEF Change
<1> QED BY <1>5 DEF s

(* Nor after one was declared dead.                                        *)
LEMMA AfterDead ==
  ASSUME NEW t \in Rows, NEW f \in Family, NEW h \in Guarded(ToBury(t, f))
  PROVE  LET u == Change("dead", f, h) IN
         Updates(After(t, u)) = Updates(t) \ {u}
<1> DEFINE u == Change("dead", f, h)
           s == After(t, u)
<1>1. h \in ToBury(t, f) /\ ToBury(t, f) \subseteq Host
  BY RowsElim DEF Guarded, ToBury
<1>2. h \in DOMAIN t /\ t[h].alive[f] # FALSE /\ health[h][f] = "none" /\ t[h] \in Row
  BY <1>1, RowsElim DEF ToBury
<1>3. /\ DOMAIN s = DOMAIN t /\ s[h].active = t[h].active
      /\ s[h].alive[f] = FALSE /\ \A e \in Family \ {f} : s[h].alive[e] = t[h].alive[e]
      /\ \A g \in DOMAIN t \ {h} : s[g] = t[g]
  BY <1>2 DEF After, Updated, Change, Row
<1> HIDE DEF s
<1>4. ToActivate(s) = ToActivate(t) /\ ToDeactivate(s) = ToDeactivate(t)
  BY <1>2, <1>3 DEF ToActivate, ToDeactivate
<1>5. /\ ToRevive(s, f) = ToRevive(t, f) /\ ToBury(s, f) = ToBury(t, f) \ {h}
      /\ \A e \in Family \ {f} : ToRevive(s, e) = ToRevive(t, e) /\ ToBury(s, e) = ToBury(t, e)
  <2>1. ToRevive(s, f) = ToRevive(t, f)
    BY <1>2, <1>3 DEF ToRevive
  <2>2. ToBury(s, f) = ToBury(t, f) \ {h}
    BY <1>2, <1>3 DEF ToBury
  <2>3. ASSUME NEW e \in Family \ {f}
        PROVE  ToRevive(s, e) = ToRevive(t, e) /\ ToBury(s, e) = ToBury(t, e)
    <3>1. \A g \in DOMAIN t : s[g].alive[e] = t[g].alive[e]
      BY <1>3
    <3> QED BY <1>3, <3>1 DEF ToRevive, ToBury
  <2> QED BY <2>1, <2>2, <2>3
<1>6. Guarded(ToBury(s, f)) = Guarded(ToBury(t, f)) \ {h}
  BY <1>1, <1>5, GuardStaysOpen
<1>7. ASSUME NEW v
      PROVE  v \in Updates(s) <=> v \in Updates(t) /\ v # u
  <2>1. (\E e \in Family : \E g \in Guarded(ToBury(s, e)) : v = Change("dead", e, g))
          <=> (\E e \in Family : \E g \in Guarded(ToBury(t, e)) : v = Change("dead", e, g)) /\ v # u
    BY <1>5, <1>6 DEF Change
  <2>2. (\/ \E g \in ToActivate(t) : v = Change("activate", 0, g)
         \/ \E g \in Guarded(ToDeactivate(t)) : v = Change("deactivate", 0, g)
         \/ \E e \in Family : \E g \in ToRevive(t, e) : v = Change("alive", e, g)) => v # u
    BY DEF Change
  <2>3. \A e \in Family : ToRevive(s, e) = ToRevive(t, e)
    BY <1>5
  <2> HIDE DEF u
  <2> QED BY <1>4, <2>1, <2>2, <2>3, UpdateParts
<1> QED BY <1>7 DEF s

(***************************************************************************)
(* An update that is due, once made, is not due any more, and no other is  *)
(* due that was not, or was due and is not.                                *)
(***************************************************************************)
LEMMA OneUpdateLess ==
  ASSUME NEW t \in Rows, NEW u \in Updates(t)
  PROVE  Updates(After(t, u)) = Updates(t) \ {u}
<1>1. ASSUME NEW h \in ToActivate(t), u = Change("activate", 0, h)
      PROVE  Updates(After(t, u)) = Updates(t) \ {u}
  BY <1>1, AfterActivate
<1>2. ASSUME NEW h \in Guarded(ToDeactivate(t)), u = Change("deactivate", 0, h)
      PROVE  Updates(After(t, u)) = Updates(t) \ {u}
  BY <1>2, AfterDeactivate
<1>3. ASSUME NEW f \in Family, NEW h \in ToRevive(t, f), u = Change("alive", f, h)
      PROVE  Updates(After(t, u)) = Updates(t) \ {u}
  BY <1>3, AfterAlive
<1>4. ASSUME NEW f \in Family, NEW h \in Guarded(ToBury(t, f)), u = Change("dead", f, h)
      PROVE  Updates(After(t, u)) = Updates(t) \ {u}
  BY <1>4, AfterDead
<1> QED BY <1>1, <1>2, <1>3, <1>4, UpdateParts

-----------------------------------------------------------------------------
(* What is due depends on the machines, and on the reports in the window.  *)
LEMMA SameReports ==
  ASSUME UNCHANGED <<runs, health>>
  PROVE  /\ ActiveUpdates(machines)' = ActiveUpdates(machines')
         /\ Updates(machines)' = Updates(machines')
<1>1. /\ ToActivate(machines)' = ToActivate(machines')
      /\ ToDeactivate(machines)' = ToDeactivate(machines')
  BY DEF ToActivate, ToDeactivate, Seen, Failed
<1>2. \A f : /\ ToRevive(machines, f)' = ToRevive(machines', f)
             /\ ToBury(machines, f)' = ToBury(machines', f)
  BY DEF ToRevive, ToBury
<1>3. ActiveUpdates(machines)' = ActiveUpdates(machines')
  BY <1>1 DEF ActiveUpdates
<1>4. AliveUpdates(machines)' = AliveUpdates(machines')
  BY <1>2 DEF AliveUpdates
<1> QED BY <1>3, <1>4 DEF Updates

(* None is no runner.  While nothing has disturbed it, a run is alone.     *)
LEMMA CalmIsAlone ==
  ASSUME Inv, NEW w \in Runner, run[w].at # "idle", calm # None
  PROVE  calm = w
BY DEF Inv, CalmRun

(* A run begins: it has read the machines, and has decided nothing yet.    *)
LEMMA ReadMachinesKeepsInv ==
  ASSUME Inv, NEW w \in Runner, ReadMachines(w)
  PROVE  Inv'
<1> DEFINE r == [at |-> "runs", rows |-> machines, todo |-> {}]
<1>1. /\ run \in [Runner -> Run] /\ run' = [run EXCEPT ![w] = r]
      /\ calm' = IF \A v \in Runner : run[v].at = "idle" THEN w ELSE None
      /\ UNCHANGED <<machines, gone, runs, health, edit, purge, deployment>>
  BY DEF Inv, TypeOK, ReadMachines
<1>2. r \in Run /\ r.at = "runs" /\ r.rows = machines
  BY DEF Inv, TypeOK, Run, Stage
<1> HIDE DEF r
<1>3. /\ run' \in [Runner -> Run] /\ run'[w] = r
      /\ \A v \in Runner \ {w} : run'[v] = run[v]
  BY <1>1, <1>2
<1>4. TypeOK'
  BY <1>1, <1>3 DEF Inv, TypeOK
<1>5. CalmRun'
  BY <1>1, <1>2, <1>3 DEF CalmRun, SameStatus
<1> QED BY <1>4, <1>5 DEF Inv

(* A run that ends early was disturbed.                                    *)
LEMMA AbortKeepsInv ==
  ASSUME Inv, NEW w \in Runner, run' = [run EXCEPT ![w] = NotRunning], Disturbed,
         UNCHANGED <<machines, gone, runs, health, edit, purge, deployment>>
  PROVE  Inv'
<1>1. TypeOK'
  BY NotRunningIsRun DEF Inv, TypeOK, Disturbed
<1> QED BY <1>1 DEF Inv, CalmRun, Disturbed

(* The runs that are read are those of now, and the machines still are.    *)
LEMMA ReadRunsKeepsInv ==
  ASSUME Inv, NEW w \in Runner, ReadRuns(w)
  PROVE  Inv'
<1>1. CASE run' = [run EXCEPT ![w] = NotRunning] /\ Disturbed
  BY <1>1, AbortKeepsInv DEF ReadRuns
<1>2. CASE /\ run' = [run EXCEPT ![w].at = "health", ![w].todo = ActiveUpdates(run[w].rows)]
           /\ UNCHANGED calm
  <2> DEFINE todo == ActiveUpdates(run[w].rows)
             r == [run[w] EXCEPT !.at = "health", !.todo = todo]
  <2>1. /\ run \in [Runner -> Run] /\ run[w] \in Run /\ run[w].rows \in Rows
        /\ run[w].at = "runs"
        /\ UNCHANGED <<machines, gone, runs, health, edit, purge, deployment>>
    BY DEF Inv, TypeOK, Run, ReadRuns
  <2>2. todo \in SUBSET Update
    BY <2>1, UpdatesAreUpdates
  <2> HIDE DEF todo
  <2>3. r \in Run /\ r.at = "health" /\ r.rows = run[w].rows /\ r.todo = todo
    BY <2>1, <2>2 DEF Run, Stage
  <2>4. run' = [run EXCEPT ![w] = r]
    BY <1>2, <2>1 DEF todo
  <2> HIDE DEF r
  <2>5. /\ run' \in [Runner -> Run] /\ run'[w] = r
        /\ \A v \in Runner \ {w} : run'[v] = run[v]
    BY <2>1, <2>3, <2>4
  <2>6. TypeOK'
    BY <1>2, <2>1, <2>5 DEF Inv, TypeOK
  <2>7. CalmRun'
    <3> SUFFICES ASSUME calm # None PROVE CalmRun'
      BY <1>2 DEF CalmRun
    <3>1. calm = w /\ SameStatus(run[w].rows, machines)
      BY <2>1, CalmIsAlone DEF Inv, CalmRun
    <3>2. todo = ActiveUpdates(machines) /\ ActiveUpdates(machines)' = ActiveUpdates(machines)
      BY <2>1, <3>1, SameUpdates, SameReports DEF todo
    <3> QED BY <1>2, <2>1, <2>3, <2>5, <3>1, <3>2 DEF Inv, CalmRun
  <2> QED BY <2>6, <2>7 DEF Inv
<1> QED BY <1>1, <1>2 DEF ReadRuns

(* So are the health reports.                                              *)
LEMMA ReadHealthKeepsInv ==
  ASSUME Inv, NEW w \in Runner, ReadHealth(w)
  PROVE  Inv'
<1>1. CASE run' = [run EXCEPT ![w] = NotRunning] /\ Disturbed
  BY <1>1, AbortKeepsInv DEF ReadHealth
<1>2. CASE /\ run' = [run EXCEPT ![w] = [at |-> "apply", rows |-> << >>,
                        todo |-> @.todo \union AliveUpdates(@.rows)]]
           /\ UNCHANGED calm
  <2> DEFINE todo == run[w].todo \union AliveUpdates(run[w].rows)
             r == [at |-> "apply", rows |-> << >>, todo |-> todo]
  <2>1. /\ run \in [Runner -> Run] /\ run[w].rows \in Rows
        /\ run[w].todo \subseteq Update /\ run[w].at = "health"
        /\ UNCHANGED <<machines, gone, runs, health, edit, purge, deployment>>
    BY DEF Inv, TypeOK, Run, ReadHealth
  <2>2. todo \in SUBSET Update
    BY <2>1, UpdatesAreUpdates
  <2>3. run' = [run EXCEPT ![w] = r]
    BY <1>2, <2>1
  <2> HIDE DEF todo
  <2>4. r \in Run /\ r.at = "apply" /\ r.todo = todo
    BY <2>2, NotRunningIsRun DEF Run, Stage, NotRunning
  <2> HIDE DEF r
  <2>5. /\ run' \in [Runner -> Run] /\ run'[w] = r
        /\ \A v \in Runner \ {w} : run'[v] = run[v]
    BY <2>1, <2>3, <2>4
  <2>6. TypeOK'
    BY <1>2, <2>1, <2>5 DEF Inv, TypeOK
  <2>7. CalmRun'
    <3> SUFFICES ASSUME calm # None PROVE CalmRun'
      BY <1>2 DEF CalmRun
    <3>1. /\ calm = w /\ SameStatus(run[w].rows, machines)
          /\ run[w].todo = ActiveUpdates(machines)
      BY <2>1, CalmIsAlone DEF Inv, CalmRun
    <3>2. todo = Updates(machines) /\ Updates(machines)' = Updates(machines)
      <4>1. todo = Updates(machines)
        BY <3>1, SameUpdates DEF todo, Updates
      <4>2. Updates(machines)' = Updates(machines)
        BY <2>1, SameReports
      <4> QED BY <4>1, <4>2
    <3> QED BY <1>2, <2>1, <2>4, <2>5, <3>1, <3>2 DEF Inv, CalmRun
  <2> QED BY <2>6, <2>7 DEF Inv
<1> QED BY <1>1, <1>2 DEF ReadHealth

(* Every UPDATE takes its own off the list of what is still due.           *)
LEMMA ApplyKeepsInv ==
  ASSUME Inv, NEW w \in Runner, Apply(w)
  PROVE  Inv'
<1>1. /\ run \in [Runner -> Run] /\ run[w] \in Run /\ run[w].todo \subseteq Update
      /\ machines \in Rows /\ run[w].at = "apply"
      /\ UNCHANGED <<gone, runs, health, edit, purge, deployment>>
  BY DEF Inv, TypeOK, Run, Apply
<1>3. ASSUME NEW u \in run[w].todo,
             machines' = [h \in DOMAIN machines |->
                            IF h = u.host THEN Updated(machines[h], u) ELSE machines[h]],
             run' = [run EXCEPT ![w].todo = @ \ {u}],
             calm' = IF calm = w THEN w ELSE None
      PROVE  Inv'
  <2> DEFINE r == [run[w] EXCEPT !.todo = @ \ {u}]
  <2>1. r \in Run /\ r.at = "apply" /\ r.todo = run[w].todo \ {u}
    BY <1>1 DEF Run
  <2>2. run' = [run EXCEPT ![w] = r]
    BY <1>1, <1>3
  <2> HIDE DEF r
  <2>3. /\ run' \in [Runner -> Run] /\ run'[w] = r
        /\ \A v \in Runner \ {w} : run'[v] = run[v]
    BY <1>1, <2>1, <2>2
  <2>4. machines' \in Rows
    <3>1. machines' \in [DOMAIN machines -> Row] /\ DOMAIN machines \subseteq Host
      BY <1>1, <1>3, RowsElim, UpdatedIsRow
    <3> QED BY <3>1, RowsIntro
  <2>5. TypeOK'
    BY <1>1, <1>3, <2>3, <2>4 DEF Inv, TypeOK
  <2>6. CalmRun'
    <3> SUFFICES ASSUME calm = w, w # None PROVE CalmRun'
      BY <1>3 DEF CalmRun
    <3>1. run[w].todo = Updates(machines) /\ \A v \in Runner \ {w} : run[v].at = "idle"
      BY <1>1 DEF Inv, CalmRun
    <3>2. Updates(After(machines, u)) = Updates(machines) \ {u}
      BY <1>1, <3>1, OneUpdateLess
    <3>3. Updates(machines)' = Updates(machines) \ {u}
      BY <1>1, <1>3, <3>2, SameReports DEF After
    <3> QED BY <1>3, <2>1, <2>3, <3>1, <3>3 DEF CalmRun
  <2> QED BY <2>5, <2>6 DEF Inv
<1>4. CASE /\ run[w].todo = {} /\ run' = [run EXCEPT ![w] = NotRunning]
           /\ UNCHANGED <<machines, calm>>
  <2>1. /\ run' \in [Runner -> Run] /\ run'[w].at = "idle"
        /\ \A v \in Runner \ {w} : run'[v] = run[v]
    BY <1>1, <1>4, NotRunningIsRun
  <2>2. TypeOK'
    BY <1>1, <1>4, <2>1 DEF Inv, TypeOK
  <2>3. CalmRun'
    <3> SUFFICES ASSUME calm # None PROVE CalmRun'
      BY <1>4 DEF CalmRun
    <3>1. calm = w /\ Updates(machines) = {}
      BY <1>1, <1>4, CalmIsAlone DEF Inv, CalmRun
    <3>2. Updates(machines)' = Updates(machines)
      BY <1>1, <1>4, SameReports
    <3> QED BY <1>4, <2>1, <3>1, <3>2 DEF Inv, CalmRun
  <2> QED BY <2>2, <2>3 DEF Inv
<1> QED BY <1>3, <1>4 DEF Apply

-----------------------------------------------------------------------------
(* A report that arrives, or leaves the window, disturbs whatever runs.    *)
LEMMA ReportKeepsInv ==
  ASSUME Inv, NEW h \in Host, Report(h)
  PROVE  Inv'
<1>1. /\ runs \in [Host -> SUBSET RunKind]
      /\ health \in [Host -> [Family -> HealthKind \union {"none"}]]
  BY DEF Inv, TypeOK
<1>2. ASSUME NEW kind \in RunKind, IngestRun(h, kind)
      PROVE  TypeOK' /\ Disturbed
  BY <1>1, <1>2 DEF IngestRun, Inv, TypeOK, Disturbed
<1>3. ASSUME NEW f \in Family, NEW kind \in HealthKind, IngestHealth(h, f, kind)
      PROVE  TypeOK' /\ Disturbed
  <2>1. [health[h] EXCEPT ![f] = kind] \in [Family -> HealthKind \union {"none"}]
    BY <1>1
  <2>2. health' \in [Host -> [Family -> HealthKind \union {"none"}]]
    BY <1>1, <1>3, <2>1 DEF IngestHealth
  <2> QED BY <1>3, <2>2 DEF IngestHealth, Inv, TypeOK, Disturbed
<1>4. CASE Expire(h)
  <2>1. ASSUME NEW f \in Family
        PROVE  [health EXCEPT ![h][f] = "none"] \in [Host -> [Family -> HealthKind \union {"none"}]]
    <3>1. [health[h] EXCEPT ![f] = "none"] \in [Family -> HealthKind \union {"none"}]
      BY <1>1
    <3> QED BY <1>1, <3>1
  <2>2. runs' \in [Host -> SUBSET RunKind]
    BY <1>1, <1>4 DEF Expire
  <2>3. health' \in [Host -> [Family -> HealthKind \union {"none"}]]
    <3>1. UNCHANGED health \/ \E f \in Family : health' = [health EXCEPT ![h][f] = "none"]
      BY <1>4 DEF Expire
    <3>2. CASE UNCHANGED health
      BY <1>1, <3>2
    <3>3. ASSUME NEW f \in Family, health' = [health EXCEPT ![h][f] = "none"]
          PROVE  health' \in [Host -> [Family -> HealthKind \union {"none"}]]
      BY <2>1, <3>3
    <3> QED BY <3>1, <3>2, <3>3
  <2>4. UNCHANGED <<machines, gone, run, edit, purge, deployment>> /\ Disturbed
    BY <1>4 DEF Expire
  <2> QED BY <2>2, <2>3, <2>4 DEF Inv, TypeOK, CalmRun, Disturbed
<1> QED BY <1>2, <1>3, <1>4 DEF Report, Inv, CalmRun, Disturbed

(* What is written through the API disturbs a run as well.                 *)
LEMMA EditKeepsInv ==
  ASSUME Inv, \/ \E active \in Flag : SaveEdit(active)
              \/ \E h \in Host, active \in Flag : CreateMachine(h, active)
              \/ \E h \in Host : DestroyMachine(h)
  PROVE  Inv'
<1>1. machines \in Rows /\ DOMAIN machines \subseteq Host /\ \A h \in DOMAIN machines : machines[h] \in Row
  BY RowsElim DEF Inv, TypeOK
<1>2. ASSUME NEW active \in Flag, SaveEdit(active)
      PROVE  TypeOK' /\ Disturbed
  <2>1. edit.host \in Host /\ [edit.row EXCEPT !.active = active] \in Row
    BY <1>2 DEF Inv, TypeOK, SaveEdit, Row
  <2>2. machines' \in [DOMAIN machines \union {edit.host} -> Row]
    BY <1>1, <1>2, <2>1 DEF SaveEdit
  <2>3. machines' \in Rows
    BY <1>1, <2>1, <2>2, RowsIntro
  <2> QED BY <1>2, <2>3 DEF SaveEdit, Inv, TypeOK, Disturbed
<1>3. ASSUME NEW h \in Host, NEW active \in Flag, CreateMachine(h, active)
      PROVE  TypeOK' /\ Disturbed
  <2>1. NewRow(active) \in Row
    BY DEF NewRow, Row, Flag
  <2>2. machines' \in [DOMAIN machines \union {h} -> Row]
    BY <1>1, <1>3, <2>1 DEF CreateMachine
  <2>3. machines' \in Rows
    BY <1>1, <2>2, RowsIntro
  <2> QED BY <1>3, <2>3 DEF CreateMachine, Inv, TypeOK, Disturbed
<1>4. ASSUME NEW h \in Host, DestroyMachine(h)
      PROVE  TypeOK' /\ Disturbed
  <2>1. machines' \in [DOMAIN machines \ {h} -> Row]
    BY <1>1, <1>4 DEF DestroyMachine
  <2>2. machines' \in Rows
    BY <1>1, <2>1, RowsIntro
  <2> QED BY <1>4, <2>2 DEF DestroyMachine, Inv, TypeOK, Disturbed
<1> QED BY <1>2, <1>3, <1>4 DEF Inv, CalmRun, Disturbed

(* A machine grows older, which no status run sees.                        *)
LEMMA AgeKeepsInv ==
  ASSUME Inv, NEW h \in Host, Age(h)
  PROVE  Inv'
<1>1. /\ machines \in Rows /\ h \in DOMAIN machines
      /\ machines' = [machines EXCEPT ![h].last = "old"]
      /\ UNCHANGED <<gone, runs, health, run, edit, purge, calm, deployment>>
  BY DEF Inv, TypeOK, Age
<1>2. DOMAIN machines \subseteq Host /\ \A g \in DOMAIN machines : machines[g] \in Row
  BY <1>1, RowsElim
<1>3. /\ machines' \in [DOMAIN machines -> Row]
      /\ SameStatus(machines', machines)
  <2>1. machines = [g \in DOMAIN machines |-> machines[g]]
    BY <1>1 DEF Rows
  <2>2. [machines[h] EXCEPT !.last = "old"] \in Row
        /\ [machines[h] EXCEPT !.last = "old"].active = machines[h].active
        /\ [machines[h] EXCEPT !.last = "old"].alive = machines[h].alive
    BY <1>1, <1>2 DEF Row
  <2> QED BY <1>1, <1>2, <2>1, <2>2 DEF SameStatus
<1>4. TypeOK'
  <2>1. machines' \in Rows
    BY <1>2, <1>3, RowsIntro
  <2> QED BY <1>1, <2>1 DEF Inv, TypeOK
<1>5. ActiveUpdates(machines)' = ActiveUpdates(machines) /\ Updates(machines)' = Updates(machines)
  BY <1>1, <1>3, SameUpdates, SameReports DEF Updates
<1>6. \A rows : SameStatus(rows, machines) => SameStatus(rows, machines')
  BY <1>3 DEF SameStatus
<1>7. CalmRun'
  <2> SUFFICES ASSUME calm # None PROVE CalmRun'
    BY <1>1 DEF CalmRun
  <2>1. run[calm].at \in {"runs", "health"} => SameStatus(run[calm].rows, machines')
    BY <1>6 DEF Inv, CalmRun
  <2>2. SameStatus(run[calm].rows, machines)' <=> SameStatus(run[calm].rows, machines')
    BY <1>1 DEF SameStatus
  <2> HIDE DEF SameStatus
  <2> QED BY <1>1, <1>5, <2>1, <2>2 DEF Inv, CalmRun
<1> QED BY <1>4, <1>7 DEF Inv

(* Opening an edit, and what the purge gets done, touch no machine.        *)
LEMMA OthersKeepInv ==
  ASSUME Inv, \/ \E h \in Host : OpenEdit(h)
              \/ OpenPurge \/ PurgeMachine \/ UNCHANGED vars
  PROVE  Inv'
<1>1. UNCHANGED <<machines, gone, runs, health, run, calm, deployment>>
  BY DEF OpenEdit, OpenPurge, PurgeMachine, vars
<1>2. TypeOK'
  <2>1. edit' = None \/ edit' \in [host: Host, row: Row]
    BY RowsElim DEF Inv, TypeOK, OpenEdit, OpenPurge, PurgeMachine, vars
  <2>2. purge' \subseteq Host
    BY DEF Inv, TypeOK, OpenEdit, OpenPurge, PurgeMachine, vars
  <2> QED BY <1>1, <2>1, <2>2 DEF Inv, TypeOK
<1>3. ActiveUpdates(machines)' = ActiveUpdates(machines) /\ Updates(machines)' = Updates(machines)
  BY <1>1, SameReports
<1>4. CalmRun'
  BY <1>1, <1>3 DEF Inv, CalmRun, SameStatus
<1> QED BY <1>2, <1>4 DEF Inv

-----------------------------------------------------------------------------
(* At first nothing is in progress.                                        *)
LEMMA InitEstablishesInv == Init => Inv
<1> SUFFICES ASSUME Init PROVE Inv
  OBVIOUS
<1>1. /\ gone = {} /\ edit = None /\ purge = {} /\ calm = None /\ deployment \in DOMAIN Deployments
      /\ runs = [h \in Host |-> {}] /\ health = [h \in Host |-> [f \in Family |-> "none"]]
      /\ run = [w \in Runner |-> NotRunning]
  BY DEF Init
<1>2. machines \in Rows
  <2>1. Registered \in SUBSET Host
    BY <1>1, StatusAssumption DEF Registered
  <2>2. \A a \in {TRUE, None} : NewRow(a) \in Row
    BY DEF NewRow, Row, Flag
  <2>3. machines \in [Registered -> Row]
    BY <2>2 DEF Init
  <2> QED BY <2>1, <2>3, RowsIntro
<1>3. TypeOK
  BY <1>1, <1>2, NotRunningIsRun DEF TypeOK
<1> QED BY <1>1, <1>3 DEF Inv, CalmRun

(* Every step of a run, every report and every edit keeps the invariant.   *)
LEMMA NextKeepsInv == Inv /\ [Next]_vars => Inv'
<1> SUFFICES ASSUME Inv, [Next]_vars PROVE Inv'
  OBVIOUS
<1>1. ASSUME NEW w \in Runner, Process(w) PROVE Inv'
  BY <1>1, ReadMachinesKeepsInv, ReadRunsKeepsInv, ReadHealthKeepsInv, ApplyKeepsInv DEF Process
<1>2. ASSUME NEW h \in Host, Report(h) PROVE Inv'
  BY <1>2, ReportKeepsInv
<1>3. CASE Manage
  BY <1>3, EditKeepsInv, AgeKeepsInv, OthersKeepInv DEF Manage
<1>4. CASE OpenPurge \/ PurgeMachine \/ UNCHANGED vars
  BY <1>4, OthersKeepInv
<1> QED BY <1>1, <1>2, <1>3, <1>4 DEF Next

(* A run that nothing disturbed has, at every statement, exactly those     *)
(* updates left that a run beginning now would decide on.                  *)
THEOREM StatusInvariant == Spec => []Inv
BY InitEstablishesInv, NextKeepsInv, PTL DEF Spec

(* The state is always well typed.                                         *)
THEOREM TypeCorrect == Spec => []TypeOK
<1>1. Inv => TypeOK
  BY DEF Inv
<1> QED BY <1>1, StatusInvariant, PTL

(***************************************************************************)
(* A status run that nothing disturbed leaves nothing to correct, however  *)
(* many machines there are and wherever the outage guard is set.           *)
(***************************************************************************)
THEOREM RunsSettle == Spec => []UndisturbedRunSettles
<1>1. Inv => UndisturbedRunSettles
  BY DEF Inv, CalmRun, Updates, UndisturbedRunSettles
<1> QED BY <1>1, StatusInvariant, PTL
=============================================================================
