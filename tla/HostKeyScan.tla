----------------------------- MODULE HostKeyScan -----------------------------
(***************************************************************************)
(* ring_scan_hostkeys beside the REST API.  The command takes the active   *)
(* machines one by one, asks each for its host keys over IPv4 and IPv6,    *)
(* and corrects the stored keys, one statement at a time and outside any   *)
(* transaction.  All it does for a machine follows from the keys it loaded *)
(* and the lines the machine answered.                                     *)
(***************************************************************************)
EXTENDS Inventory, SequencesExt

CONSTANTS
  Scanner,  \* ring_scan_hostkeys processes alive at once
  Answer    \* output that machines answer with: the keys in it, in order

Types(keys) == {k.type : k \in keys}
LinesOf(type, answer) == {n \in DOMAIN answer : answer[n].type = type}

(* An answer has at most one key of a type for each address family.        *)
ASSUME ScanAssumption ==
  /\ Answer \subseteq Seq(Key) /\ None \notin Answer
  /\ \A a \in Answer, type \in Types(Key) : Cardinality(LinesOf(type, a)) <= 2
  /\ None \notin Scanner
  /\ \A i \in DOMAIN Deployments : Deployments[i].scanners \subseteq Scanner

VARIABLES
  scan,  \* Scanner -> the machines ahead, and the one it is at
  calm   \* history: the last to scan a machine, if nothing else wrote since

vars == <<inventoryVars, scan, calm>>

(* A statement, and the line of the answer it is about.                    *)
Change == [op: {"save", "delete", "create"}, id: Opt(Id), key: Opt(Key), at: Nat]
Scan == [todo: SUBSET Id, machine: Opt(Id), answer: Opt(Answer), changes: SUBSET Change]
NotScanning == [todo |-> {}, machine |-> None, answer |-> None, changes |-> {}]

TypeOK ==
  /\ InventoryTypeOK
  /\ calm \in Opt(Scanner)
  /\ scan \in [Scanner -> Scan]

Init ==
  /\ InventoryInit
  /\ scan = [s \in Scanner |-> NotScanning]
  /\ calm = None

-----------------------------------------------------------------------------
Of(kind, m) == {i \in DOMAIN rows : rows[i].kind = kind /\ rows[i].parent = m}

(* What key i is as the command comes to line n.                           *)
Before(i, n, answer) ==
  LET earlier == {l \in LinesOf(rows[i].key.type, answer) : l < n}
  IN IF earlier = {} THEN rows[i].key ELSE answer[Max(earlier)]

(* An old key is saved at each line of its type that differs from it.      *)
Replacements(i, answer) ==
  {[op |-> "save", id |-> i, key |-> answer[n], at |-> n] :
     n \in {l \in LinesOf(rows[i].key.type, answer) : answer[l] # Before(i, l, answer)}}

(* Mutant: a key that is no longer shown stays.                            *)
ChangesToKeyKept(i, answer) == Replacements(i, answer)
ChangesToKey(i, answer) ==
  IF LinesOf(rows[i].key.type, answer) = {}
  THEN {[op |-> "delete", id |-> i, key |-> None, at |-> 0]}
  ELSE Replacements(i, answer)

Adds(n, answer) == [op |-> "create", id |-> None, key |-> answer[n], at |-> n]
(* Mutant: what was already stored is added as well.                       *)
AdditionsOfAll(m, answer) == {Adds(n, answer) : n \in DOMAIN answer}
(* A type that no old key has: every line of it is added.                  *)
Additions(m, answer) ==
  {Adds(n, answer) :
     n \in {l \in DOMAIN answer : answer[l].type \notin Types({rows[i].key : i \in Of("hostkey", m)})}}

(* SSHHostKey.objects.filter(machine=machine): the old keys, by id, and    *)
(* then the new ones; of each, the lines in order.                         *)
Changes(m, answer) ==
  (UNION {ChangesToKey(i, answer) : i \in Of("hostkey", m)}) \union Additions(m, answer)
Precedes(c, d) ==
  IF c.op = "create" \/ d.op = "create"
  THEN IF c.op = d.op THEN c.at < d.at ELSE d.op = "create"
  ELSE c.id < d.id \/ (c.id = d.id /\ c.at < d.at)

-----------------------------------------------------------------------------
Working(s) == scan[s].changes # {}

(* The active machines, as the command starts.                             *)
ListMachines(s, active) ==
  /\ s \in Site.scanners /\ LegacyWritable
  /\ scan[s].todo = {} /\ ~Working(s)
  /\ active # {}
  /\ \A m \in active : m \in DOMAIN rows /\ rows[m].kind = "machine"
  /\ scan' = [scan EXCEPT ![s] = [NotScanning EXCEPT !.todo = active]]
  /\ calm' = IF calm = s THEN None ELSE calm
  /\ UNCHANGED inventoryVars

(* A machine without any output (None) keeps its keys; one whose output    *)
(* has no key in it loses them.  A machine that was deleted meanwhile ends *)
(* the command: CommandError.                                              *)
ScanOne(s, answer) ==
  /\ scan[s].todo # {} /\ ~Working(s)
  /\ LET m == CHOOSE i \in scan[s].todo : \A j \in scan[s].todo : i <= j IN
     \/ /\ m \in DOMAIN rows
        /\ scan' = [scan EXCEPT ![s] =
             [todo |-> @.todo \ {m}, machine |-> m, answer |-> answer,
              changes |-> IF answer = None THEN {} ELSE Changes(m, answer)]]
        /\ calm' = IF \A t \in Scanner \ {s} : ~Working(t) THEN s ELSE None
     \/ /\ m \notin DOMAIN rows
        /\ scan' = [scan EXCEPT ![s] = NotScanning]
        /\ calm' = IF calm = s THEN None ELSE calm
  /\ UNCHANGED inventoryVars

(***************************************************************************)
(* One statement.  save() writes every column of the loaded key, and       *)
(* inserts it again when it is gone; without its machine the foreign key   *)
(* ends the command: IntegrityError.                                       *)
(***************************************************************************)
KeyRow(m, key) == [kind |-> "hostkey", parent |-> m, admin |-> FALSE, key |-> key]
Stored(s, c) == KeyRow(scan[s].machine, c.key)

DeleteKey(s, c) ==
  /\ c.op = "delete"
  /\ rows' = Without(rows, c.id)
  /\ UNCHANGED lastId

StoreKey(s, c) ==
  /\ c.op # "delete" /\ Resolves(Stored(s, c), rows)
  /\ c.op = "create" => MayInsert
  /\ lastId' = IF c.op = "create" THEN lastId + 1 ELSE lastId
  /\ rows' = Put(rows, IF c.op = "create" THEN lastId' ELSE c.id, Stored(s, c))

ChangeKey(s, c) ==
  \/ /\ DeleteKey(s, c) \/ StoreKey(s, c)
     /\ scan' = [scan EXCEPT ![s].changes = @ \ {c}]
     /\ calm' = IF calm = s THEN s ELSE None
  \/ /\ c.op # "delete" /\ ~Resolves(Stored(s, c), rows)
     /\ scan' = [scan EXCEPT ![s] = NotScanning]
     /\ calm' = None
     /\ UNCHANGED <<rows, lastId>>

ApplyChange(s) ==
  /\ \E c \in scan[s].changes :
       /\ \A d \in scan[s].changes \ {c} : Precedes(c, d)
       /\ ChangeKey(s, c)
  /\ UNCHANGED <<req, deployment>>

(* The command is interrupted, or a statement raises OperationalError.     *)
Interrupted(s) ==
  /\ scan[s].todo # {} \/ Working(s)
  /\ scan' = [scan EXCEPT ![s] = NotScanning]
  /\ calm' = IF calm = s THEN None ELSE calm
  /\ UNCHANGED inventoryVars

CallerActs(c) ==
  /\ Send(c) \/ Write(c)
  /\ calm' = IF rows' = rows THEN calm ELSE None
  /\ UNCHANGED scan

Next ==
  \/ \E c \in Caller : CallerActs(c)
  \/ \E s \in Scanner :
       \/ \E active \in SUBSET DOMAIN rows : ListMachines(s, active)
       \/ \E answer \in Opt(Answer) : ScanOne(s, answer)
       \/ ApplyChange(s)
       \/ Interrupted(s)

Spec == Init /\ [][Next]_vars

-----------------------------------------------------------------------------
HostKeys(m) == {rows[i].key : i \in Of("hostkey", m)}

(***************************************************************************)
(* A scan of a machine that answered, and that nothing disturbed, leaves   *)
(* the stored keys as shown: a key of every type shown, none of another,   *)
(* and only keys that were shown, whatever interrupted scans, overlapping  *)
(* scans and API edits had made of them before.                            *)
(***************************************************************************)
ScanReconciles ==
  calm # None /\ scan[calm].answer # None /\ ~Working(calm) =>
    LET shown == Range(scan[calm].answer) IN
    /\ HostKeys(scan[calm].machine) \subseteq shown
    /\ Types(HostKeys(scan[calm].machine)) = Types(shown)

(***************************************************************************)
(* Scans do not pile up keys: where one scanner alone writes host keys, a  *)
(* machine that had at most two of a type never has more, as many as it    *)
(* shows in one answer, one per address family.  (It does have two, from   *)
(* then on, when a new type is first seen over both.)                      *)
(***************************************************************************)
OnlyOneScannerWrites ==
  (\E s \in Scanner : Site.scanners = {s}) /\ "hostkey" \notin Site.kinds /\ Site.seeds = {}
OfType(m, type, t) ==
  {i \in DOMAIN t : t[i].kind = "hostkey" /\ t[i].parent = m /\ t[i].key.type = type}
AtMostTwo(t) ==
  \A m \in DOMAIN t, type \in Types(Key) : Cardinality(OfType(m, type, t)) <= 2
KeysDoNotPileUp == OnlyOneScannerWrites /\ AtMostTwo(Site.rows) => AtMostTwo(rows)
=============================================================================
