------------------------------ MODULE MCPdbLogin ------------------------------
(***************************************************************************)
(* Instances of PdbLogin for TLC.  Identity p1 manages network n1 and p2   *)
(* network n2.  PeeringDB names network n1 as participant o1 is named, and *)
(* n2 as o2.  Worker s serves visitors and admins alike.                   *)
(***************************************************************************)
EXTENDS PdbLogin, TLC

CONSTANTS s, o1, o2, p1, p2, n1, n2

MCNoSeed == << >>
(* A ring user of the first username an identity would get.                *)
MCSeed == <<[name |-> 1, org |-> o1, admin |-> FALSE]>>

MCManages == [p \in Pdb |-> IF p = p1 THEN {n1} ELSE {n2}]
MCNetOrg == [a \in Asn |-> IF a = n1 THEN o1 ELSE o2]

(* Network n1 has a machine of o1; n2 has one of o2, or none.              *)
OneKnown == <<[org |-> o1, asn |-> n1]>>
BothKnown == <<[org |-> o1, asn |-> n1], [org |-> o2, asn |-> n2]>>

Place(workers, writable, faults, rejects, removable, tabs, machines, backfills) ==
  [workers |-> workers, writable |-> writable, faults |-> faults, rejects |-> rejects,
   removable |-> removable, tabs |-> tabs, machines |-> machines, backfills |-> backfills]

(* No failures; network n2, or both, are on nobody's machine.              *)
MCPlain == <<Place(Worker, TRUE, FALSE, TRUE, {}, TRUE, OneKnown, FALSE)>>
MCNoMachines == <<Place(Worker, TRUE, FALSE, TRUE, {}, TRUE, << >>, FALSE)>>
MCKnown == {o1}
=============================================================================
