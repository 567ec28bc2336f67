---------------------------- MODULE MCAsnBackfill ----------------------------
(***************************************************************************)
(* Instances of AsnBackfill, and with it of PdbLogin, for TLC.             *)
(***************************************************************************)
EXTENDS AsnBackfill, MCPdbLogin

(* Participant o1 has machines in both networks, o2 in the first of them.  *)
Shared ==
  <<[org |-> o1, asn |-> n2], [org |-> o1, asn |-> n1], [org |-> o2, asn |-> n1],
    [org |-> o1, asn |-> n1]>>

(***************************************************************************)
(* Two visitors and an admin, whose requests die; two visitors who may be  *)
(* one in two tabs, whose requests die beside deletions of ring users; a   *)
(* read-only ring database; no failures; two admins, one of them a visitor *)
(* too; a serial server; two visitors of known networks; a visitor and an  *)
(* admin beside backfills; a visitor beside backfills that die; two        *)
(* visitors and an admin, whose requests die beside deletions.             *)
(***************************************************************************)
Customers == Visitor \ {s}
Crew == Customers \union (Admin \ {s})
Places ==
  <<Place(Crew, TRUE, TRUE, TRUE, {}, FALSE, OneKnown, FALSE),
    Place(Customers, TRUE, TRUE, TRUE, {2, 3}, TRUE, OneKnown, FALSE),
    Place(Crew, FALSE, TRUE, TRUE, {}, TRUE, OneKnown, FALSE),
    Place(Crew, TRUE, FALSE, TRUE, {}, TRUE, OneKnown, FALSE),
    Place(Admin, TRUE, FALSE, TRUE, {}, TRUE, OneKnown, FALSE),
    Place({s}, TRUE, TRUE, TRUE, {1, 2}, TRUE, OneKnown, FALSE),
    Place(Customers, TRUE, FALSE, FALSE, {}, FALSE, BothKnown, FALSE),
    Place(Admin, TRUE, FALSE, FALSE, {}, FALSE, OneKnown, TRUE),
    Place({s}, TRUE, TRUE, FALSE, {}, FALSE, Shared, TRUE),
    Place(Visitor, TRUE, TRUE, FALSE, {2}, FALSE, << >>, FALSE)>>

(* Indexed, so that TLC evaluates each place once.                         *)
MCDeployments == [i \in 1..10 |-> Places[i]]

(* Every deployment has both of these visitors or neither.                 *)
MCVisitorSymmetry == Permutations(Customers)
=============================================================================
