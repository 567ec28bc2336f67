------------------------------ MODULE MCAccounts ------------------------------
(***************************************************************************)
(* Instances of Accounts for TLC.  Identity p1 manages network n1 and p2   *)
(* network n2.  Worker s serves visitors and admins alike.                 *)
(***************************************************************************)
EXTENDS Accounts, TLC

CONSTANTS v, s, o1, o2, p1, p2, n1, n2

(* A ring user that was imported, of the first username an identity would  *)
(* get.                                                                    *)
MCSeed == <<[name |-> 1, org |-> o1, admin |-> FALSE]>>
MCManages == [p \in Pdb |-> IF p = p1 THEN {n1} ELSE {n2}]
MCNetOrg == [a \in Asn |-> IF a = n1 THEN o1 ELSE o2]
MCOrgs == {o1}

OneKnown == <<[org |-> o1, asn |-> n1]>>
BothKnown == <<[org |-> o1, asn |-> n1], [org |-> o2, asn |-> n2]>>

(* Forms with a ring username, and forms where it is left blank.           *)
Blank(names) == [name: names, ringName: {None}]
Named == {[name |-> 3, ringName |-> 2]}

Place(workers, faults, rejects, removable, tabs, machines, backfills, forms, logins) ==
  [workers |-> workers, writable |-> TRUE, faults |-> faults, rejects |-> rejects,
   removable |-> removable, tabs |-> tabs, machines |-> machines, backfills |-> backfills,
   forms |-> forms, logins |-> logins]

(***************************************************************************)
(* Without failures and rejections: signups alone; two tabs of an          *)
(* identity; two identities beside backfills; signups beside logins; a     *)
(* signup that asks for the ring user of a login.  Then with rejections;   *)
(* a server of one worker, whose requests die as well; two workers whose   *)
(* requests die.                                                           *)
(***************************************************************************)
Places ==
  <<Place({v, s}, FALSE, FALSE, {}, FALSE, BothKnown, FALSE, Blank({2, 3}), {}),
    Place({v, s}, FALSE, FALSE, {}, TRUE, BothKnown, FALSE, {}, {p1}),
    Place({v, s}, FALSE, FALSE, {}, FALSE, BothKnown, TRUE, {}, {p1, p2}),
    Place({v, s}, FALSE, FALSE, {}, FALSE, BothKnown, FALSE, Blank({2}), {p1, p2}),
    Place({v, s}, FALSE, FALSE, {}, FALSE, OneKnown, FALSE, Named, {p1}),
    Place({v, s}, FALSE, TRUE, {}, FALSE, OneKnown, FALSE, Named, {p2}),
    Place({s}, TRUE, TRUE, {}, FALSE, OneKnown, FALSE, Named, {p1}),
    Place({s}, TRUE, TRUE, {2}, FALSE, OneKnown, FALSE, {}, {p2}),
    Place({v, s}, TRUE, FALSE, {}, FALSE, OneKnown, FALSE, {}, {p2}),
    Place({v, s}, TRUE, FALSE, {}, FALSE, OneKnown, FALSE, Named \union Blank({2}), {})>>
MCDeployments == [i \in 1..10 |-> Places[i]]

(* Nothing fails, but a visitor has the username of the imported ring user.*)
MCTakenName == <<Place({v, s}, FALSE, FALSE, {}, FALSE, BothKnown, FALSE, Blank({1}), {})>>
=============================================================================
