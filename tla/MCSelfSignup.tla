---------------------------- MODULE MCSelfSignup ----------------------------
(***************************************************************************)
(* Instances of SelfSignup for TLC.  Visitors and admins are few; usernames*)
(* are numbers because the store's names are ordered.                      *)
(***************************************************************************)
EXTENDS SelfSignup, TLC

CONSTANTS o1, o2, v, s

(* One imported ring user; a visitor may give its name, or none.           *)
MCSeed == <<[name |-> 1, org |-> o1, admin |-> FALSE]>>
MCNoSeed == << >>
MCSeedOrBlank == {None, 1}

Place(workers, writable, faults, rejects, removable) ==
  [workers |-> workers, writable |-> writable, faults |-> faults,
   rejects |-> rejects, removable |-> removable]

(***************************************************************************)
(* A visitor and two admins: whose requests die, with a writable or a      *)
(* read-only ring database; without failures and rejections.  A visitor    *)
(* and one admin: whose requests die beside deletions of ring users;       *)
(* without failures.                                                       *)
(* Worker s is the one admin, and a visitor too.                           *)
(***************************************************************************)
Crew == {v} \union (Admin \ {s})
Places ==
  <<Place(Crew, TRUE, TRUE, TRUE, {}),
    Place(Crew, FALSE, TRUE, TRUE, {}),
    Place(Crew, TRUE, FALSE, FALSE, {}),
    Place({v, s}, TRUE, TRUE, TRUE, {2}),
    Place({v, s}, TRUE, FALSE, TRUE, {})>>

(* Indexed, so that TLC evaluates each place once.                         *)
MCDeployments == <<Places[1], Places[2], Places[3], Places[4], Places[5]>>

(* Every deployment has both of the other admins or neither.               *)
MCAdminSymmetry == Permutations(Admin \ {s})
=============================================================================
