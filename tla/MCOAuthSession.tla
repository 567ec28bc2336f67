--------------------------- MODULE MCOAuthSession ---------------------------
(***************************************************************************)
(* Instances of OAuthSession for TLC: p1 has two networks to choose from   *)
(* (and one without permission to create), p2 has one, and a second        *)
(* without any permission.                                                 *)
(***************************************************************************)
EXTENDS OAuthSession, TLC

CONSTANTS p1, p2

MCNetworks ==
  [p \in Pdb |->
     IF p = p1 THEN {[asn |-> 1, perms |-> 15], [asn |-> 2, perms |-> 8], [asn |-> 3, perms |-> 1]}
     ELSE {[asn |-> 1, perms |-> 4], [asn |-> 2, perms |-> 0], [asn |-> None, perms |-> 15]}]

(* Two logins whose requests overlap; three whose requests do not.         *)
MCDeployments == <<[serial |-> FALSE, begun |-> 2], [serial |-> TRUE, begun |-> 3]>>

MCSymmetry == Permutations(Worker) \union Permutations(Browser)
=============================================================================
