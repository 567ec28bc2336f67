---------------------------- MODULE MCNodeStatus ----------------------------
(***************************************************************************)
(* Instances of NodeStatus for TLC.  The 10 of the outage guards becomes 1,*)
(* so that two hosts reach both sides of it.                               *)
(***************************************************************************)
EXTENDS NodeStatus

CONSTANTS r1

Place(editing, runners, registered) ==
  [editing |-> editing, runners |-> runners, registered |-> registered]

(* API edits beside one status run at a time, where host 2 is yet to be    *)
(* created, or overlapping runs.                                           *)
MCEditsOrOverlap == <<Place(TRUE, {r1}, {1}), Place(FALSE, Runner, Host)>>
MCQuiet == <<Place(FALSE, {r1}, Host)>>
=============================================================================
