--------------------------- MODULE AccountLifecycle ---------------------------
(***************************************************************************)
(* What the portal promises of an account, whichever way it comes in and   *)
(* however many requests handle it: it is opened once; it is locked until  *)
(* an admin vets it, or let in at once; only an account that was let in    *)
(* gets a token, only one with a token is marked approved, and the mark is *)
(* for good.  Modules that describe the handlers refine this one.          *)
(***************************************************************************)
CONSTANT Account

VARIABLES
  stage,     \* Account -> Stage
  tokens,    \* accounts with an API token
  approved   \* accounts whose request is marked approved

lifeVars == <<stage, tokens, approved>>

(* open and admitted accounts can log in; vetted and admitted ones have a  *)
(* ring user.                                                              *)
Stage == {"absent", "open", "locked", "vetted", "admitted", "gone"}

Init ==
  /\ stage = [u \in Account |-> "absent"]
  /\ tokens = {} /\ approved = {}

Moves(u, from, to) ==
  /\ stage[u] \in from
  /\ stage' = [stage EXCEPT ![u] = to]

Keeps == UNCHANGED <<tokens, approved>>
Open(u) == Moves(u, {"absent"}, "open") /\ Keeps
Lock(u) == Moves(u, {"open"}, "locked") /\ Keeps
Vet(u) == Moves(u, {"locked"}, "vetted") /\ Keeps
Admit(u) == Moves(u, {"open", "vetted"}, "admitted") /\ Keeps

(* Only what is not marked approved can be rejected.                       *)
Remove(u) ==
  /\ u \notin approved
  /\ Moves(u, {"locked", "vetted", "admitted"}, "gone")
  /\ tokens' = tokens \ {u} /\ UNCHANGED approved

GiveToken(u) ==
  /\ stage[u] = "admitted"
  /\ tokens' = tokens \union {u}
  /\ UNCHANGED <<stage, approved>>

Approve(u) ==
  /\ stage[u] = "admitted" /\ u \in tokens
  /\ approved' = approved \union {u}
  /\ UNCHANGED <<stage, tokens>>

Next ==
  \E u \in Account :
    \/ Open(u) \/ Lock(u) \/ Vet(u) \/ Admit(u) \/ Remove(u)
    \/ GiveToken(u) \/ Approve(u)

Spec == Init /\ [][Next]_lifeVars
=============================================================================
