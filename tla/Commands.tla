------------------------------- MODULE Commands -------------------------------
(***************************************************************************)
(* The commands over the tables of the REST API, side by side with its     *)
(* requests: host key scans, deployments and web posts, and the import of  *)
(* a dump.                                                                 *)
(***************************************************************************)
EXTENDS HostKeyScan, Deploy, Seed

ASSUME CommandsAssumption == DeploySiteOK /\ SeedSiteOK

commandVars == <<vars, deployVars, seed>>

CommandsTypeOK == TypeOK /\ DeployTypeOK /\ SeedTypeOK

CommandsInit == Init /\ DeployInit /\ SeedInit

CommandsNext ==
  \/ Next /\ UNCHANGED clone /\ RowsSeenByDeploys /\ RowsSeenBySeed
  \/ Deploys /\ UNCHANGED <<scan, calm, seed>>
  \/ \E r \in Repo : OthersPush(r) /\ UNCHANGED <<scan, calm, seed>>
  \/ /\ Seeds /\ UNCHANGED <<scan, clone>> /\ RowsSeenByDeploys
     /\ calm' = IF rows' = rows THEN calm ELSE None

CommandsSpec == CommandsInit /\ [][CommandsNext]_commandVars
=============================================================================
