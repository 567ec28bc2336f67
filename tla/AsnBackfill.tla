----------------------------- MODULE AsnBackfill -----------------------------
(***************************************************************************)
(* ring_backfill_asn beside PeeringDB logins and approvals: it records the *)
(* ASN of every participant that has none, from the participant's machines,*)
(* one participant after the other and one statement at a time.            *)
(***************************************************************************)
EXTENDS PdbLogin

ASSUME BackfillAssumption ==
  \A i \in DOMAIN Deployments : Deployments[i].backfills \in BOOLEAN

VARIABLES
  backfill,  \* the command in progress: the participants ahead, and this one
  calm       \* history: no one else has recorded an ASN since it began

backfillVars == <<vars, backfill, calm>>

Stage == {"idle", "look", "claim", "get", "save", "done"}
Backfill == [at: Stage, todo: SUBSET Org, org: Opt(Org), asn: Opt(Asn)]
NotRunning == [at |-> "idle", todo |-> {}, org |-> None, asn |-> None]

BackfillTypeOK == TypeOK /\ backfill \in Backfill /\ calm \in BOOLEAN

BackfillInit == Init /\ backfill = NotRunning /\ calm = FALSE

-----------------------------------------------------------------------------
(* How many machines of a participant are in an ASN, and which is first.   *)
Often(o, asn) == Cardinality({i \in DOMAIN Machines : Machines[i] = [org |-> o, asn |-> asn]})
First(o, asn) ==
  CHOOSE i \in DOMAIN Machines :
    /\ Machines[i] = [org |-> o, asn |-> asn]
    /\ \A j \in 1..(i - 1) : Machines[j] # Machines[i]

(* Mutant: the machines of all participants count.                         *)
AsnOfAll(o) ==
  {a \in Asn : \E i \in DOMAIN Machines : Machines[i].asn = a}
(* max(counts, key=counts.get): of the most frequent ASNs, the first.      *)
AsnOf(o) ==
  {a \in Asn : /\ HasMachine(o, a)
               /\ \A b \in Asn : HasMachine(o, b) =>
                    \/ Often(o, a) > Often(o, b)
                    \/ Often(o, a) = Often(o, b) /\ First(o, a) <= First(o, b)}

(* Mutant: any profile will do, with or without an ASN.                    *)
HasProfile(o) == o \in DOMAIN orgAsn
Recorded(o) == o \in DOMAIN orgAsn /\ orgAsn[o] # None

Claimed(o, asn) == \E p \in DOMAIN orgAsn \ {o} : orgAsn[p] = asn

On(step) == backfill.at = step
Skip == backfill' = [NotRunning EXCEPT !.at = "look", !.todo = backfill.todo \ {backfill.org}]

BackfillStarts ==
  /\ Site.backfills
  /\ backfill.at \in {"idle", "done"}
  /\ backfill' = [NotRunning EXCEPT !.at = "look", !.todo = orgs]
  /\ calm' = TRUE
  /\ UNCHANGED orgAsn

(***************************************************************************)
(* The next participant, in any order (the code goes by id): one that has  *)
(* a recorded ASN, or no machine, is passed over.                          *)
(***************************************************************************)
BackfillLooks ==
  /\ On("look")
  /\ \/ \E o \in backfill.todo :
          IF Recorded(o) \/ AsnOf(o) = {}
          THEN backfill' = [backfill EXCEPT !.todo = @ \ {o}]
          ELSE \E asn \in AsnOf(o) :
                 backfill' = [backfill EXCEPT !.at = "claim", !.org = o, !.asn = asn]
     \/ /\ backfill.todo = {}
        /\ backfill' = [NotRunning EXCEPT !.at = "done"]
  /\ UNCHANGED <<orgAsn, calm>>

(* An ASN that is recorded for another participant is left for review.     *)
BackfillClaims ==
  /\ On("claim")
  /\ IF Claimed(backfill.org, backfill.asn) THEN Skip
     ELSE backfill' = [backfill EXCEPT !.at = "get"]
  /\ UNCHANGED <<orgAsn, calm>>

(***************************************************************************)
(* set_participant_autnum: get_or_create, then save, whatever the profile  *)
(* holds by now.  IntegrityError, autnum being unique, ends the command.   *)
(***************************************************************************)
BackfillGets ==
  /\ On("get")
  /\ orgAsn' = IF backfill.org \in DOMAIN orgAsn THEN orgAsn ELSE Put(orgAsn, backfill.org, None)
  /\ backfill' = [backfill EXCEPT !.at = "save"]
  /\ UNCHANGED calm

BackfillSaves ==
  /\ On("save")
  /\ \/ /\ Claimed(backfill.org, backfill.asn)
        /\ backfill' = NotRunning
        /\ UNCHANGED orgAsn
     \/ /\ ~Claimed(backfill.org, backfill.asn)
        /\ orgAsn' = Put(orgAsn, backfill.org, backfill.asn)
        /\ Skip
  /\ UNCHANGED calm

BackfillDies ==
  /\ Faults /\ backfill.at \notin {"idle", "done"}
  /\ backfill' = NotRunning
  /\ UNCHANGED <<orgAsn, calm>>

BackfillActs ==
  /\ \/ BackfillStarts \/ BackfillLooks \/ BackfillClaims
     \/ BackfillGets \/ BackfillSaves \/ BackfillDies
  /\ UNCHANGED <<storeVars, pdbSignups, orgs>>

(* Logins and approvals; a participant created, or an ASN recorded, by one *)
(* is what disturbs the command.                                           *)
Accounts ==
  /\ Next
  /\ calm' = (calm /\ UNCHANGED <<orgs, orgAsn>>)
  /\ UNCHANGED backfill

BackfillNext == Accounts \/ BackfillActs

BackfillSpec == BackfillInit /\ [][BackfillNext]_backfillVars

-----------------------------------------------------------------------------
(***************************************************************************)
(* Every ASN that is recorded for a participant is the ASN of one of its   *)
(* machines, or of a network that PeeringDB names as it: neither a backfill*)
(* nor a login passes on what it looked up for another participant.        *)
(***************************************************************************)
RecordedAsnFits ==
  \A o \in DOMAIN orgAsn : orgAsn[o] # None => Fits(o, orgAsn[o])

(***************************************************************************)
(* A backfill that ran to its end undisturbed leaves nothing to a second   *)
(* one, in whatever order it went and whatever earlier ones that died left *)
(* behind: a participant that still has no ASN has no machine, or shares   *)
(* its ASN with a participant that has it recorded.                        *)
(***************************************************************************)
BackfillIsComplete ==
  calm /\ backfill.at = "done" =>
    \A o \in orgs :
      \/ \E asn \in Asn : o \in DOMAIN orgAsn /\ orgAsn[o] = asn
      \/ \A asn \in AsnOf(o) : \E p \in DOMAIN orgAsn \ {o} : orgAsn[p] = asn
=============================================================================
