--------------------------------- MODULE Seed ---------------------------------
(***************************************************************************)
(* ring_seed: the tables are emptied, children first, and filled again     *)
(* from a dump, parents first; one table at a time, each in a transaction  *)
(* of its own.  The command may die between any two tables, and requests   *)
(* write beside it.  The dump is what the tables were at the start; the    *)
(* tables of ansible runs and health reports, which refer to nothing, are  *)
(* left out.                                                               *)
(***************************************************************************)
EXTENDS Inventory

VARIABLE seed  \* the statements ahead, and how the last run went

TABLE_ORDER == <<"participant", "user", "machine", "sshkey", "hostkey", "premark", "mremark">>

NoSeed == [todo |-> {}, only |-> {}, clear |-> FALSE, end |-> None, still |-> FALSE]
Statement == [op: {"clear", "import"}, kind: Kind]

SeedSiteOK ==
  /\ None \notin {"done", "failed"}
  /\ \A i \in DOMAIN Deployments :
       Deployments[i].seeds \subseteq [only: (SUBSET Kind) \ {{}}, clear: BOOLEAN]

SeedTypeOK ==
  seed \in [todo: SUBSET Statement, only: SUBSET Kind, clear: BOOLEAN,
            end: {None, "done", "failed"}, still: BOOLEAN]

SeedInit == seed = NoSeed

-----------------------------------------------------------------------------
Dump == Site.rows
DumpOf(kind) == {i \in DOMAIN Dump : Dump[i].kind = kind}
StoredOf(kind) == {i \in DOMAIN rows : rows[i].kind = kind}

Clearing(kind) == [op |-> "clear", kind |-> kind]
Importing(kind) == [op |-> "import", kind |-> kind]

(* reversed(TABLE_ORDER), and then TABLE_ORDER.                            *)
Rank(kind) == CHOOSE n \in DOMAIN TABLE_ORDER : TABLE_ORDER[n] = kind
Sooner(x, y) ==
  IF x.op # y.op THEN x.op = "clear"
  ELSE IF x.op = "clear" THEN Rank(x.kind) > Rank(y.kind) ELSE Rank(x.kind) < Rank(y.kind)

(* --only names tables, --no-clear skips the first half.  Without write    *)
(* access to the legacy tables nothing starts.                             *)
StartSeed(only, clear) ==
  /\ [only |-> only, clear |-> clear] \in Site.seeds
  /\ seed.todo = {} /\ LegacyWritable
  /\ seed' = [todo |-> [op: IF clear THEN {"clear", "import"} ELSE {"import"}, kind: only],
              only |-> only, clear |-> clear, end |-> None, still |-> TRUE]
  /\ UNCHANGED inventoryVars

Due(st) == st \in seed.todo /\ \A other \in seed.todo \ {st} : Sooner(st, other)
Ends(end) == seed' = [seed EXCEPT !.todo = {}, !.end = end, !.still = @ /\ end # None]
Proceeds(st) ==
  seed' = [seed EXCEPT !.todo = @ \ {st}, !.end = IF seed.todo = {st} THEN "done" ELSE None]

(* objects.all().delete(): a row that another table refers to ends the     *)
(* command (on_delete=RESTRICT), and the whole table stays.                *)
ClearTable(kind) ==
  /\ Due(Clearing(kind))
  /\ IF \E i \in StoredOf(kind) : Referenced(i) THEN Ends("failed") /\ UNCHANGED rows
     ELSE Proceeds(Clearing(kind)) /\ rows' = [i \in DOMAIN rows \ StoredOf(kind) |-> rows[i]]
  /\ UNCHANGED <<lastId, req, deployment>>

Imported(kind) ==
  [i \in DOMAIN rows \union DumpOf(kind) |-> IF i \in DumpOf(kind) THEN Dump[i] ELSE rows[i]]

(* Mutant: bulk_create(ignore_conflicts=True).                             *)
ImportMissing(kind) ==
  /\ Due(Importing(kind))
  /\ LET new == {i \in DumpOf(kind) \ DOMAIN rows : Resolves(Dump[i], rows)} IN
     Proceeds(Importing(kind)) /\ rows' = [i \in DOMAIN rows \union new |-> IF i \in new THEN Dump[i] ELSE rows[i]]
  /\ UNCHANGED <<lastId, req, deployment>>

(* bulk_create: an id that is taken, or a reference to a row that is not   *)
(* there, is an IntegrityError, and nothing of the table is inserted.      *)
ImportTable(kind) ==
  /\ Due(Importing(kind))
  /\ IF \E i \in DumpOf(kind) : i \in DOMAIN rows \/ ~Resolves(Dump[i], rows)
     THEN Ends("failed") /\ UNCHANGED rows
     ELSE Proceeds(Importing(kind)) /\ rows' = Imported(kind)
  /\ UNCHANGED <<lastId, req, deployment>>

SeedDies ==
  /\ seed.todo # {}
  /\ Ends(None)
  /\ UNCHANGED inventoryVars

Seeds ==
  \/ \E s \in Site.seeds : StartSeed(s.only, s.clear)
  \/ \E kind \in Kind : ClearTable(kind) \/ ImportTable(kind)
  \/ SeedDies

(* What a change of the tables by others does to the history.              *)
RowsSeenBySeed ==
  seed' = IF rows' = rows THEN seed ELSE [seed EXCEPT !.still = FALSE]

-----------------------------------------------------------------------------
(***************************************************************************)
(* A seed that completes, and that nobody wrote beside, leaves in each     *)
(* table it was asked to import the rows of the dump; and no others, when  *)
(* it cleared them.  A seed of all tables that nobody disturbs does        *)
(* complete, whatever runs that died, or were of some tables only, and     *)
(* edits had made of the tables before.                                    *)
(***************************************************************************)
SeedRestores ==
  seed.still =>
    /\ seed.end = "done" =>
         \A kind \in seed.only :
           /\ \A i \in DumpOf(kind) : i \in DOMAIN rows /\ rows[i] = Dump[i]
           /\ seed.clear => StoredOf(kind) = DumpOf(kind)
    /\ seed.end = "failed" => ~(seed.clear /\ seed.only = Kind)
=============================================================================
