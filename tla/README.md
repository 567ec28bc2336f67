# TLA+ verification of the RING portal

The portal (Django, `src/ring/`) runs the account administration and the machine
inventory of the NLNOG RING.  It keeps two databases: the legacy MySQL "ring"
database (participants, ring users, machines, reports) and a SQLite database of
its own (web accounts, signups, profiles, tokens).  No transaction spans both, the
settings turn on neither `ATOMIC_REQUESTS` nor `transaction.atomic` around the
handlers modelled here, and mod_wsgi serves requests from several processes and
threads.  Every ORM write therefore commits by itself, and what can go wrong
lies between two writes.  That is the level of these models: **one action per
database write (or per decisive read) of a handler**, with the row copies a
handler holds in memory as part of the state.

Paths below are relative to the repository root, `src/`, unless a directory is given.

## 1. The system

| component | state | operations | who touches it | model |
|---|---|---|---|---|
| account tables (`models.py`, `services/profiles.py`) | `auth.User`, `RingUserProfile`, `Token` (SQLite), `RingUser` (MySQL) | create, save, link, issue token, delete | signup, PeeringDB, API | `AccountStore` |
| self-service signup (`views.py:670-800`) | `RingSignup` | `signup`, `approve_signup`, `reject_signup` | visitors, ring admins | `SelfSignup` |
| PeeringDB accounts (`views.py:816-926`, `1009-1075`, `services/profiles.py`) | `PeeringDBSignup`, `ParticipantProfile.autnum`, `Participant` | `_pdb_provision`, `_pdb_sync_user`, `_pdb_create_signup`, approve, reject | PeeringDB users, ring admins | `PdbLogin` |
| node status (`services/nodestatus.py`) | `Machine` status columns; `AnsibleRun`, `HealthReport` | `process` from cron | reads ingest, writes machines | `NodeStatus` |
| ingest (`api/viewsets.py`, `api/permissions.py`) | `AnsibleRun`, `HealthReport` | POST of reports | nodes, admins | `NodeStatus` (as far as status reads it) |
| machine resource of the API | `Machine` | POST, PATCH, DELETE | owners, admins | `NodeStatus` |
| machine purge (`ring_purge_machines.py`, `services/mail.py:280`) | `Machine` | load, remove-mail, delete | cron | `NodeStatus` |
| API resources and permissions (`api/`), `participant_edit` (`views.py:593`) | participants, ring users, machines, SSH keys, host keys, remarks | scoped create, update, delete | owners, admins | `Inventory` |
| host key scan (`ring_scan_hostkeys.py`) | `SSHHostKey` | compare, replace, delete, create | operator, cron | `HostKeyScan` |
| OAuth session (`views.py:804-813`, `929-1006`, `services/peeringdb.py`) | the session: state, profile, account | redirect, callback, choice of network | PeeringDB users | `OAuthSession` |
| ASN backfill (`ring_backfill_asn.py`) | `ParticipantProfile.autnum` | most frequent ASN per participant | operator | `AsnBackfill` |
| accounts as a whole | the tables of both ways in | the handlers above, together | visitors, PeeringDB users, admins | `Accounts`, `AccountLifecycle` |
| dashboards (`views.py:101-348`, `635-672`) and KPI cache (`kpi_cache.py`) | a version and its entries, per process | look up, compute, store, render; bump | members, admins, cron | `KpiCache` |
| ansible deployment and web posts (`services/deploy.py`, `ansiblefiles.py`, `webpost.py`) | two clones and what they push to | pull, generate, commit, push | operator, cron | `Deploy` |
| seed import (`ring_seed.py`) | all ring tables | clear, import | operator | `Seed` |
| mail, DNS text, geocoding, detail pages, Django admin, migrations | - | I/O, formatting, generated code | - | not modelled |

How they meet: signup and PeeringDB login share the account tables and the
uniqueness constraints on them; both create ring users that the API can delete.
The backfill records ASNs beside the logins that record and look them up.  The
OAuth session decides which identity and network a login is provisioned with.  The
host key scan corrects rows that the API's requests create, edit and delete.
Deployments and web posts
read those rows and publish them; a seed replaces them all.  The dashboards join machine
rows with aggregates of reports that each web process caches for itself.
Ingest feeds node status, which writes the rows the machine API loads and saves;
purge picks machines by what node status last wrote.

What is hard here: two admins working on the same request; an approval racing a
rejection; a login racing an approval of the same identity; handlers that stop
half way and are repeated; Django's `save()`, which writes every column of an
object loaded earlier and *inserts* the row again when it was deleted; unique and
foreign-key constraints that turn a lost race into an exception that undoes
nothing; status runs that overlap each other, API edits and the reports they
read; the outage guards at their limit.  `PROJECT.json` lists these hazards
with their lines and the properties that cover them.

What makes each component correct:

- *accounts*: a token always belongs to an active account; an approved request has
  a complete account; an account that was not approved cannot log in; a linked
  account is never moved to another ring user; nothing is written to the ring
  database in read-only mode.
- *PeeringDB*: the account ends up at a participant its network leads to; the
  identity stays with its account; no account is orphaned.
- *OAuth session*: what a session holds came from a login its own browser began; one
  consent logs in once; a login that was begun is still awaited when it returns.
- *ASN backfill*: what is recorded fits, and nothing that could be recorded is left.
- *API resources*: an ordinary request touches only its own participant's rows, makes or
  removes no participant, and makes no admin.
- *host key scan*: it leaves what the machine showed, whatever it started from.
- *accounts as a whole*: an account is locked until vetted, or let in at once; only one let in
  gets a token; a mark of approval is for good; nobody's ring user is changed by a request about
  another account.
- *dashboards*: a page is stale for a bounded time, and shows only machines in its scope.
- *deployment*: a run that ends well has published what the tables say.
- *seed*: a run that completes has restored the dump, whatever was there before.
- *node status*: what reports becomes active, what is missing becomes inactive,
  what is corrected stays corrected.

## 2. Modules and how they correspond to the code

`PROJECT.json` "map" gives source lines for every definition.

**`AccountStore`** - the account tables as functions from primary keys to rows
(`users`, `profiles`, `ringUsers`; `tokens` is a set of keys), the AUTOINCREMENT
counters, and `req`, which gives for each request worker the handler it runs, the
next statement, and the copies of rows it holds.  Its actions are the statements
that several handlers share: `CreateUser`, `SaveUser` (update by key, or insert
again), `CreateRing`, `LinkGet` and `LinkSave` (the two statements of
`link_ring_user`), `IssueToken`, `DeleteUser` (with the cascade Django performs in
one transaction), `DestroyRingUser` (the API), and `Die`: the process is killed
or a statement raises `OperationalError`.  A violated constraint ends the
request and leaves what it wrote.

**`SelfSignup`** extends it with `RingSignup` and the three handlers; the program
counter is `req[w].at`, and `Continue(w)` is the next statement of worker `w`.

**`PdbLogin`** extends `AccountStore` with `PeeringDBSignup`, the participants and
their recorded ASNs, and the PeeringDB handlers.  `Login` is the entry of
`_pdb_provision` with an identity and one of its networks; `SyncRing`/`SyncUser` are
`_pdb_sync_user`; `Resolve` is `participant_for_pdb`; `AsnGet`/`AsnSave` are
`set_participant_autnum`; `PickName` is `_pdb_username`.

**`NodeStatus`** - machines, the reports of the last 24 hours, status runs
(`ReadMachines`, `ReadRuns`, `ReadHealth`, then `Apply` once per UPDATE in the order
of `_apply_changes`), ingest, API edits (`OpenEdit` loads the row, `SaveEdit` writes
all of it back), creation, deletion and the purge.

**`AsnBackfill`** extends `PdbLogin` with the command in progress: the participants it
has ahead, and the one it is at with the ASN it chose.  Its statements interleave
with those of logins and approvals (`Accounts`).

**`OAuthSession`** - the session table, the browsers' cookies, the logins that were begun
and the requests in progress.  A request loads the session in its first action
(`BeginLogin`, `Callback`, `Pick`), may wait for PeeringDB (`Exchange`), may log in
(`EnterLogsIn`, which like `auth_login` writes at once), and saves the whole session in
`Save`.  PeeringDB, Django's session middleware and `auth_login` are external.

**`Inventory`** - all ring tables in one function from ids to rows: a row has its kind, the
row its foreign key refers to, the admin flag and the host key.  `OpenCreate`,
`OpenUpdate`, `OpenOrgEdit` and `OpenDestroy` are a request up to its last check;
`CreateRow`, `SaveRow` and `DeleteRow` are its write.

**`HostKeyScan`** extends `Inventory` with the scanners: `ListMachines`, `ScanOne` (which
loads the stored keys, and from them and the answer decides every statement to
come), and `ApplyChange`, one statement.  The statements ahead are a set; the line of the answer that
each is about gives their order.

**`Deploy`** extends `Inventory` with two clones (`ansible`, `web`), each with the files in its
working tree, its last commit, its origin, whether a commit is unpushed (`ahead`) and whether others
have pushed (`behind`), and the run at work in it.  A generated file takes one step for the users
(`LoadUsers`) and one per user for the machines (`FetchMachines`); `Commit` ends the run when
there is nothing to commit, as `_run` does on any error; `RunFails` is every other failure.

**`Seed`** extends `Inventory` with the import of a dump: `ClearTable` and `ImportTable`, one table a
step.  The statements ahead are a set here, too; `Due` picks the one that `TABLE_ORDER` puts first.

**`Commands`** composes the three (`HostKeyScan`, `Deploy`, `Seed`) and the API's requests over one set of
tables, and keeps their history variables: `calm`, `still` say that nobody else wrote since a
command began.

**`KpiCache`** - the rows, newest reports and failed runs the dashboards read, the cache of each
process, and one request per thread.  `Lookup` forms the key and reads the machine names after a miss,
`Compute` reads the reports, `Store` saves; `LoadRows` is the page's own query.  `Tick` is the clock:
entries age, requests age, and no request is served for longer than `MaxRequest`.

**`AccountLifecycle`** is the abstract specification: an account is *absent*, *open* (can log
in), *locked*, *vetted* (locked, with a ring user), *admitted* or *gone*; tokens and approval marks.
**`Accounts`** instantiates `SelfSignup` and `AsnBackfill` (with `PdbLogin`) over one
`AccountStore`: a request goes on in the module of its handler, admins see both lists, and visitors
choose among the participants that exist by then.  Its refinement mapping computes the stage of an
account from its row, its profile and the counter (`StageOf`).

**`MCSelfSignup`, `MCPdbLogin`, `MCAsnBackfill`, `MCOAuthSession`, `MCCommands`,
`MCNodeStatus`, `MCAccounts`, `MCKpiCache`** - instances for TLC.
**`AccountStoreProofs`, `SelfSignupProofs`, `PdbProofs`, `PdbPromiseProofs`, `OAuthProofs`,
`NodeStatusProofs`, `KpiProofs`, `InventoryProofs`** - lemmas and theorems (section 5).
Definitions whose comment begins with "Mutant" are plausible bugs of the code.
They are used by nothing; putting one in place of its original must make TLC
report the property that `PROJECT.json` names beside it.

### Deployments

What surrounds the handlers differs between the questions asked: which workers
serve requests at once, whether `legacy_writable()`, whether requests may die,
whether admins also reject, which ring users the API can delete.  A
*deployment* is one such choice; `deployment` is picked in `Init` and no step
changes it.  A run checks all of its deployments, and a property that is
promised only in some says so in its antecedent (`~Faults`, `OneAdmin`, `OneWorker`, `Removable = {}`).
The theorems quantify over every sequence of deployments.

### Abstractions

- A username or a ring username is a number (candidates are tried in order);
  passwords, mail addresses, personal names and the mails sent are left out.
  `_pdb_sync_user` saves only if PeeringDB's mail differs: that is a free choice.
- Every PeeringDB identity has the same base username, so that candidates collide
  as much as they can.
- Reads that precede a single decision are one step with it.  Each write is a
  step; `get_or_create` followed by `save` is two.  A lost race inside
  `get_or_create` is retried by Django and ends as a plain get.
- `auth.User.last_login`, which `login()` writes with `update_fields`, is left out:
  it overwrites nothing else.
- Participants are never deleted in `PdbLogin`, and machines keep their participant.
- Time in `NodeStatus` is abstract: a report leaves the window (`Expire`) and a
  `last_active` passes the purge window (`Age`) at any moment.  Only the newest
  health report of a host and family counts, so only it is kept.
- In `PdbLogin` the machines are a constant list in the order of host names, which is the
  order in which `participant_for_pdb` and the backfill see them.  The backfill goes
  through participants in any order; the code goes by id.
- In `OAuthSession` a login has one code, and what a state or code says is the number
  of its login; a message or a password login does not touch the session.
- In `Inventory` columns without a rule are left out, ids are unique over all tables, and
  the ring user an account is linked to is a constant of the deployment.
- In `HostKeyScan` an answer is the sequence of keys in the output of `ssh-keyscan`, or
  none; a machine keeps its host name.
- A deleted host is not registered again (`gone`); batches of reports are
  repeated single ones; host names are compared as the database does.
- A PATCH changes `active` and no key.  Whether the owner is a ring admin is a constant
  of a host.
- Edits through Django's admin site are left out.
- In `Deploy` a file is a set of lines and a line is the data it is made of; git and `rsync` do what
  their commands do to that, and others' commits touch other files.  The users of a file are
  loaded in one query and the machines (with their host keys) of one user in one step.  Two runs in
  one clone at once are left out: nothing in the code or the documented cron table starts them.
- In `Seed` the dump is the content of the tables at the start, and a table is imported in one
  transaction (the code's batches have 5000 rows; the ring tables are smaller).  Ansible runs and
  health reports, which refer to nothing, and the parser of the dump are left out.
- In `KpiCache` hosts are their own short names, the two update counts are one flag, and of the
  reports of a host only the newest is kept.  A bucket is half of a modular clock, which is
  sound as entries live shorter than an hour.  The filters of the machines page other than the
  release are left out; they read no aggregate.

## 3. Runs

Symmetry is declared for workers that every deployment contains together or not
at all, and only in runs without liveness properties.  `CHECK_DEADLOCK FALSE` is said
in the account runs because the key counters are bounded: when `MaxUser` accounts
have been created no further request can get anywhere.  The run `status_settles`
checks for deadlock; the other status runs leave it to that one.

| run | result | question |
|---|---|---|
| `signup_interleaved` | passes, 0.9 million states | What do tokens, approvals and links promise, however requests interleave and die? |
| `pdb_interleaved` | passes, 0.6 million | Do PeeringDB accounts land where they belong, stay linked and stay locked, and are the right ASNs recorded? |
| `accounts_live` | passes, 0.1 million | Do both ways in together keep the life of an account, leave others' ring users alone, and let in who keeps trying? |
| `oauth_interleaved` | passes, 0.4 million | Is what a session holds its own browser's? |
| `inventory_interleaved` | passes, 0.6 million | Do API requests stay in their organisation, scans converge, deployments deliver and seeds restore? |
| `kpi_staleness` | passes, 1.7 million | For how long is a dashboard stale, and whose machines does it show? |
| `status_settles` | passes, 1 million | Does an undisturbed status run leave nothing to correct? |
| `status_live` | passes, 0.3 million | Are flags corrected in the end, beside edits or overlapping runs? |
| `pdb_stale_save`, `pdb_name_match`, `accounts_taken_name`, `status_null_run` | violated | What does the repository say of itself that the code does not do?  See "Findings" |

**Signup bounds.** One or two visitors, one admin or two; two accounts and three ring
users are created (`MaxUser`, `MaxRing`), of which one is imported under a name a
visitor may ask for; a visitor asks for that name or leaves it blank.  Two
accounts and two approvers are the least with which every pair of handlers
(approve/approve, approve/reject, signup/approve, approvals of two signups for
one ring user) meets.  A third account would be a copy of the second for
everything a handler looks at.  The deployments: two admins whose requests die;
the same in read-only mode; two admins, no failures, no rejections; one admin
(who signs up, too) beside API deletions; one admin without failures.

**PeeringDB bounds.** Two identities, each with a network of its own; two accounts,
three ring users; network `n1` is known through a machine, `n2` only by its name or
not at all, so that instant accounts, queued ones and participants created by an
approval all occur.  Four names are enough for every collision
of two logins.  Deployments: failures with an admin; failures beside API deletions;
read-only; no failures; two admins; a serial server with failures and deletions;
two visitors of known networks; a visitor and an admin beside backfills; a serial
server beside backfills that die, where one participant has machines in two networks and
another shares one of them.

**OAuth bounds.**  Two browsers, two requests at once, an identity with two networks to
choose from and one with a single network; two logins are begun whose requests
overlap, or three whose requests do not.  Four session keys are given out.

**Accounts bounds.**  Two workers, one of which serves visitors and the admin, or the latter alone;
two identities; one or two signup forms.  Three accounts are created, and three ring users beside an imported
one, which has the first username that an identity would get; five names: enough for an
orphan beside two accounts that compete, none of whose logins or signups can have the imported name.  The ten
deployments: signups alone; two tabs of one identity; two identities beside backfills; a signup beside two
logins; a signup that asks for the ring user of a login; a signup and a queued login with rejections; the serial server with deaths and rejections, with a
signup or with API deletions; two workers whose requests die, with a queued login or with
two signups for one ring name.  Deployments where liveness is claimed have known networks only:
a queued identity that logs in again creates another account each time (see "Findings"), and would
reach `MaxUser`.

**Violated runs.**  Each has bounds like those of the passing run of its module and one deployment, the smallest
in which the claim fails.  Its property is the claim without conditions.  `accounts_taken_name` is `accounts_live`
with one signup whose username is the imported ring user's.

**KPI bounds.**  One process with two threads (processes share nothing), two hosts, `MAX_FAILED = 1`
for the 15 of the code so that the cut-off bites, an entry that lives one tick, a request that takes up to
one, and four ticks an hour, so that buckets change under a request.

**Inventory and scan bounds.**  Two participants and up to two ring users each; the deployments:
an ordinary user beside an admin, one request after the other; two users of one
participant whose requests overlap; one scanner alone; two scanners; a scanner beside
edits of host keys and machines.  Keys are of two types, one of them with two values; answers have up to
three lines, which is a type seen over both families and another seen over one.
One to four rows are inserted.  Deployments and posts run beside an admin who edits machines, one
request after the other, and beside a scanner; a participant has an ordinary user and an admin, with one
machine.  Seeds, of all tables, of users only, of machines and host keys, and without clearing, run
beside overlapping edits.

**Status bounds.** Two hosts, and `MaxMissing = 1` for the 10 of the code, so that one
missing host is below the guard and two are above.  One family in `status_settles`
(the families are treated alike and independently), none in `status_live`, whose
properties are about `active`.

**What the account properties say.**  `TokenImpliesActive`: in any interleaving, with
deaths, a token never belongs to a deleted or inactive account.  `ApprovedIsActive`: a
signup marked approved never has an inactive or deleted account; nobody could
repair it, as approved signups cannot be approved again.  `LinkIsStable`: two
approvals of one signup, or a repeated one, never move the account to a second ring
user.  `ApprovedIsComplete`: approved means active, linked and with a token, unless a
rejection may run beside an approval.  `QuiescentIsVetted`: with no request running and
no deaths, every account has its request on file and is active exactly if it
was approved.  `ServedAreOnFile`: at any moment and with deaths, an account with a token or a
ring user has its request on file, unless a rejection may run beside an approval - what a signup that
died leaves behind is active, but nothing is ever issued or linked to it.
`ReadOnlyIsRespected`, no write to the ring database behind `legacy_writable()`, is proved and in no run: it
follows the guards closely.  `AccountFitsNetwork`, `IdentityKeepsAccount`, `PendingIsLocked` and `NoOrphanAccount` say the like for PeeringDB accounts; the conditions in
`NoOrphanAccount` are those under which it is true, see "Findings".  `OrphanIsNotServed` is what holds
without them: whatever dies, and in however many tabs an identity logs in, one of its accounts at most
has a token, and that one is linked.  `RecordedAsnFits`: no
ASN is recorded for a participant that neither has a machine in it nor is named as
its network.  `BackfillIsComplete`: a backfill that ends undisturbed leaves nothing to a second one.

**What the composition says.**  `LifecycleIsKept` is the abstract specification itself, under the refinement
mapping.  It is claimed where requests that handle one account are kept apart (`Orderly`, part of
`AccountsAssumption`): one worker, or at most one rejecting admin, and no login beside an
approval of the same identity.  Elsewhere stale rows undo approvals and insert deleted accounts again:
that is what `pdb_stale_save` and the conditions of `ApprovedIsComplete` are about.
`OthersRingUserIsKept`: the ring user of an account changes only in a request about that account, or about a
signup that named it.  The exception is real: `approve_signup` moves such a ring user to the
visitor's participant, and only then finds that it is linked to somebody else.
`PendingGetsApproved` and `IdentityGetsLinked` are the liveness of the two ways in, now beside each
other: neither can take for good a name the other needs.  Both are claimed where the ring database is
writable, no request dies and the API deletes no ring user; the first, where besides nobody rejects, and
visitors leave the ring username blank and do not have a username that is an imported ring user's; the
second, where every network is known.  `accounts_taken_name` drops the condition on usernames
(`EverySignupGetsApproved`) and is violated; what deaths do is under "Findings".

**What the dashboard properties say.**  `StaleIsBounded`: once nothing has changed about a machine for
`KPI_TTL` and the length of two requests, every page says of it what the tables say, whatever threads
overlapped, stored late, or were restarted; the version is not needed for it, which is as well, since
the bump reaches no web process.  Its condition on failed runs is the cut-off: with more failing hosts
than `MAX_FAILED` a page may be silent about one for ever.  `OnlyLiveMachines`: old aggregates never bring
back a machine that was deleted, or moved to another participant, before the page was asked for.

**What the session properties say.**  `SessionIsOwn`: however requests overlap and wherever
a callback URL is opened, the account and the waiting profile of a session stem from a
login its browser began.  `ConsentLogsInOnce` and `FreshLoginIsAwaited` hold as long as
the server gets one request after the other; "Findings" says what overlapping ones do.

**What the inventory properties say.**  `ScopeIsKept`: what an ordinary request writes
belongs to its participant, before and after, although check and write are apart and the
write is of the whole row.  `ParticipantsAreAdminMade` and `AdminsAreAdminMade`: what the
API's documentation reserves to admins.  `ScanReconciles`: a scan of a machine that nothing
disturbs leaves exactly the types the machine showed and only keys it showed, whatever
mixture earlier scans and edits left.  `KeysDoNotPileUp`: repeated and interrupted scans
by one scanner never store more than two keys of a type, where there were no more and only the scanner writes
host keys.  `DeployDelivers`: whatever failed runs left in
a clone, a run that ends well has pushed files that agree with the tables, if those stood still meanwhile; one
that finds nothing to commit may stop short of it only if an earlier commit was not pushed.
`SeedRestores`: a seed that nobody disturbs ends with exactly the dump in the tables it was asked for, and a full
one always gets there, whatever an earlier one that died left.

**Fairness.**  In the account runs: a handler that runs is not suspended for ever (weak
fairness of `Serve(w)` in `Accounts`; web workers are scheduled by the operating system), and
a person who was not served tries again whenever possible (strong fairness of
pressing "Approve" for a pending request, of logging in for an identity).  The second is
an assumption about people, and the property asks exactly what repeating achieves.
In `NodeStatus`: cron starts `ring_process_status` every five minutes and
`ring_purge_machines` regularly, and both run on (weak fairness).  Nothing is assumed of
reports, edits or failures.

## 4. Findings

Each of these has a run that violates what the repository says of itself.

1. *A login undoes an approval* (`pdb_stale_save`, `views.py:906`).  When the approval has
   linked the identity and not yet activated the account, a login of the identity loads the
   inactive account; `_pdb_sync_user` saves the whole row after the approval
   activated it.  The signup is approved, the account inactive, and
   it cannot be approved again.  `docs/peeringdb-oauth.md:131-133` promises an active account.
2. *Instant accounts by name* (`pdb_name_match`, `views.py:850`).
   `services/profiles.py:139-141` says auto-login is grounded in the ASN and only admin
   approval may use the network's name; `_pdb_provision` passes the name.
3. *One report stops all status runs* (`status_null_run`, `nodestatus.py:71`).  A run pushed without
   `unreachable` is stored as NULL, and `r.unreachable > 0` raises for the day the report is in
   the window: no machine is reconciled.
4. *A signup that nobody can approve* (`accounts_taken_name`, `views.py:764`).  `approve_signup` looks for the
   ring user of the requested ring username; where that was left blank it creates one with the account's
   username.  If such a ring user exists (imported, say) the unique column refuses it on every approval.
   `README.md:175-178` promises an account that is "linked to (or paired with) the matching `RingUser`".

Met while modelling, without a run of their own:

- `ring_purge_machines` never deletes (`ring_purge_machines.py:51`): the mail before the deletion fails on a name
  `services/mail.py` does not import, at the first machine.  `README.md:144` says it deletes.  `NodeStatus` has
  the purge as it is.
- A signup that dies between `create_user` and the save that deactivates the account
  (`views.py:701`) leaves an active account that no admin sees.  Hence `~Faults`
  in `QuiescentIsVetted` and `PendingIsLocked`.
- An approval racing a rejection by another admin (`views.py:781,796`): `save()`
  inserts the deleted account again, or the token is lost with it.  Hence `ApprovalsAreSafe`.
- Two admins approving the same signup while the ring user is deleted through the API
  (`views.py:748-763`): one has loaded the row that is gone, the other creates and links a new
  one, and the first then moves the link back to the missing row.  Hence `Removable = {} \/
  OneAdmin` in `LinkIsStable`.
- A login that loaded its ring user, which is then deleted and created anew by a repeated
  approval: `ring_user.save()` inserts the old row again and fails on the username.  A step of
  `SyncRing`.  If the login is the first of the two, the approval goes on with a ring user of its own
  and moves the account away from the one that is back (`views.py:890-904`, found while proving
  `IdentityKeepsAccount`, hence `Removable = {} \/ OneWorker` in it).
- An approval of a PeeringDB signup beside any other request (a login of the identity, a second approval, a
  rejection) may be marked without its account being complete: `pdb_stale_save` is one way.  Hence
  `OneWorker` in `ApprovedIsComplete` of `PdbLogin`.
- A signup with a blank ring username whose approval died after creating the ring user can never be approved,
  as in finding 4: the ring user of its username is there.  Hence `~Faults` in `PendingGetsApproved`.
- A pending PeeringDB identity that logs in again gets a second account before the
  unique `peeringdb_id` stops it (`views.py:909,920`); so does an identity in two
  tabs, and one whose ring user was deleted through the API.  Those accounts are
  on nobody's list.  Hence the conditions of `NoOrphanAccount`.
- A PATCH of a machine saves the row it loaded (`api/viewsets.py:77`): `alive_*` and
  `last_active`, which `serializers.py:105` declares read-only, go back to what they were
  before a status run that overlapped.  The next run corrects them
  (`ReportingIsActivated` holds beside edits).
- Likewise a request that overlaps an admin's writes an old participant or admin flag
  back; so does one that overlaps a seed.  Hence the conditions of `ScopeIsKept`, `ParticipantsAreAdminMade` and
  `AdminsAreAdminMade`.
- The code does not refuse an ordinary user's DELETE of the own participant
  (`api/viewsets.py:80`), nor anybody's in read-only mode; only foreign keys do, as an HTTP 500.
  When an admin removes the user's ring user between check and deletion, nothing does.
- A host key type that is new, and shown over IPv4 and IPv6, is stored twice
  (`ring_scan_hostkeys.py:75`).  A machine deleted during a scan ends the scan of all
  machines after it (`ring_scan_hostkeys.py:27`).
- A callback with a wrong state takes the right one out of the session
  (`views.py:948`): of two tabs that log in, neither succeeds.  A choice of network posted
  twice at once is provisioned twice (`views.py:986`).
- `bump_kpi_version` (`kpi_cache.py:45`) advances a version that only the status command's own process
  ever reads; the web processes wait for the entries to expire.
- After a push that was rejected, the next deployments stop at the empty commit (`services/deploy.py:60`)
  and do not push, until some file changes again.
- `docs/deployment-apache2.md:148` runs `ring_generate_webpost --publish` from cron without the username
  the command requires.
- An approval of a PeeringDB signup that died after creating the ring user cannot be
  repeated (`views.py:1043`).

## 5. Proofs

The theorems hold for every set of people, names, organisations, networks, browsers and hosts, every
bound and every sequence of deployments that satisfies the assumptions of the modules
(`StoreAssumption`, `SignupAssumption`, `PdbAssumption`, `OAuthAssumption`, `StatusAssumption`,
`KpiAssumption`, `InventoryAssumption`, `ScanAssumption`, `CommandsAssumption`).  The assumptions say that the
parameters have their types, that `None` is no value, that imported rows are consistent (in `Inventory`: that
foreign keys of the rows at the start, which are also the dump, resolve), that an answer of `ssh-keyscan` has a type
at most once per address family, and that the hosts of `NodeStatus` and `KpiCache` are finitely many; TLC evaluates
them in the runs.

| module | theorems, and the property of a run they state |
|---|---|
| `SelfSignupProofs` | `TypeCorrect` (`TypeOK`), `TokensAreActive` (`TokenImpliesActive`), `ApprovedAccountsAreActive` (`ApprovedIsActive`), `ReadOnlyHolds`, `ApprovalsAreComplete` (`ApprovedIsComplete`), `AccountsAreVetted` (`QuiescentIsVetted`), `LinksAreStable` (`LinkIsStable`), `ServedAccountsAreOnFile` (`ServedAreOnFile`) |
| `PdbProofs` | `TypeCorrect` (`BackfillTypeOK`), `RecordedAsnsFit` (`RecordedAsnFits`), `ReadOnlyHolds` |
| `PdbPromiseProofs` | `AccountsFit` (`AccountFitsNetwork`), `ApprovalsAreComplete`, `PendingAreLocked` (`PendingIsLocked`), `IdentitiesKeepAccounts` (`IdentityKeepsAccount`), `BackfillsAreComplete` (`BackfillIsComplete`), `AccountsAreLinked` (`NoOrphanAccount`), `OrphansAreNotServed` (`OrphanIsNotServed`) |
| `OAuthProofs` | `TypeOKHolds`, `SessionIsOwnHolds`, `ConsentsLogInOnce` (`ConsentLogsInOnce`), `FreshLoginsAreAwaited` (`FreshLoginIsAwaited`) |
| `NodeStatusProofs` | `TypeCorrect`, `RunsSettle` (`UndisturbedRunSettles`) |
| `KpiProofs` | `TypeCorrect` (`TypeOK`), `NoDeadMachines` (`OnlyLiveMachines`), `PagesAreNotStale` (`StaleIsBounded`) |
| `InventoryProofs` | `RequestsKeepTheirScope` (`ScopeIsKept`), `OnlyAdminsMakeParticipants` (`ParticipantsAreAdminMade`), `OnlyAdminsMakeAdmins` (`AdminsAreAdminMade`), `CommandsAreTyped` (`CommandsTypeOK`), `ScansReconcile` (`ScanReconciles`), `KeysStayFew` (`KeysDoNotPileUp`), `DeploysDeliver` (`DeployDelivers`), `SeedsRestore` (`SeedRestores`) |

But for `ReadOnlyHolds`, whose property is in no run, these are all properties of `signup_interleaved`,
`pdb_interleaved`, `oauth_interleaved`, `inventory_interleaved`, `status_settles` and `kpi_staleness`.

### Inductive invariants, and why they are needed

*Signup.*  A token is issued several statements after the account was loaded and activated; that the
account is still active then depends on what other requests may be about to write.  `Inv` of
`SelfSignupProofs` adds: the *request shape* (which fields a request has filled at each statement, so
that the row it writes has its type); *the creator is alone* - between creating and queueing an account
no other request holds it, since nothing refers to it, so the only step that ever writes
`is_active = FALSE` meets no token and no approval; and *activated stays* - a request past `activate`
holds an account that is active or deleted.  Deletion takes the token and the signup along in one
transaction, and their foreign keys keep them from returning; an account that `save()` inserts again is
inserted as active.

*What signup promises.*  `Completing` says what an approval has written by each statement.  `Serving`: the
signup that an approval is about is on file until it ends, which is why whoever it links or serves is; a
rejection at its last statement has already taken the account away.  `OnFile` and
`Vetting`: every account has its signup or is still being created, usernames are unique (so that the
save which deactivates cannot fail), and an account that is active ahead of its signup has the approval
that will mark it.  `LinkIsStable` is the hardest: two approvals look for a ring user by *name*, at
different times.  `Rings`, `Names` and `Links` say that ring usernames are unique and their keys not
reused, that all approvals of one signup are for the same name, and that any ring user an approval holds
or an account has carries that name - so both found the same one, unless it was deleted between them;
`Sole` covers the deployment with deletions and one admin.

*PeeringDB.*  `Inv` of `PdbProofs` is the shape of requests, the reference of rows to what exists or
existed, and that whatever a request or the backfill is going to record fits.  `AccountFitsNetwork`
speaks of a ring user that may have been deleted and inserted again by `save()` from an old copy:
`History` says that there is *some* assignment of participants to ring users, and of identities to
accounts, that all rows, links and copies in memory agree with, now and before.  `Ownership` is the
creator-is-alone of this module.  On them rest `Complete` (how far an approval has got; with one worker, whose row
copies are never stale), `Locked` (an account that is usable, has
a token, or is about to be saved active, is pending only in the hands of its approval), `Steady` (what a
request is about to link is free, and still there where nothing is deleted) and `Homes`.  The last says
that where every network is known the names in `auth_user` and `ring_users` agree, so that none of the
statements between the creation of an account and its link can fail; it is what `NoOrphanAccount` needs
besides `OneTab`.  `Served`: a request that has the token or the mark still ahead has linked its account, and
no two accounts are linked to one identity.  `Passed`: the participants a backfill has behind it have an ASN or nothing to record;
`OftenCounts` and `LeastNumber` show that its choice of the most frequent ASN exists.

*OAuth session.*  What a request saves is what it loaded some steps before.  `Inv`: everything a request
holds is of a login its own browser began, and no session key is in two browsers' hands.  `Orderly`, for
requests that come one after the other: a consent whose profile waits, or is being entered with, has
logged nobody in, but for the moment between `auth_login` and the save of the session without the
profile; the newest login's state is in the session, or in the hands of the request that will save it.

*Node status.*  `CalmRun`: an undisturbed run has left exactly those updates that a run beginning now
would decide on.  No update makes another necessary or unnecessary, and the guards stay open as the hosts
they count become fewer (finite cardinalities).

*Dashboards.*  `KpiInvariant` gives whatever holds data a bound on the age of what it says about a
machine: the rows and reports a request has read are at most as old as the request; an entry with
`life` left says nothing older than `KPI_TTL + MaxRequest - life`; a page, nothing older than an entry at
the end of its life and the page's own request.  A request that stores late hands its age to the entry,
which is why the bound of `StaleIsBounded` has the length of two requests.  A host that has failed for
longer than that bound is in the list of failed hosts unless the list was cut off; finite cardinalities
say that a list which is not full has not been.

*Inventory.*  A request checks in one step and writes in another, so what it checked may no longer be so.  `Inv` of
`InventoryProofs` says first that an id keeps its kind (`Kinds`): rows in memory, rows of the dump and rows in the
tables under one id are of one table, since ids are not given twice.  Two arguments then carry the check to the write.
Where requests come in turn and nothing else writes, what was checked still holds (`Checked`, `InTurn`).  Among
ordinary users, any number of them at once and beside scans and seeds, each id has a *home* (`Homes`): a participant
that every row stored, dumped or held under that id belongs to.  A request can only change rows whose home is its own
participant, and leaves them there; no step ever moves a home.  `Reserved` is a third: where requests come in turn,
scans beside them touch host keys alone, so what a request may not write (a participant, an admin flag) it cannot
be about to write.

*Scans.*  `Corrects`: what is stored of the machine's keys, less the deletions, with the replacements and creations to
come, has exactly the types the machine showed and only keys it showed.  Each statement keeps that, and with none left
it is `ScanReconciles`.  For `KeysDoNotPileUp` a key that is stored, or that a create is still going to store, or
that a save is going to change into this type, holds a *place* (`Held`); a statement swaps one place for another and a
new answer brings two at most, as the machine shows a type at most once per family.

*Deployments.*  `Generating`: of a run beside which no row changed, the files it has passed are as the tables say,
the file at work has the lines of exactly the users done with, and what was committed fits.  `WantedIs` shows that
the lines of all users, one after the other, are what the tables say: every machine has a user and every host key a
machine.  `Posting` follows one post from file to commit to origin, whatever happens to the tables.

*Seeds.*  `Progress`: nothing is imported while a table is still to be emptied, what is emptied stays empty until it is
imported, what is imported stays.  With `ParentsFirst` (the order of `TABLE_ORDER` agrees with the foreign keys)
no row of a table that is due for deletion is referred to, and no row that is due for import lacks its parent.

In each module `Init => Inv` is immediate and `Inv /\ [Next]_vars => Inv'` has a lemma per action.  In
`InventoryProofs` one lemma (`StepCases`) says once what each kind of step changes.  In the
account modules an operator `XEffect` says what the action `X` changes and where it leaves the request, a
lemma `XDoes` proves it, and the proofs about invariants use nothing else.  `AccountStoreProofs` says what
`Put` and `Without` make of a table's domain, type and rows.

### What proving has changed

`IdentityKeepsAccount` of `PdbLogin` used to claim more than holds: the attempt to prove it showed an
interleaving outside the bounds of the runs (see "Met while modelling").  Its condition names it now.

So did the three action properties of `Inventory` and `KeysDoNotPileUp`: beside "requests come in turn" they need that
no seed replaces the tables meanwhile (and, for `ScopeIsKept` beside admins, no scan), and `KeysDoNotPileUp` that the
tables began with at most two keys of a type.  No deployment of a run had those together.  `OnlyOrdinary` says that
nobody is an admin *at the start*; that nobody becomes one is part of the proof.

### Only model-checked

- Liveness: `PendingGetsApproved`, `IdentityGetsLinked`, `ReportingIsActivated`,
  `MissingIsDeactivated`, `ReportingStaysActive`.  It rests on fairness, which is outside what the prover supports.
- The refinement `LifecycleIsKept` and `OthersRingUserIsKept` of `Accounts`.

## 6. Plan

1. **Done**: the modules above and the proofs of section 5.
2. Proofs left: `OthersRingUserIsKept`; what `AccountLifecycle` implies (a token belongs to an admitted
   account, an approved one has a token), and the refinement's step lemma, first for the serial server.
3. The choice of the purge, once the purge deletes.

**Not modelled, and why.**  Detail pages, charts, mail texts, DNS text and
geocoding change no state or are pure I/O.  The parser of `ring_seed` works character by character
on SQL text.  `ring_dbreadonly_check` and the database router are configuration, whose effect is `LegacyWritable`.
Migrations and Django's admin site are generated; their constraints appear in
the models.  HTTP exchanges with PeeringDB and git are external.
