-------------------------------- MODULE Deploy --------------------------------
(***************************************************************************)
(* What is generated from the tables and published through git             *)
(* (ring/services/deploy.py, ansiblefiles.py, webpost.py, the commands     *)
(* ring_ansible_deploy and ring_generate_webpost).  Each of the two        *)
(* repositories has one clone, which a run pulls, regenerates, commits and *)
(* pushes; every step may fail or be killed, and leaves the clone as it    *)
(* is to the next run.  Other people push to the same origins; rows are    *)
(* edited while the files are generated.                                   *)
(***************************************************************************)
EXTENDS Inventory

CONSTANT KeyDir  \* contents of the directory of user keys that rsync mirrors

VARIABLES
  clone,  \* repository -> its clone, and the origin it pushes to
  job     \* repository -> the run at work in it, or how the last one ended

deployVars == <<clone, job>>

Repo == {"ansible", "web"}
File == {"sshkeys", "hosts", "hosts.active", "hostkeys", "users", "posts"}
Generated == {"hosts", "hosts.active", "hostkeys", "users"}
AnsibleSteps ==
  <<"pull", "sshkeys", "hosts", "hosts.active", "hostkeys", "users", "commit", "push">>
WebSteps == <<"pull", "posts", "commit", "push">>
Steps(r) == IF r = "ansible" THEN AnsibleSteps ELSE WebSteps

(* A file is a set of lines; a line, a tuple of what it is made of.        *)
NoFiles == [f \in File |-> {}]
NoRun == [at |-> 0, users |-> None, queue |-> {}, lines |-> {}, end |-> None, still |-> FALSE]

DeploySiteOK ==
  /\ None \notin {"done", "nothing"}
  /\ \A i \in DOMAIN Deployments : Deployments[i].repos \subseteq Repo

DeployTypeOK ==
  \A r \in Repo :
    /\ clone[r].ahead \in BOOLEAN /\ clone[r].behind \in BOOLEAN
    /\ \A t \in {clone[r].work, clone[r].head, clone[r].origin} : DOMAIN t = File
    /\ ~clone[r].ahead => clone[r].origin = clone[r].head
    /\ job[r].at \in 0..Len(Steps(r))
    /\ job[r].end \in {None, "done", "nothing"}
    /\ job[r].still \in BOOLEAN
    /\ job[r].queue \subseteq Id

DeployInit ==
  /\ clone = [r \in Repo |-> [work |-> NoFiles, head |-> NoFiles, origin |-> NoFiles,
                              ahead |-> FALSE, behind |-> FALSE]]
  /\ job = [r \in Repo |-> NoRun]

-----------------------------------------------------------------------------
Running(r) == job[r].at # 0
Reached(r, step) == Running(r) /\ Steps(r)[job[r].at] = step
Advance(r) == job' = [job EXCEPT ![r].at = @ + 1]
(* A run ends; which post it published stays known.                        *)
End(r, end) ==
  job' = [job EXCEPT ![r] = [NoRun EXCEPT !.end = end,
            !.still = end # None /\ job[r].still,
            !.lines = IF end = None THEN {} ELSE job[r].lines]]
Gives(r, field, x) == clone' = [clone EXCEPT ![r][field] = x]

Users(t) == {i \in DOMAIN t : t[i].kind = "user"}
MachinesOf(u) == {i \in DOMAIN rows : rows[i].kind = "machine" /\ rows[i].parent = u}

StartDeploy ==
  /\ "ansible" \in Site.repos
  /\ ~Running("ansible")
  /\ job' = [job EXCEPT !["ansible"] = [NoRun EXCEPT !.at = 1, !.still = TRUE]]
  /\ UNCHANGED clone

(* The post is about the user's participant and first machine, and dated;  *)
(* a user without machines has none.                                       *)
StartPublish(u, date) ==
  /\ "web" \in Site.repos
  /\ ~Running("web")
  /\ u \in Users(rows) /\ MachinesOf(u) # {}
  /\ job' = [job EXCEPT !["web"] =
       [NoRun EXCEPT !.at = 1, !.still = TRUE,
          !.lines = {<<u, rows[u].parent, CHOOSE m \in MachinesOf(u) : TRUE, date>>}]]
  /\ UNCHANGED clone

(* git checkout, without arguments, changes nothing.  git pull takes over  *)
(* what others committed, to other files; when there is a commit that was  *)
(* never pushed as well it merges, or refuses, as git is configured.       *)
Pull(r) ==
  /\ Reached(r, "pull")
  /\ \/ Gives(r, "behind", FALSE) /\ Advance(r)
     \/ clone[r].ahead /\ clone[r].behind /\ End(r, None) /\ UNCHANGED clone

(* rsync --delete, and git add.                                            *)
SyncKeys(keys) ==
  /\ Reached("ansible", "sshkeys")
  /\ clone' = [clone EXCEPT !["ansible"].work["sshkeys"] = {keys}]
  /\ Advance("ansible")

(***************************************************************************)
(* A generated file: the users are loaded, then the machines of one after  *)
(* the other.  Only the hosts of ordinary users are listed, but the host   *)
(* keys of all machines.  The users file is of one query.                  *)
(***************************************************************************)
InFile(f, u, row) == f # "hostkeys" => ~row.admin
KeysOn(m) == {rows[k].key : k \in {i \in DOMAIN rows : rows[i].kind = "hostkey" /\ rows[i].parent = m}}
Lines(f, u, row) ==
  CASE f = "users"    -> {<<u, row.parent>>}
    [] f = "hostkeys" -> UNION {{<<m, key>> : key \in KeysOn(m)} : m \in MachinesOf(u)}
    [] OTHER          -> {<<m, u>> : m \in MachinesOf(u)}

LoadUsers(f) ==
  /\ Reached("ansible", f) /\ job["ansible"].users = None
  /\ job' = [job EXCEPT !["ansible"].users = [u \in Users(rows) |-> rows[u]],
                        !["ansible"].queue = IF f = "users" THEN {} ELSE Users(rows),
                        !["ansible"].lines = IF f # "users" THEN {}
                          ELSE UNION {Lines(f, u, rows[u]) : u \in {v \in Users(rows) : ~rows[v].admin}}]
  /\ UNCHANGED clone

FetchMachines(f) ==
  LET owner == CHOOSE u \in job["ansible"].queue : \A v \in job["ansible"].queue : u <= v
      row == job["ansible"].users[owner] IN
  /\ Reached("ansible", f) /\ job["ansible"].queue # {}
  /\ job' = [job EXCEPT !["ansible"].queue = @ \ {owner},
       !["ansible"].lines = IF InFile(f, owner, row) THEN @ \union Lines(f, owner, row) ELSE @]
  /\ UNCHANGED clone

WriteFile(f) ==
  /\ Reached("ansible", f) /\ job["ansible"].users # None /\ job["ansible"].queue = {}
  /\ clone' = [clone EXCEPT !["ansible"].work[f] = job["ansible"].lines]
  /\ job' = [job EXCEPT !["ansible"].at = @ + 1, !["ansible"].users = None,
                        !["ansible"].lines = {}]

(* One post a user: its file is overwritten, and added.                    *)
WritePost ==
  /\ Reached("web", "posts")
  /\ \E post \in job["web"].lines :
       clone' = [clone EXCEPT !["web"].work["posts"] = {p \in @ : p[1] # post[1]} \union {post}]
  /\ Advance("web")

(* Mutant: git commit without -a takes only what was added.                *)
CommitAdded(r) ==
  /\ Reached(r, "commit")
  /\ LET added == [f \in File |-> IF f \in {"sshkeys", "posts"} THEN clone[r].work[f] ELSE clone[r].head[f]] IN
     IF added = clone[r].head THEN End(r, "nothing") /\ UNCHANGED clone
     ELSE Advance(r) /\ clone' = [clone EXCEPT ![r].head = added, ![r].ahead = TRUE]
(* git commit -am: with nothing to commit it fails, and the run ends here. *)
Commit(r) ==
  /\ Reached(r, "commit")
  /\ IF clone[r].work = clone[r].head THEN End(r, "nothing") /\ UNCHANGED clone
     ELSE /\ Advance(r)
          /\ clone' = [clone EXCEPT ![r].head = clone[r].work, ![r].ahead = TRUE]

(* Rejected when others pushed since the pull.                             *)
Push(r) ==
  /\ Reached(r, "push")
  /\ IF clone[r].behind THEN End(r, None) /\ UNCHANGED clone
     ELSE /\ End(r, "done")
          /\ clone' = [clone EXCEPT ![r].origin = clone[r].head, ![r].ahead = FALSE]

(* A step fails, a command returns an error (_run exits), or the run dies. *)
RunFails(r) ==
  /\ Running(r)
  /\ End(r, None)
  /\ UNCHANGED clone

Deploys ==
  /\ \/ StartDeploy
     \/ \E u \in Users(rows), date \in 0..1 : StartPublish(u, date)
     \/ \E keys \in KeyDir : SyncKeys(keys)
     \/ \E f \in Generated : LoadUsers(f) \/ FetchMachines(f) \/ WriteFile(f)
     \/ WritePost
     \/ \E r \in Repo : Pull(r) \/ Commit(r) \/ Push(r) \/ RunFails(r)
  /\ UNCHANGED inventoryVars

(* Somebody else pushes to an origin.                                      *)
OthersPush(r) ==
  /\ r \in Site.repos
  /\ Gives(r, "behind", TRUE)
  /\ UNCHANGED <<inventoryVars, job>>

(* What a change of the tables does to the history of the runs.            *)
RowsSeenByDeploys == job' = [r \in Repo |->
  IF rows' = rows THEN job[r] ELSE [job[r] EXCEPT !.still = FALSE]]

-----------------------------------------------------------------------------
(* The files as they should be: from the tables, not as they are made.     *)
Owner(m) == rows[m].parent
Machines == {m \in DOMAIN rows : rows[m].kind = "machine"}
Deployed == [
  hosts    |-> {<<m, Owner(m)>> : m \in {n \in Machines : ~rows[Owner(n)].admin}},
  hostkeys |-> {<<rows[k].parent, rows[k].key>> : k \in {i \in DOMAIN rows : rows[i].kind = "hostkey"}},
  users    |-> {<<u, rows[u].parent>> : u \in {v \in Users(rows) : ~rows[v].admin}}]
Fits(t) ==
  /\ \A f \in DOMAIN Deployed : t[f] = Deployed[f]
  /\ t["hosts.active"] = Deployed.hosts

(***************************************************************************)
(* A run that ends well has delivered: once ring_ansible_deploy ends and   *)
(* the tables are what they were when it began, the origin holds the hosts *)
(* of ordinary users, every host key and the ordinary users, whatever runs *)
(* that died half-way, could not push or overlapped edits had left in the  *)
(* clone; and a published post is in its origin.  That goes for a run that *)
(* ends because there is nothing to commit, too, unless a commit was made  *)
(* earlier and not pushed: what it generated is in that commit, which no   *)
(* run pushes before something changes.                                    *)
(***************************************************************************)
Delivered(r, Has(_)) ==
  /\ job[r].end = "done" => Has(clone[r].origin)
  /\ job[r].end = "nothing" => Has(clone[r].head) /\ (clone[r].ahead \/ Has(clone[r].origin))
HasPost(t) == job["web"].lines \subseteq t["posts"]
DeployDelivers ==
  /\ job["ansible"].still => Delivered("ansible", Fits)
  /\ Delivered("web", HasPost)
=============================================================================
