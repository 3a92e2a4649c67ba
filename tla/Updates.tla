------------------------------ MODULE Updates ------------------------------
(***************************************************************************)
(* internal/bfl/server.go: the owner restarts a workload so that it pulls  *)
(* its image again, and lists the workloads with the state that requests   *)
(* leave in Redis.  One workload; requests, lists, the cluster's           *)
(* controllers and whoever upgrades the workload's chart run concurrently. *)
(***************************************************************************)
EXTENDS Naturals, Values

CONSTANTS
  Restarters,      \* requests to restart the workload
  Lists,           \* requests that list the workloads
  MaxUpgrades,     \* chart upgrades and installs (a bound)
  MaxRefusals      \* commands that the API server or Redis fails, requests cut off (a bound)

Templates == [image : Nat, mark : Restarters \cup {None}]

ASSUME UpdatesAssumption ==
  /\ None \notin Templates
  /\ None \notin {"restarting", "idle"}

VARIABLES
  template,   \* the workload: its image and the restart that marked it; None when uninstalled
  upgrades,   \* the chart upgrades and installs so far
  removed,    \* helm removed the workload and has not installed it since
  pods,       \* "running", "waiting", "terminating" or "unknown"
  entry,      \* Redis: None, or the update's state
  restart,    \* each restart: where it is, the copy it read, and whether that is still stored
  list,       \* each list: where it is and what it has read
  left,       \* requests were cut off before their last write to Redis, or it failed
  refusals

updateVars == <<template, upgrades, removed, pods, entry, restart, list, left, refusals>>

Untouched == [at |-> "idle", copy |-> None, stored |-> FALSE]

Refusal == refusals < MaxRefusals /\ refusals' = refusals + 1

MayBeRefused == Refusal \/ UNCHANGED refusals

\* The last write of a request; an error of Redis is ignored.
Records(state) ==
  \/ entry' = state /\ UNCHANGED left
  \/ refusals' # refusals /\ left' = TRUE /\ UNCHANGED entry

RestartGoes(r, at) == restart' = [restart EXCEPT ![r].at = at]

\* Any write of the object, its status included, is a new version.
Versioned(requests) == [r \in Restarters |-> [requests[r] EXCEPT !.stored = FALSE]]

\* handleUpdateRestart: "restarting" is written before anything is looked up.
RestartBegins(r) ==
  /\ restart[r].at = "idle"
  /\ \/ entry' = "restarting" /\ UNCHANGED refusals
     \/ Refusal /\ UNCHANGED entry
  /\ RestartGoes(r, "get")
  /\ UNCHANGED <<template, upgrades, removed, pods, list, left>>

\* A Deployment, or else a DaemonSet of that name.
WorkloadRead(r) ==
  /\ restart[r].at = "get" /\ template # None
  /\ restart' = [restart EXCEPT ![r] = [at |-> "delete", copy |-> template, stored |-> TRUE]]
  /\ UNCHANGED <<template, upgrades, removed, pods, entry, list, left, refusals>>

\* Any error of either read counts as not found.
WorkloadUnknown(r) ==
  /\ restart[r].at = "get"
  /\ IF template = None THEN MayBeRefused ELSE Refusal
  /\ Records(None)
  /\ RestartGoes(r, "done")
  /\ UNCHANGED <<template, upgrades, removed, pods, list>>

\* The pods are deleted first, for the host's ports; an error is ignored.  Two seconds pass.
PodsDeleted(r) ==
  /\ restart[r].at = "delete"
  /\ \/ pods' = "terminating" /\ UNCHANGED refusals
     \/ UNCHANGED pods /\ Refusal
  /\ RestartGoes(r, "update")
  /\ UNCHANGED <<template, upgrades, removed, entry, list, left>>

Forces(r) == TRUE   \* a slip: the copy is applied, whatever became of the workload since

\* The API server refuses a copy that is no longer the stored version.
Accepts(r) == template # None /\ restart[r].stored

TemplateUpdated(r) ==
  /\ restart[r].at = "update" /\ Accepts(r)
  /\ template' = [restart[r].copy EXCEPT !.mark = r]
  /\ restart' = [Versioned(restart) EXCEPT ![r].at = "pulling"]
  /\ pods' = "waiting"
  /\ UNCHANGED <<upgrades, removed, entry, list, left, refusals>>

UpdateRefused(r) ==
  /\ restart[r].at = "update"
  /\ IF Accepts(r) THEN Refusal ELSE MayBeRefused
  /\ Records("failed")
  /\ RestartGoes(r, "done")
  /\ UNCHANGED <<template, upgrades, removed, pods, list>>

PullingRecorded(r) ==
  /\ restart[r].at = "pulling"
  /\ MayBeRefused /\ Records("pulling")
  /\ RestartGoes(r, "done")
  /\ UNCHANGED <<template, upgrades, removed, pods, list>>

\* The client goes away and its context is cancelled, or the process ends.
RestartCutOff(r) ==
  /\ restart[r].at \notin {"idle", "done"} /\ Refusal
  /\ RestartGoes(r, "done") /\ left' = TRUE
  /\ UNCHANGED <<template, upgrades, removed, pods, entry, list>>

\* handleUpdates: the pods are read before Redis is, and the registry asked in between
\* that and the last step.
PodsListed(l) ==
  /\ list[l].at = "idle"
  /\ list' = [list EXCEPT ![l] = [at |-> "entries", running |-> pods = "running", entry |-> None]]
  /\ UNCHANGED <<template, upgrades, removed, pods, entry, restart, left, refusals>>

\* What Redis does not answer is left out.
EntriesListed(l) ==
  /\ list[l].at = "entries"
  /\ \/ list' = [list EXCEPT ![l].at = "answer", ![l].entry = entry] /\ UNCHANGED refusals
     \/ list' = [list EXCEPT ![l].at = "answer"] /\ Refusal
  /\ UNCHANGED <<template, upgrades, removed, pods, entry, restart, left>>

\* An update whose pods ran is shown as complete and forgotten, whatever it is by now.
Completes(l) == list[l].running /\ list[l].entry \in {"restarting", "pulling"}

ListAnswered(l) ==
  /\ list[l].at = "answer"
  /\ \/ entry' = (IF template # None /\ Completes(l) THEN None ELSE entry) /\ UNCHANGED refusals
     \/ Completes(l) /\ Refusal /\ UNCHANGED entry
  /\ list' = [list EXCEPT ![l].at = "done"]
  /\ UNCHANGED <<template, upgrades, removed, pods, restart, left>>

\* Redis after updateStateTTL, or a list that finds the entry older than that.
EntryExpires ==
  /\ entry # None /\ \A r \in Restarters : restart[r].at \in {"idle", "done"}
  /\ entry' = None
  /\ UNCHANGED <<template, upgrades, removed, pods, restart, list, left, refusals>>

\* The cluster replaces pods; each change is recorded in the workload's status.
PodsMove ==
  /\ template # None /\ pods # "running"
  /\ pods' = IF pods = "terminating" THEN "waiting" ELSE "running"
  /\ restart' = Versioned(restart)
  /\ UNCHANGED <<template, upgrades, removed, entry, list, left, refusals>>

\* Helm writes a new image, uninstalls the workload or installs it again.
ChartUpgraded ==
  /\ template # None /\ upgrades < MaxUpgrades
  /\ upgrades' = upgrades + 1
  /\ template' = [template EXCEPT !.image = upgrades']
  /\ pods' = "waiting"
  /\ restart' = Versioned(restart)
  /\ UNCHANGED <<removed, entry, list, left, refusals>>

WorkloadRemoved ==
  /\ template # None
  /\ template' = None /\ pods' = "unknown" /\ removed' = TRUE
  /\ restart' = Versioned(restart)
  /\ UNCHANGED <<upgrades, entry, list, left, refusals>>

WorkloadInstalled ==
  /\ template = None /\ upgrades < MaxUpgrades
  /\ upgrades' = upgrades + 1
  /\ template' = [image |-> upgrades', mark |-> None]
  /\ pods' = "waiting" /\ removed' = FALSE
  /\ UNCHANGED <<entry, restart, list, left, refusals>>

UpdatesInit ==
  /\ template = [image |-> 0, mark |-> None] /\ upgrades = 0 /\ removed = FALSE
  /\ pods = "running" /\ entry = None
  /\ restart = [r \in Restarters |-> Untouched]
  /\ list = [l \in Lists |-> [at |-> "idle", running |-> FALSE, entry |-> None]]
  /\ left = FALSE /\ refusals = 0

UpdatesNext ==
  \/ \E r \in Restarters :
       \/ RestartBegins(r) \/ WorkloadRead(r) \/ WorkloadUnknown(r) \/ PodsDeleted(r)
       \/ TemplateUpdated(r) \/ UpdateRefused(r) \/ PullingRecorded(r) \/ RestartCutOff(r)
  \/ \E l \in Lists : PodsListed(l) \/ EntriesListed(l) \/ ListAnswered(l)
  \/ EntryExpires \/ PodsMove \/ ChartUpgraded \/ WorkloadRemoved \/ WorkloadInstalled

UpdatesTypeOK ==
  /\ template \in {None} \cup Templates /\ upgrades \in Nat /\ removed \in BOOLEAN
  /\ pods \in {"running", "waiting", "terminating", "unknown"}
  /\ entry \in {None, "restarting", "pulling", "failed"}
  /\ restart \in [Restarters ->
       [at : {"idle", "get", "delete", "update", "pulling", "done"},
        copy : {None} \cup Templates, stored : BOOLEAN]]

(***************************************************************************)
(* Restarts settle: a restart writes back the workload it read two seconds *)
(* before and more (server.go:1178, 1195), yet it never undoes an upgrade  *)
(* or a new install that came in between, and what helm removed stays      *)
(* removed; and once no restart runs, none is shown as still restarting,   *)
(* unless a request was cut off before its last write to Redis, or that    *)
(* write failed: handleUpdateRestart ignores its error (1198, 1206, 1236). *)
(***************************************************************************)
RestartsSettle ==
  /\ IF removed THEN template = None ELSE template # None /\ template.image = upgrades
  /\ (\A r \in Restarters : restart[r].at \in {"idle", "done"}) /\ ~left => entry # "restarting"
=============================================================================
