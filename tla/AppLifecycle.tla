---------------------------- MODULE AppLifecycle ----------------------------
(***************************************************************************)
(* internal/appservice/service.go: installing, uninstalling, suspending and *)
(* resuming apps.  Every request runs an HTTP handler and then a background *)
(* goroutine; beside them run the 30 s status sync and, after each start of *)
(* the process, one reconciliation of the public domains.  All of them      *)
(* share the store (AppStore), the cluster (AppCluster) and the public      *)
(* domains (PublicDomains) and no lock is held across a request.            *)
(*                                                                         *)
(* One step is one assignment to the record with its store.Put, one helm or *)
(* kubectl command, or one call of PublicDomainSync.  The public-access     *)
(* toggle of handler.go is a request too.                                   *)
(***************************************************************************)
EXTENDS Naturals, AppStore, AppCluster, PublicDomains

CONSTANTS
  Reqs,        \* the requests users make; each is made at most once (a bound)
  Kinds,       \* the kinds of request they may make
  Serial,      \* users wait for an app's request to end before the next
  MaxCrashes   \* restarts of the process (a bound)

VARIABLES
  req,         \* per request: where it is and what it holds
  sync,        \* syncStatuses: where it is and what it has read
  boot,        \* the startup goroutine that calls Reconcile
  crashes      \* restarts so far

vars == <<storeVars, clusterVars, domainVars, req, sync, boot, crashes>>

AllKinds ==
  {"install", "uninstall", "wipe", "suspend", "resume", "publish", "unpublish"}

ASSUME LifecycleAssumption ==
  /\ Recs = Reqs \cup Apps
  /\ Reqs \cap Apps = {}
  /\ Kinds \subseteq AllKinds
  /\ Serial \in BOOLEAN
  /\ MaxCrashes \in Nat

InstallSteps ==
  {"clean", "create", "download", "fetch", "values", "purge", "helmInstall",
   "helmWait", "cleanup", "broken", "running", "register"}
UninstallSteps ==
  {"unmark", "helmUninstall", "unable", "orphans", "deregister", "unclaim", "finish", "forget"}
ScaleSteps == {"mark", "scale", "settled", "unsettled"}
ToggleSteps == {"toggle"}
Busy == InstallSteps \cup UninstallSteps \cup ScaleSteps \cup ToggleSteps \cup {"claim"}

\* "lost": an install cut short by a crash after it dropped the old record and
\* before it stored the new one.
Over == {"new", "done", "lost"}

-----------------------------------------------------------------------------
(* Helper formulae *)

Unused == [pc |-> "new", kind |-> "install", app |-> None, rec |-> None, hosts |-> {}]

\* Of a request that is over only its app is remembered (AppOf needs it).
Ended(r, pc) == [Unused EXCEPT !.pc = pc, !.app = req[r].app]

Working(r) == req[r].pc \in Busy
Quiet(a) == \A r \in Reqs : Working(r) => req[r].app # a

AppOf(rec) == IF rec \in Apps THEN rec ELSE req[rec].app

Goto(r, pc) ==
  req' = [req EXCEPT ![r] = IF pc = "done" THEN Ended(r, pc) ELSE [@ EXCEPT !.pc = pc]]

At(r, pc) == req[r].pc = pc
For(r, kinds) == req[r].kind \in kinds

\* rec.State = s; store.Put(rec) by the worker of request r.
SetState(r, s, outcome) ==
  Put(req[r].app, req[r].rec, [heap[req[r].rec] EXCEPT !.state = s], outcome)

\* The same where the caller ignores the error of Put.
Becomes(r, s) == \E outcome \in SaveOutcomes : SetState(r, s, outcome)

HostsOf(rec) == HostsFor(AppOf(rec), heap[rec].entered, heap[rec].public)

OutsideStore == <<clusterVars, domainVars, sync, boot, crashes>>
OutsideCluster == <<storeVars, domainVars, sync, boot, crashes>>

\* A step of request r that only changes the cluster by C and moves on to pc.
Commands(r, C, pc) == C /\ Goto(r, pc) /\ UNCHANGED OutsideCluster

-----------------------------------------------------------------------------
(* Requests arrive *)

Starts(r, kind, a, pc) ==
  /\ At(r, "new") /\ kind \in Kinds
  /\ Serial => Quiet(a)
  /\ req' = [req EXCEPT ![r] =
               [@ EXCEPT !.pc = pc, !.kind = kind, !.app = a,
                         !.rec = IF kind = "install" THEN r ELSE apps[a]]]
  /\ UNCHANGED <<storeVars, OutsideStore>>

\* Install looks at the existing record before it replaces it.
RequestInstall(r, a) ==
  /\ apps[a] # None =>
       heap[apps[a]].state \notin {"Running", "Installing", "Downloading"}
  /\ Starts(r, "install", a, IF apps[a] = None THEN "create" ELSE "clean")

\* Uninstall ("wipe": with DeleteData, which also drops the record) accepts any
\* record.
RequestUninstall(r, a) ==
  /\ apps[a] # None
  /\ \E kind \in {"uninstall", "wipe"} : Starts(r, kind, a, "unmark")

RequestSuspend(r, a) ==
  /\ apps[a] # None /\ heap[apps[a]].state = "Running"
  /\ Starts(r, "suspend", a, "mark")

RequestResume(r, a) ==
  /\ apps[a] # None /\ heap[apps[a]].state = "Stopped"
  /\ Starts(r, "resume", a, "mark")

RequestToggle(r, a) ==
  /\ apps[a] # None
  /\ \E kind \in {"publish", "unpublish"} : Starts(r, kind, a, "toggle")

-----------------------------------------------------------------------------
(* Install and doInstall *)

\* The old record goes first ...
InstallCleans(r) ==
  /\ At(r, "clean") /\ Goto(r, "create")
  /\ \E outcome \in SaveOutcomes : Delete(req[r].app, outcome)
  /\ UNCHANGED OutsideStore

\* ... then the new one is stored; the worker starts only if that succeeded.
InstallCreates(r) ==
  /\ At(r, "create")
  /\ \E outcome \in SaveOutcomes :
       /\ Put(req[r].app, r, [Blank EXCEPT !.state = "Pending"], outcome)
       /\ Goto(r, IF outcome = "ok" THEN "download" ELSE "done")
  /\ UNCHANGED OutsideStore

InstallDownloads(r) ==
  /\ At(r, "download") /\ Goto(r, "fetch")
  /\ Becomes(r, "Downloading")
  /\ UNCHANGED OutsideStore

\* DownloadChart, then the manifest, which may be missing or broken: the record
\* then goes on without entrances.
InstallFetches(r) ==
  /\ At(r, "fetch") /\ Goto(r, "values")
  /\ \E outcome \in SaveOutcomes, entered \in {FALSE, Entrances[req[r].app] # {}} :
       Put(req[r].app, r, [heap[r] EXCEPT !.entered = entered], outcome)
  /\ UNCHANGED OutsideStore

\* Namespace, postgres and values.yaml are prepared, images are pulled.
InstallPrepares(r) ==
  /\ At(r, "values") /\ Goto(r, "purge")
  /\ Becomes(r, "Installing")
  /\ UNCHANGED OutsideStore

\* The chart cannot be downloaded, values.yaml cannot be written, or helm failed.
InstallGivesUp(r) ==
  /\ req[r].pc \in {"fetch", "values", "broken"} /\ Goto(r, "done")
  /\ Becomes(r, "InstallFailed")
  /\ UNCHANGED OutsideStore

\* A stale release is uninstalled; the outcome is ignored.
InstallPurges(r) ==
  LET a == req[r].app
  IN At(r, "purge") /\ Commands(r, HelmUninstalls(a) \/ HelmUninstallFails(a), "helmInstall")

HelmStarts(r) ==
  At(r, "helmInstall") /\ Commands(r, HelmInstallBegins(req[r].app), "helmWait")

\* helm refuses a name in use, or does not get as far as recording a release.
HelmRefuses(r) ==
  /\ At(r, "helmInstall")
  /\ release[req[r].app] # "none" \/ "helm" \in ClusterFaults
  /\ Commands(r, UNCHANGED clusterVars, "cleanup")

HelmSucceeds(r) ==
  At(r, "helmWait") /\ Commands(r, HelmInstallEnds(req[r].app), "running")

HelmBreaks(r) ==
  At(r, "helmWait") /\ Commands(r, HelmInstallBreaks(req[r].app), "cleanup")

\* After a failed helm install: uninstall what is there, then give up.
InstallCleansUp(r) ==
  LET a == req[r].app
  IN At(r, "cleanup") /\ Commands(r, HelmUninstalls(a) \/ HelmUninstallFails(a), "broken")

InstallRuns(r) ==
  /\ At(r, "running") /\ Goto(r, "register")
  /\ Becomes(r, "Running")
  /\ UNCHANGED OutsideStore

\* Slip: the Application resource is not applied.
SkipsRegistering(r) ==
  /\ At(r, "register")
  /\ req' = [req EXCEPT ![r] = [@ EXCEPT !.pc = "claim", !.hosts = HostsOf(r)]]
  /\ UNCHANGED <<storeVars, OutsideStore>>

\* ApplyApplicationCRD; then hostsForApp reads the record for the Sync to come.
InstallRegisters(r) ==
  /\ At(r, "register")
  /\ SetsCRD(req[r].app, TRUE)
  /\ req' = [req EXCEPT ![r] = [@ EXCEPT !.pc = "claim", !.hosts = HostsOf(r)]]
  /\ UNCHANGED OutsideCluster

-----------------------------------------------------------------------------
(* PublicDomainSync.Sync, the last step of an install and of a toggle *)

Claims(r) ==
  /\ At(r, "claim") /\ Goto(r, "done")
  /\ \E outcome \in Outcomes : Sync(req[r].app, req[r].hosts, outcome)
  /\ UNCHANGED <<storeVars, clusterVars, sync, boot, crashes>>

\* handlePublicAccess: the flag is stored, then the hosts are computed.
Toggles(r) ==
  LET rec == req[r].rec
      new == [heap[rec] EXCEPT !.public = (req[r].kind = "publish")]
  IN /\ At(r, "toggle")
     /\ \E outcome \in SaveOutcomes : Put(req[r].app, rec, new, outcome)
     /\ req' = [req EXCEPT ![r] = [@ EXCEPT !.pc = "claim",
            !.hosts = HostsFor(req[r].app, new.entered, new.public)]]
     /\ UNCHANGED OutsideStore

-----------------------------------------------------------------------------
(* Uninstall *)

UninstallMarks(r) ==
  /\ At(r, "unmark")
  /\ \E outcome \in SaveOutcomes :
       /\ SetState(r, "Uninstalling", outcome)
       /\ Goto(r, IF outcome = "ok" THEN "helmUninstall" ELSE "done")
  /\ UNCHANGED OutsideStore

UninstallSucceeds(r) ==
  At(r, "helmUninstall") /\ Commands(r, HelmUninstalls(req[r].app), "orphans")

\* Slip: the return after a failed helm uninstall is missing.
UninstallGoesOn(r) ==
  At(r, "helmUninstall") /\ Commands(r, HelmUninstallFails(req[r].app), "orphans")

\* An error, and that there is no release to uninstall is one, ends the request.
UninstallFails(r) ==
  At(r, "helmUninstall") /\ Commands(r, HelmUninstallFails(req[r].app), "unable")

\* Slip: the goroutine returns without recording the failure.
UninstallGivesUpSilently(r) ==
  /\ At(r, "unable") /\ Goto(r, "done")
  /\ UNCHANGED <<storeVars, OutsideStore>>

UninstallGivesUp(r) ==
  /\ At(r, "unable") /\ Goto(r, "done")
  /\ Becomes(r, "UninstallFailed")
  /\ UNCHANGED OutsideStore

UninstallCollects(r) ==
  At(r, "orphans") /\ Commands(r, DeletesOrphans(req[r].app), "deregister")

UninstallDeregisters(r) ==
  At(r, "deregister") /\ Commands(r, SetsCRD(req[r].app, FALSE), "unclaim")

\* Slip: the claims are dropped and the ConfigMap is not written.
UninstallUnclaimsOnly(r) ==
  /\ At(r, "unclaim") /\ Goto(r, "finish")
  /\ byApp' = [byApp EXCEPT ![req[r].app] = {}]
  /\ UNCHANGED <<lastBody, configMap, lastErr, storeVars, clusterVars, sync, boot, crashes>>

UninstallUnclaims(r) ==
  /\ At(r, "unclaim") /\ Goto(r, "finish")
  /\ \E outcome \in Outcomes : Sync(req[r].app, {}, outcome)
  /\ UNCHANGED <<storeVars, clusterVars, sync, boot, crashes>>

\* After up to 60 s for the pods to go, and the removal of images and data.
UninstallFinishes(r) ==
  /\ At(r, "finish") /\ Goto(r, IF For(r, {"wipe"}) THEN "forget" ELSE "done")
  /\ Becomes(r, "Uninstalled")
  /\ UNCHANGED OutsideStore

UninstallForgets(r) ==
  /\ At(r, "forget") /\ Goto(r, "done")
  /\ \E outcome \in SaveOutcomes : Delete(req[r].app, outcome)
  /\ UNCHANGED OutsideStore

-----------------------------------------------------------------------------
(* Suspend and Resume *)

\* Slip: the final state is stored before the workloads are scaled.
ScaleMarksEarly(r) ==
  /\ At(r, "mark") /\ Goto(r, "scale")
  /\ Becomes(r, IF For(r, {"suspend"}) THEN "Stopped" ELSE "Running")
  /\ UNCHANGED OutsideStore

ScaleMarks(r) ==
  /\ At(r, "mark")
  /\ \E outcome \in SaveOutcomes :
       /\ SetState(r, IF For(r, {"suspend"}) THEN "Stopping" ELSE "Resuming", outcome)
       /\ Goto(r, IF outcome = "ok" THEN "scale" ELSE "done")
  /\ UNCHANGED OutsideStore

Level(r) == IF For(r, {"suspend"}) THEN "down" ELSE "up"

ScaleSucceeds(r) ==
  At(r, "scale") /\ Commands(r, Scales(req[r].app, Level(r)), "settled")

\* kubectl fails, or nothing carries the label.
ScaleGivesUp(r) ==
  At(r, "scale") /\ Commands(r, ScaleFails(req[r].app, Level(r)), "unsettled")

ScaleSettles(r) ==
  /\ At(r, "settled") /\ Goto(r, "done")
  /\ Becomes(r, IF For(r, {"suspend"}) THEN "Stopped" ELSE "Running")
  /\ UNCHANGED OutsideStore

ScaleFailed(r) ==
  /\ At(r, "unsettled") /\ Goto(r, "done")
  /\ Becomes(r, IF For(r, {"suspend"}) THEN "StopFailed" ELSE "ResumeFailed")
  /\ UNCHANGED OutsideStore

-----------------------------------------------------------------------------
(* syncStatuses *)

SyncIdle == [pc |-> "idle", seen |-> [a \in Apps |-> "missing"], todo |-> {},
             rec |-> None, to |-> "Uninstalled"]

OutsideSync == <<clusterVars, domainVars, req, boot, crashes>>

\* Slip: a deployed release only confirms an install.
CorrectsInstalls(status, s) ==
  CASE status = "missing" /\ s \notin {"Uninstalled", "Uninstalling",
                                       "InstallFailed", "UninstallFailed"} -> "Uninstalled"
    [] status = "deployed" /\ s = "Installing" -> "Running"
    [] status = "failed" /\ s = "Installing" -> "InstallFailed"
    [] OTHER -> s

\* The state a record in state s is moved to when helm reports status.
Corrected(status, s) ==
  CASE status = "missing" /\ s \notin {"Uninstalled", "Uninstalling",
                                       "InstallFailed", "UninstallFailed"} -> "Uninstalled"
    [] status = "deployed" /\ s \notin {"Running", "Uninstalling", "Stopped"} -> "Running"
    [] status = "failed" /\ s = "Installing" -> "InstallFailed"
    [] OTHER -> s

\* helm list; a round whose list fails does nothing.
SyncLists ==
  /\ sync.pc = "idle"
  /\ sync' = [sync EXCEPT !.pc = "listed", !.seen = Listed]
  /\ UNCHANGED <<storeVars, OutsideSync>>

\* Slip: names without a record are listed too.
SyncReadsHoles ==
  /\ sync.pc = "listed"
  /\ sync' = [sync EXCEPT !.pc = "walk", !.todo = {apps[a] : a \in Apps}]
  /\ UNCHANGED <<storeVars, OutsideSync>>

\* store.List: pointers to the records there are now.
SyncReads ==
  /\ sync.pc = "listed"
  /\ LET recs == {apps[a] : a \in Apps} \ {None}
     IN sync' = IF recs = {} THEN SyncIdle ELSE [sync EXCEPT !.pc = "walk", !.todo = recs]
  /\ UNCHANGED <<storeVars, OutsideSync>>

Remaining(rec) ==
  IF sync.todo = {rec} THEN SyncIdle
  ELSE [sync EXCEPT !.pc = "walk", !.todo = @ \ {rec}, !.rec = None, !.to = "Uninstalled"]

\* The record's state is read ...
SyncDecides(rec) ==
  LET to == Corrected(sync.seen[AppOf(rec)], heap[rec].state)
  IN /\ sync.pc = "walk" /\ rec \in sync.todo
     /\ sync' = IF to = heap[rec].state THEN Remaining(rec)
                ELSE [sync EXCEPT !.pc = "write", !.rec = rec, !.to = to]
     /\ UNCHANGED <<storeVars, OutsideSync>>

\* ... and then written, with the record put back into the table.
SyncWrites ==
  LET rec == sync.rec
  IN /\ sync.pc = "write"
     /\ \E outcome \in SaveOutcomes :
          Put(AppOf(rec), rec, [heap[rec] EXCEPT !.state = sync.to], outcome)
     /\ sync' = Remaining(rec)
     /\ UNCHANGED OutsideSync

-----------------------------------------------------------------------------
(* The process starts and stops *)

\* Start hands store.List to Reconcile in a goroutine of its own.
BootLists ==
  /\ boot.pc = "list"
  /\ boot' = [pc |-> "merge", recs |-> {apps[a] : a \in Apps} \ {None}]
  /\ UNCHANGED <<storeVars, clusterVars, domainVars, req, sync, crashes>>

\* Slip: apps whose toggle is off are skipped.
BootMergesToggled ==
  /\ boot.pc = "merge"
  /\ \E outcome \in Outcomes :
       Reconcile([a \in Apps |->
                    UNION {HostsOf(rec) : rec \in {x \in boot.recs :
                             AppOf(x) = a /\ heap[x].public}}], outcome)
  /\ boot' = [pc |-> "done", recs |-> {}]
  /\ UNCHANGED <<storeVars, clusterVars, req, sync, crashes>>

\* The claims of the listed records, as they are when the lock is held.
BootMerges ==
  /\ boot.pc = "merge"
  /\ \E outcome \in Outcomes :
       Reconcile([a \in Apps |->
                    UNION {HostsOf(rec) : rec \in {x \in boot.recs :
                             AppOf(x) = a /\ heap[x].state # "Uninstalled"}}], outcome)
  /\ boot' = [pc |-> "done", recs |-> {}]
  /\ UNCHANGED <<storeVars, clusterVars, req, sync, crashes>>

\* The process dies with everything it held in memory and starts again from the
\* file, which may have been cut short.  A helm command under way dies with it.
Crash ==
  /\ crashes < MaxCrashes /\ crashes' = crashes + 1
  /\ \E image \in {file} \cup (IF "torn" \in SaveFaults THEN {NothingSaved} ELSE {}) :
       Load(image)
  /\ Forget
  /\ req' = [r \in Reqs |->
               IF At(r, "create") THEN Ended(r, "lost")
               ELSE IF Working(r) THEN Ended(r, "done") ELSE req[r]]
  /\ sync' = SyncIdle
  /\ boot' = [pc |-> "list", recs |-> {}]
  /\ \E cut \in SUBSET {req[r].app : r \in {x \in Reqs : At(x, "helmUninstall")}} :
       release' = [a \in Apps |->
                     IF a \in cut /\ release[a] # "none" THEN "pending" ELSE release[a]]
  /\ UNCHANGED <<pods, crd>>

-----------------------------------------------------------------------------
(* The specification *)

\* The process starts with some apps installed by an earlier one.
\* Apps are public from the start only where users can make them so.
Toggled == IF "publish" \in Kinds THEN Apps ELSE {}

Init ==
  /\ \E installed \in SUBSET Apps : \E open \in SUBSET (installed \cap Toggled) :
       /\ StoreInit([a \in Apps |->
            IF a \in installed
            THEN [state |-> "Running", entered |-> Entrances[a] # {}, public |-> a \in open]
            ELSE None])
       /\ ClusterInit(installed)
       /\ DomainInit(UNION {HostsFor(a, TRUE, a \in open) : a \in installed})
  /\ req = [r \in Reqs |-> Unused]
  /\ sync = SyncIdle
  /\ boot = [pc |-> "list", recs |-> {}]
  /\ crashes = 0

Request(r, a) ==
  \/ RequestInstall(r, a) \/ RequestUninstall(r, a)
  \/ RequestSuspend(r, a) \/ RequestResume(r, a) \/ RequestToggle(r, a)

InstallWorks(r) ==
  \/ InstallCleans(r) \/ InstallCreates(r) \/ InstallDownloads(r)
  \/ InstallFetches(r) \/ InstallPrepares(r) \/ InstallGivesUp(r)
  \/ InstallPurges(r) \/ HelmStarts(r) \/ HelmRefuses(r) \/ HelmSucceeds(r)
  \/ HelmBreaks(r) \/ InstallCleansUp(r) \/ InstallRuns(r) \/ InstallRegisters(r)

UninstallWorks(r) ==
  \/ UninstallMarks(r) \/ UninstallSucceeds(r) \/ UninstallFails(r)
  \/ UninstallGivesUp(r) \/ UninstallCollects(r) \/ UninstallDeregisters(r)
  \/ UninstallUnclaims(r) \/ UninstallFinishes(r) \/ UninstallForgets(r)

ScaleWorks(r) ==
  \/ ScaleMarks(r) \/ ScaleSucceeds(r) \/ ScaleGivesUp(r)
  \/ ScaleSettles(r) \/ ScaleFailed(r)

Work(r) ==
  InstallWorks(r) \/ UninstallWorks(r) \/ ScaleWorks(r) \/ Toggles(r) \/ Claims(r)

SyncStep == SyncLists \/ SyncReads \/ (\E rec \in Recs : SyncDecides(rec)) \/ SyncWrites

BootStep == BootLists \/ BootMerges

Next ==
  \/ \E r \in Reqs : Work(r) \/ \E a \in Apps : Request(r, a)
  \/ SyncStep
  \/ BootStep
  \/ Crash

Spec == Init /\ [][Next]_vars

\* Goroutines that can run do run, and commands return; users and crashes are
\* not obliged to do anything.
Fairness == (\A r \in Reqs : WF_vars(Work(r))) /\ WF_vars(SyncStep) /\ WF_vars(BootStep)

FairSpec == Spec /\ Fairness

-----------------------------------------------------------------------------
(* Properties *)

Request0 == [pc : Busy \cup Over, kind : AllKinds, app : Apps \cup {None},
             rec : Recs \cup {None}, hosts : SUBSET Hosts]

\* Every pointer anybody holds is to a record whose app is known.
Pointers == {rec \in Recs : rec \in Apps \/ req[rec].pc # "new"}

RequestsOK ==
  /\ req \in [Reqs -> Request0]
  /\ \A r \in Reqs : /\ req[r].pc # "new" => req[r].app \in Apps
                     /\ req[r].pc \in Busy => req[r].rec \in Pointers
                     /\ req[r].pc \in InstallSteps => req[r].rec = r

SyncOK ==
  /\ sync \in [pc : {"idle", "listed", "walk", "write"},
               seen : [Apps -> {"missing", "deployed", "failed"}],
               todo : SUBSET Pointers, rec : Pointers \cup {None},
               to : {"Running", "Uninstalled", "InstallFailed"}]
  /\ sync.pc = "write" => sync.rec # None

BootOK == boot \in [pc : {"list", "merge", "done"}, recs : SUBSET Pointers]

TypeOK ==
  /\ StoreTypeOK /\ ClusterTypeOK /\ DomainTypeOK
  /\ RequestsOK /\ SyncOK /\ BootOK
  /\ \A a \in Apps : apps[a] \in Pointers \cup {None}
  /\ crashes \in 0..MaxCrashes

\* A record says "pending", "downloading", "installing", "stopping", "resuming"
\* or "uninstalling" only while some goroutine that has yet to write an outcome
\* into it is at work, however requests for one app, several requests on one
\* record and the status sync interleave.  (Until the process dies, and unless
\* saving the record fails right after its state was assigned: then no goroutine
\* is started.)
Settles == {"download", "fetch", "values", "purge", "helmInstall", "helmWait",
            "cleanup", "broken", "running", "helmUninstall", "unable", "orphans",
            "deregister", "unclaim", "finish", "scale", "settled", "unsettled"}

NoOrphanedTransition ==
  crashes = 0 /\ SaveFaults = {} =>
    \A rec \in Recs : heap[rec].state \in Transitional =>
      \E r \in Reqs : req[r].pc \in Settles /\ req[r].rec = rec

\* What exists in helm can be managed: while an app has a release, in whatever
\* status, the store has a record of the app, across failed commands, status
\* syncs and restarts; only an install between dropping the old record and
\* storing the new one, or cut short there, is excepted.  Needs one request per
\* app at a time and a file that is written whole.
Replacing(a) == \E r \in Reqs : req[r].app = a /\ req[r].pc \in {"create", "lost"}

NoUntrackedRelease ==
  Serial /\ SaveFaults = {} =>
    \A a \in Apps : release[a] # "none" => apps[a] # None \/ Replacing(a)

\* An app shown as stopped is scaled down, across restarts, failed helm commands
\* and scale commands and status syncs that run between the steps of the request,
\* once no request for the app is under way.  (A workload that does not scale while
\* another does is only logged, so this needs apps with one workload.)
StoppedIsScaledDown ==
  Serial /\ "partial" \notin ClusterFaults =>
    \A a \in Apps :
      apps[a] # None /\ heap[apps[a]].state = "Stopped" /\ Quiet(a) => pods[a] # "up"

\* A deployed app has its Application resource, by which the desktop finds it,
\* once no request for it is under way and while neither kubectl nor the process
\* has failed.
DeployedIsRegistered ==
  Serial /\ "kubectl" \notin ClusterFaults /\ crashes = 0 =>
    \A a \in Apps : release[a] = "deployed" /\ Quiet(a) => crd[a]

\* The hosts a deployed app claims are those of its record: toggles, uninstalls
\* that fail, restarts and the Reconcile after them never leave an entrance open
\* that the toggle closes, nor the reverse, once the request and Reconcile are
\* over.  (Without reinstalls: a record that replaces one of a deployed app starts
\* with the toggle off and publishes nothing until its own install succeeds.)
PublishedFollowsToggle ==
  Serial /\ "install" \notin Kinds =>
    \A a \in Apps :
      /\ release[a] = "deployed" /\ Quiet(a) /\ boot.pc = "done"
      /\ apps[a] # None /\ heap[apps[a]].state # "Uninstalled"
      => byApp[a] = HostsOf(apps[a])

\* The states of all records come to agree with helm, and then stay so, whatever
\* requests, failures, restarts and stale status rounds came before: a record
\* left in transition by a crash does not stay there, except in "uninstalling",
\* which the status sync never touches.
Agrees(a) ==
  apps[a] # None =>
    heap[apps[a]].state \in
      CASE Listed[a] = "missing"  -> {"Uninstalled", "Uninstalling", "InstallFailed", "UninstallFailed"}
        [] Listed[a] = "deployed" -> {"Running", "Uninstalling", "Stopped"}
        [] Listed[a] = "failed"   -> States \ {"Installing"}

StatusConverges == <>[](\A a \in Apps : Agrees(a))

-----------------------------------------------------------------------------
(* What comments in the source say, and the code does not do *)

\* service.go:677-680: what a failed helm install leaves behind is force-deleted
\* when the app is uninstalled.  (Only an uninstall writes "uninstallFailed".)
UninstallCollectsOrphans ==
  \A a \in Apps :
    /\ Quiet(a) /\ apps[a] # None /\ release[a] = "none"
    /\ heap[apps[a]].state = "UninstallFailed"
    => pods[a] = "none"

\* service.go:172: the status sync marks an app as uninstalled when its "release
\* [is] gone", so never one whose installation is under way.
GoneMeansInstalledBefore ==
  \A r \in Reqs :
    req[r].pc \in InstallSteps \cap Settles => heap[r].state \in Transitional

\* service.go:688-690: "an uninstalled app never leaves a stale SSO-bypass entry
\* behind".
UninstalledIsUnpublished ==
  \A a \in Apps :
    /\ Quiet(a) /\ boot.pc = "done"
    /\ apps[a] # None /\ heap[apps[a]].state = "Uninstalled"
    => byApp[a] = {}
=============================================================================
