-------------------------- MODULE AppTrackingProofs --------------------------
(***************************************************************************)
(* Proofs that what the store says of an app follows the cluster, for any   *)
(* apps, requests, faults and restarts, each from an inductive invariant of *)
(* its own:                                                                *)
(*   NoUntrackedRelease      from  Tracked                                 *)
(*   DeployedIsRegistered    from  Registered and ReleaseGone              *)
(*   StoppedIsScaledDown     from  Owned and Lowered                       *)
(*   PublishedFollowsToggle  from  Plain, Published and ReleaseGone        *)
(* All of them need Exclusive: of the requests for one app, one is at work. *)
(*                                                                         *)
(* NoUntrackedRelease is not inductive.  A wipe drops the record of an app  *)
(* whose release is gone, so its worker must know that it still is          *)
(* (ReleaseGone), which it does because no other request for the app runs   *)
(* beside it (Exclusive).  A restart replaces the table by the file, so the *)
(* two must list the same apps (FileAgrees).                               *)
(***************************************************************************)
EXTENDS AppLifecycleProofs

\* The steps of an uninstall after `helm uninstall` succeeded.
Emptied == {"orphans", "deregister", "unclaim", "finish", "forget"}

Exclusive ==
  \A r, q \in Reqs : Working(r) /\ Working(q) /\ req[r].app = req[q].app => r = q

FileAgrees == \A a \in Apps : file[a] = None <=> apps[a] = None

WorkerHasRecord ==
  \A r \in Reqs : Working(r) /\ ~At(r, "create") => apps[req[r].app] # None

ReleaseGone == \A r \in Reqs : req[r].pc \in Emptied => release[req[r].app] = "none"

ReleaseTracked == \A a \in Apps : release[a] # "none" => apps[a] # None \/ Replacing(a)

Tracked ==
  /\ Exclusive /\ FileAgrees /\ WorkerHasRecord
  /\ ReleaseGone /\ ReleaseTracked

\* What the theorem assumes of the users and of the file.
Orderly == Serial /\ SaveFaults = {}

-----------------------------------------------------------------------------
(* A step of a request, seen from its app *)

LEMMA EmptiedBusy == Emptied \subseteq Busy /\ "create" \notin Emptied
BY DEF Emptied, Busy, UninstallSteps

\* After a save the file and the table list the same apps.
LEMMA FileFollows ==
  ASSUME StoreTypeOK', NEW outcome \in SaveOutcomes, SaveFaults = {}, Save(outcome)
  PROVE  FileAgrees'
<1>1. file' = Image(apps', heap')
  BY DEF SaveOutcomes, Save
<1>2. \A a \in Apps : apps'[a] # None => heap'[apps'[a]] # None
  BY StoreAssumption DEF StoreTypeOK
<1> QED BY <1>1, <1>2 DEF FileAgrees, Image

\* A request that is at work changes nothing of another request's app.
LEMMA WorkTracks ==
  ASSUME TypeOK, Tracked, FileAgrees', NEW r \in Reqs, Working(r),
         NEW new, req' = [req EXCEPT ![r] = new], new.app = req[r].app,
         \A b \in Apps : b # req[r].app => apps'[b] = apps[b] /\ release'[b] = release[b],
         \/ new.pc = "create"
         \/ apps'[req[r].app] # None
         \/ new.pc = "done" /\ release'[req[r].app] = "none",
         new.pc \in Emptied => release'[req[r].app] = "none"
  PROVE  Tracked'
<1>1. \A q \in Reqs : req'[q] = IF q = r THEN new ELSE req[q]
  BY DEF TypeOK, RequestsOK
<1>2. \A q \in Reqs : q # r /\ Working(q) => req[q].app # req[r].app /\ req[q].app \in Apps
  BY Steps DEF Tracked, Exclusive, Working, TypeOK, RequestsOK
<1>3. Exclusive'
  BY <1>1, <1>2 DEF Exclusive, Working, Tracked
<1>4. WorkerHasRecord'
  BY <1>1, <1>2, Steps DEF WorkerHasRecord, Working, At, Tracked
<1>5. ReleaseGone'
  BY <1>1, <1>2, EmptiedBusy DEF ReleaseGone, Working, Tracked
<1>6. ReleaseTracked'
  <2> SUFFICES ASSUME NEW a \in Apps, release'[a] # "none", apps'[a] = None
               PROVE  Replacing(a)'
    BY DEF ReleaseTracked
  <2>1. CASE a = req[r].app
    BY <2>1, <1>1 DEF Replacing
  <2>2. CASE a # req[r].app
    <3>1. PICK q \in Reqs : req[q].app = a /\ req[q].pc \in {"create", "lost"}
      BY <2>2 DEF Tracked, ReleaseTracked, Replacing
    <3> QED BY <3>1, <2>2, <1>1 DEF Replacing
  <2> QED BY <2>1, <2>2
<1> QED BY <1>3, <1>4, <1>5, <1>6 DEF Tracked

\* What Goto does to a request that is at work.
LEMMA GotoNew ==
  ASSUME TypeOK, NEW r \in Reqs, NEW pc \in Busy \cup {"done"}, Goto(r, pc)
  PROVE  \E new : req' = [req EXCEPT ![r] = new] /\ new.pc = pc /\ new.app = req[r].app
<1> DEFINE new == IF pc = "done" THEN Ended(r, pc) ELSE [req[r] EXCEPT !.pc = pc]
<1>1. req' = [req EXCEPT ![r] = new]
  BY DEF Goto, TypeOK, RequestsOK
<1>2. new.pc = pc /\ new.app = req[r].app
  BY DEF Ended, Unused, TypeOK, RequestsOK, Request0
<1> HIDE DEF new
<1> QED BY <1>1, <1>2

\* A step that stores the record of a request.
LEMMA PutTracks ==
  ASSUME TypeOK, TypeOK', Tracked, SaveFaults = {}, NEW r \in Reqs, Working(r),
         NEW pc \in Busy \cup {"done"}, Goto(r, pc), pc \in Emptied => req[r].pc \in Emptied,
         NEW rec, NEW outcome \in SaveOutcomes,
         Put(req[r].app, req[r].rec, rec, outcome), UNCHANGED release
  PROVE  Tracked'
<1>1. PICK new : req' = [req EXCEPT ![r] = new] /\ new.pc = pc /\ new.app = req[r].app
  BY GotoNew
<1>2. FileAgrees'
  BY FileFollows DEF Put, TypeOK
<1>3. req[r].app \in Apps /\ req[r].rec \in Recs
  BY Steps DEF Working, TypeOK, RequestsOK, Pointers
<1>4. /\ apps'[req[r].app] # None
      /\ \A b \in Apps : b # req[r].app => apps'[b] = apps[b] /\ release'[b] = release[b]
  BY <1>3, StoreAssumption DEF Put, TypeOK, StoreTypeOK
<1>5. pc \in Emptied => release'[req[r].app] = "none"
  BY DEF Tracked, ReleaseGone
<1> QED BY <1>1, <1>2, <1>4, <1>5, WorkTracks

\* A step that leaves the store alone.
LEMMA CommandTracks ==
  ASSUME TypeOK, Tracked, NEW r \in Reqs, Working(r), ~At(r, "create"),
         NEW pc \in Busy \cup {"done"}, Goto(r, pc), UNCHANGED storeVars,
         \A b \in Apps : b # req[r].app => release'[b] = release[b],
         pc \in Emptied => release'[req[r].app] = "none"
  PROVE  Tracked'
<1>1. PICK new : req' = [req EXCEPT ![r] = new] /\ new.pc = pc /\ new.app = req[r].app
  BY GotoNew
<1>2. FileAgrees' /\ apps' = apps /\ apps[req[r].app] # None
  BY DEF Tracked, FileAgrees, WorkerHasRecord, storeVars
<1> QED BY <1>1, <1>2, WorkTracks

\* A command touches the release of its own app only; uninstalling removes it.
LEMMA CommandLocal ==
  ASSUME ClusterTypeOK, NEW a \in Apps, NEW level, NEW present,
         \/ HelmInstallBegins(a) \/ HelmInstallEnds(a) \/ HelmInstallBreaks(a)
         \/ HelmUninstalls(a) \/ HelmUninstallFails(a)
         \/ Scales(a, level) \/ ScaleFails(a, level)
         \/ DeletesOrphans(a) \/ SetsCRD(a, present)
  PROVE  /\ \A b \in Apps : b # a => release'[b] = release[b]
         /\ HelmUninstalls(a) => release'[a] = "none"
BY DEF HelmInstallBegins, HelmInstallEnds, HelmInstallBreaks, HelmMarks, HelmUninstalls,
       HelmUninstallFails, Scales, ScaleFails, DeletesOrphans, SetsCRD, ClusterTypeOK

-----------------------------------------------------------------------------
(* Every step *)

LEMMA RequestTracks ==
  ASSUME TypeOK, Tracked, Serial, NEW r \in Reqs, NEW a \in Apps, Request(r, a)
  PROVE  Tracked'
<1>1. PICK kind \in AllKinds, pc \in Busy \ Emptied :
        /\ Starts(r, kind, a, pc)
        /\ apps[a] # None \/ pc = "create"
  BY DEF Request, RequestInstall, RequestUninstall, RequestSuspend, RequestResume, RequestToggle,
         AllKinds, Busy, InstallSteps, UninstallSteps, ScaleSteps, ToggleSteps, Emptied
<1> DEFINE new == [req[r] EXCEPT !.pc = pc, !.kind = kind, !.app = a,
                                 !.rec = IF kind = "install" THEN r ELSE apps[a]]
<1>2. req' = [req EXCEPT ![r] = new] /\ new.pc = pc /\ new.app = a
  BY <1>1 DEF Starts, TypeOK, RequestsOK, Request0
<1> HIDE DEF new
<1>3. \A q \in Reqs : req'[q] = IF q = r THEN new ELSE req[q]
  BY <1>2 DEF TypeOK, RequestsOK
<1>4. Quiet(a) /\ req[r].pc = "new" /\ UNCHANGED <<apps, file, release>>
  BY <1>1 DEF Starts, At, OutsideStore, storeVars, clusterVars
<1>5. Exclusive' /\ FileAgrees' /\ WorkerHasRecord' /\ ReleaseGone'
  BY <1>1, <1>2, <1>3, <1>4
  DEF Tracked, Exclusive, FileAgrees, WorkerHasRecord, ReleaseGone, Working, Quiet, At
<1>6. \A b \in Apps : Replacing(b) => Replacing(b)'
  BY <1>3, <1>4 DEF Replacing
<1> QED BY <1>4, <1>5, <1>6 DEF Tracked, ReleaseTracked

LEMMA InstallTracks ==
  ASSUME TypeOK, TypeOK', Tracked, SaveFaults = {}, NEW r \in Reqs, InstallWorks(r)
  PROVE  Tracked'
<1> USE Steps DEF At, OutsideStore, OutsideCluster, clusterVars
<1>0. req[r].pc \in InstallSteps => req[r].rec = r /\ req[r].app \in Apps /\ Working(r)
  BY LifecycleAssumption DEF TypeOK, RequestsOK, Working
<1>1. CASE InstallCleans(r)
  <2>1. PICK new : req' = [req EXCEPT ![r] = new] /\ new.pc = "create" /\ new.app = req[r].app
    BY <1>1, GotoNew DEF InstallCleans, InstallSteps
  <2>2. FileAgrees'
    BY <1>1, FileFollows DEF InstallCleans, Delete, TypeOK
  <2>3. /\ Working(r) /\ UNCHANGED release
        /\ \A b \in Apps : b # req[r].app => apps'[b] = apps[b]
    BY <1>0, <1>1 DEF InstallCleans, InstallSteps, Delete
  <2> QED BY <2>1, <2>2, <2>3, EmptiedBusy, WorkTracks
<1>2. CASE InstallCreates(r)
  BY <1>0, <1>2, PutTracks DEF InstallCreates, InstallSteps, Emptied
<1>3. CASE InstallDownloads(r)
  BY <1>0, <1>3, PutTracks DEF InstallDownloads, Becomes, SetState, InstallSteps, Emptied
<1>4. CASE InstallFetches(r)
  BY <1>0, <1>4, PutTracks DEF InstallFetches, InstallSteps, Emptied
<1>5. CASE InstallPrepares(r)
  BY <1>0, <1>5, PutTracks DEF InstallPrepares, Becomes, SetState, InstallSteps, Emptied
<1>6. CASE InstallGivesUp(r)
  BY <1>0, <1>6, PutTracks DEF InstallGivesUp, Becomes, SetState, InstallSteps, Emptied
<1>7. CASE InstallPurges(r) \/ HelmStarts(r) \/ HelmRefuses(r) \/ HelmSucceeds(r)
           \/ HelmBreaks(r) \/ InstallCleansUp(r)
  <2>1. Working(r) /\ ~At(r, "create") /\ UNCHANGED storeVars
    BY <1>0, <1>7 DEF InstallPurges, HelmStarts, HelmRefuses, HelmSucceeds,
       HelmBreaks, InstallCleansUp, Commands, InstallSteps
  <2>2. \A b \in Apps : b # req[r].app => release'[b] = release[b]
    BY <1>0, <1>7, CommandLocal DEF InstallPurges, HelmStarts, HelmRefuses, HelmSucceeds,
       HelmBreaks, InstallCleansUp, Commands, InstallSteps, TypeOK
  <2>3. PICK pc \in {"helmInstall", "helmWait", "cleanup", "running", "broken"} : Goto(r, pc)
    BY <1>7 DEF InstallPurges, HelmStarts, HelmRefuses, HelmSucceeds,
       HelmBreaks, InstallCleansUp, Commands
  <2> QED BY <2>1, <2>2, <2>3, CommandTracks DEF Emptied, InstallSteps
<1>8. CASE InstallRuns(r)
  BY <1>0, <1>8, PutTracks DEF InstallRuns, Becomes, SetState, InstallSteps, Emptied
<1>9. CASE InstallRegisters(r)
  <2> DEFINE new == [req[r] EXCEPT !.pc = "claim", !.hosts = HostsOf(r)]
  <2>1. req' = [req EXCEPT ![r] = new] /\ new.pc = "claim" /\ new.app = req[r].app
    BY <1>9 DEF InstallRegisters, TypeOK, RequestsOK, Request0
  <2>2. FileAgrees' /\ apps' = apps /\ release' = release
    BY <1>9 DEF InstallRegisters, SetsCRD, storeVars, Tracked, FileAgrees
  <2>3. Working(r) /\ apps[req[r].app] # None
    BY <1>0, <1>9 DEF InstallRegisters, InstallSteps, Tracked, WorkerHasRecord
  <2> HIDE DEF new
  <2> QED BY <2>1, <2>2, <2>3, WorkTracks DEF Emptied
<1> QED BY <1>1, <1>2, <1>3, <1>4, <1>5, <1>6, <1>7, <1>8, <1>9 DEF InstallWorks

\* The toggle, and the last step of it and of an install.
LEMMA ToggleTracks ==
  ASSUME TypeOK, TypeOK', Tracked, SaveFaults = {}, NEW r \in Reqs, Claims(r) \/ Toggles(r)
  PROVE  Tracked'
<1> USE Steps DEF At
<1>0. Working(r) /\ ~At(r, "create") /\ req[r].app \in Apps /\ req[r].rec \in Recs
  BY DEF Claims, Toggles, ToggleSteps, Working, TypeOK, RequestsOK, Pointers
<1>1. CASE Claims(r)
  BY <1>0, <1>1, CommandTracks DEF Claims, clusterVars, Emptied
<1>2. CASE Toggles(r)
  <2> DEFINE rec == [heap[req[r].rec] EXCEPT !.public = (req[r].kind = "publish")]
             new == [req[r] EXCEPT !.pc = "claim",
                                   !.hosts = HostsFor(req[r].app, rec.entered, rec.public)]
  <2>1. PICK outcome \in SaveOutcomes : Put(req[r].app, req[r].rec, rec, outcome)
    BY <1>2 DEF Toggles
  <2>2. req' = [req EXCEPT ![r] = new] /\ UNCHANGED release
    BY <1>2 DEF Toggles, OutsideStore, clusterVars
  <2> HIDE DEF rec
  <2>3. new.pc = "claim" /\ new.app = req[r].app
    BY DEF TypeOK, RequestsOK, Request0
  <2> HIDE DEF new
  <2>4. FileAgrees'
    BY <2>1, FileFollows DEF Put, TypeOK
  <2>5. /\ apps'[req[r].app] # None
        /\ \A b \in Apps : b # req[r].app => apps'[b] = apps[b]
    BY <1>0, <2>1, StoreAssumption DEF Put, TypeOK, StoreTypeOK
  <2> QED BY <1>0, <2>2, <2>3, <2>4, <2>5, WorkTracks DEF Emptied
<1> QED BY <1>1, <1>2

LEMMA UninstallTracks ==
  ASSUME TypeOK, TypeOK', Tracked, SaveFaults = {}, NEW r \in Reqs, UninstallWorks(r)
  PROVE  Tracked'
<1> USE Steps DEF At, UninstallSteps, OutsideStore, OutsideCluster, clusterVars
<1>0. req[r].pc \in UninstallSteps => Working(r) /\ ~At(r, "create") /\ req[r].app \in Apps
  BY DEF Working, TypeOK, RequestsOK
<1>1. CASE UninstallMarks(r)
  BY <1>0, <1>1, PutTracks DEF UninstallMarks, SetState, Emptied
<1>2. CASE UninstallSucceeds(r)
  BY <1>0, <1>2, CommandLocal, CommandTracks DEF UninstallSucceeds, Commands, TypeOK
<1>3. CASE UninstallFails(r)
  BY <1>0, <1>3, CommandLocal, CommandTracks DEF UninstallFails, Commands, TypeOK, Emptied
<1>4. CASE UninstallGivesUp(r)
  BY <1>0, <1>4, PutTracks DEF UninstallGivesUp, Becomes, SetState, Emptied
<1>5. CASE UninstallCollects(r) \/ UninstallDeregisters(r) \/ UninstallUnclaims(r)
  <2>1. Working(r) /\ ~At(r, "create") /\ req[r].pc \in Emptied /\ UNCHANGED <<storeVars, release>>
    BY <1>0, <1>5 DEF UninstallCollects, UninstallDeregisters, UninstallUnclaims, Commands,
       DeletesOrphans, SetsCRD, Emptied
  <2>2. release[req[r].app] = "none"
    BY <2>1 DEF Tracked, ReleaseGone
  <2>3. PICK pc \in {"deregister", "unclaim", "finish"} : Goto(r, pc)
    BY <1>5 DEF UninstallCollects, UninstallDeregisters, UninstallUnclaims, Commands
  <2> QED BY <2>1, <2>2, <2>3, CommandTracks
<1>6. CASE UninstallFinishes(r)
  BY <1>0, <1>6, PutTracks DEF UninstallFinishes, Becomes, SetState, Emptied
<1>7. CASE UninstallForgets(r)
  <2>1. PICK new : req' = [req EXCEPT ![r] = new] /\ new.pc = "done" /\ new.app = req[r].app
    BY <1>7, GotoNew DEF UninstallForgets
  <2>2. FileAgrees'
    BY <1>7, FileFollows DEF UninstallForgets, Delete, TypeOK
  <2>3. /\ Working(r) /\ UNCHANGED release /\ release[req[r].app] = "none"
        /\ \A b \in Apps : b # req[r].app => apps'[b] = apps[b]
    BY <1>0, <1>7 DEF UninstallForgets, Delete, Emptied, Tracked, ReleaseGone
  <2> QED BY <2>1, <2>2, <2>3, WorkTracks DEF Emptied
<1> QED BY <1>1, <1>2, <1>3, <1>4, <1>5, <1>6, <1>7 DEF UninstallWorks

LEMMA ScaleTracks ==
  ASSUME TypeOK, TypeOK', Tracked, SaveFaults = {}, NEW r \in Reqs, ScaleWorks(r)
  PROVE  Tracked'
<1> USE Steps DEF At, ScaleSteps, OutsideStore, OutsideCluster, clusterVars
<1>0. req[r].pc \in ScaleSteps => Working(r) /\ ~At(r, "create") /\ req[r].app \in Apps
  BY DEF Working, TypeOK, RequestsOK
<1>1. CASE ScaleMarks(r)
  BY <1>0, <1>1, PutTracks DEF ScaleMarks, SetState, Emptied
<1>2. CASE ScaleSucceeds(r) \/ ScaleGivesUp(r)
  BY <1>0, <1>2, CommandLocal, CommandTracks DEF ScaleSucceeds, ScaleGivesUp, Commands, TypeOK, Emptied
<1>3. CASE ScaleSettles(r)
  BY <1>0, <1>3, PutTracks DEF ScaleSettles, Becomes, SetState, Emptied
<1>4. CASE ScaleFailed(r)
  BY <1>0, <1>4, PutTracks DEF ScaleFailed, Becomes, SetState, Emptied
<1> QED BY <1>1, <1>2, <1>3, <1>4 DEF ScaleWorks

\* The status sync may put a record back, which lists its app again; the startup
\* goroutine touches neither table nor cluster.
LEMMA OtherTracks ==
  ASSUME TypeOK, TypeOK', Tracked, SaveFaults = {}, SyncStep \/ BootStep \/ UNCHANGED vars
  PROVE  Tracked'
<1> USE DEF Exclusive, WorkerHasRecord, ReleaseGone, ReleaseTracked, Replacing, Working, At
<1>1. CASE SyncWrites
  <2>1. PICK outcome \in SaveOutcomes : Put(AppOf(sync.rec), sync.rec,
          [heap[sync.rec] EXCEPT !.state = sync.to], outcome)
    BY <1>1 DEF SyncWrites
  <2>2. sync.rec \in Recs
    BY <1>1 DEF SyncWrites, TypeOK, SyncOK, Pointers
  <2>3. \A a \in Apps : apps[a] # None => apps'[a] # None
    BY <2>1, <2>2, StoreAssumption DEF Put, TypeOK, StoreTypeOK
  <2>4. FileAgrees'
    BY <2>1, FileFollows DEF Put, TypeOK
  <2>5. UNCHANGED <<release, req>>
    BY <1>1 DEF SyncWrites, OutsideSync, clusterVars
  <2>6. \A r \in Reqs : req[r].pc \in Busy => req[r].app \in Apps
    BY Steps DEF TypeOK, RequestsOK
  <2> QED BY <2>3, <2>4, <2>5, <2>6 DEF Tracked
<1>2. CASE SyncLists \/ SyncReads \/ (\E rec \in Recs : SyncDecides(rec)) \/ BootStep \/ UNCHANGED vars
  <2>1. UNCHANGED <<apps, file, release, req>>
    BY <1>2 DEF SyncLists, SyncReads, SyncDecides, BootStep, BootLists, BootMerges, vars,
       OutsideSync, storeVars, clusterVars
  <2> QED BY <2>1 DEF Tracked, FileAgrees
<1> QED BY <1>1, <1>2 DEF SyncStep

\* A restart ends every request; the table is what the file lists.
LEMMA CrashTracks ==
  ASSUME TypeOK, Tracked, SaveFaults = {}, Crash
  PROVE  Tracked'
<1>1. \A r \in Reqs : req'[r] = IF req[r].pc = "create" THEN Ended(r, "lost")
                               ELSE IF req[r].pc \in Busy THEN Ended(r, "done") ELSE req[r]
  BY DEF Crash, At, Working
<1>2. \A r \in Reqs, pc \in {"lost", "done"} : Ended(r, pc).pc = pc /\ Ended(r, pc).app = req[r].app
  BY DEF Ended, Unused
<1>3. \A r \in Reqs : req'[r].pc \notin Busy
  BY <1>1, <1>2, Steps
<1>4. Exclusive' /\ WorkerHasRecord' /\ ReleaseGone'
  BY <1>3, EmptiedBusy DEF Exclusive, WorkerHasRecord, ReleaseGone, Working
<1>5. FileAgrees' /\ \A a \in Apps : apps'[a] # None <=> apps[a] # None
  <2>1. Load(file)
    BY DEF Crash
  <2> QED BY <2>1, StoreAssumption DEF Load, LoadedApps, Tracked, FileAgrees
<1>6. \A a \in Apps : release'[a] # "none" => release[a] # "none"
  BY DEF Crash
<1>7. \A a \in Apps : Replacing(a) => Replacing(a)'
  BY <1>1, <1>2, Steps DEF Replacing, Busy, InstallSteps
<1> QED BY <1>4, <1>5, <1>6, <1>7 DEF Tracked, ReleaseTracked

LEMMA InitTracks == Init => Tracked
<1> SUFFICES ASSUME Init PROVE Tracked
  OBVIOUS
<1>0. PICK installed \in SUBSET Apps : \E open \in SUBSET (installed \cap Toggled) :
        /\ StoreInit([a \in Apps |->
             IF a \in installed
             THEN [state |-> "Running", entered |-> Entrances[a] # {}, public |-> a \in open]
             ELSE None])
        /\ ClusterInit(installed)
  BY DEF Init
<1>1. PICK open \in SUBSET (installed \cap Toggled) :
        /\ StoreInit([a \in Apps |->
             IF a \in installed
             THEN [state |-> "Running", entered |-> Entrances[a] # {}, public |-> a \in open]
             ELSE None])
        /\ ClusterInit(installed)
  BY <1>0
<1> DEFINE rec(a) == [state |-> "Running", entered |-> Entrances[a] # {}, public |-> a \in open]
<1>2. FileAgrees /\ \A a \in Apps : release[a] # "none" => apps[a] # None
  <2>1. \A a \in Apps : rec(a) \in AppRecord
    BY DEF AppRecord, States
  <2>2. \A a \in Apps : rec(a) # None
    BY <2>1, StoreAssumption
  <2> HIDE DEF rec
  <2>3. \A a \in Apps : file[a] = IF a \in installed THEN rec(a) ELSE None
    BY <1>1 DEF StoreInit, rec
  <2>4. \A a \in Apps : apps[a] = IF file[a] = None THEN None ELSE a
    BY <1>1 DEF StoreInit, LoadedApps
  <2>5. \A a \in Apps : release[a] # "none" => a \in installed
    BY <1>1 DEF ClusterInit
  <2>6. \A a \in Apps : a # None
    BY StoreAssumption
  <2> QED BY <2>2, <2>3, <2>4, <2>5, <2>6 DEF FileAgrees
<1>3. \A r \in Reqs : req[r].pc = "new"
  BY DEF Init, Unused
<1> QED BY <1>2, <1>3, Steps, EmptiedBusy
    DEF Tracked, Exclusive, WorkerHasRecord, ReleaseGone, ReleaseTracked, Working

\* What exists in helm stays in sight: while users wait for an app's request to
\* end and the file can be written, an app with a release, in whatever status,
\* has a record, however helm and kubectl fail, whatever the status sync does in
\* between and wherever the process dies; only the moment in which a reinstall
\* has dropped the old record and not stored the new one is excepted.
THEOREM ReleasesTracked == Spec => []NoUntrackedRelease
<1>1. CASE Orderly
  <2>1. Serial /\ SaveFaults = {}
    BY <1>1 DEF Orderly
  <2>2. TypeOK /\ TypeOK' /\ Tracked /\ [Next]_vars => Tracked'
    BY <2>1, RequestTracks, InstallTracks, UninstallTracks, ScaleTracks, ToggleTracks,
       OtherTracks, CrashTracks DEF Next, Work
  <2>3. Tracked => NoUntrackedRelease
    BY DEF Tracked, ReleaseTracked, NoUntrackedRelease
  <2> QED BY <2>2, <2>3, InitTracks, TypeCorrect, PTL DEF Spec
<1>2. CASE ~Orderly
  <2>1. NoUntrackedRelease
    BY <1>2 DEF Orderly, NoUntrackedRelease
  <2> QED BY <2>1, PTL
<1> QED BY <1>1, <1>2

-----------------------------------------------------------------------------
(***************************************************************************)
(* One step of a request, as the proofs below need it: who it belongs to,   *)
(* where it goes and what it can touch.                                     *)
(***************************************************************************)

\* The worker of r goes on, with what it holds, or ends.
Advances(r, new) ==
  /\ Working(r)
  /\ req' = [req EXCEPT ![r] = new]
  /\ new.app = req[r].app
  /\ \/ new.pc = "done"
     \/ new.pc \in Busy /\ new.rec = req[r].rec /\ new.kind = req[r].kind

\* Everything the store and the cluster keep for apps other than a, but the file.
Spares(a) ==
  \A b \in Apps \ {a} :
    /\ release'[b] = release[b] /\ pods'[b] = pods[b] /\ crd'[b] = crd[b]
    /\ apps'[b] = apps[b]

LEMMA GotoAdvances ==
  ASSUME TypeOK, NEW r \in Reqs, Working(r), NEW pc \in Busy \cup {"done"}, Goto(r, pc)
  PROVE  \E new : Advances(r, new) /\ new.pc = pc
<1> DEFINE new == IF pc = "done" THEN Ended(r, pc) ELSE [req[r] EXCEPT !.pc = pc]
<1>1. req' = [req EXCEPT ![r] = new]
  BY DEF Goto, TypeOK, RequestsOK
<1>2. new.pc = pc /\ new.app = req[r].app
      /\ (pc # "done" => new.rec = req[r].rec /\ new.kind = req[r].kind)
  BY DEF Ended, Unused, TypeOK, RequestsOK, Request0
<1> HIDE DEF new
<1> QED BY <1>1, <1>2 DEF Advances

\* Work goes on to its claim, with the hosts it computed.
Claiming(r, hosts) ==
  req' = [req EXCEPT ![r] = [@ EXCEPT !.pc = "claim", !.hosts = hosts]]

LEMMA ClaimingStarts ==
  ASSUME NEW r \in Reqs, InstallRegisters(r) \/ Toggles(r)
  PROVE  \E hosts : Claiming(r, hosts)
BY DEF InstallRegisters, Toggles, Claiming

\* The two steps that also note the hosts.
LEMMA ClaimAdvances ==
  ASSUME TypeOK, NEW r \in Reqs, Working(r), NEW hosts, Claiming(r, hosts)
  PROVE  \E new : Advances(r, new) /\ new.pc = "claim" /\ new.hosts = hosts
<1> DEFINE new == [req[r] EXCEPT !.pc = "claim", !.hosts = hosts]
<1>1. req' = [req EXCEPT ![r] = new]
  BY DEF Claiming, TypeOK, RequestsOK
<1>2. /\ new.pc = "claim" /\ new.app = req[r].app /\ new.hosts = hosts
      /\ new.rec = req[r].rec /\ new.kind = req[r].kind
  BY DEF TypeOK, RequestsOK, Request0
<1> HIDE DEF new
<1> QED BY <1>1, <1>2 DEF Advances, Busy

\* A command only touches the app it is for.
LEMMA CommandSpares ==
  ASSUME ClusterTypeOK, NEW a \in Apps, NEW level, NEW present, UNCHANGED apps,
         \/ HelmInstallBegins(a) \/ HelmInstallEnds(a) \/ HelmInstallBreaks(a)
         \/ HelmUninstalls(a) \/ HelmUninstallFails(a)
         \/ Scales(a, level) \/ ScaleFails(a, level)
         \/ DeletesOrphans(a) \/ SetsCRD(a, present)
  PROVE  Spares(a)
BY DEF HelmInstallBegins, HelmInstallEnds, HelmInstallBreaks, HelmMarks, HelmUninstalls,
       HelmUninstallFails, Scales, ScaleFails, DeletesOrphans, SetsCRD, ClusterTypeOK, Spares

\* Every step of a worker belongs to the request's app and leaves the other apps,
\* the status sync and the startup goroutine alone.
LEMMA WorkAdvances ==
  ASSUME TypeOK, NEW r \in Reqs, Work(r)
  PROVE  /\ \E new : Advances(r, new)
         /\ Spares(req[r].app)
         /\ UNCHANGED <<sync, boot, crashes>>
<1> USE Steps DEF At, OutsideStore, OutsideCluster, clusterVars
<1>0. Working(r) => req[r].app \in Apps /\ req[r].rec \in Recs
  BY DEF Working, TypeOK, RequestsOK, Pointers
<1>1. CASE InstallCleans(r) \/ InstallCreates(r) \/ InstallDownloads(r) \/ InstallFetches(r)
           \/ InstallPrepares(r) \/ InstallGivesUp(r) \/ InstallRuns(r)
           \/ UninstallMarks(r) \/ UninstallGivesUp(r) \/ UninstallFinishes(r) \/ UninstallForgets(r)
           \/ ScaleMarks(r) \/ ScaleSettles(r) \/ ScaleFailed(r)
  <2>1. \E pc \in Busy \cup {"done"} : Goto(r, pc)
    BY <1>1 DEF InstallCleans, InstallCreates, InstallDownloads, InstallFetches, InstallPrepares,
       InstallGivesUp, InstallRuns, UninstallMarks, UninstallGivesUp, UninstallFinishes,
       UninstallForgets, ScaleMarks, ScaleSettles, ScaleFailed,
       InstallSteps, UninstallSteps, ScaleSteps
  <2>2. Working(r) /\ UNCHANGED <<clusterVars, sync, boot, crashes>>
    BY <1>1 DEF InstallCleans, InstallCreates, InstallDownloads, InstallFetches, InstallPrepares,
       InstallGivesUp, InstallRuns, UninstallMarks, UninstallGivesUp, UninstallFinishes,
       UninstallForgets, ScaleMarks, ScaleSettles, ScaleFailed, Working,
       InstallSteps, UninstallSteps, ScaleSteps
  <2>3. \/ \E rec, outcome : Put(req[r].app, r, rec, outcome)
        \/ \E rec, outcome : Put(req[r].app, req[r].rec, rec, outcome)
        \/ \E outcome : Delete(req[r].app, outcome)
    BY <1>1 DEF InstallCleans, InstallCreates, InstallDownloads, InstallFetches, InstallPrepares,
       InstallGivesUp, InstallRuns, UninstallMarks, UninstallGivesUp, UninstallFinishes,
       UninstallForgets, ScaleMarks, ScaleSettles, ScaleFailed, Becomes, SetState
  <2>4. \A b \in Apps \ {req[r].app} : apps'[b] = apps[b]
    BY <1>0, <2>2, <2>3 DEF Put, Delete, TypeOK, StoreTypeOK
  <2> QED BY <2>1, <2>2, <2>4, GotoAdvances DEF Spares
<1>2. CASE InstallPurges(r) \/ HelmStarts(r) \/ HelmRefuses(r) \/ HelmSucceeds(r)
           \/ HelmBreaks(r) \/ InstallCleansUp(r) \/ UninstallSucceeds(r) \/ UninstallFails(r)
           \/ UninstallCollects(r) \/ UninstallDeregisters(r) \/ ScaleSucceeds(r) \/ ScaleGivesUp(r)
  <2>1. \E pc \in Busy : Goto(r, pc)
    BY <1>2 DEF InstallPurges, HelmStarts, HelmRefuses, HelmSucceeds, HelmBreaks, InstallCleansUp,
       UninstallSucceeds, UninstallFails, UninstallCollects, UninstallDeregisters, ScaleSucceeds,
       ScaleGivesUp, Commands, InstallSteps, UninstallSteps, ScaleSteps
  <2>2. Working(r) /\ UNCHANGED <<apps, sync, boot, crashes>>
    BY <1>2 DEF InstallPurges, HelmStarts, HelmRefuses, HelmSucceeds, HelmBreaks, InstallCleansUp,
       UninstallSucceeds, UninstallFails, UninstallCollects, UninstallDeregisters, ScaleSucceeds,
       ScaleGivesUp, Commands, Working, InstallSteps, UninstallSteps, ScaleSteps, storeVars
  <2>3. Spares(req[r].app)
    <3>1. CASE HelmRefuses(r)
      BY <2>2, <3>1 DEF HelmRefuses, Commands, Spares
    <3>2. CASE ~HelmRefuses(r)
      BY <1>0, <1>2, <2>2, <3>2, CommandSpares
      DEF InstallPurges, HelmStarts, HelmSucceeds, HelmBreaks, InstallCleansUp,
       UninstallSucceeds, UninstallFails, UninstallCollects, UninstallDeregisters, ScaleSucceeds,
       ScaleGivesUp, Commands, TypeOK
    <3> QED BY <3>1, <3>2
  <2> QED BY <2>1, <2>2, <2>3, GotoAdvances
<1>3. CASE InstallRegisters(r)
  <2>1. Working(r) /\ UNCHANGED <<apps, sync, boot, crashes>> /\ SetsCRD(req[r].app, TRUE)
    BY <1>3 DEF InstallRegisters, Working, InstallSteps, storeVars
  <2>2. PICK new : Advances(r, new)
    BY <1>0, <1>3, <2>1, ClaimingStarts, ClaimAdvances
  <2>3. Spares(req[r].app)
    BY <1>0, <1>3, <2>1, CommandSpares DEF InstallRegisters, TypeOK
  <2> QED BY <2>1, <2>2, <2>3
<1>4. CASE UninstallUnclaims(r)
  <2>1. Working(r) /\ UNCHANGED <<apps, clusterVars, sync, boot, crashes>> /\ Goto(r, "finish")
    BY <1>4 DEF UninstallUnclaims, Working, UninstallSteps, storeVars
  <2> QED BY <2>1, GotoAdvances DEF Spares, UninstallSteps
<1>5. CASE Claims(r)
  <2>1. Working(r) /\ UNCHANGED <<apps, clusterVars, sync, boot, crashes>> /\ Goto(r, "done")
    BY <1>5 DEF Claims, Working, storeVars
  <2> QED BY <2>1, GotoAdvances DEF Spares
<1>6. CASE Toggles(r)
  <2>1. Working(r) /\ UNCHANGED <<clusterVars, sync, boot, crashes>>
    BY <1>6 DEF Toggles, Working, ToggleSteps
  <2>2. \A b \in Apps \ {req[r].app} : apps'[b] = apps[b]
    BY <1>0, <1>6, <2>1 DEF Toggles, Put, TypeOK, StoreTypeOK
  <2>3. PICK new : Advances(r, new)
    BY <1>0, <1>6, <2>1, ClaimingStarts, ClaimAdvances
  <2> QED BY <2>1, <2>2, <2>3 DEF Spares
<1> QED BY <1>1, <1>2, <1>3, <1>4, <1>5, <1>6
    DEF Work, InstallWorks, UninstallWorks, ScaleWorks

\* A request that starts: its first step, and what it holds.
LEMMA RequestBegins ==
  ASSUME TypeOK, NEW r \in Reqs, NEW a \in Apps, Request(r, a)
  PROVE  /\ \E new :
              /\ req' = [req EXCEPT ![r] = new]
              /\ new.app = a /\ new.kind \in Kinds
              /\ \/ new.pc \in {"clean", "create"} /\ new.rec = r /\ new.kind = "install"
                 \/ new.pc \in {"unmark", "mark", "toggle"} /\ new.rec = apps[a] /\ apps[a] # None
         /\ req[r].pc = "new"
         /\ Serial => Quiet(a)
         /\ UNCHANGED <<storeVars, OutsideStore>>
<1>1. PICK kind \in Kinds, pc \in {"clean", "create", "unmark", "mark", "toggle"} :
        /\ Starts(r, kind, a, pc)
        /\ pc \in {"clean", "create"} <=> kind = "install"
        /\ kind # "install" => apps[a] # None
  BY DEF Request, RequestInstall, RequestUninstall, RequestSuspend, RequestResume, RequestToggle, Starts
<1> DEFINE new == [req[r] EXCEPT !.pc = pc, !.kind = kind, !.app = a,
                                 !.rec = IF kind = "install" THEN r ELSE apps[a]]
<1>2. req' = [req EXCEPT ![r] = new]
  BY <1>1 DEF Starts
<1>3. new.pc = pc /\ new.kind = kind /\ new.app = a
      /\ new.rec = IF kind = "install" THEN r ELSE apps[a]
  BY DEF TypeOK, RequestsOK, Request0
<1> HIDE DEF new
<1> QED BY <1>1, <1>2, <1>3 DEF Starts, At

\* A restart ends every request.
LEMMA CrashEnds ==
  ASSUME TypeOK, Crash
  PROVE  \A r \in Reqs : /\ req'[r].pc \notin Busy
                         /\ req[r].pc # "new" => req'[r].pc # "new" /\ req'[r].app = req[r].app
                         /\ req[r].pc = "new" => req'[r] = req[r]
<1>1. \A r \in Reqs : req'[r] = IF req[r].pc = "create" THEN Ended(r, "lost")
                               ELSE IF req[r].pc \in Busy THEN Ended(r, "done") ELSE req[r]
  BY DEF Crash, At, Working
<1>2. \A r \in Reqs, pc \in {"lost", "done"} : Ended(r, pc).pc = pc /\ Ended(r, pc).app = req[r].app
  BY DEF Ended, Unused
<1> QED BY <1>1, <1>2, Steps DEF Busy, InstallSteps

\* Users wait for an app's request to end: no two of them are ever at work.
LEMMA ExclusiveStep ==
  ASSUME TypeOK, Serial, Exclusive, [Next]_vars
  PROVE  Exclusive'
<1>1. ASSUME NEW r \in Reqs, Work(r) PROVE Exclusive'
  <2>1. PICK new : Advances(r, new)
    BY <1>1, WorkAdvances
  <2>2. \A q \in Reqs : req'[q] = IF q = r THEN new ELSE req[q]
    BY <2>1 DEF Advances, TypeOK, RequestsOK
  <2> QED BY <2>1, <2>2 DEF Exclusive, Advances, Working
<1>2. ASSUME NEW r \in Reqs, NEW a \in Apps, Request(r, a) PROVE Exclusive'
  <2>1. PICK new : req' = [req EXCEPT ![r] = new] /\ new.app = a
    BY <1>2, RequestBegins
  <2>2. \A q \in Reqs : req'[q] = IF q = r THEN new ELSE req[q]
    BY <2>1 DEF TypeOK, RequestsOK
  <2>3. Quiet(a)
    BY <1>2, RequestBegins
  <2> QED BY <2>1, <2>2, <2>3 DEF Exclusive, Quiet, Working
<1>3. CASE SyncStep \/ BootStep \/ UNCHANGED vars
  <2>1. req' = req
    BY <1>3 DEF SyncStep, SyncLists, SyncReads, SyncDecides, SyncWrites, BootStep, BootLists,
       BootMerges, OutsideSync, vars
  <2> QED BY <2>1 DEF Exclusive, Working
<1>4. CASE Crash
  BY <1>4, CrashEnds DEF Exclusive, Working
<1> QED BY <1>1, <1>2, <1>3, <1>4 DEF Next

LEMMA NoneWorks == Init => \A r \in Reqs : ~Working(r)
BY Steps DEF Init, Unused, Working

\* An uninstall past `helm uninstall` works on an app that has no release.
LEMMA GoneStep ==
  ASSUME TypeOK, Exclusive, ReleaseGone, [Next]_vars
  PROVE  ReleaseGone'
<1>1. ASSUME NEW r \in Reqs, Work(r) PROVE ReleaseGone'
  <2>1. PICK new : Advances(r, new)
    BY <1>1, WorkAdvances
  <2>2. \A q \in Reqs : req'[q] = IF q = r THEN new ELSE req[q]
    BY <2>1 DEF Advances, TypeOK, RequestsOK
  <2>3. \A q \in Reqs : q # r /\ req[q].pc \in Emptied => release'[req[q].app] = "none"
    <3>1. Spares(req[r].app)
      BY <1>1, WorkAdvances
    <3>2. \A q \in Reqs : q # r /\ req[q].pc \in Emptied => req[q].app \in Apps \ {req[r].app}
      BY <2>1, EmptiedBusy, Steps DEF Exclusive, Working, Advances, TypeOK, RequestsOK
    <3> QED BY <3>1, <3>2 DEF Spares, ReleaseGone
  <2>4. new.pc \in Emptied => release'[req[r].app] = "none"
    <3>0. req[r].app \in Apps /\ new.pc = req'[r].pc
      BY <2>1, <2>2, Steps DEF Advances, Working, TypeOK, RequestsOK
    <3>1. CASE UninstallSucceeds(r)
      BY <3>0, <3>1 DEF UninstallSucceeds, Commands, HelmUninstalls, TypeOK, ClusterTypeOK
    <3>2. CASE UninstallCollects(r) \/ UninstallDeregisters(r) \/ UninstallUnclaims(r) \/ UninstallFinishes(r)
      <4>1. req[r].pc \in Emptied /\ release' = release
        BY <3>2 DEF UninstallCollects, UninstallDeregisters, UninstallUnclaims, UninstallFinishes,
           Commands, DeletesOrphans, SetsCRD, OutsideStore, clusterVars, Emptied, At
      <4> QED BY <4>1 DEF ReleaseGone
    <3>3. CASE InstallWorks(r) \/ ScaleWorks(r) \/ Toggles(r) \/ Claims(r) \/ UninstallMarks(r)
               \/ UninstallFails(r) \/ UninstallGivesUp(r) \/ UninstallForgets(r)
      <4>1. \/ \E pc \in (Busy \cup {"done"}) \ Emptied : Goto(r, pc)
            \/ InstallRegisters(r) \/ Toggles(r)
        BY <3>3, Steps DEF InstallWorks, ScaleWorks, Claims, UninstallMarks, UninstallFails,
           UninstallGivesUp, UninstallForgets, Commands, InstallSteps, UninstallSteps, ScaleSteps,
           Emptied, InstallCleans, InstallCreates, InstallDownloads, InstallFetches,
           InstallPrepares, InstallGivesUp, InstallPurges, HelmStarts, HelmRefuses, HelmSucceeds,
           HelmBreaks, InstallCleansUp, InstallRuns, ScaleMarks, ScaleSucceeds,
           ScaleGivesUp, ScaleSettles, ScaleFailed
      <4>2. ASSUME NEW pc \in (Busy \cup {"done"}) \ Emptied, Goto(r, pc) PROVE new.pc \notin Emptied
        BY <2>1, <2>2, <4>2, GotoNew DEF TypeOK, RequestsOK
      <4>3. CASE InstallRegisters(r) \/ Toggles(r)
        <5>1. Working(r)
          BY <2>1 DEF Advances
        <5>2. PICK hosts : Claiming(r, hosts)
          BY <4>3, ClaimingStarts
        <5>3. PICK claimed : Advances(r, claimed) /\ claimed.pc = "claim"
          BY <5>1, <5>2, ClaimAdvances
        <5>4. req'[r] = claimed /\ req'[r] = new
          BY <2>2, <5>3 DEF Advances, TypeOK, RequestsOK
        <5> QED BY <5>3, <5>4 DEF Emptied
      <4> QED BY <4>1, <4>2, <4>3
    <3> QED BY <1>1, <3>1, <3>2, <3>3 DEF Work, UninstallWorks
  <2> QED BY <2>1, <2>2, <2>3, <2>4 DEF ReleaseGone, Advances
<1>2. ASSUME NEW r \in Reqs, NEW a \in Apps, Request(r, a) PROVE ReleaseGone'
  <2>1. PICK new : req' = [req EXCEPT ![r] = new] /\ new.pc \notin Emptied
    BY <1>2, RequestBegins DEF Emptied
  <2>2. \A q \in Reqs : req'[q] = IF q = r THEN new ELSE req[q]
    BY <2>1 DEF TypeOK, RequestsOK
  <2>3. release' = release
    BY <1>2, RequestBegins DEF OutsideStore, clusterVars
  <2> QED BY <2>1, <2>2, <2>3 DEF ReleaseGone
<1>3. CASE SyncStep \/ BootStep \/ UNCHANGED vars
  <2>1. req' = req /\ release' = release
    BY <1>3 DEF SyncStep, SyncLists, SyncReads, SyncDecides, SyncWrites, BootStep, BootLists,
       BootMerges, OutsideSync, vars, clusterVars
  <2> QED BY <2>1 DEF ReleaseGone
<1>4. CASE Crash
  BY <1>4, CrashEnds, EmptiedBusy DEF ReleaseGone
<1> QED BY <1>1, <1>2, <1>3, <1>4 DEF Next

-----------------------------------------------------------------------------
(***************************************************************************)
(* A deployed app has its Application resource.  Between helm and the       *)
(* resource the install that will apply it is still at work (Registering);  *)
(* an uninstall that removes it works on an app without a release           *)
(* (ReleaseGone, which needs Exclusive).                                   *)
(***************************************************************************)

Registering(a) == \E r \in Reqs : req[r].app = a /\ req[r].pc \in {"running", "register"}

Registered ==
  crashes = 0 => \A a \in Apps : release[a] = "deployed" => crd[a] \/ Registering(a)

\* A worker's step, seen from its own app.
LEMMA OwnRegistered ==
  ASSUME TypeOK, ReleaseGone, "kubectl" \notin ClusterFaults,
         NEW r \in Reqs, Work(r), NEW new, Advances(r, new),
         release'[req[r].app] = "deployed"
  PROVE  \/ crd'[req[r].app]
         \/ new.pc \in {"running", "register"}
         \/ /\ release[req[r].app] = "deployed" /\ crd'[req[r].app] = crd[req[r].app]
            /\ req[r].pc \notin {"running", "register"}
<1> USE Steps DEF At
<1>0. /\ req[r].app \in Apps /\ req'[r] = new
      /\ \A pc \in Busy : Goto(r, pc) => new.pc = pc
  BY DEF Advances, Working, TypeOK, RequestsOK, Request0, Goto
<1>1. CASE HelmSucceeds(r)
  BY <1>0, <1>1 DEF HelmSucceeds, Commands, InstallSteps
<1>2. CASE InstallRuns(r)
  BY <1>0, <1>2 DEF InstallRuns, InstallSteps
<1>3. CASE InstallRegisters(r)
  BY <1>0, <1>3 DEF InstallRegisters, SetsCRD, TypeOK, ClusterTypeOK
<1>4. CASE UninstallDeregisters(r)
  BY <1>4 DEF UninstallDeregisters, Commands, SetsCRD, ReleaseGone, Emptied
<1>5. CASE \/ InstallCleans(r) \/ InstallCreates(r) \/ InstallDownloads(r) \/ InstallFetches(r)
           \/ InstallPrepares(r) \/ InstallGivesUp(r)
           \/ UninstallMarks(r) \/ UninstallGivesUp(r) \/ UninstallFinishes(r) \/ UninstallForgets(r)
           \/ UninstallUnclaims(r)
           \/ ScaleMarks(r) \/ ScaleSettles(r) \/ ScaleFailed(r) \/ Toggles(r) \/ Claims(r)
  BY <1>5 DEF InstallCleans, InstallCreates, InstallDownloads, InstallFetches, InstallPrepares,
     InstallGivesUp, UninstallMarks, UninstallGivesUp, UninstallFinishes, UninstallForgets,
     UninstallUnclaims, ScaleMarks, ScaleSettles, ScaleFailed, Toggles, Claims, OutsideStore, clusterVars
<1>6. CASE \/ InstallPurges(r) \/ HelmStarts(r) \/ HelmRefuses(r) \/ HelmBreaks(r) \/ InstallCleansUp(r)
           \/ UninstallSucceeds(r) \/ UninstallFails(r) \/ UninstallCollects(r)
           \/ ScaleSucceeds(r) \/ ScaleGivesUp(r)
  BY <1>0, <1>6 DEF InstallPurges, HelmStarts, HelmRefuses, HelmBreaks, InstallCleansUp,
     UninstallSucceeds, UninstallFails, UninstallCollects, ScaleSucceeds, ScaleGivesUp, Commands,
     HelmInstallBegins, HelmInstallBreaks, HelmMarks, HelmUninstalls, HelmUninstallFails,
     Scales, ScaleFails, DeletesOrphans, clusterVars, TypeOK, ClusterTypeOK
<1> QED BY <1>1, <1>2, <1>3, <1>4, <1>5, <1>6 DEF Work, InstallWorks, UninstallWorks, ScaleWorks

LEMMA RegisteredStep ==
  ASSUME TypeOK, ReleaseGone, Registered, "kubectl" \notin ClusterFaults, [Next]_vars
  PROVE  Registered'
<1>1. ASSUME NEW r \in Reqs, Work(r) PROVE Registered'
  <2>1. PICK new : Advances(r, new)
    BY <1>1, WorkAdvances
  <2>2. \A q \in Reqs : req'[q] = IF q = r THEN new ELSE req[q]
    BY <2>1 DEF Advances, TypeOK, RequestsOK
  <2>3. SUFFICES ASSUME crashes = 0, NEW a \in Apps, release'[a] = "deployed"
                 PROVE  crd'[a] \/ Registering(a)'
    BY <1>1, WorkAdvances DEF Registered
  <2>4. CASE a = req[r].app
    <3>1. new.app = a /\ (new.pc \in {"running", "register"} => Registering(a)')
      BY <2>1, <2>2, <2>4 DEF Advances, Registering
    <3>2. CASE release[a] = "deployed" /\ crd'[a] = crd[a] /\ req[r].pc \notin {"running", "register"}
      BY <2>2, <2>3, <3>2 DEF Registered, Registering
    <3> QED BY <1>1, <2>1, <2>3, <2>4, <3>1, <3>2, OwnRegistered
  <2>5. CASE a # req[r].app
    <3>1. release[a] = "deployed" /\ crd'[a] = crd[a]
      BY <1>1, <2>3, <2>5, WorkAdvances DEF Spares
    <3> QED BY <2>2, <2>3, <2>5, <3>1 DEF Registered, Registering
  <2> QED BY <2>4, <2>5
<1>2. ASSUME NEW r \in Reqs, NEW a \in Apps, Request(r, a) PROVE Registered'
  <2>1. PICK new : req' = [req EXCEPT ![r] = new]
    BY <1>2, RequestBegins
  <2>2. \A q \in Reqs : q # r => req'[q] = req[q]
    BY <2>1 DEF TypeOK, RequestsOK
  <2>3. req[r].pc = "new" /\ UNCHANGED <<release, crd, crashes>>
    BY <1>2, RequestBegins DEF OutsideStore, clusterVars
  <2> QED BY <2>2, <2>3 DEF Registered, Registering
<1>3. CASE SyncStep \/ BootStep \/ UNCHANGED vars
  <2>1. UNCHANGED <<req, release, crd, crashes>>
    BY <1>3 DEF SyncStep, SyncLists, SyncReads, SyncDecides, SyncWrites, BootStep, BootLists,
       BootMerges, OutsideSync, vars, clusterVars
  <2> QED BY <2>1 DEF Registered, Registering
<1>4. CASE Crash
  BY <1>4, LifecycleAssumption DEF Crash, Registered, TypeOK
<1> QED BY <1>1, <1>2, <1>3, <1>4 DEF Next

\* The desktop finds every app that is deployed: as long as neither kubectl nor the
\* process has failed and users wait for an app's request to end, a release that
\* helm reports as deployed has its Application resource once no request for the
\* app is under way, however helm, the scaling, the file and the status sync behave.
THEOREM DeployedRegistered == Spec => []DeployedIsRegistered
<1> DEFINE Assumed == Serial /\ "kubectl" \notin ClusterFaults
           IInv == Exclusive /\ ReleaseGone /\ Registered
<1>1. Init => IInv
  <2>1. Init => \A a \in Apps : release[a] = "deployed" => crd[a]
    BY DEF Init, ClusterInit
  <2>2. Init => \A r \in Reqs : req[r].pc = "new"
    BY DEF Init, Unused
  <2> QED BY <2>1, <2>2, NoneWorks, EmptiedBusy DEF Exclusive, ReleaseGone, Registered, Emptied
<1>2. CASE Assumed
  <2>1. TypeOK /\ IInv /\ [Next]_vars => IInv'
    BY <1>2, ExclusiveStep, GoneStep, RegisteredStep
  <2>2. IInv => DeployedIsRegistered
    BY Steps DEF DeployedIsRegistered, Registered, Registering, Quiet, Working, InstallSteps
  <2> QED BY <1>1, <2>1, <2>2, TypeCorrect, PTL DEF Spec
<1>3. CASE ~Assumed
  <2>1. DeployedIsRegistered
    BY <1>3 DEF DeployedIsRegistered
  <2> QED BY <2>1, PTL
<1> QED BY <1>2, <1>3

-----------------------------------------------------------------------------
(***************************************************************************)
(* A stopped app is scaled down.  The record a worker holds, the one the    *)
(* table points at and the one in the file can all differ, so each of them  *)
(* must not say "Stopped" while the pods are up; and a worker that may yet  *)
(* scale the pods up must know that none of the three says it.              *)
(***************************************************************************)

\* Every pointer to a record is kept under the name of the record's app.
Owned ==
  /\ \A a \in Apps : apps[a] # None => AppOf(apps[a]) = a
  /\ \A r \in Reqs : Working(r) => AppOf(req[r].rec) = req[r].app

\* The steps of r from which the pods of its app may go up.
Raising(r) ==
  \/ req[r].pc \in InstallSteps \ {"clean", "create"}
  \/ req[r].pc \in {"scale", "settled", "unsettled"} /\ req[r].kind # "suspend"

Awake(a) ==
  /\ apps[a] # None => heap[apps[a]].state # "Stopped"
  /\ file[a] # None => file[a].state # "Stopped"

HoldsStopped(r) ==
  Working(r) /\ req[r].pc \notin {"clean", "create"} /\ heap[req[r].rec].state = "Stopped"

Lowered ==
  /\ \A a \in Apps : pods[a] = "up" => Awake(a)
  /\ \A r \in Reqs :
       /\ HoldsStopped(r) => pods[req[r].app] # "up"
       /\ Raising(r) => Awake(req[r].app) /\ heap[req[r].rec].state # "Stopped"
       /\ req[r].pc = "settled" /\ req[r].kind = "suspend" => pods[req[r].app] # "up"

\* What a save leaves in the file for an app: what was there, nothing, or the
\* record in the table.
LEMMA SaveLeaves ==
  ASSUME NEW outcome \in SaveOutcomes, Save(outcome), NEW a \in Apps
  PROVE  /\ \/ file'[a] = None
            \/ apps'[a] # None /\ file'[a] = heap'[apps'[a]]
            \/ outcome # "ok" /\ file'[a] = file[a]
BY StoreAssumption DEF SaveOutcomes, Save, Image, NothingSaved

\* The worker r and the others before and after a step of r.
LEMMA WorkerStep ==
  ASSUME TypeOK, Exclusive, Owned, NEW r \in Reqs, NEW new, Advances(r, new)
  PROVE  /\ req[r].app \in Apps /\ req[r].rec \in Recs /\ AppOf(req[r].rec) = req[r].app
         /\ \A q \in Reqs : req'[q] = IF q = r THEN new ELSE req[q]
         /\ \A q \in Reqs \ {r} : Working(q) =>
              /\ req[q].app \in Apps /\ req[q].rec \in Recs
              /\ req[q].app # req[r].app /\ req[q].rec # req[r].rec
         /\ \A b \in Apps : b # req[r].app => apps[b] # req[r].rec
<1>1. /\ req[r].app \in Apps /\ req[r].rec \in Recs /\ AppOf(req[r].rec) = req[r].app
      /\ \A q \in Reqs : req'[q] = IF q = r THEN new ELSE req[q]
  BY Steps DEF Advances, Working, TypeOK, RequestsOK, Pointers, Owned
<1>3. \A q \in Reqs \ {r} : Working(q) =>
        /\ req[q].app \in Apps /\ req[q].rec \in Recs /\ AppOf(req[q].rec) = req[q].app
        /\ req[q].app # req[r].app
  BY Steps DEF Exclusive, Advances, Working, TypeOK, RequestsOK, Pointers, Owned
<1>4. \A b \in Apps : b # req[r].app => apps[b] # req[r].rec
  BY <1>1, StoreAssumption DEF Owned
<1> QED BY <1>1, <1>3, <1>4

\* The table changes under the name of a worker's app only, to the record it holds.
LEMMA OwnedStays ==
  ASSUME TypeOK, Exclusive, Owned, NEW r \in Reqs, NEW new, Advances(r, new),
         \A b \in Apps : \/ apps'[b] \in {apps[b], None}
                         \/ b = req[r].app /\ apps'[b] = req[r].rec
  PROVE  Owned'
<1>1. /\ \A q \in Reqs : req'[q] = IF q = r THEN new ELSE req[q]
      /\ \A q \in Reqs : req'[q].app = req[q].app
  <2>1. new.app = req[r].app
    BY DEF Advances
  <2> QED BY <2>1, WorkerStep
<1>2. \A x \in Recs : (IF x \in Apps THEN x ELSE req'[x].app) = IF x \in Apps THEN x ELSE req[x].app
  BY <1>1, LifecycleAssumption
<1>3. ASSUME NEW b \in Apps, apps'[b] # None
      PROVE  (IF apps'[b] \in Apps THEN apps'[b] ELSE req'[apps'[b]].app) = b
  <2>1. CASE apps'[b] = apps[b]
    <3>1. apps[b] \in Recs /\ (IF apps[b] \in Apps THEN apps[b] ELSE req[apps[b]].app) = b
      BY <1>3, <2>1 DEF Owned, AppOf, TypeOK, StoreTypeOK
    <3> QED BY <1>2, <2>1, <3>1
  <2>2. CASE b = req[r].app /\ apps'[b] = req[r].rec
    <3>1. req[r].rec \in Recs /\ (IF req[r].rec \in Apps THEN req[r].rec ELSE req[req[r].rec].app) = b
      BY <2>2, WorkerStep DEF AppOf
    <3> QED BY <1>2, <2>2, <3>1
  <2> QED BY <1>3, <2>1, <2>2
<1>4. ASSUME NEW q \in Reqs, req'[q].pc \in Busy
      PROVE  (IF req'[q].rec \in Apps THEN req'[q].rec ELSE req'[req'[q].rec].app) = req'[q].app
  <2>1. req'[q].rec = req[q].rec /\ Working(q)
    BY <1>1, <1>4, Steps DEF Advances, Working
  <2>2. req[q].rec \in Recs /\ (IF req[q].rec \in Apps THEN req[q].rec ELSE req[req[q].rec].app) = req[q].app
    BY <2>1 DEF Owned, AppOf, TypeOK, RequestsOK, Working, Pointers
  <2> QED BY <1>1, <1>2, <2>1, <2>2
<1> QED BY <1>3, <1>4 DEF Owned, AppOf, Working

LEMMA RaisingWorks == \A r \in Reqs : Raising(r) \/ req[r].pc = "settled" => Working(r)
BY DEF Raising, Working, Busy, ScaleSteps

\* A worker stores its record.
LEMMA PutLowers ==
  ASSUME TypeOK, Exclusive, Owned, Lowered, NEW r \in Reqs, NEW new, Advances(r, new),
         NEW rec, NEW outcome \in SaveOutcomes,
         Put(req[r].app, req[r].rec, rec, outcome), UNCHANGED clusterVars,
         rec.state = "Stopped" => pods[req[r].app] # "up",
         new.pc # "settled",
         Raising(r)' => rec.state # "Stopped" /\ (Raising(r) \/ outcome = "ok")
  PROVE  Owned' /\ Lowered'
<1> DEFINE a == req[r].app
           p == req[r].rec
<1> USE RaisingWorks DEF clusterVars
<1>1. /\ a \in Apps /\ p \in Recs /\ p # None /\ new.app = a
      /\ \A q \in Reqs : req'[q] = IF q = r THEN new ELSE req[q]
      /\ \A q \in Reqs \ {r} : Working(q) =>
           req[q].app \in Apps /\ req[q].rec \in Recs /\ req[q].app # a /\ req[q].rec # p
      /\ \A b \in Apps : b # a => apps[b] # p
  <2>1. new.app = a
    BY DEF Advances
  <2> QED BY <2>1, WorkerStep, StoreAssumption
<1>2. /\ \A b \in Apps : apps'[b] = IF b = a THEN p ELSE apps[b]
      /\ \A x \in Recs : heap'[x] = IF x = p THEN rec ELSE heap[x]
      /\ \A b \in Apps : apps[b] # None => apps[b] \in Recs
  BY <1>1 DEF Put, TypeOK, StoreTypeOK
<1>3. \A b \in Apps : \/ file'[b] = None
                      \/ apps'[b] # None /\ file'[b] = heap'[apps'[b]]
                      \/ outcome # "ok" /\ file'[b] = file[b]
  BY SaveLeaves DEF Put
<1>4. Owned'
  BY <1>1, <1>2, OwnedStays
<1>5. \A b \in Apps : b # a /\ Awake(b) => Awake(b)'
  BY <1>1, <1>2, <1>3 DEF Awake
<1>6. rec.state # "Stopped" /\ (outcome = "ok" \/ Awake(a)) => Awake(a)'
  BY <1>1, <1>2, <1>3 DEF Awake
<1>7. \A b \in Apps : pods'[b] = "up" => Awake(b)'
  BY <1>1, <1>5, <1>6 DEF Lowered
<1>8. ASSUME NEW q \in Reqs
      PROVE  /\ HoldsStopped(q)' => pods'[req'[q].app] # "up"
             /\ Raising(q)' => Awake(req[q].app)' /\ heap'[req'[q].rec].state # "Stopped"
             /\ req'[q].app = req[q].app
             /\ req'[q].pc = "settled" /\ req'[q].kind = "suspend" => pods'[req'[q].app] # "up"
  <2>1. CASE q = r
    <3>1. Working(r)' => new.rec = p
      BY <1>1, Steps DEF Advances, Working
    <3>2. HoldsStopped(r)' => pods'[a] # "up"
      BY <1>1, <1>2, <3>1 DEF HoldsStopped
    <3>3. ASSUME Raising(r)' PROVE Awake(a)' /\ heap'[new.rec].state # "Stopped"
      <4>1. Working(r)'
        BY <1>1, <3>3 DEF Raising, Working, Busy, ScaleSteps
      <4> QED BY <1>1, <1>2, <1>6, <3>1, <3>3, <4>1 DEF Lowered
    <3> QED BY <1>1, <2>1, <3>2, <3>3
  <2>2. CASE q # r
    <3>1. req'[q] = req[q] /\ (Working(q)' <=> Working(q)) /\ (Raising(q)' <=> Raising(q))
      BY <1>1, <2>2 DEF Working, Raising
    <3>2. Working(q) => heap'[req[q].rec] = heap[req[q].rec]
      BY <1>1, <1>2, <2>2
    <3> QED BY <1>1, <1>5, <2>2, <3>1, <3>2 DEF Lowered, HoldsStopped
  <2> QED BY <2>1, <2>2
<1>9. \A q \in Reqs : Awake(req[q].app)' /\ req'[q].app = req[q].app => Awake(req[q].app)'
  OBVIOUS
<1> QED BY <1>4, <1>7, <1>8 DEF Lowered, Awake

\* A worker drops its app's record.
LEMMA DropLowers ==
  ASSUME TypeOK, Exclusive, Owned, Lowered, NEW r \in Reqs, NEW new, Advances(r, new),
         NEW outcome \in SaveOutcomes, Delete(req[r].app, outcome), UNCHANGED clusterVars,
         new.pc \in {"create", "done"}
  PROVE  Owned' /\ Lowered'
<1> DEFINE a == req[r].app
<1>1. /\ a \in Apps /\ new.app = a
      /\ \A q \in Reqs : req'[q] = IF q = r THEN new ELSE req[q]
  <2>1. new.app = a BY DEF Advances
  <2> QED BY <2>1, WorkerStep
<1> USE RaisingWorks DEF clusterVars
<1>2. /\ \A b \in Apps : apps'[b] = IF b = a THEN None ELSE apps[b]
      /\ heap' = heap
      /\ \A b \in Apps : apps[b] # None => apps[b] \in Recs
  BY <1>1 DEF Delete, TypeOK, StoreTypeOK
<1>3. \A b \in Apps : \/ file'[b] = None
                      \/ apps'[b] # None /\ file'[b] = heap'[apps'[b]]
                      \/ file'[b] = file[b]
  BY SaveLeaves DEF Delete
<1>4. \A b \in Apps : Awake(b) => Awake(b)'
  BY <1>2, <1>3 DEF Awake
<1>5. Owned'
  BY <1>1, <1>2, OwnedStays
<1>6. ASSUME NEW q \in Reqs
      PROVE  /\ HoldsStopped(q)' => pods'[req'[q].app] # "up"
             /\ Raising(q)' => Awake(req[q].app)' /\ heap'[req'[q].rec].state # "Stopped"
             /\ req'[q].app = req[q].app
             /\ req'[q].pc = "settled" /\ req'[q].kind = "suspend" => pods'[req'[q].app] # "up"
  <2>1. CASE q = r
    BY <1>1, <2>1, Steps DEF HoldsStopped, Raising, Working, InstallSteps
  <2>2. CASE q # r
    <3>1. req'[q] = req[q] /\ (Working(q)' <=> Working(q)) /\ (Raising(q)' <=> Raising(q))
      BY <1>1, <2>2 DEF Working, Raising
    <3>2. Working(q) => req[q].app \in Apps
      BY Steps DEF TypeOK, RequestsOK, Working
    <3> QED BY <1>2, <1>4, <3>1, <3>2 DEF Lowered, HoldsStopped
  <2> QED BY <2>1, <2>2
<1> QED BY <1>4, <1>5, <1>6 DEF Lowered, Awake

\* A worker runs a command.
LEMMA CommandLowers ==
  ASSUME TypeOK, Exclusive, Owned, Lowered, NEW r \in Reqs, NEW new, Advances(r, new),
         UNCHANGED storeVars, Spares(req[r].app), req[r].pc \notin {"clean", "create"},
         pods'[req[r].app] = "up" => pods[req[r].app] = "up" \/ Raising(r),
         Raising(r)' => Raising(r),
         new.pc = "settled" /\ req[r].kind = "suspend" => pods'[req[r].app] # "up"
  PROVE  Owned' /\ Lowered'
<1> DEFINE a == req[r].app
<1>1. /\ a \in Apps /\ new.app = a
      /\ \A q \in Reqs : req'[q] = IF q = r THEN new ELSE req[q]
      /\ \A q \in Reqs \ {r} : Working(q) => req[q].app \in Apps /\ req[q].app # a
  <2>1. new.app = a BY DEF Advances
  <2> QED BY <2>1, WorkerStep
<1> USE RaisingWorks DEF storeVars
<1>2. apps' = apps /\ heap' = heap /\ file' = file
  OBVIOUS
<1>3. \A b \in Apps : b # a => pods'[b] = pods[b]
  BY DEF Spares
<1>4. Owned'
  BY <1>1, <1>2, OwnedStays
<1>5. \A b \in Apps : pods'[b] = "up" => Awake(b)
  BY <1>1, <1>3 DEF Lowered
<1>6. ASSUME NEW q \in Reqs
      PROVE  /\ HoldsStopped(q)' => pods'[req'[q].app] # "up"
             /\ Raising(q)' => Awake(req[q].app) /\ heap'[req'[q].rec].state # "Stopped"
             /\ req'[q].app = req[q].app
             /\ req'[q].pc = "settled" /\ req'[q].kind = "suspend" => pods'[req'[q].app] # "up"
  <2>1. CASE q = r
    <3>1. Working(r)' => Working(r) /\ new.rec = req[r].rec /\ new.kind = req[r].kind
      BY <1>1, Steps DEF Advances, Working
    <3>2. Raising(r)' \/ new.pc = "settled" => Working(r)'
      BY <1>1 DEF Raising, Working, Busy, ScaleSteps
    <3> QED BY <1>1, <2>1, <3>1, <3>2 DEF Lowered, HoldsStopped
  <2>2. CASE q # r
    <3>1. req'[q] = req[q] /\ (Working(q)' <=> Working(q)) /\ (Raising(q)' <=> Raising(q))
      BY <1>1, <2>2 DEF Working, Raising
    <3> QED BY <1>1, <1>3, <2>2, <3>1 DEF Lowered, HoldsStopped
  <2> QED BY <2>1, <2>2
<1>7. \A q \in Reqs : Raising(q)' => req[q].app \in Apps
  BY <1>1, RaisingWorks DEF Raising, Working, Busy, ScaleSteps
<1> QED BY <1>2, <1>4, <1>5, <1>6, <1>7 DEF Lowered, Awake

LEMMA AdvancesOnce ==
  ASSUME TypeOK, NEW r \in Reqs, NEW new, NEW went, Advances(r, new), Advances(r, went)
  PROVE  new = went
BY DEF Advances, TypeOK, RequestsOK

\* Where a step takes its worker.
LEMMA GotoIs ==
  ASSUME TypeOK, NEW r \in Reqs, NEW new, Advances(r, new),
         NEW pc \in Busy \cup {"done"}, Goto(r, pc)
  PROVE  new.pc = pc
<1>1. PICK went : Advances(r, went) /\ went.pc = pc
  BY GotoAdvances DEF Advances
<1> QED BY <1>1, AdvancesOnce

\* The same where the step also notes the hosts.
LEMMA ClaimIs ==
  ASSUME TypeOK, NEW r \in Reqs, NEW new, Advances(r, new), NEW hosts,
         Claiming(r, hosts)
  PROVE  new.pc = "claim" /\ new.hosts = hosts
<1>0. Working(r)
  BY DEF Advances
<1>1. PICK went : Advances(r, went) /\ went.pc = "claim" /\ went.hosts = hosts
  BY <1>0, ClaimAdvances
<1> QED BY <1>1, AdvancesOnce

LEMMA RaisingNext ==
  ASSUME TypeOK, NEW r \in Reqs, NEW new, Advances(r, new), Raising(r)'
  PROVE  \/ new.pc \in InstallSteps \ {"clean", "create"}
         \/ new.pc \in {"scale", "settled", "unsettled"} /\ req[r].kind # "suspend"
<1>1. req'[r] = new
  BY DEF Advances, TypeOK, RequestsOK
<1> QED BY <1>1, Steps DEF Advances, Raising, InstallSteps

\* The step of r in which it writes state s.
LEMMA StateLowers ==
  ASSUME TypeOK, Exclusive, Owned, Lowered, NEW r \in Reqs, NEW new, Advances(r, new),
         NEW s \in States, NEW outcome \in SaveOutcomes, SetState(r, s, outcome),
         UNCHANGED OutsideStore,
         s = "Stopped" => pods[req[r].app] # "up",
         new.pc # "settled",
         Raising(r)' => s # "Stopped" /\ (Raising(r) \/ outcome = "ok")
  PROVE  Owned' /\ Lowered'
<1>1. req[r].rec \in Recs
  BY WorkerStep
<1>2. [heap[req[r].rec] EXCEPT !.state = s].state = s
  BY <1>1, StateType DEF TypeOK
<1> QED BY <1>2, PutLowers DEF SetState, OutsideStore

LEMMA InstallLowers ==
  ASSUME TypeOK, Exclusive, Owned, Lowered, NEW r \in Reqs, InstallWorks(r)
  PROVE  Owned' /\ Lowered'
<1> USE Steps DEF At
<1>0. PICK new : Advances(r, new)
  BY WorkAdvances DEF Work
<1>1. /\ req[r].pc \in InstallSteps => req[r].rec = r
      /\ req[r].app \in Apps /\ Spares(req[r].app)
  BY <1>0, WorkAdvances, WorkerStep DEF Work, TypeOK, RequestsOK
<1>2. req[r].pc \in InstallSteps \ {"clean", "create"} => Raising(r) /\ heap[req[r].rec].state # "Stopped"
  BY DEF Raising, Lowered
<1>3. CASE InstallCleans(r)
  <2>1. new.pc = "create"
    BY <1>0, <1>3, GotoIs DEF InstallCleans, InstallSteps
  <2> QED BY <1>0, <1>3, <2>1, DropLowers DEF InstallCleans, OutsideStore
<1>4. CASE InstallCreates(r)
  <2>1. PICK outcome \in SaveOutcomes :
          /\ Put(req[r].app, r, [Blank EXCEPT !.state = "Pending"], outcome)
          /\ Goto(r, IF outcome = "ok" THEN "download" ELSE "done")
    BY <1>4 DEF InstallCreates
  <2>2. new.pc = IF outcome = "ok" THEN "download" ELSE "done"
    BY <1>0, <2>1, GotoIs DEF InstallSteps
  <2>3. [Blank EXCEPT !.state = "Pending"].state # "Stopped" /\ req[r].rec = r
    BY <1>1, <1>4 DEF Blank, InstallCreates, InstallSteps
  <2>4. Raising(r)' => outcome = "ok"
    BY <1>0, <2>2, RaisingNext DEF InstallSteps
  <2> QED BY <1>0, <1>4, <2>1, <2>2, <2>3, <2>4, PutLowers DEF InstallCreates, OutsideStore
<1>5. CASE InstallFetches(r)
  <2>1. PICK outcome \in SaveOutcomes, e \in BOOLEAN :
          Put(req[r].app, r, [heap[r] EXCEPT !.entered = e], outcome)
    BY <1>5 DEF InstallFetches
  <2>2. new.pc = "values" /\ req[r].rec = r /\ Raising(r)
    BY <1>0, <1>1, <1>2, <1>5, GotoIs DEF InstallFetches, InstallSteps
  <2>3. [heap[r] EXCEPT !.entered = e].state # "Stopped"
    BY <1>2, <1>5, <2>2, LifecycleAssumption DEF InstallFetches, InstallSteps, TypeOK, StoreTypeOK, AppRecord
  <2>4. UNCHANGED clusterVars /\ new.pc # "settled"
    BY <1>5, <2>2 DEF InstallFetches, OutsideStore
  <2>5. Put(req[r].app, req[r].rec, [heap[r] EXCEPT !.entered = e], outcome)
    BY <2>1, <2>2
  <2> QED BY <1>0, <2>2, <2>3, <2>4, <2>5, PutLowers
<1>6. CASE InstallDownloads(r) \/ InstallPrepares(r) \/ InstallGivesUp(r) \/ InstallRuns(r)
  <2>1. PICK outcome \in SaveOutcomes, s \in States \ {"Stopped"} : SetState(r, s, outcome)
    BY <1>6 DEF InstallDownloads, InstallPrepares, InstallGivesUp, InstallRuns, Becomes,
       States, Failed, Transitional
  <2>2. Raising(r) /\ UNCHANGED OutsideStore
    BY <1>2, <1>6 DEF InstallDownloads, InstallPrepares, InstallGivesUp, InstallRuns, InstallSteps
  <2>3. PICK pc \in {"fetch", "purge", "done", "register"} : Goto(r, pc)
    BY <1>6 DEF InstallDownloads, InstallPrepares, InstallGivesUp, InstallRuns
  <2>4. new.pc # "settled"
    BY <1>0, <2>3, GotoIs DEF InstallSteps
  <2> QED BY <1>0, <2>1, <2>2, <2>4, StateLowers
<1>7. CASE InstallPurges(r) \/ HelmStarts(r) \/ HelmRefuses(r) \/ HelmSucceeds(r)
           \/ HelmBreaks(r) \/ InstallCleansUp(r)
  <2>1. Raising(r) /\ req[r].pc \notin {"clean", "create"} /\ UNCHANGED storeVars
    BY <1>2, <1>7 DEF InstallPurges, HelmStarts, HelmRefuses, HelmSucceeds, HelmBreaks,
       InstallCleansUp, Commands, OutsideCluster, InstallSteps
  <2>2. PICK pc \in {"helmInstall", "helmWait", "cleanup", "running", "broken"} : Goto(r, pc)
    BY <1>7 DEF InstallPurges, HelmStarts, HelmRefuses, HelmSucceeds, HelmBreaks,
       InstallCleansUp, Commands
  <2>3. new.pc # "settled"
    BY <1>0, <2>2, GotoIs DEF InstallSteps
  <2> QED BY <1>0, <1>1, <2>1, <2>3, CommandLowers
<1>8. CASE InstallRegisters(r)
  <2>1. Raising(r) /\ req[r].pc \notin {"clean", "create"} /\ UNCHANGED storeVars
    BY <1>2, <1>8 DEF InstallRegisters, OutsideCluster, InstallSteps
  <2>2. new.pc = "claim"
    BY <1>0, <1>8, ClaimingStarts, ClaimIs
  <2> QED BY <1>0, <1>1, <2>1, <2>2, CommandLowers
<1> QED BY <1>3, <1>4, <1>5, <1>6, <1>7, <1>8 DEF InstallWorks

LEMMA UninstallLowers ==
  ASSUME TypeOK, Exclusive, Owned, Lowered, NEW r \in Reqs, UninstallWorks(r)
  PROVE  Owned' /\ Lowered'
<1> USE Steps DEF At, UninstallSteps
<1>0. PICK new : Advances(r, new)
  BY WorkAdvances DEF Work
<1>1. req[r].app \in Apps /\ Spares(req[r].app)
  BY <1>0, WorkAdvances, WorkerStep DEF Work
<1>2. CASE UninstallMarks(r) \/ UninstallGivesUp(r) \/ UninstallFinishes(r)
  <2>1. PICK outcome \in SaveOutcomes, s \in States \ {"Stopped"} : SetState(r, s, outcome)
    BY <1>2 DEF UninstallMarks, UninstallGivesUp, UninstallFinishes, Becomes, States, Failed, Transitional
  <2>2. PICK pc \in {"helmUninstall", "forget", "done"} : Goto(r, pc)
    BY <1>2 DEF UninstallMarks, UninstallGivesUp, UninstallFinishes
  <2>3. new.pc \in {"helmUninstall", "forget", "done"}
    BY <1>0, <2>2, GotoIs
  <2>4. ~Raising(r)' /\ UNCHANGED OutsideStore
    BY <1>0, <1>2, <2>3, RaisingNext DEF InstallSteps, UninstallMarks, UninstallGivesUp, UninstallFinishes
  <2> QED BY <1>0, <2>1, <2>3, <2>4, StateLowers
<1>3. CASE UninstallForgets(r)
  <2>1. new.pc = "done"
    BY <1>0, <1>3, GotoIs DEF UninstallForgets
  <2> QED BY <1>0, <1>3, <2>1, DropLowers DEF UninstallForgets, OutsideStore
<1>4. CASE UninstallSucceeds(r) \/ UninstallFails(r) \/ UninstallCollects(r)
           \/ UninstallDeregisters(r) \/ UninstallUnclaims(r)
  <2>1. req[r].pc \notin {"clean", "create"} /\ UNCHANGED storeVars
    BY <1>4 DEF UninstallSucceeds, UninstallFails, UninstallCollects, UninstallDeregisters,
       UninstallUnclaims, Commands, OutsideCluster
  <2>2. PICK pc \in {"orphans", "unable", "deregister", "unclaim", "finish"} : Goto(r, pc)
    BY <1>4 DEF UninstallSucceeds, UninstallFails, UninstallCollects, UninstallDeregisters,
       UninstallUnclaims, Commands
  <2>3. new.pc \in {"orphans", "unable", "deregister", "unclaim", "finish"}
    BY <1>0, <2>2, GotoIs
  <2>4. ~Raising(r)'
    BY <1>0, <2>3, RaisingNext DEF InstallSteps
  <2>5. pods'[req[r].app] = "up" => pods[req[r].app] = "up"
    BY <1>1, <1>4 DEF UninstallSucceeds, UninstallFails, UninstallCollects, UninstallDeregisters,
       UninstallUnclaims, Commands, HelmUninstalls, HelmUninstallFails, DeletesOrphans, SetsCRD,
       clusterVars, TypeOK, ClusterTypeOK
  <2> QED BY <1>0, <1>1, <2>1, <2>3, <2>4, <2>5, CommandLowers
<1> QED BY <1>2, <1>3, <1>4 DEF UninstallWorks

LEMMA ScaleLowers ==
  ASSUME TypeOK, Exclusive, Owned, Lowered, "partial" \notin ClusterFaults,
         NEW r \in Reqs, ScaleWorks(r) \/ Toggles(r) \/ Claims(r)
  PROVE  Owned' /\ Lowered'
<1> USE Steps DEF At, ScaleSteps
<1>0. PICK new : Advances(r, new)
  BY WorkAdvances DEF Work
<1>1. req[r].app \in Apps /\ req[r].rec \in Recs /\ Spares(req[r].app) /\ Working(r)
  BY <1>0, WorkAdvances, WorkerStep DEF Work, Advances
<1>2. CASE ScaleMarks(r)
  <2> DEFINE s == IF For(r, {"suspend"}) THEN "Stopping" ELSE "Resuming"
  <2>1. PICK outcome \in SaveOutcomes :
          /\ SetState(r, s, outcome)
          /\ Goto(r, IF outcome = "ok" THEN "scale" ELSE "done")
    BY <1>2 DEF ScaleMarks
  <2>2. new.pc = IF outcome = "ok" THEN "scale" ELSE "done"
    BY <1>0, <2>1, GotoIs
  <2>3. s \in States /\ s # "Stopped"
    BY DEF States, Transitional
  <2>4. Raising(r)' => outcome = "ok"
    BY <1>0, <2>2, RaisingNext DEF InstallSteps
  <2> HIDE DEF s
  <2> QED BY <1>0, <1>2, <2>1, <2>2, <2>3, <2>4, StateLowers DEF ScaleMarks
<1>3. CASE ScaleSettles(r) \/ ScaleFailed(r)
  <2>1. PICK outcome \in SaveOutcomes, s \in States :
          /\ SetState(r, s, outcome)
          /\ s = "Stopped" => req[r].pc = "settled" /\ req[r].kind = "suspend"
    BY <1>3 DEF ScaleSettles, ScaleFailed, Becomes, For, States, Failed
  <2>2. new.pc = "done"
    BY <1>0, <1>3, GotoIs DEF ScaleSettles, ScaleFailed
  <2>3. ~Raising(r)' /\ UNCHANGED OutsideStore
    BY <1>0, <1>3, <2>2, RaisingNext DEF InstallSteps, ScaleSettles, ScaleFailed
  <2>4. s = "Stopped" => pods[req[r].app] # "up"
    BY <2>1 DEF Lowered
  <2> QED BY <1>0, <2>1, <2>2, <2>3, <2>4, StateLowers
<1>4. CASE ScaleSucceeds(r) \/ ScaleGivesUp(r)
  <2>1. req[r].pc = "scale" /\ UNCHANGED storeVars
    BY <1>4 DEF ScaleSucceeds, ScaleGivesUp, Commands, OutsideCluster
  <2>2. PICK pc \in {"settled", "unsettled"} : Goto(r, pc)
    BY <1>4 DEF ScaleSucceeds, ScaleGivesUp, Commands
  <2>3. new.pc = pc
    BY <1>0, <2>2, GotoIs
  <2>4. Raising(r) <=> req[r].kind # "suspend"
    BY <2>1 DEF Raising, InstallSteps
  <2>5. Raising(r)' => Raising(r)
    BY <1>0, <2>1, <2>3, RaisingNext DEF Raising, InstallSteps
  <2>6. /\ pods'[req[r].app] = "up" => pods[req[r].app] = "up" \/ Level(r) = "up"
        /\ ScaleSucceeds(r) => pods'[req[r].app] = Level(r)
    BY <1>1, <1>4 DEF ScaleSucceeds, ScaleGivesUp, Commands, Scales, ScaleFails, TypeOK, ClusterTypeOK
  <2>7. new.pc = "settled" => ScaleSucceeds(r)
    <3>1. CASE ScaleGivesUp(r)
      BY <1>0, <3>1, GotoIs DEF ScaleGivesUp, Commands
    <3> QED BY <1>4, <3>1
  <2> QED BY <1>0, <1>1, <2>1, <2>4, <2>5, <2>6, <2>7, CommandLowers DEF Level, For
<1>5. CASE Claims(r)
  <2>1. req[r].pc = "claim" /\ UNCHANGED <<storeVars, clusterVars>> /\ new.pc = "done"
    BY <1>0, <1>5, GotoIs DEF Claims
  <2>2. ~Raising(r)'
    BY <1>0, <2>1, RaisingNext DEF InstallSteps
  <2> QED BY <1>0, <1>1, <2>1, <2>2, CommandLowers DEF clusterVars
<1>6. CASE Toggles(r)
  <2> DEFINE rec == [heap[req[r].rec] EXCEPT !.public = (req[r].kind = "publish")]
  <2>1. PICK outcome \in SaveOutcomes : Put(req[r].app, req[r].rec, rec, outcome)
    BY <1>6 DEF Toggles
  <2>2. req[r].pc = "toggle" /\ UNCHANGED OutsideStore
    BY <1>6 DEF Toggles, At
  <2>3. new.pc = "claim"
    BY <1>0, <1>6, ClaimingStarts, ClaimIs
  <2>4. rec.state = heap[req[r].rec].state
    BY <1>1 DEF TypeOK, StoreTypeOK, AppRecord
  <2>5. ~Raising(r)'
    BY <1>0, <2>3, RaisingNext DEF InstallSteps
  <2>6. rec.state = "Stopped" => pods[req[r].app] # "up"
    BY <1>1, <2>2, <2>4 DEF Lowered, HoldsStopped
  <2> HIDE DEF rec
  <2> QED BY <1>0, <2>1, <2>2, <2>3, <2>5, <2>6, PutLowers DEF OutsideStore
<1> QED BY <1>2, <1>3, <1>4, <1>5, <1>6 DEF ScaleWorks

LEMMA RequestLowers ==
  ASSUME TypeOK, Owned, Lowered, NEW r \in Reqs, NEW a \in Apps, Request(r, a)
  PROVE  Owned' /\ Lowered'
<1>1. PICK new :
        /\ req' = [req EXCEPT ![r] = new] /\ new.app = a
        /\ \/ new.pc \in {"clean", "create"} /\ new.rec = r
           \/ new.pc \in {"unmark", "mark", "toggle"} /\ new.rec = apps[a] /\ apps[a] # None
  BY RequestBegins
<1>2. \A q \in Reqs : req'[q] = IF q = r THEN new ELSE req[q]
  BY <1>1 DEF TypeOK, RequestsOK
<1>3. req[r].pc = "new" /\ UNCHANGED <<apps, heap, file, pods>>
  BY RequestBegins DEF storeVars, OutsideStore, clusterVars
<1>4. r \notin Pointers /\ r \notin Apps /\ \A x \in Pointers : x \in Recs
  BY <1>3, LifecycleAssumption DEF Pointers
<1>5. \A x \in Pointers : (IF x \in Apps THEN x ELSE req'[x].app) = IF x \in Apps THEN x ELSE req[x].app
  BY <1>2, <1>4, LifecycleAssumption DEF Pointers
<1>6. Owned'
  <2>1. ASSUME NEW b \in Apps, apps[b] # None
        PROVE  (IF apps[b] \in Apps THEN apps[b] ELSE req'[apps[b]].app) = b
    BY <1>5, <2>1 DEF Owned, AppOf, TypeOK
  <2>2. ASSUME NEW q \in Reqs, req'[q].pc \in Busy
        PROVE  (IF req'[q].rec \in Apps THEN req'[q].rec ELSE req'[req'[q].rec].app) = req'[q].app
    <3>1. CASE q # r
      <4>1. req[q].rec \in Pointers
        BY <1>2, <2>2, <3>1 DEF TypeOK, RequestsOK
      <4> QED BY <1>2, <1>5, <2>2, <3>1, <4>1 DEF Owned, AppOf, Working
    <3>2. CASE q = r
      BY <1>1, <1>2, <1>4, <2>1, <3>2
    <3> QED BY <3>1, <3>2
  <2> QED BY <1>3, <2>1, <2>2 DEF Owned, AppOf, Working
<1>7. new.pc \notin InstallSteps \ {"clean", "create"} /\ new.pc \notin {"scale", "settled", "unsettled"}
  BY <1>1 DEF InstallSteps
<1>8. HoldsStopped(r)' => pods[a] # "up"
  BY <1>1, <1>2, <1>3 DEF HoldsStopped, Lowered, Awake
<1> QED BY <1>1, <1>2, <1>3, <1>6, <1>7, <1>8 DEF Lowered, HoldsStopped, Raising, Awake, Working

\* The status sync stores other states than "Stopped"; a restart keeps what the
\* file says; the startup goroutine touches neither records nor pods.
LEMMA OtherLowers ==
  ASSUME TypeOK, Owned, Lowered, SyncStep \/ BootStep \/ UNCHANGED vars
  PROVE  Owned' /\ Lowered'
<1>1. CASE SyncWrites
  <2> DEFINE p == sync.rec
             a == AppOf(p)
             rec == [heap[p] EXCEPT !.state = sync.to]
  <2>1. PICK outcome \in SaveOutcomes : Put(a, p, rec, outcome)
    BY <1>1 DEF SyncWrites
  <2>2. p \in Recs /\ p # None /\ a \in Apps
    BY <1>1, LifecycleAssumption, StoreAssumption
    DEF SyncWrites, TypeOK, SyncOK, AppOf, Pointers, RequestsOK
  <2>3. rec.state # "Stopped"
    BY <1>1, <2>2 DEF SyncWrites, TypeOK, SyncOK, StoreTypeOK, AppRecord
  <2>4. req' = req /\ pods' = pods
    BY <1>1 DEF SyncWrites, OutsideSync, clusterVars
  <2>5. /\ \A b \in Apps : apps'[b] = IF b = a THEN p ELSE apps[b]
        /\ \A x \in Recs : heap'[x] = IF x = p THEN rec ELSE heap[x]
        /\ \A b \in Apps : apps[b] # None => apps[b] \in Recs
    BY <2>1, <2>2 DEF Put, TypeOK, StoreTypeOK
  <2>6. \A b \in Apps : \/ file'[b] = None
                        \/ apps'[b] # None /\ file'[b] = heap'[apps'[b]]
                        \/ file'[b] = file[b]
    BY <2>1, SaveLeaves DEF Put
  <2>7. Owned'
    <3>1. (IF p \in Apps THEN p ELSE req[p].app) = a
      BY DEF AppOf
    <3> QED BY <2>4, <2>5, <3>1 DEF Owned, AppOf, Working
  <2> HIDE DEF rec, a, p
  <2>8. \A b \in Apps : Awake(b) => Awake(b)'
    BY <2>2, <2>3, <2>5, <2>6 DEF Awake
  <2>9. \A q \in Reqs : Working(q) => req[q].app \in Apps /\ req[q].rec \in Recs
    BY Steps DEF TypeOK, RequestsOK, Working, Pointers
  <2>10. \A x \in Recs : heap[x].state # "Stopped" => heap'[x].state # "Stopped"
    BY <2>3, <2>5
  <2>11. \A x \in Recs : heap'[x].state = "Stopped" => heap[x].state = "Stopped"
    BY <2>3, <2>5
  <2>12. \A q \in Reqs : (Raising(q)' <=> Raising(q)) /\ (Working(q)' <=> Working(q))
    BY <2>4 DEF Raising, Working
  <2>13. \A q \in Reqs : HoldsStopped(q)' => HoldsStopped(q)
    BY <2>4, <2>9, <2>11, <2>12 DEF HoldsStopped
  <2>14. \A b \in Apps : pods'[b] = "up" => Awake(b)'
    BY <2>4, <2>8 DEF Lowered
  <2>15. \A q \in Reqs : Raising(q)' => Awake(req[q].app) /\ req[q].app \in Apps
                                        /\ heap'[req[q].rec].state # "Stopped"
    BY <2>9, <2>10, <2>12, RaisingWorks DEF Lowered
  <2>16. \A q \in Reqs : req'[q].pc = "settled" /\ req'[q].kind = "suspend" => pods'[req'[q].app] # "up"
    BY <2>4 DEF Lowered
  <2> QED BY <2>4, <2>7, <2>8, <2>13, <2>14, <2>15, <2>16 DEF Lowered, Awake
<1>2. CASE SyncLists \/ SyncReads \/ (\E rec \in Recs : SyncDecides(rec)) \/ BootStep \/ UNCHANGED vars
  <2>1. UNCHANGED <<apps, heap, file, pods, req>>
    BY <1>2 DEF SyncLists, SyncReads, SyncDecides, BootStep, BootLists, BootMerges, vars,
       OutsideSync, storeVars, clusterVars
  <2> QED BY <2>1 DEF Owned, AppOf, Lowered, Awake, HoldsStopped, Raising, Working
<1> QED BY <1>1, <1>2 DEF SyncStep

LEMMA CrashLowers ==
  ASSUME TypeOK, Lowered, Crash
  PROVE  Owned' /\ Lowered'
<1>1. PICK image \in {file, NothingSaved} : Load(image)
  BY DEF Crash
<1>2. \A a \in Apps : /\ apps'[a] = IF image[a] = None THEN None ELSE a
                      /\ image[a] # None => heap'[a] = image[a]
                      /\ file'[a] = image[a]
                      /\ image[a] \in {file[a], None}
  BY <1>1, StoreAssumption DEF Load, LoadedApps, LoadedHeap, NothingSaved
<1>3. \A a \in Apps : Awake(a) => Awake(a)'
  BY <1>2 DEF Awake
<1>4. pods' = pods
  BY DEF Crash
<1>5. \A r \in Reqs : ~Raising(r)' /\ ~Working(r)' /\ req'[r].pc # "settled"
  BY CrashEnds DEF Raising, Working, Busy, ScaleSteps
<1>6. Owned'
  BY <1>2, <1>5 DEF Owned, AppOf
<1> QED BY <1>3, <1>4, <1>5, <1>6 DEF Lowered, HoldsStopped, Awake

LEMMA InitLowers == Init => Owned /\ Lowered
<1> SUFFICES ASSUME Init PROVE Owned /\ Lowered
  OBVIOUS
<1>1. PICK image : /\ StoreInit(image)
                   /\ \A a \in Apps : image[a] # None => image[a].state = "Running"
  BY DEF Init
<1>2. \A a \in Apps : /\ apps[a] = IF image[a] = None THEN None ELSE a
                      /\ image[a] # None => heap[a] = image[a]
                      /\ file[a] = image[a]
  BY <1>1, StoreAssumption DEF StoreInit, LoadedApps, LoadedHeap
<1>3. \A a \in Apps : Awake(a)
  BY <1>1, <1>2 DEF Awake
<1>4. \A r \in Reqs : ~Working(r) /\ ~Raising(r) /\ req[r].pc # "settled"
  BY NoneWorks, RaisingWorks
<1>5. Owned
  BY <1>2, <1>4 DEF Owned, AppOf
<1> QED BY <1>3, <1>4, <1>5 DEF Lowered, HoldsStopped

\* What is shown as stopped uses nothing: while users wait for an app's request to
\* end and every workload of an app scales with it, an app whose record says
\* "Stopped" has no pods up once no request for it is under way, however the file,
\* helm, kubectl and the status sync behave and wherever the process dies.
THEOREM StoppedScaledDown == Spec => []StoppedIsScaledDown
<1> DEFINE Assumed == Serial /\ "partial" \notin ClusterFaults
           IInv == Exclusive /\ Owned /\ Lowered
<1>1. Init => IInv
  BY InitLowers, NoneWorks DEF Exclusive
<1>2. CASE Assumed
  <2>1. TypeOK /\ IInv /\ [Next]_vars => IInv'
    BY <1>2, ExclusiveStep, RequestLowers, InstallLowers, UninstallLowers, ScaleLowers,
       OtherLowers, CrashLowers DEF Next, Work
  <2>2. IInv => StoppedIsScaledDown
    BY DEF StoppedIsScaledDown, Lowered, Awake
  <2> QED BY <1>1, <2>1, <2>2, TypeCorrect, PTL DEF Spec
<1>3. CASE ~Assumed
  <2>1. StoppedIsScaledDown
    BY <1>3 DEF StoppedIsScaledDown
  <2> QED BY <2>1, PTL
<1> QED BY <1>2, <1>3

-----------------------------------------------------------------------------
(***************************************************************************)
(* The hosts of a deployed app follow its record.  Without installs every   *)
(* pointer to an app's record is to the one the process started with, which *)
(* is named like the app (Plain), and a release that is deployed has been   *)
(* so from the start: no round of the status sync has missed it, nobody has *)
(* dropped its record, and the list that Reconcile was given has it.        *)
(***************************************************************************)

Plain ==
  /\ \A a \in Apps : apps[a] \in {a, None}
  /\ \A r \in Reqs : Working(r) => req[r].rec = req[r].app /\ req[r].pc \notin InstallSteps
  /\ sync.todo \subseteq Apps /\ sync.rec \in Apps \cup {None}
  /\ boot.recs \subseteq Apps

Hosted(a) == HostsFor(a, heap[a].entered, heap[a].public)

PublishedAt(a) ==
  /\ apps[a] = None => Quiet(a) /\ a \notin sync.todo /\ sync.rec # a
  /\ apps[a] # None => heap[a].state # "Uninstalled"
  /\ file[a] # None => file[a].state # "Uninstalled"
  /\ sync.pc # "idle" => sync.seen[a] = "deployed"
  /\ sync.rec = a => sync.to # "Uninstalled"
  /\ boot.pc = "merge" /\ apps[a] # None => a \in boot.recs
  /\ boot.pc = "done" /\ apps[a] # None =>
       byApp[a] = Hosted(a) \/ \E r \in Reqs : At(r, "claim") /\ req[r].app = a
  /\ \A r \in Reqs : At(r, "claim") /\ req[r].app = a => req[r].hosts = Hosted(a)

Published == \A a \in Apps : release[a] = "deployed" => PublishedAt(a)

\* A worker of another kind than install, seen from the store.
LEMMA PlainWork ==
  ASSUME TypeOK, Plain, NEW r \in Reqs, Work(r)
  PROVE  /\ Working(r) /\ req[r].app \in Apps /\ req[r].rec = req[r].app
         /\ UninstallWorks(r) \/ ScaleWorks(r) \/ Toggles(r) \/ Claims(r)
<1>1. Working(r)
  BY WorkAdvances DEF Advances
<1>2. req[r].app \in Apps /\ req[r].rec = req[r].app /\ req[r].pc \notin InstallSteps
  BY <1>1, Steps DEF Plain, Working, TypeOK, RequestsOK
<1>3. ~InstallWorks(r)
  BY <1>2 DEF InstallWorks, InstallCleans, InstallCreates, InstallDownloads, InstallFetches,
     InstallPrepares, InstallGivesUp, InstallPurges, HelmStarts, HelmRefuses, HelmSucceeds,
     HelmBreaks, InstallCleansUp, InstallRuns, InstallRegisters, At, InstallSteps
<1> QED BY <1>1, <1>2, <1>3 DEF Work

LEMMA PlainStore ==
  ASSUME TypeOK, Plain, NEW r \in Reqs, Work(r)
  PROVE  /\ \A b \in Apps \ {req[r].app} : heap'[b] = heap[b] /\ byApp'[b] = byApp[b]
         /\ apps'[req[r].app] \in {req[r].app, None}
         /\ \A b \in Apps : \/ file'[b] \in {file[b], None}
                            \/ apps'[b] # None /\ file'[b] = heap'[apps'[b]]
<1> DEFINE a == req[r].app
<1>1. a \in Apps /\ a \in Recs /\ req[r].rec = a /\ apps[a] \in {a, None}
  BY PlainWork, StoreAssumption DEF Plain
<1>2. ASSUME NEW rec, NEW outcome \in SaveOutcomes, Put(a, a, rec, outcome), UNCHANGED byApp
      PROVE  /\ \A b \in Apps \ {a} : heap'[b] = heap[b] /\ byApp'[b] = byApp[b]
             /\ apps'[a] \in {a, None}
             /\ \A b \in Apps : \/ file'[b] \in {file[b], None}
                                \/ apps'[b] # None /\ file'[b] = heap'[apps'[b]]
  BY <1>1, <1>2, SaveLeaves, StoreAssumption DEF Put, TypeOK, StoreTypeOK
<1>3. CASE UninstallMarks(r) \/ UninstallGivesUp(r) \/ UninstallFinishes(r) \/ ScaleMarks(r)
           \/ ScaleSettles(r) \/ ScaleFailed(r) \/ Toggles(r)
  <2>1. UNCHANGED byApp /\ \E rec, outcome : outcome \in SaveOutcomes /\ Put(a, a, rec, outcome)
    BY <1>1, <1>3 DEF UninstallMarks, UninstallGivesUp, UninstallFinishes, ScaleMarks,
       ScaleSettles, ScaleFailed, Toggles, Becomes, SetState, OutsideStore, domainVars
  <2> QED BY <1>2, <2>1
<1>4. CASE UninstallForgets(r)
  <2>1. PICK outcome \in SaveOutcomes : Delete(a, outcome)
    BY <1>4 DEF UninstallForgets
  <2>2. apps'[a] = None /\ heap' = heap /\ byApp' = byApp
    BY <1>1, <1>4, <2>1 DEF UninstallForgets, Delete, TypeOK, StoreTypeOK, OutsideStore, domainVars
  <2> QED BY <2>1, <2>2, SaveLeaves DEF Delete
<1>5. CASE UninstallSucceeds(r) \/ UninstallFails(r) \/ UninstallCollects(r) \/ UninstallDeregisters(r)
           \/ ScaleSucceeds(r) \/ ScaleGivesUp(r)
  BY <1>1, <1>5 DEF UninstallSucceeds, UninstallFails, UninstallCollects, UninstallDeregisters,
     ScaleSucceeds, ScaleGivesUp, Commands, OutsideCluster, storeVars, domainVars
<1>6. CASE UninstallUnclaims(r) \/ Claims(r)
  <2>1. UNCHANGED storeVars /\ \E hosts, outcome : Sync(a, hosts, outcome)
    BY <1>6 DEF UninstallUnclaims, Claims
  <2>2. \A b \in Apps \ {a} : byApp'[b] = byApp[b]
    BY <1>1, <2>1 DEF Sync, Flush, TypeOK, DomainTypeOK
  <2> QED BY <1>1, <2>1, <2>2 DEF storeVars
<1> QED BY <1>3, <1>4, <1>5, <1>6, PlainWork DEF UninstallWorks, ScaleWorks

\* No worker of an install appears.
LEMMA PlainMoves ==
  ASSUME TypeOK, Plain, NEW r \in Reqs, Work(r), NEW new, Advances(r, new)
  PROVE  new.pc \notin InstallSteps
<1> USE Steps DEF UninstallSteps, ScaleSteps, ToggleSteps
<1>1. CASE Toggles(r)
  <2>1. new.pc = "claim"
    BY <1>1, ClaimingStarts, ClaimIs
  <2> QED BY <2>1 DEF InstallSteps
<1>2. CASE UninstallWorks(r) \/ ScaleWorks(r) \/ Claims(r)
  <2>1. PICK pc \in UninstallSteps \cup ScaleSteps \cup {"done"} : Goto(r, pc)
    BY <1>2 DEF UninstallWorks, ScaleWorks, Claims, UninstallMarks, UninstallSucceeds,
       UninstallFails, UninstallGivesUp, UninstallCollects, UninstallDeregisters, UninstallUnclaims,
       UninstallFinishes, UninstallForgets, ScaleMarks, ScaleSucceeds, ScaleGivesUp, ScaleSettles,
       ScaleFailed, Commands
  <2>2. new.pc = pc
    BY <2>1, GotoIs
  <2> QED BY <2>1, <2>2 DEF InstallSteps
<1> QED BY <1>1, <1>2, PlainWork

LEMMA PlainStep ==
  ASSUME TypeOK, Plain, "install" \notin Kinds, [Next]_vars
  PROVE  Plain'
<1>0. None \notin Apps
  BY StoreAssumption
<1>1. ASSUME NEW r \in Reqs, Work(r) PROVE Plain'
  <2>1. PICK new : Advances(r, new)
    BY <1>1, WorkAdvances
  <2>2. \A q \in Reqs : req'[q] = IF q = r THEN new ELSE req[q]
    BY <2>1 DEF Advances, TypeOK, RequestsOK
  <2>3. new.pc \in Busy => new.rec = new.app /\ new.pc \notin InstallSteps
    BY <1>1, <2>1, PlainMoves, PlainWork, Steps DEF Advances
  <2>4. \A b \in Apps : apps'[b] \in {b, None}
    BY <1>1, WorkAdvances, PlainStore DEF Plain, Spares
  <2>5. UNCHANGED <<sync, boot>>
    BY <1>1, WorkAdvances
  <2> QED BY <2>2, <2>3, <2>4, <2>5 DEF Plain, Working
<1>2. ASSUME NEW r \in Reqs, NEW a \in Apps, Request(r, a) PROVE Plain'
  <2>1. PICK new : /\ req' = [req EXCEPT ![r] = new] /\ new.app = a
                   /\ new.pc \in {"unmark", "mark", "toggle"} /\ new.rec = apps[a] /\ apps[a] # None
    BY <1>2, RequestBegins
  <2>2. \A q \in Reqs : req'[q] = IF q = r THEN new ELSE req[q]
    BY <2>1 DEF TypeOK, RequestsOK
  <2>3. UNCHANGED <<apps, sync, boot>>
    BY <1>2, RequestBegins DEF storeVars, OutsideStore
  <2>4. new.rec = a /\ new.pc \notin InstallSteps
    BY <2>1 DEF Plain, InstallSteps
  <2> QED BY <2>1, <2>2, <2>3, <2>4 DEF Plain, Working
<1>3. CASE SyncStep
  <2>1. req' = req /\ boot' = boot
    BY <1>3 DEF SyncStep, SyncLists, SyncReads, SyncDecides, SyncWrites, OutsideSync
  <2>2. CASE SyncLists \/ SyncReads
    <3>1. apps' = apps /\ {apps[a] : a \in Apps} \ {None} \subseteq Apps
      BY <2>2 DEF SyncLists, SyncReads, storeVars, Plain
    <3>2. \/ sync'.todo = sync.todo /\ sync'.rec = sync.rec
          \/ sync'.todo = {apps[a] : a \in Apps} \ {None} /\ sync'.rec = sync.rec
          \/ sync'.todo = {} /\ sync'.rec = None
      <4>1. CASE SyncLists
        BY <4>1 DEF SyncLists, TypeOK, SyncOK
      <4>2. CASE SyncReads
        <5> DEFINE recs == {apps[a] : a \in Apps} \ {None}
        <5>1. sync' = IF recs = {} THEN SyncIdle ELSE [sync EXCEPT !.pc = "walk", !.todo = recs]
          BY <4>2 DEF SyncReads
        <5> HIDE DEF recs
        <5>2. sync'.todo = recs /\ (sync'.rec = sync.rec \/ (recs = {} /\ sync'.rec = None))
          BY <5>1 DEF SyncIdle, TypeOK, SyncOK
        <5> QED BY <5>2 DEF recs
      <4> QED BY <2>2, <4>1, <4>2
    <3> QED BY <2>1, <3>1, <3>2 DEF Plain, Working
  <2>3. ASSUME NEW rec \in Recs, SyncDecides(rec) PROVE Plain'
    <3>1. apps' = apps /\ rec \in Apps
      BY <2>3 DEF SyncDecides, storeVars, Plain
    <3>2. PICK to : sync' = IF to = heap[rec].state THEN Remaining(rec)
                            ELSE [sync EXCEPT !.pc = "write", !.rec = rec, !.to = to]
      BY <2>3 DEF SyncDecides
    <3>3. sync'.todo \subseteq Apps /\ sync'.rec \in Apps \cup {None}
      BY <3>1, <3>2 DEF Remaining, SyncIdle, TypeOK, SyncOK, Plain
    <3> QED BY <2>1, <3>1, <3>3 DEF Plain, Working
  <2>4. CASE SyncWrites
    <3>1. sync.rec \in Apps /\ AppOf(sync.rec) = sync.rec
      BY <2>4 DEF SyncWrites, TypeOK, SyncOK, Plain, AppOf
    <3>2. \A b \in Apps : apps'[b] \in {b, None}
      BY <2>4, <3>1 DEF SyncWrites, Put, Plain, TypeOK, StoreTypeOK
    <3>3. sync'.todo \subseteq Apps /\ sync'.rec \in Apps \cup {None}
      BY <2>4 DEF SyncWrites, Remaining, SyncIdle, TypeOK, SyncOK, Plain
    <3> QED BY <2>1, <3>2, <3>3 DEF Plain, Working
  <2> QED BY <1>3, <2>2, <2>3, <2>4 DEF SyncStep
<1>4. CASE BootStep
  <2>1. UNCHANGED <<apps, req, sync>>
    BY <1>4 DEF BootStep, BootLists, BootMerges, storeVars
  <2>2. boot'.recs \subseteq Apps
    BY <1>4 DEF BootStep, BootLists, BootMerges, Plain
  <2> QED BY <2>1, <2>2 DEF Plain, Working
<1>5. CASE Crash
  <2>1. \A a \in Apps : apps'[a] \in {a, None}
    BY <1>5 DEF Crash, Load, LoadedApps
  <2>2. \A r \in Reqs : req'[r].pc \notin Busy
    BY <1>5, CrashEnds
  <2>3. sync' = SyncIdle /\ boot'.recs = {}
    BY <1>5 DEF Crash
  <2> QED BY <2>1, <2>2, <2>3 DEF Plain, SyncIdle, Working
<1>6. CASE UNCHANGED vars
  BY <1>6 DEF vars, storeVars, Plain, Working
<1> QED BY <1>1, <1>2, <1>3, <1>4, <1>5, <1>6 DEF Next

\* Without installs no release becomes deployed.
LEMMA StillDeployed ==
  ASSUME TypeOK, Plain, [Next]_vars, NEW a \in Apps, release'[a] = "deployed"
  PROVE  release[a] = "deployed"
<1>1. ASSUME NEW r \in Reqs, Work(r) PROVE release[a] = "deployed"
  <2>1. CASE UninstallSucceeds(r) \/ UninstallFails(r) \/ UninstallCollects(r) \/ UninstallDeregisters(r)
             \/ ScaleSucceeds(r) \/ ScaleGivesUp(r)
    BY <2>1, <1>1, PlainWork DEF UninstallSucceeds, UninstallFails, UninstallCollects,
       UninstallDeregisters, ScaleSucceeds, ScaleGivesUp, Commands, HelmUninstalls,
       HelmUninstallFails, Scales, ScaleFails, DeletesOrphans, SetsCRD, TypeOK, ClusterTypeOK
  <2>2. CASE UninstallMarks(r) \/ UninstallGivesUp(r) \/ UninstallUnclaims(r) \/ UninstallFinishes(r)
             \/ UninstallForgets(r) \/ ScaleMarks(r) \/ ScaleSettles(r) \/ ScaleFailed(r)
             \/ Toggles(r) \/ Claims(r)
    BY <2>2 DEF UninstallMarks, UninstallGivesUp, UninstallUnclaims, UninstallFinishes,
       UninstallForgets, ScaleMarks, ScaleSettles, ScaleFailed, Toggles, Claims, OutsideStore, clusterVars
  <2> QED BY <1>1, <2>1, <2>2, PlainWork DEF UninstallWorks, ScaleWorks
<1>2. ASSUME NEW r \in Reqs, NEW b \in Apps, Request(r, b) PROVE release[a] = "deployed"
  BY <1>2, RequestBegins DEF OutsideStore, clusterVars
<1>3. CASE SyncStep \/ BootStep \/ UNCHANGED vars
  BY <1>3 DEF SyncStep, SyncLists, SyncReads, SyncDecides, SyncWrites, BootStep, BootLists,
     BootMerges, OutsideSync, vars, clusterVars
<1>4. CASE Crash
  BY <1>4 DEF Crash
<1> QED BY <1>1, <1>2, <1>3, <1>4 DEF Next

\* A worker's step leaves other apps published as they are.
LEMMA OthersPublished ==
  ASSUME TypeOK, Plain, NEW r \in Reqs, Work(r), NEW a \in Apps, a # req[r].app, PublishedAt(a)
  PROVE  PublishedAt(a)'
<1>1. PICK new : Advances(r, new)
  BY WorkAdvances
<1>2. /\ \A q \in Reqs : req'[q] = IF q = r THEN new ELSE req[q]
      /\ new.app = req[r].app
  BY <1>1 DEF Advances, TypeOK, RequestsOK
<1>3. UNCHANGED <<sync, boot>> /\ apps'[a] = apps[a] /\ heap'[a] = heap[a] /\ byApp'[a] = byApp[a]
  BY WorkAdvances, PlainStore DEF Spares
<1>4. apps[a] # None => apps[a] = a
  BY DEF Plain
<1>5. file'[a] # None => file'[a].state # "Uninstalled"
  BY <1>3, <1>4, PlainStore DEF PublishedAt
<1>6. /\ Quiet(a) => Quiet(a)'
      /\ \A q \in Reqs : At(q, "claim")' /\ req'[q].app = a =>
           At(q, "claim") /\ req[q].app = a /\ req'[q].hosts = req[q].hosts
      /\ \A q \in Reqs : At(q, "claim") /\ req[q].app = a => At(q, "claim")' /\ req'[q].app = a
  BY <1>2 DEF Quiet, Working, At
<1>7. Hosted(a)' = Hosted(a)
  BY <1>3 DEF Hosted
<1> QED BY <1>3, <1>5, <1>6, <1>7 DEF PublishedAt

\* A worker's step and its own app: the record is there and is not marked as
\* uninstalled, and the claim is what the toggle says or about to become so.
LEMMA OwnPublished ==
  ASSUME TypeOK, Plain, Exclusive, NEW r \in Reqs, Work(r), NEW new, Advances(r, new),
         NEW a \in Apps, a = req[r].app, PublishedAt(a),
         apps'[a] # None, heap'[a].state # "Uninstalled",
         \/ /\ Hosted(a)' = Hosted(a) /\ byApp'[a] = byApp[a]
            /\ new.pc # "claim" /\ req[r].pc # "claim"
         \/ new.pc = "claim" /\ new.hosts = Hosted(a)'
         \/ new.pc # "claim" /\ byApp'[a] = Hosted(a)'
  PROVE  PublishedAt(a)'
<1>1. /\ \A q \in Reqs : req'[q] = IF q = r THEN new ELSE req[q]
      /\ new.app = a /\ Working(r)
  BY DEF Advances, TypeOK, RequestsOK
<1>2. \A q \in Reqs \ {r} : ~(At(q, "claim") /\ req[q].app = a)
  BY <1>1 DEF Exclusive, At, Working, Busy
<1>3. UNCHANGED <<sync, boot>> /\ apps'[a] = a /\ apps[a] = a
  BY <1>1, WorkAdvances, PlainStore DEF PublishedAt, Quiet, Plain
<1>4. file'[a] # None => file'[a].state # "Uninstalled"
  BY <1>3, PlainStore DEF PublishedAt
<1>5. \A q \in Reqs : At(q, "claim")' /\ req'[q].app = a => q = r /\ new.pc = "claim"
  BY <1>1, <1>2 DEF At
<1>6. \A q \in Reqs : At(q, "claim") /\ req[q].app = a => q = r /\ req[r].pc = "claim"
  BY <1>2 DEF At
<1>7. new.pc = "claim" => At(r, "claim")' /\ req'[r].app = a /\ req'[r].hosts = new.hosts
  BY <1>1 DEF At
<1>8. boot'.pc = "done" => byApp'[a] = Hosted(a)' \/ \E q \in Reqs : At(q, "claim")' /\ req'[q].app = a
  BY <1>3, <1>6, <1>7 DEF PublishedAt
<1>9. \A q \in Reqs : At(q, "claim")' /\ req'[q].app = a => req'[q].hosts = Hosted(a)'
  BY <1>5, <1>7
<1>10. a # None
  BY StoreAssumption
<1> QED BY <1>3, <1>4, <1>8, <1>9, <1>10 DEF PublishedAt

\* A worker stores a state in the record of its deployed app.
LEMMA StatePublished ==
  ASSUME TypeOK, Plain, Exclusive, NEW r \in Reqs, Work(r), NEW a \in Apps, a = req[r].app,
         PublishedAt(a), req[r].pc # "claim",
         NEW pc \in (Busy \cup {"done"}) \ {"claim"}, Goto(r, pc),
         NEW s \in States \ {"Uninstalled"}, NEW outcome \in SaveOutcomes,
         SetState(r, s, outcome), UNCHANGED byApp
  PROVE  PublishedAt(a)'
<1>1. PICK new : Advances(r, new)
  BY WorkAdvances
<1>2. new.pc = pc
  BY <1>1, GotoIs
<1>3. a \in Recs /\ req[r].rec = a
  BY PlainWork, StoreAssumption
<1>4. /\ apps'[a] # None /\ heap'[a].state = s
      /\ heap'[a].entered = heap[a].entered /\ heap'[a].public = heap[a].public
  BY <1>3, StoreAssumption DEF SetState, Put, TypeOK, StoreTypeOK, AppRecord
<1>5. Hosted(a)' = Hosted(a)
  BY <1>4 DEF Hosted
<1> QED BY <1>1, <1>2, <1>4, <1>5, OwnPublished

LEMMA WorkPublished ==
  ASSUME TypeOK, Plain, Exclusive, ReleaseGone, NEW r \in Reqs, Work(r),
         NEW a \in Apps, release[a] = "deployed", release'[a] = "deployed", PublishedAt(a)
  PROVE  PublishedAt(a)'
<1> USE Steps DEF At, UninstallSteps, ScaleSteps
<1>0. CASE a # req[r].app
  BY <1>0, OthersPublished
<1>1. SUFFICES ASSUME a = req[r].app PROVE PublishedAt(a)'
  BY <1>0
<1>2. Working(r) /\ a \in Recs /\ req[r].rec = a /\ apps[a] = a /\ apps[a] # None
      /\ heap[a].state # "Uninstalled" /\ req[r].pc \notin Emptied
  BY <1>1, PlainWork, StoreAssumption DEF PublishedAt, Quiet, Plain, ReleaseGone
<1>3. PICK new : Advances(r, new)
  BY WorkAdvances
<1>4. CASE UninstallMarks(r) \/ UninstallGivesUp(r) \/ ScaleMarks(r) \/ ScaleSettles(r) \/ ScaleFailed(r)
  <2>1. PICK s \in States \ {"Uninstalled"}, outcome \in SaveOutcomes : SetState(r, s, outcome)
    BY <1>4 DEF UninstallMarks, UninstallGivesUp, ScaleMarks, ScaleSettles, ScaleFailed, Becomes,
       States, Failed, Transitional
  <2>2. PICK pc \in {"helmUninstall", "scale", "done"} : Goto(r, pc)
    BY <1>4 DEF UninstallMarks, UninstallGivesUp, ScaleMarks, ScaleSettles, ScaleFailed
  <2>3. req[r].pc # "claim" /\ UNCHANGED byApp
    BY <1>4 DEF UninstallMarks, UninstallGivesUp, ScaleMarks, ScaleSettles, ScaleFailed,
       OutsideStore, domainVars
  <2> QED BY <1>1, <2>1, <2>2, <2>3, StatePublished
<1>5. CASE UninstallFails(r) \/ ScaleSucceeds(r) \/ ScaleGivesUp(r)
  <2>1. PICK pc \in {"unable", "settled", "unsettled"} : Goto(r, pc)
    BY <1>5 DEF UninstallFails, ScaleSucceeds, ScaleGivesUp, Commands
  <2>2. UNCHANGED <<apps, heap, byApp>> /\ req[r].pc # "claim" /\ new.pc # "claim"
    BY <1>3, <1>5, <2>1, GotoIs DEF UninstallFails, ScaleSucceeds, ScaleGivesUp, Commands,
       OutsideCluster, storeVars, domainVars
  <2>3. Hosted(a)' = Hosted(a)
    BY <2>2 DEF Hosted
  <2> QED BY <1>1, <1>2, <1>3, <2>2, <2>3, OwnPublished
<1>6. CASE UninstallSucceeds(r)
  BY <1>1, <1>6 DEF UninstallSucceeds, Commands, HelmUninstalls, TypeOK, ClusterTypeOK
<1>7. CASE UninstallCollects(r) \/ UninstallDeregisters(r) \/ UninstallUnclaims(r)
           \/ UninstallFinishes(r) \/ UninstallForgets(r)
  BY <1>2, <1>7 DEF UninstallCollects, UninstallDeregisters, UninstallUnclaims,
     UninstallFinishes, UninstallForgets, Emptied
<1>8. CASE Toggles(r)
  <2> DEFINE rec == [heap[a] EXCEPT !.public = (req[r].kind = "publish")]
             hosts == HostsFor(a, rec.entered, rec.public)
  <2>1. PICK outcome \in SaveOutcomes : Put(a, a, rec, outcome)
    BY <1>1, <1>2, <1>8 DEF Toggles
  <2>2. Claiming(r, hosts)
    BY <1>1, <1>2, <1>8 DEF Toggles, Claiming
  <2>3. rec.state = heap[a].state
    BY <1>2 DEF TypeOK, StoreTypeOK, AppRecord
  <2> HIDE DEF rec
  <2>4. heap'[a] = rec /\ apps'[a] = a
    BY <1>2, <2>1 DEF Put, TypeOK, StoreTypeOK
  <2>5. hosts = Hosted(a)'
    BY <2>4 DEF Hosted
  <2> HIDE DEF hosts
  <2>6. new.pc = "claim" /\ new.hosts = hosts
    BY <1>3, <2>2, ClaimIs
  <2> QED BY <1>1, <1>2, <1>3, <2>3, <2>4, <2>5, <2>6, OwnPublished
<1>9. CASE Claims(r)
  <2>1. PICK outcome \in Outcomes : Sync(a, req[r].hosts, outcome)
    BY <1>1, <1>9 DEF Claims
  <2>2. UNCHANGED <<apps, heap>> /\ new.pc = "done"
    BY <1>3, <1>9, GotoIs DEF Claims, storeVars
  <2>3. byApp'[a] = req[r].hosts
    BY <2>1 DEF Sync, Flush, TypeOK, DomainTypeOK
  <2>4. byApp'[a] = Hosted(a)'
    BY <1>1, <1>9, <2>2, <2>3 DEF Claims, PublishedAt, Hosted
  <2> QED BY <1>1, <1>2, <1>3, <2>2, <2>4, OwnPublished
<1> QED BY <1>4, <1>5, <1>6, <1>7, <1>8, <1>9, PlainWork DEF UninstallWorks, ScaleWorks

LEMMA RequestPublished ==
  ASSUME TypeOK, Plain, "install" \notin Kinds, NEW r \in Reqs, NEW b \in Apps, Request(r, b),
         NEW a \in Apps, PublishedAt(a)
  PROVE  PublishedAt(a)'
<1>1. PICK new : /\ req' = [req EXCEPT ![r] = new] /\ new.app = b
                 /\ new.pc # "claim" /\ apps[b] # None
  BY RequestBegins
<1>2. \A q \in Reqs : req'[q] = IF q = r THEN new ELSE req[q]
  BY <1>1 DEF TypeOK, RequestsOK
<1>3. req[r].pc = "new" /\ UNCHANGED <<apps, heap, file, byApp, sync, boot>>
  BY RequestBegins DEF storeVars, OutsideStore, domainVars
<1>4. Hosted(a)' = Hosted(a)
  BY <1>3 DEF Hosted
<1>5. \A q \in Reqs : (At(q, "claim")' <=> At(q, "claim")) /\ (At(q, "claim") => req'[q] = req[q])
  BY <1>1, <1>2, <1>3 DEF At
<1> QED BY <1>1, <1>2, <1>3, <1>4, <1>5 DEF PublishedAt, Quiet, Working

LEMMA CorrectedDeployed ==
  ASSUME NEW s, s # "Uninstalled"
  PROVE  Corrected("deployed", s) # "Uninstalled"
BY DEF Corrected

LEMMA SyncPublished ==
  ASSUME TypeOK, Plain, SyncStep, NEW a \in Apps, release[a] = "deployed", PublishedAt(a)
  PROVE  PublishedAt(a)'
<1>0. a # None /\ a \in Recs /\ apps[a] \in {a, None}
  BY StoreAssumption DEF Plain
<1>1. UNCHANGED <<req, boot, byApp>>
  BY DEF SyncStep, SyncLists, SyncReads, SyncDecides, SyncWrites, OutsideSync, domainVars
<1>2. /\ Quiet(a)' <=> Quiet(a)
      /\ \A q \in Reqs : At(q, "claim")' <=> At(q, "claim")
  BY <1>1 DEF Quiet, Working, At
<1>3. CASE SyncLists
  <2>1. UNCHANGED storeVars /\ sync' = [sync EXCEPT !.pc = "listed", !.seen = Listed]
    BY <1>3 DEF SyncLists
  <2>2. Listed[a] = "deployed"
    BY DEF Listed
  <2>3. sync'.seen[a] = "deployed" /\ sync'.todo = sync.todo /\ sync'.rec = sync.rec /\ sync'.to = sync.to
    BY <2>1, <2>2 DEF TypeOK, SyncOK
  <2> QED BY <1>1, <1>2, <2>1, <2>3 DEF PublishedAt, storeVars, Hosted
<1>4. CASE SyncReads
  <2> DEFINE recs == {apps[b] : b \in Apps} \ {None}
  <2>1. /\ UNCHANGED storeVars /\ sync.pc = "listed"
        /\ sync' = IF recs = {} THEN SyncIdle ELSE [sync EXCEPT !.pc = "walk", !.todo = recs]
    BY <1>4 DEF SyncReads
  <2>2. a \in recs => apps[a] # None
    BY <1>0 DEF Plain
  <2> HIDE DEF recs
  <2>3. sync'.todo = recs
    BY <2>1 DEF SyncIdle, TypeOK, SyncOK
  <2>4. sync'.pc # "idle" => sync'.seen = sync.seen
    BY <2>1 DEF SyncIdle, TypeOK, SyncOK
  <2>5. \/ sync'.rec = sync.rec /\ sync'.to = sync.to
        \/ sync'.rec = None
    BY <2>1 DEF SyncIdle, TypeOK, SyncOK
  <2> QED BY <1>0, <1>1, <1>2, <2>1, <2>2, <2>3, <2>4, <2>5 DEF PublishedAt, storeVars, Hosted
<1>5. ASSUME NEW rec \in Recs, SyncDecides(rec) PROVE PublishedAt(a)'
  <2> DEFINE to == Corrected(sync.seen[AppOf(rec)], heap[rec].state)
  <2>1. /\ UNCHANGED storeVars /\ sync.pc = "walk" /\ rec \in sync.todo
        /\ sync' = IF to = heap[rec].state THEN Remaining(rec)
                   ELSE [sync EXCEPT !.pc = "write", !.rec = rec, !.to = to]
    BY <1>5 DEF SyncDecides
  <2>2. rec = a => apps[a] # None /\ to # "Uninstalled"
    <3>1. rec = a => apps[a] # None /\ heap[rec].state # "Uninstalled" /\ sync.seen[AppOf(rec)] = "deployed"
      BY <2>1 DEF PublishedAt, AppOf
    <3> QED BY <3>1, CorrectedDeployed
  <2> HIDE DEF to
  <2>3. /\ sync'.todo \subseteq sync.todo
        /\ sync'.pc # "idle" => sync'.seen = sync.seen
        /\ sync'.rec = None \/ (sync'.rec = rec /\ sync'.to = to)
    BY <2>1 DEF Remaining, SyncIdle, TypeOK, SyncOK
  <2> QED BY <1>0, <1>1, <1>2, <2>1, <2>2, <2>3 DEF PublishedAt, storeVars, Hosted
<1>6. CASE SyncWrites
  <2> DEFINE p == sync.rec
             rec == [heap[p] EXCEPT !.state = sync.to]
  <2>1. p \in Apps /\ p \in Recs /\ p # None /\ AppOf(p) = p
    BY <1>6, StoreAssumption DEF SyncWrites, TypeOK, SyncOK, Plain, AppOf
  <2>2. PICK outcome \in SaveOutcomes : Put(p, p, rec, outcome)
    BY <1>6, <2>1 DEF SyncWrites
  <2>3. rec.state = sync.to /\ rec.entered = heap[p].entered /\ rec.public = heap[p].public
    BY <2>1 DEF TypeOK, StoreTypeOK, AppRecord
  <2> HIDE DEF rec
  <2>4. /\ \A b \in Apps : apps'[b] = IF b = p THEN p ELSE apps[b]
        /\ \A x \in Recs : heap'[x] = IF x = p THEN rec ELSE heap[x]
    BY <2>1, <2>2 DEF Put, TypeOK, StoreTypeOK
  <2>5. \/ file'[a] = None \/ file'[a] = file[a]
        \/ apps'[a] # None /\ file'[a] = heap'[apps'[a]]
    BY <2>2, SaveLeaves DEF Put
  <2>6. /\ sync'.todo \subseteq sync.todo
        /\ sync'.pc # "idle" => sync'.seen = sync.seen /\ sync.pc # "idle"
        /\ sync'.rec = None
    BY <1>6 DEF SyncWrites, Remaining, SyncIdle, TypeOK, SyncOK
  <2>7. p = a => apps[a] # None /\ sync.to # "Uninstalled"
    BY DEF PublishedAt
  <2>8. /\ Hosted(a)' = Hosted(a) /\ (apps'[a] # None <=> apps[a] # None)
        /\ apps'[a] # None => heap'[a].state # "Uninstalled"
    BY <1>0, <2>1, <2>3, <2>4, <2>7 DEF Hosted, PublishedAt
  <2>9. file'[a] # None => file'[a].state # "Uninstalled"
    BY <1>0, <2>1, <2>4, <2>5, <2>8 DEF PublishedAt
  <2> QED BY <1>0, <1>1, <1>2, <2>6, <2>8, <2>9 DEF PublishedAt
<1> QED BY <1>3, <1>4, <1>5, <1>6 DEF SyncStep

LEMMA BootPublished ==
  ASSUME TypeOK, Plain, BootStep, NEW a \in Apps, PublishedAt(a)
  PROVE  PublishedAt(a)'
<1>0. a # None /\ apps[a] \in {a, None}
  BY StoreAssumption DEF Plain
<1>1. UNCHANGED <<apps, heap, file, req, sync>>
  BY DEF BootStep, BootLists, BootMerges, storeVars
<1>2. /\ Quiet(a)' <=> Quiet(a)
      /\ \A q \in Reqs : At(q, "claim")' <=> At(q, "claim")
      /\ Hosted(a)' = Hosted(a)
  BY <1>1 DEF Quiet, Working, At, Hosted
<1>3. CASE BootLists
  BY <1>0, <1>1, <1>2, <1>3 DEF BootLists, PublishedAt
<1>4. CASE BootMerges
  <2> DEFINE claims == [b \in Apps |-> UNION {HostsOf(rec) : rec \in {x \in boot.recs :
                          AppOf(x) = b /\ heap[x].state # "Uninstalled"}}]
  <2>1. boot.pc = "merge" /\ boot'.pc = "done" /\ byApp' = claims
    BY <1>4 DEF BootMerges, Reconcile, Flush
  <2>2. apps[a] # None => claims[a] = Hosted(a)
    <3>1. \A x \in boot.recs : AppOf(x) = x
      BY DEF AppOf, Plain
    <3>2. apps[a] # None => {x \in boot.recs : AppOf(x) = a /\ heap[x].state # "Uninstalled"} = {a}
      BY <2>1, <3>1 DEF PublishedAt
    <3>3. HostsOf(a) = Hosted(a)
      BY DEF HostsOf, Hosted, AppOf
    <3> HIDE DEF Hosted
    <3> QED BY <3>2, <3>3
  <2> HIDE DEF claims
  <2> QED BY <1>1, <1>2, <2>1, <2>2 DEF PublishedAt
<1> QED BY <1>3, <1>4 DEF BootStep

LEMMA CrashPublished ==
  ASSUME TypeOK, Crash, NEW a \in Apps, PublishedAt(a)
  PROVE  PublishedAt(a)'
<1>1. PICK image \in {file, NothingSaved} : Load(image)
  BY DEF Crash
<1>2. /\ apps'[a] = IF image[a] = None THEN None ELSE a
      /\ image[a] # None => heap'[a] = image[a]
      /\ file'[a] = image[a]
      /\ image[a] \in {file[a], None}
      /\ a # None
  BY <1>1, StoreAssumption DEF Load, LoadedApps, LoadedHeap, NothingSaved
<1>3. \A r \in Reqs : ~Working(r)' /\ ~At(r, "claim")'
  BY CrashEnds DEF Working, At, Busy
<1>4. sync' = SyncIdle /\ boot' = [pc |-> "list", recs |-> {}]
  BY DEF Crash
<1> QED BY <1>2, <1>3, <1>4 DEF PublishedAt, SyncIdle, Quiet

LEMMA InitPublished == Init => Plain /\ Published
<1> SUFFICES ASSUME Init PROVE Plain /\ Published
  OBVIOUS
<1>1. PICK image, installed : /\ StoreInit(image) /\ ClusterInit(installed)
                              /\ \A a \in Apps : image[a] # None => image[a].state = "Running"
                              /\ installed \in SUBSET Apps
  BY DEF Init
<1>2. \A a \in Apps : /\ apps[a] = IF image[a] = None THEN None ELSE a
                      /\ image[a] # None => heap[a] = image[a]
                      /\ file[a] = image[a] /\ a # None
  BY <1>1, StoreAssumption DEF StoreInit, LoadedApps, LoadedHeap
<1>3. \A r \in Reqs : ~Working(r) /\ ~At(r, "claim")
  BY NoneWorks DEF Working, At, Busy
<1>4. sync = SyncIdle /\ boot = [pc |-> "list", recs |-> {}]
  BY DEF Init
<1>5. Plain
  BY <1>2, <1>3, <1>4 DEF Plain, SyncIdle
<1>6. \A a \in Apps : PublishedAt(a)
  BY <1>1, <1>2, <1>3, <1>4 DEF PublishedAt, SyncIdle, Quiet
<1> QED BY <1>5, <1>6 DEF Published

\* What is open is what the toggle says: while users wait for an app's request to
\* end and install nothing, a deployed app claims exactly the hosts of its record
\* once its requests and Reconcile are over, across toggles, uninstalls that fail,
\* scaling, saves that fail, rounds of the status sync and restarts.
THEOREM PublishedFollows == Spec => []PublishedFollowsToggle
<1> DEFINE Assumed == Serial /\ "install" \notin Kinds
           IInv == Exclusive /\ ReleaseGone /\ Plain /\ Published
<1>1. Init => IInv
  BY InitPublished, NoneWorks, EmptiedBusy DEF Exclusive, ReleaseGone, Working
<1>2. CASE Assumed
  <2>1. TypeOK /\ IInv /\ [Next]_vars => IInv'
    <3> SUFFICES ASSUME TypeOK, IInv, [Next]_vars PROVE IInv'
      OBVIOUS
    <3>1. Exclusive' /\ ReleaseGone' /\ Plain'
      BY <1>2, ExclusiveStep, GoneStep, PlainStep
    <3>2. ASSUME NEW a \in Apps, release'[a] = "deployed" PROVE PublishedAt(a)'
      <4>1. release[a] = "deployed" /\ PublishedAt(a)
        BY <3>2, StillDeployed DEF Published
      <4>2. CASE UNCHANGED vars
        BY <4>1, <4>2 DEF vars, storeVars, domainVars, PublishedAt, Hosted, Quiet, Working, At
      <4> QED BY <1>2, <3>2, <4>1, <4>2, WorkPublished, RequestPublished, SyncPublished,
                 BootPublished, CrashPublished DEF Next
    <3> QED BY <3>1, <3>2 DEF Published
  <2>2. IInv => PublishedFollowsToggle
    <3> SUFFICES ASSUME IInv, NEW a \in Apps, release[a] = "deployed", Quiet(a), boot.pc = "done",
                        apps[a] # None
                 PROVE  byApp[a] = HostsOf(apps[a])
      BY DEF PublishedFollowsToggle
    <3>1. apps[a] = a /\ byApp[a] = Hosted(a)
      BY DEF Plain, Published, PublishedAt, Quiet, Working, At, Busy
    <3> QED BY <3>1 DEF HostsOf, Hosted, AppOf
  <2> QED BY <1>1, <2>1, <2>2, TypeCorrect, PTL DEF Spec
<1>3. CASE ~Assumed
  <2>1. PublishedFollowsToggle
    BY <1>3 DEF PublishedFollowsToggle
  <2> QED BY <2>1, PTL
<1> QED BY <1>2, <1>3
=============================================================================
