------------------------- MODULE AppLifecycleProofs -------------------------
(***************************************************************************)
(* Proofs about AppLifecycle, for any apps, requests, faults and restarts. *)
(***************************************************************************)
EXTENDS AppLifecycle, TLAPS

-----------------------------------------------------------------------------
(* The parts *)

LEMMA BlankType == Blank \in AppRecord
BY DEF Blank, AppRecord, States

\* Put and Delete keep the store well-formed.
LEMMA PutType ==
  ASSUME StoreTypeOK, NEW a \in Apps, NEW r \in Recs, NEW rec \in AppRecord,
         NEW outcome \in SaveOutcomes, Put(a, r, rec, outcome)
  PROVE  StoreTypeOK'
<1>1. apps' \in [Apps -> Recs \cup {None}] /\ heap' \in [Recs -> AppRecord]
  BY DEF Put, StoreTypeOK
<1>2. file' \in [Apps -> AppRecord \cup {None}]
  BY <1>1, StoreAssumption DEF Put, Save, Image, NothingSaved, StoreTypeOK, SaveOutcomes
<1> QED BY <1>1, <1>2 DEF StoreTypeOK

LEMMA DeleteType ==
  ASSUME StoreTypeOK, NEW a \in Apps, NEW outcome \in SaveOutcomes, Delete(a, outcome)
  PROVE  StoreTypeOK'
<1>1. apps' \in [Apps -> Recs \cup {None}] /\ heap' \in [Recs -> AppRecord]
  BY DEF Delete, StoreTypeOK
<1>2. file' \in [Apps -> AppRecord \cup {None}]
  BY <1>1, StoreAssumption DEF Delete, Save, Image, NothingSaved, StoreTypeOK, SaveOutcomes
<1> QED BY <1>1, <1>2 DEF StoreTypeOK

\* A store loaded from any file is well-formed.
LEMMA LoadType ==
  ASSUME NEW image \in [Apps -> AppRecord \cup {None}], Load(image)
  PROVE  StoreTypeOK'
BY StoreAssumption, BlankType DEF Load, LoadedApps, LoadedHeap, StoreTypeOK

\* Every command keeps the cluster well-formed.
LEMMA CommandsType ==
  ASSUME ClusterTypeOK, NEW a \in Apps, NEW level \in Pods, NEW present \in BOOLEAN,
         \/ HelmInstallBegins(a) \/ HelmInstallEnds(a) \/ HelmInstallBreaks(a)
         \/ HelmUninstalls(a) \/ HelmUninstallFails(a)
         \/ Scales(a, level) \/ ScaleFails(a, level)
         \/ DeletesOrphans(a) \/ SetsCRD(a, present)
  PROVE  ClusterTypeOK'
<1> USE DEF ClusterTypeOK, Releases, Pods
<1>1. CASE HelmInstallBegins(a) BY <1>1 DEF HelmInstallBegins
<1>2. CASE HelmInstallEnds(a) BY <1>2 DEF HelmInstallEnds, HelmMarks
<1>3. CASE HelmInstallBreaks(a) BY <1>3 DEF HelmInstallBreaks, HelmMarks
<1>4. CASE HelmUninstalls(a) BY <1>4 DEF HelmUninstalls
<1>5. CASE HelmUninstallFails(a) BY <1>5 DEF HelmUninstallFails
<1>6. CASE Scales(a, level) BY <1>6 DEF Scales
<1>7. CASE ScaleFails(a, level) BY <1>7 DEF ScaleFails
<1>8. CASE DeletesOrphans(a) BY <1>8 DEF DeletesOrphans
<1>9. CASE SetsCRD(a, present) BY <1>9 DEF SetsCRD
<1> QED BY <1>1, <1>2, <1>3, <1>4, <1>5, <1>6, <1>7, <1>8, <1>9

\* The hosts of an app are hosts.
LEMMA HostsType ==
  ASSUME NEW a \in Apps, NEW p \in BOOLEAN, NEW q \in BOOLEAN
  PROVE  HostsFor(a, p, q) \in SUBSET Hosts
BY DomainAssumption DEF HostsFor, HostsAt

\* flush keeps the published state well-formed.
LEMMA FlushType ==
  ASSUME DomainTypeOK, NEW claims \in [Apps -> SUBSET Hosts],
         NEW outcome \in Outcomes, Flush(claims, outcome)
  PROVE  DomainTypeOK'
<1>1. Merged(claims) \in SUBSET Hosts
  BY DEF Merged
<1> QED BY <1>1 DEF Flush, DomainTypeOK, Errors

-----------------------------------------------------------------------------
(* Steps of a request *)

\* A request that has started keeps its place in the table of requests, and no
\* pointer becomes invalid.
LEMMA ReqStep ==
  ASSUME RequestsOK, NEW r \in Reqs, NEW new \in Request0,
         req' = [req EXCEPT ![r] = new],
         new.pc # "new", new.app \in Apps,
         new.pc \in Busy => new.rec \in Pointers \cup {r},
         new.pc \in InstallSteps => new.rec = r
  PROVE  RequestsOK' /\ Pointers \subseteq Pointers' /\ r \in Pointers'
<1>1. req' \in [Reqs -> Request0]
  BY DEF RequestsOK
<1>2. \A x \in Reqs : req'[x] = IF x = r THEN new ELSE req[x]
  BY DEF RequestsOK
<1>3. Pointers \subseteq Pointers' /\ r \in Pointers'
  BY <1>2, LifecycleAssumption DEF Pointers
<1> QED BY <1>1, <1>2, <1>3 DEF RequestsOK

\* The special case of Goto.
LEMMA GotoStep ==
  ASSUME RequestsOK, NEW r \in Reqs, req[r].pc \in Busy, NEW pc \in Busy \cup {"done"},
         pc \in InstallSteps => req[r].pc \in InstallSteps, Goto(r, pc)
  PROVE  /\ RequestsOK' /\ Pointers \subseteq Pointers'
         /\ req[r].app \in Apps /\ req[r].rec \in Pointers
<1> DEFINE new == IF pc = "done" THEN Ended(r, pc) ELSE [req[r] EXCEPT !.pc = pc]
<1>1. req[r] \in Request0 /\ req[r].pc # "new" /\ req[r].app \in Apps /\ req[r].rec \in Pointers
  BY DEF RequestsOK, Busy, InstallSteps, UninstallSteps, ScaleSteps, ToggleSteps
<1>2. new \in Request0 /\ new.pc = pc /\ new.app = req[r].app
      /\ (pc # "done" => new.rec = req[r].rec)
  BY <1>1 DEF Request0, Ended, Unused, AllKinds, Over
<1>3. pc # "new" /\ (pc \in Busy => pc # "done")
  BY DEF Busy, InstallSteps, UninstallSteps, ScaleSteps, ToggleSteps
<1>4. req' = [req EXCEPT ![r] = new]
  BY DEF Goto, RequestsOK
<1>5. pc \in InstallSteps => new.rec = r
  BY <1>2, <1>3 DEF RequestsOK, Busy
<1> HIDE DEF new
<1> QED BY <1>1, <1>2, <1>3, <1>4, <1>5, ReqStep

\* What a step leaves alone stays well-formed as pointers become more.
LEMMA Frame ==
  ASSUME TypeOK, Pointers \subseteq Pointers'
  PROVE  /\ UNCHANGED sync => SyncOK'
         /\ UNCHANGED boot => BootOK'
         /\ UNCHANGED storeVars => StoreTypeOK' /\ \A a \in Apps : apps'[a] \in Pointers' \cup {None}
         /\ UNCHANGED clusterVars => ClusterTypeOK'
         /\ UNCHANGED domainVars => DomainTypeOK'
         /\ UNCHANGED crashes => (crashes \in 0..MaxCrashes)'
BY DEF TypeOK, SyncOK, BootOK, storeVars, clusterVars, domainVars,
       StoreTypeOK, ClusterTypeOK, DomainTypeOK

\* A step that stores a record under the name of a request.
LEMMA PutStep ==
  ASSUME TypeOK, NEW r \in Reqs, req[r].pc \in Busy, NEW pc \in Busy \cup {"done"},
         pc \in InstallSteps => req[r].pc \in InstallSteps, Goto(r, pc),
         NEW rec \in AppRecord, NEW outcome \in SaveOutcomes,
         Put(req[r].app, req[r].rec, rec, outcome), UNCHANGED OutsideStore
  PROVE  TypeOK'
<1>1. RequestsOK' /\ Pointers \subseteq Pointers' /\ req[r].app \in Apps /\ req[r].rec \in Pointers
  BY GotoStep DEF TypeOK
<1>2. StoreTypeOK'
  BY <1>1, PutType DEF TypeOK, Pointers
<1>3. \A a \in Apps : apps'[a] \in Pointers' \cup {None}
  BY <1>1 DEF TypeOK, Put, StoreTypeOK
<1> QED BY <1>1, <1>2, <1>3, Frame DEF TypeOK, OutsideStore

\* A step that only runs a command.
LEMMA CommandStep ==
  ASSUME TypeOK, NEW r \in Reqs, req[r].pc \in Busy, NEW pc \in Busy \cup {"done"},
         pc \in InstallSteps => req[r].pc \in InstallSteps, Goto(r, pc),
         ClusterTypeOK', UNCHANGED OutsideCluster
  PROVE  TypeOK'
<1>1. RequestsOK' /\ Pointers \subseteq Pointers'
  BY GotoStep DEF TypeOK
<1> QED BY <1>1, Frame DEF TypeOK, OutsideCluster

\* A record with a new state is a record.
LEMMA StateType ==
  ASSUME StoreTypeOK, NEW r \in Reqs, req[r].rec \in Recs, NEW s \in States
  PROVE  /\ [heap[req[r].rec] EXCEPT !.state = s] \in AppRecord
         /\ [heap[req[r].rec] EXCEPT !.state = s].state = s
BY DEF StoreTypeOK, AppRecord

\* A step that writes a state into the record of a request.
LEMMA BecomesStep ==
  ASSUME TypeOK, NEW r \in Reqs, req[r].pc \in Busy, NEW pc \in Busy \cup {"done"},
         pc \in InstallSteps => req[r].pc \in InstallSteps, Goto(r, pc),
         NEW s \in States, Becomes(r, s), UNCHANGED OutsideStore
  PROVE  TypeOK'
<1>1. req[r].rec \in Recs
  BY GotoStep DEF TypeOK, Pointers
<1> QED BY <1>1, StateType, PutStep DEF Becomes, SetState, TypeOK

-----------------------------------------------------------------------------
(* Every step *)

LEMMA Steps ==
  /\ InstallSteps \cup UninstallSteps \cup ScaleSteps \cup ToggleSteps \cup {"claim"} = Busy
  /\ "done" \notin Busy /\ "new" \notin Busy /\ "lost" \notin Busy
BY DEF Busy, InstallSteps, UninstallSteps, ScaleSteps, ToggleSteps

LEMMA RequestType ==
  ASSUME TypeOK, NEW r \in Reqs, NEW a \in Apps, Request(r, a)
  PROVE  TypeOK'
<1>1. PICK kind \in AllKinds, pc \in Busy :
        /\ Starts(r, kind, a, pc)
        /\ pc \in InstallSteps => kind = "install"
        /\ kind # "install" => apps[a] # None
  BY DEF Request, RequestInstall, RequestUninstall, RequestSuspend, RequestResume,
         RequestToggle, AllKinds, Busy, InstallSteps, UninstallSteps, ScaleSteps, ToggleSteps
<1> DEFINE new == [req[r] EXCEPT !.pc = pc, !.kind = kind, !.app = a,
                                 !.rec = IF kind = "install" THEN r ELSE apps[a]]
<1>2. req[r] \in Request0 /\ (kind # "install" => apps[a] \in Pointers)
  BY <1>1 DEF TypeOK, RequestsOK
<1>3. new \in Request0 /\ new.pc = pc /\ new.app = a
      /\ new.rec = (IF kind = "install" THEN r ELSE apps[a])
  BY <1>2, LifecycleAssumption DEF Request0, Pointers
<1>4. req' = [req EXCEPT ![r] = new]
  BY <1>1 DEF Starts
<1> HIDE DEF new
<1>5. RequestsOK' /\ Pointers \subseteq Pointers'
  BY <1>1, <1>2, <1>3, <1>4, ReqStep, Steps DEF TypeOK
<1> QED BY <1>1, <1>5, Frame DEF Starts, TypeOK, OutsideStore

LEMMA InstallType ==
  ASSUME TypeOK, NEW r \in Reqs, InstallWorks(r)
  PROVE  TypeOK'
<1> USE Steps DEF At
<1>0. req[r].pc \in InstallSteps => req[r].rec = r /\ req[r].app \in Apps /\ r \in Recs
  BY LifecycleAssumption DEF TypeOK, RequestsOK, InstallSteps
<1>1. CASE InstallCleans(r)
  <2>1. req[r].pc = "clean" /\ Goto(r, "create")
    BY <1>1 DEF InstallCleans
  <2>2. RequestsOK' /\ Pointers \subseteq Pointers' /\ req[r].app \in Apps
    BY <2>1, GotoStep DEF TypeOK, InstallSteps
  <2>3. StoreTypeOK' /\ \A a \in Apps : apps'[a] \in Pointers' \cup {None}
    BY <1>1, <2>2, DeleteType DEF InstallCleans, Delete, TypeOK, StoreTypeOK
  <2> QED BY <1>1, <2>2, <2>3, Frame DEF InstallCleans, TypeOK, OutsideStore
<1>2. CASE InstallCreates(r)
  <2>1. [Blank EXCEPT !.state = "Pending"] \in AppRecord
    BY DEF Blank, AppRecord, States, Transitional
  <2> QED BY <1>0, <1>2, <2>1, PutStep DEF InstallCreates, InstallSteps
<1>3. CASE InstallDownloads(r)
  BY <1>3, BecomesStep DEF InstallDownloads, InstallSteps, States, Transitional
<1>4. CASE InstallFetches(r)
  <2>1. \A e \in BOOLEAN : [heap[r] EXCEPT !.entered = e] \in AppRecord
    BY <1>4, <1>0 DEF InstallFetches, InstallSteps, TypeOK, StoreTypeOK, AppRecord
  <2>2. PICK outcome \in SaveOutcomes, e \in BOOLEAN :
          Put(req[r].app, r, [heap[r] EXCEPT !.entered = e], outcome)
    BY <1>4 DEF InstallFetches
  <2> QED BY <1>0, <1>4, <2>1, <2>2, PutStep DEF InstallFetches, InstallSteps
<1>5. CASE InstallPrepares(r)
  BY <1>5, BecomesStep DEF InstallPrepares, InstallSteps, States, Transitional
<1>6. CASE InstallGivesUp(r)
  BY <1>6, BecomesStep DEF InstallGivesUp, InstallSteps, States, Failed
<1>7. CASE InstallPurges(r)
  BY <1>0, <1>7, CommandsType, CommandStep DEF InstallPurges, Commands, InstallSteps, TypeOK, Pods
<1>8. CASE HelmStarts(r)
  BY <1>0, <1>8, CommandsType, CommandStep DEF HelmStarts, Commands, InstallSteps, TypeOK, Pods
<1>9. CASE HelmRefuses(r)
  <2>1. ClusterTypeOK'
    BY <1>9 DEF HelmRefuses, Commands, TypeOK, ClusterTypeOK, clusterVars
  <2> QED BY <1>9, <2>1, CommandStep DEF HelmRefuses, Commands, InstallSteps
<1>10. CASE HelmSucceeds(r)
  BY <1>0, <1>10, CommandsType, CommandStep DEF HelmSucceeds, Commands, InstallSteps, TypeOK, Pods
<1>11. CASE HelmBreaks(r)
  BY <1>0, <1>11, CommandsType, CommandStep DEF HelmBreaks, Commands, InstallSteps, TypeOK, Pods
<1>12. CASE InstallCleansUp(r)
  BY <1>0, <1>12, CommandsType, CommandStep DEF InstallCleansUp, Commands, InstallSteps, TypeOK, Pods
<1>13. CASE InstallRuns(r)
  BY <1>13, BecomesStep DEF InstallRuns, InstallSteps, States
<1>14. CASE InstallRegisters(r)
  <2> DEFINE new == [req[r] EXCEPT !.pc = "claim", !.hosts = HostsOf(r)]
  <2>1. req[r] \in Request0 /\ req[r].app \in Apps /\ req[r].rec = r /\ r \in Recs
    BY <1>0, <1>14 DEF InstallRegisters, InstallSteps, TypeOK, RequestsOK
  <2>2. HostsOf(r) \in SUBSET Hosts
    BY <2>1, HostsType, LifecycleAssumption
    DEF HostsOf, AppOf, TypeOK, StoreTypeOK, AppRecord
  <2>3. new \in Request0 /\ new.pc = "claim" /\ new.app = req[r].app /\ new.rec = r
    BY <2>1, <2>2 DEF Request0, Busy
  <2>4. req' = [req EXCEPT ![r] = new]
    BY <1>14 DEF InstallRegisters
  <2>5. "claim" \notin InstallSteps
    BY DEF InstallSteps
  <2> HIDE DEF new
  <2>6. RequestsOK' /\ Pointers \subseteq Pointers'
    BY <2>1, <2>3, <2>4, <2>5, ReqStep DEF TypeOK
  <2>7. ClusterTypeOK'
    BY <2>1, <1>14, CommandsType DEF InstallRegisters, TypeOK, Pods
  <2> QED BY <1>14, <2>6, <2>7, Frame DEF InstallRegisters, TypeOK, OutsideCluster
<1> QED BY <1>1, <1>2, <1>3, <1>4, <1>5, <1>6, <1>7, <1>8, <1>9, <1>10, <1>11, <1>12,
           <1>13, <1>14 DEF InstallWorks

\* The last step of an install and of a toggle, and the toggle itself.
LEMMA ToggleType ==
  ASSUME TypeOK, NEW r \in Reqs, Claims(r) \/ Toggles(r)
  PROVE  TypeOK'
<1> USE Steps DEF At
<1>0. req[r].pc \in Busy
  BY DEF Claims, Toggles, ToggleSteps
<1>1. /\ req[r] \in Request0 /\ req[r].app \in Apps
      /\ req[r].rec \in Pointers /\ req[r].rec \in Recs
  BY <1>0 DEF TypeOK, RequestsOK, Pointers
<1>2. CASE Claims(r)
  <2>1. RequestsOK' /\ Pointers \subseteq Pointers'
    BY <1>0, <1>2, GotoStep DEF Claims, TypeOK, InstallSteps
  <2>2. PICK outcome \in Outcomes : Sync(req[r].app, req[r].hosts, outcome)
    BY <1>2 DEF Claims
  <2>3. [byApp EXCEPT ![req[r].app] = req[r].hosts] \in [Apps -> SUBSET Hosts]
    BY <1>1 DEF TypeOK, DomainTypeOK, Request0
  <2>4. DomainTypeOK'
    BY <2>2, <2>3, FlushType DEF Sync, TypeOK
  <2> QED BY <1>2, <2>1, <2>4, Frame DEF Claims, TypeOK, storeVars, clusterVars
<1>3. CASE Toggles(r)
  <2> DEFINE rec == [heap[req[r].rec] EXCEPT !.public = (req[r].kind = "publish")]
             new == [req[r] EXCEPT !.pc = "claim",
                                   !.hosts = HostsFor(req[r].app, rec.entered, rec.public)]
  <2>1. rec \in AppRecord
    BY <1>1 DEF TypeOK, StoreTypeOK, AppRecord
  <2>2. rec.entered \in BOOLEAN /\ rec.public \in BOOLEAN
    BY <2>1 DEF AppRecord
  <2>3. PICK outcome \in SaveOutcomes : Put(req[r].app, req[r].rec, rec, outcome)
    BY <1>3 DEF Toggles
  <2>4. req' = [req EXCEPT ![r] = new] /\ UNCHANGED OutsideStore
    BY <1>3 DEF Toggles
  <2> HIDE DEF rec
  <2>5. new \in Request0 /\ new.pc = "claim" /\ new.app = req[r].app /\ new.rec = req[r].rec
    BY <1>1, <2>2, HostsType DEF Request0, Busy
  <2> HIDE DEF new
  <2>6. RequestsOK' /\ Pointers \subseteq Pointers'
    BY <1>1, <2>4, <2>5, ReqStep DEF TypeOK, InstallSteps
  <2>7. StoreTypeOK' /\ \A a \in Apps : apps'[a] \in Pointers' \cup {None}
    BY <1>1, <2>1, <2>3, <2>6, PutType DEF Put, TypeOK, StoreTypeOK
  <2> QED BY <2>4, <2>6, <2>7, Frame DEF TypeOK, OutsideStore
<1> QED BY <1>2, <1>3

LEMMA UninstallType ==
  ASSUME TypeOK, NEW r \in Reqs, UninstallWorks(r)
  PROVE  TypeOK'
<1> USE Steps DEF At, UninstallSteps
<1>0. req[r].pc \in UninstallSteps => req[r].app \in Apps /\ req[r].rec \in Recs
  BY DEF TypeOK, RequestsOK, Pointers
<1>0a. InstallSteps \cap (UninstallSteps \cup {"done"}) = {}
  BY DEF InstallSteps
<1>1. CASE UninstallMarks(r)
  <2>1. PICK outcome \in SaveOutcomes :
          /\ SetState(r, "Uninstalling", outcome)
          /\ Goto(r, IF outcome = "ok" THEN "helmUninstall" ELSE "done")
    BY <1>1 DEF UninstallMarks
  <2>2. [heap[req[r].rec] EXCEPT !.state = "Uninstalling"] \in AppRecord
    BY <1>0, <1>1, StateType DEF UninstallMarks, TypeOK, States, Transitional
  <2> QED BY <1>0, <1>0a, <1>1, <2>1, <2>2, PutStep DEF UninstallMarks, SetState
<1>2. CASE UninstallSucceeds(r)
  BY <1>0, <1>0a, <1>2, CommandsType, CommandStep DEF UninstallSucceeds, Commands, TypeOK, Pods
<1>3. CASE UninstallFails(r)
  BY <1>0, <1>0a, <1>3, CommandsType, CommandStep DEF UninstallFails, Commands, TypeOK, Pods
<1>4. CASE UninstallGivesUp(r)
  BY <1>0a, <1>4, BecomesStep DEF UninstallGivesUp, States, Failed
<1>5. CASE UninstallCollects(r)
  BY <1>0, <1>0a, <1>5, CommandsType, CommandStep DEF UninstallCollects, Commands, TypeOK, Pods
<1>6. CASE UninstallDeregisters(r)
  BY <1>0, <1>0a, <1>6, CommandsType, CommandStep DEF UninstallDeregisters, Commands, TypeOK, Pods
<1>7. CASE UninstallUnclaims(r)
  <2>1. RequestsOK' /\ Pointers \subseteq Pointers'
    BY <1>0a, <1>7, GotoStep DEF UninstallUnclaims, TypeOK
  <2>2. PICK outcome \in Outcomes : Sync(req[r].app, {}, outcome)
    BY <1>7 DEF UninstallUnclaims
  <2>3. DomainTypeOK'
    BY <2>2, FlushType DEF Sync, TypeOK, DomainTypeOK
  <2> QED BY <1>7, <2>1, <2>3, Frame DEF UninstallUnclaims, TypeOK, storeVars, clusterVars
<1>8. CASE UninstallFinishes(r)
  BY <1>0a, <1>8, BecomesStep DEF UninstallFinishes, States
<1>9. CASE UninstallForgets(r)
  <2>1. RequestsOK' /\ Pointers \subseteq Pointers' /\ req[r].app \in Apps
    BY <1>0a, <1>9, GotoStep DEF UninstallForgets, TypeOK
  <2>2. StoreTypeOK' /\ \A a \in Apps : apps'[a] \in Pointers' \cup {None}
    BY <1>9, <2>1, DeleteType DEF UninstallForgets, Delete, TypeOK, StoreTypeOK
  <2> QED BY <1>9, <2>1, <2>2, Frame DEF UninstallForgets, TypeOK, OutsideStore
<1> QED BY <1>1, <1>2, <1>3, <1>4, <1>5, <1>6, <1>7, <1>8, <1>9 DEF UninstallWorks

LEMMA ScaleType ==
  ASSUME TypeOK, NEW r \in Reqs, ScaleWorks(r)
  PROVE  TypeOK'
<1> USE Steps DEF At, ScaleSteps
<1>0. req[r].pc \in ScaleSteps => req[r].app \in Apps /\ req[r].rec \in Recs
  BY DEF TypeOK, RequestsOK, Pointers
<1>0a. InstallSteps \cap (ScaleSteps \cup {"done"}) = {}
  BY DEF InstallSteps
<1>0b. Level(r) \in Pods
  BY DEF Level, Pods
<1>1. CASE ScaleMarks(r)
  <2> DEFINE s == IF For(r, {"suspend"}) THEN "Stopping" ELSE "Resuming"
  <2>1. PICK outcome \in SaveOutcomes :
          /\ SetState(r, s, outcome)
          /\ Goto(r, IF outcome = "ok" THEN "scale" ELSE "done")
    BY <1>1 DEF ScaleMarks
  <2>2. [heap[req[r].rec] EXCEPT !.state = s] \in AppRecord
    BY <1>0, <1>1, StateType DEF ScaleMarks, TypeOK, States, Transitional
  <2> QED BY <1>0, <1>0a, <1>1, <2>1, <2>2, PutStep DEF ScaleMarks, SetState
<1>2. CASE ScaleSucceeds(r)
  BY <1>0, <1>0a, <1>0b, <1>2, CommandsType, CommandStep DEF ScaleSucceeds, Commands, TypeOK
<1>3. CASE ScaleGivesUp(r)
  BY <1>0, <1>0a, <1>0b, <1>3, CommandsType, CommandStep DEF ScaleGivesUp, Commands, TypeOK
<1>4. CASE ScaleSettles(r)
  BY <1>0a, <1>4, BecomesStep DEF ScaleSettles, States
<1>5. CASE ScaleFailed(r)
  BY <1>0a, <1>5, BecomesStep DEF ScaleFailed, States, Failed
<1> QED BY <1>1, <1>2, <1>3, <1>4, <1>5 DEF ScaleWorks

\* Correcting a state yields that state or one of three.
LEMMA CorrectedType ==
  ASSUME NEW status, NEW s \in States, Corrected(status, s) # s
  PROVE  Corrected(status, s) \in {"Running", "Uninstalled", "InstallFailed"}
BY Zenon DEF Corrected

LEMMA SyncType ==
  ASSUME TypeOK, SyncStep
  PROVE  TypeOK'
<1>1. CASE SyncLists
  <2>1. Listed \in [Apps -> {"missing", "deployed", "failed"}]
    BY DEF Listed
  <2>2. Pointers' = Pointers /\ RequestsOK'
    BY <1>1 DEF SyncLists, OutsideSync, Pointers, RequestsOK, TypeOK
  <2>3. SyncOK'
    BY <1>1, <2>1, <2>2 DEF SyncLists, SyncOK, TypeOK
  <2> QED BY <1>1, <2>2, <2>3, Frame DEF SyncLists, OutsideSync, TypeOK
<1>2. CASE SyncReads
  <2>1. Pointers' = Pointers /\ RequestsOK'
    BY <1>2 DEF SyncReads, OutsideSync, Pointers, RequestsOK, TypeOK
  <2>2. ({apps[a] : a \in Apps} \ {None}) \subseteq Pointers
    BY DEF TypeOK
  <2>3. SyncOK'
    BY <1>2, <2>1, <2>2 DEF SyncReads, SyncOK, SyncIdle, TypeOK
  <2> QED BY <1>2, <2>1, <2>3, Frame DEF SyncReads, OutsideSync, TypeOK
<1>3. ASSUME NEW rec \in Recs, SyncDecides(rec) PROVE TypeOK'
  <2>1. Pointers' = Pointers /\ RequestsOK'
    BY <1>3 DEF SyncDecides, OutsideSync, Pointers, RequestsOK, TypeOK
  <2>2. heap[rec].state \in States
    BY <1>3 DEF TypeOK, StoreTypeOK, AppRecord
  <2> DEFINE to == Corrected(sync.seen[AppOf(rec)], heap[rec].state)
  <2>3. to # heap[rec].state => to \in {"Running", "Uninstalled", "InstallFailed"}
    BY <2>2, CorrectedType
  <2>4. /\ sync.pc = "walk" /\ rec \in sync.todo /\ UNCHANGED <<storeVars, OutsideSync>>
        /\ sync' = IF to = heap[rec].state THEN Remaining(rec)
                   ELSE [sync EXCEPT !.pc = "write", !.rec = rec, !.to = to]
    BY <1>3 DEF SyncDecides
  <2> HIDE DEF to
  <2>5. SyncOK'
    BY <2>1, <2>3, <2>4, StoreAssumption DEF SyncOK, Remaining, SyncIdle, TypeOK
  <2> QED BY <2>1, <2>4, <2>5, Frame DEF OutsideSync, TypeOK
<1>4. CASE SyncWrites
  <2> DEFINE rec == sync.rec
  <2>1. Pointers' = Pointers /\ RequestsOK'
    BY <1>4 DEF SyncWrites, OutsideSync, Pointers, RequestsOK, TypeOK
  <2>2. rec \in Pointers /\ rec \in Recs /\ sync.to \in States
    BY <1>4 DEF SyncWrites, SyncOK, TypeOK, Pointers, States, Failed
  <2>3. AppOf(rec) \in Apps
    BY <2>2, LifecycleAssumption DEF AppOf, Pointers, RequestsOK, TypeOK
  <2>4. [heap[rec] EXCEPT !.state = sync.to] \in AppRecord
    BY <2>2 DEF TypeOK, StoreTypeOK, AppRecord
  <2>5. PICK outcome \in SaveOutcomes :
          Put(AppOf(rec), rec, [heap[rec] EXCEPT !.state = sync.to], outcome)
    BY <1>4 DEF SyncWrites
  <2>6. StoreTypeOK' /\ \A a \in Apps : apps'[a] \in Pointers' \cup {None}
    BY <2>1, <2>2, <2>3, <2>4, <2>5, PutType DEF Put, TypeOK, StoreTypeOK
  <2>7. SyncOK'
    BY <1>4, <2>1 DEF SyncWrites, SyncOK, Remaining, SyncIdle, TypeOK
  <2> QED BY <1>4, <2>1, <2>6, <2>7, Frame DEF SyncWrites, OutsideSync, TypeOK
<1> QED BY <1>1, <1>2, <1>3, <1>4 DEF SyncStep

LEMMA BootType ==
  ASSUME TypeOK, BootStep
  PROVE  TypeOK'
<1>0. Pointers' = Pointers /\ RequestsOK'
  BY DEF BootStep, BootLists, BootMerges, Pointers, RequestsOK, TypeOK
<1>1. CASE BootLists
  <2>1. ({apps[a] : a \in Apps} \ {None}) \subseteq Pointers
    BY DEF TypeOK
  <2>2. BootOK'
    BY <1>0, <1>1, <2>1 DEF BootLists, BootOK
  <2> QED BY <1>0, <1>1, <2>2, Frame DEF BootLists, TypeOK
<1>2. CASE BootMerges
  <2> DEFINE claims == [a \in Apps |-> UNION {HostsOf(rec) : rec \in {x \in boot.recs :
                          AppOf(x) = a /\ heap[x].state # "Uninstalled"}}]
  <2>1. PICK outcome \in Outcomes : Reconcile(claims, outcome)
    BY <1>2 DEF BootMerges
  <2>2. \A rec \in Pointers : HostsOf(rec) \in SUBSET Hosts
    <3> TAKE rec \in Pointers
    <3>1. AppOf(rec) \in Apps /\ rec \in Recs
      BY LifecycleAssumption DEF AppOf, Pointers, RequestsOK, TypeOK
    <3> QED BY <3>1, HostsType DEF HostsOf, TypeOK, StoreTypeOK, AppRecord
  <2>3. claims \in [Apps -> SUBSET Hosts]
    BY <2>2 DEF TypeOK, BootOK
  <2> HIDE DEF claims
  <2>4. DomainTypeOK'
    BY <2>1, <2>3, FlushType DEF Reconcile, TypeOK
  <2>5. BootOK'
    BY <1>2 DEF BootMerges, BootOK
  <2> QED BY <1>0, <1>2, <2>4, <2>5, Frame DEF BootMerges, TypeOK
<1> QED BY <1>1, <1>2 DEF BootStep

LEMMA CrashType ==
  ASSUME TypeOK, Crash
  PROVE  TypeOK'
<1>1. req' \in [Reqs -> Request0] /\ Pointers \subseteq Pointers'
      /\ \A r \in Reqs : /\ req'[r].pc \notin Busy
                         /\ req'[r].pc # "new" => req'[r].app \in Apps
  <2>1. \A r \in Reqs : req'[r] = IF req[r].pc = "create" THEN Ended(r, "lost")
                                 ELSE IF req[r].pc \in Busy THEN Ended(r, "done") ELSE req[r]
    BY DEF Crash, At, Working
  <2>2. \A r \in Reqs, pc \in {"lost", "done"} :
          /\ Ended(r, pc) \in Request0 /\ Ended(r, pc).pc = pc
          /\ Ended(r, pc).app = req[r].app
    BY DEF Ended, Unused, Request0, AllKinds, Over, TypeOK, RequestsOK
  <2>3. req' = [r \in Reqs |-> req'[r]]
    BY DEF Crash
  <2>4. "create" \in Busy
    BY DEF Busy, InstallSteps
  <2>5. \A r \in Reqs : /\ req[r] \in Request0
                        /\ req[r].pc # "new" => req[r].app \in Apps
    BY DEF TypeOK, RequestsOK
  <2>6. \A r \in Reqs : /\ req'[r] \in Request0 /\ req'[r].pc \notin Busy
                        /\ req'[r].pc = "new" => req[r].pc = "new"
                        /\ req'[r].pc # "new" => req'[r].app \in Apps
    BY <2>1, <2>2, <2>4, <2>5, Steps
  <2>7. req' \in [Reqs -> Request0]
    BY <2>3, <2>6
  <2>8. Pointers \subseteq Pointers'
    BY <2>6, LifecycleAssumption DEF Pointers
  <2> QED BY <2>6, <2>7, <2>8
<1>2. RequestsOK'
  BY <1>1, Steps DEF RequestsOK
<1>3. PICK image \in [Apps -> AppRecord \cup {None}] : Load(image)
  BY DEF Crash, TypeOK, StoreTypeOK, NothingSaved
<1>4. StoreTypeOK' /\ \A a \in Apps : apps'[a] \in Pointers' \cup {None}
  BY <1>3, LoadType, StoreAssumption DEF Load, LoadedApps, Pointers
<1>5. DomainTypeOK'
  BY DEF Crash, Forget, DomainTypeOK, NoClaims, Errors, TypeOK
<1>6. ClusterTypeOK'
  BY DEF Crash, ClusterTypeOK, Releases, TypeOK
<1>7. SyncOK' /\ BootOK'
  BY DEF Crash, SyncOK, SyncIdle, BootOK
<1>8. (crashes \in 0..MaxCrashes)'
  BY LifecycleAssumption DEF Crash, TypeOK
<1> QED BY <1>2, <1>4, <1>5, <1>6, <1>7, <1>8 DEF TypeOK

LEMMA InitType == Init => TypeOK
<1> SUFFICES ASSUME Init PROVE TypeOK
  OBVIOUS
<1>0. PICK installed \in SUBSET Apps : \E open \in SUBSET (installed \cap Toggled) :
        /\ StoreInit([a \in Apps |->
             IF a \in installed
             THEN [state |-> "Running", entered |-> Entrances[a] # {}, public |-> a \in open]
             ELSE None])
        /\ ClusterInit(installed)
        /\ DomainInit(UNION {HostsFor(a, TRUE, a \in open) : a \in installed})
  BY DEF Init
<1>1. PICK open \in SUBSET (installed \cap Toggled) :
        /\ StoreInit([a \in Apps |->
             IF a \in installed
             THEN [state |-> "Running", entered |-> Entrances[a] # {}, public |-> a \in open]
             ELSE None])
        /\ ClusterInit(installed)
        /\ DomainInit(UNION {HostsFor(a, TRUE, a \in open) : a \in installed})
  BY <1>0
<1>2. StoreTypeOK /\ \A a \in Apps : apps[a] \in Apps \cup {None}
  BY <1>1, BlankType, StoreAssumption
  DEF StoreInit, LoadedApps, LoadedHeap, StoreTypeOK, AppRecord, States
<1>3. ClusterTypeOK
  BY <1>1 DEF ClusterInit, ClusterTypeOK, Releases, Pods
<1>4. DomainTypeOK
  <2>1. \A a \in installed : HostsFor(a, TRUE, a \in open) \in SUBSET Hosts
    BY DomainAssumption DEF HostsFor, HostsAt
  <2> QED BY <1>1, <2>1 DEF DomainInit, DomainTypeOK, NoClaims, Errors
<1>5. RequestsOK
  BY Steps DEF Init, RequestsOK, Request0, Unused, AllKinds, Over
<1>6. SyncOK /\ BootOK /\ crashes \in 0..MaxCrashes
  BY LifecycleAssumption DEF Init, SyncOK, SyncIdle, BootOK
<1> QED BY <1>2, <1>3, <1>4, <1>5, <1>6, StoreAssumption DEF TypeOK, Pointers

\* Type correctness: whatever requests, syncs, failures and restarts interleave,
\* every pointer that a goroutine, the sync or the table of apps holds is to a
\* record of a known app, and everything stays in range.
THEOREM TypeCorrect == Spec => []TypeOK
<1>1. TypeOK /\ [Next]_vars => TypeOK'
  <2> SUFFICES ASSUME TypeOK, [Next]_vars PROVE TypeOK'
    OBVIOUS
  <2>1. CASE UNCHANGED vars
    BY <2>1, Frame DEF vars, TypeOK, Pointers, RequestsOK
  <2>2. ASSUME NEW r \in Reqs, Work(r) PROVE TypeOK'
    BY <2>2, InstallType, UninstallType, ScaleType, ToggleType DEF Work
  <2>3. ASSUME NEW r \in Reqs, NEW a \in Apps, Request(r, a) PROVE TypeOK'
    BY <2>3, RequestType
  <2> QED BY <2>1, <2>2, <2>3, SyncType, BootType, CrashType DEF Next
<1> QED BY <1>1, InitType, PTL DEF Spec

-----------------------------------------------------------------------------
(* No transition without a goroutine that settles it *)

Holds(r, rec) == req[r].pc \in Settles /\ req[r].rec = rec

\* A step of request r keeps NoOrphanedTransition when every record that is in
\* transition after it is held by r, or was in transition and not held by r.
LEMMA HeldStep ==
  ASSUME TypeOK, NoOrphanedTransition, NEW r \in Reqs, NEW new,
         req' = [req EXCEPT ![r] = new], crashes' = crashes,
         \A rec \in Recs : heap'[rec].state \in Transitional =>
           \/ new.pc \in Settles /\ new.rec = rec
           \/ heap[rec].state \in Transitional /\ ~Holds(r, rec)
  PROVE  NoOrphanedTransition'
BY DEF NoOrphanedTransition, Holds, TypeOK, RequestsOK

\* Goto with a write to the record of r, seen from every record.
LEMMA HeldGoto ==
  ASSUME TypeOK, NoOrphanedTransition, NEW r \in Reqs, req[r].pc \in Busy,
         NEW pc \in Busy \cup {"done"}, Goto(r, pc), crashes' = crashes,
         \A rec \in Recs : heap'[rec].state \in Transitional =>
           \/ pc \in Settles /\ rec = req[r].rec
           \/ heap[rec].state \in Transitional /\ ~Holds(r, rec)
  PROVE  NoOrphanedTransition'
<1> DEFINE new == IF pc = "done" THEN Ended(r, pc) ELSE [req[r] EXCEPT !.pc = pc]
<1>1. req' = [req EXCEPT ![r] = new]
  BY DEF Goto, TypeOK, RequestsOK
<1>2. pc \in Settles => new.pc = pc /\ new.rec = req[r].rec
  BY DEF TypeOK, RequestsOK, Request0, Settles
<1> HIDE DEF new
<1> QED BY <1>1, <1>2, HeldStep

\* A worker that goes from one settling step to another with the store untouched.
LEMMA HeldOn ==
  ASSUME TypeOK, NoOrphanedTransition, NEW r \in Reqs, req[r].pc \in Busy,
         NEW pc \in Busy \cup {"done"}, Goto(r, pc), crashes' = crashes, heap' = heap,
         req[r].pc \in Settles => pc \in Settles
  PROVE  NoOrphanedTransition'
BY HeldGoto DEF Holds

\* A worker that writes a state and either goes on to a settling step or writes an
\* outcome.
LEMMA HeldBecomes ==
  ASSUME TypeOK, NoOrphanedTransition, NEW r \in Reqs, req[r].pc \in Busy,
         NEW pc \in Busy \cup {"done"}, Goto(r, pc), crashes' = crashes,
         NEW s \in States, NEW outcome \in SaveOutcomes, SetState(r, s, outcome),
         s \in Transitional => pc \in Settles
  PROVE  NoOrphanedTransition'
<1>1. req[r].rec \in Recs
  BY DEF TypeOK, RequestsOK, Pointers
<1>2. \A rec \in Recs : heap'[rec].state = IF rec = req[r].rec THEN s ELSE heap[rec].state
  BY <1>1, StateType DEF SetState, Put, TypeOK, StoreTypeOK
<1> QED BY <1>2, HeldGoto DEF Holds

LEMMA RequestHeld ==
  ASSUME TypeOK, NoOrphanedTransition, NEW r \in Reqs, NEW a \in Apps, Request(r, a)
  PROVE  NoOrphanedTransition'
<1>1. PICK kind \in AllKinds, pc \in Busy : Starts(r, kind, a, pc)
  BY DEF Request, RequestInstall, RequestUninstall, RequestSuspend, RequestResume,
         RequestToggle, AllKinds, Busy, InstallSteps, UninstallSteps, ScaleSteps, ToggleSteps
<1>2. PICK new : req' = [req EXCEPT ![r] = new]
  BY <1>1 DEF Starts
<1>3. heap' = heap /\ crashes' = crashes /\ req[r].pc = "new"
  BY <1>1 DEF Starts, At, OutsideStore, storeVars
<1> QED BY <1>2, <1>3, HeldStep DEF Holds, Settles

LEMMA InstallHeld ==
  ASSUME TypeOK, NoOrphanedTransition, NEW r \in Reqs, InstallWorks(r)
  PROVE  NoOrphanedTransition'
<1> USE Steps DEF At, OutsideStore, OutsideCluster, storeVars
<1>0. req[r].pc \in InstallSteps => req[r].rec = r /\ r \in Recs
  BY LifecycleAssumption DEF TypeOK, RequestsOK
<1>1. CASE InstallCleans(r)
  BY <1>1, HeldOn DEF InstallCleans, Delete, InstallSteps, Settles
<1>2. CASE InstallCreates(r)
  <2>1. PICK outcome \in SaveOutcomes :
          /\ Put(req[r].app, r, [Blank EXCEPT !.state = "Pending"], outcome)
          /\ Goto(r, IF outcome = "ok" THEN "download" ELSE "done")
    BY <1>2 DEF InstallCreates
  <2>2. \A rec \in Recs : rec # r => heap'[rec] = heap[rec]
    BY <2>1 DEF Put, TypeOK, StoreTypeOK
  <2>3. CASE SaveFaults = {}
    BY <1>0, <1>2, <2>1, <2>2, <2>3, HeldGoto
    DEF InstallCreates, SaveOutcomes, InstallSteps, Settles, Holds
  <2>4. CASE SaveFaults # {}
    BY <2>4 DEF NoOrphanedTransition
  <2> QED BY <2>3, <2>4
<1>3. CASE InstallDownloads(r)
  BY <1>3, HeldBecomes DEF InstallDownloads, Becomes, InstallSteps, Settles, States, Transitional
<1>4. CASE InstallFetches(r)
  <2>1. PICK outcome \in SaveOutcomes, e \in BOOLEAN :
          Put(req[r].app, r, [heap[r] EXCEPT !.entered = e], outcome)
    BY <1>4 DEF InstallFetches
  <2>2. \A rec \in Recs : rec # r => heap'[rec] = heap[rec]
    BY <2>1 DEF Put, TypeOK, StoreTypeOK
  <2> QED BY <1>0, <1>4, <2>2, HeldGoto DEF InstallFetches, InstallSteps, Settles, Holds
<1>5. CASE InstallPrepares(r)
  BY <1>5, HeldBecomes DEF InstallPrepares, Becomes, InstallSteps, Settles, States, Transitional
<1>6. CASE InstallGivesUp(r)
  BY <1>6, HeldBecomes DEF InstallGivesUp, Becomes, InstallSteps, States, Failed, Transitional
<1>7. CASE InstallPurges(r) \/ HelmStarts(r) \/ HelmRefuses(r) \/ HelmSucceeds(r)
           \/ HelmBreaks(r) \/ InstallCleansUp(r)
  BY <1>7, HeldOn DEF InstallPurges, HelmStarts, HelmRefuses, HelmSucceeds, HelmBreaks,
     InstallCleansUp, Commands, InstallSteps, Settles
<1>8. CASE InstallRuns(r)
  BY <1>8, HeldBecomes DEF InstallRuns, Becomes, InstallSteps, States, Transitional
<1>9. CASE InstallRegisters(r)
  BY <1>9, HeldStep DEF InstallRegisters, Holds, Settles
<1> QED BY <1>1, <1>2, <1>3, <1>4, <1>5, <1>6, <1>7, <1>8, <1>9 DEF InstallWorks

LEMMA ToggleHeld ==
  ASSUME TypeOK, NoOrphanedTransition, NEW r \in Reqs, Claims(r) \/ Toggles(r)
  PROVE  NoOrphanedTransition'
<1> USE Steps DEF At, OutsideStore, storeVars
<1>1. CASE Claims(r)
  BY <1>1, HeldOn DEF Claims, Settles
<1>2. CASE Toggles(r)
  <2>1. PICK outcome \in SaveOutcomes : Put(req[r].app, req[r].rec,
          [heap[req[r].rec] EXCEPT !.public = (req[r].kind = "publish")], outcome)
    BY <1>2 DEF Toggles
  <2>2. req[r].rec \in Recs
    BY <1>2 DEF Toggles, ToggleSteps, TypeOK, RequestsOK, Pointers
  <2>3. \A rec \in Recs : heap'[rec].state = heap[rec].state
    BY <2>1, <2>2 DEF Put, TypeOK, StoreTypeOK, AppRecord
  <2>4. PICK new : req' = [req EXCEPT ![r] = new]
    BY <1>2 DEF Toggles
  <2>5. crashes' = crashes /\ req[r].pc = "toggle"
    BY <1>2 DEF Toggles
  <2>6. \A rec \in Recs : ~Holds(r, rec)
    BY <2>5 DEF Holds, Settles
  <2> QED BY <2>3, <2>4, <2>5, <2>6, HeldStep
<1> QED BY <1>1, <1>2

LEMMA UninstallHeld ==
  ASSUME TypeOK, NoOrphanedTransition, NEW r \in Reqs, UninstallWorks(r)
  PROVE  NoOrphanedTransition'
<1> USE Steps DEF At, OutsideStore, OutsideCluster, storeVars, UninstallSteps
<1>1. CASE UninstallMarks(r)
  <2>1. CASE SaveFaults = {}
    BY <1>1, <2>1, HeldBecomes DEF UninstallMarks, SaveOutcomes, Settles, States, Transitional
  <2>2. CASE SaveFaults # {}
    BY <2>2 DEF NoOrphanedTransition
  <2> QED BY <2>1, <2>2
<1>2. CASE UninstallSucceeds(r) \/ UninstallFails(r) \/ UninstallCollects(r) \/ UninstallDeregisters(r)
  BY <1>2, HeldOn DEF UninstallSucceeds, UninstallFails, UninstallCollects, UninstallDeregisters,
     Commands, Settles
<1>3. CASE UninstallUnclaims(r)
  BY <1>3, HeldOn DEF UninstallUnclaims, Settles
<1>4. CASE UninstallGivesUp(r)
  BY <1>4, HeldBecomes DEF UninstallGivesUp, Becomes, States, Failed, Transitional
<1>5. CASE UninstallFinishes(r)
  BY <1>5, HeldBecomes DEF UninstallFinishes, Becomes, States, Transitional
<1>6. CASE UninstallForgets(r)
  BY <1>6, HeldOn DEF UninstallForgets, Delete, Settles
<1> QED BY <1>1, <1>2, <1>3, <1>4, <1>5, <1>6 DEF UninstallWorks

LEMMA ScaleHeld ==
  ASSUME TypeOK, NoOrphanedTransition, NEW r \in Reqs, ScaleWorks(r)
  PROVE  NoOrphanedTransition'
<1> USE Steps DEF At, OutsideStore, OutsideCluster, storeVars, ScaleSteps
<1>1. CASE ScaleMarks(r)
  <2>1. CASE SaveFaults = {}
    BY <1>1, <2>1, HeldBecomes DEF ScaleMarks, SaveOutcomes, Settles, States, Transitional
  <2>2. CASE SaveFaults # {}
    BY <2>2 DEF NoOrphanedTransition
  <2> QED BY <2>1, <2>2
<1>2. CASE ScaleSucceeds(r) \/ ScaleGivesUp(r)
  BY <1>2, HeldOn DEF ScaleSucceeds, ScaleGivesUp, Commands, Settles
<1>3. CASE ScaleSettles(r)
  BY <1>3, HeldBecomes DEF ScaleSettles, Becomes, States, Transitional
<1>4. CASE ScaleFailed(r)
  BY <1>4, HeldBecomes DEF ScaleFailed, Becomes, States, Failed, Transitional
<1> QED BY <1>1, <1>2, <1>3, <1>4 DEF ScaleWorks

\* The status sync writes no transitional state; the rest does not touch a record.
LEMMA OtherHeld ==
  ASSUME TypeOK, NoOrphanedTransition, SyncStep \/ BootStep \/ Crash \/ UNCHANGED vars
  PROVE  NoOrphanedTransition'
<1>1. CASE SyncWrites
  <2>1. sync.rec \in Recs /\ sync.to \notin Transitional
    BY <1>1 DEF SyncWrites, TypeOK, SyncOK, Pointers, Transitional
  <2>2. \A rec \in Recs : heap'[rec].state = IF rec = sync.rec THEN sync.to ELSE heap[rec].state
    BY <1>1, <2>1 DEF SyncWrites, Put, TypeOK, StoreTypeOK, AppRecord
  <2> QED BY <1>1, <2>1, <2>2 DEF SyncWrites, OutsideSync, NoOrphanedTransition
<1>2. CASE SyncLists \/ SyncReads \/ (\E rec \in Recs : SyncDecides(rec)) \/ BootStep \/ UNCHANGED vars
  BY <1>2 DEF SyncLists, SyncReads, SyncDecides, BootStep, BootLists, BootMerges, vars,
     OutsideSync, storeVars, NoOrphanedTransition
<1>3. CASE Crash
  BY <1>3, LifecycleAssumption DEF Crash, TypeOK, NoOrphanedTransition
<1> QED BY <1>1, <1>2, <1>3 DEF SyncStep

\* While the process lives and its file can be written, a record that says it is
\* being downloaded, installed, stopped, resumed or uninstalled is held by a
\* goroutine that will write the outcome into it, whatever else runs beside it.
THEOREM NoOrphans == Spec => []NoOrphanedTransition
<1>1. Init => NoOrphanedTransition
  BY DEF Init, StoreInit, LoadedHeap, Blank, NoOrphanedTransition, Transitional
<1>2. TypeOK /\ NoOrphanedTransition /\ [Next]_vars => NoOrphanedTransition'
  BY RequestHeld, InstallHeld, ToggleHeld, UninstallHeld, ScaleHeld, OtherHeld DEF Next, Work
<1> QED BY <1>1, <1>2, TypeCorrect, PTL DEF Spec
=============================================================================
