------------------------- MODULE PublicDomainsProofs -------------------------
(***************************************************************************)
(* Proofs about PublicDomains under any caller, and that AppLifecycle is    *)
(* such a caller: every step of app-service is a step of the public         *)
(* domains' own specification, or leaves them alone.                        *)
(***************************************************************************)
EXTENDS AppLifecycleProofs

-----------------------------------------------------------------------------
(* Any caller *)

\* What nil promises, with what the skip of a repeated body relies on: a body
\* that this process has written is in the cluster.
DomainInv == NilMeansPublished /\ (lastBody # {} => configMap = lastBody)

LEMMA FlushPublishes ==
  ASSUME DomainInv, NEW claims, NEW outcome \in Outcomes, "unconfirmed" \notin Outcomes,
         Flush(claims, outcome)
  PROVE  DomainInv'
<1>1. byApp' = claims /\ Merged(byApp)' = Merged(claims)
  BY DEF Flush, Merged
<1>2. CASE Merged(claims) = lastBody
  BY <1>1, <1>2 DEF Flush, DomainInv, NilMeansPublished
<1>3. CASE Merged(claims) # lastBody /\ outcome = "ok"
  BY <1>1, <1>3 DEF Flush, DomainInv, NilMeansPublished
<1>4. CASE Merged(claims) # lastBody /\ outcome = "refused"
  BY <1>1, <1>4 DEF Flush, DomainInv, NilMeansPublished
<1> QED BY <1>2, <1>3, <1>4, DomainAssumption DEF AllOutcomes

\* Every step of the component is a flush, or a new process.
LEMMA DomainSteps ==
  ASSUME DomainNext
  PROVE  (\E claims : \E outcome \in Outcomes : Flush(claims, outcome)) \/ Forget
BY DEF DomainNext, SyncSome, Sync, ReconcileAll, Reconcile

\* A flush that returns nil has published exactly what the apps claim, in
\* whatever order apps claim and drop hosts, fail and restart, if kubectl never
\* fails after the object was stored.
THEOREM NilIsTrue == "unconfirmed" \notin Outcomes => (DomainSpec => []NilMeansPublished)
<1>1. CASE "unconfirmed" \notin Outcomes
  <2>1. ASSUME NEW published \in SUBSET Hosts, DomainInit(published) PROVE DomainInv
    BY <2>1 DEF DomainInit, DomainInv, NilMeansPublished
  <2>2. (\E published \in SUBSET Hosts : DomainInit(published)) => DomainInv
    BY <2>1
  <2>3. DomainInv /\ [DomainNext]_domainVars => DomainInv'
    <3> SUFFICES ASSUME DomainInv, [DomainNext]_domainVars PROVE DomainInv'
      OBVIOUS
    <3>1. CASE \E claims : \E outcome \in Outcomes : Flush(claims, outcome)
      BY <1>1, <3>1, FlushPublishes
    <3>2. CASE Forget
      BY <3>2 DEF Forget, DomainInv, NilMeansPublished
    <3>3. CASE UNCHANGED domainVars
      BY <3>3 DEF domainVars, DomainInv, NilMeansPublished, Merged
    <3> QED BY <3>1, <3>2, <3>3, DomainSteps
  <2>4. DomainInv => NilMeansPublished
    BY DEF DomainInv
  <2> QED BY <2>2, <2>3, <2>4, PTL DEF DomainSpec
<1>2. CASE "unconfirmed" \in Outcomes
  BY <1>2
<1> QED BY <1>1, <1>2

\* No step takes a host off the ConfigMap that an app goes on claiming.
THEOREM SharedHostsKept == DomainSpec => SharedHostStays
<1>1. [DomainNext]_domainVars =>
        [\A a \in Apps : byApp'[a] # {} /\ byApp'[a] = byApp[a]
           => byApp[a] \cap configMap \subseteq configMap']_domainVars
  <2> SUFFICES ASSUME DomainNext, NEW a \in Apps, byApp'[a] = byApp[a]
               PROVE  byApp[a] \cap configMap \subseteq configMap'
    OBVIOUS
  <2>1. CASE \E claims : \E outcome \in Outcomes : Flush(claims, outcome)
    <3>1. PICK claims : \E outcome \in Outcomes : Flush(claims, outcome)
      BY <2>1
    <3>2. configMap' = configMap \/ configMap' = Merged(claims)
      BY <3>1 DEF Flush
    <3>3. byApp[a] \subseteq Merged(claims)
      BY <3>1 DEF Flush, Merged
    <3> QED BY <3>2, <3>3
  <2>2. CASE Forget
    BY <2>2 DEF Forget
  <2> QED BY <2>1, <2>2, DomainSteps
<1> QED BY <1>1, PTL DEF DomainSpec, SharedHostStays

-----------------------------------------------------------------------------
(* app-service as the caller *)

\* A record belongs to the app under whose name it is stored, used and listed,
\* and hosts that wait to be claimed are those of the record's app.
Owned ==
  /\ \A a \in Apps : apps[a] # None => AppOf(apps[a]) = a
  /\ \A r \in Reqs : req[r].pc \in Busy => AppOf(req[r].rec) = req[r].app
  /\ \A r \in Reqs : req[r].pc = "claim" => req[r].hosts \in ClaimsOf(req[r].app)
  /\ \A x, y \in boot.recs : AppOf(x) = AppOf(y) => x = y

\* What the step of a request that is at work does to all this.
OwnStep(r) ==
  /\ \A x \in Reqs : x # r => req'[x] = req[x]
  /\ req'[r].app = req[r].app
  /\ req'[r].pc \in Busy => req[r].pc \in Busy /\ req'[r].rec = req[r].rec
  /\ req'[r].pc = "claim" => req'[r].hosts \in ClaimsOf(req[r].app)
  /\ \/ UNCHANGED apps
     \/ \E p \in {None, req[r].rec} : apps' = [apps EXCEPT ![req[r].app] = p]
  /\ UNCHANGED boot
  /\ DomainNext \/ UNCHANGED domainVars

LEMMA GotoOwn ==
  ASSUME TypeOK, NEW r \in Reqs, req[r].pc \in Busy, NEW pc \in (Busy \ {"claim"}) \cup {"done"},
         Goto(r, pc)
  PROVE  /\ \A x \in Reqs : x # r => req'[x] = req[x]
         /\ req'[r].app = req[r].app
         /\ req'[r].pc \in Busy => req'[r].rec = req[r].rec
         /\ req'[r].pc # "claim"
<1>1. req[r] \in Request0 /\ req \in [Reqs -> Request0]
  BY DEF TypeOK, RequestsOK
<1>2. "claim" # "done" /\ "done" \notin Busy
  BY Steps
<1> QED BY <1>1, <1>2 DEF Goto, Ended, Unused, Request0

\* The hosts of a record of an app are among those the app can claim.
LEMMA HostsOwned ==
  ASSUME NEW a \in Apps, NEW p \in BOOLEAN, NEW q \in BOOLEAN
  PROVE  HostsFor(a, p, q) \in ClaimsOf(a) /\ {} \in ClaimsOf(a)
BY DEF ClaimsOf

LEMMA PutOwn ==
  ASSUME TypeOK, NEW r \in Reqs, req[r].pc \in Busy, NEW pc \in (Busy \ {"claim"}) \cup {"done"},
         Goto(r, pc), NEW p \in {None, req[r].rec}, apps' = [apps EXCEPT ![req[r].app] = p],
         UNCHANGED OutsideStore
  PROVE  OwnStep(r)
BY GotoOwn DEF OwnStep, OutsideStore

LEMMA BecomesOwn ==
  ASSUME TypeOK, NEW r \in Reqs, req[r].pc \in Busy, NEW pc \in (Busy \ {"claim"}) \cup {"done"},
         Goto(r, pc), NEW s, Becomes(r, s), UNCHANGED OutsideStore
  PROVE  OwnStep(r)
BY PutOwn DEF Becomes, SetState, Put

LEMMA CommandOwn ==
  ASSUME TypeOK, NEW r \in Reqs, req[r].pc \in Busy, NEW pc \in (Busy \ {"claim"}) \cup {"done"},
         Goto(r, pc), UNCHANGED OutsideCluster
  PROVE  OwnStep(r)
BY GotoOwn DEF OwnStep, OutsideCluster, storeVars

LEMMA InstallOwn ==
  ASSUME TypeOK, Owned, NEW r \in Reqs, InstallWorks(r)
  PROVE  OwnStep(r)
<1> USE Steps
<1>0. req[r].pc \in Busy /\ req[r].app \in Apps /\ req[r].pc \in InstallSteps /\ req[r].rec = r
  BY DEF InstallWorks, InstallCleans, InstallCreates, InstallDownloads, InstallFetches,
         InstallPrepares, InstallGivesUp, InstallPurges, HelmStarts, HelmRefuses, HelmSucceeds,
         HelmBreaks, InstallCleansUp, InstallRuns, InstallRegisters, At, InstallSteps, Busy,
         TypeOK, RequestsOK
<1>1. CASE InstallCleans(r)
  BY <1>0, <1>1, PutOwn DEF InstallCleans, Delete, InstallSteps
<1>2. CASE InstallCreates(r)
  <2>1. PICK outcome \in SaveOutcomes :
          /\ Put(req[r].app, r, [Blank EXCEPT !.state = "Pending"], outcome)
          /\ Goto(r, IF outcome = "ok" THEN "download" ELSE "done")
    BY <1>2 DEF InstallCreates
  <2>2. (IF outcome = "ok" THEN "download" ELSE "done") \in (Busy \ {"claim"}) \cup {"done"}
    BY DEF InstallSteps
  <2> QED BY <1>0, <1>2, <2>1, <2>2, PutOwn DEF InstallCreates, Put
<1>3. CASE InstallDownloads(r)
  BY <1>0, <1>3, BecomesOwn DEF InstallDownloads, InstallSteps
<1>4. CASE InstallFetches(r)
  BY <1>0, <1>4, PutOwn DEF InstallFetches, Put, InstallSteps
<1>5. CASE InstallPrepares(r)
  BY <1>0, <1>5, BecomesOwn DEF InstallPrepares, InstallSteps
<1>6. CASE InstallGivesUp(r)
  BY <1>0, <1>6, BecomesOwn DEF InstallGivesUp
<1>7. CASE InstallPurges(r) \/ HelmStarts(r) \/ HelmRefuses(r) \/ HelmSucceeds(r)
           \/ HelmBreaks(r) \/ InstallCleansUp(r)
  BY <1>0, <1>7, CommandOwn
  DEF InstallPurges, HelmStarts, HelmRefuses, HelmSucceeds, HelmBreaks, InstallCleansUp,
      Commands, InstallSteps
<1>8. CASE InstallRuns(r)
  BY <1>0, <1>8, BecomesOwn DEF InstallRuns, InstallSteps
<1>9. CASE InstallRegisters(r)
  <2>1. req' = [req EXCEPT ![r] = [@ EXCEPT !.pc = "claim", !.hosts = HostsOf(r)]]
        /\ UNCHANGED OutsideCluster
    BY <1>9, <1>0 DEF InstallRegisters
  <2>2. HostsOf(r) \in ClaimsOf(req[r].app)
    <3>1. heap[r].entered \in BOOLEAN /\ heap[r].public \in BOOLEAN
      BY LifecycleAssumption DEF TypeOK, StoreTypeOK, AppRecord
    <3>2. AppOf(r) = req[r].app
      BY <1>0 DEF Owned
    <3> QED BY <1>0, <3>1, <3>2, HostsOwned DEF HostsOf
  <2>3. req \in [Reqs -> Request0]
    BY DEF TypeOK, RequestsOK
  <2> QED BY <1>0, <2>1, <2>2, <2>3 DEF OwnStep, OutsideCluster, storeVars, Request0
<1> QED BY <1>1, <1>2, <1>3, <1>4, <1>5, <1>6, <1>7, <1>8, <1>9 DEF InstallWorks

LEMMA UninstallOwn ==
  ASSUME TypeOK, NEW r \in Reqs, UninstallWorks(r)
  PROVE  OwnStep(r)
<1> USE Steps
<1>0. req[r].pc \in Busy /\ req[r].app \in Apps
  BY DEF UninstallWorks, UninstallMarks, UninstallSucceeds, UninstallFails, UninstallGivesUp,
         UninstallCollects, UninstallDeregisters, UninstallUnclaims, UninstallFinishes,
         UninstallForgets, At, UninstallSteps, Busy, TypeOK, RequestsOK
<1>1. CASE UninstallMarks(r)
  <2>1. PICK outcome \in SaveOutcomes :
          /\ SetState(r, "Uninstalling", outcome)
          /\ Goto(r, IF outcome = "ok" THEN "helmUninstall" ELSE "done")
    BY <1>1 DEF UninstallMarks
  <2>2. (IF outcome = "ok" THEN "helmUninstall" ELSE "done") \in (Busy \ {"claim"}) \cup {"done"}
    BY DEF UninstallSteps
  <2> QED BY <1>0, <1>1, <2>1, <2>2, PutOwn DEF UninstallMarks, SetState, Put
<1>2. CASE UninstallSucceeds(r) \/ UninstallFails(r) \/ UninstallCollects(r) \/ UninstallDeregisters(r)
  BY <1>0, <1>2, CommandOwn
  DEF UninstallSucceeds, UninstallFails, UninstallCollects, UninstallDeregisters, Commands,
      UninstallSteps
<1>3. CASE UninstallGivesUp(r)
  BY <1>0, <1>3, BecomesOwn DEF UninstallGivesUp
<1>4. CASE UninstallUnclaims(r)
  <2>1. SyncSome
    BY <1>0, <1>4, HostsOwned DEF UninstallUnclaims, SyncSome
  <2>2. Goto(r, "finish") /\ "finish" \in Busy \ {"claim"}
    BY <1>4 DEF UninstallUnclaims, UninstallSteps
  <2> QED BY <1>0, <1>4, <2>1, <2>2, GotoOwn DEF UninstallUnclaims, OwnStep, DomainNext, storeVars
<1>5. CASE UninstallFinishes(r)
  <2>1. (IF For(r, {"wipe"}) THEN "forget" ELSE "done") \in (Busy \ {"claim"}) \cup {"done"}
    BY DEF UninstallSteps
  <2> QED BY <1>0, <1>5, <2>1, BecomesOwn DEF UninstallFinishes
<1>6. CASE UninstallForgets(r)
  BY <1>0, <1>6, PutOwn DEF UninstallForgets, Delete
<1> QED BY <1>1, <1>2, <1>3, <1>4, <1>5, <1>6 DEF UninstallWorks

LEMMA ScaleOwn ==
  ASSUME TypeOK, NEW r \in Reqs, ScaleWorks(r)
  PROVE  OwnStep(r)
<1> USE Steps
<1>0. req[r].pc \in Busy
  BY DEF ScaleWorks, ScaleMarks, ScaleSucceeds, ScaleGivesUp, ScaleSettles, ScaleFailed, At,
         ScaleSteps
<1>1. CASE ScaleMarks(r)
  <2>1. PICK outcome \in SaveOutcomes :
          /\ SetState(r, IF For(r, {"suspend"}) THEN "Stopping" ELSE "Resuming", outcome)
          /\ Goto(r, IF outcome = "ok" THEN "scale" ELSE "done")
    BY <1>1 DEF ScaleMarks
  <2>2. (IF outcome = "ok" THEN "scale" ELSE "done") \in (Busy \ {"claim"}) \cup {"done"}
    BY DEF ScaleSteps
  <2> QED BY <1>0, <1>1, <2>1, <2>2, PutOwn DEF ScaleMarks, SetState, Put
<1>2. CASE ScaleSucceeds(r) \/ ScaleGivesUp(r)
  BY <1>0, <1>2, CommandOwn DEF ScaleSucceeds, ScaleGivesUp, Commands, ScaleSteps
<1>3. CASE ScaleSettles(r)
  BY <1>0, <1>3, BecomesOwn DEF ScaleSettles
<1>4. CASE ScaleFailed(r)
  BY <1>0, <1>4, BecomesOwn DEF ScaleFailed
<1> QED BY <1>1, <1>2, <1>3, <1>4 DEF ScaleWorks

LEMMA ToggleOwn ==
  ASSUME TypeOK, NEW r \in Reqs, Toggles(r) \/ Claims(r), Owned
  PROVE  OwnStep(r)
<1> USE Steps
<1>0. /\ req[r].pc \in Busy /\ req[r].app \in Apps /\ req[r].rec \in Recs
      /\ req \in [Reqs -> Request0]
  BY DEF Toggles, Claims, At, ToggleSteps, TypeOK, RequestsOK, Pointers
<1>1. CASE Toggles(r)
  <2> DEFINE new == [heap[req[r].rec] EXCEPT !.public = (req[r].kind = "publish")]
             hosts == HostsFor(req[r].app, new.entered, new.public)
  <2>1. heap[req[r].rec] \in AppRecord
    BY <1>0 DEF TypeOK, StoreTypeOK
  <2>2. new.entered \in BOOLEAN /\ new.public \in BOOLEAN
    BY <2>1 DEF AppRecord
  <2>3. hosts \in ClaimsOf(req[r].app)
    BY <1>0, <2>2, HostsOwned
  <2>4. /\ req' = [req EXCEPT ![r] = [@ EXCEPT !.pc = "claim", !.hosts = hosts]]
        /\ apps' = [apps EXCEPT ![req[r].app] = req[r].rec]
        /\ UNCHANGED OutsideStore
    BY <1>1 DEF Toggles, Put
  <2> HIDE DEF new, hosts
  <2> QED BY <1>0, <2>3, <2>4 DEF OwnStep, OutsideStore, Request0
<1>2. CASE Claims(r)
  <2>1. SyncSome
    BY <1>0, <1>2 DEF Claims, SyncSome, Owned, At
  <2> QED BY <1>0, <1>2, <2>1, GotoOwn DEF Claims, OwnStep, DomainNext, storeVars
<1> QED BY <1>1, <1>2

\* A record never changes its app while anybody may hold a pointer to it.
LEMMA OwnStepOwned ==
  ASSUME TypeOK, Owned, NEW r \in Reqs, req[r].pc \in Busy, OwnStep(r)
  PROVE  Owned'
<1>1. \A rec \in Recs : (IF rec \in Apps THEN rec ELSE req'[rec].app) = AppOf(rec)
  BY LifecycleAssumption DEF AppOf, OwnStep
<1>2. /\ \A a \in Apps : apps[a] # None => apps[a] \in Recs
      /\ \A q \in Reqs : req[q].pc \in Busy => req[q].rec \in Recs /\ req[q].app \in Apps
      /\ boot.recs \subseteq Recs
  BY Steps DEF TypeOK, StoreTypeOK, RequestsOK, BootOK, Pointers
<1>3. ASSUME NEW a \in Apps, apps'[a] # None
      PROVE  apps'[a] \in Recs /\ AppOf(apps[a])' = a
  <2>1. (apps'[a] = apps[a] /\ apps[a] # None) \/ (a = req[r].app /\ apps'[a] = req[r].rec)
    BY <1>3 DEF OwnStep, TypeOK, StoreTypeOK
  <2>2. \E rec \in Recs : apps'[a] = rec /\ AppOf(rec) = a
    BY <1>2, <2>1 DEF Owned
  <2> QED BY <1>1, <2>2 DEF AppOf
<1>4. ASSUME NEW q \in Reqs, req'[q].pc \in Busy
      PROVE  AppOf(req[q].rec)' = req'[q].app
  <2>1. req[q].pc \in Busy /\ req'[q].rec = req[q].rec /\ req'[q].app = req[q].app
    BY <1>4 DEF OwnStep
  <2>2. \E rec \in Recs : req'[q].rec = rec /\ AppOf(rec) = req'[q].app
    BY <1>2, <2>1 DEF Owned
  <2> QED BY <1>1, <2>2 DEF AppOf
<1>5. \A q \in Reqs : req'[q].pc = "claim" => req'[q].hosts \in ClaimsOf(req'[q].app)
  BY DEF OwnStep, Owned
<1>6. ASSUME NEW x \in boot'.recs, NEW y \in boot'.recs, AppOf(x)' = AppOf(y)'
      PROVE  x = y
  <2>1. x \in boot.recs /\ y \in boot.recs /\ x \in Recs /\ y \in Recs
    BY <1>2 DEF OwnStep
  <2>2. AppOf(x) = AppOf(y)
    BY <1>1, <1>6, <2>1 DEF AppOf
  <2> QED BY <2>1, <2>2 DEF Owned
<1> QED BY <1>3, <1>4, <1>5, <1>6 DEF Owned, ClaimsOf

LEMMA RequestOwned ==
  ASSUME TypeOK, Owned, NEW r \in Reqs, NEW a \in Apps, Request(r, a)
  PROVE  Owned' /\ UNCHANGED domainVars
<1>1. PICK kind \in AllKinds, pc \in Busy :
        /\ Starts(r, kind, a, pc)
        /\ pc # "claim"
        /\ kind # "install" => apps[a] # None
  BY DEF Request, RequestInstall, RequestUninstall, RequestSuspend, RequestResume,
         RequestToggle, AllKinds, Busy, InstallSteps, UninstallSteps, ScaleSteps, ToggleSteps
<1>2. /\ UNCHANGED <<apps, boot, domainVars>> /\ req[r].pc = "new"
      /\ \A q \in Reqs : q # r => req'[q] = req[q]
      /\ req'[r].pc = pc /\ req'[r].app = a
      /\ req'[r].rec = IF kind = "install" THEN r ELSE apps[a]
  BY <1>1 DEF Starts, At, OutsideStore, storeVars, TypeOK, RequestsOK, Request0
<1>3. /\ \A b \in Apps : apps[b] # None => apps[b] \in Pointers
      /\ \A q \in Reqs : req[q].pc \in Busy => req[q].rec \in Pointers
      /\ boot.recs \subseteq Pointers
  BY DEF TypeOK, RequestsOK, BootOK
<1>4. r \notin Pointers /\ r \notin Apps
  BY <1>2, LifecycleAssumption DEF Pointers
<1>5. \A rec \in Pointers : (IF rec \in Apps THEN rec ELSE req'[rec].app) = AppOf(rec)
  BY <1>2, <1>4, LifecycleAssumption DEF AppOf, Pointers
<1>6. ASSUME NEW b \in Apps, apps'[b] # None
      PROVE  AppOf(apps[b])' = b
  <2>1. \E rec \in Pointers : apps'[b] = rec /\ AppOf(rec) = b
    BY <1>2, <1>3, <1>6 DEF Owned
  <2> QED BY <1>5, <2>1 DEF AppOf
<1>7. ASSUME NEW q \in Reqs, req'[q].pc \in Busy
      PROVE  AppOf(req[q].rec)' = req'[q].app
  <2>1. CASE q # r
    <3>1. \E rec \in Pointers : req'[q].rec = rec /\ AppOf(rec) = req'[q].app
      BY <1>2, <1>3, <1>7, <2>1 DEF Owned
    <3> QED BY <1>5, <3>1 DEF AppOf
  <2>2. CASE q = r /\ kind = "install"
    BY <1>2, <1>4, <2>2 DEF AppOf
  <2>3. CASE q = r /\ kind # "install"
    <3>1. \E rec \in Pointers : req'[q].rec = rec /\ AppOf(rec) = req'[q].app
      BY <1>1, <1>2, <1>3, <2>3 DEF Owned
    <3> QED BY <1>5, <3>1 DEF AppOf
  <2> QED BY <2>1, <2>2, <2>3
<1>8. \A q \in Reqs : req'[q].pc = "claim" => req'[q].hosts \in ClaimsOf(req'[q].app)
  BY <1>1, <1>2 DEF Owned
<1>9. ASSUME NEW x \in boot'.recs, NEW y \in boot'.recs, AppOf(x)' = AppOf(y)'
      PROVE  x = y
  <2>1. AppOf(x) = AppOf(y) /\ x \in boot.recs /\ y \in boot.recs
    BY <1>2, <1>3, <1>5, <1>9 DEF AppOf
  <2> QED BY <2>1 DEF Owned
<1> QED BY <1>2, <1>6, <1>7, <1>8, <1>9 DEF Owned, ClaimsOf

LEMMA SyncOwned ==
  ASSUME TypeOK, Owned, SyncStep
  PROVE  Owned' /\ UNCHANGED domainVars
<1>1. UNCHANGED <<req, boot, domainVars>>
  BY DEF SyncStep, SyncLists, SyncReads, SyncDecides, SyncWrites, OutsideSync
<1>2. UNCHANGED apps \/ \E rec \in Recs : apps' = [apps EXCEPT ![AppOf(rec)] = rec]
  <2>1. CASE SyncWrites
    <3>1. sync.rec \in Recs
      BY <2>1 DEF SyncWrites, TypeOK, SyncOK, Pointers
    <3> QED BY <2>1, <3>1 DEF SyncWrites, Put
  <2>2. CASE ~SyncWrites
    BY <2>2 DEF SyncStep, SyncLists, SyncReads, SyncDecides, storeVars
  <2> QED BY <2>1, <2>2
<1>3. \A a \in Apps : apps'[a] # None => AppOf(apps'[a]) = a
  BY <1>2 DEF Owned, TypeOK, StoreTypeOK
<1> QED BY <1>1, <1>3 DEF Owned, AppOf, ClaimsOf

LEMMA BootOwned ==
  ASSUME TypeOK, Owned, BootStep
  PROVE  Owned' /\ (DomainNext \/ UNCHANGED domainVars)
<1>1. UNCHANGED <<req, apps>>
  BY DEF BootStep, BootLists, BootMerges, storeVars
<1>2. CASE BootLists
  <2>1. boot'.recs = {apps[a] : a \in Apps} \ {None}
    BY <1>2 DEF BootLists
  <2>2. \A x, y \in boot'.recs : AppOf(x) = AppOf(y) => x = y
    BY <2>1 DEF Owned
  <2> QED BY <1>1, <1>2, <2>2 DEF BootLists, Owned, AppOf, ClaimsOf
<1>3. CASE BootMerges
  <2> DEFINE listed(a) == {x \in boot.recs : AppOf(x) = a /\ heap[x].state # "Uninstalled"}
             claims == [a \in Apps |-> UNION {HostsOf(rec) : rec \in listed(a)}]
  <2>1. PICK outcome \in Outcomes : Reconcile(claims, outcome)
    BY <1>3 DEF BootMerges
  <2>2. \A a \in Apps : claims[a] \in ClaimsOf(a)
    <3> SUFFICES ASSUME NEW a \in Apps PROVE claims[a] \in ClaimsOf(a)
      OBVIOUS
    <3>1. CASE listed(a) = {}
      <4>1. claims[a] = {}
        BY <3>1
      <4> QED BY <4>1 DEF ClaimsOf
    <3>2. CASE listed(a) # {}
      <4>1. PICK x \in boot.recs : listed(a) = {x} /\ AppOf(x) = a
        BY <3>2 DEF Owned
      <4>2. claims[a] = HostsOf(x)
        BY <4>1
      <4>3. heap[x].entered \in BOOLEAN /\ heap[x].public \in BOOLEAN
        BY DEF TypeOK, BootOK, Pointers, StoreTypeOK, AppRecord
      <4> QED BY <4>1, <4>2, <4>3, HostsOwned DEF HostsOf
    <3> QED BY <3>1, <3>2
  <2>3. claims \in AllClaims
    <3>1. \A a \in Apps : ClaimsOf(a) \subseteq SUBSET Hosts
      BY HostsType DEF ClaimsOf
    <3> HIDE DEF claims
    <3>2. claims \in [Apps -> SUBSET Hosts]
      <4>1. claims = [a \in Apps |-> claims[a]]
        BY DEF claims
      <4> QED BY <2>2, <3>1, <4>1
    <3> QED BY <2>2, <3>2 DEF AllClaims
  <2>4. ReconcileAll
    <3> HIDE DEF claims
    <3>1. byApp' = claims
      BY <2>1 DEF Reconcile, Flush
    <3> QED BY <2>1, <2>3, <3>1 DEF ReconcileAll
  <2>5. boot'.recs = {}
    BY <1>3 DEF BootMerges
  <2> QED BY <1>1, <2>4, <2>5 DEF DomainNext, Owned, AppOf, ClaimsOf
<1> QED BY <1>2, <1>3 DEF BootStep

LEMMA CrashOwned ==
  ASSUME TypeOK, Owned, Crash
  PROVE  Owned' /\ DomainNext
<1>1. DomainNext
  BY DEF Crash, DomainNext
<1>2. \A a \in Apps : apps'[a] # None => apps'[a] = a
  BY DEF Crash, Load, LoadedApps
<1>3. \A r \in Reqs : req'[r].pc \notin Busy /\ req'[r].pc # "claim"
  BY Steps DEF Crash, Ended, Unused, Working, TypeOK, RequestsOK
<1>4. boot'.recs = {}
  BY DEF Crash
<1> QED BY <1>1, <1>2, <1>3, <1>4 DEF Owned, AppOf

LEMMA InitOwned == Init => Owned /\ \E published \in SUBSET Hosts : DomainInit(published)
<1> SUFFICES ASSUME Init
             PROVE  Owned /\ \E published \in SUBSET Hosts : DomainInit(published)
  OBVIOUS
<1>1. \A a \in Apps : apps[a] # None => apps[a] = a
  BY DEF Init, StoreInit, LoadedApps
<1>2. /\ \A r \in Reqs : req[r].pc \notin Busy /\ req[r].pc # "claim"
      /\ boot.recs = {}
  BY Steps DEF Init, Unused
<1>3. PICK installed \in SUBSET Apps : \E open \in SUBSET (installed \cap Toggled) :
        DomainInit(UNION {HostsFor(a, TRUE, a \in open) : a \in installed})
  BY DEF Init
<1>4. PICK open \in SUBSET (installed \cap Toggled) :
        DomainInit(UNION {HostsFor(a, TRUE, a \in open) : a \in installed})
  BY <1>3
<1>5. UNION {HostsFor(a, TRUE, a \in open) : a \in installed} \in SUBSET Hosts
  <2>1. \A a \in installed : HostsFor(a, TRUE, a \in open) \in SUBSET Hosts
    BY DomainAssumption DEF HostsFor, HostsAt
  <2> QED BY <2>1
<1> QED BY <1>1, <1>2, <1>4, <1>5 DEF Owned, AppOf

LEMMA WorkOwned ==
  ASSUME TypeOK, Owned, NEW r \in Reqs, Work(r)
  PROVE  Owned' /\ (DomainNext \/ UNCHANGED domainVars)
<1>1. OwnStep(r)
  BY InstallOwn, UninstallOwn, ScaleOwn, ToggleOwn DEF Work
<1>2. req[r].pc \in Busy
  BY Steps DEF Work, InstallWorks, UninstallWorks, ScaleWorks, Toggles, Claims, At,
         InstallCleans, InstallCreates, InstallDownloads, InstallFetches,
         InstallPrepares, InstallGivesUp, InstallPurges, HelmStarts, HelmRefuses, HelmSucceeds,
         HelmBreaks, InstallCleansUp, InstallRuns, InstallRegisters, UninstallMarks,
         UninstallSucceeds, UninstallFails, UninstallGivesUp, UninstallCollects,
         UninstallDeregisters, UninstallUnclaims, UninstallFinishes, UninstallForgets,
         ScaleMarks, ScaleSucceeds, ScaleGivesUp, ScaleSettles, ScaleFailed,
         InstallSteps, UninstallSteps, ScaleSteps, ToggleSteps
<1>3. Owned'
  BY <1>1, <1>2, OwnStepOwned
<1> QED BY <1>1, <1>3 DEF OwnStep

\* app-service is a legal caller: for any apps, requests, failures and restarts,
\* every step of it flushes hosts that the apps' manifests allow, restarts the
\* component, or leaves it alone.
THEOREM CallsAreLegal == Spec => DomainSpec
<1>1. TypeOK /\ Owned /\ [Next]_vars => Owned' /\ [DomainNext]_domainVars
  <2> SUFFICES ASSUME TypeOK, Owned, [Next]_vars PROVE Owned' /\ [DomainNext]_domainVars
    OBVIOUS
  <2>1. CASE UNCHANGED vars
    BY <2>1 DEF vars, storeVars, domainVars, Owned, AppOf, ClaimsOf
  <2> QED BY <2>1, WorkOwned, RequestOwned, SyncOwned, BootOwned, CrashOwned DEF Next
<1> QED BY <1>1, InitOwned, TypeCorrect, PTL DEF Spec, DomainSpec

\* So what holds of the public domains under any caller holds in app-service.
THEOREM PublishedIsKept ==
  Spec => SharedHostStays /\ ("unconfirmed" \notin Outcomes => []NilMeansPublished)
<1>1. CASE "unconfirmed" \notin Outcomes
  <2>1. DomainSpec => []NilMeansPublished
    BY <1>1, NilIsTrue
  <2> QED BY <2>1, CallsAreLegal, SharedHostsKept, PTL
<1>2. CASE "unconfirmed" \in Outcomes
  BY <1>2, CallsAreLegal, SharedHostsKept
<1> QED BY <1>1, <1>2
=============================================================================
