---------------------------- MODULE ServiceProofs ----------------------------
(***************************************************************************)
(* Proofs about the components that keep data of their own: restarts of    *)
(* workloads, the database of an app, the market's catalog and the models; *)
(* about what bfl and auth keep in their ConfigMaps and annotations: the   *)
(* sessions, the owner's setup and the network; and about the blocking of  *)
(* an app's internet; for any names, requests, failures and restarts.      *)
(***************************************************************************)
EXTENDS MCPlatform, WellFoundedInduction, TLAPS

\* A step of the platform is a step of each component, or leaves it alone.
LEMMA ServiceSteps ==
  ASSUME [PlatformNext]_platformVars
  PROVE  /\ [UpdatesNext]_updateVars /\ [DatabaseNext]_dbVars /\ [CatalogNext]_catalogVars
         /\ [ModelsNext]_modelVars /\ [SessionsNext]_sessionVars /\ [SetupNext]_setupVars
         /\ [SwitchNext]_switchVars /\ [NetNext]_netVars
BY DEF PlatformNext, platformVars

-----------------------------------------------------------------------------
(* Restarts *)

RestartRuns(r) == restart[r].at \notin {"idle", "done"}

\* A copy that the API server would accept is the workload as it is; what Redis shows as
\* restarting has a request that goes on, or one that was cut off.
UpdatesInv ==
  /\ removed => template = None
  /\ ~removed => template # None /\ template.image = upgrades
  /\ \A r \in Restarters : restart[r].at \in {"delete", "update"} /\ restart[r].stored
       => restart[r].copy = template /\ template # None
  /\ entry = "restarting" => left \/ \E r \in Restarters : RestartRuns(r)

LEMMA UpdatesTypeStep ==
  ASSUME UpdatesTypeOK, UpdatesInv, [UpdatesNext]_updateVars
  PROVE  UpdatesTypeOK'
<1> USE UpdatesAssumption DEF UpdatesTypeOK
<1> DEFINE Restart == [at : {"idle", "get", "delete", "update", "pulling", "done"},
                       copy : {None} \cup Templates, stored : BOOLEAN]
<1>1. \A r \in Restarters :
        \A at \in {"idle", "get", "delete", "update", "pulling", "done"} :
          RestartGoes(r, at) => restart' \in [Restarters -> Restart]
  BY DEF RestartGoes
<1>2. Versioned(restart) \in [Restarters -> Restart] BY DEF Versioned
<1>3. ASSUME NEW r \in Restarters, RestartBegins(r) PROVE UpdatesTypeOK'
  <2>1. restart' \in [Restarters -> Restart] BY <1>1, <1>3 DEF RestartBegins
  <2>2. entry' \in {entry, "restarting"} BY <1>3 DEF RestartBegins
  <2> QED BY <1>3, <2>1, <2>2 DEF RestartBegins
<1>4. ASSUME NEW r \in Restarters, WorkloadRead(r) PROVE UpdatesTypeOK'
  BY <1>4 DEF WorkloadRead
<1>5. ASSUME NEW r \in Restarters, WorkloadUnknown(r) PROVE UpdatesTypeOK'
  <2>1. restart' \in [Restarters -> Restart] BY <1>1, <1>5 DEF WorkloadUnknown
  <2>2. entry' \in {entry, None} BY <1>5 DEF WorkloadUnknown, Records
  <2> QED BY <1>5, <2>1, <2>2 DEF WorkloadUnknown
<1>6. ASSUME NEW r \in Restarters, PodsDeleted(r) PROVE UpdatesTypeOK'
  BY <1>1, <1>6 DEF PodsDeleted
<1>7. ASSUME NEW r \in Restarters, TemplateUpdated(r) PROVE UpdatesTypeOK'
  <2>1. restart[r].copy \in Templates BY <1>7 DEF TemplateUpdated, Accepts, UpdatesInv
  <2>2. template' \in Templates BY <1>7, <2>1 DEF TemplateUpdated, Templates
  <2>3. restart' \in [Restarters -> Restart] BY <1>2, <1>7 DEF TemplateUpdated
  <2> QED BY <1>7, <2>2, <2>3 DEF TemplateUpdated
<1>8. ASSUME NEW r \in Restarters, UpdateRefused(r) PROVE UpdatesTypeOK'
  <2>1. restart' \in [Restarters -> Restart] BY <1>1, <1>8 DEF UpdateRefused
  <2>2. entry' \in {entry, "failed"} BY <1>8 DEF UpdateRefused, Records
  <2> QED BY <1>8, <2>1, <2>2 DEF UpdateRefused
<1>9. ASSUME NEW r \in Restarters, PullingRecorded(r) PROVE UpdatesTypeOK'
  <2>1. restart' \in [Restarters -> Restart] BY <1>1, <1>9 DEF PullingRecorded
  <2>2. entry' \in {entry, "pulling"} BY <1>9 DEF PullingRecorded, Records
  <2> QED BY <1>9, <2>1, <2>2 DEF PullingRecorded
<1>10. ASSUME NEW r \in Restarters, RestartCutOff(r) PROVE UpdatesTypeOK'
  BY <1>1, <1>10 DEF RestartCutOff
<1>11. ASSUME NEW l \in Lists, PodsListed(l) \/ EntriesListed(l) \/ ListAnswered(l)
       PROVE UpdatesTypeOK'
  BY <1>11 DEF PodsListed, EntriesListed, ListAnswered
<1>12. ASSUME EntryExpires \/ PodsMove \/ WorkloadRemoved PROVE UpdatesTypeOK'
  BY <1>2, <1>12 DEF EntryExpires, PodsMove, WorkloadRemoved
<1>13. ASSUME ChartUpgraded \/ WorkloadInstalled PROVE UpdatesTypeOK'
  <2>1. upgrades' \in Nat BY <1>13 DEF ChartUpgraded, WorkloadInstalled
  <2>2. CASE ChartUpgraded
    <3>1. template' \in Templates BY <2>1, <2>2 DEF ChartUpgraded, Templates
    <3> QED BY <1>2, <2>1, <2>2, <3>1 DEF ChartUpgraded
  <2>3. CASE WorkloadInstalled
    <3>1. template' \in Templates BY <2>1, <2>3 DEF WorkloadInstalled, Templates
    <3> QED BY <2>1, <2>3, <3>1 DEF WorkloadInstalled
  <2> QED BY <1>13, <2>2, <2>3
<1>14. CASE UNCHANGED updateVars BY <1>14 DEF updateVars
<1> QED
  BY <1>3, <1>4, <1>5, <1>6, <1>7, <1>8, <1>9, <1>10, <1>11, <1>12, <1>13, <1>14 DEF UpdatesNext

\* A request that goes on keeps its copy, and whether that is still stored.
LEMMA RestartMoved ==
  ASSUME UpdatesTypeOK, NEW r \in Restarters,
         NEW at \in {"get", "delete", "update", "pulling", "done"}, RestartGoes(r, at)
  PROVE  /\ restart'[r].at = at
         /\ restart'[r].copy = restart[r].copy /\ restart'[r].stored = restart[r].stored
         /\ \A o \in Restarters \ {r} : restart'[o] = restart[o]
BY DEF UpdatesTypeOK, RestartGoes

LEMMA UpdatesInvStep ==
  ASSUME UpdatesTypeOK, UpdatesInv, [UpdatesNext]_updateVars
  PROVE  UpdatesInv'
<1> USE UpdatesAssumption DEF UpdatesInv, RestartRuns
<1>1. ASSUME NEW r \in Restarters, RestartBegins(r) PROVE UpdatesInv'
  BY <1>1, RestartMoved DEF RestartBegins
<1>2. ASSUME NEW r \in Restarters, WorkloadRead(r) PROVE UpdatesInv'
  BY <1>2 DEF WorkloadRead, UpdatesTypeOK
<1>3. ASSUME NEW r \in Restarters, WorkloadUnknown(r) PROVE UpdatesInv'
  BY <1>3, RestartMoved DEF WorkloadUnknown, Records
<1>4. ASSUME NEW r \in Restarters, PodsDeleted(r) PROVE UpdatesInv'
  BY <1>4, RestartMoved DEF PodsDeleted
<1>5. ASSUME NEW r \in Restarters, TemplateUpdated(r) PROVE UpdatesInv'
  <2>1. restart[r].copy = template /\ template \in Templates
    BY <1>5 DEF TemplateUpdated, Accepts, UpdatesTypeOK
  <2>2. ~removed' /\ template' # None /\ template'.image = upgrades'
    BY <1>5, <2>1 DEF TemplateUpdated, Templates
  <2>3. \A o \in Restarters : restart'[o].stored = FALSE
    BY <1>5 DEF TemplateUpdated, Versioned, UpdatesTypeOK
  <2>4. restart'[r].at = "pulling" BY <1>5 DEF TemplateUpdated, Versioned, UpdatesTypeOK
  <2> QED BY <2>2, <2>3, <2>4
<1>6. ASSUME NEW r \in Restarters, UpdateRefused(r) PROVE UpdatesInv'
  BY <1>6, RestartMoved DEF UpdateRefused, Records
<1>7. ASSUME NEW r \in Restarters, PullingRecorded(r) PROVE UpdatesInv'
  BY <1>7, RestartMoved DEF PullingRecorded, Records
<1>8. ASSUME NEW r \in Restarters, RestartCutOff(r) PROVE UpdatesInv'
  BY <1>8, RestartMoved DEF RestartCutOff
<1>9. ASSUME NEW l \in Lists, PodsListed(l) \/ EntriesListed(l) \/ ListAnswered(l)
      PROVE UpdatesInv'
  BY <1>9 DEF PodsListed, EntriesListed, ListAnswered
<1>10. CASE EntryExpires BY <1>10 DEF EntryExpires
<1>11. ASSUME PodsMove \/ ChartUpgraded \/ WorkloadRemoved PROVE UpdatesInv'
  <2>1. \A r \in Restarters : restart'[r].stored = FALSE /\ restart'[r].at = restart[r].at
    BY <1>11 DEF PodsMove, ChartUpgraded, WorkloadRemoved, Versioned, UpdatesTypeOK
  <2>2. UNCHANGED <<entry, left>> BY <1>11 DEF PodsMove, ChartUpgraded, WorkloadRemoved
  <2>3. CASE PodsMove BY <2>1, <2>2, <2>3 DEF PodsMove
  <2>4. CASE ChartUpgraded
    <3>1. template \in Templates BY <2>4 DEF ChartUpgraded, UpdatesTypeOK
    <3>2. template' # None /\ template'.image = upgrades' /\ ~removed'
      BY <2>4, <3>1 DEF ChartUpgraded, Templates, UpdatesTypeOK
    <3> QED BY <2>1, <2>2, <3>2
  <2>5. CASE WorkloadRemoved BY <2>1, <2>2, <2>5 DEF WorkloadRemoved
  <2> QED BY <1>11, <2>3, <2>4, <2>5
<1>12. CASE WorkloadInstalled
  <2>1. template' \in Templates /\ template'.image = upgrades' /\ ~removed'
    BY <1>12 DEF WorkloadInstalled, Templates, UpdatesTypeOK
  <2>2. \A r \in Restarters : restart[r].at \in {"delete", "update"} => ~restart[r].stored
    BY <1>12 DEF WorkloadInstalled
  <2> QED BY <1>12, <2>1, <2>2 DEF WorkloadInstalled
<1>13. CASE UNCHANGED updateVars BY <1>13 DEF updateVars
<1> QED
  BY <1>1, <1>2, <1>3, <1>4, <1>5, <1>6, <1>7, <1>8, <1>9, <1>10, <1>11, <1>12, <1>13
  DEF UpdatesNext

(***************************************************************************)
(* Restarts settle, for any requests, lists, upgrades, installs and        *)
(* refusals: no restart undoes an upgrade, a removed workload stays so     *)
(* until it is installed again, and none is shown as restarting for ever   *)
(* unless a request was cut off or its last write to Redis failed.  What   *)
(* carries it is the version check of the API server: a copy it accepts is *)
(* current.                                                                *)
(***************************************************************************)
THEOREM RestartsAreSafe == PlatformSpec => []RestartsSettle
<1> DEFINE Inv == UpdatesTypeOK /\ UpdatesInv
<1>1. ASSUME PlatformInit PROVE Inv
  <2>1. UpdatesInit BY <1>1 DEF PlatformInit
  <2>2. template \in Templates /\ template # None /\ template.image = upgrades /\ ~removed
    BY <2>1, UpdatesAssumption DEF UpdatesInit, Templates
  <2>3. \A r \in Restarters : restart[r] = Untouched BY <2>1 DEF UpdatesInit
  <2>4. UpdatesTypeOK
    <3>1. upgrades \in Nat /\ removed \in BOOLEAN /\ entry = None /\ pods = "running"
      BY <2>1 DEF UpdatesInit
    <3>2. Untouched \in [at : {"idle", "get", "delete", "update", "pulling", "done"},
                         copy : {None} \cup Templates, stored : BOOLEAN]
      BY DEF Untouched
    <3>3. restart \in [Restarters ->
            [at : {"idle", "get", "delete", "update", "pulling", "done"},
             copy : {None} \cup Templates, stored : BOOLEAN]]
      BY <2>1, <3>2 DEF UpdatesInit
    <3> QED BY <2>2, <3>1, <3>3 DEF UpdatesTypeOK
  <2>5. UpdatesInv
    BY <2>1, <2>2, <2>3, UpdatesAssumption DEF UpdatesInit, Untouched, UpdatesInv
  <2> QED BY <2>4, <2>5
<1>2. Inv /\ [PlatformNext]_platformVars => Inv'
  BY ServiceSteps, UpdatesTypeStep, UpdatesInvStep
<1>3. Inv => RestartsSettle BY DEF UpdatesInv, RestartsSettle, RestartRuns
<1> QED BY <1>1, <1>2, <1>3, PTL DEF PlatformSpec

-----------------------------------------------------------------------------
(* The database of an app *)

Has(i, a) == install[i] # None /\ install[i].app = a

\* These credentials open the app's database.
Unlocks(a, creds) ==
  creds # Admin => /\ creds.role \in Roles
                   /\ rolePassword[creds.role] = creds.pass /\ dbOwner[a] = creds.role

\* An install has a role before it looks for one's database, and credentials of that role.
InstallJobOK(work) ==
  /\ work.at \in {"role", "look", "own", "create"} => work.role \in Roles
  /\ work.creds # Admin => work.role \in Roles /\ work.creds.role = work.role

\* What an install has put in place before its next step.
InstallJobHolds(a, work) ==
  /\ work.at \in {"look", "own", "create"} => rolePassword[work.role] = work.pass
  /\ work.at \in {"inject", "remove", "helm"} => Unlocks(a, work.creds)
  /\ work.at \in {"remove", "helm"} => chartValues[a] \in {None, {work.creds}}
  /\ work.at \notin {"remove", "helm"} => chartValues[a] \in {None, {}}

AppServed(a) ==
  /\ \A i, j \in Installs : Has(i, a) /\ Has(j, a) => i = j
  /\ \A i \in Installs : Has(i, a) => InstallJobHolds(a, install[i])
  /\ (\A i \in Installs : ~Has(i, a)) /\ release[a] # None => Unlocks(a, release[a])

DatabaseInv ==
  /\ \A i \in Installs : install[i] # None => InstallJobOK(install[i])
  /\ \A a \in DbApps \ adrift : AppServed(a)

LEMMA InstallMoved ==
  ASSUME DatabaseTypeOK, NEW i \in Installs, install[i] # None,
         NEW at \in {"role", "look", "own", "create", "inject", "remove", "helm"},
         InstallGoes(i, at)
  PROVE  /\ install' \in [Installs -> {None} \cup InstallJobs] /\ install'[i] # None
         /\ install'[i].app = install[i].app /\ install'[i].at = at
         /\ install'[i].role = install[i].role /\ install'[i].pass = install[i].pass
         /\ install'[i].creds = install[i].creds
         /\ \A j \in Installs \ {i} : install'[j] = install[j]
<1>1. install[i] \in InstallJobs BY DEF DatabaseTypeOK
<1>2. [install[i] EXCEPT !.at = at] \in InstallJobs BY <1>1 DEF InstallJobs
<1>3. install'[i] = [install[i] EXCEPT !.at = at] BY DEF InstallGoes, DatabaseTypeOK
<1>4. install' \in [Installs -> {None} \cup InstallJobs] BY <1>2 DEF InstallGoes, DatabaseTypeOK
<1>5. \A j \in Installs \ {i} : install'[j] = install[j] BY DEF InstallGoes, DatabaseTypeOK
<1>6. install'[i] # None BY <1>2, <1>3, DatabaseAssumption
<1> QED BY <1>1, <1>3, <1>4, <1>5, <1>6 DEF InstallJobs

\* The install has got credentials, its own or, after a failure, citus'.
LEMMA InstallProvided ==
  ASSUME DatabaseTypeOK, NEW i \in Installs, install[i] # None, NEW creds \in Credentials,
         install' = [install EXCEPT ![i].at = "inject", ![i].creds = creds]
  PROVE  /\ install' \in [Installs -> {None} \cup InstallJobs] /\ install'[i] # None
         /\ install'[i].app = install[i].app /\ install'[i].at = "inject"
         /\ install'[i].role = install[i].role /\ install'[i].creds = creds
         /\ \A j \in Installs \ {i} : install'[j] = install[j]
<1> DEFINE new == [install[i] EXCEPT !.at = "inject", !.creds = creds]
<1>1. install[i] \in InstallJobs BY DEF DatabaseTypeOK
<1>2. new \in InstallJobs BY <1>1 DEF InstallJobs
<1>3. install' = [install EXCEPT ![i] = new] BY DEF DatabaseTypeOK
<1>4. new.app = install[i].app /\ new.at = "inject" /\ new.role = install[i].role /\ new.creds = creds
  BY <1>1 DEF InstallJobs
<1> HIDE DEF new
<1>5. install'[i] = new /\ new # None BY <1>2, <1>3, DatabaseAssumption DEF DatabaseTypeOK
<1> QED BY <1>2, <1>3, <1>4, <1>5 DEF DatabaseTypeOK

\* A step of one install: what it may do to its own app, and to the role it names.
LEMMA InstallSteps ==
  ASSUME DatabaseTypeOK, DatabaseInv, NEW i \in Installs, install[i] # None,
         NEW b \in DbApps, b = install[i].app,
         \A j \in Installs \ {i} : install'[j] = install[j],
         install'[i] # None => install'[i].app = b,
         adrift \subseteq adrift',
         \A a \in DbApps \ {b} : /\ release'[a] = release[a] /\ dbOwner'[a] = dbOwner[a]
                                 /\ chartValues'[a] = chartValues[a],
         \A role \in Roles : \/ rolePassword'[role] = rolePassword[role]
                             \/ role = install[i].role /\ Sharers(i) \subseteq adrift',
         install'[i] # None =>
           InstallJobOK(install[i])' /\ (b \notin adrift' => InstallJobHolds(b, install[i])'),
         install'[i] = None /\ b \notin adrift' /\ release'[b] # None => Unlocks(b, release[b])'
  PROVE  DatabaseInv'
<1>1. ASSUME NEW j \in Installs, install'[j] # None PROVE InstallJobOK(install[j])'
  BY <1>1 DEF DatabaseInv, InstallJobOK, Admin
<1>2. ASSUME NEW a \in DbApps \ adrift' PROVE AppServed(a)'
  <2>1. AppServed(a) BY DEF DatabaseInv
  <2>2. CASE a = b
    <3>1. \A j \in Installs \ {i} : ~Has(j, a) BY <2>1, <2>2 DEF AppServed, Has
    <3>2. \A j \in Installs \ {i} : ~Has(j, a)' BY <3>1 DEF Has
    <3>3. Has(i, a)' => InstallJobHolds(a, install[i])' BY <2>2 DEF Has
    <3>4. ~Has(i, a)' /\ release'[a] # None => Unlocks(a, release[a])' BY <2>2 DEF Has
    <3> QED BY <3>2, <3>3, <3>4 DEF AppServed
  <2>3. CASE a # b
    <3>1. \A j \in Installs : Has(j, a)' <=> Has(j, a) BY <2>3 DEF Has
    <3>2. \A j \in Installs : Has(j, a) => install'[j] = install[j] BY <2>3 DEF Has
    <3>3. ASSUME NEW role \in Roles,
                 \/ release[a] # None /\ release[a].role = role
                 \/ \E j \in Installs : Has(j, a) /\ install[j].role = role
          PROVE  rolePassword'[role] = rolePassword[role]
      BY <2>3, <3>3 DEF Sharers, InstallsOf, Has
    <3>4. ASSUME release[a] # None, Unlocks(a, release[a]) PROVE Unlocks(a, release[a])'
      BY <2>3, <3>3, <3>4 DEF Unlocks, Admin
    <3>5. ASSUME NEW j \in Installs, Has(j, a), InstallJobHolds(a, install[j])
          PROVE  InstallJobHolds(a, install[j])'
      <4>1. install'[j] = install[j] /\ InstallJobOK(install[j]) BY <3>2, <3>5 DEF DatabaseInv, Has
      <4>2. install[j].role \in Roles => rolePassword'[install[j].role] = rolePassword[install[j].role]
        BY <3>3, <3>5
      <4>3. Unlocks(a, install[j].creds) => Unlocks(a, install[j].creds)'
        BY <2>3, <4>1, <4>2 DEF Unlocks, InstallJobOK, Admin
      <4> QED BY <2>3, <3>5, <4>1, <4>2, <4>3 DEF InstallJobHolds, InstallJobOK
    <3>6. \A j, k \in Installs : Has(j, a)' /\ Has(k, a)' => j = k
      BY <2>1, <3>1 DEF AppServed
    <3>7. \A j \in Installs : Has(j, a)' => InstallJobHolds(a, install[j])'
      BY <2>1, <3>1, <3>5 DEF AppServed
    <3>8. (\A j \in Installs : ~Has(j, a)') /\ release'[a] # None => Unlocks(a, release[a])'
      <4>1. release'[a] = release[a] BY <2>3
      <4> QED BY <2>1, <3>1, <3>4, <4>1 DEF AppServed
    <3> QED BY <3>6, <3>7, <3>8 DEF AppServed
  <2> QED BY <2>2, <2>3
<1> QED BY <1>1, <1>2 DEF DatabaseInv

LEMMA DatabaseTypeStep ==
  ASSUME DatabaseTypeOK, DatabaseInv, [DatabaseNext]_dbVars
  PROVE  DatabaseTypeOK'
<1> USE DatabaseAssumption DEF DatabaseTypeOK
<1>0. /\ Admin \in Credentials /\ {} \in SUBSET Credentials
      /\ \A i \in Installs : install[i] # None =>
           /\ install[i].app \in DbApps /\ install[i].role \in Roles \cup {None}
           /\ install[i].pass \in Nat /\ install[i].creds \in Credentials
  BY DEF Admin, Credentials, InstallJobs
<1>1. ASSUME NEW i \in Installs, DbInstallBegins(i) PROVE DatabaseTypeOK'
  <2>1. PICK a \in DbApps, role \in Roles \cup {None}, own \in {{}} \cup {{creds} : creds \in Brought} :
          /\ install' = [install EXCEPT ![i] =
               [app |-> a, at |-> IF role = None THEN "inject" ELSE "role", role |-> role, pass |-> 0,
                creds |-> Admin]]
          /\ chartValues' = [chartValues EXCEPT ![a] = own]
          /\ adrift' \in {adrift \ {a}, adrift \cup {a}}
    BY <1>1 DEF DbInstallBegins
  <2>2. install' \in [Installs -> {None} \cup InstallJobs] BY <1>0, <2>1 DEF InstallJobs
  <2>3. own \in SUBSET Credentials BY DatabaseAssumption
  <2>4. chartValues' \in [DbApps -> {None} \cup SUBSET Credentials] BY <2>1, <2>3
  <2>5. adrift' \subseteq DbApps BY <2>1
  <2> QED BY <1>1, <2>2, <2>4, <2>5 DEF DbInstallBegins
<1>2. ASSUME DownloadFails \/ AppUninstalled \/ InstallerRestarts PROVE DatabaseTypeOK'
  BY <1>2 DEF DownloadFails, AppUninstalled, InstallerRestarts
<1>3. ASSUME NEW i \in Installs, RoleSet(i) PROVE DatabaseTypeOK'
  <2> DEFINE new == [install[i] EXCEPT !.at = "look", !.pass = given + 1]
  <2>1. install[i] \in InstallJobs /\ given + 1 \in Nat BY <1>3 DEF RoleSet, InstallAt
  <2>2. new \in InstallJobs BY <2>1 DEF InstallJobs
  <2>3. install' = [install EXCEPT ![i] = new] BY <1>3 DEF RoleSet
  <2>4. Sharers(i) \subseteq DbApps BY DEF Sharers
  <2> HIDE DEF new
  <2>5. rolePassword' \in [Roles -> Nat] BY <1>3, <2>1 DEF RoleSet, SetsPassword
  <2>6. given' \in Nat /\ adrift' \subseteq DbApps /\ UNCHANGED <<dbOwner, chartValues, release>>
    BY <1>3, <2>1, <2>4 DEF RoleSet
  <2>7. install' \in [Installs -> {None} \cup InstallJobs] BY <2>2, <2>3
  <2> QED BY <2>5, <2>6, <2>7
<1>4. ASSUME NEW i \in Installs, RoleFails(i) PROVE DatabaseTypeOK'
  <2>1. install' \in [Installs -> {None} \cup InstallJobs]
    BY <1>0, <1>4, InstallProvided DEF RoleFails, Falls, InstallAt
  <2>2. Sharers(i) \subseteq DbApps BY DEF Sharers
  <2>3. rolePassword' \in [Roles -> Nat] BY <1>4 DEF RoleFails, SetsPassword
  <2> QED BY <1>4, <2>1, <2>2, <2>3 DEF RoleFails
<1>5. ASSUME NEW i \in Installs, DatabaseLooked(i) PROVE DatabaseTypeOK'
  <2>1. install' \in [Installs -> {None} \cup InstallJobs]
    BY <1>5, InstallMoved DEF DatabaseLooked, InstallAt
  <2> QED BY <1>5, <2>1 DEF DatabaseLooked
<1>6. ASSUME NEW i \in Installs, install[i] # None, Provisioned(i)
      PROVE  install' \in [Installs -> {None} \cup InstallJobs]
  <2>1. [role |-> install[i].role, pass |-> install[i].pass] \in Credentials
    BY <1>0, <1>6 DEF Credentials
  <2> QED BY <1>6, <2>1, InstallProvided DEF Provisioned
<1>7. ASSUME NEW i \in Installs, DatabaseOwned(i) \/ OwningFails(i) \/ DatabaseCreated(i)
      PROVE  DatabaseTypeOK'
  <2>1. install[i] # None /\ Provisioned(i)
    BY <1>7 DEF DatabaseOwned, OwningFails, DatabaseCreated, InstallAt
  <2>2. install' \in [Installs -> {None} \cup InstallJobs] BY <1>6, <2>1
  <2> QED BY <1>0, <1>7, <2>1, <2>2 DEF DatabaseOwned, OwningFails, DatabaseCreated
<1>8. ASSUME NEW i \in Installs, CreatingFails(i) PROVE DatabaseTypeOK'
  <2>1. install' \in [Installs -> {None} \cup InstallJobs]
    BY <1>0, <1>8, InstallProvided DEF CreatingFails, Falls, InstallAt
  <2>2. dbOwner' \in [DbApps -> Roles \cup {None}] BY <1>0, <1>8 DEF CreatingFails, InstallAt
  <2> QED BY <1>8, <2>1, <2>2 DEF CreatingFails
<1>9. ASSUME NEW i \in Installs, ValuesInjected(i) PROVE DatabaseTypeOK'
  <2>1. install' \in [Installs -> {None} \cup InstallJobs]
    BY <1>9, InstallMoved DEF ValuesInjected, InstallAt
  <2>2. chartValues' \in [DbApps -> {None} \cup SUBSET Credentials]
    BY <1>0, <1>9 DEF ValuesInjected, InstallAt
  <2> QED BY <1>9, <2>1, <2>2 DEF ValuesInjected
<1>10. ASSUME NEW i \in Installs, InstallReturns(i)
       PROVE  /\ install' \in [Installs -> {None} \cup InstallJobs]
              /\ chartValues' \in [DbApps -> {None} \cup SUBSET Credentials]
  BY <1>10 DEF InstallReturns
<1>11. \A i \in Installs : install[i] # None => LeftBehind(install[i].app) \subseteq DbApps
  BY <1>0 DEF LeftBehind
<1>12. ASSUME NEW i \in Installs, InjectingFails(i) PROVE DatabaseTypeOK'
  BY <1>10, <1>11, <1>12 DEF InjectingFails, InstallAt
<1>13. ASSUME NEW i \in Installs, OldReleaseRemoved(i) PROVE DatabaseTypeOK'
  <2>1. install' \in [Installs -> {None} \cup InstallJobs]
    BY <1>13, InstallMoved DEF OldReleaseRemoved, InstallAt
  <2>2. release' \in [DbApps -> {None} \cup Credentials] BY <1>13 DEF OldReleaseRemoved
  <2> QED BY <1>13, <2>1, <2>2 DEF OldReleaseRemoved
<1>14. ASSUME NEW i \in Installs, ReleaseMade(i) PROVE DatabaseTypeOK'
  <2>1. release' \in [DbApps -> {None} \cup Credentials]
    BY <1>0, <1>14 DEF ReleaseMade, InstallAt
  <2> QED BY <1>10, <1>14, <2>1 DEF ReleaseMade
<1>15. ASSUME NEW i \in Installs, ReleaseFails(i) PROVE DatabaseTypeOK'
  BY <1>10, <1>11, <1>15 DEF ReleaseFails, InstallAt
<1>16. CASE UNCHANGED dbVars BY <1>16 DEF dbVars
<1> QED
  BY <1>1, <1>2, <1>3, <1>4, <1>5, <1>7, <1>8, <1>9, <1>12, <1>13, <1>14, <1>15, <1>16
     DEF DatabaseNext

LEMMA DatabaseInvStep ==
  ASSUME DatabaseTypeOK, DatabaseInv, [DatabaseNext]_dbVars
  PROVE  DatabaseInv'
<1> USE DatabaseAssumption
<1>0. /\ Admin \in Credentials /\ DatabaseTypeOK' /\ adrift \subseteq DbApps
      /\ \A i \in Installs : install[i] # None =>
           /\ install[i] \in InstallJobs /\ InstallJobOK(install[i])
           /\ install[i].app \in DbApps /\ install[i].role \in Roles \cup {None}
           /\ install[i].pass \in Nat /\ install[i].creds \in Credentials
           /\ install[i].app \notin adrift =>
                /\ InstallJobHolds(install[i].app, install[i])
                /\ \A j \in Installs : Has(j, install[i].app) => j = i
  BY DatabaseTypeStep DEF DatabaseTypeOK, DatabaseInv, AppServed, Has, Admin, Credentials, InstallJobs
<1>1. ASSUME NEW i \in Installs, DbInstallBegins(i) PROVE DatabaseInv'
  <2>1. PICK a \in DbApps, role \in Roles \cup {None}, own \in {{}} \cup {{creds} : creds \in Brought} :
          /\ install' = [install EXCEPT ![i] =
               [app |-> a, at |-> IF role = None THEN "inject" ELSE "role", role |-> role, pass |-> 0,
                creds |-> Admin]]
          /\ chartValues' = [chartValues EXCEPT ![a] = own]
          /\ adrift' = IF InstallsOf(a) = {} /\ own = {} THEN adrift \ {a} ELSE adrift \cup {a}
    BY <1>1 DEF DbInstallBegins
  <2>2. /\ install[i] = None /\ install'[i].app = a /\ install'[i].creds = Admin
        /\ install'[i].role = role
        /\ install'[i].at = IF role = None THEN "inject" ELSE "role"
        /\ \A j \in Installs \ {i} : install'[j] = install[j]
        /\ chartValues'[a] = own /\ \A b \in DbApps \ {a} : chartValues'[b] = chartValues[b]
        /\ UNCHANGED <<rolePassword, dbOwner, release>>
    BY <1>1, <2>1 DEF DbInstallBegins, DatabaseTypeOK
  <2>3. ASSUME NEW j \in Installs, install'[j] # None PROVE InstallJobOK(install[j])'
    BY <2>2, <2>3 DEF DatabaseInv, InstallJobOK, Admin
  <2>4. ASSUME NEW b \in DbApps \ adrift' PROVE AppServed(b)'
    <3>1. CASE b = a
      <4>1. \A j \in Installs : ~Has(j, a) BY <2>1, <3>1 DEF InstallsOf, Has
      <4>2. \A j \in Installs : Has(j, a)' => j = i BY <2>2, <4>1 DEF Has
      <4>3. InstallJobHolds(a, install[i])'
        <5>1. own = {} BY <2>1, <3>1
        <5> QED BY <2>2, <5>1 DEF InstallJobHolds, Unlocks, Admin
      <4>4. install'[i] \in InstallJobs BY <1>0, <2>1 DEF DatabaseTypeOK, InstallJobs
      <4>5. Has(i, a)' BY <2>2, <4>4 DEF Has
      <4> QED BY <3>1, <4>2, <4>3, <4>5 DEF AppServed
    <3>2. CASE b # a
      <4>1. AppServed(b) BY <2>1, <3>2 DEF DatabaseInv
      <4>2. \A j \in Installs : Has(j, b)' <=> Has(j, b) BY <2>2, <3>2 DEF Has
      <4>3. \A j \in Installs : Has(j, b) => install'[j] = install[j] BY <2>2, <3>2 DEF Has
      <4>4. ASSUME NEW j \in Installs, Has(j, b) PROVE InstallJobHolds(b, install[j])'
        BY <2>2, <3>2, <4>1, <4>3, <4>4 DEF AppServed, InstallJobHolds, Unlocks, Admin
      <4>5. Unlocks(b, release[b]) => Unlocks(b, release[b])' BY <2>2 DEF Unlocks, Admin
      <4> QED BY <2>2, <4>1, <4>2, <4>4, <4>5 DEF AppServed
    <3> QED BY <3>1, <3>2
  <2> QED BY <2>3, <2>4 DEF DatabaseInv
<1>2. ASSUME NEW i \in Installs, RoleSet(i) PROVE DatabaseInv'
  <2>1. install[i] # None /\ install[i].at = "role" BY <1>2 DEF RoleSet, InstallAt
  <2>2. install[i].role \in Roles BY <1>0, <2>1 DEF InstallJobOK
  <2> DEFINE new == [install[i] EXCEPT !.at = "look", !.pass = given + 1]
  <2>3. install' = [install EXCEPT ![i] = new] BY <1>2 DEF RoleSet
  <2>4. new.app = install[i].app /\ new.at = "look" /\ new.role = install[i].role
        /\ new.pass = given + 1 /\ new.creds = install[i].creds
    BY <1>0, <2>1 DEF InstallJobs
  <2>10. new # None
    <3>1. install[i] \in InstallJobs /\ given + 1 \in Nat BY <1>0, <2>1 DEF DatabaseTypeOK
    <3>2. new \in InstallJobs BY <3>1 DEF InstallJobs
    <3> QED BY <3>2
  <2> HIDE DEF new
  <2>5. install'[i] = new /\ \A j \in Installs \ {i} : install'[j] = install[j]
    BY <2>3 DEF DatabaseTypeOK
  <2>6. /\ rolePassword'[install[i].role] = given + 1
        /\ \A role \in Roles \ {install[i].role} : rolePassword'[role] = rolePassword[role]
        /\ adrift' = adrift \cup Sharers(i) /\ UNCHANGED <<dbOwner, chartValues, release>>
    BY <1>2, <2>2 DEF RoleSet, SetsPassword, DatabaseTypeOK
  <2>7. InstallJobOK(install[i])' BY <1>0, <2>1, <2>4, <2>5 DEF InstallJobOK, Admin
  <2>8. install[i].app \notin adrift' => InstallJobHolds(install[i].app, install[i])
    BY <1>0, <2>1, <2>6
  <2>9. ASSUME NEW b \in DbApps, b = install[i].app PROVE DatabaseInv'
    <3>1. b \notin adrift' => chartValues[b] \in {None, {}}
      BY <2>1, <2>8, <2>9 DEF InstallJobHolds
    <3>2. b \notin adrift' => InstallJobHolds(b, install[i])'
      BY <2>4, <2>5, <2>6, <2>9, <3>1 DEF InstallJobHolds
    <3> QED BY <2>1, <2>4, <2>5, <2>6, <2>7, <2>9, <2>10, <3>2, InstallSteps
  <2> QED BY <1>0, <2>1, <2>9
<1>3. ASSUME NEW i \in Installs, RoleFails(i) PROVE DatabaseInv'
  <2>1. install[i] # None /\ install[i].at = "role" BY <1>3 DEF RoleFails, InstallAt
  <2>2. /\ install'[i] # None /\ install'[i].app = install[i].app /\ install'[i].at = "inject"
        /\ install'[i].role = install[i].role /\ install'[i].creds = Admin
        /\ \A j \in Installs \ {i} : install'[j] = install[j]
    BY <1>0, <1>3, <2>1, InstallProvided DEF RoleFails, Falls
  <2>3. /\ \A role \in Roles \ {install[i].role} : rolePassword'[role] = rolePassword[role]
        /\ adrift' = adrift \cup Sharers(i) /\ UNCHANGED <<dbOwner, chartValues, release>>
    BY <1>3 DEF RoleFails, SetsPassword, DatabaseTypeOK
  <2>4. InstallJobOK(install[i])' BY <2>2 DEF InstallJobOK, Admin
  <2>5. ASSUME NEW b \in DbApps, b = install[i].app PROVE DatabaseInv'
    <3>1. b \notin adrift' => chartValues[b] \in {None, {}}
      BY <1>0, <2>1, <2>3, <2>5 DEF InstallJobHolds
    <3>2. b \notin adrift' => InstallJobHolds(b, install[i])'
      BY <2>2, <2>3, <3>1 DEF InstallJobHolds, Unlocks, Admin
    <3> QED BY <2>1, <2>2, <2>3, <2>4, <2>5, <3>2, InstallSteps
  <2> QED BY <1>0, <2>1, <2>5
<1>4. ASSUME NEW i \in Installs, DatabaseLooked(i) PROVE DatabaseInv'
  <2>1. /\ install[i] # None /\ install[i].at = "look"
        /\ UNCHANGED <<rolePassword, dbOwner, chartValues, release, adrift>>
    BY <1>4 DEF DatabaseLooked, InstallAt
  <2>2. /\ install'[i] # None /\ install'[i].app = install[i].app
        /\ install'[i].at \in {"own", "create"}
        /\ install'[i].role = install[i].role /\ install'[i].pass = install[i].pass
        /\ install'[i].creds = install[i].creds
        /\ \A j \in Installs \ {i} : install'[j] = install[j]
    BY <1>4, <2>1, InstallMoved DEF DatabaseLooked
  <2>3. InstallJobOK(install[i])' BY <1>0, <2>1, <2>2 DEF InstallJobOK, Admin
  <2>4. ASSUME NEW b \in DbApps, b = install[i].app PROVE DatabaseInv'
    <3>1. b \notin adrift' => InstallJobHolds(b, install[i])'
      BY <1>0, <2>1, <2>2, <2>4 DEF InstallJobHolds
    <3> QED BY <2>1, <2>2, <2>3, <2>4, <3>1, InstallSteps
  <2> QED BY <1>0, <2>1, <2>4
<1>5. ASSUME NEW i \in Installs, DatabaseOwned(i) \/ OwningFails(i) \/ DatabaseCreated(i)
      PROVE DatabaseInv'
  <2>1. install[i] # None /\ install[i].at \in {"own", "create"} /\ Provisioned(i)
    BY <1>5 DEF DatabaseOwned, OwningFails, DatabaseCreated, InstallAt
  <2>2. PICK creds \in Credentials :
          /\ creds.role = install[i].role /\ creds.pass = install[i].pass
          /\ install' = [install EXCEPT ![i].at = "inject", ![i].creds = creds]
    BY <1>0, <2>1 DEF Credentials, Provisioned
  <2>4. /\ install'[i] # None /\ install'[i].app = install[i].app /\ install'[i].at = "inject"
        /\ install'[i].role = install[i].role /\ install'[i].creds = creds
        /\ \A j \in Installs \ {i} : install'[j] = install[j]
    BY <2>1, <2>2, InstallProvided
  <2>5. /\ UNCHANGED <<rolePassword, chartValues, release>> /\ adrift \subseteq adrift'
        /\ \A a \in DbApps \ {install[i].app} : dbOwner'[a] = dbOwner[a]
        /\ \/ install[i].app \in adrift'
           \/ dbOwner'[install[i].app] = install[i].role
    BY <1>0, <1>5, <2>1 DEF DatabaseOwned, OwningFails, DatabaseCreated, DatabaseTypeOK
  <2>6. install[i].role \in Roles BY <1>0, <2>1 DEF InstallJobOK
  <2>7. InstallJobOK(install[i])' BY <2>2, <2>4, <2>6 DEF InstallJobOK
  <2>8. ASSUME NEW b \in DbApps, b = install[i].app PROVE DatabaseInv'
    <3>1. b \notin adrift' =>
            rolePassword[install[i].role] = install[i].pass /\ chartValues[b] \in {None, {}}
      BY <1>0, <2>1, <2>5, <2>8 DEF InstallJobHolds
    <3>2. b \notin adrift' => Unlocks(b, creds)' BY <2>2, <2>5, <2>6, <2>8, <3>1 DEF Unlocks
    <3>3. b \notin adrift' => InstallJobHolds(b, install[i])'
      <4>1. b \notin adrift' => Unlocks(b, install[i].creds)' BY <2>4, <3>2 DEF Unlocks, Admin
      <4> QED BY <2>4, <2>5, <3>1, <4>1 DEF InstallJobHolds
    <3> QED BY <2>1, <2>4, <2>5, <2>7, <2>8, <3>3, InstallSteps
  <2> QED BY <1>0, <2>1, <2>8
<1>6. ASSUME NEW i \in Installs, CreatingFails(i) PROVE DatabaseInv'
  <2>1. install[i] # None /\ install[i].at = "create" BY <1>6 DEF CreatingFails, InstallAt
  <2>2. /\ install'[i] # None /\ install'[i].app = install[i].app /\ install'[i].at = "inject"
        /\ install'[i].role = install[i].role /\ install'[i].creds = Admin
        /\ \A j \in Installs \ {i} : install'[j] = install[j]
    BY <1>0, <1>6, <2>1, InstallProvided DEF CreatingFails, Falls
  <2>3. /\ \A a \in DbApps \ {install[i].app} : dbOwner'[a] = dbOwner[a]
        /\ UNCHANGED <<rolePassword, chartValues, release, adrift>>
    BY <1>6 DEF CreatingFails, DatabaseTypeOK
  <2>4. InstallJobOK(install[i])' BY <2>2 DEF InstallJobOK, Admin
  <2>5. ASSUME NEW b \in DbApps, b = install[i].app PROVE DatabaseInv'
    <3>1. b \notin adrift' => chartValues[b] \in {None, {}}
      BY <1>0, <2>1, <2>3, <2>5 DEF InstallJobHolds
    <3>2. b \notin adrift' => InstallJobHolds(b, install[i])'
      BY <2>2, <2>3, <3>1 DEF InstallJobHolds, Unlocks, Admin
    <3> QED BY <2>1, <2>2, <2>3, <2>4, <2>5, <3>2, InstallSteps
  <2> QED BY <1>0, <2>1, <2>5
<1>7. ASSUME NEW i \in Installs, ValuesInjected(i) PROVE DatabaseInv'
  <2>1. /\ install[i] # None /\ install[i].at = "inject" /\ chartValues[install[i].app] # None
        /\ UNCHANGED <<rolePassword, dbOwner, release, adrift>>
    BY <1>7 DEF ValuesInjected, InstallAt
  <2>2. /\ install'[i] # None /\ install'[i].app = install[i].app /\ install'[i].at = "remove"
        /\ install'[i].role = install[i].role /\ install'[i].creds = install[i].creds
        /\ \A j \in Installs \ {i} : install'[j] = install[j]
    BY <1>7, <2>1, InstallMoved DEF ValuesInjected
  <2>3. /\ \A a \in DbApps \ {install[i].app} : chartValues'[a] = chartValues[a]
        /\ chartValues[install[i].app] = {} => chartValues'[install[i].app] = {install[i].creds}
    BY <1>0, <1>7, <2>1 DEF ValuesInjected, DatabaseTypeOK
  <2>4. InstallJobOK(install[i])' BY <1>0, <2>1, <2>2 DEF InstallJobOK, Admin
  <2>5. ASSUME NEW b \in DbApps, b = install[i].app PROVE DatabaseInv'
    <3>1. b \notin adrift' => Unlocks(b, install[i].creds) /\ chartValues'[b] = {install[i].creds}
      BY <1>0, <2>1, <2>3, <2>5 DEF InstallJobHolds
    <3>2. b \notin adrift' => Unlocks(b, install[i].creds)'
      BY <2>1, <2>2, <3>1 DEF Unlocks, Admin
    <3>3. b \notin adrift' => InstallJobHolds(b, install[i])'
      BY <2>2, <3>1, <3>2 DEF InstallJobHolds
    <3> QED BY <2>1, <2>2, <2>3, <2>4, <2>5, <3>3, InstallSteps
  <2> QED BY <1>0, <2>1, <2>5
\* An install that returns leaves no release, a sound one, or an app that is adrift.
<1>8. ASSUME NEW i \in Installs, install[i] # None, InstallReturns(i), adrift \subseteq adrift',
             UNCHANGED <<rolePassword, dbOwner>>,
             \A a \in DbApps \ {install[i].app} : release'[a] = release[a],
             \/ install[i].app \in adrift'
             \/ release'[install[i].app] = None
             \/ Unlocks(install[i].app, release'[install[i].app])
      PROVE  DatabaseInv'
  <2>1. /\ install'[i] = None /\ \A j \in Installs \ {i} : install'[j] = install[j]
        /\ \A a \in DbApps \ {install[i].app} : chartValues'[a] = chartValues[a]
    BY <1>8 DEF InstallReturns, DatabaseTypeOK
  <2>2. ASSUME NEW b \in DbApps, b = install[i].app PROVE DatabaseInv'
    <3>1. b \notin adrift' /\ release'[b] # None => Unlocks(b, release[b])'
      BY <1>8, <2>2 DEF Unlocks, Admin
    <3> QED BY <1>8, <2>1, <2>2, <3>1, InstallSteps
  <2> QED BY <1>0, <1>8, <2>2
<1>9. ASSUME NEW i \in Installs, InjectingFails(i) PROVE DatabaseInv'
  <2>1. /\ install[i] # None /\ InstallReturns(i) /\ adrift \subseteq adrift'
        /\ UNCHANGED <<rolePassword, dbOwner, release>>
        /\ install[i].app \in adrift' \/ release'[install[i].app] = None
    BY <1>9 DEF InjectingFails, LeftBehind, InstallAt
  <2> QED BY <1>8, <2>1
<1>10. ASSUME NEW i \in Installs, OldReleaseRemoved(i) PROVE DatabaseInv'
  <2>1. /\ install[i] # None /\ install[i].at = "remove"
        /\ UNCHANGED <<rolePassword, dbOwner, chartValues, adrift>>
        /\ \A a \in DbApps \ {install[i].app} : release'[a] = release[a]
    BY <1>10 DEF OldReleaseRemoved, InstallAt, DatabaseTypeOK
  <2>2. /\ install'[i] # None /\ install'[i].app = install[i].app /\ install'[i].at = "helm"
        /\ install'[i].role = install[i].role /\ install'[i].creds = install[i].creds
        /\ \A j \in Installs \ {i} : install'[j] = install[j]
    BY <1>10, <2>1, InstallMoved DEF OldReleaseRemoved
  <2>4. InstallJobOK(install[i])' BY <1>0, <2>1, <2>2 DEF InstallJobOK, Admin
  <2>5. ASSUME NEW b \in DbApps, b = install[i].app PROVE DatabaseInv'
    <3>1. b \notin adrift' => /\ Unlocks(b, install[i].creds)
                              /\ chartValues'[b] \in {None, {install[i].creds}}
      BY <1>0, <2>1, <2>5 DEF InstallJobHolds
    <3>2. b \notin adrift' => Unlocks(b, install[i].creds)'
      BY <2>1, <2>2, <3>1 DEF Unlocks, Admin
    <3>3. b \notin adrift' => InstallJobHolds(b, install[i])'
      BY <2>2, <3>1, <3>2 DEF InstallJobHolds
    <3> QED BY <2>1, <2>2, <2>4, <2>5, <3>3, InstallSteps
  <2> QED BY <1>0, <2>1, <2>5
<1>11. ASSUME NEW i \in Installs, ReleaseMade(i) PROVE DatabaseInv'
  <2>1. /\ install[i] # None /\ install[i].at = "helm" /\ InstallReturns(i)
        /\ UNCHANGED <<rolePassword, dbOwner, adrift>>
        /\ chartValues[install[i].app] # None
        /\ \A a \in DbApps \ {install[i].app} : release'[a] = release[a]
        /\ \/ release'[install[i].app] \in chartValues[install[i].app]
           \/ release'[install[i].app] = Admin
    BY <1>0, <1>11 DEF ReleaseMade, InstallAt, DatabaseTypeOK
  <2>2. install[i].app \notin adrift => /\ Unlocks(install[i].app, install[i].creds)
                                        /\ chartValues[install[i].app] = {install[i].creds}
    BY <1>0, <2>1 DEF InstallJobHolds
  <2>3. Unlocks(install[i].app, Admin) BY DEF Unlocks
  <2> QED BY <1>8, <2>1, <2>2, <2>3
<1>12. ASSUME NEW i \in Installs, ReleaseFails(i) PROVE DatabaseInv'
  <2>1. /\ install[i] # None /\ InstallReturns(i) /\ adrift \subseteq adrift'
        /\ UNCHANGED <<rolePassword, dbOwner>>
        /\ \A a \in DbApps \ {install[i].app} : release'[a] = release[a]
        /\ install[i].app \in adrift' \/ release'[install[i].app] = None
    BY <1>0, <1>12 DEF ReleaseFails, LeftBehind, InstallAt, DatabaseTypeOK
  <2> QED BY <1>8, <2>1
<1>13. ASSUME NEW a \in DbApps, AppServed(a), UNCHANGED <<rolePassword, dbOwner, install>>,
              chartValues'[a] \in {None, chartValues[a]}, release'[a] \in {None, release[a]}
       PROVE  AppServed(a)'
  BY <1>13 DEF AppServed, Has, InstallJobHolds, Unlocks, Admin
<1>14. ASSUME DownloadFails \/ AppUninstalled \/ UNCHANGED dbVars PROVE DatabaseInv'
  <2>1. /\ UNCHANGED <<rolePassword, dbOwner, install, adrift>>
        /\ \A a \in DbApps : /\ chartValues'[a] \in {None, chartValues[a]}
                             /\ release'[a] \in {None, release[a]}
    BY <1>14 DEF DownloadFails, AppUninstalled, dbVars, DatabaseTypeOK
  <2>2. \A a \in DbApps \ adrift' : AppServed(a)' BY <1>13, <2>1 DEF DatabaseInv
  <2>3. \A i \in Installs : install'[i] # None => InstallJobOK(install[i])'
    BY <2>1 DEF DatabaseInv, InstallJobOK, Admin
  <2> QED BY <2>2, <2>3 DEF DatabaseInv
<1>15. ASSUME InstallerRestarts PROVE DatabaseInv'
  <2>1. /\ \A i \in Installs : install'[i] = None
        /\ UNCHANGED <<rolePassword, dbOwner, release>>
        /\ adrift' = adrift \cup {a \in DbApps : InstallsOf(a) # {} /\ release[a] # None}
    BY <1>15 DEF InstallerRestarts
  <2>2. ASSUME NEW a \in DbApps \ adrift' PROVE AppServed(a)'
    <3>1. AppServed(a) BY <2>1 DEF DatabaseInv
    <3>2. release[a] # None => \A i \in Installs : ~Has(i, a) BY <2>1 DEF InstallsOf, Has
    <3> QED BY <2>1, <3>1, <3>2 DEF AppServed, Has, Unlocks, Admin
  <2> QED BY <2>1, <2>2 DEF DatabaseInv
<1> QED
  BY <1>1, <1>2, <1>3, <1>4, <1>5, <1>6, <1>7, <1>9, <1>10, <1>11, <1>12, <1>14, <1>15
     DEF DatabaseNext

(***************************************************************************)
(* The database opens, for any apps, roles, passwords, failures and        *)
(* restarts: while no install of an app that is not adrift runs, citus     *)
(* knows the credentials of its release, and their role owns the database. *)
(* What carries it is that one install at a time keeps role, owner, chart  *)
(* and release in step.                                                    *)
(***************************************************************************)
THEOREM DatabaseIsOpen == PlatformSpec => []DatabaseOpens
<1> DEFINE Inv == DatabaseTypeOK /\ DatabaseInv
<1>1. PlatformInit => Inv
  BY DatabaseAssumption
     DEF PlatformInit, DatabaseInit, DatabaseTypeOK, DatabaseInv, InstallJobOK, AppServed, Has
<1>2. Inv /\ [PlatformNext]_platformVars => Inv'
  BY ServiceSteps, DatabaseTypeStep, DatabaseInvStep
<1>3. Inv => DatabaseOpens
  BY DEF DatabaseTypeOK, DatabaseInv, DatabaseOpens, AppServed, Has, InstallsOf, Unlocks
<1> QED BY <1>1, <1>2, <1>3, PTL DEF PlatformSpec

-----------------------------------------------------------------------------
(* The catalog *)

\* Files are numbered as they are replaced, so that no number comes back.
Older(v) == v # None => v <= versions

\* This version of a file was read for an entry: it is the entry's unless the file is another
\* one than the entry's by now.
SideRead(n, e, v) == sidecar[n] = e.side => v = e.side

ChartsRead(n, e, v) == e.chart = None \/ chart[n] = e.chart => v = e.chart

LoadHolds(l) ==
  /\ Older(l.entry.side) /\ Older(l.entry.chart)
  /\ l.at \in {"chart", "add"} => l.side # None /\ SideRead(l.name, l.entry, l.side)
  /\ l.at = "add" => ChartsRead(l.name, l.entry, l.chart)

IndexHolds ==
  \A n \in Entries :
    /\ Older(sidecar[n]) /\ Older(chart[n])
    /\ scan # None => Older(scan[n])
    /\ index[n] # None => Older(index[n].side) /\ Older(index[n].chart)

CacheHolds(n) ==
  index[n] # None /\ cache[n] # None =>
    SideRead(n, index[n], cache[n].side) /\ ChartsRead(n, index[n], cache[n].chart)

CurationInv ==
  /\ Older(notes) /\ Older(curation.time)
  /\ ~curationRaced => curationLoad = None \/ curationLoad = notes
  /\ CurationIsOnDisk

CatalogInv ==
  /\ IndexHolds /\ CurationInv
  /\ \A n \in Entries \ raced : CacheHolds(n)
  /\ \A r \in Readers : load[r] # None => LoadHolds(load[r])

LEMMA CatalogTypeStep ==
  ASSUME CatalogTypeOK, CatalogInv, [CatalogNext]_catalogVars
  PROVE  CatalogTypeOK'
<1> USE CatalogAssumption DEF CatalogTypeOK, filesOf, curations
<1>0. versions + 1 \in Version /\ None \in Version BY DEF Version
<1>1. CASE SidecarChanges BY <1>0, <1>1 DEF SidecarChanges
<1>2. CASE ChartChanges BY <1>0, <1>2 DEF ChartChanges
<1>3. CASE TimePasses \/ ScanBegins BY <1>3 DEF TimePasses, ScanBegins
<1>4. CASE ScanEnds
  <2>1. PICK readable \in BOOLEAN :
          LET new == [n \in Entries |-> IF readable /\ sidecar[n] # None
                                          THEN [side |-> sidecar[n], chart |-> scan[n]] ELSE None]
          IN  /\ index' = new
              /\ cache' = [n \in Entries |-> IF Changed(n, index, new) THEN None ELSE cache[n]]
    BY <1>4 DEF ScanEnds
  <2>2. \A n \in Entries : sidecar[n] # None => [side |-> sidecar[n], chart |-> scan[n]] \in IndexEntries
    BY <1>4 DEF ScanEnds, IndexEntries, Version
  <2>3. index' \in [Entries -> {None} \cup IndexEntries] BY <2>1, <2>2
  <2>4. cache' \in [Entries -> {None} \cup IndexEntries] BY <2>1
  <2> QED BY <1>4, <2>3, <2>4 DEF ScanEnds
<1>5. ASSUME NEW r \in Readers, LoadBegins(r) PROVE CatalogTypeOK'
  <2>1. PICK n \in Entries :
          /\ index[n] # None
          /\ load' = [load EXCEPT ![r] = [name |-> n, entry |-> index[n], side |-> None,
                                          chart |-> None, at |-> "check"]]
    BY <1>5 DEF LoadBegins
  <2>2. [name |-> n, entry |-> index[n], side |-> None, chart |-> None, at |-> "check"] \in Loads
    BY <1>0, <2>1 DEF Loads
  <2> QED BY <1>5, <2>1, <2>2 DEF LoadBegins
<1>6. ASSUME NEW r \in Readers, CacheServes(r) PROVE CatalogTypeOK'
  BY <1>6 DEF CacheServes
<1>7. ASSUME NEW r \in Readers, SidecarRead(r) PROVE CatalogTypeOK'
  <2>1. load[r] \in Loads /\ load[r].name \in Entries BY <1>7 DEF SidecarRead, Loading, Loads
  <2>2. [load[r] EXCEPT !.side = sidecar[load[r].name], !.at = "chart"] \in Loads BY <2>1 DEF Loads
  <2>3. load' \in [Readers -> {None} \cup Loads] BY <1>7, <2>2 DEF SidecarRead
  <2> QED BY <1>7, <2>1, <2>3 DEF SidecarRead
<1>8. ASSUME NEW r \in Readers, ChartRead(r) PROVE CatalogTypeOK'
  <2> DEFINE found == IF load[r].entry.chart = None THEN None ELSE chart[load[r].name]
  <2>1. load[r] \in Loads /\ found \in Version BY <1>0, <1>8 DEF ChartRead, Loading, Loads
  <2>2. [load[r] EXCEPT !.at = "add", !.chart = found] \in Loads BY <2>1 DEF Loads
  <2>3. load' = [load EXCEPT ![r] = [load[r] EXCEPT !.at = "add", !.chart = found]]
    BY <1>8 DEF ChartRead
  <2> QED BY <1>8, <2>2, <2>3 DEF ChartRead
<1>9. ASSUME NEW r \in Readers, LoadEnds(r) PROVE CatalogTypeOK'
  <2>1. load[r] \in Loads /\ load[r].side # None BY <1>9 DEF LoadEnds, Loading, CatalogInv, LoadHolds
  <2>2. load[r].name \in Entries /\ [side |-> load[r].side, chart |-> load[r].chart] \in IndexEntries
    BY <2>1 DEF Loads, IndexEntries, Version
  <2> QED BY <1>9, <2>2 DEF LoadEnds
<1>10. CASE CacheEvicts BY <1>10 DEF CacheEvicts
<1>11. CASE CurationChanges \/ CurationRead
  <2>1. curationRaced' \in BOOLEAN BY <1>11 DEF CurationChanges, CurationRead
  <2>2. notes' \in Version /\ curationLoad' \in Version /\ versions' \in Nat
    BY <1>0, <1>11 DEF CurationChanges, CurationRead
  <2>3. UNCHANGED <<sidecar, chart, index, scan, cache, load, raced, curation>>
    BY <1>11 DEF CurationChanges, CurationRead
  <2> QED BY <2>1, <2>2, <2>3
<1>13. CASE CurationKept
  <2>1. curation' \in [content : Version, time : Version] BY <1>13 DEF CurationKept
  <2> QED BY <1>0, <1>13, <2>1 DEF CurationKept
<1>12. CASE UNCHANGED catalogVars BY <1>12 DEF catalogVars
<1> QED
  BY <1>1, <1>2, <1>3, <1>4, <1>5, <1>6, <1>7, <1>8, <1>9, <1>10, <1>11, <1>12, <1>13
     DEF CatalogNext

\* A file is replaced by one that nobody has read, or removed.
LEMMA FileReplaced ==
  ASSUME CatalogTypeOK, CatalogInv, SidecarChanges \/ ChartChanges
  PROVE  CatalogInv'
<1> USE CatalogAssumption
<1>1. /\ versions' = versions + 1 /\ versions \in Nat
      /\ \A n \in Entries : /\ sidecar'[n] \in {sidecar[n], None, versions + 1}
                            /\ chart'[n] \in {chart[n], None, versions + 1}
      /\ UNCHANGED <<notes, index, scan, cache, load, raced, curation, curationLoad, curationRaced>>
  BY DEF SidecarChanges, ChartChanges, CatalogTypeOK, curations
<1>2. \A v \in Version : Older(v) => Older(v)' BY <1>1 DEF Older, Version
<1>3. ASSUME NEW n \in Entries, NEW e \in IndexEntries, NEW v \in Version,
             Older(e.side), Older(e.chart)
      PROVE  /\ SideRead(n, e, v) => SideRead(n, e, v)'
             /\ ChartsRead(n, e, v) => ChartsRead(n, e, v)'
  BY <1>1, <1>3 DEF SideRead, ChartsRead, Older, IndexEntries, Version
<1>4. IndexHolds'
  <2> SUFFICES ASSUME NEW n \in Entries
               PROVE  /\ Older(sidecar[n])' /\ Older(chart[n])'
                      /\ scan' # None => Older(scan[n])'
                      /\ index'[n] # None => Older(index[n].side)' /\ Older(index[n].chart)'
    BY DEF IndexHolds
  <2>1. Older(sidecar[n])' /\ Older(chart[n])'
    BY <1>1 DEF CatalogInv, IndexHolds, CatalogTypeOK, Older, Version
  <2>2. scan' # None => Older(scan[n])'
    BY <1>1 DEF CatalogInv, IndexHolds, CatalogTypeOK, Older, Version
  <2>3. index'[n] # None => Older(index[n].side)' /\ Older(index[n].chart)'
    BY <1>1 DEF CatalogInv, IndexHolds, CatalogTypeOK, IndexEntries, Older, Version
  <2> QED BY <2>1, <2>2, <2>3
<1>5. CurationInv'
  BY <1>1 DEF CatalogInv, CurationInv, CurationIsOnDisk, CatalogTypeOK, Older, Version
<1>6. ASSUME NEW n \in Entries \ raced' PROVE CacheHolds(n)'
  <2>1. CASE index[n] # None /\ cache[n] # None
    <3>1. index[n] \in IndexEntries /\ cache[n].side \in Version /\ cache[n].chart \in Version
      BY <2>1 DEF CatalogTypeOK, IndexEntries, Version
    <3>2. /\ Older(index[n].side) /\ Older(index[n].chart)
          /\ SideRead(n, index[n], cache[n].side) /\ ChartsRead(n, index[n], cache[n].chart)
      BY <1>1, <2>1 DEF CatalogInv, IndexHolds, CacheHolds
    <3> QED BY <1>1, <1>3, <3>1, <3>2 DEF CacheHolds, SideRead, ChartsRead
  <2> QED BY <1>1, <2>1 DEF CacheHolds
<1>7. ASSUME NEW r \in Readers, load[r] # None PROVE LoadHolds(load[r])'
  <2> PICK l \in Loads : l = load[r] /\ l = load'[r] BY <1>1, <1>7 DEF CatalogTypeOK
  <2>1. /\ l.name \in Entries /\ l.entry \in IndexEntries /\ l.side \in Version /\ l.chart \in Version
        /\ l.entry.side \in Version /\ l.entry.chart \in Version
    BY DEF Loads, IndexEntries, Version
  <2>2. LoadHolds(l) BY <1>7 DEF CatalogInv
  <2>3. LoadHolds(l)' BY <1>2, <1>3, <2>1, <2>2 DEF LoadHolds
  <2> QED BY <2>3 DEF LoadHolds, SideRead, ChartsRead, Older
<1> QED BY <1>1, <1>4, <1>5, <1>6, <1>7 DEF CatalogInv

LEMMA CatalogInvStep ==
  ASSUME CatalogTypeOK, CatalogInv, [CatalogNext]_catalogVars
  PROVE  CatalogInv'
<1> USE CatalogAssumption
<1> DEFINE Kept == UNCHANGED <<filesOf, curations>>
<1>0. /\ \A n \in Entries : index[n] # None => index[n] \in IndexEntries
      /\ \A r \in Readers : load[r] # None =>
           /\ load[r] \in Loads /\ LoadHolds(load[r]) /\ load[r].name \in Entries
           /\ load[r].entry \in IndexEntries
           /\ load[r].side \in Version /\ load[r].chart \in Version
  BY DEF CatalogTypeOK, CatalogInv, Loads
<1>1. CASE SidecarChanges \/ ChartChanges BY <1>1, FileReplaced
<1>2. ASSUME Kept PROVE CurationInv'
  BY <1>2 DEF CatalogInv, CurationInv, CurationIsOnDisk, Older, filesOf, curations
<1>3. ASSUME Kept, UNCHANGED <<index, scan>> PROVE IndexHolds'
  BY <1>3 DEF CatalogInv, IndexHolds, Older, filesOf
<1>4. ASSUME Kept, UNCHANGED load PROVE \A r \in Readers : load'[r] # None => LoadHolds(load[r])'
  BY <1>4 DEF CatalogInv, LoadHolds, Older, SideRead, ChartsRead, filesOf
<1>5. ASSUME Kept, UNCHANGED <<index, raced>>,
             \A n \in Entries : cache'[n] \in {None, cache[n]}
      PROVE  \A n \in Entries \ raced' : CacheHolds(n)'
  BY <1>5 DEF CatalogInv, CacheHolds, SideRead, ChartsRead, filesOf
<1>6. CASE TimePasses \/ ScanBegins
  <2>1. Kept /\ UNCHANGED <<index, raced, load, cache>> BY <1>6 DEF TimePasses, ScanBegins
  <2>2. IndexHolds'
    BY <1>6, <2>1 DEF TimePasses, ScanBegins, CatalogInv, IndexHolds, Older, filesOf
  <2> QED BY <1>2, <1>4, <1>5, <2>1, <2>2 DEF CatalogInv
<1>7. CASE ScanEnds
  <2>1. PICK readable \in BOOLEAN :
          LET new == [n \in Entries |-> IF readable /\ sidecar[n] # None
                                          THEN [side |-> sidecar[n], chart |-> scan[n]] ELSE None]
          IN  /\ index' = new
              /\ cache' = [n \in Entries |-> IF Changed(n, index, new) THEN None ELSE cache[n]]
    BY <1>7 DEF ScanEnds
  <2>2. Kept /\ UNCHANGED <<raced, load>> /\ scan' = None /\ scan # None BY <1>7 DEF ScanEnds
  <2>3. IndexHolds'
    BY <2>1, <2>2 DEF CatalogInv, IndexHolds, Older, filesOf
  <2>4. \A n \in Entries : cache'[n] = None \/ (index'[n] = index[n] /\ cache'[n] = cache[n])
    BY <2>1 DEF Changed
  <2>5. \A n \in Entries \ raced' : CacheHolds(n)'
    BY <2>2, <2>4 DEF CatalogInv, CacheHolds, SideRead, ChartsRead, filesOf
  <2> QED BY <1>2, <1>4, <2>2, <2>3, <2>5 DEF CatalogInv
\* A load goes on to hold what it held; other loads are as they were.
<1>8. ASSUME Kept, NEW r \in Readers, \A q \in Readers \ {r} : load'[q] = load[q],
             load'[r] # None => LoadHolds(load[r])'
      PROVE  \A q \in Readers : load'[q] # None => LoadHolds(load[q])'
  <2> SUFFICES ASSUME NEW q \in Readers \ {r}, load'[q] # None PROVE LoadHolds(load[q])'
    BY <1>8
  <2> QED BY <1>8 DEF CatalogInv, LoadHolds, Older, SideRead, ChartsRead, filesOf
<1>9. ASSUME NEW r \in Readers, LoadBegins(r) PROVE CatalogInv'
  <2>1. PICK n \in Entries :
          /\ index[n] # None
          /\ load' = [load EXCEPT ![r] = [name |-> n, entry |-> index[n], side |-> None,
                                          chart |-> None, at |-> "check"]]
    BY <1>9 DEF LoadBegins
  <2>2. Kept /\ UNCHANGED <<index, scan, raced, cache>> BY <1>9 DEF LoadBegins
  <2>3. load'[r].entry = index[n] /\ load'[r].at = "check"
        /\ \A q \in Readers \ {r} : load'[q] = load[q]
    BY <2>1 DEF CatalogTypeOK
  <2>4. LoadHolds(load[r])'
    BY <2>1, <2>2, <2>3 DEF CatalogInv, IndexHolds, LoadHolds, Older, filesOf
  <2> QED BY <1>2, <1>3, <1>5, <1>8, <2>2, <2>3, <2>4 DEF CatalogInv
<1>10. ASSUME NEW r \in Readers, CacheServes(r) PROVE CatalogInv'
  <2>1. /\ Kept /\ UNCHANGED <<index, scan, raced, cache>>
        /\ load'[r] = None /\ \A q \in Readers \ {r} : load'[q] = load[q]
    BY <1>10 DEF CacheServes, CatalogTypeOK
  <2> QED BY <1>2, <1>3, <1>5, <1>8, <2>1 DEF CatalogInv
<1>11. ASSUME NEW r \in Readers, SidecarRead(r) PROVE CatalogInv'
  <2>1. /\ Kept /\ UNCHANGED <<index, scan, raced>> /\ load[r] # None
        /\ \A q \in Readers \ {r} : load'[q] = load[q]
        /\ \A n \in Entries : cache'[n] \in {None, cache[n]}
    BY <1>11 DEF SidecarRead, Loading, CatalogTypeOK
  <2> DEFINE new == [load[r] EXCEPT !.side = sidecar[load[r].name], !.at = "chart"]
  <2>2. load'[r] = IF sidecar[load[r].name] = None THEN None ELSE new
    BY <1>11 DEF SidecarRead, CatalogTypeOK
  <2>3. new.side = sidecar[load[r].name] /\ new.at = "chart" /\ new.name = load[r].name
        /\ new.entry = load[r].entry
    BY <1>0, <2>1 DEF Loads
  <2> HIDE DEF new
  <2>4. load'[r] # None => LoadHolds(load[r])'
    BY <1>0, <2>1, <2>2, <2>3 DEF LoadHolds, Older, SideRead, filesOf
  <2> QED BY <1>2, <1>3, <1>5, <1>8, <2>1, <2>4 DEF CatalogInv
<1>12. ASSUME NEW r \in Readers, ChartRead(r) PROVE CatalogInv'
  <2>1. /\ Kept /\ UNCHANGED <<index, scan, raced, cache>> /\ load[r] # None
        /\ load[r].at = "chart" /\ \A q \in Readers \ {r} : load'[q] = load[q]
    BY <1>12 DEF ChartRead, Loading, CatalogTypeOK
  <2> DEFINE found == IF load[r].entry.chart = None THEN None ELSE chart[load[r].name]
             new == [load[r] EXCEPT !.at = "add", !.chart = found]
  <2>2. load'[r] = new BY <1>12 DEF ChartRead, CatalogTypeOK
  <2>3. new.side = load[r].side /\ new.at = "add" /\ new.name = load[r].name
        /\ new.entry = load[r].entry /\ new.chart = found
    BY <1>0, <2>1 DEF Loads
  <2> HIDE DEF new
  <2>4. LoadHolds(load[r])'
    BY <1>0, <2>1, <2>2, <2>3 DEF LoadHolds, Older, SideRead, ChartsRead, filesOf
  <2> QED BY <1>2, <1>3, <1>5, <1>8, <2>1, <2>4 DEF CatalogInv
<1>13. ASSUME NEW r \in Readers, LoadEnds(r) PROVE CatalogInv'
  <2>1. /\ Kept /\ UNCHANGED <<index, scan>> /\ load[r] # None /\ load[r].at = "add"
        /\ load'[r] = None /\ \A q \in Readers \ {r} : load'[q] = load[q]
    BY <1>13 DEF LoadEnds, Loading, CatalogTypeOK
  <2>2. PICK l \in Loads : l = load[r] /\ l.name \in Entries BY <1>0, <2>1
  <2>3. /\ cache'[l.name].side = l.side /\ cache'[l.name].chart = l.chart
        /\ \A n \in Entries \ {l.name} : cache'[n] = cache[n]
        /\ raced' = IF index[l.name] = l.entry THEN raced \ {l.name} ELSE raced \cup {l.name}
    BY <1>13, <2>2 DEF LoadEnds, CatalogTypeOK
  <2>4. SideRead(l.name, l.entry, l.side) /\ ChartsRead(l.name, l.entry, l.chart)
    BY <1>0, <2>1, <2>2 DEF LoadHolds
  <2>5. ASSUME NEW n \in Entries \ raced' PROVE CacheHolds(n)'
    <3>1. CASE n = l.name
      BY <2>1, <2>3, <2>4, <3>1 DEF CacheHolds, SideRead, ChartsRead, filesOf
    <3>2. CASE n # l.name
      BY <2>1, <2>3, <3>2 DEF CatalogInv, CacheHolds, SideRead, ChartsRead, filesOf
    <3> QED BY <3>1, <3>2
  <2> QED BY <1>2, <1>3, <1>8, <2>1, <2>5 DEF CatalogInv
<1>14. CASE CacheEvicts
  <2>1. /\ Kept /\ UNCHANGED <<index, scan, raced, load>>
        /\ \A n \in Entries : cache'[n] \in {None, cache[n]}
    BY <1>14 DEF CacheEvicts, CatalogTypeOK
  <2> QED BY <1>2, <1>3, <1>4, <1>5, <2>1 DEF CatalogInv
<1>15. CASE CurationChanges \/ CurationRead \/ CurationKept
  <2>1. /\ UNCHANGED <<sidecar, chart, index, scan, raced, load, cache>>
        /\ versions \in Nat /\ versions' \in Nat /\ versions' >= versions
    BY <1>15 DEF CurationChanges, CurationRead, CurationKept, CatalogTypeOK, filesOf
  <2>2. \A v \in Version : Older(v) => Older(v)' BY <2>1 DEF Older, Version
  <2>3. IndexHolds'
    BY <1>0, <2>1, <2>2 DEF CatalogInv, IndexHolds, CatalogTypeOK, Older, IndexEntries, Version
  <2>4. \A n \in Entries \ raced' : CacheHolds(n)'
    BY <2>1 DEF CatalogInv, CacheHolds, SideRead, ChartsRead
  <2>5. \A r \in Readers : load'[r] # None => LoadHolds(load[r])'
    BY <1>0, <2>1 DEF CatalogInv, LoadHolds, SideRead, ChartsRead, Older, IndexEntries, Version
  <2>6. CurationInv'
    <3>1. CASE CurationChanges
      <4>1. ~curationRaced' => ~curationRaced /\ curationLoad = None BY <3>1 DEF CurationChanges
      <4>2. /\ notes' \in {None, versions + 1} /\ versions' = versions + 1 /\ versions \in Nat
            /\ UNCHANGED <<curation, curationLoad>>
        BY <3>1 DEF CurationChanges, CatalogTypeOK
      <4>3. curation.time \in Version /\ (curation.time # None => curation.time <= versions)
        BY DEF CatalogInv, CurationInv, CatalogTypeOK, Older
      <4>4. notes' # None => curation.time # notes' BY <4>2, <4>3 DEF Version
      <4> QED BY <4>1, <4>2, <4>3, <4>4 DEF CurationInv, CurationIsOnDisk, Older, Version
    <3>2. CASE CurationRead
      BY <2>1, <3>2 DEF CurationRead, CatalogInv, CurationInv, CurationIsOnDisk, CatalogTypeOK,
         Older, Version, filesOf
    <3>3. CASE CurationKept
      BY <2>1, <3>3 DEF CurationKept, CatalogInv, CurationInv, CurationIsOnDisk, CatalogTypeOK,
         Older, Version, filesOf
    <3> QED BY <1>15, <3>1, <3>2, <3>3
  <2> QED BY <2>3, <2>4, <2>5, <2>6 DEF CatalogInv
<1>16. CASE UNCHANGED catalogVars
  <2>1. Kept /\ UNCHANGED <<index, scan, raced, load, cache>> BY <1>16 DEF catalogVars, filesOf, curations
  <2> QED BY <1>2, <1>3, <1>4, <1>5, <2>1 DEF CatalogInv
<1> QED
  BY <1>1, <1>6, <1>7, <1>9, <1>10, <1>11, <1>12, <1>13, <1>14, <1>15, <1>16 DEF CatalogNext

(***************************************************************************)
(* The catalog is fresh, for any entries, readers and changes of files:    *)
(* when the times say that nothing changed, what is cached was read from   *)
(* the files as they are.  What carries it is that a load which saw        *)
(* another file than the one indexed did so because the file is another    *)
(* one by now, and versions of a file do not come back.                    *)
(***************************************************************************)
THEOREM CatalogStaysFresh == PlatformSpec => []CatalogIsFresh
<1> USE CatalogAssumption
<1> DEFINE Inv == CatalogTypeOK /\ CatalogInv
<1>1. PlatformInit => Inv
  <2> SUFFICES ASSUME PlatformInit PROVE Inv OBVIOUS
  <2>1. CatalogTypeOK BY DEF PlatformInit, CatalogInit, CatalogTypeOK, IndexEntries, Version
  <2>2. CatalogInv
    BY DEF PlatformInit, CatalogInit, CatalogInv, IndexHolds, CurationInv, CurationIsOnDisk,
       CacheHolds, Older
  <2> QED BY <2>1, <2>2
<1>2. Inv /\ [PlatformNext]_platformVars => Inv'
  BY ServiceSteps, CatalogTypeStep, CatalogInvStep
<1>3. Inv => CatalogIsFresh
  <2> SUFFICES ASSUME Inv, NEW n \in Entries \ raced, index[n] # None, cache[n] # None,
                      Stat(n, index[n]) = index[n]
               PROVE  cache[n] = index[n]
    BY DEF CatalogIsFresh, CachedIsOnDisk, CatalogInv, CurationInv
  <2>1. index[n] \in IndexEntries /\ cache[n] \in IndexEntries BY DEF CatalogTypeOK
  <2>2. sidecar[n] = index[n].side /\ (index[n].chart = None \/ chart[n] = index[n].chart)
    BY <2>1 DEF Stat, IndexEntries
  <2>3. cache[n].side = index[n].side /\ cache[n].chart = index[n].chart
    BY <2>2 DEF CatalogInv, CacheHolds, SideRead, ChartsRead
  <2> QED BY <2>1, <2>3 DEF IndexEntries
<1> QED BY <1>1, <1>2, <1>3, PTL DEF PlatformSpec

-----------------------------------------------------------------------------
(* Models *)

\* The files of a model before this one are there.
WholeBefore(m, k) == \A g \in 1 .. NumFiles : g < k => disk[m][g] = "whole"

\* A downloader is done with the files before the one it is at.
DownloadHolds(m) ==
  /\ m \in done => WholeBefore(m, NumFiles + 1)
  /\ pod[m] # None =>
       /\ pod[m].at \in {"pick", "fetch"} => WholeBefore(m, pod[m].file)
       /\ pod[m].at = "mark" => WholeBefore(m, NumFiles + 1)

DownloadsInv == \A m \in VLLMModels \ odd : DownloadHolds(m)

\* Only a vLLM model is installed, followed and offered.
OperationOK(work) ==
  /\ IF work.at = "ollama" THEN work.model \in OllamaModels ELSE work.model \in VLLMModels
  /\ work.at \in {"pull", "follow"} => work.kind = "downloading"
  /\ work.at = "data" => work.kind = "uninstalling"

\* How far the endpoint of m, being worked on, follows its release.
EndpointFollows(work, m, existing, offered) ==
  /\ work.at \in {"ollama", "pull", "helm"} => (m \in offered <=> m \in existing)
  /\ work.at \in {"follow", "read", "write"} => (work.kind = "downloading" <=> m \in existing)
  /\ work.at = "data" => m \notin offered /\ m \notin existing

WorksOn(o, m) == op[o] # None /\ op[o].model = m

\* Two operations that have the list in hand have models nothing is claimed about; every
\* other list in hand is still the list.
ListsInv ==
  /\ \A o, q \in ModelOps : o # q /\ ModelAt(o, "write") /\ ModelAt(q, "write")
       => op[o].model \in odd
  /\ \A o \in ModelOps, m \in VLLMModels \ odd : ModelAt(o, "write")
       => (m \in op[o].seen <=> m \in listed)

OperationsInv ==
  /\ \A o \in ModelOps : op[o] # None => OperationOK(op[o])
  /\ \A m \in AllModels \ odd, o, q \in ModelOps : WorksOn(o, m) /\ WorksOn(q, m) => o = q
  /\ \A m \in AllModels : (\A o \in ModelOps : ~WorksOn(o, m)) => active[m] = None
  /\ \A m \in AllModels \ odd, o \in ModelOps : WorksOn(o, m) => active[m] = op[o].kind
  /\ \A m \in VLLMModels \ odd, o \in ModelOps :
       WorksOn(o, m) => EndpointFollows(op[o], m, releases, listed)
  /\ \A m \in VLLMModels \ odd :
       (\A o \in ModelOps : ~WorksOn(o, m)) => (m \in listed <=> m \in releases)

ModelsInv == DownloadsInv /\ ListsInv /\ OperationsInv

\* The next file, or the marker.
LEMMA FileNext ==
  ASSUME ModelsTypeOK, NEW m \in VLLMModels, pod[m] # None, NextFile(m)
  PROVE  /\ pod' \in [VLLMModels -> {None} \cup Downloaders]
         /\ \A n \in VLLMModels \ {m} : pod'[n] = pod[n]
         /\ \/ pod'[m].at = "pick" /\ pod'[m].file = pod[m].file + 1
            \/ pod'[m].at = "mark" /\ pod[m].file = NumFiles
         /\ pod[m] \in Downloaders /\ pod[m].file \in 0 .. NumFiles
<1> USE ModelsAssumption
<1>1. pod[m] \in Downloaders /\ pod[m].file \in 0 .. NumFiles BY DEF ModelsTypeOK, Downloaders
<1> DEFINE next == [at |-> "pick", file |-> pod[m].file + 1, tries |-> 0]
           last == [pod[m] EXCEPT !.at = "mark"]
<1>2. pod' = [pod EXCEPT ![m] = IF pod[m].file < NumFiles THEN next ELSE last] BY DEF NextFile
<1>3. pod[m].file < NumFiles => next \in Downloaders BY <1>1 DEF Downloaders
<1>4. last \in Downloaders /\ last.at = "mark" BY <1>1 DEF Downloaders
<1>5. next.at = "pick" /\ next.file = pod[m].file + 1 OBVIOUS
<1> HIDE DEF next, last
<1>6. pod'[m] = (IF pod[m].file < NumFiles THEN next ELSE last) /\ \A n \in VLLMModels \ {m} : pod'[n] = pod[n]
  BY <1>2 DEF ModelsTypeOK
<1>7. pod' \in [VLLMModels -> {None} \cup Downloaders] BY <1>2, <1>3, <1>4 DEF ModelsTypeOK
<1>8. ~(pod[m].file < NumFiles) => pod[m].file = NumFiles BY <1>1
<1> QED BY <1>1, <1>4, <1>5, <1>6, <1>7, <1>8

LEMMA DownloaderExits ==
  ASSUME ModelsTypeOK, NEW m \in VLLMModels, pod[m] # None, Exits(m)
  PROVE  /\ pod' \in [VLLMModels -> {None} \cup Downloaders]
         /\ \A n \in VLLMModels \ {m} : pod'[n] = pod[n]
         /\ pod'[m].at = "exited"
<1>1. pod[m] \in Downloaders BY DEF ModelsTypeOK
<1> DEFINE new == [pod[m] EXCEPT !.at = "exited"]
<1>2. pod' = [pod EXCEPT ![m] = new] BY DEF Exits, ModelsTypeOK
<1>3. new \in Downloaders /\ new.at = "exited" BY <1>1 DEF Downloaders
<1> HIDE DEF new
<1> QED BY <1>2, <1>3 DEF ModelsTypeOK

\* The file in hand is in this state on the disk.
FileBecomes(m, state) == disk' = [disk EXCEPT ![m][pod[m].file] = state]

LEMMA FileChanged ==
  ASSUME ModelsTypeOK, NEW m \in VLLMModels, pod[m] # None,
         NEW state \in {"part", "whole"}, FileBecomes(m, state)
  PROVE  /\ disk' \in [VLLMModels -> [0 .. NumFiles -> {"none", "part", "whole"}]]
         /\ \A n \in VLLMModels \ {m} : disk'[n] = disk[n]
         /\ disk'[m][pod[m].file] = state
         /\ \A g \in (0 .. NumFiles) \ {pod[m].file} : disk'[m][g] = disk[m][g]
<1>1. pod[m].file \in 0 .. NumFiles BY DEF ModelsTypeOK, Downloaders
<1> DEFINE new == [disk[m] EXCEPT ![pod[m].file] = state]
<1>2. disk' = [disk EXCEPT ![m] = new] BY DEF FileBecomes, ModelsTypeOK
<1>3. disk \in [VLLMModels -> [0 .. NumFiles -> {"none", "part", "whole"}]] BY DEF ModelsTypeOK
<1>4. /\ new \in [0 .. NumFiles -> {"none", "part", "whole"}] /\ new[pod[m].file] = state
      /\ \A g \in (0 .. NumFiles) \ {pod[m].file} : new[g] = disk[m][g]
  <2>1. disk[m] \in [0 .. NumFiles -> {"none", "part", "whole"}] BY <1>3
  <2>2. new \in [0 .. NumFiles -> {"none", "part", "whole"}] BY <1>1, <2>1
  <2>3. new[pod[m].file] = state BY <1>1, <2>1
  <2>4. \A g \in (0 .. NumFiles) \ {pod[m].file} : new[g] = disk[m][g] BY <1>1, <2>1
  <2> QED BY <2>2, <2>3, <2>4
<1> HIDE DEF new
<1> QED BY <1>2, <1>3, <1>4

LEMMA DownloadsStep ==
  ASSUME ModelsTypeOK, DownloadsInv, [ModelsNext]_modelVars
  PROVE  /\ DownloadsInv'
         /\ pod' \in [VLLMModels -> {None} \cup Downloaders]
         /\ disk' \in [VLLMModels -> [0 .. NumFiles -> {"none", "part", "whole"}]]
<1> USE ModelsAssumption
<1> DEFINE Podded == pod' \in [VLLMModels -> {None} \cup Downloaders]
           Stored == disk' \in [VLLMModels -> [0 .. NumFiles -> {"none", "part", "whole"}]]
           Done == DownloadsInv' /\ Podded /\ Stored
<1>0. /\ pod \in [VLLMModels -> {None} \cup Downloaders]
      /\ disk \in [VLLMModels -> [0 .. NumFiles -> {"none", "part", "whole"}]]
      /\ \A m \in VLLMModels : pod[m] # None => pod[m].file \in 0 .. NumFiles
  BY DEF ModelsTypeOK, Downloaders
<1>1. ASSUME UNCHANGED <<pod, disk, done>>, odd \subseteq odd' PROVE Done
  BY <1>0, <1>1 DEF DownloadsInv, DownloadHolds, WholeBefore
\* A step of one model's downloader.
<1>2. ASSUME NEW m \in VLLMModels, odd \subseteq odd',
             \A n \in VLLMModels \ {m} : pod'[n] = pod[n] /\ disk'[n] = disk[n],
             \A n \in VLLMModels \ {m} : n \in done' => n \in done,
             m \notin odd' => DownloadHolds(m)'
      PROVE  DownloadsInv'
  BY <1>2 DEF DownloadsInv, DownloadHolds, WholeBefore
<1>3. ASSUME NEW m \in VLLMModels, FileSkipped(m) PROVE Done
  <2>1. pod[m] # None /\ pod[m].at = "pick" /\ SkipsFile(m, pod[m].file) /\ UNCHANGED <<disk, done, odd>>
    BY <1>3 DEF FileSkipped, PodAt, others
  <2>2. /\ Podded /\ \A n \in VLLMModels \ {m} : pod'[n] = pod[n]
        /\ \/ pod'[m].at = "pick" /\ pod'[m].file = pod[m].file + 1
           \/ pod'[m].at = "mark" /\ pod[m].file = NumFiles
    BY <1>3, <2>1, FileNext DEF FileSkipped
  <2>3. m \notin odd => WholeBefore(m, pod[m].file + 1)
    BY <1>0, <2>1 DEF DownloadsInv, DownloadHolds, WholeBefore, SkipsFile
  <2>4. m \notin odd' => DownloadHolds(m)'
    BY <2>1, <2>2, <2>3 DEF DownloadsInv, DownloadHolds, WholeBefore
  <2> QED BY <1>0, <1>2, <2>1, <2>2, <2>4
<1>4. ASSUME NEW m \in VLLMModels, FetchStarts(m) PROVE Done
  <2>1. /\ pod[m] # None /\ pod[m].at = "pick" /\ ~SkipsFile(m, pod[m].file) /\ UNCHANGED <<done, odd>>
        /\ FileBecomes(m, "part")
        /\ pod' = [pod EXCEPT ![m].at = "fetch"]
    BY <1>4 DEF FetchStarts, FileBecomes, PodAt, others
  <2>2. /\ Podded /\ \A n \in VLLMModels \ {m} : pod'[n] = pod[n]
        /\ pod'[m].at = "fetch" /\ pod'[m].file = pod[m].file
    <3>1. pod[m] \in Downloaders BY <1>0, <2>1
    <3> DEFINE new == [pod[m] EXCEPT !.at = "fetch"]
    <3>2. pod' = [pod EXCEPT ![m] = new] BY <1>0, <2>1
    <3>3. new \in Downloaders /\ new.at = "fetch" /\ new.file = pod[m].file BY <3>1 DEF Downloaders
    <3> HIDE DEF new
    <3> QED BY <1>0, <3>2, <3>3
  <2>3. /\ Stored /\ \A n \in VLLMModels \ {m} : disk'[n] = disk[n]
        /\ \A g \in (0 .. NumFiles) \ {pod[m].file} : disk'[m][g] = disk[m][g]
    BY <2>1, FileChanged
  <2>4. m \notin odd /\ m \in done => pod[m].file = 0
    <3> SUFFICES ASSUME m \notin odd, m \in done, pod[m].file # 0 PROVE FALSE
      OBVIOUS
    <3>1. pod[m].file \in 1 .. NumFiles /\ pod[m].file < NumFiles + 1 BY <1>0, <2>1
    <3>2. WholeBefore(m, NumFiles + 1) BY DEF DownloadsInv, DownloadHolds
    <3>3. disk[m][pod[m].file] = "whole" BY <3>1, <3>2 DEF WholeBefore
    <3> QED BY <2>1, <3>1, <3>3 DEF SkipsFile
  <2>5. ASSUME m \notin odd' PROVE DownloadHolds(m)'
    <3>1. m \notin odd /\ DownloadHolds(m) BY <2>1, <2>5 DEF DownloadsInv
    <3>2. ASSUME m \in done' PROVE WholeBefore(m, NumFiles + 1)'
      <4>1. pod[m].file = 0 /\ WholeBefore(m, NumFiles + 1)
        BY <2>1, <2>4, <3>1, <3>2 DEF DownloadHolds
      <4> QED BY <2>3, <4>1 DEF WholeBefore
    <3>3. ASSUME NEW g \in 1 .. NumFiles, g < pod[m].file PROVE disk'[m][g] = "whole"
      <4>1. disk[m][g] = "whole" BY <2>1, <3>1, <3>3 DEF DownloadHolds, WholeBefore
      <4>2. g \in (0 .. NumFiles) \ {pod[m].file} BY <1>0, <2>1, <3>3
      <4> QED BY <2>3, <4>1, <4>2
    <3>4. WholeBefore(m, pod[m].file)' BY <2>2, <3>3 DEF WholeBefore
    <3> QED BY <2>2, <3>2, <3>4 DEF DownloadHolds
  <2> QED BY <1>2, <2>1, <2>2, <2>3, <2>5
<1>5. ASSUME NEW m \in VLLMModels, FetchEnds(m) PROVE Done
  <2>1. /\ pod[m] # None /\ pod[m].at = "fetch" /\ UNCHANGED <<done, odd>>
        /\ FileBecomes(m, "whole")
    BY <1>5 DEF FetchEnds, FileBecomes, PodAt, others
  <2>2. /\ Podded /\ \A n \in VLLMModels \ {m} : pod'[n] = pod[n]
        /\ \/ pod'[m].at = "pick" /\ pod'[m].file = pod[m].file + 1
           \/ pod'[m].at = "mark" /\ pod[m].file = NumFiles
    BY <1>5, <2>1, FileNext DEF FetchEnds
  <2>3. /\ Stored /\ \A n \in VLLMModels \ {m} : disk'[n] = disk[n]
        /\ disk'[m][pod[m].file] = "whole"
        /\ \A g \in (0 .. NumFiles) \ {pod[m].file} : disk'[m][g] = disk[m][g]
    BY <2>1, FileChanged
  <2>4. m \notin odd' => WholeBefore(m, pod[m].file)
    BY <2>1 DEF DownloadsInv, DownloadHolds
  <2>5. m \notin odd' => \A g \in 1 .. NumFiles : g < pod[m].file + 1 => disk'[m][g] = "whole"
    BY <1>0, <2>1, <2>3, <2>4 DEF WholeBefore
  <2>6. m \notin odd' => (m \in done' => \A g \in 1 .. NumFiles : disk'[m][g] = "whole")
    BY <1>0, <2>1, <2>3 DEF DownloadsInv, DownloadHolds, WholeBefore
  <2>7. m \notin odd' => DownloadHolds(m)'
    BY <1>0, <2>1, <2>2, <2>5, <2>6 DEF DownloadHolds, WholeBefore
  <2> QED BY <1>2, <2>1, <2>2, <2>3, <2>7
<1>6. ASSUME NEW m \in VLLMModels, FetchBreaks(m) PROVE Done
  <2>1. pod[m] # None /\ pod[m].at = "fetch" /\ UNCHANGED <<disk, done, odd>>
    BY <1>6 DEF FetchBreaks, PodAt, others
  <2>2. CASE pod' = [pod EXCEPT ![m].tries = pod[m].tries + 1]
    <3>1. pod[m] \in Downloaders BY <1>0, <2>1
    <3> DEFINE new == [pod[m] EXCEPT !.tries = pod[m].tries + 1]
    <3>2. pod' = [pod EXCEPT ![m] = new] BY <1>0, <2>2
    <3>3. new \in Downloaders /\ new.at = pod[m].at /\ new.file = pod[m].file
      BY <3>1 DEF Downloaders
    <3> HIDE DEF new
    <3>4. Podded /\ pod'[m] = new /\ \A n \in VLLMModels \ {m} : pod'[n] = pod[n] BY <1>0, <3>2, <3>3
    <3>5. m \notin odd' => DownloadHolds(m)'
      BY <2>1, <3>3, <3>4 DEF DownloadsInv, DownloadHolds, WholeBefore
    <3> QED BY <1>0, <1>2, <2>1, <3>4, <3>5
  <2>3. CASE Exits(m)
    <3>1. Podded /\ pod'[m].at = "exited" /\ \A n \in VLLMModels \ {m} : pod'[n] = pod[n]
      BY <2>1, <2>3, DownloaderExits
    <3>2. m \notin odd' => DownloadHolds(m)' BY <2>1, <3>1 DEF DownloadsInv, DownloadHolds, WholeBefore
    <3> QED BY <1>0, <1>2, <2>1, <3>1, <3>2
  <2> QED BY <1>6, <2>2, <2>3 DEF FetchBreaks
<1>7. ASSUME NEW m \in VLLMModels, DoneMarked(m) \/ DownloaderDies(m) PROVE Done
  <2>1. /\ pod[m] # None /\ UNCHANGED <<disk, odd>>
        /\ \/ pod[m].at = "mark" /\ done' = done \cup {m}
           \/ done' = done
    BY <1>7 DEF DoneMarked, DownloaderDies, PodAt, others
  <2>2. Podded /\ pod'[m].at = "exited" /\ \A n \in VLLMModels \ {m} : pod'[n] = pod[n]
    BY <1>7, <2>1, DownloaderExits DEF DoneMarked, DownloaderDies
  <2>3. m \notin odd' => DownloadHolds(m)'
    BY <2>1, <2>2 DEF DownloadsInv, DownloadHolds, WholeBefore
  <2> QED BY <1>0, <1>2, <2>1, <2>2, <2>3
<1>8. ASSUME NEW m \in VLLMModels,
             pod' \in {[pod EXCEPT ![m] = [at |-> "pick", file |-> 0, tries |-> 0]],
                       [pod EXCEPT ![m] = None]},
             UNCHANGED <<disk, done, odd>>
      PROVE  Done
  <2>1. [at |-> "pick", file |-> 0, tries |-> 0] \in Downloaders BY DEF Downloaders
  <2>2. /\ Podded /\ \A n \in VLLMModels \ {m} : pod'[n] = pod[n]
        /\ pod'[m] = None \/ (pod'[m].at = "pick" /\ pod'[m].file = 0)
    <3>1. CASE pod' = [pod EXCEPT ![m] = [at |-> "pick", file |-> 0, tries |-> 0]]
      BY <1>0, <2>1, <3>1
    <3>2. CASE pod' = [pod EXCEPT ![m] = None] BY <1>0, <3>2
    <3> QED BY <1>8, <3>1, <3>2
  <2>3. \A g \in 1 .. NumFiles : ~(g < 0) OBVIOUS
  <2>4. m \notin odd' /\ m \in done' => \A g \in 1 .. NumFiles : g < NumFiles + 1 => disk'[m][g] = "whole"
    BY <1>8 DEF DownloadsInv, DownloadHolds, WholeBefore
  <2>5. m \notin odd' => DownloadHolds(m)'
    BY <2>2, <2>3, <2>4 DEF DownloadHolds, WholeBefore
  <2> QED BY <1>0, <1>2, <1>8, <2>2, <2>5
<1>9. ASSUME NEW m \in VLLMModels, DownloaderRestarts(m) \/ PodRemoved(m) PROVE Done
  BY <1>8, <1>9 DEF DownloaderRestarts, PodRemoved, others
<1>10. ASSUME NEW o \in ModelOps, HelmInstalls(o) PROVE Done
  <2>1. op[o] # None /\ op[o].model \in AllModels /\ UNCHANGED <<disk, done, odd>>
    BY <1>10 DEF HelmInstalls, ModelAt, ModelsTypeOK, ModelJobs, AllModels
  <2>2. CASE UNCHANGED pod BY <1>1, <2>1, <2>2
  <2>3. CASE pod' = [pod EXCEPT ![op[o].model] = [at |-> "pick", file |-> 0, tries |-> 0]]
    <3>1. CASE op[o].model \in VLLMModels BY <1>8, <2>1, <2>3, <3>1
    <3>2. CASE op[o].model \notin VLLMModels
      <4>1. UNCHANGED pod BY <1>0, <2>3, <3>2
      <4> QED BY <1>1, <2>1, <4>1
    <3> QED BY <3>1, <3>2
  <2> QED BY <1>10, <2>2, <2>3 DEF HelmInstalls
<1>11. ASSUME NEW o \in ModelOps, DataRemoved(o) PROVE Done
  <2>1. /\ op[o] # None /\ UNCHANGED pod /\ odd \subseteq odd' /\ done' \subseteq done
    BY <1>11 DEF DataRemoved, ModelAt
  <2>2. Empty \in [0 .. NumFiles -> {"none", "part", "whole"}] BY DEF Empty
  <2>3. /\ Stored /\ \A n \in VLLMModels \ {op[o].model} : disk'[n] = disk[n]
    <3>1. PICK onDisk \in {Empty, disk[op[o].model]} : disk' = [disk EXCEPT ![op[o].model] = onDisk]
      BY <1>11 DEF DataRemoved
    <3>2. op[o].model \in VLLMModels => onDisk \in [0 .. NumFiles -> {"none", "part", "whole"}]
      BY <1>0, <2>2, <3>1
    <3> QED BY <1>0, <3>1, <3>2
  <2>4. op[o].model \in odd' \/ (op[o].model \notin done' /\ pod[op[o].model] = None)
    BY <1>11 DEF DataRemoved
  <2>5. ASSUME NEW m \in VLLMModels, m = op[o].model PROVE Done
    <3>1. m \notin odd' => DownloadHolds(m)' BY <2>1, <2>4, <2>5 DEF DownloadHolds
    <3> QED BY <1>0, <1>2, <2>1, <2>3, <2>5, <3>1
  <2>6. CASE op[o].model \notin VLLMModels
    <3>1. UNCHANGED disk BY <1>0, <2>3, <2>6
    <3> QED BY <1>0, <2>1, <3>1 DEF DownloadsInv, DownloadHolds, WholeBefore
  <2> QED BY <2>5, <2>6
<1>12. ASSUME NEW o \in ModelOps,
              \/ InstallModel(o) \/ UninstallModel(o) \/ OllamaAnswers(o) \/ OpFails(o)
              \/ ImagesPulled(o) \/ HelmUninstalls(o) \/ FollowEnds(o)
              \/ EndpointsRead(o) \/ EndpointsWritten(o)
       PROVE  Done
  <2>1. UNCHANGED <<pod, disk, done>> /\ odd \subseteq odd'
    BY <1>12 DEF InstallModel, UninstallModel, OpStarts, OllamaAnswers, OpFails, ImagesPulled,
       HelmUninstalls, FollowEnds, EndpointsRead, EndpointsWritten, cluster
  <2> QED BY <1>1, <2>1
<1>13. ASSUME ServiceRestarts \/ UNCHANGED modelVars PROVE Done
  BY <1>1, <1>13 DEF ServiceRestarts, modelVars, cluster
<1> QED
  BY <1>3, <1>4, <1>5, <1>6, <1>7, <1>9, <1>10, <1>11, <1>12, <1>13 DEF ModelsNext

LEMMA OperationMoved ==
  ASSUME ModelsTypeOK, NEW o \in ModelOps, op[o] # None, NEW seen \in SUBSET VLLMModels,
         NEW at \in {"helm", "follow", "read", "write", "data"},
         \/ op' = [op EXCEPT ![o].at = at] /\ seen = op[o].seen
         \/ op' = [op EXCEPT ![o].at = at, ![o].seen = seen]
  PROVE  /\ op' \in [ModelOps -> {None} \cup ModelJobs] /\ op'[o] # None
         /\ op'[o].model = op[o].model /\ op'[o].kind = op[o].kind
         /\ op'[o].at = at /\ op'[o].seen = seen
         /\ \A q \in ModelOps \ {o} : op'[q] = op[q]
<1>1. op[o] \in ModelJobs BY DEF ModelsTypeOK
<1> DEFINE new == [op[o] EXCEPT !.at = at, !.seen = seen]
           same == [op[o] EXCEPT !.at = at]
<1>2. /\ new \in ModelJobs /\ new.model = op[o].model /\ new.kind = op[o].kind
      /\ new.at = at /\ new.seen = seen
  BY <1>1 DEF ModelJobs
<1>3. /\ same \in ModelJobs /\ same.model = op[o].model /\ same.kind = op[o].kind
      /\ same.at = at /\ same.seen = op[o].seen
  BY <1>1 DEF ModelJobs
<1>4. \/ op' = [op EXCEPT ![o] = same] /\ seen = op[o].seen
      \/ op' = [op EXCEPT ![o] = new]
  BY DEF ModelsTypeOK
<1> HIDE DEF new, same
<1>5. op'[o] \in {same, new} /\ (op'[o] = same => same = new \/ seen = op[o].seen)
      /\ \A q \in ModelOps \ {o} : op'[q] = op[q]
  BY <1>4 DEF ModelsTypeOK
<1>6. op' \in [ModelOps -> {None} \cup ModelJobs] BY <1>2, <1>3, <1>4 DEF ModelsTypeOK
<1> QED BY <1>2, <1>3, <1>5, <1>6, ModelsAssumption

LEMMA OperationWent ==
  ASSUME ModelsTypeOK, NEW o \in ModelOps, op[o] # None,
         NEW at \in {"helm", "follow", "read", "write", "data"}, ModelGoes(o, at)
  PROVE  /\ op' \in [ModelOps -> {None} \cup ModelJobs] /\ op'[o] # None
         /\ op'[o].model = op[o].model /\ op'[o].kind = op[o].kind
         /\ op'[o].at = at /\ op'[o].seen = op[o].seen
         /\ \A q \in ModelOps \ {o} : op'[q] = op[q]
         /\ active' = active
<1>1. op' = [op EXCEPT ![o].at = at] /\ active' = active BY DEF ModelGoes
<1>2. op[o].seen \in SUBSET VLLMModels BY DEF ModelsTypeOK, ModelJobs
<1>3. PICK seen \in SUBSET VLLMModels : seen = op[o].seen BY <1>2
<1>4. /\ op' \in [ModelOps -> {None} \cup ModelJobs] /\ op'[o] # None
      /\ op'[o].model = op[o].model /\ op'[o].kind = op[o].kind /\ op'[o].at = at
      /\ op'[o].seen = seen /\ \A q \in ModelOps \ {o} : op'[q] = op[q]
  BY <1>1, <1>3, OperationMoved
<1> QED BY <1>1, <1>3, <1>4

\* A step of one operation: what it may do to the list, its model's release, and what others
\* have in hand.
LEMMA OperationSteps ==
  ASSUME ModelsTypeOK, ModelsInv, NEW o \in ModelOps, op[o] # None,
         NEW m \in AllModels, m = op[o].model,
         \A q \in ModelOps \ {o} : op'[q] = op[q],
         op'[o] # None =>
           op'[o].model = m /\ op'[o].kind = op[o].kind /\ OperationOK(op'[o]),
         odd \subseteq odd',
         \A n \in (VLLMModels \ odd') \ {m} :
           (n \in releases' <=> n \in releases) /\ (n \in listed' <=> n \in listed),
         active' = IF op'[o] = None THEN [active EXCEPT ![m] = None] ELSE active,
         op'[o] # None /\ op'[o].at = "write" =>
           /\ \A n \in VLLMModels \ odd' : n \in op'[o].seen <=> n \in listed'
           /\ \A q \in ModelOps \ {o} : ModelAt(q, "write") => m \in odd' /\ op[q].model \in odd',
         m \in VLLMModels \ odd' =>
           /\ \/ m \in listed' <=> m \in listed
              \/ \A q \in ModelOps \ {o} : ~ModelAt(q, "write")
           /\ op'[o] # None => EndpointFollows(op'[o], m, releases', listed')
           /\ op'[o] = None => (m \in listed' <=> m \in releases')
  PROVE  ListsInv' /\ OperationsInv'
<1>1. ListsInv'
  <2>1. ASSUME NEW p \in ModelOps, NEW q \in ModelOps, p # q,
               op'[p] # None, op'[p].at = "write", op'[q] # None, op'[q].at = "write"
        PROVE  op'[p].model \in odd'
    BY <2>1 DEF ModelsInv, ListsInv, ModelAt
  <2>2. ASSUME NEW q \in ModelOps, NEW n \in VLLMModels \ odd', op'[q] # None, op'[q].at = "write"
        PROVE  n \in op'[q].seen <=> n \in listed'
    <3>1. CASE q = o BY <2>2, <3>1
    <3>2. CASE q # o
      <4>1. op'[q] = op[q] /\ ModelAt(q, "write") BY <2>2, <3>2 DEF ModelAt
      <4>2. n \in op[q].seen <=> n \in listed BY <2>2, <4>1 DEF ModelsInv, ListsInv
      <4>3. n \in listed' <=> n \in listed BY <2>2, <3>2, <4>1
      <4> QED BY <4>1, <4>2, <4>3
    <3> QED BY <3>1, <3>2
  <2> QED BY <2>1, <2>2 DEF ListsInv, ModelAt
<1>2. OperationsInv'
  <2>1. \A q \in ModelOps : \A n : q # o => (WorksOn(q, n)' <=> WorksOn(q, n)) BY DEF WorksOn
  <2>2. \A n : WorksOn(o, n)' => n = m BY DEF WorksOn
  <2>3. WorksOn(o, m) /\ (WorksOn(o, m)' <=> op'[o] # None) BY DEF WorksOn
  <2>4. \A n : WorksOn(o, n) <=> n = m BY DEF WorksOn
  <2>5. \A q \in ModelOps : op'[q] # None => OperationOK(op'[q]) BY DEF ModelsInv, OperationsInv
  <2>6. ASSUME NEW n \in AllModels \ odd', NEW p \in ModelOps, NEW q \in ModelOps,
               WorksOn(p, n)', WorksOn(q, n)'
        PROVE  p = q
    <3>1. WorksOn(p, n) /\ WorksOn(q, n) BY <2>1, <2>2, <2>4, <2>6
    <3> QED BY <2>6, <3>1 DEF ModelsInv, OperationsInv
  <2>7. ASSUME NEW n \in AllModels, \A q \in ModelOps : ~WorksOn(q, n)' PROVE active'[n] = None
    <3>1. CASE n = m BY <2>3, <2>7, <3>1 DEF ModelsTypeOK
    <3>2. CASE n # m
      <4>1. \A q \in ModelOps : ~WorksOn(q, n) BY <2>1, <2>4, <2>7, <3>2
      <4>2. active[n] = None BY <4>1 DEF ModelsInv, OperationsInv
      <4> QED BY <3>2, <4>2 DEF ModelsTypeOK
    <3> QED BY <3>1, <3>2
  <2>8. ASSUME NEW n \in AllModels \ odd', NEW q \in ModelOps, WorksOn(q, n)'
        PROVE  active'[n] = op'[q].kind
    <3>1. WorksOn(q, n) BY <2>1, <2>2, <2>4, <2>8
    <3>2. active[n] = op[q].kind BY <2>8, <3>1 DEF ModelsInv, OperationsInv
    <3>3. CASE q = o BY <2>2, <2>3, <2>8, <3>2, <3>3
    <3>4. CASE q # o
      <4>1. n # m BY <2>3, <2>8, <3>1, <3>4 DEF ModelsInv, OperationsInv
      <4> QED BY <3>2, <3>4, <4>1 DEF ModelsTypeOK
    <3> QED BY <3>3, <3>4
  <2>9. ASSUME NEW n \in VLLMModels \ odd', NEW q \in ModelOps, WorksOn(q, n)'
        PROVE  EndpointFollows(op'[q], n, releases', listed')
    <3>1. CASE q = o BY <2>2, <2>3, <2>9, <3>1
    <3>2. CASE q # o
      <4>1. WorksOn(q, n) /\ op'[q] = op[q] BY <2>1, <2>9, <3>2
      <4>2. n # m BY <2>3, <2>9, <3>2, <4>1 DEF ModelsInv, OperationsInv
      <4>3. EndpointFollows(op[q], n, releases, listed) BY <2>9, <4>1 DEF ModelsInv, OperationsInv
      <4> QED BY <2>9, <4>1, <4>2, <4>3 DEF EndpointFollows
    <3> QED BY <3>1, <3>2
  <2>10. ASSUME NEW n \in VLLMModels \ odd', \A q \in ModelOps : ~WorksOn(q, n)'
         PROVE  n \in listed' <=> n \in releases'
    <3>1. CASE n = m BY <2>3, <2>10, <3>1
    <3>2. CASE n # m
      <4>1. \A q \in ModelOps : ~WorksOn(q, n) BY <2>1, <2>4, <2>10, <3>2
      <4> QED BY <2>10, <3>2, <4>1 DEF ModelsInv, OperationsInv
    <3> QED BY <3>1, <3>2
  <2> QED BY <2>5, <2>6, <2>7, <2>8, <2>9, <2>10 DEF OperationsInv
<1> QED BY <1>1, <1>2

\* Nothing of what operations work on has changed.
LEMMA OperationsRest ==
  ASSUME ListsInv, OperationsInv, UNCHANGED <<releases, listed, op, active, odd>>
  PROVE  ListsInv' /\ OperationsInv'
BY DEF ListsInv, OperationsInv, ModelAt, WorksOn

LEMMA ModelsTypeStep ==
  ASSUME ModelsTypeOK, ModelsInv, [ModelsNext]_modelVars
  PROVE  ModelsTypeOK'
<1> USE ModelsAssumption
<1> DEFINE Rest == /\ library' \subseteq OllamaModels
                   /\ releases' \cup done' \cup listed' \subseteq VLLMModels
                   /\ odd' \subseteq AllModels
                   /\ op' \in [ModelOps -> {None} \cup ModelJobs]
                   /\ active' \in [AllModels -> {"downloading", "uninstalling", None}]
<1>0. /\ library \subseteq OllamaModels /\ releases \subseteq VLLMModels /\ done \subseteq VLLMModels
      /\ listed \subseteq VLLMModels /\ odd \subseteq AllModels /\ VLLMModels \subseteq AllModels
      /\ op \in [ModelOps -> {None} \cup ModelJobs]
      /\ active \in [AllModels -> {"downloading", "uninstalling", None}]
      /\ \A o \in ModelOps : op[o] # None =>
           /\ op[o].model \in AllModels /\ op[o].seen \in SUBSET VLLMModels
           /\ op[o].at # "ollama" => op[o].model \in VLLMModels
  BY DEF ModelsTypeOK, ModelJobs, AllModels, ModelsInv, OperationsInv, OperationOK
<1>1. ASSUME NEW o \in ModelOps, NEW m \in AllModels, NEW kind \in {"downloading", "uninstalling"},
             NEW at \in {"ollama", "pull", "helm"}, OpStarts(o, m, kind, at)
      PROVE  Rest
  <2>1. [model |-> m, kind |-> kind, at |-> at, seen |-> {}] \in ModelJobs
    BY DEF ModelJobs, AllModels
  <2>2. op' \in [ModelOps -> {None} \cup ModelJobs] BY <1>0, <1>1, <2>1 DEF OpStarts
  <2>3. active' \in [AllModels -> {"downloading", "uninstalling", None}] BY <1>0, <1>1 DEF OpStarts
  <2>4. UNCHANGED <<library, releases, done, listed>> /\ odd' \subseteq odd \cup {m}
    BY <1>1 DEF OpStarts, cluster
  <2> QED BY <1>0, <2>2, <2>3, <2>4
<1>2. ASSUME NEW o \in ModelOps, InstallModel(o) \/ UninstallModel(o) PROVE Rest
  BY <1>1, <1>2 DEF InstallModel, UninstallModel
<1>3. ASSUME NEW o \in ModelOps, ModelEnds(o)
      PROVE  /\ op' \in [ModelOps -> {None} \cup ModelJobs]
             /\ active' \in [AllModels -> {"downloading", "uninstalling", None}]
  BY <1>0, <1>3 DEF ModelEnds
<1>4. ASSUME NEW o \in ModelOps, op[o] # None, NEW at \in {"helm", "follow", "read", "write", "data"},
             ModelGoes(o, at)
      PROVE  /\ op' \in [ModelOps -> {None} \cup ModelJobs]
             /\ active' \in [AllModels -> {"downloading", "uninstalling", None}]
  BY <1>0, <1>4, OperationMoved DEF ModelGoes
<1>5. ASSUME NEW o \in ModelOps, OllamaAnswers(o) \/ OpFails(o) PROVE Rest
  <2>1. OllamaAnswers(o) => op[o].model \in AllModels /\ op[o].at = "ollama" /\ op[o] # None
    BY <1>0 DEF OllamaAnswers, ModelAt
  <2>2. OllamaAnswers(o) => library' \subseteq OllamaModels
    BY <1>0, <2>1 DEF OllamaAnswers, ModelsInv, OperationsInv, OperationOK
  <2> QED BY <1>0, <1>3, <1>5, <2>2 DEF OllamaAnswers, OpFails, cluster
<1>6. ASSUME NEW o \in ModelOps,
             ImagesPulled(o) \/ HelmInstalls(o) \/ HelmUninstalls(o) \/ FollowEnds(o)
      PROVE  Rest
  <2>1. op[o] # None /\ op[o].model \in VLLMModels
    BY <1>0, <1>6 DEF ImagesPulled, HelmInstalls, HelmUninstalls, FollowEnds, ModelAt
  <2> QED BY <1>0, <1>3, <1>4, <1>6, <2>1
          DEF ImagesPulled, HelmInstalls, HelmUninstalls, FollowEnds, cluster
<1>7. ASSUME NEW o \in ModelOps, EndpointsRead(o) PROVE Rest
  <2>1. op[o] # None BY <1>7 DEF EndpointsRead, ModelAt
  <2>2. op' \in [ModelOps -> {None} \cup ModelJobs]
    BY <1>0, <1>7, <2>1, OperationMoved DEF EndpointsRead
  <2>3. odd' \subseteq AllModels
    <3>1. \A q \in Reading(o) \cup {o} : op[q].model \in AllModels
      BY <1>0, <2>1 DEF Reading, ModelAt
    <3> QED BY <1>0, <1>7, <3>1 DEF EndpointsRead
  <2> QED BY <1>0, <1>7, <2>2, <2>3 DEF EndpointsRead, cluster
<1>8. ASSUME NEW o \in ModelOps, EndpointsWritten(o) PROVE Rest
  <2>1. op[o] # None /\ op[o].model \in VLLMModels BY <1>0, <1>8 DEF EndpointsWritten, ModelAt
  <2>2. listed' \subseteq VLLMModels BY <1>0, <1>8, <2>1 DEF EndpointsWritten, NewEndpoints
  <2> QED BY <1>0, <1>3, <1>4, <1>8, <2>1, <2>2 DEF EndpointsWritten, AfterEndpoint
<1>9. ASSUME NEW o \in ModelOps, DataRemoved(o) PROVE Rest
  <2>1. op[o] # None /\ op[o].model \in AllModels BY <1>0, <1>9 DEF DataRemoved, ModelAt
  <2> QED BY <1>0, <1>3, <1>9, <2>1 DEF DataRemoved
<1>10. ASSUME ServiceRestarts \/ UNCHANGED modelVars PROVE Rest
  <2>1. {op[o].model : o \in {q \in ModelOps : op[q] # None}} \subseteq AllModels BY <1>0
  <2> QED BY <1>0, <1>10, <2>1 DEF ServiceRestarts, modelVars, cluster
<1>11. ASSUME NEW m \in VLLMModels,
              \/ FileSkipped(m) \/ FetchStarts(m) \/ FetchEnds(m) \/ FetchBreaks(m) \/ DoneMarked(m)
              \/ DownloaderDies(m) \/ DownloaderRestarts(m) \/ PodRemoved(m)
       PROVE  Rest
  BY <1>0, <1>11 DEF FileSkipped, FetchStarts, FetchEnds, FetchBreaks, DoneMarked, DownloaderDies,
     DownloaderRestarts, PodRemoved, others
<1>12. Rest
  BY <1>2, <1>5, <1>6, <1>7, <1>8, <1>9, <1>10, <1>11 DEF ModelsNext
<1> QED BY <1>12, DownloadsStep DEF ModelsTypeOK, ModelsInv

LEMMA OperationsStep ==
  ASSUME ModelsTypeOK, ModelsInv, [ModelsNext]_modelVars
  PROVE  ListsInv' /\ OperationsInv'
<1> USE ModelsAssumption
<1> DEFINE Done == ListsInv' /\ OperationsInv'
<1>0. /\ op \in [ModelOps -> {None} \cup ModelJobs] /\ VLLMModels \subseteq AllModels
      /\ active \in [AllModels -> {"downloading", "uninstalling", None}]
      /\ \A o \in ModelOps : op[o] # None =>
           /\ op[o].model \in AllModels /\ op[o].seen \in SUBSET VLLMModels /\ OperationOK(op[o])
           /\ op[o].kind \in {"downloading", "uninstalling"}
           /\ op[o].at # "ollama" => op[o].model \in VLLMModels
           /\ op[o].model \in VLLMModels \ odd =>
                EndpointFollows(op[o], op[o].model, releases, listed)
  BY DEF ModelsTypeOK, ModelJobs, AllModels, ModelsInv, OperationsInv, OperationOK, WorksOn
\* An operation ends.
<1>1. ASSUME NEW o \in ModelOps, op[o] # None, ModelEnds(o), odd \subseteq odd',
             \A n \in (VLLMModels \ odd') \ {op[o].model} :
               (n \in releases' <=> n \in releases) /\ (n \in listed' <=> n \in listed),
             op[o].model \in VLLMModels \ odd' =>
               /\ \/ op[o].model \in listed' <=> op[o].model \in listed
                  \/ \A q \in ModelOps \ {o} : ~ModelAt(q, "write")
               /\ op[o].model \in listed' <=> op[o].model \in releases'
      PROVE  Done
  <2>1. op'[o] = None /\ \A q \in ModelOps \ {o} : op'[q] = op[q] BY <1>0, <1>1 DEF ModelEnds
  <2>2. active' = [active EXCEPT ![op[o].model] = None] BY <1>1 DEF ModelEnds
  <2> QED BY <1>0, <1>1, <2>1, <2>2, OperationSteps
\* An operation goes on, with the list as it is.
<1>2. ASSUME NEW o \in ModelOps, op[o] # None, NEW at \in {"helm", "follow", "read", "data"},
             ModelGoes(o, at), odd' = odd,
             \A n \in (VLLMModels \ odd') \ {op[o].model} :
               (n \in releases' <=> n \in releases) /\ (n \in listed' <=> n \in listed),
             at \in {"follow"} => op[o].kind = "downloading",
             at \in {"data"} => op[o].kind = "uninstalling",
             op[o].model \in VLLMModels,
             op[o].model \notin odd' =>
               /\ \/ op[o].model \in listed' <=> op[o].model \in listed
                  \/ \A q \in ModelOps \ {o} : ~ModelAt(q, "write")
               /\ at = "helm" => (op[o].model \in listed' <=> op[o].model \in releases')
               /\ at \in {"follow", "read"} => (op[o].kind = "downloading" <=> op[o].model \in releases')
               /\ at = "data" => op[o].model \notin listed' /\ op[o].model \notin releases'
      PROVE  Done
  <2>1. /\ op'[o] # None /\ op'[o].model = op[o].model /\ op'[o].kind = op[o].kind /\ op'[o].at = at
        /\ \A q \in ModelOps \ {o} : op'[q] = op[q]
    BY <1>0, <1>2, OperationWent
  <2>2. OperationOK(op'[o]) BY <1>2, <2>1 DEF OperationOK
  <2>3. op[o].model \notin odd' => EndpointFollows(op'[o], op[o].model, releases', listed')
    BY <1>2, <2>1 DEF EndpointFollows
  <2> QED BY <1>0, <1>2, <2>1, <2>2, <2>3, OperationSteps DEF ModelGoes
<1>3. ASSUME NEW o \in ModelOps, NEW m \in AllModels, NEW kind \in {"downloading", "uninstalling"},
             NEW at \in {"ollama", "pull", "helm"}, OpStarts(o, m, kind, at),
             OperationOK([model |-> m, kind |-> kind, at |-> at, seen |-> {}])
      PROVE  Done
  <2> DEFINE new == [model |-> m, kind |-> kind, at |-> at, seen |-> {}]
  <2>1. /\ new.model = m /\ new.kind = kind /\ new.at = at
        /\ new \in ModelJobs
    BY DEF ModelJobs, AllModels
  <2>2. op[o] = None /\ op' = [op EXCEPT ![o] = new] BY <1>3 DEF OpStarts
  <2>3. OperationOK(new) BY <1>3
  <2> HIDE DEF new
  <2>4. /\ op'[o] = new /\ new # None /\ \A q \in ModelOps \ {o} : op'[q] = op[q]
    BY <1>0, <2>1, <2>2
  <2>5. /\ active'[m] = kind /\ \A n \in AllModels \ {m} : active'[n] = active[n]
        /\ UNCHANGED <<releases, listed>>
        /\ odd' = IF Busy(m) # {} THEN odd \cup {m} ELSE odd
    BY <1>0, <1>3 DEF OpStarts, cluster
  <2>6. \A q \in ModelOps : \A n : WorksOn(q, n)' <=> WorksOn(q, n) \/ (q = o /\ n = m)
    BY <2>1, <2>2, <2>4 DEF WorksOn
  <2>7. m \notin odd' => \A q \in ModelOps : ~WorksOn(q, m) BY <2>5 DEF Busy, WorksOn
  <2>8. ListsInv' BY <2>1, <2>2, <2>4, <2>5 DEF ModelsInv, ListsInv, ModelAt
  <2>9. \A q \in ModelOps : op'[q] # None => OperationOK(op'[q]) BY <1>0, <2>3, <2>4
  <2>10. ASSUME NEW n \in AllModels \ odd', NEW p \in ModelOps, NEW q \in ModelOps,
                WorksOn(p, n)', WorksOn(q, n)'
         PROVE  p = q
    BY <2>5, <2>6, <2>7, <2>10 DEF ModelsInv, OperationsInv
  <2>11. ASSUME NEW n \in AllModels, \A q \in ModelOps : ~WorksOn(q, n)' PROVE active'[n] = None
    <3>1. n # m /\ \A q \in ModelOps : ~WorksOn(q, n) BY <2>6, <2>11
    <3> QED BY <2>5, <3>1 DEF ModelsInv, OperationsInv
  <2>12. ASSUME NEW n \in AllModels \ odd', NEW q \in ModelOps, WorksOn(q, n)'
         PROVE  active'[n] = op'[q].kind
    <3>1. CASE n = m
      <4>1. q = o BY <2>6, <2>7, <2>12, <3>1
      <4> QED BY <2>1, <2>4, <2>5, <3>1, <4>1
    <3>2. CASE n # m
      <4>1. WorksOn(q, n) /\ q # o BY <2>2, <2>6, <2>12, <3>2 DEF WorksOn
      <4> QED BY <2>4, <2>5, <2>12, <3>2, <4>1 DEF ModelsInv, OperationsInv
    <3> QED BY <3>1, <3>2
  <2>13. ASSUME NEW n \in VLLMModels \ odd', NEW q \in ModelOps, WorksOn(q, n)'
         PROVE  EndpointFollows(op'[q], n, releases', listed')
    <3>1. CASE n = m
      <4>1. q = o BY <2>6, <2>7, <2>13, <3>1
      <4>2. n \in listed <=> n \in releases BY <2>5, <2>7, <2>13, <3>1 DEF ModelsInv, OperationsInv
      <4> QED BY <2>1, <2>4, <2>5, <4>1, <4>2 DEF EndpointFollows
    <3>2. CASE n # m
      <4>1. WorksOn(q, n) /\ q # o BY <2>2, <2>6, <2>13, <3>2 DEF WorksOn
      <4>2. EndpointFollows(op[q], n, releases, listed) BY <2>5, <2>13, <4>1 DEF ModelsInv, OperationsInv
      <4> QED BY <2>4, <2>5, <4>1, <4>2
    <3> QED BY <3>1, <3>2
  <2>14. ASSUME NEW n \in VLLMModels \ odd', \A q \in ModelOps : ~WorksOn(q, n)'
         PROVE  n \in listed' <=> n \in releases'
    BY <2>5, <2>6, <2>14 DEF ModelsInv, OperationsInv
  <2> QED BY <2>8, <2>9, <2>10, <2>11, <2>12, <2>13, <2>14 DEF OperationsInv
<1>4. ASSUME NEW o \in ModelOps, InstallModel(o) \/ UninstallModel(o) PROVE Done
  <2>1. PICK m \in AllModels, kind \in {"downloading", "uninstalling"},
             at \in {"ollama", "pull", "helm"} :
          /\ OpStarts(o, m, kind, at)
          /\ IF at = "ollama" THEN m \in OllamaModels ELSE m \notin OllamaModels
          /\ at = "pull" => kind = "downloading"
    BY <1>4 DEF InstallModel, UninstallModel
  <2>2. OperationOK([model |-> m, kind |-> kind, at |-> at, seen |-> {}])
    BY <2>1 DEF OperationOK, AllModels
  <2> QED BY <1>3, <2>1, <2>2
<1>5. ASSUME NEW o \in ModelOps, OllamaAnswers(o) \/ OpFails(o) PROVE Done
  <2>1. /\ op[o] # None /\ op[o].at \in {"ollama", "pull", "helm"} /\ ModelEnds(o)
        /\ UNCHANGED <<releases, listed, odd>>
    BY <1>5 DEF OllamaAnswers, OpFails, ModelAt, cluster
  <2>2. op[o].model \in VLLMModels \ odd => (op[o].model \in listed <=> op[o].model \in releases)
    BY <1>0, <2>1 DEF EndpointFollows
  <2> QED BY <1>1, <2>1, <2>2
<1>6. ASSUME NEW o \in ModelOps, ImagesPulled(o) \/ FollowEnds(o) PROVE Done
  <2>1. PICK at \in {"helm", "read"} :
          /\ op[o] # None /\ ModelGoes(o, at) /\ UNCHANGED <<releases, listed, odd>>
          /\ op[o].at = IF at = "helm" THEN "pull" ELSE "follow"
    BY <1>6 DEF ImagesPulled, FollowEnds, ModelAt, cluster
  <2> QED BY <1>0, <1>2, <2>1 DEF EndpointFollows
<1>7. ASSUME NEW o \in ModelOps, HelmInstalls(o) PROVE Done
  <2>1. /\ op[o] # None /\ op[o].at = "helm" /\ op[o].kind = "downloading"
        /\ UNCHANGED <<listed, odd>>
    BY <1>7 DEF HelmInstalls, ModelAt
  <2>2. CASE op[o].model \in releases /\ ModelEnds(o) /\ UNCHANGED releases
    BY <1>0, <1>1, <2>1, <2>2 DEF EndpointFollows
  <2>3. CASE ModelGoes(o, "follow") /\ releases' = releases \cup {op[o].model}
    BY <1>0, <1>2, <2>1, <2>3
  <2> QED BY <1>7, <2>2, <2>3 DEF HelmInstalls
<1>8. ASSUME NEW o \in ModelOps, HelmUninstalls(o) PROVE Done
  <2>1. /\ op[o] # None /\ op[o].at = "helm" /\ op[o].kind = "uninstalling"
        /\ UNCHANGED <<listed, odd>> /\ releases' = releases \ {op[o].model}
    BY <1>8 DEF HelmUninstalls, ModelAt
  <2>2. CASE op[o].model \notin releases /\ ModelEnds(o)
    BY <1>0, <1>1, <2>1, <2>2 DEF EndpointFollows
  <2>3. CASE ModelGoes(o, "read") BY <1>0, <1>2, <2>1, <2>3
  <2> QED BY <1>8, <2>2, <2>3 DEF HelmUninstalls
<1>9. ASSUME NEW o \in ModelOps, EndpointsRead(o) PROVE Done
  <2>1. op[o] # None /\ op[o].at = "read" /\ UNCHANGED <<releases, listed, active>>
    BY <1>9 DEF EndpointsRead, ModelAt, cluster
  <2>2. PICK seen \in SUBSET VLLMModels : op' = [op EXCEPT ![o].at = "write", ![o].seen = seen]
          /\ \/ seen = listed
                /\ odd' = IF Reading(o) = {} THEN odd
                           ELSE odd \cup {op[q].model : q \in Reading(o) \cup {o}}
             \/ odd' = odd \cup VLLMModels
    <3>1. listed \in SUBSET VLLMModels BY DEF ModelsTypeOK
    <3>2. CASE /\ op' = [op EXCEPT ![o].at = "write", ![o].seen = listed]
               /\ odd' = IF Reading(o) = {} THEN odd
                         ELSE odd \cup {op[q].model : q \in Reading(o) \cup {o}}
      BY <3>1, <3>2
    <3>3. CASE /\ op' = [op EXCEPT ![o].at = "write", ![o].seen = {}]
               /\ odd' = odd \cup VLLMModels
      <4> WITNESS {} \in SUBSET VLLMModels
      <4> QED BY <3>3
    <3> QED BY <1>9, <3>2, <3>3 DEF EndpointsRead
  <2>3. /\ op'[o] # None /\ op'[o].model = op[o].model /\ op'[o].kind = op[o].kind
        /\ op'[o].at = "write" /\ op'[o].seen = seen
        /\ \A q \in ModelOps \ {o} : op'[q] = op[q]
    BY <2>1, <2>2, OperationMoved
  <2>4. OperationOK(op'[o]) BY <1>0, <2>1, <2>3 DEF OperationOK
  <2>5. odd \subseteq odd' BY <2>2
  <2>6. \A n \in VLLMModels \ odd' : n \in op'[o].seen <=> n \in listed' BY <2>1, <2>2, <2>3
  <2>7. ASSUME NEW q \in ModelOps \ {o}, ModelAt(q, "write")
        PROVE  op[o].model \in odd' /\ op[q].model \in odd'
    <3>1. q \in Reading(o) BY <2>7 DEF Reading
    <3>2. op[o].model \in VLLMModels /\ op[q].model \in VLLMModels
      BY <1>0, <2>1, <2>7 DEF ModelAt
    <3> QED BY <2>2, <3>1, <3>2
  <2>8. op[o].model \in VLLMModels \ odd' => EndpointFollows(op'[o], op[o].model, releases', listed')
    BY <1>0, <2>1, <2>3, <2>5 DEF EndpointFollows
  <2> QED BY <1>0, <2>1, <2>3, <2>4, <2>5, <2>6, <2>7, <2>8, OperationSteps
<1>10. ASSUME NEW o \in ModelOps, EndpointsWritten(o) PROVE Done
  <2>1. /\ op[o] # None /\ op[o].at = "write" /\ ModelAt(o, "write") /\ UNCHANGED releases
        /\ AfterEndpoint(o) /\ odd \subseteq odd' /\ op[o].model \in VLLMModels
    BY <1>0, <1>10 DEF EndpointsWritten, ModelAt
  <2>2. \A n \in VLLMModels \ odd : n \in op[o].seen <=> n \in listed
    BY <2>1 DEF ModelsInv, ListsInv
  <2>3. op[o].model \notin odd' => \A q \in ModelOps \ {o} : ~ModelAt(q, "write")
    BY <2>1 DEF ModelsInv, ListsInv
  <2>4. \A n \in (VLLMModels \ odd') \ {op[o].model} : n \in listed' <=> n \in listed
    BY <1>10, <2>1, <2>2 DEF EndpointsWritten, NewEndpoints
  <2>5. op[o].model \notin odd' => (op[o].model \in listed' <=> op[o].kind = "downloading")
    BY <1>0, <1>10, <2>1, <2>2 DEF EndpointsWritten, NewEndpoints
  <2>6. op[o].model \notin odd' => (op[o].kind = "downloading" <=> op[o].model \in releases)
    BY <1>0, <2>1 DEF EndpointFollows
  <2>7. CASE op[o].kind = "downloading" /\ ModelEnds(o)
    BY <1>1, <2>1, <2>3, <2>4, <2>5, <2>6, <2>7
  <2>8. CASE op[o].kind = "uninstalling" /\ ModelGoes(o, "data")
    <3>1. /\ op'[o] # None /\ op'[o].model = op[o].model /\ op'[o].kind = op[o].kind
          /\ op'[o].at = "data" /\ \A q \in ModelOps \ {o} : op'[q] = op[q] /\ active' = active
      BY <1>0, <2>1, <2>8, OperationWent
    <3>2. OperationOK(op'[o]) BY <2>1, <2>8, <3>1 DEF OperationOK
    <3>3. op[o].model \notin odd' => EndpointFollows(op'[o], op[o].model, releases', listed')
      BY <2>1, <2>5, <2>6, <2>8, <3>1 DEF EndpointFollows
    <3> QED BY <1>0, <2>1, <2>3, <2>4, <2>8, <3>1, <3>2, <3>3, OperationSteps DEF ModelGoes
  <2> QED BY <1>0, <2>1, <2>7, <2>8 DEF AfterEndpoint
<1>11. ASSUME NEW o \in ModelOps, DataRemoved(o) PROVE Done
  <2>1. /\ op[o] # None /\ op[o].at = "data" /\ ModelEnds(o) /\ UNCHANGED <<releases, listed>>
        /\ odd \subseteq odd'
    BY <1>11 DEF DataRemoved, ModelAt
  <2>2. op[o].model \in VLLMModels \ odd' => op[o].model \notin listed /\ op[o].model \notin releases
    BY <1>0, <2>1 DEF EndpointFollows
  <2> QED BY <1>1, <2>1, <2>2
<1>12. ASSUME ServiceRestarts PROVE Done
  <2>1. /\ \A o \in ModelOps : op'[o] = None
        /\ \A m \in AllModels : active'[m] = None
        /\ odd' = odd \cup {op[o].model : o \in {q \in ModelOps : op[q] # None}}
        /\ UNCHANGED <<releases, listed>>
    BY <1>12 DEF ServiceRestarts, cluster
  <2>2. \A o \in ModelOps : \A m : ~WorksOn(o, m)' BY <2>1 DEF WorksOn
  <2>3. \A m \in VLLMModels \ odd' : \A o \in ModelOps : ~WorksOn(o, m) BY <2>1 DEF WorksOn
  <2>4. \A m \in VLLMModels \ odd' : m \in listed' <=> m \in releases'
    BY <2>1, <2>3 DEF ModelsInv, OperationsInv
  <2>5. ListsInv' BY <2>1 DEF ListsInv, ModelAt
  <2> QED BY <2>1, <2>2, <2>4, <2>5 DEF OperationsInv
<1>13. ASSUME NEW m \in VLLMModels,
              \/ FileSkipped(m) \/ FetchStarts(m) \/ FetchEnds(m) \/ FetchBreaks(m) \/ DoneMarked(m)
              \/ DownloaderDies(m) \/ DownloaderRestarts(m) \/ PodRemoved(m)
       PROVE  Done
  <2>1. UNCHANGED <<releases, listed, op, active, odd>>
    BY <1>13 DEF FileSkipped, FetchStarts, FetchEnds, FetchBreaks, DoneMarked, DownloaderDies,
       DownloaderRestarts, PodRemoved, others
  <2> QED BY <2>1, OperationsRest DEF ModelsInv
<1>14. CASE UNCHANGED modelVars BY <1>14, OperationsRest DEF modelVars, cluster, ModelsInv
<1> QED
  BY <1>4, <1>5, <1>6, <1>7, <1>8, <1>9, <1>10, <1>11, <1>12, <1>13, <1>14 DEF ModelsNext

(***************************************************************************)
(* Models agree, for any models, files, operations, breaks and restarts:   *)
(* a marked model is whole, the endpoints are those of the releases, and   *)
(* what is shown as under way is.  What carries it is that an operation    *)
(* which has the list in hand has the list as it is, unless another one    *)
(* has it too, and that a downloader is done with the files before its own.*)
(***************************************************************************)
THEOREM ModelsStayInStep == PlatformSpec => []ModelsAgree
<1> USE ModelsAssumption
<1> DEFINE Inv == ModelsTypeOK /\ ModelsInv
<1>1. PlatformInit => Inv
  <2> SUFFICES ASSUME PlatformInit PROVE Inv OBVIOUS
  <2>1. ModelsTypeOK
    BY DEF PlatformInit, ModelsInit, ModelsTypeOK, Empty
  <2>2. ModelsInv
    BY DEF PlatformInit, ModelsInit, ModelsInv, DownloadsInv, DownloadHolds, ListsInv, ModelAt,
       OperationsInv, WorksOn
  <2> QED BY <2>1, <2>2
<1>2. Inv /\ [PlatformNext]_platformVars => Inv'
  <2> SUFFICES ASSUME Inv, [PlatformNext]_platformVars PROVE Inv' OBVIOUS
  <2>1. [ModelsNext]_modelVars BY ServiceSteps
  <2>2. ModelsTypeOK' /\ DownloadsInv' /\ ListsInv' /\ OperationsInv'
    BY <2>1, ModelsTypeStep, DownloadsStep, OperationsStep DEF ModelsInv
  <2> QED BY <2>2 DEF ModelsInv
<1>3. Inv => ModelsAgree
  <2> SUFFICES ASSUME Inv PROVE ModelsAgree OBVIOUS
  <2>1. done \subseteq VLLMModels BY DEF ModelsTypeOK
  <2>2. DoneIsWhole
    BY <2>1 DEF DoneIsWhole, ModelsInv, DownloadsInv, DownloadHolds, WholeBefore
  <2>3. \A m : Busy(m) = {} <=> \A o \in ModelOps : ~WorksOn(o, m) BY DEF Busy, WorksOn
  <2>4. EndpointsAgree BY <2>3 DEF EndpointsAgree, ModelsInv, OperationsInv
  <2>5. ActiveAgrees BY <2>3 DEF ActiveAgrees, ModelsInv, OperationsInv, Busy, WorksOn
  <2> QED BY <2>2, <2>4, <2>5 DEF ModelsAgree
<1> QED BY <1>1, <1>2, <1>3, PTL DEF PlatformSpec

-----------------------------------------------------------------------------
(* Sessions *)

CallRecords == [op : Operations, id : Sessions, held : Session, at : Steps,
                what : Secrets \cup Sessions \cup {None}]

\* An activation that goes on holds a secret whose code was right.
SessionsInv ==
  /\ SessionsTypeOK
  /\ ActiveIsShown
  /\ \A c \in Calls : At(c, "activate", "store") => call[c].what \in shown[call[c].held.user]

LEMMA CallMoved ==
  ASSUME SessionsTypeOK, NEW c \in Calls, call[c] # None, NEW step \in Steps,
         NEW what \in Secrets \cup Sessions \cup {None}, Goes(c, step, what)
  PROVE  /\ call' \in [Calls -> {None} \cup CallRecords]
         /\ call'[c].at = step /\ call'[c].what = what /\ call'[c].held = call[c].held
         /\ \A d \in Calls \ {c} : call'[d] = call[d]
<1> DEFINE new == [call[c] EXCEPT !.at = step, !.what = what]
<1>1. call \in [Calls -> {None} \cup CallRecords] /\ call[c] \in CallRecords
  BY DEF SessionsTypeOK, CallRecords
<1>2. call' = [call EXCEPT ![c] = new] BY <1>1 DEF Goes
<1>3. new \in CallRecords /\ new.at = step /\ new.what = what /\ new.held = call[c].held
  BY <1>1 DEF CallRecords
<1> HIDE DEF new
<1> QED BY <1>1, <1>2, <1>3

LEMMA CallEnded ==
  ASSUME SessionsTypeOK, NEW c \in Calls, Ends(c)
  PROVE  /\ call' \in [Calls -> {None} \cup CallRecords]
         /\ \A d \in Calls : call'[d] # None => call'[d] = call[d]
BY DEF Ends, SessionsTypeOK, CallRecords

LEMMA CallKnown ==
  ASSUME SessionsTypeOK, NEW c \in Calls, call[c] # None
  PROVE  /\ call[c] \in CallRecords /\ call[c].held \in Session /\ call[c].held.user \in Users
         /\ call[c].id \in Sessions
BY DEF SessionsTypeOK, CallRecords, Session

LEMMA SessionsStep ==
  ASSUME SessionsInv, [SessionsNext]_sessionVars
  PROVE  SessionsInv' /\ [EndedStaysEnded]_sessionVars
<1> USE DEF CallRecords
<1>1. CASE UNCHANGED sessionVars
  BY <1>1 DEF sessionVars, SessionsInv, SessionsTypeOK, ActiveIsShown, At, EndedStaysEnded
<1>2. ASSUME NEW u \in Users, NEW id \in Sessions, FirstFactor(u, id)
      PROVE  SessionsInv' /\ EndedStaysEnded
  <2>1. [user |-> u, level |-> 1] \in Session
    BY DEF Session
  <2> QED BY <1>2, <2>1 DEF FirstFactor, SessionsInv, SessionsTypeOK, ActiveIsShown, At, EndedStaysEnded
<1>3. ASSUME NEW c \in Calls, NEW id \in Sessions, NEW kind \in Operations, Opens(c, id, kind)
      PROVE  SessionsInv' /\ EndedStaysEnded
  <2>1. PICK new : new = [op |-> kind, id |-> id, held |-> session[id], at |-> "read", what |-> None]
    OBVIOUS
  <2>2. new \in CallRecords /\ new.at = "read"
    BY <1>3, <2>1 DEF Opens, SessionsInv, SessionsTypeOK, Steps
  <2>3. call' = [call EXCEPT ![c] = new]
    BY <1>3, <2>1 DEF Opens
  <2> HIDE DEF CallRecords
  <2>4. call' \in [Calls -> {None} \cup CallRecords]
        /\ \A d \in Calls : call'[d] = call[d] \/ call'[d].at = "read"
    BY <2>2, <2>3 DEF SessionsInv, SessionsTypeOK, CallRecords
  <2> QED BY <1>3, <2>4 DEF Opens, SessionsInv, SessionsTypeOK, ActiveIsShown, At, EndedStaysEnded, CallRecords
<1>4. ASSUME NEW c \in Calls, Verifies(c) \/ Clears(c) \/ Refuses(c)
      PROVE  SessionsInv' /\ EndedStaysEnded
  <2>1. Ends(c) /\ UNCHANGED <<session, made, secret, minted, shown>> /\ call[c] # None
    BY <1>4 DEF Verifies, Touches, Clears, Refuses, At
  <2>2. pending' \in [Users -> Secrets \cup {None}]
    BY <1>4 DEF Verifies, Touches, Clears, Refuses, SessionsInv, SessionsTypeOK
  <2> QED BY <2>1, <2>2, CallEnded DEF SessionsInv, SessionsTypeOK, ActiveIsShown, At, EndedStaysEnded
<1>5. ASSUME NEW c \in Calls, CodeRight(c)
      PROVE  SessionsInv' /\ EndedStaysEnded
  <2>1. call'[c].at # "store" /\ call' \in [Calls -> {None} \cup CallRecords]
        /\ \A d \in Calls \ {c} : call'[d] = call[d]
    BY <1>5, CallMoved, CallKnown DEF CodeRight, At, SessionsInv, Steps
  <2> QED BY <1>5, <2>1 DEF CodeRight, SessionsInv, SessionsTypeOK, ActiveIsShown, At, EndedStaysEnded
<1>6. ASSUME NEW c \in Calls, Upgrades(c)
      PROVE  SessionsInv' /\ EndedStaysEnded
  <2>1. call[c].held \in Session /\ call[c].id \in Sessions /\ Ends(c)
    BY <1>6, CallKnown DEF Upgrades, At, SessionsInv
  <2>2. PICK new : new = [call[c].held EXCEPT !.level = 2]
    OBVIOUS
  <2>3. new \in Session /\ new.level = 2
    BY <2>1, <2>2 DEF Session
  <2>4. session' = [session EXCEPT ![call[c].id] = new]
    BY <1>6, <2>2 DEF Upgrades
  <2>5. session' \in [Sessions -> Session \cup {None}] /\ EndedStaysEnded
    BY <2>1, <2>3, <2>4 DEF SessionsInv, SessionsTypeOK, EndedStaysEnded
  <2> QED BY <1>6, <2>1, <2>5, CallEnded DEF Upgrades, SessionsInv, SessionsTypeOK, ActiveIsShown, At
<1>7. ASSUME NEW c \in Calls, Enrols(c)
      PROVE  SessionsInv' /\ EndedStaysEnded
  <2>1. Ends(c) /\ UNCHANGED <<session, made, secret, shown>> /\ call[c] # None
    BY <1>7 DEF Enrols, At
  <2>2. PICK t \in Secrets : /\ minted' = minted \cup {t}
                             /\ pending' = [pending EXCEPT ![call[c].held.user] = t]
    BY <1>7 DEF Enrols
  <2> QED BY <2>1, <2>2, CallEnded DEF SessionsInv, SessionsTypeOK, ActiveIsShown, At, EndedStaysEnded
<1>8. ASSUME NEW c \in Calls, PendingRight(c)
      PROVE  SessionsInv' /\ EndedStaysEnded
  <2>1. PICK u \in Users : u = call[c].held.user
    BY <1>8, CallKnown DEF PendingRight, At, SessionsInv
  <2>2. /\ pending[u] \in Secrets /\ shown' = [shown EXCEPT ![u] = @ \cup {pending[u]}]
        /\ Goes(c, "store", pending[u]) /\ call[c] # None
    BY <1>8, <2>1 DEF PendingRight, At, SessionsInv, SessionsTypeOK
  <2>3. /\ call' \in [Calls -> {None} \cup CallRecords]
        /\ call'[c].what = pending[u] /\ call'[c].held = call[c].held
        /\ \A d \in Calls \ {c} : call'[d] = call[d]
    BY <2>2, CallMoved DEF SessionsInv, Steps
  <2>5. shown' \in [Users -> SUBSET Secrets] /\ \A x \in Users : shown[x] \subseteq shown'[x]
        /\ pending[u] \in shown'[u]
    BY <2>1, <2>2 DEF SessionsInv, SessionsTypeOK
  <2>6. \A d \in Calls : At(d, "activate", "store")' => call'[d].what \in shown'[call'[d].held.user]
    BY <2>1, <2>3, <2>5, CallKnown DEF SessionsInv, At
  <2> QED BY <1>8, <2>3, <2>5, <2>6 DEF PendingRight, SessionsInv, SessionsTypeOK, ActiveIsShown, EndedStaysEnded
<1>9. ASSUME NEW c \in Calls, Activates(c) \/ Disables(c)
      PROVE  SessionsInv' /\ EndedStaysEnded
  <2>1. PICK u \in Users : u = call[c].held.user
    BY <1>9, CallKnown DEF Activates, Disables, At, SessionsInv
  <2>2. Goes(c, "clear", None) /\ call[c] # None
    BY <1>9 DEF Activates, Disables, At
  <2>3. call'[c].at # "store" /\ call' \in [Calls -> {None} \cup CallRecords]
        /\ \A d \in Calls \ {c} : call'[d] = call[d]
    BY <2>2, CallMoved DEF SessionsInv, Steps
  <2>4. PICK t \in Secrets \cup {None} : secret' = [secret EXCEPT ![u] = t] /\ (t = None \/ t \in shown[u])
    BY <1>9, <2>1 DEF Activates, Activated, Disables, SessionsInv, SessionsTypeOK
  <2> QED BY <1>9, <2>3, <2>4 DEF Activates, Disables, SessionsInv, SessionsTypeOK, ActiveIsShown, At, EndedStaysEnded
<1>10. ASSUME NEW c \in Calls, Finds(c)
       PROVE  SessionsInv' /\ EndedStaysEnded
  <2>1. PICK id \in Sessions : Goes(c, "delete", id) /\ call[c] # None
    BY <1>10 DEF Finds, At
  <2>2. call'[c].at # "store" /\ call' \in [Calls -> {None} \cup CallRecords]
        /\ \A d \in Calls \ {c} : call'[d] = call[d]
    BY <2>1, CallMoved DEF SessionsInv, Steps
  <2> QED BY <1>10, <2>2 DEF Finds, SessionsInv, SessionsTypeOK, ActiveIsShown, At, EndedStaysEnded
<1>11. ASSUME NEW c \in Calls, Revokes(c)
       PROVE  SessionsInv' /\ EndedStaysEnded
  <2>1. Ends(c) /\ session' = [session EXCEPT ![call[c].what] = None]
    BY <1>11 DEF Revokes
  <2>2. session' \in [Sessions -> Session \cup {None}] /\ EndedStaysEnded
    BY <2>1 DEF SessionsInv, SessionsTypeOK, EndedStaysEnded
  <2> QED BY <1>11, <2>1, <2>2, CallEnded DEF Revokes, SessionsInv, SessionsTypeOK, ActiveIsShown, At
<1>12. ASSUME NEW id \in Sessions, SessionEnds(id)
       PROVE  SessionsInv' /\ EndedStaysEnded
  BY <1>12 DEF SessionEnds, SessionsInv, SessionsTypeOK, ActiveIsShown, At, EndedStaysEnded
<1>13. ASSUME NEW u \in Users, PendingExpires(u)
       PROVE  SessionsInv' /\ EndedStaysEnded
  BY <1>13 DEF PendingExpires, SessionsInv, SessionsTypeOK, ActiveIsShown, At, EndedStaysEnded
<1> QED BY <1>1, <1>2, <1>3, <1>4, <1>5, <1>6, <1>7, <1>8, <1>9, <1>10, <1>11, <1>12, <1>13
        DEF SessionsNext

\* handleTOTPRegister, Update and Touch, for any users, sessions and overlapping calls:
\* the secret asked for is one its user had a right code of, and of the calls that hold
\* a session that has ended only a second factor stores it again.
THEOREM SessionsSound == PlatformSpec => SessionsAreSound
<1>1. PlatformInit => SessionsInv
  BY DEF PlatformInit, SessionsInit, SessionsInv, SessionsTypeOK, ActiveIsShown, At
<1>2. SessionsInv /\ [PlatformNext]_platformVars => SessionsInv' /\ [EndedStaysEnded]_sessionVars
  BY ServiceSteps, SessionsStep
<1>3. SessionsInv => ActiveIsShown
  BY DEF SessionsInv
<1> QED BY <1>1, <1>2, <1>3, PTL DEF PlatformSpec, SessionsAreSound

-----------------------------------------------------------------------------
(* The owner's setup *)

\* A copy that the API server would still accept is the owner as it is; a name is only
\* being bound to an owner who had none.
SetupInv ==
  /\ owner \in [bound : BOOLEAN, zone : BOOLEAN, status : Statuses, locale : BOOLEAN, version : Nat]
  /\ ask = [r \in Requests |-> ask[r]]
  /\ \A r \in Requests : ask[r] # None =>
       /\ ask[r] = [kind |-> ask[r].kind, copy |-> ask[r].copy, at |-> ask[r].at]
       /\ ask[r].copy.version \in Nat /\ ask[r].copy.version <= owner.version
       /\ ask[r].copy.version = owner.version => ask[r].copy = owner
       /\ ask[r].kind = "bind" => ask[r].copy.status = "wait_activate_vault"

\* A request that goes on keeps its copy.
LEMMA AskMoved ==
  ASSUME SetupInv, NEW r \in Requests, ask[r] # None,
         Answers(r) \/ \E step \in {"ssl", "write", "wizard"} : Moves(r, step)
  PROVE  /\ ask' = [x \in Requests |-> ask'[x]]
         /\ \A x \in Requests : ask'[x] # None =>
              /\ ask[x] # None
              /\ ask'[x].kind = ask[x].kind /\ ask'[x].copy = ask[x].copy
              /\ ask'[x] = [kind |-> ask'[x].kind, copy |-> ask'[x].copy, at |-> ask'[x].at]
<1>1. CASE Answers(r)
  BY <1>1 DEF Answers, SetupInv
<1>2. ASSUME NEW step \in {"ssl", "write", "wizard"}, Moves(r, step)
      PROVE  /\ ask' = [x \in Requests |-> ask'[x]]
             /\ \A x \in Requests : ask'[x] # None =>
                  /\ ask[x] # None
                  /\ ask'[x].kind = ask[x].kind /\ ask'[x].copy = ask[x].copy
                  /\ ask'[x] = [kind |-> ask'[x].kind, copy |-> ask'[x].copy, at |-> ask'[x].at]
  <2>1. ask[r] = [kind |-> ask[r].kind, copy |-> ask[r].copy, at |-> ask[r].at]
    BY DEF SetupInv
  <2>2. ask'[r] = [kind |-> ask[r].kind, copy |-> ask[r].copy, at |-> step]
        /\ \A x \in Requests \ {r} : ask'[x] = ask[x]
    BY <1>2, <2>1 DEF Moves, SetupInv
  <2> QED BY <1>2, <2>2 DEF Moves, SetupInv
<1> QED BY <1>1, <1>2

\* The steps that leave the owner alone.
LEMMA SetupRests ==
  ASSUME SetupInv, UNCHANGED owner, NEW r \in Requests, ask[r] # None,
         Answers(r) \/ \E step \in {"ssl", "write", "wizard"} : Moves(r, step)
  PROVE  SetupInv' /\ (Complete(owner) => Complete(owner'))
BY AskMoved DEF SetupInv

\* The steps that write it.
LEMMA SetupWrites ==
  ASSUME SetupInv, NEW r \in Requests, ask[r] # None,
         Answers(r) \/ \E step \in {"ssl", "write", "wizard"} : Moves(r, step),
         NEW edited, Writes(r, edited),
         edited \in [bound : BOOLEAN, zone : BOOLEAN, status : Statuses, locale : BOOLEAN, version : Nat],
         Complete(owner) => Complete(edited)
  PROVE  SetupInv' /\ (Complete(owner) => Complete(owner'))
<1>1. owner' = [edited EXCEPT !.version = owner.version + 1] /\ owner.version \in Nat
  BY DEF Writes, SetupInv
<1>2. /\ owner' \in [bound : BOOLEAN, zone : BOOLEAN, status : Statuses, locale : BOOLEAN, version : Nat]
      /\ owner'.version = owner.version + 1 /\ owner'.status = edited.status
  BY <1>1
<1>3. ASSUME NEW x \in Requests, ask'[x] # None
      PROVE  ask'[x].copy.version \in Nat /\ ask'[x].copy.version < owner'.version
  <2>1. ask[x] # None /\ ask'[x].copy = ask[x].copy
    BY <1>3, AskMoved
  <2>2. ask[x].copy.version \in Nat /\ ask[x].copy.version <= owner.version
    BY <2>1, <1>3 DEF SetupInv
  <2> QED BY <1>1, <1>2, <2>1, <2>2
<1> QED BY <1>2, <1>3, AskMoved DEF SetupInv, Complete

LEMMA SetupStep ==
  ASSUME SetupInv, [SetupNext]_setupVars
  PROVE  SetupInv' /\ (Complete(owner) => Complete(owner'))
<1> DEFINE Owners == [bound : BOOLEAN, zone : BOOLEAN, status : Statuses, locale : BOOLEAN, version : Nat]
<1>1. CASE UNCHANGED setupVars
  BY <1>1 DEF setupVars, SetupInv
<1>2. ASSUME NEW r \in Requests, NEW kind, NEW step, Reads(r, kind, step),
             kind = "bind" => owner.status = "wait_activate_vault"
      PROVE  SetupInv' /\ (Complete(owner) => Complete(owner'))
  <2>1. PICK new : new = [kind |-> kind, copy |-> owner, at |-> step]
    OBVIOUS
  <2>2. new.kind = kind /\ new.copy = owner
        /\ new = [kind |-> new.kind, copy |-> new.copy, at |-> new.at]
    BY <2>1
  <2>3. /\ ask' = [ask EXCEPT ![r] = new] /\ UNCHANGED owner
    BY <1>2, <2>1 DEF Reads
  <2>4. /\ ask' = [x \in Requests |-> ask'[x]]
        /\ ask'[r] = new /\ \A x \in Requests \ {r} : ask'[x] = ask[x]
    BY <2>3 DEF SetupInv
  <2>5. owner.version \in Nat
    BY DEF SetupInv
  <2> QED BY <1>2, <2>2, <2>3, <2>4, <2>5 DEF SetupInv
<1>3. ASSUME NEW r \in Requests,
             Binds(r) \/ Unbinds(r) \/ ActivationBegins(r) \/ Downloads(r) \/ Configures(r) \/ Resets(r)
      PROVE  SetupInv' /\ (Complete(owner) => Complete(owner'))
  BY <1>2, <1>3 DEF Binds, Unbinds, ActivationBegins, Downloads, Configures, Resets
<1>4. ASSUME NEW r \in Requests, ask[r] # None, Fresh(r)
      PROVE  ask[r].copy = owner /\ owner \in Owners /\ (ask[r].kind = "bind" => ~Complete(owner))
  BY <1>4 DEF Fresh, SetupInv, Complete
<1>5. ASSUME NEW r \in Requests, BindWrites(r)
      PROVE  SetupInv' /\ (Complete(owner) => Complete(owner'))
  <2>1. ask[r] # None /\ Answers(r) /\ ask[r].kind = "bind"
    BY <1>5 DEF BindWrites, Asking
  <2>2. PICK edited : edited = [ask[r].copy EXCEPT !.bound = TRUE, !.status = "wait_activate_system"]
    OBVIOUS
  <2>3. CASE Writes(r, edited)
    <3>1. edited \in Owners /\ ~Complete(owner)
      BY <1>4, <2>1, <2>2, <2>3 DEF Writes, Statuses
    <3> QED BY <2>1, <2>3, <3>1, SetupWrites
  <2>4. CASE UNCHANGED owner
    BY <2>1, <2>4, SetupRests
  <2> QED BY <1>5, <2>2, <2>3, <2>4 DEF BindWrites, WriteFails
<1>6. ASSUME NEW r \in Requests, UnbindWrites(r)
      PROVE  SetupInv' /\ (Complete(owner) => Complete(owner'))
  <2>1. ask[r] # None /\ (Answers(r) \/ Moves(r, "ssl"))
    BY <1>6 DEF UnbindWrites, Asking
  <2>2. PICK edited : edited = [ask[r].copy EXCEPT !.bound = FALSE, !.zone = FALSE]
    OBVIOUS
  <2>3. CASE Writes(r, edited)
    <3>1. edited \in Owners /\ edited.status = owner.status
      BY <1>4, <2>1, <2>2, <2>3 DEF Writes
    <3> QED BY <2>1, <2>3, <3>1, SetupWrites DEF Complete
  <2>4. CASE UNCHANGED owner
    BY <2>1, <2>4, SetupRests
  <2> QED BY <1>6, <2>2, <2>3, <2>4 DEF UnbindWrites, WriteFails
<1>7. ASSUME NEW r \in Requests, UnbindDeletes(r) \/ CertStores(r) \/ PasswordSets(r) \/ WizardGoes(r)
      PROVE  SetupInv' /\ (Complete(owner) => Complete(owner'))
  <2>1. ask[r] # None /\ UNCHANGED owner /\ (Answers(r) \/ Moves(r, "write"))
    BY <1>7 DEF UnbindDeletes, CertStores, PasswordSets, WizardGoes, Asking
  <2> QED BY <2>1, SetupRests
<1>8. ASSUME NEW r \in Requests, ActivateWrites(r)
      PROVE  SetupInv' /\ (Complete(owner) => Complete(owner'))
  <2>1. ask[r] # None /\ Answers(r)
    BY <1>8 DEF ActivateWrites, Asking
  <2>2. PICK edited : edited = [ask[r].copy EXCEPT !.zone = TRUE, !.locale = TRUE,
                                                   !.status = "wait_reset_password"]
    OBVIOUS
  <2>3. CASE Writes(r, edited)
    <3>1. edited \in Owners /\ Complete(edited)
      BY <1>4, <2>1, <2>2, <2>3 DEF Writes, Statuses, Complete
    <3> QED BY <2>1, <2>3, <3>1, SetupWrites
  <2>4. CASE UNCHANGED owner
    BY <2>1, <2>4, SetupRests
  <2> QED BY <1>8, <2>2, <2>3, <2>4 DEF ActivateWrites, WriteFails
<1>9. ASSUME NEW r \in Requests, ConfigWrites(r)
      PROVE  SetupInv' /\ (Complete(owner) => Complete(owner'))
  <2>1. ask[r] # None /\ Answers(r)
    BY <1>9 DEF ConfigWrites, Asking
  <2>2. PICK edited : edited = [ask[r].copy EXCEPT !.locale = TRUE]
    OBVIOUS
  <2>3. CASE Writes(r, edited)
    <3>1. edited \in Owners /\ edited.status = owner.status
      BY <1>4, <2>1, <2>2, <2>3 DEF Writes
    <3> QED BY <2>1, <2>3, <3>1, SetupWrites DEF Complete
  <2>4. CASE UNCHANGED owner
    BY <2>1, <2>4, SetupRests
  <2> QED BY <1>9, <2>2, <2>3, <2>4 DEF ConfigWrites, WriteFails
<1>10. ASSUME NEW r \in Requests, ResetWrites(r)
       PROVE  SetupInv' /\ (Complete(owner) => Complete(owner'))
  <2>1. ask[r] # None /\ Moves(r, "wizard")
    BY <1>10 DEF ResetWrites, Asking
  <2>2. PICK edited : edited = [ask[r].copy EXCEPT !.status = "completed"]
    OBVIOUS
  <2>3. CASE Writes(r, edited)
    <3>1. edited \in Owners /\ Complete(edited)
      BY <1>4, <2>1, <2>2, <2>3 DEF Writes, Statuses, Complete
    <3> QED BY <2>1, <2>3, <3>1, SetupWrites
  <2>4. CASE UNCHANGED owner
    BY <2>1, <2>4, SetupRests
  <2> QED BY <1>10, <2>2, <2>3, <2>4 DEF ResetWrites, WriteFails
<1>11. CASE SetupRestarts
  BY <1>11 DEF SetupRestarts, SetupInv
<1> QED BY <1>1, <1>3, <1>5, <1>6, <1>7, <1>8, <1>9, <1>10, <1>11 DEF SetupNext

\* handleBindingZone, handleActivate and handleResetPassword, for any number of requests
\* that overlap: what a request writes is an edit of the owner as it is, so none of
\* them takes a complete setup back, however long ago it looked at the owner.
THEOREM SetupStaysComplete == PlatformSpec => NeverReopened
<1>1. PlatformInit => SetupInv
  BY DEF PlatformInit, SetupInit, SetupInv, Statuses
<1>2. SetupInv /\ [PlatformNext]_platformVars
        => SetupInv' /\ [Complete(owner) => Complete(owner')]_setupVars
  BY ServiceSteps, SetupStep
<1> QED BY <1>1, <1>2, PTL DEF PlatformSpec, NeverReopened

-----------------------------------------------------------------------------
(* The network *)

NetworkIsStored ==
  /\ cert.domain = netmap.domain /\ proxyConf.domain = netmap.domain
  /\ netmap.vpn # None => cert.vpn = netmap.vpn /\ proxyConf.vpn = netmap.vpn

\* What a change t that runs alone and failed nowhere has reached.
WellAlong(t) ==
  /\ t.kind = "ip" \/ t.at \in {"env", "restart"} => NetworkIsStored
  /\ t.at = "gather" => IF t.kind = "domain" THEN netmap.domain = t.domain ELSE netmap.vpn = t.vpn
  /\ t.at = "cert" => t.domain = netmap.domain /\ (netmap.vpn # None => t.vpn = netmap.vpn)
  /\ t.at \in {"render", "write"} => cert.domain = netmap.domain /\ (netmap.vpn # None => cert.vpn = netmap.vpn)
  /\ t.at = "write" => t.conf.domain = netmap.domain /\ (netmap.vpn # None => t.conf.vpn = netmap.vpn)

ChangesHold ==
  /\ change = [c \in Changes |-> change[c]]
  /\ \A c \in Changes : change[c] # None =>
       /\ change[c] \in NetworkChanges \cup IPChanges
       /\ change[c].at = "write" => change[c].conf \in ProxyConfs
       /\ change[c].at = "store" =>
            /\ change[c].copy \in NetworkMaps
            /\ change[c].copy.version <= netmap.version
            /\ change[c].copy.version = netmap.version => change[c].copy = netmap

AloneHolds ==
  /\ \A c, d \in Changes : change[c] # None /\ change[d] # None => c = d
  /\ Quiet => NetworkIsStored
  /\ \A c \in Changes : change[c] # None => WellAlong(change[c])

SwitchInv ==
  /\ netmap \in NetworkMaps /\ proxyConf \in ProxyConfs
  /\ ChangesHold
  /\ alone => AloneHolds

\* A change at a step that only changes of the network take, or only the others.
LEMMA ChangeKinds ==
  ASSUME ChangesHold, NEW c \in Changes, change[c] # None
  PROVE  /\ change[c].at \notin {"setting", "edit", "restart"} => change[c] \in NetworkChanges
         /\ change[c].at \in {"setting", "edit"} => change[c] \in IPChanges /\ change[c].kind = "ip"
BY DEF ChangesHold, NetworkChanges, IPChanges

LEMMA ChangeAhead ==
  ASSUME NEW t \in NetworkChanges,
         NEW step \in {"copy", "store", "gather", "cert", "render", "write", "env", "restart"}
  PROVE  /\ [t EXCEPT !.at = step] \in NetworkChanges
         /\ [t EXCEPT !.at = step].at = step /\ [t EXCEPT !.at = step].kind = t.kind
         /\ [t EXCEPT !.at = step].vpn = t.vpn /\ [t EXCEPT !.at = step].domain = t.domain
         /\ [t EXCEPT !.at = step].conf = t.conf
BY DEF NetworkChanges

\* What is left to show of a step of one change.
LEMMA ChangeSteps ==
  ASSUME SwitchInv, NEW c \in Changes, NEW new,
         change' = [change EXCEPT ![c] = new],
         netmap' \in NetworkMaps, proxyConf' \in ProxyConfs,
         netmap' = netmap \/ netmap'.version = netmap.version + 1,
         new # None =>
           /\ new \in NetworkChanges \cup IPChanges
           /\ new.at = "write" => new.conf \in ProxyConfs
           /\ new.at = "store" => new.copy = netmap /\ netmap' = netmap,
         alone' => IF new = None THEN NetworkIsStored' ELSE WellAlong(new)',
         alone' => (alone /\ change[c] # None) \/ Quiet
  PROVE  SwitchInv'
<1>1. /\ change' = [x \in Changes |-> change'[x]]
      /\ change'[c] = new /\ \A x \in Changes \ {c} : change'[x] = change[x]
  BY DEF SwitchInv, ChangesHold
<1>2. netmap.version \in Nat /\ netmap'.version \in Nat
  BY DEF SwitchInv, NetworkMaps
<1>3. ASSUME NEW x \in Changes, change'[x] # None
      PROVE  /\ change'[x] \in NetworkChanges \cup IPChanges
             /\ change'[x].at = "write" => change'[x].conf \in ProxyConfs
             /\ change'[x].at = "store" =>
                  /\ change'[x].copy \in NetworkMaps
                  /\ change'[x].copy.version <= netmap'.version
                  /\ change'[x].copy.version = netmap'.version => change'[x].copy = netmap'
  <2>1. CASE x = c
    BY <1>1, <1>2, <1>3, <2>1 DEF SwitchInv
  <2>2. CASE x # c
    <3>1. change'[x] = change[x] BY <1>1, <2>2
    <3>2. /\ change[x] \in NetworkChanges \cup IPChanges
          /\ change[x].at = "write" => change[x].conf \in ProxyConfs
      BY <3>1, <1>3 DEF SwitchInv, ChangesHold
    <3>3. change[x].at = "store" =>
            /\ change[x].copy \in NetworkMaps
            /\ change[x].copy.version <= netmap.version
            /\ change[x].copy.version = netmap.version => change[x].copy = netmap
      BY <3>1, <1>3 DEF SwitchInv, ChangesHold
    <3>4. change[x].at = "store" => change[x].copy.version \in Nat
      BY <3>3 DEF NetworkMaps
    <3> QED BY <1>2, <3>1, <3>2, <3>3, <3>4
  <2> QED BY <2>1, <2>2
<1>4. ASSUME alone' PROVE AloneHolds'
  <2>1. \A x \in Changes \ {c} : change[x] = None
    BY <1>4 DEF SwitchInv, AloneHolds, Quiet
  <2> QED BY <1>1, <1>4, <2>1 DEF AloneHolds, Quiet
<1> QED BY <1>1, <1>3, <1>4 DEF SwitchInv, ChangesHold

\* A change that begins has reached nothing that could be wrong yet.
LEMMA ChangeBegins ==
  ASSUME SwitchInv, NEW c \in Changes, NEW task \in NetworkChanges \cup IPChanges, Begins(c, task),
         task.at \in {"host", "poll", "copy"} \/ (task.kind = "ip" /\ task.at = "setting")
  PROVE  SwitchInv'
<1>1. UNCHANGED <<netmap, cert, proxyConf>> /\ task # None
  BY SwitchAssumption DEF Begins, derivedVars
<1>2. alone' => Quiet /\ (task.kind = "ip" => alone)
  BY DEF Begins
<1>3. ASSUME task.kind = "ip" PROVE task.at \notin {"host", "poll", "copy"}
  BY <1>3 DEF NetworkChanges, IPChanges
<1>4. alone' => WellAlong(task)'
  BY <1>1, <1>2, <1>3 DEF WellAlong, SwitchInv, AloneHolds, NetworkIsStored
<1> QED BY <1>1, <1>2, <1>4, ChangeSteps DEF Begins, SwitchInv

\* One that ends where it failed was not one that worked.
LEMMA ChangeFails ==
  ASSUME SwitchInv, NEW c \in Changes, ChangeEnds(c), ~alone',
         UNCHANGED netmap, proxyConf' \in ProxyConfs
  PROVE  SwitchInv'
BY ChangeSteps DEF ChangeEnds, SwitchInv

LEMMA SwitchStep ==
  ASSUME SwitchInv, [SwitchNext]_switchVars
  PROVE  SwitchInv' /\ [KeysKeptApart]_switchVars
<1>1. CASE UNCHANGED switchVars
  BY <1>1 DEF switchVars, derivedVars, SwitchInv, ChangesHold, AloneHolds, WellAlong, Quiet,
              NetworkIsStored, KeysKeptApart
<1>2. ASSUME NEW c \in Changes,
             WireGuardEnables(c) \/ WireGuardDisables(c) \/ TailscaleEnables(c)
               \/ TailscaleDisables(c) \/ DomainSets(c)
      PROVE  SwitchInv' /\ UNCHANGED netmap
  <2>1. \A kind \in {"enable", "disable", "domain"}, vpn \in VPNs \cup {None},
           domain \in Domains \cup {None}, step \in {"host", "poll", "copy"} :
          /\ Task(kind, vpn, domain, step) \in NetworkChanges
          /\ Task(kind, vpn, domain, step).at = step
    BY DEF Task, NetworkChanges
  <2>2. PICK kind \in {"enable", "disable", "domain"}, vpn \in VPNs \cup {None},
           domain \in Domains \cup {None}, step \in {"host", "poll", "copy"} :
          Begins(c, Task(kind, vpn, domain, step))
    BY <1>2 DEF WireGuardEnables, WireGuardDisables, TailscaleEnables, TailscaleDisables,
                DomainSets, VPNs
  <2>3. PICK task \in NetworkChanges : Begins(c, task) /\ task.at \in {"host", "poll", "copy"}
    BY <2>1, <2>2
  <2> QED BY <2>3, ChangeBegins DEF Begins
<1>3. ASSUME NEW c \in Changes, IPAccessSets(c)
      PROVE  SwitchInv' /\ UNCHANGED netmap
  <2>1. PICK open \in BOOLEAN : Begins(c, [Task("ip", None, None, "setting") EXCEPT !.conf = open])
    BY <1>3 DEF IPAccessSets
  <2>2. PICK task : task = [kind |-> "ip", vpn |-> None, domain |-> None, at |-> "setting",
                            copy |-> None, conf |-> open]
    OBVIOUS
  <2>3. task = [Task("ip", None, None, "setting") EXCEPT !.conf = open]
    BY <2>2 DEF Task
  <2>4. task \in IPChanges /\ task.kind = "ip" /\ task.at = "setting"
    BY <2>2 DEF IPChanges
  <2> QED BY <2>1, <2>3, <2>4, ChangeBegins DEF Begins
<1>4. ASSUME NEW c \in Changes, change[c] # None,
             NEW step \in {"copy", "gather", "render", "env", "restart"},
             change[c] \in NetworkChanges, ChangeGoes(c, step), UNCHANGED netmap,
             proxyConf' \in ProxyConfs,
             NEW onward, onward = [change[c] EXCEPT !.at = step],
             alone' => alone /\ WellAlong(onward)'
      PROVE  SwitchInv'
  <2>1. change' = [change EXCEPT ![c] = onward]
    BY <1>4 DEF ChangeGoes, SwitchInv, ChangesHold
  <2>2. onward \in NetworkChanges /\ onward.at = step
    <3>1. PICK t \in NetworkChanges : t = change[c]
      BY <1>4
    <3>2. onward = [t EXCEPT !.at = step]
      BY <1>4, <3>1
    <3> QED BY <1>4, <3>2 DEF NetworkChanges
  <2>3. onward # None
    BY <2>2, SwitchAssumption
  <2>4. /\ c \in Changes /\ change[c] # None /\ step \notin {"store", "write"}
        /\ netmap' = netmap /\ netmap \in NetworkMaps /\ proxyConf' \in ProxyConfs
        /\ alone' => alone /\ WellAlong(onward)'
    BY <1>4 DEF SwitchInv
  <2> HIDE <1>4
  <2> QED BY <2>1, <2>2, <2>3, <2>4, ChangeSteps
<1>5. ASSUME NEW c \in Changes, change[c] # None
      PROVE  alone => WellAlong(change[c])
  BY <1>5 DEF SwitchInv, AloneHolds
<1>6. ASSUME NEW c \in Changes, HostAnswers(c) \/ TailscaleAnswers(c)
      PROVE  SwitchInv' /\ UNCHANGED netmap
  <2>1. /\ change[c] # None /\ change[c] \in NetworkChanges
        /\ UNCHANGED <<netmap, cert, proxyConf>> /\ proxyConf' \in ProxyConfs
    BY <1>6, ChangeKinds DEF HostAnswers, TailscaleAnswers, ChangeAt, derivedVars, SwitchInv
  <2>2. CASE ChangeEnds(c) /\ ~alone'
    BY <2>1, <2>2, ChangeFails
  <2>3. CASE ChangeGoes(c, "copy") /\ alone' = alone
    <3>1. PICK onward : onward = [change[c] EXCEPT !.at = "copy"]
      OBVIOUS
    <3>2. onward.at = "copy" /\ onward.kind # "ip"
      BY <2>1, <3>1, ChangeAhead DEF NetworkChanges
    <3>3. WellAlong(onward)'
      BY <3>2 DEF WellAlong
    <3> QED BY <2>1, <2>3, <3>1, <3>3, <1>4
  <2> QED BY <1>6, <2>1, <2>2, <2>3 DEF HostAnswers, TailscaleAnswers, Works, Slips
<1>7. ASSUME NEW c \in Changes, NetworkReads(c)
      PROVE  SwitchInv' /\ UNCHANGED netmap
  <2>1. /\ change[c] # None /\ change[c] \in NetworkChanges
        /\ UNCHANGED <<netmap, proxyConf, alone>>
    BY <1>7, ChangeKinds DEF NetworkReads, ChangeAt, derivedVars, SwitchInv
  <2>2. PICK onward : onward = [change[c] EXCEPT !.at = "store", !.copy = netmap]
    OBVIOUS
  <2>3. onward \in NetworkChanges /\ onward.at = "store" /\ onward.copy = netmap /\ onward.kind # "ip"
    BY <2>1, <2>2 DEF NetworkChanges, SwitchInv
  <2>4. change' = [change EXCEPT ![c] = onward]
    BY <1>7, <2>2 DEF NetworkReads, SwitchInv, ChangesHold
  <2>5. WellAlong(onward)' /\ onward # None
    BY <2>3, SwitchAssumption DEF WellAlong
  <2> QED BY <2>1, <2>3, <2>4, <2>5, ChangeSteps DEF SwitchInv
<1>8. ASSUME NEW c \in Changes, NetworkStores(c)
      PROVE  SwitchInv' /\ KeysKeptApart
  <2>1. /\ change[c] # None /\ change[c].at = "store" /\ change[c] \in NetworkChanges
        /\ UNCHANGED proxyConf /\ proxyConf' \in ProxyConfs
    BY <1>8, ChangeKinds DEF NetworkStores, ChangeAt, derivedVars, SwitchInv
  <2>2. PICK onward : onward = [change[c] EXCEPT !.at = "gather"]
    OBVIOUS
  <2>3. CASE Stores(c) /\ netmap' = Edited(change[c]) /\ ChangeGoes(c, "gather") /\ Works
    <3>1. change[c].copy = netmap
      BY <2>1, <2>3 DEF Stores, SwitchInv, ChangesHold
    <3>2. /\ netmap' \in NetworkMaps /\ netmap'.version = netmap.version + 1
          /\ IF change[c].kind = "domain"
               THEN netmap'.domain = change[c].domain /\ netmap'.vpn = netmap.vpn
               ELSE netmap'.vpn = change[c].vpn /\ netmap'.domain = netmap.domain
      <4>1. netmap.version + 1 \in Nat /\ netmap \in NetworkMaps
        BY DEF SwitchInv, NetworkMaps
      <4>2. CASE change[c].kind = "domain"
        <5>1. netmap' = [netmap EXCEPT !.domain = change[c].domain, !.version = netmap.version + 1]
          BY <2>3, <3>1, <4>2 DEF Edited
        <5>2. change[c].domain \in Domains \cup {None}
          BY <2>1 DEF NetworkChanges
        <5> QED BY <4>1, <4>2, <5>1, <5>2 DEF NetworkMaps
      <4>3. CASE change[c].kind # "domain"
        <5>1. netmap' = [netmap EXCEPT !.vpn = change[c].vpn, !.version = netmap.version + 1]
          BY <2>3, <3>1, <4>3 DEF Edited
        <5>2. change[c].vpn \in VPNs \cup {None}
          BY <2>1 DEF NetworkChanges
        <5> QED BY <4>1, <4>3, <5>1, <5>2 DEF NetworkMaps
      <4> QED BY <4>2, <4>3
    <3>3. /\ onward \in NetworkChanges /\ onward.at = "gather" /\ onward.kind = change[c].kind
          /\ onward.kind # "ip" /\ onward.vpn = change[c].vpn /\ onward.domain = change[c].domain
      <4>1. /\ onward \in NetworkChanges /\ onward.at = "gather" /\ onward.kind = change[c].kind
            /\ onward.vpn = change[c].vpn /\ onward.domain = change[c].domain
        BY <2>1, <2>2, ChangeAhead
      <4>2. change[c].kind # "ip" BY <2>1 DEF NetworkChanges
      <4> QED BY <4>1, <4>2
    <3>4. WellAlong(onward)' /\ onward # None
      BY <3>2, <3>3, SwitchAssumption DEF WellAlong
    <3>5. change' = [change EXCEPT ![c] = onward] /\ alone' = alone
      BY <2>2, <2>3 DEF ChangeGoes, SwitchInv, ChangesHold, Works
    <3>6. SwitchInv'
      BY <2>1, <3>2, <3>3, <3>4, <3>5, ChangeSteps
    <3> QED BY <3>2, <3>6 DEF KeysKeptApart
  <2>4. CASE UNCHANGED netmap /\ ~alone' /\ (ChangeEnds(c) \/ ChangeGoes(c, "gather"))
    BY <1>4, <2>1, <2>2, <2>4, ChangeFails DEF KeysKeptApart
  <2> QED BY <1>8, <2>3, <2>4 DEF NetworkStores, Slips
<1>9. ASSUME NEW c \in Changes, Gathers(c)
      PROVE  SwitchInv' /\ UNCHANGED netmap
  <2>1. /\ change[c] # None /\ change[c].at = "gather" /\ change[c] \in NetworkChanges
        /\ UNCHANGED <<netmap, proxyConf>> /\ proxyConf' \in ProxyConfs
    BY <1>9, ChangeKinds DEF Gathers, ChangeAt, derivedVars, SwitchInv
  <2>2. CASE ChangeEnds(c) /\ Slips
    BY <2>1, <2>2, ChangeFails DEF Slips
  <2>3. CASE /\ change' = [change EXCEPT ![c].at = "cert", ![c].copy = None, ![c].vpn = CertVPN(c),
                             ![c].domain = IF change[c].kind = "domain" THEN @ ELSE netmap.domain]
             /\ Works
    <3>1. PICK vpn, domain : /\ vpn = CertVPN(c)
                             /\ domain = IF change[c].kind = "domain" THEN change[c].domain
                                                                      ELSE netmap.domain
      OBVIOUS
    <3>2. vpn \in VPNs \cup {None} /\ domain \in Domains \cup {None}
      BY <2>1, <3>1 DEF CertVPN, ActiveVPN, VPNs, NetworkChanges, NetworkMaps, SwitchInv
    <3>3. PICK onward : onward = [change[c] EXCEPT !.at = "cert", !.copy = None, !.vpn = vpn,
                                               !.domain = domain]
      OBVIOUS
    <3>4. /\ onward \in NetworkChanges /\ onward.at = "cert" /\ onward.kind # "ip"
          /\ onward.vpn = vpn /\ onward.domain = domain
      BY <2>1, <3>2, <3>3 DEF NetworkChanges
    <3>5. change' = [change EXCEPT ![c] = onward] /\ alone' = alone
      BY <2>3, <3>1, <3>3 DEF SwitchInv, ChangesHold, Works
    <3>6. alone => domain = netmap.domain /\ (netmap.vpn # None => vpn = netmap.vpn)
      BY <1>5, <2>1, <3>1 DEF WellAlong, CertVPN, ActiveVPN
    <3>7. (alone => WellAlong(onward)') /\ onward # None
      BY <2>1, <3>4, <3>6, SwitchAssumption DEF WellAlong
    <3> QED BY <2>1, <3>4, <3>5, <3>7, ChangeSteps DEF SwitchInv
  <2> QED BY <1>9, <2>1, <2>2, <2>3 DEF Gathers
<1>10. ASSUME NEW c \in Changes, CertWrites(c)
       PROVE  SwitchInv' /\ UNCHANGED netmap
  <2>1. /\ change[c] # None /\ change[c].at = "cert" /\ change[c] \in NetworkChanges
        /\ UNCHANGED <<netmap, proxyConf>> /\ proxyConf' \in ProxyConfs
    BY <1>10, ChangeKinds DEF CertWrites, ChangeAt, SwitchInv
  <2>2. CASE ChangeEnds(c) /\ Slips
    BY <2>1, <2>2, ChangeFails DEF Slips
  <2>3. CASE /\ cert' = [vpn |-> change[c].vpn, domain |-> change[c].domain]
             /\ ChangeGoes(c, "render") /\ Works
    <3>1. PICK onward : onward = [change[c] EXCEPT !.at = "render"]
      OBVIOUS
    <3>2. onward.at = "render" /\ onward.kind # "ip"
      BY <2>1, <3>1, ChangeAhead DEF NetworkChanges
    <3>3. alone => WellAlong(onward)'
      BY <1>5, <2>1, <2>3, <3>2 DEF WellAlong
    <3> QED BY <1>4, <2>1, <2>3, <3>1, <3>3 DEF Works
  <2> QED BY <1>10, <2>1, <2>2, <2>3 DEF CertWrites
<1>11. ASSUME NEW c \in Changes, ProxyRenders(c)
       PROVE  SwitchInv' /\ UNCHANGED netmap
  <2>1. /\ change[c] # None /\ change[c].at = "render" /\ change[c] \in NetworkChanges
        /\ UNCHANGED <<netmap, cert, proxyConf>> /\ proxyConf' \in ProxyConfs
    BY <1>11, ChangeKinds DEF ProxyRenders, ChangeAt, derivedVars, SwitchInv
  <2>2. CASE RenderFails(c) /\ Slips
    BY <1>4, <2>1, <2>2 DEF RenderFails, AfterProxy, Slips
  <2>3. CASE /\ change' = [change EXCEPT ![c].at = "write",
                  ![c].conf = [vpn |-> ActiveVPN, domain |-> netmap.domain, closed |-> FALSE]]
             /\ Works
    <3>1. PICK rendered : rendered = [vpn |-> ActiveVPN, domain |-> netmap.domain, closed |-> FALSE]
      OBVIOUS
    <3>2. /\ rendered \in ProxyConfs /\ rendered.domain = netmap.domain
          /\ netmap.vpn # None => rendered.vpn = netmap.vpn
      BY <3>1 DEF ActiveVPN, VPNs, ProxyConfs, NetworkMaps, SwitchInv
    <3>3. PICK onward : onward = [change[c] EXCEPT !.at = "write", !.conf = rendered]
      OBVIOUS
    <3>4. onward \in NetworkChanges /\ onward.at = "write" /\ onward.kind # "ip" /\ onward.conf = rendered
      BY <2>1, <3>2, <3>3 DEF NetworkChanges
    <3>5. change' = [change EXCEPT ![c] = onward] /\ alone' = alone
      BY <2>3, <3>1, <3>3 DEF SwitchInv, ChangesHold, Works
    <3>6. (alone => WellAlong(onward)') /\ onward # None
      BY <1>5, <2>1, <3>2, <3>4, SwitchAssumption DEF WellAlong
    <3> QED BY <2>1, <3>2, <3>4, <3>5, <3>6, ChangeSteps DEF SwitchInv
  <2> QED BY <1>11, <2>1, <2>2, <2>3 DEF ProxyRenders
<1>12. ASSUME NEW c \in Changes, ProxyWrites(c)
       PROVE  SwitchInv' /\ UNCHANGED netmap
  <2>1. /\ change[c] # None /\ change[c].at = "write" /\ change[c] \in NetworkChanges
        /\ UNCHANGED <<netmap, cert>> /\ change[c].conf \in ProxyConfs
    BY <1>12, ChangeKinds DEF ProxyWrites, ChangeAt, SwitchInv, ChangesHold
  <2>2. PICK step \in {"env", "restart"} : step = AfterProxy(c)
    BY DEF AfterProxy
  <2>3. PICK onward : onward = [change[c] EXCEPT !.at = step]
    OBVIOUS
  <2>4. onward.at = step /\ onward.kind # "ip"
    BY <2>1, <2>3, ChangeAhead DEF NetworkChanges
  <2>5. CASE proxyConf' = change[c].conf /\ Works
    <3>1. alone => WellAlong(onward)'
      BY <1>5, <2>1, <2>4, <2>5 DEF WellAlong, NetworkIsStored
    <3> QED BY <1>4, <1>12, <2>1, <2>2, <2>3, <2>5, <3>1 DEF ProxyWrites, Works
  <2>6. CASE Slips /\ UNCHANGED proxyConf
    BY <1>4, <1>12, <2>1, <2>2, <2>3, <2>6 DEF ProxyWrites, Slips, SwitchInv
  <2> QED BY <1>12, <2>5, <2>6 DEF ProxyWrites
<1>13. ASSUME NEW c \in Changes, EnvSets(c)
       PROVE  SwitchInv' /\ UNCHANGED netmap
  <2>1. /\ change[c] # None /\ change[c].at = "env" /\ change[c] \in NetworkChanges
        /\ UNCHANGED <<netmap, cert, proxyConf>> /\ proxyConf' \in ProxyConfs
        /\ ChangeGoes(c, "restart") /\ (alone' => alone)
    BY <1>13, ChangeKinds DEF EnvSets, ChangeAt, SwitchInv, Works, Slips
  <2>2. PICK onward : onward = [change[c] EXCEPT !.at = "restart"]
    OBVIOUS
  <2>3. onward.at = "restart" /\ onward.kind # "ip"
    BY <2>1, <2>2, ChangeAhead DEF NetworkChanges
  <2>4. alone => WellAlong(onward)'
    BY <1>5, <2>1, <2>3 DEF WellAlong, NetworkIsStored
  <2> QED BY <1>4, <2>1, <2>2, <2>4
<1>14. ASSUME NEW c \in Changes, IPAccessStores(c) \/ IPAccessEdits(c)
       PROVE  SwitchInv' /\ UNCHANGED netmap
  <2>1. /\ change[c] # None /\ change[c] \in IPChanges /\ change[c].kind = "ip"
        /\ UNCHANGED <<netmap, cert>>
    BY <1>14, ChangeKinds DEF IPAccessStores, IPAccessEdits, ChangeAt, derivedVars, SwitchInv
  <2>2. /\ proxyConf' \in ProxyConfs
        /\ proxyConf'.vpn = proxyConf.vpn /\ proxyConf'.domain = proxyConf.domain
    <3>1. \A closed \in BOOLEAN :
            /\ [proxyConf EXCEPT !.closed = closed] \in ProxyConfs
            /\ [proxyConf EXCEPT !.closed = closed].vpn = proxyConf.vpn
            /\ [proxyConf EXCEPT !.closed = closed].domain = proxyConf.domain
      BY DEF SwitchInv, ProxyConfs
    <3>2. (~change[c].conf) \in BOOLEAN
      OBVIOUS
    <3> QED BY <1>14, <3>1, <3>2 DEF IPAccessStores, IPAccessEdits, derivedVars, SwitchInv
  <2>3. CASE ChangeEnds(c) /\ Slips
    BY <2>1, <2>2, <2>3, ChangeFails DEF Slips
  <2>4. ASSUME NEW step \in {"edit", "restart"}, ChangeGoes(c, step), Works
        PROVE  SwitchInv'
    <3>1. PICK onward : onward = [change[c] EXCEPT !.at = step]
      OBVIOUS
    <3>2. onward \in IPChanges /\ onward.at = step /\ onward.kind = "ip"
      BY <2>1, <3>1 DEF IPChanges
    <3>3. change' = [change EXCEPT ![c] = onward] /\ alone' = alone
      BY <2>4, <3>1 DEF ChangeGoes, SwitchInv, ChangesHold, Works
    <3>4. (alone => WellAlong(onward)') /\ onward # None
      BY <1>5, <2>1, <2>2, <3>2, <2>4, SwitchAssumption DEF WellAlong, NetworkIsStored
    <3> QED BY <2>1, <2>2, <2>4, <3>2, <3>3, <3>4, ChangeSteps DEF SwitchInv
  <2> QED BY <1>14, <2>1, <2>3, <2>4 DEF IPAccessStores, IPAccessEdits
<1>15. ASSUME NEW c \in Changes, ProxyRestarts(c)
       PROVE  SwitchInv' /\ UNCHANGED netmap
  <2>1. /\ change[c] # None /\ change[c].at = "restart" /\ change' = [change EXCEPT ![c] = None]
        /\ UNCHANGED <<netmap, cert, proxyConf>> /\ (alone' => alone)
    BY <1>15 DEF ProxyRestarts, ChangeAt, ChangeEnds, Works, Slips
  <2>2. alone => NetworkIsStored'
    BY <1>5, <2>1 DEF WellAlong, NetworkIsStored
  <2> QED BY <2>1, <2>2, ChangeSteps DEF SwitchInv
<1>16. CASE TailscaleRuns \/ ProxyStarts
  BY <1>16 DEF TailscaleRuns, ProxyStarts, derivedVars, SwitchInv, ChangesHold, AloneHolds,
               WellAlong, Quiet, NetworkIsStored, KeysKeptApart
<1>17. CASE BflRestarts
  BY <1>17 DEF BflRestarts, Slips, derivedVars, SwitchInv, ChangesHold, KeysKeptApart
<1> QED
  BY <1>1, <1>2, <1>3, <1>6, <1>7, <1>8, <1>9, <1>10, <1>11, <1>12, <1>13, <1>14, <1>15, <1>16, <1>17
     DEF SwitchNext, KeysKeptApart

\* What the proxy runs with is what is stored, or somebody is about to restart it.
LEMMA ProxyStep ==
  ASSUME SwitchInv, ProxyIsCurrent, [SwitchNext]_switchVars
  PROVE  ProxyIsCurrent'
<1>1. CASE UNCHANGED switchVars
  BY <1>1 DEF switchVars, derivedVars, ProxyIsCurrent, Writing
<1>2. ASSUME NEW c \in Changes, ~Writing(c),
             change' = [change EXCEPT ![c] = change'[c]], UNCHANGED <<cert, proxyConf, loaded, cut>>
      PROVE  ProxyIsCurrent'
  <2>1. ASSUME NEW x \in Changes, Writing(x) PROVE Writing(x)'
    BY <1>2, <2>1 DEF Writing, SwitchInv, ChangesHold
  <2> QED BY <1>2, <2>1 DEF ProxyIsCurrent
<1>3. ASSUME NEW c \in Changes,
             WireGuardEnables(c) \/ WireGuardDisables(c) \/ TailscaleEnables(c)
               \/ TailscaleDisables(c) \/ DomainSets(c) \/ IPAccessSets(c)
      PROVE  ProxyIsCurrent'
  <2>1. PICK task : Begins(c, task)
    BY <1>3 DEF WireGuardEnables, WireGuardDisables, TailscaleEnables, TailscaleDisables,
                DomainSets, IPAccessSets
  <2>2. ~Writing(c) /\ change' = [change EXCEPT ![c] = change'[c]]
    BY <2>1 DEF Begins, Writing, SwitchInv, ChangesHold
  <2> QED BY <1>2, <2>1, <2>2 DEF Begins, derivedVars
<1>4. ASSUME NEW c \in Changes,
             HostAnswers(c) \/ TailscaleAnswers(c) \/ NetworkReads(c) \/ NetworkStores(c)
               \/ Gathers(c) \/ IPAccessStores(c)
      PROVE  ProxyIsCurrent'
  <2>1. ~Writing(c)
    BY <1>4 DEF HostAnswers, TailscaleAnswers, NetworkReads, NetworkStores, Gathers,
                IPAccessStores, ChangeAt, Writing
  <2>2. change' = [change EXCEPT ![c] = change'[c]]
    BY <1>4 DEF HostAnswers, TailscaleAnswers, NetworkReads, NetworkStores, Gathers,
                IPAccessStores, ChangeGoes, ChangeEnds, SwitchInv, ChangesHold
  <2>3. UNCHANGED <<cert, proxyConf, loaded, cut>>
    BY <1>4 DEF HostAnswers, TailscaleAnswers, NetworkReads, NetworkStores, Gathers,
                IPAccessStores, derivedVars
  <2> QED BY <1>2, <2>1, <2>2, <2>3
<1>5. ASSUME NEW c \in Changes, change[c] # None, NEW step \in {"render", "env", "restart"},
             ChangeGoes(c, step), change[c] \in NetworkChanges \/ step = "restart"
      PROVE  ProxyIsCurrent'
  <2>1. PICK onward : onward = [change[c] EXCEPT !.at = step]
    OBVIOUS
  <2>2. onward.at = step /\ onward \in NetworkChanges \cup IPChanges
    <3>1. CASE change[c] \in NetworkChanges
      BY <1>5, <2>1, <3>1 DEF NetworkChanges
    <3>2. CASE change[c] \in IPChanges /\ step = "restart"
      BY <2>1, <3>2 DEF IPChanges
    <3> QED BY <1>5, <3>1, <3>2 DEF SwitchInv, ChangesHold
  <2>3. change'[c] = onward
    BY <1>5, <2>1 DEF ChangeGoes, SwitchInv, ChangesHold
  <2>4. Writing(c)'
    BY <2>2, <2>3, SwitchAssumption DEF Writing
  <2> QED BY <1>5, <2>4 DEF ProxyIsCurrent
<1>6. ASSUME NEW c \in Changes, CertWrites(c)
      PROVE  ProxyIsCurrent'
  <2>1. change[c] # None /\ change[c] \in NetworkChanges /\ ~Writing(c)
    BY <1>6, ChangeKinds DEF CertWrites, ChangeAt, SwitchInv, Writing
  <2>2. CASE ChangeEnds(c) /\ UNCHANGED cert
    BY <1>2, <1>6, <2>1, <2>2 DEF CertWrites, ChangeEnds, SwitchInv, ChangesHold
  <2> QED BY <1>5, <1>6, <2>1, <2>2 DEF CertWrites
<1>7. ASSUME NEW c \in Changes, ProxyRenders(c)
      PROVE  ProxyIsCurrent'
  <2>1. change[c] # None /\ change[c] \in NetworkChanges /\ Writing(c)
        /\ AfterProxy(c) \in {"env", "restart"}
    BY <1>7, ChangeKinds DEF ProxyRenders, ChangeAt, SwitchInv, Writing, AfterProxy
  <2>2. CASE RenderFails(c)
    BY <1>5, <2>1, <2>2 DEF RenderFails
  <2>3. CASE change' = [change EXCEPT ![c].at = "write",
                  ![c].conf = [vpn |-> ActiveVPN, domain |-> netmap.domain, closed |-> FALSE]]
    <3>1. PICK rendered : rendered = [vpn |-> ActiveVPN, domain |-> netmap.domain, closed |-> FALSE]
      OBVIOUS
    <3>2. rendered \in ProxyConfs
      BY <3>1 DEF ActiveVPN, VPNs, ProxyConfs, NetworkMaps, SwitchInv
    <3>3. PICK onward : onward = [change[c] EXCEPT !.at = "write", !.conf = rendered]
      OBVIOUS
    <3>4. onward \in NetworkChanges /\ onward.at = "write"
      BY <2>1, <3>2, <3>3 DEF NetworkChanges
    <3>5. change'[c] = onward
      BY <1>7, <2>3, <3>1, <3>3 DEF SwitchInv, ChangesHold
    <3>6. Writing(c)'
      BY <3>4, <3>5, SwitchAssumption DEF Writing
    <3> QED BY <1>7, <3>6 DEF ProxyIsCurrent
  <2> QED BY <1>7, <2>2, <2>3 DEF ProxyRenders
<1>8. ASSUME NEW c \in Changes, ProxyWrites(c) \/ EnvSets(c)
      PROVE  ProxyIsCurrent'
  <2>1. change[c] # None /\ change[c] \in NetworkChanges
    BY <1>8, ChangeKinds DEF ProxyWrites, EnvSets, ChangeAt, SwitchInv
  <2>2. ChangeGoes(c, "env") \/ ChangeGoes(c, "restart")
    BY <1>8 DEF ProxyWrites, EnvSets, AfterProxy
  <2> QED BY <1>5, <1>8, <2>1, <2>2
<1>9. ASSUME NEW c \in Changes, IPAccessEdits(c)
      PROVE  ProxyIsCurrent'
  <2>1. change[c] # None /\ ~Writing(c)
    BY <1>9 DEF IPAccessEdits, ChangeAt, Writing
  <2>2. CASE ChangeEnds(c) /\ UNCHANGED proxyConf
    BY <1>2, <1>9, <2>1, <2>2 DEF IPAccessEdits, ChangeEnds, SwitchInv, ChangesHold
  <2> QED BY <1>5, <1>9, <2>1, <2>2 DEF IPAccessEdits
<1>10. ASSUME NEW c \in Changes, ProxyRestarts(c)
       PROVE  ProxyIsCurrent'
  BY <1>10 DEF ProxyRestarts, ProxyIsCurrent
<1>11. CASE TailscaleRuns
  BY <1>11 DEF TailscaleRuns, derivedVars, ProxyIsCurrent, Writing
<1>12. CASE ProxyStarts
  BY <1>12 DEF ProxyStarts, ProxyIsCurrent
<1>13. CASE BflRestarts
  BY <1>13 DEF BflRestarts, derivedVars, ProxyIsCurrent
<1> QED
  BY <1>1, <1>3, <1>4, <1>6, <1>7, <1>8, <1>9, <1>10, <1>11, <1>12, <1>13 DEF SwitchNext

\* setVPNState, setCustomDomain and what follows them, for any number of changes that
\* overlap, fail or are cut off: nobody's key is lost, the proxy runs with what is stored,
\* and a change that ran alone and failed nowhere has brought everything to what is stored.
THEOREM NetworkSettles == PlatformSpec => SwitchSettles
<1> DEFINE Inv == SwitchInv /\ ProxyIsCurrent
<1>1. PlatformInit => Inv
  BY DEF PlatformInit, SwitchInit, SwitchInv, NetworkMaps, ProxyConfs, ChangesHold, AloneHolds,
         Quiet, NetworkIsStored, ProxyIsCurrent
<1>2. Inv /\ [PlatformNext]_platformVars => Inv' /\ [KeysKeptApart]_switchVars
  BY ServiceSteps, SwitchStep, ProxyStep
<1>3. Inv => ProxyIsCurrent /\ NetworkAgrees
  BY DEF SwitchInv, AloneHolds, NetworkIsStored, NetworkAgrees
<1> QED BY <1>1, <1>2, <1>3, PTL DEF PlatformSpec, SwitchSettles

-----------------------------------------------------------------------------
(* Internet blocking *)

Rules == {"accept", "drop"}

LEMMA RuleAppended ==
  ASSUME NEW rules \in Seq(Rules), NEW rule \in Rules
  PROVE  LET more == Appended(rules, rule) IN
         /\ more \in Seq(Rules) /\ more # <<>>
         /\ Head(more) = IF rules = <<>> THEN rule ELSE Head(rules)
         /\ rule \in Range(more) /\ Range(rules) \subseteq Range(more)
<1> DEFINE more == Append(rules, rule)
<1>1. /\ more \in Seq(Rules) /\ Len(more) = Len(rules) + 1 /\ Len(rules) \in Nat
      /\ \A i \in 1 .. Len(rules) : more[i] = rules[i]
      /\ more[Len(rules) + 1] = rule
  OBVIOUS
<1>2. DOMAIN rules = 1 .. Len(rules) /\ DOMAIN more = 1 .. Len(rules) + 1
  BY <1>1
<1>3. more # <<>> /\ Head(more) = IF rules = <<>> THEN rule ELSE Head(rules)
  BY <1>1
<1> HIDE DEF more
<1>4. rule \in Range(more)
  BY <1>1, <1>2 DEF Range
<1>5. ASSUME NEW r \in Range(rules) PROVE r \in Range(more)
  <2> PICK i \in 1 .. Len(rules) : r = rules[i] BY <1>2 DEF Range
  <2> i \in DOMAIN more /\ r = more[i] BY <1>1, <1>2
  <2> QED BY DEF Range
<1> QED BY <1>1, <1>3, <1>4, <1>5 DEF Appended, more

LEMMA LeastOf ==
  ASSUME NEW R, IsWellFoundedOn(R, Nat), NEW S, S \subseteq Nat, S # {}
  PROVE  \E least \in S : \A i \in S : ~(<<i, least>> \in R)
BY WFMin

\* A set of numbers has a least one.
LEMMA LeastNumber ==
  ASSUME NEW S, S \subseteq Nat, S # {}
  PROVE  \E least \in S : \A i \in S : least <= i
<1> DEFINE Less == OpToRel(<, Nat)
<1>1. \E least \in S : \A i \in S : ~(<<i, least>> \in Less)
  BY NatLessThanWellFounded, LeastOf
<1>2. \A i, j \in Nat : <<i, j>> \in Less <=> i < j
  BY DEF OpToRel
<1> HIDE DEF Less
<1> PICK least \in S : \A i \in S : ~(<<i, least>> \in Less)
  BY <1>1
<1>3. ASSUME NEW i \in S PROVE least <= i
  <2>1. ~(i < least) BY <1>2, Zenon
  <2> QED BY <2>1
<1> QED BY <1>3

LEMMA RuleDeleted ==
  ASSUME NEW rules \in Seq(Rules), NEW rule \in Rules
  PROVE  Deleted(rules, rule) \in Seq(Rules)
<1> SUFFICES ASSUME \E i \in 1 .. Len(rules) : rules[i] = rule
             PROVE  RemoveFirst(rules, rule) \in Seq(Rules)
  BY DEF Deleted, RemoveFirst
<1> DEFINE I == {i \in 1 .. Len(rules) : rules[i] = rule}
<1>1. RemoveFirst(rules, rule) = RemoveAt(rules, Min(I))
  BY DEF RemoveFirst, SelectInSeq
<1>2. PICK least \in I : \A i \in I : least <= i
  <2>1. I \subseteq Nat /\ I # {}
    OBVIOUS
  <2> HIDE DEF I
  <2> QED BY <2>1, LeastNumber
<1>3. Min(I) \in I
  BY <1>2 DEF Min
<1>4. Min(I) \in 1 .. Len(rules) /\ Len(rules) \in Nat
  BY <1>3
<1> HIDE DEF I
<1>5. \A i \in 1 .. Len(rules) : rules[i] \in Rules
  OBVIOUS
<1>6. ASSUME NEW i \in 1 .. Len(rules) PROVE RemoveAt(rules, i) \in Seq(Rules)
  <2>1. /\ SubSeq(rules, 1, i - 1) \in Seq(Rules)
        /\ SubSeq(rules, i + 1, Len(rules)) \in Seq(Rules)
    BY <1>5
  <2> QED BY <2>1 DEF RemoveAt
<1> QED BY <1>1, <1>4, <1>6

\* What a request is at fits what it was asked for.
ToggleFits(asked) ==
  /\ asked \in ToggleRuns /\ asked.left > 0
  /\ asked.at \in {"hook", "accept", "drop"} => asked.on
  /\ asked.at = "delete" => ~asked.on
  /\ asked.at \in {"accept", "drop", "delete"} => asked.addr # None

SyncFits ==
  /\ sync \in SyncRuns
  /\ sync.at \in {"start", "next", "done"} <=> sync.app = None
  /\ sync.at \in {"accept", "drop"} => sync.addr # None
  /\ sync.at = "done" => sync.todo = {}

\* A request for the app works on it alone, as its mark says, at the address of its pod;
\* so does the synchronisation, but beside a request that blocks.
AloneOn(a) ==
  /\ \A t \in Toggling(a) :
       /\ \A u \in Toggling(a) : u = t
       /\ toggle[t].on = blocked[a]
       /\ toggle[t].at \in {"accept", "drop", "delete"} => address[a] \in {None, toggle[t].addr}
  /\ sync.app = a =>
       /\ blocked[a]
       /\ sync.at \in {"accept", "drop"} => address[a] \in {None, sync.addr}

\* The rules of its pod lead to what the mark says, once what works on them has ended.
RulesFit(a) ==
  /\ blocked[a] /\ (\A t \in Toggling(a) : toggle[t].at # "hook") => hooked
  /\ (\A t \in Toggling(a) : toggle[t].at # "delete") => Orderly(address[a])
  /\ (\/ \E t \in Toggling(a) : toggle[t].at = "drop"
      \/ sync.app = a /\ sync.at = "drop") => chain[address[a]] # <<>>
  /\ Toggling(a) = {} =>
       IF blocked[a] THEN a \in sync.todo \/ sync.app = a \/ CutOff(address[a])
                     ELSE chain[address[a]] = <<>>

AppFits(a) == AloneOn(a) /\ (sync.at # "start" /\ address[a] # None => RulesFit(a))

NetInv ==
  /\ address \in [Blockables -> Addresses \cup {None}] /\ blocked \in [Blockables -> BOOLEAN]
  /\ chain \in [Addresses -> Seq(Rules)] /\ hooked \in BOOLEAN
  /\ toggle \in [Togglers -> {None} \cup ToggleRuns]
  /\ \A t \in Togglers : toggle[t] # None => ToggleFits(toggle[t])
  /\ SyncFits
  /\ \A a \in Blockables \ astray : AppFits(a)

\* What a step does not touch stays as it fits.
LEMMA AppFramed ==
  ASSUME NetInv, NEW a \in Blockables, a \notin astray,
         address'[a] = address[a], blocked'[a] = blocked[a],
         \A t \in Togglers : \/ toggle'[t] = toggle[t]
                             \/ /\ toggle[t] = None \/ toggle[t].app # a
                                /\ toggle'[t] = None \/ toggle'[t].app # a,
         address[a] # None => chain'[address[a]] = chain[address[a]],
         \/ sync' = sync /\ hooked' \in {hooked, TRUE}
         \/ /\ sync.app # a /\ sync'.app # a /\ hooked' = hooked
            /\ sync.at # "start" /\ sync'.at # "start" /\ (a \in sync'.todo <=> a \in sync.todo)
  PROVE  AppFits(a)'
<1>1. Toggling(a)' = Toggling(a) /\ \A t \in Toggling(a) : toggle'[t] = toggle[t]
  BY DEF Toggling
<1>2. AloneOn(a)'
  <2>1. AloneOn(a) BY DEF NetInv, AppFits
  <2>2. ASSUME NEW t \in Toggling(a)'
        PROVE  /\ \A u \in Toggling(a)' : u = t
               /\ toggle'[t].on = blocked'[a]
               /\ toggle'[t].at \in {"accept", "drop", "delete"} => address'[a] \in {None, toggle'[t].addr}
    <3>1. t \in Toggling(a) /\ toggle'[t] = toggle[t] BY <1>1, <2>2
    <3> QED BY <1>1, <2>1, <3>1 DEF AloneOn
  <2>3. sync'.app = a => sync' = sync OBVIOUS
  <2>4. sync'.app = a => /\ blocked'[a]
                         /\ sync'.at \in {"accept", "drop"} => address'[a] \in {None, sync'.addr}
    BY <2>1, <2>3 DEF AloneOn
  <2> QED BY <2>2, <2>4 DEF AloneOn
<1>3. ASSUME sync'.at # "start", address'[a] # None PROVE RulesFit(a)'
  <2>1. RulesFit(a) BY <1>3 DEF NetInv, AppFits
  <2>2. Orderly(address[a]) => Orderly(address[a])' BY DEF Orderly
  <2>3. CutOff(address[a]) => CutOff(address[a])' BY <1>3 DEF CutOff
  <2> QED BY <1>1, <1>3, <2>1, <2>2, <2>3 DEF RulesFit
<1> QED BY <1>2, <1>3 DEF AppFits

LEMMA ToggleGoes ==
  ASSUME NetInv, NEW t \in Togglers, NEW new, new = None \/ ToggleFits(new),
         toggle' = [toggle EXCEPT ![t] = new]
  PROVE  /\ toggle' \in [Togglers -> {None} \cup ToggleRuns]
         /\ \A u \in Togglers : toggle'[u] # None => ToggleFits(toggle'[u])
         /\ toggle'[t] = new /\ \A u \in Togglers \ {t} : toggle'[u] = toggle[u]
BY DEF NetInv, ToggleFits

LEMMA ToggleKind ==
  ASSUME NetInv, NEW t \in Togglers, toggle[t] # None
  PROVE  /\ ToggleFits(toggle[t]) /\ toggle[t].app \in Blockables
         /\ toggle[t].addr \in Addresses \cup {None} /\ toggle[t].on \in BOOLEAN
BY DEF NetInv, ToggleFits, ToggleRuns

\* A request of an app that is not astray has it for itself.
LEMMA ToggleAlone ==
  ASSUME NetInv, NEW t \in Togglers, toggle[t] # None, toggle[t].app \notin astray
  PROVE  LET a == toggle[t].app IN
         /\ a \in Blockables /\ Toggling(a) = {t} /\ toggle[t].on = blocked[a] /\ AloneOn(a)
         /\ toggle[t].at \in {"accept", "drop", "delete"} => address[a] \in {None, toggle[t].addr}
         /\ sync.app = a => toggle[t].on
         /\ sync.at # "start" /\ address[a] # None => RulesFit(a)
<1> DEFINE a == toggle[t].app
<1>1. a \in Blockables \ astray /\ t \in Toggling(a) BY ToggleKind DEF Toggling
<1>2. AppFits(a) BY <1>1 DEF NetInv
<1> HIDE DEF a
<1>3. Toggling(a) = {t}
  BY <1>1, <1>2 DEF AppFits, AloneOn, Toggling
<1> QED BY <1>1, <1>2, <1>3 DEF AppFits, AloneOn, a

\* A step of a request that leaves all but its own work and its rules as they are.
LEMMA ToggleWorks ==
  ASSUME NetInv, NEW t \in Togglers, toggle[t] # None,
         NEW own \in Blockables, own = toggle[t].app, NEW new, new = None \/ ToggleFits(new),
         toggle' = [toggle EXCEPT ![t] = new], new # None => new.app = own,
         chain' \in [Addresses -> Seq(Rules)], hooked' \in {hooked, TRUE},
         UNCHANGED <<address, blocked, sync>>,
         astray \subseteq astray',
         \A a \in Blockables \ (astray' \cup {own}) :
           address[a] # None => chain'[address[a]] = chain[address[a]],
         own \notin astray' => AppFits(own)'
  PROVE  NetInv'
<1>1. ASSUME NEW a \in Blockables, a \notin astray' PROVE AppFits(a)'
  <2>1. CASE a = own BY <1>1, <2>1
  <2>2. CASE a # own
    <3>1. a \notin astray /\ sync' = sync /\ address'[a] = address[a] /\ blocked'[a] = blocked[a]
      BY <1>1
    <3>2. \A u \in Togglers : \/ toggle'[u] = toggle[u]
                              \/ /\ toggle[u] = None \/ toggle[u].app # a
                                 /\ toggle'[u] = None \/ toggle'[u].app # a
      BY <2>2, ToggleGoes
    <3>3. address[a] # None => chain'[address[a]] = chain[address[a]]
      BY <1>1, <2>2
    <3> QED BY <1>1, <3>1, <3>2, <3>3, AppFramed
  <2> QED BY <2>1, <2>2
<1>2. SyncFits' BY DEF NetInv, SyncFits
<1> QED BY <1>1, <1>2, ToggleGoes DEF NetInv

\* A command that fails leaves the app astray.
LEMMA ToggleLost ==
  ASSUME NetInv, NEW t \in Togglers, toggle[t] # None,
         NEW new, new = None \/ ToggleFits(new), new # None => new.app = toggle[t].app,
         toggle' = [toggle EXCEPT ![t] = new], astray' = astray \cup {toggle[t].app},
         UNCHANGED <<address, blocked, chain, hooked, sync>>
  PROVE  NetInv'
<1>1. toggle[t].app \in Blockables
  BY ToggleKind
<1> PICK a \in Blockables : a = toggle[t].app
  BY <1>1
<1>2. chain' \in [Addresses -> Seq(Rules)] /\ a \in astray' /\ astray \subseteq astray'
  BY DEF NetInv
<1> QED BY <1>2, ToggleWorks

LEMMA ToggleEarly ==
  ASSUME NetInv, NEW t \in Togglers, ToggleHooks(t) \/ ToggleLooks(t)
  PROVE  NetInv'
<1> USE NetAssumption
<1>1. /\ toggle[t] # None /\ ToggleFits(toggle[t]) /\ toggle[t].app \in Blockables
      /\ toggle[t].at \in {"hook", "look"}
  BY ToggleKind DEF ToggleHooks, ToggleLooks, ToggleAt
<1> PICK a \in Blockables : a = toggle[t].app
  BY <1>1
<1>2. /\ UNCHANGED <<address, blocked, chain, sync>> /\ chain' \in [Addresses -> Seq(Rules)]
  BY DEF ToggleHooks, ToggleLooks, NetInv
<1>3. ASSUME NEW new, toggle' = [toggle EXCEPT ![t] = new], UNCHANGED astray,
             hooked' \in {hooked, TRUE}, toggle[t].at = "hook" => hooked' = TRUE,
             \/ new = None /\ address[a] = None
             \/ /\ ToggleFits(new) /\ new # None /\ new.app = a /\ new.on = toggle[t].on
                /\ new.at \in {"look", "accept", "delete"}
                /\ new.at \in {"accept", "delete"} => address[a] = new.addr
      PROVE  NetInv'
  <2>1. ASSUME a \notin astray PROVE AppFits(a)'
    <3>1. /\ Toggling(a) = {t} /\ toggle[t].on = blocked[a] /\ AloneOn(a)
          /\ sync.at # "start" /\ address[a] # None => RulesFit(a)
          /\ sync.app = a => toggle[t].on
      BY <1>1, <2>1, ToggleAlone
    <3>2. /\ Toggling(a)' = IF new = None THEN {} ELSE {t}
          /\ toggle'[t] = new
      BY <1>1, <1>3, <3>1 DEF Toggling, NetInv
    <3>3. AloneOn(a)'
      BY <1>2, <1>3, <3>1, <3>2 DEF AloneOn
    <3>4. ASSUME sync'.at # "start", address'[a] # None PROVE RulesFit(a)'
      <4>1. RulesFit(a) BY <1>2, <3>1, <3>4
      <4>2. Orderly(address[a]) => Orderly(address[a])' BY <1>2 DEF Orderly
      <4>3. Toggling(a)' = {t} /\ toggle'[t].at \in {"look", "accept", "delete"} /\ sync' = sync
        BY <1>2, <1>3, <3>2, <3>4
      <4>4. blocked[a] => hooked'
        <5>1. CASE toggle[t].at = "hook" BY <1>3, <5>1
        <5>2. CASE toggle[t].at # "hook" BY <1>3, <3>1, <4>1, <5>2 DEF RulesFit
        <5> QED BY <5>1, <5>2
      <4> QED BY <1>1, <1>2, <3>1, <3>4, <4>1, <4>2, <4>3, <4>4 DEF RulesFit
    <3> QED BY <3>3, <3>4 DEF AppFits
  <2> QED BY <1>1, <1>2, <1>3, <2>1, ToggleWorks
<1>4. CASE ToggleHooks(t)
  <2> DEFINE new == [toggle[t] EXCEPT !.at = "look"]
  <2>1. ToggleFits(new) /\ new # None /\ new.app = a /\ new.on = toggle[t].on /\ new.at = "look"
    BY <1>1, <1>4 DEF ToggleFits, ToggleRuns
  <2>2. /\ toggle' = [toggle EXCEPT ![t] = new]
        /\ \/ hooked' = TRUE /\ UNCHANGED astray
           \/ astray' = astray \cup {a} /\ UNCHANGED hooked
    BY <1>4 DEF ToggleHooks, NetFails
  <2> HIDE DEF new
  <2>3. CASE hooked' = TRUE /\ UNCHANGED astray BY <1>3, <2>1, <2>2, <2>3
  <2>4. CASE astray' = astray \cup {a} /\ UNCHANGED hooked
    BY <1>1, <1>2, <2>1, <2>2, <2>4, ToggleLost
  <2> QED BY <2>2, <2>3, <2>4
<1>l. ASSUME ToggleLooks(t) PROVE UNCHANGED <<hooked, astray>> /\ toggle[t].at = "look"
  BY <1>l DEF ToggleLooks, ToggleAt
<1>5. CASE ToggleLooks(t) /\ address[a] = None
  <2>1. toggle' = [toggle EXCEPT ![t] = None] BY <1>5 DEF ToggleLooks
  <2> QED BY <1>3, <1>5, <1>l, <2>1
<1>6. CASE ToggleLooks(t) /\ address[a] # None
  <2> DEFINE new == [toggle[t] EXCEPT !.addr = address[a], !.at = IF toggle[t].on THEN "accept" ELSE "delete"]
  <2>1. toggle[t] \in ToggleRuns /\ address[a] \in Addresses
    BY <1>1, <1>6 DEF ToggleFits, NetInv
  <2>2. /\ new \in ToggleRuns /\ new.app = a /\ new.on = toggle[t].on /\ new.addr = address[a]
        /\ new.at = (IF toggle[t].on THEN "accept" ELSE "delete") /\ new.left = toggle[t].left
    BY <2>1 DEF ToggleRuns
  <2>3. toggle' = [toggle EXCEPT ![t] = new]
    BY <1>6 DEF ToggleLooks
  <2> HIDE DEF new
  <2>4. ToggleFits(new) /\ new # None
    BY <1>1, <1>6, <2>2 DEF ToggleFits
  <2> QED BY <1>3, <1>6, <1>l, <2>2, <2>3, <2>4
<1> QED BY <1>4, <1>5, <1>6

LEMMA ToggleStart ==
  ASSUME NetInv, NEW t \in Togglers, ToggleStarts(t)
  PROVE  NetInv'
<1> USE NetAssumption
<1> PICK a \in Blockables, on \in BOOLEAN :
      /\ blocked' = [blocked EXCEPT ![a] = on]
      /\ toggle' = [toggle EXCEPT ![t] =
           [app |-> a, at |-> IF on THEN "hook" ELSE "look", on |-> on, addr |-> None, left |-> Rounds]]
      /\ astray' = IF Toggling(a) = {} /\ sync.app # a /\ Orderly(address[a]) THEN astray \ {a} ELSE astray \cup {a}
  BY DEF ToggleStarts
<1>1. toggle[t] = None /\ UNCHANGED <<address, chain, hooked, sync>>
  BY DEF ToggleStarts
<1> DEFINE new == [app |-> a, at |-> IF on THEN "hook" ELSE "look", on |-> on, addr |-> None, left |-> Rounds]
<1>2. /\ ToggleFits(new) /\ new # None /\ new.app = a /\ new.on = on
      /\ new.at = IF on THEN "hook" ELSE "look"
  BY DEF ToggleFits, ToggleRuns
<1>3. toggle' = [toggle EXCEPT ![t] = new]
  OBVIOUS
<1> HIDE DEF new
<1>4. /\ toggle' \in [Togglers -> {None} \cup ToggleRuns]
      /\ \A u \in Togglers : toggle'[u] # None => ToggleFits(toggle'[u])
      /\ toggle'[t] = new /\ \A u \in Togglers \ {t} : toggle'[u] = toggle[u]
  BY <1>2, <1>3, ToggleGoes
<1>5. ASSUME NEW b \in Blockables, b \notin astray' PROVE AppFits(b)'
  <2>1. CASE b = a
    <3>1. Toggling(a) = {} /\ sync.app # a /\ Orderly(address[a])
      BY <1>5, <2>1
    <3>2. Toggling(a)' = {t}
      BY <1>2, <1>4, <3>1 DEF Toggling
    <3>3. blocked'[a] = on
      BY DEF NetInv
    <3>4. AloneOn(a)'
      BY <1>1, <1>2, <1>4, <3>1, <3>2, <3>3 DEF AloneOn
    <3>5. RulesFit(a)'
      <4>1. Orderly(address[a])' BY <1>1, <3>1 DEF Orderly
      <4>2. /\ toggle'[t].at = (IF on THEN "hook" ELSE "look") /\ Toggling(a)' = {t}
            /\ blocked'[a] = on /\ sync'.app # a
        BY <1>1, <1>2, <1>4, <3>1, <3>2, <3>3
      <4> QED BY <4>1, <4>2 DEF RulesFit
    <3> QED BY <2>1, <3>4, <3>5 DEF AppFits
  <2>2. CASE b # a
    <3>1. b \notin astray /\ blocked'[b] = blocked[b]
      BY <1>5, <2>2 DEF NetInv
    <3>2. \A u \in Togglers : \/ toggle'[u] = toggle[u]
                              \/ /\ toggle[u] = None \/ toggle[u].app # b
                                 /\ toggle'[u] = None \/ toggle'[u].app # b
      BY <1>1, <1>2, <1>4, <2>2
    <3> QED BY <1>1, <1>5, <3>1, <3>2, AppFramed
  <2> QED BY <2>1, <2>2
<1>6. SyncFits' BY <1>1 DEF NetInv, SyncFits
<1>7. blocked' \in [Blockables -> BOOLEAN] BY DEF NetInv
<1> QED BY <1>1, <1>4, <1>5, <1>6, <1>7 DEF NetInv

LEMMA ToggleFail ==
  ASSUME NetInv, NEW t \in Togglers, ToggleFails(t)
  PROVE  NetInv'
BY ToggleLost DEF ToggleFails, NetFails

LEMMA ToggleAdd ==
  ASSUME NetInv, NEW t \in Togglers, ToggleAccepts(t) \/ ToggleDrops(t)
  PROVE  NetInv'
<1> USE NetAssumption
<1>1. /\ toggle[t] # None /\ ToggleFits(toggle[t]) /\ toggle[t].app \in Blockables
      /\ toggle[t].at \in {"accept", "drop"} /\ toggle[t].on /\ toggle[t].addr \in Addresses
  BY ToggleKind DEF ToggleAccepts, ToggleDrops, ToggleAt, ToggleFits
<1> PICK a \in Blockables, addr \in Addresses : a = toggle[t].app /\ addr = toggle[t].addr
  BY <1>1
<1> PICK rule : rule = toggle[t].at OBVIOUS
<1> DEFINE more == Appended(chain[addr], rule)
           new == IF rule = "accept" THEN [toggle[t] EXCEPT !.at = "drop"] ELSE None
<1>w. /\ toggle' = [toggle EXCEPT ![t] = new] /\ Adds(a, addr, rule)
      /\ UNCHANGED <<address, blocked, hooked, sync>>
  <2>1. CASE ToggleAccepts(t)
    <3>1. rule = "accept" BY <1>1, <2>1 DEF ToggleAccepts, ToggleAt
    <3> QED BY <2>1, <3>1 DEF ToggleAccepts
  <2>2. CASE ToggleDrops(t)
    <3>1. rule = "drop" BY <1>1, <2>2 DEF ToggleDrops, ToggleAt
    <3> QED BY <2>2, <3>1 DEF ToggleDrops
  <2> QED BY <2>1, <2>2
<1>3. \/ rule = "drop" /\ new = None
      \/ rule = "accept" /\ ToggleFits(new) /\ new # None /\ new.app = a /\ new.on = TRUE
         /\ new.at = "drop" /\ new.addr = addr
  BY <1>1 DEF ToggleFits, ToggleRuns
<1>f. ASSUME UNCHANGED chain, astray' = astray \cup {a} PROVE NetInv'
  <2> HIDE DEF new
  <2> QED BY <1>1, <1>3, <1>w, <1>f, ToggleLost
<1> SUFFICES ASSUME chain' = [chain EXCEPT ![addr] = more], astray' = astray \cup Others(a, addr)
             PROVE  NetInv'
  BY <1>w, <1>f DEF Adds, NetFails
<1>2. /\ chain' = [chain EXCEPT ![addr] = more] /\ toggle' = [toggle EXCEPT ![t] = new]
      /\ astray' = astray \cup Others(a, addr)
      /\ UNCHANGED <<address, blocked, hooked, sync>>
  BY <1>w
<1>4. chain[addr] \in Seq(Rules) /\ rule \in Rules
  BY <1>1 DEF NetInv, Rules
<1>5. /\ more \in Seq(Rules) /\ more # <<>>
      /\ Head(more) = IF chain[addr] = <<>> THEN rule ELSE Head(chain[addr])
      /\ rule \in Range(more) /\ Range(chain[addr]) \subseteq Range(more)
  BY <1>4, RuleAppended
<1> HIDE DEF more, new
<1>6. chain' \in [Addresses -> Seq(Rules)] /\ chain'[addr] = more
      /\ \A other \in Addresses \ {addr} : chain'[other] = chain[other]
  BY <1>2, <1>5 DEF NetInv
<1>7. ASSUME NEW b \in Blockables \ (astray' \cup {a}), address[b] # None
      PROVE  chain'[address[b]] = chain[address[b]]
  BY <1>2, <1>6, <1>7 DEF Others, NetInv
<1>8. ASSUME a \notin astray' PROVE AppFits(a)'
  <2>1. a \notin astray
    BY <1>2, <1>8
  <2>2. /\ Toggling(a) = {t} /\ blocked[a] = TRUE /\ AloneOn(a) /\ address[a] \in {None, addr}
        /\ sync.at # "start" /\ address[a] # None => RulesFit(a)
    BY <1>1, <2>1, ToggleAlone DEF NetInv
  <2>3. Toggling(a)' = (IF rule = "accept" THEN {t} ELSE {}) /\ toggle'[t] = new
    BY <1>1, <1>2, <1>3, <2>2 DEF Toggling, NetInv
  <2>4. AloneOn(a)'
    <3>1. address' = address /\ blocked' = blocked /\ sync' = sync
      BY <1>2
    <3>2. ASSUME NEW u \in Toggling(a)'
          PROVE  /\ \A v \in Toggling(a)' : v = u
                 /\ toggle'[u].on = blocked'[a] /\ address'[a] \in {None, toggle'[u].addr}
      <4>1. u = t /\ rule = "accept" /\ Toggling(a)' = {t}
        BY <2>3, <3>2
      <4>2. toggle'[u].on = TRUE /\ toggle'[u].addr = addr
        BY <1>3, <2>3, <4>1
      <4> QED BY <2>2, <3>1, <4>1, <4>2
    <3>3. sync.app = a =>
            blocked[a] /\ (sync.at \in {"accept", "drop"} => address[a] \in {None, sync.addr})
      BY <2>2 DEF AloneOn
    <3> QED BY <3>1, <3>2, <3>3 DEF AloneOn
  <2>5. ASSUME sync'.at # "start", address'[a] # None PROVE RulesFit(a)'
    <3>1. RulesFit(a) /\ address[a] = addr BY <1>2, <2>2, <2>5
    <3>2. Orderly(addr) BY <1>1, <2>2, <3>1 DEF RulesFit
    <3>3. rule = "drop" => chain[addr] # <<>> BY <2>2, <3>1 DEF RulesFit
    <3>4. Head(more) = "accept" BY <1>3, <1>5, <3>2, <3>3 DEF Orderly
    <3>5. Orderly(addr)' BY <1>6, <3>4 DEF Orderly
    <3>6. ASSUME rule = "drop" PROVE CutOff(addr)'
      <4>1. hooked' BY <1>1, <1>2, <2>2, <3>1 DEF RulesFit
      <4> QED BY <1>5, <1>6, <3>4, <3>6, <4>1 DEF CutOff
    <3>7. hooked' BY <1>1, <1>2, <2>2, <3>1 DEF RulesFit
    <3> QED BY <1>2, <1>3, <1>5, <1>6, <2>2, <2>3, <3>1, <3>5, <3>6, <3>7 DEF RulesFit
  <2> QED BY <2>4, <2>5 DEF AppFits
<1> QED BY <1>1, <1>2, <1>3, <1>6, <1>7, <1>8, ToggleWorks

LEMMA ToggleDelete ==
  ASSUME NetInv, NEW t \in Togglers, ToggleDeletes(t)
  PROVE  NetInv'
<1> USE NetAssumption
<1>1. /\ toggle[t] # None /\ ToggleFits(toggle[t]) /\ toggle[t].app \in Blockables
      /\ toggle[t].at = "delete" /\ ~toggle[t].on /\ toggle[t].addr \in Addresses
  BY ToggleKind DEF ToggleDeletes, ToggleAt, ToggleFits
<1> PICK a \in Blockables, addr \in Addresses : a = toggle[t].app /\ addr = toggle[t].addr
  BY <1>1
<1> DEFINE rest == Deleted(Deleted(chain[addr], "accept"), "drop")
           new == IF toggle[t].left = 1 THEN None ELSE [toggle[t] EXCEPT !.left = @ - 1]
<1>w. toggle' = [toggle EXCEPT ![t] = new] /\ UNCHANGED <<address, blocked, hooked, sync>>
  BY DEF ToggleDeletes
<1>3. \/ toggle[t].left = 1 /\ new = None
      \/ /\ toggle[t].left # 1 /\ ToggleFits(new) /\ new # None /\ new.app = a /\ new.on = FALSE
         /\ new.at = "delete" /\ new.addr = addr
  <2>1. toggle[t].left \in Nat /\ toggle[t].left > 0 /\ toggle[t].left <= Rounds /\ toggle[t] \in ToggleRuns
    BY <1>1 DEF ToggleFits, ToggleRuns
  <2>2. ASSUME toggle[t].left # 1, NEW n, n = toggle[t].left - 1 PROVE n \in 0 .. Rounds /\ n > 0
    BY <2>1, <2>2
  <2> QED BY <1>1, <2>1, <2>2 DEF ToggleFits, ToggleRuns
<1>4. /\ rest \in Seq(Rules)
      /\ \A rule \in Rules : Deleted(chain[addr], rule) \in Seq(Rules)
  <2>1. chain[addr] \in Seq(Rules) /\ "accept" \in Rules /\ "drop" \in Rules
    BY DEF NetInv, Rules
  <2> QED BY <2>1, RuleDeleted
<1>c. \/ /\ chain' = [chain EXCEPT ![addr] = rest]
         /\ astray' = astray \cup Others(a, addr) \cup {b \in {a} : toggle[t].left = 1 /\ rest # <<>>}
      \/ /\ \E rule \in Rules : chain' \in {chain, [chain EXCEPT ![addr] = Deleted(@, rule)]}
         /\ astray' = astray \cup {a} \cup Others(a, addr)
  BY DEF ToggleDeletes, Rules
<1> HIDE DEF new
<1>f. ASSUME NEW rule \in Rules, chain' \in {chain, [chain EXCEPT ![addr] = Deleted(@, rule)]},
             astray' = astray \cup {a} \cup Others(a, addr)
      PROVE  NetInv'
  <2>0. PICK less \in Seq(Rules) : chain' \in {chain, [chain EXCEPT ![addr] = less]}
    BY <1>4, <1>f
  <2>1. /\ chain' \in [Addresses -> Seq(Rules)]
        /\ \A other \in Addresses \ {addr} : chain'[other] = chain[other]
    <3>1. chain \in [Addresses -> Seq(Rules)] BY DEF NetInv
    <3>2. CASE chain' = chain BY <3>1, <3>2
    <3>3. CASE chain' = [chain EXCEPT ![addr] = less] BY <3>1, <3>3
    <3> QED BY <2>0, <3>2, <3>3
  <2>2. ASSUME NEW b \in Blockables \ (astray' \cup {a}), address[b] # None
        PROVE  chain'[address[b]] = chain[address[b]]
    <3>1. b \notin Others(a, addr) BY <1>f, <2>2
    <3>2. address[b] \in Addresses \ {addr} BY <2>2, <3>1 DEF Others, NetInv
    <3>3. PICK other \in Addresses \ {addr} : other = address[b] BY <3>2
    <3>4. chain'[other] = chain[other] BY <2>1
    <3> QED BY <3>3, <3>4
  <2>3. a \in astray' /\ astray \subseteq astray'
    <3>1. \A b : b \in astray \/ b = a => b \in astray' BY <1>f, Zenon
    <3> QED BY <3>1
  <2>4. new = None \/ (ToggleFits(new) /\ new.app = a) BY <1>3
  <2> QED BY <1>1, <1>w, <2>1, <2>2, <2>3, <2>4, ToggleWorks
<1> SUFFICES ASSUME chain' = [chain EXCEPT ![addr] = rest],
                    astray' = astray \cup Others(a, addr) \cup {b \in {a} : toggle[t].left = 1 /\ rest # <<>>}
             PROVE  NetInv'
  BY <1>c, <1>f
<1>2. /\ chain' = [chain EXCEPT ![addr] = rest] /\ toggle' = [toggle EXCEPT ![t] = new]
      /\ astray' = astray \cup Others(a, addr) \cup {b \in {a} : toggle[t].left = 1 /\ rest # <<>>}
      /\ UNCHANGED <<address, blocked, hooked, sync>>
  BY <1>w
<1> HIDE DEF rest
<1>5. chain' \in [Addresses -> Seq(Rules)] /\ chain'[addr] = rest
      /\ \A other \in Addresses \ {addr} : chain'[other] = chain[other]
  BY <1>2, <1>4 DEF NetInv
<1>6. ASSUME NEW b \in Blockables \ (astray' \cup {a}), address[b] # None
      PROVE  chain'[address[b]] = chain[address[b]]
  BY <1>2, <1>5, <1>6 DEF Others, NetInv
<1>7. ASSUME a \notin astray' PROVE AppFits(a)'
  <2>1. a \notin astray /\ (toggle[t].left = 1 => rest = <<>>)
    BY <1>2, <1>7
  <2>2. /\ Toggling(a) = {t} /\ blocked[a] = FALSE /\ address[a] \in {None, addr} /\ sync.app # a
    BY <1>1, <2>1, ToggleAlone DEF NetInv
  <2>3. Toggling(a)' = (IF toggle[t].left = 1 THEN {} ELSE {t}) /\ toggle'[t] = new
    BY <1>1, <1>2, <1>3, <2>2 DEF Toggling, NetInv
  <2>4. address' = address /\ blocked' = blocked /\ sync' = sync
    BY <1>2
  <2>5. ASSUME NEW u \in Toggling(a)'
        PROVE  u = t /\ toggle'[u].on = FALSE /\ toggle'[u].addr = addr /\ toggle'[u].at = "delete"
               /\ Toggling(a)' = {t}
    BY <1>3, <2>3, <2>5
  <2>6. AloneOn(a)'
    BY <2>2, <2>4, <2>5 DEF AloneOn
  <2>7. ASSUME sync'.at # "start", address'[a] # None PROVE RulesFit(a)'
    <3>1. address[a] = addr BY <2>2, <2>4, <2>7
    <3>2. Toggling(a)' = {} => chain'[addr] = <<>> BY <1>5, <2>1, <2>3
    <3>3. CASE Toggling(a)' = {}
      <4>1. Orderly(addr)' BY <3>2, <3>3 DEF Orderly
      <4> QED BY <2>2, <2>4, <3>1, <3>2, <3>3, <4>1 DEF RulesFit
    <3>4. CASE Toggling(a)' = {t}
      BY <2>2, <2>4, <2>5, <3>4 DEF RulesFit
    <3> QED BY <2>3, <3>3, <3>4
  <2> QED BY <2>6, <2>7 DEF AppFits
<1> QED BY <1>1, <1>2, <1>3, <1>5, <1>6, <1>7, ToggleWorks

LEMMA SyncFlush ==
  ASSUME NetInv, SyncFlushes
  PROVE  NetInv'
<1> USE NetAssumption
<1>1. /\ sync.at = "start" /\ sync.app = None
      /\ sync' = [sync EXCEPT !.at = "next", !.todo = Blockables]
      /\ UNCHANGED <<address, blocked, toggle>>
  BY DEF SyncFlushes, NetInv, SyncFits
<1>2. /\ sync' \in SyncRuns /\ sync'.at = "next" /\ sync'.app = None /\ sync'.todo = Blockables
  BY <1>1 DEF NetInv, SyncFits, SyncRuns
<1>3. SyncFits'
  BY <1>1, <1>2 DEF SyncFits
<1>4. chain' \in [Addresses -> Seq(Rules)] /\ hooked' \in BOOLEAN
  <2>1. [addr \in Addresses |-> <<>>] \in [Addresses -> Seq(Rules)] OBVIOUS
  <2> QED BY <2>1 DEF SyncFlushes, NetInv
<1>5. ASSUME NEW a \in Blockables, a \notin astray' PROVE AppFits(a)'
  <2>0. /\ hooked' = TRUE /\ chain' = [addr \in Addresses |-> <<>>]
        /\ astray' = {b \in Blockables :
                       \E t \in Toggling(b) : b \in astray \/ toggle[t].at \in {"drop", "delete"}}
    BY <1>5 DEF SyncFlushes
  <2>1. \A t \in Toggling(a) : a \notin astray /\ toggle[t].at \notin {"drop", "delete"}
    BY <1>5, <2>0
  <2>2. Toggling(a)' = Toggling(a)
    BY <1>1 DEF Toggling
  <2>3. AloneOn(a)'
    <3>1. CASE Toggling(a) = {} BY <1>2, <2>2, <3>1 DEF AloneOn
    <3>2. CASE Toggling(a) # {}
      <4>1. AloneOn(a) BY <2>1, <3>2 DEF NetInv, AppFits
      <4> QED BY <1>1, <1>2, <2>2, <4>1 DEF AloneOn
    <3> QED BY <3>1, <3>2
  <2>4. ASSUME address'[a] # None PROVE RulesFit(a)'
    <3>1. chain'[address'[a]] = <<>> BY <1>1, <2>0, <2>4 DEF NetInv
    <3>2. Orderly(address[a])' BY <3>1 DEF Orderly
    <3> QED BY <1>1, <1>2, <2>0, <2>1, <2>2, <3>1, <3>2 DEF RulesFit
  <2> QED BY <2>3, <2>4 DEF AppFits
<1> QED BY <1>1, <1>3, <1>4, <1>5 DEF NetInv

\* A step of the synchronisation that leaves all but its own work and rules as they are.
LEMMA SyncWorks ==
  ASSUME NetInv, SyncFits', NEW own \in Blockables \cup {None}, sync.app \in {None, own}, sync'.app \in {None, own},
         sync.at # "start", sync'.at # "start", \A a \in Blockables \ {own} : a \in sync'.todo <=> a \in sync.todo,
         chain' \in [Addresses -> Seq(Rules)], UNCHANGED <<address, blocked, toggle, hooked>>,
         astray \subseteq astray',
         \A a \in Blockables \ (astray' \cup {own}) :
           address[a] # None => chain'[address[a]] = chain[address[a]],
         own \in Blockables \ astray' => AppFits(own)'
  PROVE  NetInv'
<1> USE NetAssumption
<1>1. ASSUME NEW a \in Blockables, a \notin astray' PROVE AppFits(a)'
  <2>1. CASE a = own BY <1>1, <2>1
  <2>2. CASE a # own
    <3>1. /\ a \notin astray /\ address'[a] = address[a] /\ blocked'[a] = blocked[a]
          /\ hooked' = hooked /\ \A t \in Togglers : toggle'[t] = toggle[t]
      BY <1>1
    <3>2. address[a] # None => chain'[address[a]] = chain[address[a]]
      BY <1>1, <2>2
    <3>3. sync.app # a /\ sync'.app # a /\ (a \in sync'.todo <=> a \in sync.todo)
      BY <2>2
    <3> QED BY <1>1, <3>1, <3>2, <3>3, AppFramed
  <2> QED BY <2>1, <2>2
<1> QED BY <1>1 DEF NetInv

LEMMA SyncEarly ==
  ASSUME NetInv, SyncTakes \/ SyncLooks
  PROVE  NetInv'
<1> USE NetAssumption
<1>1. /\ sync \in SyncRuns /\ SyncFits /\ sync.at # "start"
      /\ UNCHANGED <<address, blocked, chain, toggle, hooked>>
  BY DEF SyncTakes, SyncLooks, NetInv, SyncFits
<1>2. chain' \in [Addresses -> Seq(Rules)] BY <1>1 DEF NetInv
<1>3. ASSUME NEW own \in Blockables, NEW at, sync.app \in {None, own}, sync'.app \in {None, own},
             sync' \in SyncRuns, SyncFits', sync'.at \notin {"start", "drop"},
             sync.at # "drop", UNCHANGED astray,
             \A a \in Blockables \ {own} : a \in sync'.todo <=> a \in sync.todo,
             sync'.app = own /\ own \notin astray => blocked[own],
             sync'.at = "accept" => sync'.addr = address[own],
             address[own] = None \/ sync'.app = own \/ ~blocked[own]
      PROVE  NetInv'
  <2>1. ASSUME own \notin astray PROVE AppFits(own)'
    <3>1. AppFits(own) BY <2>1 DEF NetInv
    <3>2. Toggling(own)' = Toggling(own) BY <1>1 DEF Toggling
    <3>3. AloneOn(own)'
      BY <1>1, <1>3, <2>1, <3>1, <3>2 DEF AppFits, AloneOn
    <3>4. ASSUME address'[own] # None PROVE RulesFit(own)'
      <4>1. RulesFit(own) BY <1>1, <3>1, <3>4 DEF AppFits
      <4>2. Orderly(address[own]) => Orderly(address[own])' BY <1>1 DEF Orderly
      <4>3. CutOff(address[own]) => CutOff(address[own])' BY <1>1 DEF CutOff
      <4> QED BY <1>1, <1>3, <3>2, <3>4, <4>1, <4>2, <4>3 DEF RulesFit
    <3> QED BY <3>3, <3>4 DEF AppFits
  <2> QED BY <1>1, <1>2, <1>3, <2>1, SyncWorks
<1>4. CASE SyncTakes /\ sync.todo = {}
  <2>1. sync' = [sync EXCEPT !.at = "done"] /\ sync.app = None /\ UNCHANGED astray
    BY <1>1, <1>4 DEF SyncTakes, SyncFits
  <2>2. sync' \in SyncRuns /\ sync'.at = "done" /\ sync'.app = None /\ sync'.todo = {}
    BY <1>1, <1>4, <2>1 DEF SyncRuns
  <2>3. SyncFits' BY <1>1, <2>2 DEF SyncFits
  <2>4. None \in Blockables \cup {None} OBVIOUS
  <2> QED BY <1>1, <1>2, <1>4, <2>1, <2>2, <2>3, <2>4, SyncWorks
<1>5. ASSUME SyncTakes, sync.todo # {} PROVE NetInv'
  <2> PICK a \in sync.todo :
        sync' = [sync EXCEPT !.todo = @ \ {a},
                   !.app = IF blocked[a] /\ address[a] # None THEN a ELSE None,
                   !.at = IF blocked[a] /\ address[a] # None THEN "look" ELSE "next"]
    BY <1>5 DEF SyncTakes
  <2>1. a \in Blockables /\ sync.at = "next" /\ sync.app = None /\ UNCHANGED astray
    BY <1>1, <1>5 DEF SyncTakes, SyncFits, SyncRuns
  <2>2. /\ sync' \in SyncRuns /\ sync'.todo = sync.todo \ {a}
        /\ \/ sync'.at = "look" /\ sync'.app = a /\ blocked[a]
           \/ sync'.at = "next" /\ sync'.app = None /\ (address[a] = None \/ ~blocked[a])
    BY <1>1, <2>1 DEF SyncRuns
  <2>3. SyncFits' BY <1>1, <2>1, <2>2 DEF SyncFits
  <2> QED BY <1>3, <2>1, <2>2, <2>3
<1>6. ASSUME SyncLooks PROVE NetInv'
  <2>1. PICK a \in Blockables : a = sync.app
    BY <1>1, <1>6 DEF SyncLooks, SyncFits, SyncRuns
  <2>2. sync.at = "look" BY <1>6 DEF SyncLooks
  <2>3. CASE sync' = [sync EXCEPT !.at = "next", !.app = None]
    <3>1. sync' \in SyncRuns /\ sync'.at = "next" /\ sync'.app = None /\ sync'.todo = sync.todo
      BY <1>1, <2>3 DEF SyncRuns
    <3>2. SyncFits' BY <1>1, <2>2, <3>1 DEF SyncFits
    <3>3. CASE address[a] = None /\ UNCHANGED astray
      BY <1>3, <2>1, <2>2, <3>1, <3>2, <3>3
    <3>4. CASE astray' = astray \cup {a}
      BY <1>1, <1>2, <2>1, <2>2, <3>1, <3>2, <3>4, SyncWorks
    <3>5. address[a] # None => sync' # [sync EXCEPT !.at = "accept", !.addr = address[a]]
      BY <1>1, <3>1 DEF SyncRuns
    <3>6. astray' = astray \cup {a} \/ (address[a] = None /\ UNCHANGED astray)
      BY <1>6, <2>1, <3>5 DEF SyncLooks, NetFails
    <3> QED BY <3>3, <3>4, <3>6
  <2>4. CASE UNCHANGED astray /\ address[a] # None /\ sync' = [sync EXCEPT !.at = "accept", !.addr = address[a]]
    <3>1. address[a] \in Addresses BY <2>4 DEF NetInv
    <3>2. /\ sync' \in SyncRuns /\ sync'.at = "accept" /\ sync'.app = a /\ sync'.todo = sync.todo
          /\ sync'.addr = address[a]
      BY <1>1, <2>1, <2>4, <3>1 DEF SyncRuns
    <3>3. SyncFits' BY <1>1, <2>2, <3>1, <3>2 DEF SyncFits
    <3>4. a \notin astray => blocked[a] BY <2>1 DEF NetInv, AppFits, AloneOn
    <3> QED BY <1>3, <2>1, <2>2, <2>4, <3>2, <3>3, <3>4
  <2> QED BY <1>6, <2>1, <2>3, <2>4 DEF SyncLooks, NetFails
<1> QED BY <1>4, <1>5, <1>6

LEMMA SyncAdd ==
  ASSUME NetInv, SyncAccepts \/ SyncDrops
  PROVE  NetInv'
<1> USE NetAssumption
<1>1. /\ sync \in SyncRuns /\ sync.at \in {"accept", "drop"}
      /\ sync.app \in Blockables /\ sync.addr \in Addresses
      /\ UNCHANGED <<address, blocked, toggle, hooked>>
  BY DEF SyncAccepts, SyncDrops, NetInv, SyncFits, SyncRuns
<1> PICK a \in Blockables, addr \in Addresses : a = sync.app /\ addr = sync.addr
  BY <1>1
<1> PICK rule : rule = sync.at OBVIOUS
<1> DEFINE more == Appended(chain[addr], rule)
<1>w. Adds(a, addr, rule)
  <2>1. CASE SyncAccepts
    <3>1. rule = "accept" BY <2>1 DEF SyncAccepts
    <3> QED BY <2>1, <3>1 DEF SyncAccepts
  <2>2. CASE SyncDrops
    <3>1. rule = "drop" BY <2>2 DEF SyncDrops
    <3> QED BY <2>2, <3>1 DEF SyncDrops
  <2> QED BY <2>1, <2>2
<1>3. /\ sync' \in SyncRuns /\ sync'.todo = sync.todo
      /\ \/ rule = "accept" /\ sync'.at = "drop" /\ sync'.app = a /\ sync'.addr = addr
         \/ rule = "drop" /\ sync'.at = "next" /\ sync'.app = None
  BY <1>1 DEF SyncAccepts, SyncDrops, SyncRuns
<1>4. SyncFits'
  BY <1>1, <1>3 DEF SyncFits
<1>10. /\ sync.app \in {None, a} /\ sync'.app \in {None, a} /\ sync.at # "start" /\ sync'.at # "start"
       /\ \A b \in Blockables \ {a} : b \in sync'.todo <=> b \in sync.todo
       /\ a \in Blockables \cup {None}
  BY <1>1, <1>3
<1>f. ASSUME UNCHANGED chain, astray' = astray \cup {a} PROVE NetInv'
  <2>1. chain' \in [Addresses -> Seq(Rules)] /\ a \in astray' /\ astray \subseteq astray'
    BY <1>f DEF NetInv
  <2> QED BY <1>1, <1>4, <1>10, <1>f, <2>1, SyncWorks
<1> SUFFICES ASSUME chain' = [chain EXCEPT ![addr] = more], astray' = astray \cup Others(a, addr)
             PROVE  NetInv'
  BY <1>w, <1>f DEF Adds, NetFails
<1>2. chain' = [chain EXCEPT ![addr] = more] /\ astray' = astray \cup Others(a, addr)
  OBVIOUS
<1>5. /\ chain[addr] \in Seq(Rules) /\ rule \in Rules
  BY <1>1 DEF NetInv, Rules
<1>6. /\ more \in Seq(Rules) /\ more # <<>>
      /\ Head(more) = IF chain[addr] = <<>> THEN rule ELSE Head(chain[addr])
      /\ rule \in Range(more) /\ Range(chain[addr]) \subseteq Range(more)
  BY <1>5, RuleAppended
<1> HIDE DEF more
<1>7. chain' \in [Addresses -> Seq(Rules)] /\ chain'[addr] = more
      /\ \A other \in Addresses \ {addr} : chain'[other] = chain[other]
  BY <1>2, <1>6 DEF NetInv
<1>8. ASSUME NEW b \in Blockables \ (astray' \cup {a}), address[b] # None
      PROVE  chain'[address[b]] = chain[address[b]]
  BY <1>2, <1>7, <1>8 DEF Others, NetInv
<1>9. ASSUME a \notin astray' PROVE AppFits(a)'
  <2>1. AppFits(a) /\ a \notin astray
    BY <1>2, <1>9 DEF NetInv
  <2>2. blocked[a] /\ address[a] \in {None, addr}
    BY <1>1, <2>1 DEF AppFits, AloneOn
  <2>3. Toggling(a)' = Toggling(a) BY <1>1 DEF Toggling
  <2>4. \A t \in Toggling(a) : toggle[t].at # "delete"
    <3>1. ASSUME NEW t \in Toggling(a) PROVE toggle[t].on
      BY <2>1, <2>2 DEF AppFits, AloneOn
    <3> QED BY <3>1 DEF Toggling, NetInv, ToggleFits
  <2>5. AloneOn(a)'
    <3>1. /\ \A t \in Toggling(a) : \A u \in Toggling(a) : u = t
          /\ \A t \in Toggling(a) : toggle[t].on = blocked[a]
          /\ \A t \in Toggling(a) : toggle[t].at \in {"accept", "drop", "delete"}
                                    => address[a] \in {None, toggle[t].addr}
      BY <2>1 DEF AppFits, AloneOn
    <3>2. sync'.app = a => blocked[a] /\ (sync'.at \in {"accept", "drop"} => address[a] \in {None, sync'.addr})
      BY <1>3, <2>2
    <3> QED BY <1>1, <2>3, <3>1, <3>2 DEF AloneOn
  <2>6. ASSUME address'[a] # None PROVE RulesFit(a)'
    <3>1. RulesFit(a) /\ address[a] = addr BY <1>1, <2>1, <2>2, <2>6 DEF AppFits
    <3>2. Orderly(addr) BY <2>4, <3>1 DEF RulesFit
    <3>3. rule = "drop" => chain[addr] # <<>> BY <3>1 DEF RulesFit
    <3>4. Head(more) = "accept" BY <1>1, <1>6, <3>2, <3>3 DEF Orderly
    <3>5. Orderly(addr)' BY <1>7, <3>4 DEF Orderly
    <3>7. (\A t \in Toggling(a) : toggle[t].at # "hook") => hooked' BY <1>1, <2>2, <3>1 DEF RulesFit
    <3>6. rule = "drop" /\ Toggling(a) = {} => CutOff(addr)' BY <1>1, <1>6, <1>7, <3>4, <3>7 DEF CutOff
    <3> QED BY <1>1, <3>7, <1>3, <1>6, <1>7, <2>2, <2>3, <3>1, <3>5, <3>6 DEF RulesFit
  <2> QED BY <2>5, <2>6 DEF AppFits
<1>11. astray \subseteq astray' BY <1>2
<1> QED BY <1>1, <1>4, <1>7, <1>8, <1>9, <1>10, <1>11, SyncWorks

LEMMA PodMove ==
  ASSUME NetInv, PodGoes \/ PodComes
  PROVE  NetInv'
<1> USE NetAssumption
<1>1. UNCHANGED <<blocked, chain, hooked, toggle, sync>>
  BY DEF PodGoes, PodComes
<1>2. PICK a \in Blockables, addr \in Addresses \cup {None} :
        /\ address' = [address EXCEPT ![a] = addr]
        /\ \/ addr = None /\ astray' = astray
           \/ addr # None /\ astray' = astray \cup {a}
  <2>1. CASE PodGoes BY <2>1 DEF PodGoes
  <2>2. CASE PodComes
    <3>1. PICK a \in Blockables, addr \in Addresses :
            address' = [address EXCEPT ![a] = addr] /\ astray' = astray \cup {a}
      BY <2>2 DEF PodComes
    <3> QED BY <3>1
  <2> QED BY <2>1, <2>2
<1>3. ASSUME NEW b \in Blockables, b \notin astray' PROVE AppFits(b)'
  <2>1. CASE b # a
    BY <1>1, <1>2, <1>3, <2>1, AppFramed DEF NetInv
  <2>2. CASE b = a
    <3>1. AppFits(a) /\ address'[a] = None BY <1>2, <1>3, <2>2 DEF NetInv
    <3>2. Toggling(a)' = Toggling(a) BY <1>1 DEF Toggling
    <3> QED BY <1>1, <2>2, <3>1, <3>2 DEF AppFits, AloneOn
  <2> QED BY <2>1, <2>2
<1>4. SyncFits' BY <1>1 DEF NetInv, SyncFits
<1> QED BY <1>1, <1>2, <1>3, <1>4 DEF NetInv

LEMMA NetStep ==
  ASSUME NetInv, [NetNext]_netVars
  PROVE  NetInv'
<1>1. CASE UNCHANGED netVars
  <2>1. UNCHANGED <<address, blocked, chain, hooked, toggle, sync, astray>>
    BY <1>1 DEF netVars
  <2>2. ASSUME NEW a \in Blockables, a \notin astray' PROVE AppFits(a)'
    BY <2>1, <2>2, AppFramed
  <2>3. SyncFits' BY <2>1 DEF NetInv, SyncFits
  <2> QED BY <2>1, <2>2, <2>3 DEF NetInv
<1>2. CASE ProcessStarts /\ UNCHANGED <<address, blocked>>
           /\ \/ UNCHANGED <<chain, hooked>>
              \/ chain' = [addr \in Addresses |-> <<>>] /\ hooked' = FALSE
  <2>1. /\ toggle' \in [Togglers -> {None} \cup ToggleRuns] /\ \A t \in Togglers : toggle'[t] = None
        /\ astray' = Blockables
    BY <1>2 DEF ProcessStarts
  <2>2. SyncFits' BY <1>2, NetAssumption DEF ProcessStarts, SyncFits, SyncRuns
  <2>3. chain' \in [Addresses -> Seq(Rules)] /\ hooked' \in BOOLEAN
    <3>1. CASE UNCHANGED <<chain, hooked>> BY <3>1 DEF NetInv
    <3>2. ASSUME chain' = [addr \in Addresses |-> <<>>] PROVE chain' \in [Addresses -> Seq(Rules)]
      BY <3>2
    <3>3. hooked' = FALSE => hooked' \in BOOLEAN OBVIOUS
    <3> QED BY <1>2, <3>1, <3>2, <3>3
  <2>4. /\ address' \in [Blockables -> Addresses \cup {None}] /\ blocked' \in [Blockables -> BOOLEAN]
    BY <1>2 DEF NetInv
  <2> QED BY <2>1, <2>2, <2>3, <2>4 DEF NetInv
<1>3. ASSUME NEW t \in Togglers,
             \/ ToggleStarts(t) \/ ToggleHooks(t) \/ ToggleLooks(t) \/ ToggleFails(t)
             \/ ToggleAccepts(t) \/ ToggleDrops(t) \/ ToggleDeletes(t)
      PROVE  NetInv'
  BY <1>3, ToggleStart, ToggleEarly, ToggleFail, ToggleAdd, ToggleDelete
<1>4. CASE SyncFlushes \/ SyncTakes \/ SyncLooks \/ SyncAccepts \/ SyncDrops \/ PodGoes \/ PodComes
  BY <1>4, SyncFlush, SyncEarly, SyncAdd, PodMove
<1>5. CASE BlockerRestarts \/ RulesLost
  BY <1>2, <1>5 DEF BlockerRestarts, RulesLost
<1> QED BY <1>1, <1>3, <1>4, <1>5 DEF NetNext

\* handleInternet, UnblockAppInternet and SyncInternetBlocks, for any apps and addresses and
\* any number of toggles, pods, failures and restarts: when all is quiet, the pod of an app
\* that is not astray is cut off if its record says so and is under no rule otherwise.  An
\* app is astray, among others, once a command of iptables failed, until its next toggle.
THEOREM BlocksAreHeld == PlatformSpec => []BlocksHold
<1>1. PlatformInit => NetInv
  <2> SUFFICES ASSUME PlatformInit PROVE NetInv
    OBVIOUS
  <2>1. NetInit BY DEF PlatformInit
  <2>2. \A a \in Blockables : Toggling(a) = {} BY <2>1 DEF NetInit, Toggling
  <2>3. SyncFits BY <2>1, NetAssumption DEF NetInit, SyncFits, SyncRuns
  <2>4. \A a \in Blockables : AppFits(a)
    BY <2>1, <2>2, NetAssumption DEF NetInit, AppFits, AloneOn
  <2>5. chain \in [Addresses -> Seq(Rules)] BY <2>1 DEF NetInit
  <2> QED BY <2>1, <2>3, <2>4, <2>5 DEF NetInit, NetInv
<1>2. NetInv /\ [PlatformNext]_platformVars => NetInv'
  BY ServiceSteps, NetStep
<1>3. NetInv => BlocksHold
  <2> SUFFICES ASSUME NetInv, sync.at = "done", \A t \in Togglers : toggle[t] = None,
                      NEW a \in Blockables \ astray, address[a] # None
               PROVE  IF blocked[a] THEN CutOff(address[a]) ELSE chain[address[a]] = <<>>
    BY DEF BlocksHold
  <2>1. RulesFit(a) BY DEF NetInv, AppFits
  <2>2. Toggling(a) = {} /\ sync.todo = {} /\ sync.app # a
    BY NetAssumption DEF Toggling, NetInv, SyncFits
  <2> QED BY <2>1, <2>2 DEF RulesFit
<1> QED BY <1>1, <1>2, <1>3, PTL DEF PlatformSpec
=============================================================================
