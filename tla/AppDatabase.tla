---------------------------- MODULE AppDatabase ----------------------------
(***************************************************************************)
(* internal/appservice/service.go, steps 1 to 6 of doInstall: an app whose *)
(* manifest asks for Postgres gets a role of its own with a new password   *)
(* at every install; the same password goes into the values.yaml of the    *)
(* chart, from which helm makes the release.  Role and release are changed *)
(* at different moments and any command in between may fail; uninstalling  *)
(* leaves role and database.  The chart lies in one directory per app and  *)
(* may bring values of its own.                                            *)
(***************************************************************************)
EXTENDS Naturals, Values

CONSTANTS
  DbApps,
  Roles,          \* the usernames that manifests name
  Brought,        \* the credentials that charts bring in their own values.yaml
  Installs,       \* goroutines of doInstall at a time (a bound)
  MaxPasswords,   \* passwords generated, numbered from 1 (a bound)
  MaxDbFaults     \* commands that fail and restarts of app-service (a bound)

Credentials == [role : Roles \cup {None}, pass : Nat]

InstallJobs ==
  [app : DbApps, at : {"role", "look", "own", "create", "inject", "remove", "helm"},
   role : Roles \cup {None}, pass : Nat, creds : Credentials]

ASSUME DatabaseAssumption == None \notin InstallJobs /\ Brought \subseteq Credentials

VARIABLES
  rolePassword, \* [Roles -> the role's password on citus, 0 if there is no such role]
  dbOwner,    \* [DbApps -> the owner of its database, or None]
  chartValues,  \* [DbApps -> the directory under /tmp/charts: None, or what its values name]
  release,    \* [DbApps -> the credentials of the helm release, or None]
  install,    \* [Installs -> [app, at, role, pass, creds] or None]
  given,      \* passwords generated so far
  adrift,     \* apps nothing is claimed about: see DatabaseOpens
  dbFaults

dbVars == <<rolePassword, dbOwner, chartValues, release, install, given, adrift, dbFaults>>

\* The fallback of provisionPostgres: citus' own user.
Admin == [role |-> None, pass |-> 0]

DbFault == dbFaults < MaxDbFaults /\ dbFaults' = dbFaults + 1

InstallAt(i, at) == install[i] # None /\ install[i].at = at

InstallsOf(a) == {i \in Installs : install[i] # None /\ install[i].app = a}

InstallGoes(i, at) == install' = [install EXCEPT ![i].at = at]

Falls(i) == install' = [install EXCEPT ![i].at = "inject", ![i].creds = Admin]

\* DownloadChart makes the directory anew; some charts name credentials of their own.
DbInstallBegins(i) ==
  /\ install[i] = None
  /\ \E a \in DbApps, role \in Roles \cup {None}, own \in {{}} \cup {{creds} : creds \in Brought} :
       /\ install' = [install EXCEPT ![i] =
            [app |-> a, at |-> IF role = None THEN "inject" ELSE "role", role |-> role, pass |-> 0,
             creds |-> Admin]]
       /\ chartValues' = [chartValues EXCEPT ![a] = own]
       /\ adrift' = IF InstallsOf(a) = {} /\ own = {} THEN adrift \ {a} ELSE adrift \cup {a}
  /\ UNCHANGED <<rolePassword, dbOwner, release, given, dbFaults>>

\* Another install of the app finds its chart gone.
DownloadFails ==
  /\ DbFault
  /\ \E a \in DbApps : chartValues' = [chartValues EXCEPT ![a] = None]
  /\ UNCHANGED <<rolePassword, dbOwner, release, install, given, adrift>>

\* Other apps whose manifest names the same role.
Sharers(i) ==
  {b \in DbApps \ {install[i].app} :
     \/ release[b] # None /\ release[b].role = install[i].role
     \/ \E j \in InstallsOf(b) : install[j].role = install[i].role}

KeepsPassword(role, pass) == IF rolePassword[role] = 0 THEN pass ELSE rolePassword[role]   \* a slip

\* "Create user if not exists, or update password".
SetsPassword(role, pass) == pass

RoleSet(i) ==
  /\ InstallAt(i, "role") /\ given < MaxPasswords
  /\ given' = given + 1
  /\ rolePassword' = [rolePassword EXCEPT ![install[i].role] = SetsPassword(install[i].role, given + 1)]
  /\ install' = [install EXCEPT ![i].at = "look", ![i].pass = given + 1]
  /\ adrift' = adrift \cup Sharers(i)
  /\ UNCHANGED <<dbOwner, chartValues, release, dbFaults>>

\* kubectl exec fails before or after psql did its work.
RoleFails(i) ==
  /\ InstallAt(i, "role") /\ given < MaxPasswords /\ DbFault
  /\ given' = given + 1
  /\ \/ UNCHANGED rolePassword
     \/ rolePassword' = [rolePassword EXCEPT ![install[i].role] = SetsPassword(install[i].role, given + 1)]
  /\ adrift' = adrift \cup Sharers(i)
  /\ Falls(i)
  /\ UNCHANGED <<dbOwner, chartValues, release>>

\* A query that fails reads as no database.
DatabaseLooked(i) ==
  /\ InstallAt(i, "look")
  /\ \/ dbOwner[install[i].app] # None /\ InstallGoes(i, "own") /\ UNCHANGED dbFaults
     \/ dbOwner[install[i].app] = None /\ InstallGoes(i, "create") /\ UNCHANGED dbFaults
     \/ DbFault /\ InstallGoes(i, "create")
  /\ UNCHANGED <<rolePassword, dbOwner, chartValues, release, given, adrift>>

Provisioned(i) ==
  install' = [install EXCEPT ![i].at = "inject",
                             ![i].creds = [role |-> install[i].role, pass |-> install[i].pass]]

DatabaseOwned(i) ==
  /\ InstallAt(i, "own")
  /\ dbOwner' = [dbOwner EXCEPT ![install[i].app] = install[i].role]
  /\ Provisioned(i)
  /\ UNCHANGED <<rolePassword, chartValues, release, given, adrift, dbFaults>>

\* The error of ALTER DATABASE is ignored.
OwningFails(i) ==
  /\ InstallAt(i, "own") /\ DbFault
  /\ adrift' = adrift \cup {install[i].app}
  /\ Provisioned(i)
  /\ UNCHANGED <<rolePassword, dbOwner, chartValues, release, given>>

DatabaseCreated(i) ==
  /\ InstallAt(i, "create") /\ dbOwner[install[i].app] = None
  /\ dbOwner' = [dbOwner EXCEPT ![install[i].app] = install[i].role]
  /\ Provisioned(i)
  /\ UNCHANGED <<rolePassword, chartValues, release, given, adrift, dbFaults>>

\* There is such a database, or the command fails, before or after its work.
CreatingFails(i) ==
  /\ InstallAt(i, "create")
  /\ \/ dbOwner[install[i].app] # None /\ UNCHANGED <<dbOwner, dbFaults>>
     \/ /\ dbOwner[install[i].app] = None /\ DbFault
        /\ \/ UNCHANGED dbOwner
           \/ dbOwner' = [dbOwner EXCEPT ![install[i].app] = install[i].role]
  /\ Falls(i)
  /\ UNCHANGED <<rolePassword, chartValues, release, given, adrift>>

\* deepMergeUnder: what the file has already, wins; a directory that another install
\* removed is an error.
ValuesInjected(i) ==
  /\ InstallAt(i, "inject")
  /\ chartValues[install[i].app] # None
  /\ chartValues' = [chartValues EXCEPT ![install[i].app] = IF @ = {} THEN {install[i].creds} ELSE @]
  /\ InstallGoes(i, "remove")
  /\ UNCHANGED <<rolePassword, dbOwner, release, given, adrift, dbFaults>>

\* A release made by an earlier install keeps that install's password.
LeftBehind(a) == adrift \cup {b \in {a} : release[a] # None}

\* The deferred CleanupChart.
InstallReturns(i) ==
  /\ install' = [install EXCEPT ![i] = None]
  /\ chartValues' = [chartValues EXCEPT ![install[i].app] = None]

InjectingFails(i) ==
  /\ InstallAt(i, "inject")
  /\ \/ chartValues[install[i].app] = None /\ UNCHANGED dbFaults
     \/ chartValues[install[i].app] # None /\ DbFault
  /\ adrift' = LeftBehind(install[i].app)
  /\ InstallReturns(i)
  /\ UNCHANGED <<rolePassword, dbOwner, release, given>>

\* "Clean up any stale failed release before installing"; its error is ignored.
OldReleaseRemoved(i) ==
  /\ InstallAt(i, "remove")
  /\ \/ release' = [release EXCEPT ![install[i].app] = None] /\ UNCHANGED dbFaults
     \/ DbFault /\ UNCHANGED release
  /\ InstallGoes(i, "helm")
  /\ UNCHANGED <<rolePassword, dbOwner, chartValues, given, adrift>>

ReleaseMade(i) ==
  LET a == install[i].app IN
  /\ InstallAt(i, "helm")
  /\ release[a] = None /\ chartValues[a] # None
  /\ \/ \E creds \in chartValues[a] : release' = [release EXCEPT ![a] = creds]
     \/ chartValues[a] = {} /\ release' = [release EXCEPT ![a] = Admin]
  /\ InstallReturns(i)
  /\ UNCHANGED <<rolePassword, dbOwner, given, adrift, dbFaults>>

\* helm refuses a name in use or fails; the cleanup may fail too.
ReleaseFails(i) ==
  LET a == install[i].app IN
  /\ InstallAt(i, "helm")
  /\ \/ (release[a] # None \/ chartValues[a] = None) /\ UNCHANGED dbFaults
     \/ DbFault
  /\ \/ release' = [release EXCEPT ![a] = None] /\ UNCHANGED adrift
     \/ dbFaults' > 0 /\ UNCHANGED release /\ adrift' = LeftBehind(a)
  /\ InstallReturns(i)
  /\ UNCHANGED <<rolePassword, dbOwner, given>>

\* Uninstall removes the release and, even when it wipes, neither role nor database.
AppUninstalled ==
  /\ \E a \in DbApps :
       release[a] # None /\ release' = [release EXCEPT ![a] = None]
  /\ UNCHANGED <<rolePassword, dbOwner, chartValues, install, given, adrift, dbFaults>>

InstallerRestarts ==
  /\ DbFault
  /\ install' = [i \in Installs |-> None]
  /\ adrift' = adrift \cup {a \in DbApps : InstallsOf(a) # {} /\ release[a] # None}
  /\ UNCHANGED <<rolePassword, dbOwner, chartValues, release, given>>

DatabaseInit ==
  /\ rolePassword = [r \in Roles |-> 0]
  /\ dbOwner = [a \in DbApps |-> None] /\ chartValues = [a \in DbApps |-> None]
  /\ release = [a \in DbApps |-> None]
  /\ install = [i \in Installs |-> None]
  /\ given = 0 /\ adrift = {} /\ dbFaults = 0

DatabaseNext ==
  \/ \E i \in Installs :
       \/ DbInstallBegins(i) \/ RoleSet(i) \/ RoleFails(i) \/ DatabaseLooked(i)
       \/ DatabaseOwned(i) \/ OwningFails(i) \/ DatabaseCreated(i) \/ CreatingFails(i)
       \/ ValuesInjected(i) \/ InjectingFails(i) \/ OldReleaseRemoved(i)
       \/ ReleaseMade(i) \/ ReleaseFails(i)
  \/ DownloadFails \/ AppUninstalled \/ InstallerRestarts

DatabaseTypeOK ==
  /\ rolePassword \in [Roles -> Nat] /\ dbOwner \in [DbApps -> Roles \cup {None}]
  /\ chartValues \in [DbApps -> {None} \cup SUBSET Credentials]
  /\ release \in [DbApps -> {None} \cup Credentials]
  /\ install \in [Installs -> {None} \cup InstallJobs]
  /\ given \in Nat /\ adrift \subseteq DbApps

(***************************************************************************)
(* The database opens: while no install of an app is under way, the        *)
(* credentials its release was made with are the ones citus knows, and a   *)
(* role of its own owns its database, whatever installs, failures of SQL   *)
(* and of helm, upgrades that rename the role and uninstalls went before   *)
(* (ensureCitusUserAndDB, provisionPostgres).  Not claimed of an app       *)
(* whose role another app's install changed, or whose last install brought *)
(* credentials in the chart, which win over the injected ones              *)
(* (deepMergeUnder), overlapped another one, stopped short of replacing    *)
(* the release it had found, or failed to change the owner.                *)
(***************************************************************************)
DatabaseOpens ==
  \A a \in DbApps \ adrift :
    (release[a] # None /\ InstallsOf(a) = {} /\ release[a] # Admin) =>
      /\ rolePassword[release[a].role] = release[a].pass
      /\ dbOwner[a] = release[a].role
=============================================================================
