---------------------------- MODULE ProviderSync ----------------------------
(***************************************************************************)
(* internal/systemserver: one goroutine watches the Application resources,  *)
(* keeps a table of the apps, a registry of the endpoints that provider     *)
(* apps share under a group, and writes the URLs of a group into the        *)
(* environment of the Deployment of every app that asks for the group.      *)
(*                                                                         *)
(* The watch is opened without a resource version, so the API server first  *)
(* replays every existing object; the same objects are listed once more     *)
(* before the first event is taken.  The Deployments are shared with        *)
(* everything else that writes them: an Update is refused when the          *)
(* Deployment changed since it was read.  An app's Deployments get the same *)
(* variables, each by an Update of its own whose refusal stops no other     *)
(* one: one of them, any of them, stands for the app.                       *)
(*                                                                         *)
(* A value of the environment is the set of URLs the comma-separated list   *)
(* holds, {} when the variable is not set: the code joins the same URLs in  *)
(* the order of their registration.                                         *)
(***************************************************************************)
EXTENDS Naturals, Sequences, FiniteSets

CONSTANTS
  Apps,        \* the apps, by the name in their resource
  Groups,      \* groups of shared entrances, such as api.ollama
  Addresses,   \* host and port of an endpoint
  EnvVars,     \* names of environment variables
  VarOf,       \* [Groups -> EnvVars]: groupToEnvVarName
  SpecsOf,     \* [Apps -> sets of specs]: what an app's resource may say
  None,
  MaxChanges,  \* changes made to the cluster by others (a bound)
  MaxBreaks    \* cuts of the watch and restarts of the process (a bound)

VARIABLES
  cluster,     \* the Application resources in the API server
  deployed,    \* per app: the environment of one of its Deployments, or None
  stream,      \* events sent on the watch and not yet taken
  watching,    \* the watch is open on the API server's side
  loop,        \* watchApplications: "closed", "listing" or "events"
  listed,      \* resources listed and not yet handled
  job,         \* the event being handled, or None
  patch,       \* the Deployment read and about to be updated, or None
  apps,        \* Server.apps
  providers,   \* ProviderRegistry.providers
  perms,       \* PermissionManager.permissions: the apps that have any
  \* What the properties remember:
  stale,       \* per app: why its Deployment may lack what it asks for
  missed,      \* apps whose deletion was sent on no watch
  changes, breaks

clusterVars == <<cluster, deployed, stream, watching>>
serverVars == <<loop, listed, job, patch, apps, providers, perms>>
vars == <<clusterVars, serverVars, stale, missed, changes, breaks>>

Wants == [group : Groups, static : Addresses \cup {None}]

\* offers: spec.sharedEntrances.  wants: permission.sysData, with the service
\* and port an entry may name.  also: permission.provider.
SpecType ==
  [offers : [Groups -> Addresses \cup {None}],
   wants : Seq(Wants), also : Seq(Groups), permits : BOOLEAN]

Endpoints == [app : Apps, at : Addresses]
Envs == [EnvVars -> SUBSET Addresses]
Unset == [v \in EnvVars |-> {}]

AllSpecs == UNION {SpecsOf[a] : a \in Apps}
Tables == {f \in [Apps -> AllSpecs \cup {None}] : \A a \in Apps : f[a] \in SpecsOf[a] \cup {None}}

Events == {ev \in [type : {"put", "del"}, app : Apps, spec : AllSpecs] :
             ev.spec \in SpecsOf[ev.app]}
Jobs == [type : {"put", "del"}, app : Apps, left : SUBSET (Groups \X Apps), self : BOOLEAN]
Patches == [app : Apps, seen : {"same", "touched", "replaced"}]

ASSUME ProviderAssumption ==
  /\ IsFiniteSet(Apps)
  /\ VarOf \in [Groups -> EnvVars]
  /\ DOMAIN SpecsOf = Apps
  /\ \A a \in Apps : \A s \in SpecsOf[a] : s \in SpecType /\ s # None
  /\ None \notin Addresses /\ None \notin Envs
  /\ None \notin Jobs /\ None \notin Patches
  /\ MaxChanges \in Nat /\ MaxBreaks \in Nat

\* Every version of an app's resource shares entrances under the same groups.
KeepsGroups ==
  \A a \in Apps : \A s, t \in SpecsOf[a] : \A g \in Groups :
    s.offers[g] = None <=> t.offers[g] = None

\* No app asks for a group under permission.provider.
AsksBySysData == \A a \in Apps : \A s \in SpecsOf[a] : s.also = <<>>

-----------------------------------------------------------------------------
(* registry.go *)

Offered(s) == {g \in Groups : s.offers[g] # None}

\* Slip: an endpoint registered before is left as it was.
RegisteredOnce(a, s) ==
  [g \in Groups |->
     IF s.offers[g] = None \/ \E e \in providers[g] : e.app = a THEN providers[g]
     ELSE providers[g] \cup {[app |-> a, at |-> s.offers[g]]}]

\* RegisterProvider: an app has one endpoint per group, replaced when it
\* registers again; groups its resource no longer names are left alone.
Registered(a, s) ==
  [g \in Groups |->
     IF s.offers[g] = None THEN providers[g]
     ELSE {e \in providers[g] : e.app # a} \cup {[app |-> a, at |-> s.offers[g]]}]

\* UnregisterProvider
Unregistered(a) == [g \in Groups |-> {e \in providers[g] : e.app # a}]

\* FindConsumers for each group that a spec offers.
Consumers(known, s) ==
  {gc \in Groups \X Apps :
     /\ gc[1] \in Offered(s)
     /\ known[gc[2]] # None
     /\ \E i \in DOMAIN known[gc[2]].wants : known[gc[2]].wants[i].group = gc[1]}

-----------------------------------------------------------------------------
(* reconciler.go *)

Entries(s) == s.wants \o [i \in DOMAIN s.also |-> [group |-> s.also[i], static |-> None]]

\* The URLs of one entry: every provider's of its group, else its own service.
URLs(reg, entry) ==
  IF reg[entry.group] # {} THEN {e.at : e \in reg[entry.group]}
  ELSE IF entry.static # None THEN {entry.static} ELSE {}

\* Entries that set variable v.
Setting(reg, s, v) ==
  {i \in DOMAIN Entries(s) :
     VarOf[Entries(s)[i].group] = v /\ URLs(reg, Entries(s)[i]) # {}}

\* buildProviderEnvVars: of the entries that set a variable the last one stays.
EnvFor(reg, s) ==
  [v \in EnvVars |->
     UNION {URLs(reg, Entries(s)[i]) :
              i \in {k \in Setting(reg, s, v) : \A j \in Setting(reg, s, v) : j <= k}}]

\* mergeEnvVars: variables are added and replaced, never removed.
Merged(env, new) == [v \in EnvVars |-> IF new[v] # {} THEN new[v] ELSE env[v]]

-----------------------------------------------------------------------------
(* The cluster: app-service and the controllers of Kubernetes, as the       *)
(* system server sees them.                                                 *)

Sent(events) == stream' = IF watching THEN stream \o events ELSE stream

\* A patch in flight whose Deployment is written by someone else.
Overtaken(a, how) ==
  patch' = IF patch # None /\ patch.app = a THEN [patch EXCEPT !.seen = how] ELSE patch

Change ==
  /\ changes < MaxChanges
  /\ changes' = changes + 1
  /\ UNCHANGED <<watching, loop, listed, job, apps, providers, perms, breaks>>

\* helm creates the Deployment; app-service applies the resource afterwards.
Deploys(a) ==
  /\ deployed[a] = None
  /\ deployed' = [deployed EXCEPT ![a] = Unset]
  /\ stale' = [stale EXCEPT ![a] = IF cluster[a] = None THEN "new" ELSE "kept"]
  /\ Overtaken(a, "replaced")
  /\ Change
  /\ UNCHANGED <<cluster, stream, missed>>

Undeploys(a) ==
  /\ deployed[a] # None
  /\ deployed' = [deployed EXCEPT ![a] = None]
  /\ Overtaken(a, "replaced")
  /\ Change
  /\ UNCHANGED <<cluster, stream, stale, missed>>

\* Anything else that writes the Deployment: scaling, its status.
Touches(a) ==
  /\ patch # None /\ patch.app = a /\ patch.seen = "same"
  /\ Overtaken(a, "touched")
  /\ Change
  /\ UNCHANGED <<cluster, deployed, stream, stale, missed>>

Applies(a, s) ==
  /\ deployed[a] # None /\ cluster[a] # s
  /\ cluster' = [cluster EXCEPT ![a] = s]
  /\ Sent(<<[type |-> "put", app |-> a, spec |-> s]>>)
  /\ missed' = missed \ {a}
  /\ Change
  /\ UNCHANGED <<deployed, patch, stale>>

Deletes(a) ==
  /\ cluster[a] # None
  /\ cluster' = [cluster EXCEPT ![a] = None]
  /\ Sent(<<[type |-> "del", app |-> a, spec |-> cluster[a]]>>)
  /\ missed' = IF watching THEN missed ELSE missed \cup {a}
  /\ Change
  /\ UNCHANGED <<deployed, patch, stale>>

\* The connection is lost with every event not taken yet.
Breaks ==
  /\ watching
  /\ breaks < MaxBreaks
  /\ breaks' = breaks + 1
  /\ watching' = FALSE
  /\ stream' = <<>>
  /\ missed' = missed \cup {a \in Apps : cluster[a] = None /\
                 \E i \in DOMAIN stream : stream[i].app = a /\ stream[i].type = "del"}
  /\ UNCHANGED <<cluster, deployed, serverVars, stale, changes>>

-----------------------------------------------------------------------------
(* server.go *)

Nothing == [a \in Apps |-> None]

\* A put event for every existing resource, in any order.
Replays ==
  LET there == {a \in Apps : cluster[a] # None}
      n == Cardinality(there)
      orders == {o \in [1..n -> there] : \A a \in there : \E i \in 1..n : o[i] = a}
  IN  {[i \in 1..n |-> [type |-> "put", app |-> o[i], spec |-> cluster[o[i]]]] : o \in orders}

\* Slip: the watch starts at the present and replays nothing.
OpensSilently ==
  /\ loop = "closed"
  /\ loop' = "listing"
  /\ watching' = TRUE
  /\ UNCHANGED <<cluster, deployed, stream, listed, job, patch, apps, providers, perms,
                 stale, missed, changes, breaks>>

\* watchApplications: the watch is opened before the resources are listed.
Opens ==
  /\ loop = "closed"
  /\ loop' = "listing"
  /\ watching' = TRUE
  /\ stream' \in Replays
  /\ UNCHANGED <<cluster, deployed, listed, job, patch, apps, providers, perms,
                 stale, missed, changes, breaks>>

\* reconcileExistingApps; a failed list is only logged.
Lists ==
  /\ loop = "listing"
  /\ loop' = "events"
  /\ listed' \in {cluster, Nothing}
  /\ UNCHANGED <<clusterVars, job, patch, apps, providers, perms, stale, missed,
                 changes, breaks>>

\* Slip: an app that is known already notifies nobody.
PutStartsQuietly(a, s) ==
  /\ apps' = [apps EXCEPT ![a] = s]
  /\ perms' = IF s.permits THEN perms \cup {a} ELSE perms
  /\ providers' = Registered(a, s)
  /\ job' = [type |-> "put", app |-> a, self |-> s.wants # <<>>,
             left |-> IF apps[a] = None THEN Consumers(apps', s) ELSE {}]

\* Slip: a consumer is reconciled only when a provider changes.
PutStartsProvider(a, s) ==
  /\ apps' = [apps EXCEPT ![a] = s]
  /\ perms' = IF s.permits THEN perms \cup {a} ELSE perms
  /\ providers' = Registered(a, s)
  /\ job' = [type |-> "put", app |-> a, left |-> Consumers(apps', s), self |-> FALSE]

\* handleAppCreateOrUpdate: table, permissions and registry, then the consumers
\* of its groups and at last the app itself are reconciled.
PutStarts(a, s) ==
  /\ apps' = [apps EXCEPT ![a] = s]
  /\ perms' = IF s.permits THEN perms \cup {a} ELSE perms
  /\ providers' = Registered(a, s)
  /\ job' = [type |-> "put", app |-> a, left |-> Consumers(apps', s), self |-> s.wants # <<>>]

\* Slip: the table first.
DeleteStartsEarly(a, s) ==
  /\ providers' = IF Offered(s) # {} THEN Unregistered(a) ELSE providers
  /\ apps' = [apps EXCEPT ![a] = None]
  /\ job' = [type |-> "del", app |-> a, left |-> Consumers(apps', s), self |-> FALSE]
  /\ UNCHANGED perms

\* handleAppDelete: the registry first, so that consumers are still found.
DeleteStarts(a, s) ==
  /\ providers' = IF Offered(s) # {} THEN Unregistered(a) ELSE providers
  /\ job' = [type |-> "del", app |-> a, left |-> Consumers(apps, s), self |-> FALSE]
  /\ UNCHANGED <<apps, perms>>

TakesListed(a) ==
  /\ loop = "events" /\ job = None /\ listed[a] # None
  /\ PutStarts(a, listed[a])
  /\ listed' = [listed EXCEPT ![a] = None]
  /\ UNCHANGED <<clusterVars, loop, patch, stale, missed, changes, breaks>>

TakesEvent ==
  /\ loop = "events" /\ job = None /\ listed = Nothing /\ stream # <<>>
  /\ LET ev == Head(stream)
     IN  \/ ev.type = "put" /\ PutStarts(ev.app, ev.spec)
         \/ ev.type = "del" /\ DeleteStarts(ev.app, ev.spec)
  /\ stream' = Tail(stream)
  /\ UNCHANGED <<cluster, deployed, watching, loop, listed, patch, stale, missed,
                 changes, breaks>>

\* The consumers still to reconcile, the app itself last.
ToReconcile ==
  IF job.left # {} THEN {gc[2] : gc \in job.left}
  ELSE IF job.self THEN {job.app} ELSE {}

\* Slip: a consumer stays on the list.
ReconciledAgain(c) == job' = job

\* One call of Reconcile is one pair less.
Reconciled(c) ==
  IF job.left = {} THEN job' = [job EXCEPT !.self = FALSE]
  ELSE \E gc \in job.left : gc[2] = c /\ job' = [job EXCEPT !.left = @ \ {gc}]

\* Reconcile, up to the Update: returns when there is nothing to set or nothing
\* to set it on, or when the Deployments cannot be listed.
ReconcileStarts(c) ==
  /\ job # None /\ patch = None
  /\ c \in ToReconcile
  /\ Reconciled(c)
  /\ LET new == EnvFor(providers, apps[c])
     IN  \/ /\ new = Unset \/ deployed[c] = None
            /\ UNCHANGED <<patch, stale>>
         \/ /\ new # Unset /\ deployed[c] # None
            /\ stale' = [stale EXCEPT ![c] = "refused"]
            /\ UNCHANGED patch
         \/ /\ new # Unset /\ deployed[c] # None
            /\ IF Merged(deployed[c], new) = deployed[c]
               THEN /\ stale' = [stale EXCEPT ![c] = "no"]
                    /\ UNCHANGED patch
               ELSE /\ patch' = [app |-> c, seen |-> "same"]
                    /\ UNCHANGED stale
  /\ UNCHANGED <<clusterVars, loop, listed, apps, providers, perms, missed,
                 changes, breaks>>

\* patchDeploymentEnvVars: the Update of the Deployment as it was read.
PatchLands ==
  /\ patch # None /\ patch.seen = "same"
  /\ deployed' = [deployed EXCEPT
       ![patch.app] = Merged(@, EnvFor(providers, apps[patch.app]))]
  /\ stale' = [stale EXCEPT ![patch.app] = "no"]
  /\ patch' = None
  /\ UNCHANGED <<cluster, stream, watching, loop, listed, job, apps, providers,
                 perms, missed, changes, breaks>>

\* A conflict, or any other error: logged.
PatchRefused ==
  /\ patch # None
  /\ stale' = IF patch.seen = "replaced" THEN stale
              ELSE [stale EXCEPT ![patch.app] = "refused"]
  /\ patch' = None
  /\ UNCHANGED <<clusterVars, loop, listed, job, apps, providers, perms, missed,
                 changes, breaks>>

\* The end of a handler: only now does a deleted app leave the table.
Finishes ==
  /\ job # None /\ patch = None /\ ToReconcile = {}
  /\ job' = None
  /\ apps' = IF job.type = "del" THEN [apps EXCEPT ![job.app] = None] ELSE apps
  /\ perms' = IF job.type = "del" THEN perms \ {job.app} ELSE perms
  /\ UNCHANGED <<clusterVars, loop, listed, patch, providers, stale, missed,
                 changes, breaks>>

\* The channel is found closed; Run opens another watch five seconds later.
FindsClosed ==
  /\ loop = "events" /\ job = None /\ listed = Nothing /\ stream = <<>>
  /\ ~watching
  /\ loop' = "closed"
  /\ UNCHANGED <<clusterVars, listed, job, patch, apps, providers, perms, stale,
                 missed, changes, breaks>>

-----------------------------------------------------------------------------
(* The specification *)

\* The process starts with empty tables beside whatever is installed.
Init ==
  /\ cluster \in Tables
  /\ deployed = [a \in Apps |-> IF cluster[a] = None THEN None ELSE Unset]
  /\ stale = [a \in Apps |-> "new"]
  /\ stream = <<>> /\ watching = FALSE
  /\ loop = "closed" /\ listed = Nothing /\ job = None /\ patch = None
  /\ apps = Nothing
  /\ providers = [g \in Groups |-> {}]
  /\ perms = {} /\ missed = {} /\ changes = 0 /\ breaks = 0

\* The process ends at any point and starts again with empty tables.
Restarts ==
  /\ breaks < MaxBreaks
  /\ breaks' = breaks + 1
  /\ watching' = FALSE /\ stream' = <<>>
  /\ loop' = "closed" /\ listed' = Nothing /\ job' = None /\ patch' = None
  /\ apps' = Nothing
  /\ providers' = [g \in Groups |-> {}]
  /\ perms' = {} /\ missed' = {}
  /\ UNCHANGED <<cluster, deployed, stale, changes>>

Others ==
  \/ \E a \in Apps : Deploys(a) \/ Undeploys(a) \/ Touches(a) \/ Deletes(a)
  \/ \E a \in Apps : \E s \in SpecsOf[a] : Applies(a, s)
  \/ Breaks \/ Restarts

Server ==
  \/ Opens \/ Lists \/ TakesEvent \/ PatchLands \/ PatchRefused \/ Finishes \/ FindsClosed
  \/ \E a \in Apps : TakesListed(a) \/ ReconcileStarts(a)

\* The system at rest with an open watch is not an error.
Rests ==
  /\ watching /\ stream = <<>> /\ loop = "events" /\ job = None /\ listed = Nothing
  /\ UNCHANGED vars

Next == Others \/ Server \/ Rests

\* The goroutine keeps running and the API server answers a retried watch; the
\* others, and the network, owe nothing.
Spec == Init /\ [][Next]_vars /\ WF_vars(Server)

-----------------------------------------------------------------------------
(* Properties *)

TypeOK ==
  /\ cluster \in Tables /\ apps \in Tables /\ listed \in Tables
  /\ stream \in Seq(Events)
  /\ deployed \in [Apps -> Envs \cup {None}]
  /\ providers \in [Groups -> SUBSET Endpoints]
  /\ perms \subseteq {a \in Apps : apps[a] # None}
  /\ stale \in [Apps -> {"no", "new", "kept", "refused"}]
  /\ missed \subseteq Apps
  /\ loop \in {"closed", "listing", "events"}
  /\ job \in Jobs \cup {None}
  /\ patch \in Patches \cup {None}

Idle == job = None

\* Everything that was sent has been handled and the watch is open.
Quiet == watching /\ stream = <<>> /\ loop = "events" /\ Idle /\ listed = Nothing

\* server.go: list and replayed watch overlap, so old events are handled after
\* newer listed objects; still the table ends as the cluster is, except for apps
\* deleted while no watch was open, which nothing ever removes.
AppsFollowCluster ==
  Quiet => \A a \in Apps \ missed : apps[a] = cluster[a]

\* registry.go: between two events the registry holds exactly the endpoints that
\* the apps in the table share, at the address each shared last, whatever was
\* replayed, replaced or deleted.  (Of apps that keep their groups: see KeepsGroups.)
RegistryFollowsApps ==
  Idle => \A g \in Groups :
    providers[g] = {[app |-> a, at |-> apps[a].offers[g]] :
                      a \in {x \in Apps : apps[x] # None /\ apps[x].offers[g] # None}}

\* The Deployment of c has every value the registry asks for.
Served(c, s) == Merged(deployed[c], EnvFor(providers, s)) = deployed[c]

\* reconciler.go: between two events every known consumer whose Deployment was
\* reached since it was created, and whose last Update was not refused, has the
\* URLs of the present providers: no change of a provider passes by a consumer.
EnvFollowsRegistry ==
  Idle => \A c \in Apps :
    apps[c] # None /\ apps[c].wants # <<>> /\ deployed[c] # None /\ stale[c] = "no"
    => Served(c, apps[c])

\* The same from the user's side: a consumer installed in any order with its
\* providers has their URLs once all events are handled, unless an Update was
\* refused or the Deployment was created again under the same resource.
InstalledAreServed ==
  Quiet => \A c \in Apps \ missed :
    /\ cluster[c] # None /\ deployed[c] # None
    /\ cluster[c].wants # <<>> /\ stale[c] \in {"no", "new"}
    => Served(c, cluster[c])

\* The goroutine never stays busy, or without a watch, for ever: after the last
\* change, break or restart every event is handled and the watch is open.
CatchesUp == <>[]Quiet

-----------------------------------------------------------------------------
(* What comments in the source say, and the code does not do *)

\* server.go:265, on a deletion: "Reconcile consumers that depended on this
\* provider".
NoURLOfDeletedApp ==
  Quiet /\ missed = {} => \A c \in Apps :
    apps[c] # None /\ deployed[c] # None /\ stale[c] = "no" =>
      \A v \in EnvVars : deployed[c][v] \subseteq
        {e.at : e \in UNION {providers[g] : g \in Groups}}
=============================================================================
