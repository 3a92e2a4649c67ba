------------------------- MODULE ProviderSyncProofs -------------------------
(***************************************************************************)
(* Proofs about ProviderSync, for any apps, specs, changes and breaks.     *)
(***************************************************************************)
EXTENDS ProviderSync, FiniteSetTheorems, TLAPS

-----------------------------------------------------------------------------
(* Types *)

LEMMA TableUpdate ==
  ASSUME NEW f \in Tables, NEW a \in Apps, NEW s \in SpecsOf[a] \cup {None}
  PROVE  [f EXCEPT ![a] = s] \in Tables
BY DEF Tables, AllSpecs

LEMMA NothingIsTable == Nothing \in Tables
BY DEF Nothing, Tables

LEMMA SpecFacts ==
  ASSUME NEW a \in Apps, NEW s \in SpecsOf[a]
  PROVE  /\ s \in SpecType /\ s # None /\ s \in AllSpecs
         /\ s.offers \in [Groups -> Addresses \cup {None}]
         /\ s.permits \in BOOLEAN /\ s.wants \in Seq(Wants) /\ s.also \in Seq(Groups)
BY ProviderAssumption DEF SpecType, AllSpecs

LEMMA RegistryType ==
  ASSUME providers \in [Groups -> SUBSET Endpoints], NEW a \in Apps, NEW s \in SpecsOf[a]
  PROVE  /\ Registered(a, s) \in [Groups -> SUBSET Endpoints]
         /\ Unregistered(a) \in [Groups -> SUBSET Endpoints]
BY SpecFacts DEF Registered, Unregistered, Endpoints

LEMMA EntriesType ==
  ASSUME NEW a \in Apps, NEW s \in SpecsOf[a]
  PROVE  Entries(s) \in Seq(Wants)
<1>1. [i \in DOMAIN s.also |-> [group |-> s.also[i], static |-> None]] \in Seq(Wants)
  <2> DEFINE e == [i \in 1..Len(s.also) |-> [group |-> s.also[i], static |-> None]]
  <2>1. s.also \in Seq(Groups) BY SpecFacts
  <2>2. Len(s.also) \in Nat /\ DOMAIN s.also = 1..Len(s.also) BY <2>1
  <2>3. e \in [1..Len(s.also) -> Wants] BY <2>1 DEF Wants
  <2> QED BY <2>2, <2>3
<1> QED BY <1>1, SpecFacts DEF Entries

LEMMA EnvType ==
  ASSUME providers \in [Groups -> SUBSET Endpoints], NEW a \in Apps, NEW s \in SpecsOf[a]
  PROVE  EnvFor(providers, s) \in Envs
<1>1. ASSUME NEW i \in DOMAIN Entries(s)
      PROVE  URLs(providers, Entries(s)[i]) \in SUBSET Addresses
  <2>1. Entries(s)[i] \in Wants BY EntriesType
  <2> QED BY <2>1 DEF URLs, Wants, Endpoints
<1> QED BY <1>1 DEF EnvFor, Envs, Setting

LEMMA MergedType ==
  ASSUME NEW env \in Envs, NEW new \in Envs
  PROVE  /\ Merged(env, new) \in Envs
         /\ Merged(Merged(env, new), new) = Merged(env, new)
         /\ Merged(env, Unset) = env
BY DEF Merged, Envs, Unset

\* What an app asks for depends on the groups under which it asks.
LEMMA EnvDepends ==
  ASSUME NEW a \in Apps, NEW s \in SpecsOf[a], s.also = <<>>,
         NEW reg1, NEW reg2,
         \A i \in DOMAIN s.wants : reg1[s.wants[i].group] = reg2[s.wants[i].group]
  PROVE  EnvFor(reg1, s) = EnvFor(reg2, s)
<1>1. [i \in DOMAIN s.also |-> [group |-> s.also[i], static |-> None]] = <<>>
  OBVIOUS
<1>2. Entries(s) = s.wants
  BY <1>1, SpecFacts DEF Entries
<1>3. ASSUME NEW i \in DOMAIN s.wants
      PROVE  URLs(reg1, s.wants[i]) = URLs(reg2, s.wants[i])
  BY DEF URLs
<1>4. ASSUME NEW v \in EnvVars PROVE Setting(reg1, s, v) = Setting(reg2, s, v)
  BY <1>2, <1>3 DEF Setting
<1>5. ASSUME NEW v \in EnvVars
      PROVE  \A i \in Setting(reg1, s, v) : URLs(reg1, Entries(s)[i]) = URLs(reg2, Entries(s)[i])
  BY <1>2, <1>3 DEF Setting
<1> QED BY <1>4, <1>5 DEF EnvFor

-----------------------------------------------------------------------------
(* Every step keeps the types *)

LEMMA InitType == Init => TypeOK
<1> SUFFICES ASSUME Init PROVE TypeOK OBVIOUS
<1>1. cluster \in Tables /\ apps \in Tables /\ listed \in Tables
  BY NothingIsTable DEF Init
<1>2. deployed \in [Apps -> Envs \cup {None}]
  BY DEF Init, Unset, Envs
<1>3. stream \in Seq(Events) BY DEF Init
<1> QED BY <1>1, <1>2, <1>3 DEF Init, TypeOK

LEMMA ChangeType ==
  ASSUME TypeOK, NEW a \in Apps,
         \/ Deploys(a) \/ Undeploys(a) \/ Touches(a) \/ Deletes(a)
         \/ \E s \in SpecsOf[a] : Applies(a, s)
  PROVE  TypeOK'
<1> USE DEF TypeOK, Change
<1>1. CASE Deploys(a)
  <2>1. deployed' \in [Apps -> Envs \cup {None}]
    BY <1>1 DEF Deploys, Unset, Envs
  <2>2. patch' \in Patches \cup {None}
    BY <1>1 DEF Deploys, Overtaken, Patches
  <2>3. stale' \in [Apps -> {"no", "new", "kept", "refused"}]
    BY <1>1 DEF Deploys
  <2> QED BY <1>1, <2>1, <2>2, <2>3 DEF Deploys
<1>2. CASE Undeploys(a)
  <2>1. patch' \in Patches \cup {None}
    BY <1>2 DEF Undeploys, Overtaken, Patches
  <2>2. deployed' \in [Apps -> Envs \cup {None}]
    BY <1>2 DEF Undeploys
  <2> QED BY <1>2, <2>1, <2>2 DEF Undeploys
<1>3. CASE Touches(a)
  <2>1. patch' \in Patches \cup {None}
    BY <1>3 DEF Touches, Overtaken, Patches
  <2> QED BY <1>3, <2>1 DEF Touches
<1>4. CASE Deletes(a)
  <2>1. cluster' \in Tables
    BY <1>4, TableUpdate DEF Deletes
  <2>2. [type |-> "del", app |-> a, spec |-> cluster[a]] \in Events
    BY <1>4, SpecFacts DEF Deletes, Events, Tables
  <2>3. stream' \in Seq(Events)
    BY <1>4, <2>2 DEF Deletes, Sent
  <2> QED BY <1>4, <2>1, <2>3 DEF Deletes
<1>5. CASE \E s \in SpecsOf[a] : Applies(a, s)
  <2> PICK s \in SpecsOf[a] : Applies(a, s) BY <1>5
  <2>1. cluster' \in Tables
    BY TableUpdate DEF Applies
  <2>2. [type |-> "put", app |-> a, spec |-> s] \in Events
    BY SpecFacts DEF Events
  <2>3. stream' \in Seq(Events)
    BY <2>2 DEF Applies, Sent
  <2> QED BY <2>1, <2>3 DEF Applies
<1> QED BY <1>1, <1>2, <1>3, <1>4, <1>5

LEMMA BreakType ==
  ASSUME TypeOK, Breaks \/ Restarts
  PROVE  TypeOK'
<1>1. CASE Breaks
  <2>1. stream' \in Seq(Events) BY <1>1 DEF Breaks
  <2> QED BY <1>1, <2>1 DEF Breaks, TypeOK, serverVars
<1>2. CASE Restarts
  <2>1. stream' \in Seq(Events) BY <1>2 DEF Restarts
  <2>2. listed' \in Tables /\ apps' \in Tables BY <1>2, NothingIsTable DEF Restarts
  <2>3. providers' \in [Groups -> SUBSET Endpoints] BY <1>2 DEF Restarts
  <2> QED BY <1>2, <2>1, <2>2, <2>3 DEF Restarts, TypeOK
<1> QED BY <1>1, <1>2

LEMMA PutType ==
  ASSUME TypeOK, NEW a \in Apps, NEW s \in SpecsOf[a], PutStarts(a, s)
  PROVE  /\ apps' \in Tables
         /\ providers' \in [Groups -> SUBSET Endpoints]
         /\ perms' \subseteq {x \in Apps : apps'[x] # None}
         /\ job' \in Jobs /\ job' # None
<1>1. apps' \in Tables BY TableUpdate DEF PutStarts, TypeOK
<1>2. providers' \in [Groups -> SUBSET Endpoints]
  BY RegistryType DEF PutStarts, TypeOK
<1>3. perms' \subseteq {x \in Apps : apps'[x] # None}
  BY SpecFacts DEF PutStarts, TypeOK, Tables
<1>4. job' \in Jobs BY DEF PutStarts, Jobs, Consumers
<1> QED BY <1>1, <1>2, <1>3, <1>4, ProviderAssumption

LEMMA DeleteType ==
  ASSUME TypeOK, NEW a \in Apps, NEW s \in SpecsOf[a], DeleteStarts(a, s)
  PROVE  /\ providers' \in [Groups -> SUBSET Endpoints]
         /\ job' \in Jobs /\ job' # None
<1>1. providers' \in [Groups -> SUBSET Endpoints]
  BY RegistryType DEF DeleteStarts, TypeOK
<1>2. job' \in Jobs BY DEF DeleteStarts, Jobs, Consumers
<1> QED BY <1>1, <1>2, ProviderAssumption

\* What the next event or listed resource may be.
LEMMA EventFacts ==
  ASSUME TypeOK, stream # <<>>
  PROVE  /\ Head(stream).app \in Apps
         /\ Head(stream).spec \in SpecsOf[Head(stream).app]
         /\ Tail(stream) \in Seq(Events)
<1>1. stream \in Seq(Events) BY DEF TypeOK
<1>2. Head(stream) \in Events BY <1>1
<1> QED BY <1>1, <1>2 DEF Events

LEMMA ListedFacts ==
  ASSUME TypeOK, NEW a \in Apps, listed[a] # None
  PROVE  /\ listed[a] \in SpecsOf[a]
         /\ [listed EXCEPT ![a] = None] \in Tables
BY TableUpdate DEF TypeOK, Tables

\* What is being reconciled is in the table, and a patch that can still land has
\* a Deployment to land on.
Known ==
  /\ job # None => /\ \A gc \in job.left : apps[gc[2]] # None
                   /\ job.self => apps[job.app] # None
  /\ patch # None => /\ job # None /\ apps[patch.app] # None
                     /\ patch.seen # "replaced" => deployed[patch.app] # None

LEMMA ConsumerFacts ==
  ASSUME TypeOK, Known, NEW c \in Apps, job # None, c \in ToReconcile
  PROVE  /\ apps[c] # None /\ apps[c] \in SpecsOf[c]
         /\ EnvFor(providers, apps[c]) \in Envs
<1>1. job \in Jobs BY DEF TypeOK
<1>2. apps[c] # None BY <1>1 DEF Known, ToReconcile, Jobs
<1>3. apps[c] \in SpecsOf[c] BY <1>2 DEF TypeOK, Tables
<1> QED BY <1>2, <1>3, EnvType DEF TypeOK

LEMMA ServerType ==
  ASSUME TypeOK, Known, Server
  PROVE  TypeOK' /\ Known'
<1> USE DEF TypeOK
<1>1. CASE Opens
  <2>1. stream' \in Seq(Events)
    <3> DEFINE there == {a \in Apps : cluster[a] # None}
    <3>1. PICK o \in [1..Cardinality(there) -> there] :
             stream' = [i \in 1..Cardinality(there) |->
                          [type |-> "put", app |-> o[i], spec |-> cluster[o[i]]]]
      BY <1>1 DEF Opens, Replays
    <3>2. \A a \in there : [type |-> "put", app |-> a, spec |-> cluster[a]] \in Events
      BY SpecFacts DEF Events, Tables
    <3>3. Cardinality(there) \in Nat
      BY ProviderAssumption, FS_Subset, FS_CardinalityType
    <3>4. stream' \in [1..Cardinality(there) -> Events] BY <3>1, <3>2
    <3> HIDE DEF there
    <3> QED BY <3>3, <3>4
  <2> QED BY <1>1, <2>1 DEF Opens, Known
<1>2. CASE Lists
  BY <1>2, NothingIsTable DEF Lists, Known, clusterVars
<1>3. CASE TakesEvent
  <2>1. stream' \in Seq(Events) BY <1>3, EventFacts DEF TakesEvent
  <2>2. patch = None BY <1>3 DEF TakesEvent, Known
  <2> DEFINE ev == Head(stream)
  <2>3. CASE PutStarts(ev.app, ev.spec)
    <3>1. apps'[ev.app] = ev.spec /\ ev.spec # None
      BY <1>3, <2>3, EventFacts, SpecFacts DEF PutStarts, TakesEvent, Tables
    <3>2. Known'
      BY <1>3, <2>2, <2>3, <3>1 DEF PutStarts, Known, Consumers, TakesEvent
    <3> QED BY <1>3, <2>1, <2>3, <3>2, PutType, EventFacts DEF TakesEvent
  <2>4. CASE DeleteStarts(ev.app, ev.spec)
    <3>1. Known' BY <1>3, <2>2, <2>4 DEF DeleteStarts, Known, Consumers, TakesEvent
    <3> QED BY <1>3, <2>1, <2>4, <3>1, DeleteType, EventFacts DEF TakesEvent, DeleteStarts
  <2> QED BY <1>3, <2>3, <2>4 DEF TakesEvent
<1>4. CASE PatchLands
  <2> DEFINE c == patch.app
  <2>1. c \in Apps /\ apps[c] # None /\ deployed[c] \in Envs
    BY <1>4 DEF PatchLands, Known, Patches
  <2>2. apps[c] \in SpecsOf[c] BY <2>1 DEF Tables
  <2>3. EnvFor(providers, apps[c]) \in Envs BY <2>1, <2>2, EnvType
  <2>4. Merged(deployed[c], EnvFor(providers, apps[c])) \in Envs
    BY <2>1, <2>3 DEF Merged, Envs
  <2>5. deployed' \in [Apps -> Envs \cup {None}] BY <1>4, <2>4 DEF PatchLands
  <2>6. stale' \in [Apps -> {"no", "new", "kept", "refused"}] BY <1>4 DEF PatchLands
  <2> QED BY <1>4, <2>5, <2>6 DEF PatchLands, Known
<1>5. CASE PatchRefused
  <2>1. stale' \in [Apps -> {"no", "new", "kept", "refused"}] BY <1>5 DEF PatchRefused
  <2> QED BY <1>5, <2>1 DEF PatchRefused, Known, clusterVars
<1>6. CASE Finishes
  <2>1. job \in Jobs BY <1>6 DEF Finishes
  <2>2. apps' \in Tables
    BY <1>6, <2>1, TableUpdate DEF Finishes, Jobs
  <2>3. perms' \subseteq {x \in Apps : apps'[x] # None}
    BY <1>6, <2>1 DEF Finishes, Jobs, Tables
  <2> QED BY <1>6, <2>2, <2>3 DEF Finishes, Known, clusterVars
<1>7. CASE FindsClosed
  BY <1>7 DEF FindsClosed, Known, clusterVars
<1>8. ASSUME NEW a \in Apps, TakesListed(a) PROVE TypeOK' /\ Known'
  <2>1. PutStarts(a, listed[a]) /\ listed[a] \in SpecsOf[a] /\ listed' \in Tables
    BY <1>8, ListedFacts DEF TakesListed
  <2>2. patch = None BY <1>8 DEF TakesListed, Known
  <2>3. apps'[a] = listed[a] /\ listed[a] # None
    BY <1>8, <2>1 DEF PutStarts, TakesListed, Tables
  <2>4. Known' BY <1>8, <2>1, <2>2, <2>3 DEF PutStarts, Known, Consumers, TakesListed
  <2> QED BY <1>8, <2>1, <2>4, PutType DEF TakesListed, clusterVars
<1>9. ASSUME NEW c \in Apps, ReconcileStarts(c) PROVE TypeOK' /\ Known'
  <2>1. job \in Jobs /\ job # None /\ c \in ToReconcile /\ patch = None
    BY <1>9 DEF ReconcileStarts
  <2>2. /\ job' \in Jobs /\ job'.app = job.app
        /\ job'.left \subseteq job.left /\ (job'.self => job.self)
    <3>1. Reconciled(c) BY <1>9 DEF ReconcileStarts
    <3>2. CASE job.left = {}
      <4>1. job' = [job EXCEPT !.self = FALSE] BY <3>1, <3>2 DEF Reconciled
      <4> QED BY <2>1, <4>1 DEF Jobs
    <3>3. CASE job.left # {}
      <4>1. PICK gc \in job.left : job' = [job EXCEPT !.left = @ \ {gc}]
        BY <3>1, <3>3 DEF Reconciled
      <4>2. job.left \ {gc} \in SUBSET (Groups \X Apps) BY <2>1 DEF Jobs
      <4> QED BY <2>1, <4>1, <4>2 DEF Jobs
    <3> QED BY <3>2, <3>3
  <2>3. stale' \in [Apps -> {"no", "new", "kept", "refused"}]
    BY <1>9 DEF ReconcileStarts
  <2>4. /\ patch' \in Patches \cup {None}
        /\ patch' # None => patch'.app = c /\ deployed[c] # None
    BY <1>9, <2>1 DEF ReconcileStarts, Patches
  <2>5. job' # None BY <2>2, ProviderAssumption
  <2>6. apps' = apps /\ deployed' = deployed BY <1>9 DEF ReconcileStarts, clusterVars
  <2>7. Known' BY <2>1, <2>2, <2>4, <2>5, <2>6, ConsumerFacts DEF Known
  <2> QED BY <1>9, <2>2, <2>3, <2>4, <2>7 DEF ReconcileStarts, clusterVars
<1> QED BY <1>1, <1>2, <1>3, <1>4, <1>5, <1>6, <1>7, <1>8, <1>9 DEF Server

\* For every step: TypeOK is kept together with Known.
LEMMA TypeStep ==
  ASSUME TypeOK, Known, [Next]_vars
  PROVE  TypeOK' /\ Known'
<1>1. CASE UNCHANGED vars
  BY <1>1 DEF vars, clusterVars, serverVars, TypeOK, Known
<1>2. ASSUME NEW a \in Apps,
             \/ Deploys(a) \/ Undeploys(a) \/ Touches(a) \/ Deletes(a)
             \/ \E s \in SpecsOf[a] : Applies(a, s)
      PROVE  TypeOK' /\ Known'
  <2>1. TypeOK' BY <1>2, ChangeType
  <2>2. job' = job /\ apps' = apps
    BY <1>2 DEF Deploys, Undeploys, Touches, Deletes, Applies, Change
  <2>3. patch' # None =>
          /\ patch # None /\ patch'.app = patch.app
          /\ patch'.seen # "replaced" => patch.seen # "replaced" /\ deployed'[patch.app] = deployed[patch.app]
    <3> HAVE patch' # None
    <3>1. patch # None
      BY <1>2 DEF Deploys, Undeploys, Touches, Deletes, Applies, Overtaken
    <3>2. patch \in Patches BY <3>1 DEF TypeOK
    <3>3. CASE Deploys(a) BY <3>1, <3>2, <3>3 DEF Deploys, Overtaken, Patches, TypeOK
    <3>4. CASE Undeploys(a) BY <3>1, <3>2, <3>4 DEF Undeploys, Overtaken, Patches, TypeOK
    <3>5. CASE Touches(a) BY <3>1, <3>2, <3>5 DEF Touches, Overtaken, Patches
    <3>6. CASE Deletes(a) BY <3>1, <3>6 DEF Deletes
    <3>7. CASE \E s \in SpecsOf[a] : Applies(a, s) BY <3>1, <3>7 DEF Applies
    <3> QED BY <1>2, <3>3, <3>4, <3>5, <3>6, <3>7
  <2> QED BY <2>1, <2>2, <2>3 DEF Known
<1>3. CASE Breaks \/ Restarts
  <2>1. TypeOK' BY <1>3, BreakType
  <2>2. Known' BY <1>3 DEF Breaks, Restarts, Known, serverVars
  <2> QED BY <2>1, <2>2
<1>4. CASE Server BY <1>4, ServerType
<1>5. CASE Rests BY <1>5, <1>1 DEF Rests
<1> QED BY <1>1, <1>2, <1>3, <1>4, <1>5 DEF Next, Others

\* Type correctness of the specification: whatever is installed, replayed, cut or
\* refused, the server's tables stay within what the resources say.
THEOREM SyncTypes == Spec => []TypeOK
<1>1. Init => TypeOK /\ Known
  BY InitType DEF Init, Known
<1>2. TypeOK /\ Known /\ [Next]_vars => TypeOK' /\ Known'
  BY TypeStep
<1> QED BY <1>1, <1>2, PTL DEF Spec

-----------------------------------------------------------------------------
(* The registry *)

\* A deleted app leaves the registry before it leaves the table.
InTable(a) == apps[a] # None /\ ~(job # None /\ job.type = "del" /\ job.app = a)

RegistryInv ==
  \A g \in Groups, e \in Endpoints :
    e \in providers[g] <=> InTable(e.app) /\ apps[e.app].offers[g] = e.at

LEMMA PutRegistry ==
  ASSUME TypeOK, KeepsGroups, RegistryInv, job = None,
         NEW a \in Apps, NEW s \in SpecsOf[a], PutStarts(a, s)
  PROVE  RegistryInv'
<1>1. apps'[a] = s /\ s # None /\ \A x \in Apps \ {a} : apps'[x] = apps[x]
  BY SpecFacts DEF PutStarts, TypeOK, Tables
<1>2. job' # None /\ job'.type = "put"
  BY PutType DEF PutStarts
<1> SUFFICES ASSUME NEW g \in Groups, NEW e \in Endpoints
             PROVE  e \in Registered(a, s)[g] <=>
                      apps'[e.app] # None /\ apps'[e.app].offers[g] = e.at
  BY <1>2 DEF RegistryInv, InTable, PutStarts
<1>3. e.app \in Apps /\ e.at # None /\ e = [app |-> e.app, at |-> e.at]
  BY ProviderAssumption DEF Endpoints
<1>4. e \in providers[g] <=> apps[e.app] # None /\ apps[e.app].offers[g] = e.at
  BY DEF RegistryInv, InTable
<1>5. CASE e.app # a
  BY <1>1, <1>3, <1>4, <1>5 DEF Registered
<1>6. CASE e.app = a /\ s.offers[g] = None
  <2>1. apps[a] # None => apps[a].offers[g] = None
    BY <1>6 DEF KeepsGroups, TypeOK, Tables
  <2> QED BY <1>1, <1>3, <1>4, <1>6, <2>1 DEF Registered
<1>7. CASE e.app = a /\ s.offers[g] # None
  BY <1>1, <1>3, <1>7 DEF Registered
<1> QED BY <1>5, <1>6, <1>7

LEMMA DeleteRegistry ==
  ASSUME TypeOK, KeepsGroups, RegistryInv, job = None,
         NEW a \in Apps, NEW s \in SpecsOf[a], DeleteStarts(a, s)
  PROVE  RegistryInv'
<1>1. apps' = apps /\ job' # None /\ job'.type = "del" /\ job'.app = a
  BY DeleteType DEF DeleteStarts
<1> SUFFICES ASSUME NEW g \in Groups, NEW e \in Endpoints
             PROVE  e \in providers'[g] <=>
                      apps[e.app] # None /\ e.app # a /\ apps[e.app].offers[g] = e.at
  BY <1>1 DEF RegistryInv, InTable
<1>2. e.app \in Apps /\ e.at # None BY ProviderAssumption DEF Endpoints
<1>3. e \in providers[g] <=> apps[e.app] # None /\ apps[e.app].offers[g] = e.at
  BY DEF RegistryInv, InTable
<1>4. CASE Offered(s) # {}
  BY <1>3, <1>4 DEF DeleteStarts, Unregistered
<1>5. CASE Offered(s) = {}
  <2>1. apps[a] # None => apps[a].offers[g] = None
    BY <1>5 DEF Offered, KeepsGroups, TypeOK, Tables
  <2> QED BY <1>2, <1>3, <1>5, <2>1 DEF DeleteStarts
<1> QED BY <1>4, <1>5

\* The steps that leave the table and the registry alone.
LEMMA SameRegistry ==
  ASSUME RegistryInv, apps' = apps, providers' = providers,
         \/ job' = job
         \/ job # None /\ job' # None /\ job'.type = job.type /\ job'.app = job.app
  PROVE  RegistryInv'
BY DEF RegistryInv, InTable

LEMMA ReconcileKeepsJob ==
  ASSUME TypeOK, NEW c \in Apps, ReconcileStarts(c)
  PROVE  /\ job # None /\ job' # None /\ job' \in Jobs
         /\ job'.type = job.type /\ job'.app = job.app
         /\ \A gc \in job.left : gc[2] # c => gc \in job'.left
         /\ job.self /\ job.app # c => job'.self
<1>1. job \in Jobs /\ job # None /\ Reconciled(c) /\ c \in ToReconcile
  BY DEF ReconcileStarts, TypeOK
<1>2. CASE job.left = {}
  <2>1. job' = [job EXCEPT !.self = FALSE] BY <1>1, <1>2 DEF Reconciled
  <2>2. job.self => job.app = c BY <1>1, <1>2 DEF ToReconcile
  <2>3. job' \in Jobs BY <1>1, <2>1 DEF Jobs
  <2> QED BY <1>1, <1>2, <2>1, <2>2, <2>3, ProviderAssumption DEF Jobs
<1>3. CASE job.left # {}
  <2>1. PICK gc \in job.left : gc[2] = c /\ job' = [job EXCEPT !.left = @ \ {gc}]
    BY <1>1, <1>3 DEF Reconciled
  <2>2. job.left \ {gc} \in SUBSET (Groups \X Apps) BY <1>1 DEF Jobs
  <2>3. job' \in Jobs BY <1>1, <2>1, <2>2 DEF Jobs
  <2> QED BY <1>1, <2>1, <2>3, ProviderAssumption DEF Jobs
<1> QED BY <1>2, <1>3

LEMMA RegistryStep ==
  ASSUME TypeOK, KeepsGroups, RegistryInv, [Next]_vars
  PROVE  RegistryInv'
<1>1. CASE \/ UNCHANGED vars \/ Rests \/ Breaks
           \/ Opens \/ Lists \/ PatchLands \/ PatchRefused \/ FindsClosed
  BY <1>1, SameRegistry
     DEF vars, serverVars, Rests, Breaks, Opens, Lists, PatchLands, PatchRefused, FindsClosed
<1>2. ASSUME NEW a \in Apps,
             \/ Deploys(a) \/ Undeploys(a) \/ Touches(a) \/ Deletes(a)
             \/ \E s \in SpecsOf[a] : Applies(a, s)
      PROVE  RegistryInv'
  BY <1>2, SameRegistry DEF Deploys, Undeploys, Touches, Deletes, Applies, Change
<1>3. CASE Restarts
  BY <1>3 DEF Restarts, RegistryInv, InTable, Nothing, Endpoints
<1>4. CASE TakesEvent
  BY <1>4, EventFacts, PutRegistry, DeleteRegistry DEF TakesEvent
<1>5. ASSUME NEW a \in Apps, TakesListed(a) PROVE RegistryInv'
  BY <1>5, ListedFacts, PutRegistry DEF TakesListed
<1>6. ASSUME NEW c \in Apps, ReconcileStarts(c) PROVE RegistryInv'
  BY <1>6, ReconcileKeepsJob, SameRegistry DEF ReconcileStarts
<1>7. CASE Finishes
  <2>1. job \in Jobs BY <1>7 DEF Finishes, TypeOK
  <2>2. job' = None /\ providers' = providers BY <1>7 DEF Finishes
  <2>3. CASE job.type = "del"
    <3>1. apps' = [apps EXCEPT ![job.app] = None] BY <1>7, <2>3 DEF Finishes
    <3>2. \A x \in Apps : InTable(x)' <=> InTable(x)
      BY <1>7, <2>1, <2>2, <2>3, <3>1 DEF InTable, Finishes, Jobs, TypeOK, Tables
    <3>3. \A x \in Apps : InTable(x)' => apps'[x] = apps[x]
      BY <2>1, <3>1 DEF InTable, Jobs, TypeOK, Tables
    <3> QED BY <2>2, <3>2, <3>3 DEF RegistryInv, Endpoints
  <2>4. CASE job.type # "del"
    BY <1>7, <2>2, <2>4 DEF Finishes, RegistryInv, InTable
  <2> QED BY <2>3, <2>4
<1> QED BY <1>1, <1>2, <1>3, <1>4, <1>5, <1>6, <1>7 DEF Next, Others, Server

\* handleAppCreateOrUpdate and handleAppDelete keep the registry equal to what
\* the apps in the table share, whatever order old and new events come in, as
\* long as no version of an app's resource drops a group.
THEOREM RegistryExact == KeepsGroups => (Spec => []RegistryFollowsApps)
<1> SUFFICES ASSUME KeepsGroups PROVE Spec => []RegistryFollowsApps
  OBVIOUS
<1>1. Init => TypeOK /\ Known /\ RegistryInv
  BY InitType DEF Init, Known, RegistryInv, InTable, Nothing, Endpoints
<1>2. TypeOK /\ Known /\ RegistryInv /\ [Next]_vars => (TypeOK /\ Known /\ RegistryInv)'
  BY TypeStep, RegistryStep
<1>3. TypeOK /\ RegistryInv => RegistryFollowsApps
  <2> SUFFICES ASSUME TypeOK, RegistryInv, Idle, NEW g \in Groups
               PROVE  providers[g] = {[app |-> a, at |-> apps[a].offers[g]] :
                         a \in {x \in Apps : apps[x] # None /\ apps[x].offers[g] # None}}
    BY DEF RegistryFollowsApps
  <2>1. providers[g] \subseteq Endpoints BY DEF TypeOK
  <2>2. \A e \in Endpoints :
          e \in providers[g] <=> apps[e.app] # None /\ apps[e.app].offers[g] = e.at
    BY DEF RegistryInv, InTable, Idle
  <2>3. \A x \in Apps : apps[x] # None /\ apps[x].offers[g] # None =>
          [app |-> x, at |-> apps[x].offers[g]] \in Endpoints
    BY SpecFacts DEF TypeOK, Tables, Endpoints
  <2>4. \A e \in Endpoints : e.at # None /\ e.app \in Apps /\ e = [app |-> e.app, at |-> e.at]
    BY ProviderAssumption DEF Endpoints
  <2> QED BY <2>1, <2>2, <2>3, <2>4
<1> QED BY <1>1, <1>2, <1>3, PTL DEF Spec

-----------------------------------------------------------------------------
(* The table *)

\* What an event leaves of an app.
Outcome(ev) == IF ev.type = "put" THEN ev.spec ELSE None

Told(events, a) == \E i \in DOMAIN events : events[i].app = a

\* The last of the events about a leaves v.
LastTold(events, a, v) ==
  \E i \in DOMAIN events :
    /\ events[i].app = a /\ Outcome(events[i]) = v
    /\ \A j \in DOMAIN events : j > i => events[j].app # a

\* What the table will say of a once the event at hand and the list are handled.
Held(a) ==
  IF listed[a] # None THEN listed[a] ELSE IF InTable(a) THEN apps[a] ELSE None

Ends(a, v) == IF Told(stream, a) THEN LastTold(stream, a, v) ELSE Held(a) = v

\* While no watch is open, only of apps that are gone is it known what will be
\* heard of them.
AppsInv ==
  /\ loop # "events" => job = None /\ listed = Nothing
  /\ loop = "closed" => ~watching
  /\ ~watching => stream = <<>>
  /\ \A a \in Apps \ missed : watching \/ cluster[a] = None => Ends(a, cluster[a])

LEMMA Appended ==
  ASSUME NEW events \in Seq(Events), NEW ev \in Events, NEW a \in Apps, NEW v
  PROVE  /\ Told(events \o <<ev>>, ev.app) /\ LastTold(events \o <<ev>>, ev.app, Outcome(ev))
         /\ a # ev.app => (Told(events \o <<ev>>, a) <=> Told(events, a))
         /\ a # ev.app => (LastTold(events, a, v) => LastTold(events \o <<ev>>, a, v))
<1> DEFINE longer == events \o <<ev>>
           n == Len(events)
<1>1. /\ n \in Nat /\ DOMAIN events = 1 .. n /\ DOMAIN longer = 1 .. n + 1
      /\ longer[n + 1] = ev /\ \A i \in 1 .. n : longer[i] = events[i]
  OBVIOUS
<1> HIDE DEF longer, n
<1>2. Told(longer, ev.app) /\ LastTold(longer, ev.app, Outcome(ev))
  BY <1>1 DEF Told, LastTold
<1>3. a # ev.app => (Told(longer, a) <=> Told(events, a))
  BY <1>1 DEF Told
<1>4. ASSUME a # ev.app, LastTold(events, a, v) PROVE LastTold(longer, a, v)
  <2>1. PICK i \in 1 .. n : events[i].app = a /\ Outcome(events[i]) = v
                            /\ \A j \in 1 .. n : j > i => events[j].app # a
    BY <1>1, <1>4 DEF LastTold
  <2>2. i \in 1 .. n + 1 /\ longer[i] = events[i] BY <1>1
  <2>3. \A j \in 1 .. n + 1 : j > i => longer[j].app # a
    BY <1>1, <1>4, <2>1
  <2> QED BY <1>1, <2>1, <2>2, <2>3 DEF LastTold
<1> QED BY <1>2, <1>3, <1>4 DEF longer

\* What was told stays told, and the app of the event is told of.
LEMMA ToldStays ==
  ASSUME NEW events \in Seq(Events), NEW ev \in Events, NEW a \in Apps,
         Told(events, a) \/ a = ev.app
  PROVE  Told(events \o <<ev>>, a)
<1>1. CASE a = ev.app BY <1>1, Appended
<1>2. CASE a # ev.app
  <2>1. Told(events \o <<ev>>, a) <=> Told(events, a) BY <1>2, Appended
  <2> QED BY <1>2, <2>1
<1> QED BY <1>1, <1>2

LEMMA Taken ==
  ASSUME NEW events \in Seq(Events), events # <<>>, NEW a \in Apps, NEW v
  PROVE  /\ Told(Tail(events), a) => Told(events, a)
         /\ Told(events, a) /\ Head(events).app # a => Told(Tail(events), a)
         /\ LastTold(events, a, v) /\ Told(Tail(events), a) => LastTold(Tail(events), a, v)
         /\ LastTold(events, a, v) /\ ~Told(Tail(events), a) =>
              Head(events).app = a /\ Outcome(Head(events)) = v
<1> DEFINE rest == Tail(events)
           n == Len(events)
<1>1. /\ n \in Nat /\ n > 0 /\ DOMAIN events = 1 .. n /\ DOMAIN rest = 1 .. n - 1
      /\ events[1] = Head(events) /\ \A i \in 1 .. n - 1 : rest[i] = events[i + 1]
  OBVIOUS
<1> HIDE DEF rest, n
<1>2. \A i \in 1 .. n : i = 1 \/ (i - 1 \in 1 .. n - 1 /\ rest[i - 1] = events[i])
  BY <1>1
<1>3. Told(rest, a) => Told(events, a)
  BY <1>1 DEF Told
<1>4. Told(events, a) /\ Head(events).app # a => Told(rest, a)
  BY <1>1, <1>2 DEF Told
<1>5. ASSUME LastTold(events, a, v), Told(rest, a) PROVE LastTold(rest, a, v)
  <2>1. PICK i \in 1 .. n : events[i].app = a /\ Outcome(events[i]) = v
                            /\ \A j \in 1 .. n : j > i => events[j].app # a
    BY <1>1, <1>5 DEF LastTold
  <2>2. PICK k \in 1 .. n - 1 : rest[k].app = a BY <1>1, <1>5 DEF Told
  <2>3. i # 1 BY <1>1, <2>1, <2>2
  <2>4. \A j \in 1 .. n - 1 : j > i - 1 => rest[j].app # a BY <1>1, <2>1
  <2> QED BY <1>1, <1>2, <2>1, <2>3, <2>4 DEF LastTold
<1>6. ASSUME LastTold(events, a, v), ~Told(rest, a)
      PROVE  Head(events).app = a /\ Outcome(Head(events)) = v
  BY <1>1, <1>2, <1>6 DEF LastTold, Told
<1> QED BY <1>3, <1>4, <1>5, <1>6 DEF rest

\* An opened watch puts what there is, once each.
LEMMA Replayed ==
  ASSUME TypeOK, Opens, NEW a \in Apps
  PROVE  /\ Told(stream', a) <=> cluster[a] # None
         /\ cluster[a] # None => LastTold(stream', a, cluster[a])
<1> DEFINE there == {x \in Apps : cluster[x] # None}
           n == Cardinality(there)
<1>1. PICK o \in [1 .. n -> there] :
         /\ \A x \in there : \E i \in 1 .. n : o[i] = x
         /\ stream' = [i \in 1 .. n |-> [type |-> "put", app |-> o[i], spec |-> cluster[o[i]]]]
  BY DEF Opens, Replays
<1>2. n \in Nat /\ IsFiniteSet(there)
  BY ProviderAssumption, FS_Subset, FS_CardinalityType
<1>3. o \in Injection(1 .. n, there)
  <2>1. IsFiniteSet(1 .. n) /\ Cardinality(1 .. n) = n BY <1>2, FS_Interval
  <2>2. o \in Surjection(1 .. n, there) BY <1>1 DEF Surjection
  <2> HIDE DEF there
  <2> QED BY <2>1, <2>2, FS_Surjection
<1>4. /\ DOMAIN stream' = 1 .. n
      /\ \A i \in 1 .. n : /\ o[i] \in there /\ stream'[i].app = o[i]
                           /\ stream'[i].type = "put" /\ stream'[i].spec = cluster[o[i]]
  BY <1>1
<1>5. Told(stream', a) <=> a \in there BY <1>1, <1>4 DEF Told
<1>6. ASSUME a \in there PROVE LastTold(stream', a, cluster[a])
  <2>1. PICK i \in 1 .. n : o[i] = a BY <1>1, <1>6
  <2>2. \A j \in 1 .. n : j # i => o[j] # a BY <1>1, <1>3, <1>4, <2>1 DEF Injection, IsInjective
  <2>3. \A j \in 1 .. n : j > i => stream'[j].app # a BY <1>2, <1>4, <2>1, <2>2
  <2> QED BY <1>4, <2>1, <2>3 DEF LastTold, Outcome
<1> QED BY <1>5, <1>6

LEMMA AppsInit == Init => AppsInv
<1> SUFFICES ASSUME Init PROVE AppsInv OBVIOUS
<1>1. \A a \in Apps : ~Told(stream, a) /\ Held(a) = None
  BY DEF Init, Told, Held, InTable, Nothing
<1> QED BY <1>1 DEF Init, AppsInv, Ends

LEMMA EndsKept ==
  ASSUME AppsInv, UNCHANGED <<cluster, watching, stream, loop, listed, apps, missed>>,
         \/ job' = job
         \/ job # None /\ job' # None /\ job'.type = job.type /\ job'.app = job.app
  PROVE  AppsInv'
<1>1. \A a \in Apps : Held(a)' = Held(a) BY DEF Held, InTable
<1> QED BY <1>1 DEF AppsInv, Ends

\* An event about an app says what the cluster says from then on.
LEMMA SentEnds ==
  ASSUME TypeOK, AppsInv, NEW a \in Apps, NEW ev \in Events, ev.app = a,
         Outcome(ev) = cluster'[a], \A x \in Apps \ {a} : cluster'[x] = cluster[x],
         Sent(<<ev>>), UNCHANGED <<watching, loop, listed, apps, job>>,
         missed \ {a} \subseteq missed',
         ~watching /\ cluster'[a] = None => a \in missed'
  PROVE  AppsInv'
<1>1. \A x \in Apps : Held(x)' = Held(x) BY DEF Held, InTable
<1>2. ASSUME NEW x \in Apps, x \notin missed', watching \/ cluster'[x] = None
      PROVE  Ends(x, cluster[x])'
  <2>1. CASE ~watching
    <3>1. x # a /\ x \notin missed /\ cluster[x] = None BY <1>2, <2>1
    <3>2. Ends(x, cluster[x]) BY <3>1 DEF AppsInv
    <3> QED BY <1>1, <2>1, <3>1, <3>2 DEF Ends, Sent
  <2>2. CASE watching /\ x = a
    <3>1. stream' = stream \o <<ev>> BY <2>2 DEF Sent
    <3>2. stream \in Seq(Events) BY DEF TypeOK
    <3>3. Told(stream', a) /\ LastTold(stream', a, cluster'[a]) BY <3>1, <3>2, Appended
    <3> QED BY <2>2, <3>3 DEF Ends
  <2>3. CASE watching /\ x # a
    <3>1. x \notin missed BY <1>2, <2>3
    <3>2. Ends(x, cluster[x]) /\ cluster'[x] = cluster[x] BY <2>3, <3>1 DEF AppsInv
    <3>3. stream' = stream \o <<ev>> /\ stream \in Seq(Events) BY <2>3 DEF Sent, TypeOK
    <3>4. /\ Told(stream', x) <=> Told(stream, x)
          /\ LastTold(stream, x, cluster[x]) => LastTold(stream', x, cluster[x])
      BY <2>3, <3>3, Appended
    <3> QED BY <1>1, <3>2, <3>4 DEF Ends
  <2> QED BY <2>1, <2>2, <2>3
<1>3. ~watching => stream' = stream BY DEF Sent
<1> QED BY <1>2, <1>3 DEF AppsInv

LEMMA AppsInvStep ==
  ASSUME TypeOK, AppsInv, [Next]_vars
  PROVE  AppsInv'
<1>1. CASE UNCHANGED vars \/ Rests
  BY <1>1, EndsKept DEF Rests, vars, clusterVars, serverVars
<1>2. ASSUME NEW a \in Apps, Deploys(a) \/ Undeploys(a) \/ Touches(a) PROVE AppsInv'
  BY <1>2, EndsKept DEF Deploys, Undeploys, Touches, Change
<1>3. ASSUME NEW a \in Apps, NEW s \in SpecsOf[a], Applies(a, s) PROVE AppsInv'
  <2> DEFINE ev == [type |-> "put", app |-> a, spec |-> s]
  <2>1. ev \in Events /\ ev.app = a /\ Outcome(ev) = s BY SpecFacts DEF Events, Outcome
  <2>2. cluster'[a] = s /\ \A x \in Apps \ {a} : cluster'[x] = cluster[x]
    BY <1>3 DEF Applies, TypeOK, Tables
  <2>3. s # None BY SpecFacts
  <2>4. Sent(<<ev>>) /\ missed' = missed \ {a} /\ UNCHANGED <<watching, loop, listed, apps, job>>
    BY <1>3 DEF Applies, Change
  <2> HIDE DEF ev
  <2> QED BY <2>1, <2>2, <2>3, <2>4, SentEnds
<1>4. ASSUME NEW a \in Apps, Deletes(a) PROVE AppsInv'
  <2> DEFINE ev == [type |-> "del", app |-> a, spec |-> cluster[a]]
  <2>1. ev \in Events /\ ev.app = a /\ Outcome(ev) = None
    BY <1>4, SpecFacts DEF Deletes, Events, Outcome, TypeOK, Tables
  <2>2. cluster'[a] = None /\ \A x \in Apps \ {a} : cluster'[x] = cluster[x]
    BY <1>4 DEF Deletes, TypeOK, Tables
  <2>3. /\ Sent(<<ev>>) /\ missed \subseteq missed' /\ (~watching => a \in missed')
        /\ UNCHANGED <<watching, loop, listed, apps, job>>
    BY <1>4 DEF Deletes, Change
  <2> HIDE DEF ev
  <2> QED BY <2>1, <2>2, <2>3, SentEnds
<1>5. CASE Breaks
  <2>1. /\ UNCHANGED <<cluster, loop, listed, apps, job>> /\ watching /\ ~watching' /\ stream' = <<>>
        /\ missed' = missed \cup {a \in Apps : cluster[a] = None /\
                       \E i \in DOMAIN stream : stream[i].app = a /\ stream[i].type = "del"}
    BY <1>5 DEF Breaks, serverVars
  <2>2. ASSUME NEW a \in Apps, a \notin missed', cluster[a] = None PROVE Ends(a, cluster[a])'
    <3>1. a \notin missed /\ ~\E i \in DOMAIN stream : stream[i].app = a /\ stream[i].type = "del"
      BY <2>1, <2>2
    <3>2. Ends(a, None) BY <2>1, <2>2, <3>1 DEF AppsInv
    <3>3. \A i \in DOMAIN stream : stream[i].app = a /\ stream[i].type # "del" => Outcome(stream[i]) # None
      <4>1. \A i \in DOMAIN stream : stream[i] \in Events BY DEF TypeOK
      <4> QED BY <4>1, SpecFacts DEF Events, Outcome
    <3>4. ~Told(stream, a) BY <3>1, <3>2, <3>3 DEF Ends, LastTold
    <3>5. ~Told(stream', a) BY <2>1 DEF Told
    <3>6. Held(a)' = Held(a) BY <2>1 DEF Held, InTable
    <3> QED BY <2>1, <2>2, <3>2, <3>4, <3>5, <3>6 DEF Ends
  <2> QED BY <2>1, <2>2 DEF AppsInv
<1>6. CASE Restarts
  <2>1. \A a \in Apps : ~Told(stream', a) /\ Held(a)' = None
    BY <1>6 DEF Restarts, Told, Held, InTable, Nothing
  <2> QED BY <1>6, <2>1 DEF Restarts, AppsInv, Ends
<1>7. CASE Opens
  <2>1. UNCHANGED <<cluster, listed, job, apps, missed>> /\ loop' = "listing" /\ watching'
    BY <1>7 DEF Opens
  <2>2. job = None /\ listed = Nothing /\ stream = <<>> /\ ~watching
    BY <1>7 DEF Opens, AppsInv
  <2>3. ASSUME NEW a \in Apps, a \notin missed PROVE Ends(a, cluster[a])'
    <3>1. CASE cluster[a] # None BY <1>7, <2>1, <3>1, Replayed DEF Ends
    <3>2. CASE cluster[a] = None
      <4>1. Ends(a, None) BY <2>3, <3>2 DEF AppsInv
      <4>2. Held(a) = None BY <2>2, <4>1 DEF Ends, Told
      <4>3. Held(a)' = Held(a) BY <2>1 DEF Held, InTable
      <4>4. ~Told(stream', a) BY <1>7, <3>2, Replayed
      <4> QED BY <2>1, <3>2, <4>2, <4>3, <4>4 DEF Ends
    <3> QED BY <3>1, <3>2
  <2> QED BY <2>1, <2>2, <2>3 DEF AppsInv
<1>8. CASE Lists
  <2>1. /\ UNCHANGED <<cluster, watching, stream, job, apps, missed>>
        /\ loop = "listing" /\ loop' = "events" /\ listed' \in {cluster, Nothing}
    BY <1>8 DEF Lists, clusterVars
  <2>2. job = None /\ listed = Nothing BY <2>1 DEF AppsInv
  <2>3. ASSUME NEW a \in Apps, Ends(a, cluster[a]) PROVE Ends(a, cluster[a])'
    <3>1. Held(a)' = Held(a) \/ Held(a)' = cluster[a]
      BY <2>1, <2>2 DEF Held, InTable, Nothing
    <3> QED BY <2>1, <2>3, <3>1 DEF Ends
  <2> QED BY <2>1, <2>3 DEF AppsInv
<1>9. ASSUME NEW a \in Apps, TakesListed(a) PROVE AppsInv'
  <2>1. /\ UNCHANGED <<cluster, watching, stream, loop, missed>> /\ loop = "events"
        /\ job = None /\ listed[a] # None
        /\ PutStarts(a, listed[a]) /\ listed' = [listed EXCEPT ![a] = None]
    BY <1>9 DEF TakesListed, clusterVars
  <2>2. job' # None /\ job'.type = "put" BY <2>1, ListedFacts, PutType DEF PutStarts
  <2>3. ASSUME NEW x \in Apps PROVE Held(x)' = Held(x)
    BY <2>1, <2>2 DEF Held, InTable, PutStarts, TypeOK, Tables
  <2> QED BY <2>1, <2>3 DEF AppsInv, Ends
<1>10. CASE TakesEvent
  <2>0. PICK ev \in Events : ev = Head(stream)
    BY <1>10 DEF TakesEvent, TypeOK
  <2>1. /\ UNCHANGED <<cluster, watching, loop, listed, missed>> /\ loop = "events"
        /\ job = None /\ listed = Nothing /\ stream # <<>> /\ stream' = Tail(stream)
        /\ watching
    BY <1>10 DEF TakesEvent, AppsInv
  <2>2. ev.app \in Apps /\ ev.spec \in SpecsOf[ev.app] BY DEF Events
  <2>3. \/ ev.type = "put" /\ PutStarts(ev.app, ev.spec)
        \/ ev.type = "del" /\ DeleteStarts(ev.app, ev.spec)
    BY <1>10, <2>0 DEF TakesEvent
  <2>4. /\ job' # None /\ job'.type = ev.type /\ job'.app = ev.app
        /\ ev.type = "put" => apps' = [apps EXCEPT ![ev.app] = ev.spec]
        /\ ev.type = "del" => apps' = apps
    BY <2>2, <2>3, PutType, DeleteType DEF PutStarts, DeleteStarts
  <2>5. ev.type \in {"put", "del"} BY <2>3
  <2>6. Held(ev.app)' = Outcome(ev)
    BY <2>1, <2>2, <2>4, <2>5 DEF Held, InTable, Outcome, Nothing, TypeOK, Tables
  <2>7. \A x \in Apps \ {ev.app} : Held(x)' = Held(x)
    BY <2>1, <2>4, <2>5 DEF Held, InTable, TypeOK, Tables
  <2>8. ASSUME NEW x \in Apps, Ends(x, cluster[x]) PROVE Ends(x, cluster[x])'
    <3>1. stream \in Seq(Events) BY DEF TypeOK
    <3>2. CASE Told(stream', x)
      <4>1. Told(stream, x) /\ LastTold(stream', x, cluster[x])
        BY <2>1, <2>8, <3>1, <3>2, Taken DEF Ends
      <4> QED BY <2>1, <3>2, <4>1 DEF Ends
    <3>3. CASE ~Told(stream', x) /\ Told(stream, x)
      <4>1. ev.app = x /\ Outcome(ev) = cluster[x]
        BY <2>0, <2>1, <2>8, <3>1, <3>3, Taken DEF Ends
      <4> QED BY <2>1, <2>6, <3>3, <4>1 DEF Ends
    <3>4. CASE ~Told(stream, x)
      <4>1. x # ev.app
        <5>1. 1 \in DOMAIN stream /\ stream[1] = ev BY <2>0, <2>1, <3>1
        <5> QED BY <3>4, <5>1 DEF Told
      <4>2. ~Told(stream', x) BY <2>1, <3>1, <3>4, Taken
      <4> QED BY <2>1, <2>7, <2>8, <3>4, <4>1, <4>2 DEF Ends
    <3> QED BY <3>2, <3>3, <3>4
  <2> QED BY <2>1, <2>8 DEF AppsInv
<1>11. ASSUME NEW x \in Apps, ReconcileStarts(x) PROVE AppsInv'
  BY <1>11, EndsKept, ReconcileKeepsJob DEF ReconcileStarts, clusterVars
<1>12. CASE PatchLands \/ PatchRefused
  BY <1>12, EndsKept DEF PatchLands, PatchRefused, clusterVars
<1>13. CASE Finishes
  <2>1. /\ UNCHANGED <<cluster, watching, stream, loop, listed, missed>> /\ job # None /\ job' = None
        /\ apps' = IF job.type = "del" THEN [apps EXCEPT ![job.app] = None] ELSE apps
    BY <1>13 DEF Finishes, clusterVars
  <2>2. \A x \in Apps : Held(x)' = Held(x)
    BY <2>1 DEF Held, InTable, TypeOK, Tables
  <2> QED BY <2>1, <2>2 DEF AppsInv, Ends
<1>14. CASE FindsClosed
  <2>1. /\ UNCHANGED <<cluster, watching, stream, listed, apps, job, missed>>
        /\ job = None /\ listed = Nothing /\ ~watching
    BY <1>14 DEF FindsClosed, clusterVars
  <2>2. \A x \in Apps : Held(x)' = Held(x) BY <2>1 DEF Held, InTable
  <2> QED BY <2>1, <2>2 DEF AppsInv, Ends
<1> QED BY <1>1, <1>2, <1>3, <1>4, <1>5, <1>6, <1>7, <1>8, <1>9, <1>10, <1>11, <1>12, <1>13, <1>14
   DEF Next, Others, Server

LEMMA AppsEnd ==
  ASSUME AppsInv, Quiet, NEW a \in Apps \ missed
  PROVE  apps[a] = cluster[a]
BY DEF AppsInv, Quiet, Idle, Ends, Told, Held, InTable, Nothing

\* watchApplications and reconcileExistingApps: however a listed state and a
\* replayed watch overlap, and whatever is cut or restarted between, what is
\* handled last about an app is what the cluster says of it; nothing else
\* removes an app whose deletion no watch delivered.
THEOREM TableFollows == Spec => []AppsFollowCluster
<1> DEFINE Inv == TypeOK /\ Known /\ AppsInv
<1>1. Init => Inv BY InitType, AppsInit DEF Init, Known
<1>2. Inv /\ [Next]_vars => Inv'
  BY TypeStep, AppsInvStep
<1>3. Inv => AppsFollowCluster
  BY AppsEnd DEF AppsFollowCluster
<1> QED BY <1>1, <1>2, <1>3, PTL DEF Spec

-----------------------------------------------------------------------------
(* The consumers *)

\* The reconciliation of c is still to come, or under way.
Due(c) ==
  job # None /\ \/ \E g \in Groups : <<g, c>> \in job.left
                \/ job.self /\ job.app = c
                \/ patch # None /\ patch.app = c

\* What is known of c will be put again, or nothing is to be expected of it.
Coming(c) ==
  \/ cluster[c] = None \/ ~watching \/ c \in missed
  \/ listed[c] # None \/ Told(stream, c)

\* c is to be served by now.
Asks(c) ==
  /\ apps[c] # None /\ apps[c].wants # <<>> /\ deployed[c] # None
  /\ stale[c] = "no" \/ (stale[c] = "new" /\ ~Coming(c))

EnvInv ==
  \A c \in Apps :
    /\ Asks(c) => Served(c, apps[c]) \/ Due(c)
    /\ patch # None /\ patch.seen = "replaced" /\ patch.app = c => ~Asks(c)

\* What is heard of others.
LEMMA StillComing ==
  ASSUME TypeOK, NEW c \in Apps, Coming(c),
         \/ UNCHANGED <<cluster, watching, missed, listed, stream>>
         \/ Breaks
         \/ Opens
         \/ Lists /\ listed = Nothing
         \/ \E a \in Apps : Deletes(a) \/ \E s \in SpecsOf[a] : Applies(a, s)
         \/ \E a \in Apps : TakesListed(a) /\ a # c
         \/ TakesEvent /\ Head(stream).app # c
  PROVE  Coming(c)'
<1>1. CASE UNCHANGED <<cluster, watching, missed, listed, stream>>
  BY <1>1 DEF Coming
<1>2. CASE Breaks BY <1>2 DEF Breaks, Coming
<1>3. CASE Opens
  <2>1. cluster[c] # None => Told(stream', c) BY <1>3, Replayed
  <2> QED BY <1>3, <2>1 DEF Opens, Coming
<1>4. CASE Lists /\ listed = Nothing
  BY <1>4 DEF Lists, Coming, Nothing, clusterVars
<1>5. ASSUME NEW a \in Apps, Deletes(a) PROVE Coming(c)'
  <2> DEFINE ev == [type |-> "del", app |-> a, spec |-> cluster[a]]
  <2>1. ev \in Events BY <1>5, SpecFacts DEF Deletes, Events, TypeOK, Tables
  <2>2. /\ c \in missed => c \in missed'
        /\ listed' = listed /\ watching' = watching /\ (cluster[c] = None => cluster'[c] = None)
    BY <1>5 DEF Deletes, Change, TypeOK, Tables
  <2>3. stream' = stream \/ stream' = stream \o <<ev>> BY <1>5 DEF Deletes, Sent
  <2>4. stream \in Seq(Events) BY DEF TypeOK
  <2> HIDE DEF ev
  <2>5. Told(stream, c) => Told(stream', c)
    <3>1. CASE stream' = stream BY <3>1
    <3>2. CASE stream' = stream \o <<ev>> BY <2>1, <2>4, <3>2, ToldStays
    <3> QED BY <2>3, <3>1, <3>2
  <2> QED BY <2>2, <2>5 DEF Coming
<1>6. ASSUME NEW a \in Apps, NEW s \in SpecsOf[a], Applies(a, s) PROVE Coming(c)'
  <2> DEFINE ev == [type |-> "put", app |-> a, spec |-> s]
  <2>1. ev \in Events /\ ev.app = a BY SpecFacts DEF Events
  <2>2. /\ c # a /\ c \in missed => c \in missed'
        /\ listed' = listed /\ watching' = watching /\ (c # a => cluster'[c] = cluster[c])
    BY <1>6 DEF Applies, Change, TypeOK, Tables
  <2>3. stream' = IF watching THEN stream \o <<ev>> ELSE stream BY <1>6 DEF Applies, Sent
  <2>4. stream \in Seq(Events) BY DEF TypeOK
  <2> HIDE DEF ev
  <2>5. Told(stream, c) => Told(stream', c)
    <3>1. CASE watching BY <2>1, <2>3, <2>4, <3>1, ToldStays
    <3>2. CASE ~watching BY <2>3, <3>2
    <3> QED BY <3>1, <3>2
  <2>6. c = a /\ watching => Told(stream', c) BY <2>1, <2>3, <2>4, ToldStays
  <2> QED BY <2>2, <2>5, <2>6 DEF Coming
<1>7. ASSUME NEW a \in Apps, TakesListed(a), a # c PROVE Coming(c)'
  BY <1>7 DEF TakesListed, Coming, clusterVars, TypeOK, Tables
<1>8. CASE TakesEvent /\ Head(stream).app # c
  <2>1. stream \in Seq(Events) /\ stream # <<>> /\ stream' = Tail(stream)
    BY <1>8 DEF TypeOK, TakesEvent
  <2>2. Told(stream, c) => Told(stream', c) BY <1>8, <2>1, Taken
  <2> QED BY <1>8, <2>2 DEF TakesEvent, Coming
<1> QED BY <1>1, <1>2, <1>3, <1>4, <1>5, <1>6, <1>7, <1>8

LEMMA WantType ==
  ASSUME NEW c \in Apps, NEW s \in SpecsOf[c], NEW i \in DOMAIN s.wants
  PROVE  s.wants[i].group \in Groups
<1>1. s.wants \in Seq(Wants) BY SpecFacts
<1>2. s.wants[i] \in Wants BY <1>1
<1> QED BY <1>2 DEF Wants

\* Nobody but a consumer of a group that the put app shares is concerned by it.
LEMMA PutEnv ==
  ASSUME TypeOK, AsksBySysData, EnvInv, job = None, patch = None,
         NEW a \in Apps, NEW s \in SpecsOf[a], PutStarts(a, s),
         UNCHANGED <<deployed, patch, stale>>, \A c \in Apps \ {a} : Coming(c) => Coming(c)'
  PROVE  EnvInv'
<1>1. apps'[a] = s /\ \A x \in Apps \ {a} : apps'[x] = apps[x]
  BY DEF PutStarts, TypeOK, Tables
<1>2. job' # None /\ job'.app = a /\ job'.left = Consumers(apps', s)
      /\ (s.wants # <<>> => job'.self)
  BY PutType DEF PutStarts
<1> SUFFICES ASSUME NEW c \in Apps, Asks(c)' PROVE Served(c, apps[c])' \/ Due(c)'
  BY DEF EnvInv
<1>0. c # a => Asks(c) BY <1>1 DEF Asks
<1>3. CASE c = a
  BY <1>1, <1>2, <1>3 DEF Due, Asks
<1>4. CASE c # a /\ \E i \in DOMAIN apps[c].wants : s.offers[apps[c].wants[i].group] # None
  <2>1. PICK i \in DOMAIN apps[c].wants : s.offers[apps[c].wants[i].group] # None BY <1>4
  <2>2. apps[c] \in SpecsOf[c] /\ apps'[c] = apps[c] /\ apps[c] # None
    BY <1>1, <1>4 DEF Asks, TypeOK, Tables
  <2>3. apps[c].wants[i].group \in Groups BY <2>1, <2>2, WantType
  <2>4. <<apps[c].wants[i].group, c>> \in job'.left
    BY <1>2, <2>1, <2>2, <2>3 DEF Consumers, Offered
  <2> QED BY <1>2, <2>3, <2>4 DEF Due
<1>5. CASE c # a /\ \A i \in DOMAIN apps[c].wants : s.offers[apps[c].wants[i].group] = None
  <2>1. apps[c] \in SpecsOf[c] /\ apps'[c] = apps[c] /\ Served(c, apps[c])
    BY <1>0, <1>1, <1>5 DEF Asks, EnvInv, Due, TypeOK, Tables
  <2>2. \A i \in DOMAIN apps[c].wants :
          providers'[apps[c].wants[i].group] = providers[apps[c].wants[i].group]
    BY <1>5, <2>1, WantType DEF PutStarts, Registered
  <2>3. EnvFor(providers', apps[c]) = EnvFor(providers, apps[c])
    BY <2>1, <2>2, EnvDepends DEF AsksBySysData
  <2> QED BY <2>1, <2>3 DEF Served
<1> QED BY <1>3, <1>4, <1>5

\* What a deleted app shared was under the groups of its last spec.
LEMMA DeleteEnv ==
  ASSUME TypeOK, KeepsGroups, RegistryInv, AsksBySysData, EnvInv, job = None, patch = None,
         NEW a \in Apps, NEW s \in SpecsOf[a], DeleteStarts(a, s),
         UNCHANGED <<deployed, patch, stale>>, \A c \in Apps : Coming(c) => Coming(c)'
  PROVE  EnvInv'
<1>1. apps' = apps /\ job' # None /\ job'.left = Consumers(apps, s)
  BY DeleteType DEF DeleteStarts
<1> SUFFICES ASSUME NEW c \in Apps, Asks(c) PROVE Served(c, apps[c])' \/ Due(c)'
  BY <1>1 DEF EnvInv, Asks
<1>2. apps[c] \in SpecsOf[c] /\ apps[c] # None /\ Served(c, apps[c])
  BY DEF Asks, EnvInv, Due, TypeOK, Tables
<1>3. CASE \E i \in DOMAIN apps[c].wants : s.offers[apps[c].wants[i].group] # None
  <2>1. PICK i \in DOMAIN apps[c].wants : s.offers[apps[c].wants[i].group] # None BY <1>3
  <2>2. apps[c].wants[i].group \in Groups BY <1>2, <2>1, WantType
  <2>3. <<apps[c].wants[i].group, c>> \in job'.left
    BY <1>1, <1>2, <2>1, <2>2 DEF Consumers, Offered
  <2> QED BY <1>1, <2>2, <2>3 DEF Due
<1>4. CASE \A i \in DOMAIN apps[c].wants : s.offers[apps[c].wants[i].group] = None
  <2>1. ASSUME NEW i \in DOMAIN apps[c].wants
        PROVE  providers'[apps[c].wants[i].group] = providers[apps[c].wants[i].group]
    <3> DEFINE g == apps[c].wants[i].group
    <3>1. g \in Groups BY <1>2, WantType
    <3>2. s.offers[g] = None BY <1>4
    <3>3. apps[a] # None => apps[a].offers[g] = None
      BY <3>1, <3>2 DEF KeepsGroups, TypeOK, Tables
    <3>4. \A e \in providers[g] : e \in Endpoints /\ e.at # None
      BY <3>1, ProviderAssumption DEF TypeOK, Endpoints
    <3>5. \A e \in providers[g] : e.app # a
      BY <3>1, <3>3, <3>4 DEF RegistryInv, InTable
    <3> QED BY <3>1, <3>5 DEF DeleteStarts, Unregistered
  <2>2. EnvFor(providers', apps[c]) = EnvFor(providers, apps[c])
    BY <1>2, <2>1, EnvDepends DEF AsksBySysData
  <2> QED BY <1>1, <1>2, <2>2 DEF Served, DeleteStarts
<1> QED BY <1>3, <1>4

\* Every change by others either leaves a Deployment's environment alone or marks
\* the Deployment as one that nobody has reached yet.
LEMMA OthersEnv ==
  ASSUME TypeOK, EnvInv, NEW a \in Apps,
         \/ Deploys(a) \/ Undeploys(a) \/ Touches(a) \/ Deletes(a)
         \/ \E s \in SpecsOf[a] : Applies(a, s)
  PROVE  EnvInv'
<1>1. apps' = apps /\ providers' = providers /\ job' = job
  BY DEF Deploys, Undeploys, Touches, Deletes, Applies, Change
<1>2. CASE Deletes(a) \/ \E s \in SpecsOf[a] : Applies(a, s)
  <2>1. deployed' = deployed /\ stale' = stale /\ patch' = patch
    BY <1>2 DEF Deletes, Applies
  <2>2. \A c \in Apps : Coming(c) => Coming(c)' BY <1>2, StillComing
  <2>3. \A c \in Apps : Asks(c)' => Asks(c) BY <1>1, <2>1, <2>2 DEF Asks
  <2> QED BY <1>1, <2>1, <2>3 DEF EnvInv, Due, Served
<1>3. CASE Deploys(a) \/ Undeploys(a)
  <2>1. \A c \in Apps \ {a} : deployed'[c] = deployed[c] /\ stale'[c] = stale[c]
    BY <1>3 DEF Deploys, Undeploys, TypeOK
  <2>0. \A c \in Apps : Coming(c)' <=> Coming(c)
    BY <1>3 DEF Deploys, Undeploys, Change, Coming
  <2>2. ~Asks(a)'
    <3>1. deployed'[a] = None \/ stale'[a] = "kept" \/ (stale'[a] = "new" /\ cluster[a] = None)
      BY <1>3 DEF Deploys, Undeploys, TypeOK
    <3> QED BY <2>0, <3>1 DEF Asks, Coming
  <2>3. patch # None => patch' # None /\ patch'.app = patch.app
    BY <1>3, ProviderAssumption DEF Deploys, Undeploys, Overtaken, TypeOK, Patches
  <2>4. ASSUME NEW c \in Apps, patch' # None, patch'.seen = "replaced", patch'.app = c
        PROVE  ~Asks(c)'
    <3>1. CASE c = a BY <2>2, <3>1
    <3>2. CASE c # a
      <4>1. patch' = patch
        BY <1>3, <2>3, <2>4, <3>2 DEF Deploys, Undeploys, Overtaken
      <4>2. ~Asks(c) BY <2>4, <4>1 DEF EnvInv
      <4> QED BY <1>1, <2>0, <2>1, <3>2, <4>2 DEF Asks
    <3> QED BY <3>1, <3>2
  <2>5. ASSUME NEW c \in Apps, Asks(c)' PROVE Served(c, apps[c])' \/ Due(c)'
    <3>1. c # a BY <2>2, <2>5
    <3>2. Asks(c) BY <1>1, <2>0, <2>1, <2>5, <3>1 DEF Asks
    <3>3. Served(c, apps[c]) => Served(c, apps[c])' BY <1>1, <2>1, <3>1 DEF Served
    <3>4. Due(c) => Due(c)' BY <1>1, <2>3 DEF Due
    <3> QED BY <3>2, <3>3, <3>4 DEF EnvInv
  <2> QED BY <2>4, <2>5 DEF EnvInv
<1>4. CASE Touches(a)
  <2>1. deployed' = deployed /\ stale' = stale BY <1>4 DEF Touches
  <2>2. patch' # None /\ patch # None /\ patch'.app = patch.app /\ patch'.seen # "replaced"
    BY <1>4, ProviderAssumption DEF Touches, Overtaken, TypeOK, Patches
  <2>3. \A c \in Apps : Asks(c)' <=> Asks(c)
    BY <1>1, <1>4, <2>1 DEF Touches, Change, Asks, Coming
  <2> QED BY <1>1, <2>1, <2>2, <2>3 DEF EnvInv, Due, Served
<1> QED BY <1>2, <1>3, <1>4

\* A call of Reconcile either serves the consumer, or leaves a patch that will, or
\* is recorded as refused.
LEMMA ReconcileEnv ==
  ASSUME TypeOK, Known, EnvInv, NEW c \in Apps, ReconcileStarts(c)
  PROVE  EnvInv'
<1>1. patch = None /\ apps' = apps /\ providers' = providers /\ deployed' = deployed
  BY DEF ReconcileStarts, clusterVars
<1>2. \A x \in Apps \ {c} : stale'[x] = stale[x]
  BY DEF ReconcileStarts, TypeOK
<1>0. \A x \in Apps : Coming(x)' <=> Coming(x) BY DEF ReconcileStarts, clusterVars, Coming
<1>3. ASSUME NEW x \in Apps, x # c, Asks(x)' PROVE Served(x, apps[x])' \/ Due(x)'
  <2>1. Served(x, apps[x]) => Served(x, apps[x])' BY <1>1 DEF Served
  <2>2. Due(x) => Due(x)'
    BY <1>1, <1>3, ReconcileKeepsJob DEF Due
  <2>3. Asks(x) BY <1>0, <1>1, <1>2, <1>3 DEF Asks
  <2> QED BY <2>1, <2>2, <2>3 DEF EnvInv
<1>4. ASSUME Asks(c)' PROVE Served(c, apps[c])' \/ Due(c)'
  <2> DEFINE new == EnvFor(providers, apps[c])
  <2>1. new \in Envs /\ deployed[c] # None /\ deployed[c] \in Envs
    BY <1>1, <1>4, ConsumerFacts DEF Asks, ReconcileStarts, TypeOK
  <2>2. Served(c, apps[c])' <=> Merged(deployed[c], new) = deployed[c]
    BY <1>1 DEF Served
  <2>3. CASE new = Unset
    BY <2>1, <2>2, <2>3, MergedType
  <2>4. CASE new # Unset /\ Merged(deployed[c], new) # deployed[c]
    <3>1. stale'[c] # "refused" BY <1>4 DEF Asks
    <3>2. patch' = [app |-> c, seen |-> "same"]
      BY <2>1, <2>4, <3>1 DEF ReconcileStarts, TypeOK
    <3>3. patch' # None /\ patch'.app = c
      BY <3>2, ProviderAssumption DEF Patches
    <3> QED BY <3>3, ReconcileKeepsJob DEF Due
  <2> QED BY <2>2, <2>3, <2>4
<1>5. patch' # None => patch'.seen = "same"
  BY <1>1 DEF ReconcileStarts
<1> QED BY <1>3, <1>4, <1>5 DEF EnvInv

LEMMA PatchEnv ==
  ASSUME TypeOK, Known, EnvInv, PatchLands \/ PatchRefused
  PROVE  EnvInv'
<1>1. patch # None /\ patch' = None /\ apps' = apps /\ providers' = providers /\ job' = job
  BY DEF PatchLands, PatchRefused
<1> PICK p \in Apps : p = patch.app BY <1>1 DEF TypeOK, Patches
<1>2. p \in Apps /\ apps[p] # None BY <1>1 DEF Known
<1>3. \A x \in Apps \ {p} : deployed'[x] = deployed[x] /\ stale'[x] = stale[x]
  BY <1>2 DEF PatchLands, PatchRefused, TypeOK, clusterVars
<1>0. \A x \in Apps : Coming(x)' <=> Coming(x)
  BY DEF PatchLands, PatchRefused, clusterVars, Coming
<1>4. ASSUME NEW x \in Apps, x # p, Asks(x)' PROVE Served(x, apps[x])' \/ Due(x)'
  <2>1. Asks(x) BY <1>0, <1>1, <1>3, <1>4 DEF Asks
  <2>2. Served(x, apps[x]) => Served(x, apps[x])' BY <1>1, <1>3, <1>4 DEF Served
  <2>3. Due(x) => Due(x)' BY <1>1, <1>4 DEF Due
  <2> QED BY <2>1, <2>2, <2>3 DEF EnvInv
<1>5. ASSUME Asks(p)' PROVE Served(p, apps[p])' \/ Due(p)'
  <2>1. CASE PatchLands
    <3> DEFINE new == EnvFor(providers, apps[p])
    <3>1. deployed[p] \in Envs BY <1>1, <1>2, <2>1 DEF Known, PatchLands, TypeOK
    <3>2. apps[p] \in SpecsOf[p] BY <1>2 DEF TypeOK, Tables
    <3>3. new \in Envs BY <1>2, <3>2, EnvType DEF TypeOK
    <3>4. deployed'[p] = Merged(deployed[p], new) BY <1>2, <2>1 DEF PatchLands, TypeOK
    <3>5. Merged(deployed'[p], new) = deployed'[p] BY <3>1, <3>3, <3>4, MergedType
    <3> QED BY <1>1, <3>5 DEF Served
  <2>2. CASE PatchRefused
    <3>1. deployed' = deployed BY <2>2 DEF PatchRefused, clusterVars
    <3>2. stale'[p] = "refused" \/ (patch.seen = "replaced" /\ stale' = stale)
      BY <1>2, <2>2 DEF PatchRefused, TypeOK
    <3> QED BY <1>0, <1>1, <1>5, <3>1, <3>2 DEF Asks, EnvInv
  <2> QED BY <2>1, <2>2
<1> QED BY <1>1, <1>4, <1>5 DEF EnvInv

LEMMA EnvStep ==
  ASSUME TypeOK, Known, KeepsGroups, RegistryInv, AppsInv, AppsInv', AsksBySysData, EnvInv, [Next]_vars
  PROVE  EnvInv'
<1>1. CASE \/ UNCHANGED vars \/ Rests \/ Breaks \/ Opens \/ Lists \/ FindsClosed
  <2>1. UNCHANGED <<apps, providers, job, patch, deployed, stale>>
    BY <1>1 DEF vars, clusterVars, serverVars, Rests, Breaks, Opens, Lists, FindsClosed
  <2>2. Lists => listed = Nothing BY DEF Lists, AppsInv
  <2>3. \A c \in Apps : Coming(c) => Coming(c)'
    BY <1>1, <2>2, StillComing DEF vars, clusterVars, serverVars, Rests, FindsClosed
  <2>4. \A c \in Apps : Asks(c)' => Asks(c) BY <2>1, <2>3 DEF Asks
  <2> QED BY <2>1, <2>4 DEF EnvInv, Due, Served
<1>2. ASSUME NEW a \in Apps,
             \/ Deploys(a) \/ Undeploys(a) \/ Touches(a) \/ Deletes(a)
             \/ \E s \in SpecsOf[a] : Applies(a, s)
      PROVE  EnvInv'
  BY <1>2, OthersEnv
<1>3. CASE Restarts
  <2>1. \A c \in Apps : apps'[c] = None BY <1>3 DEF Restarts, Nothing
  <2> QED BY <1>3, <2>1 DEF Restarts, EnvInv, Asks
<1>4. CASE TakesEvent
  <2>1. job = None /\ patch = None /\ UNCHANGED <<deployed, patch, stale>>
    BY <1>4 DEF TakesEvent, Known
  <2>0. PICK a \in Apps : a = Head(stream).app BY <1>4, EventFacts DEF TakesEvent
  <2>2. PICK s \in SpecsOf[a] : a = Head(stream).app /\ s = Head(stream).spec
    BY <1>4, <2>0, EventFacts DEF TakesEvent
  <2>3. \A c \in Apps \ {a} : Coming(c) => Coming(c)' BY <1>4, <2>2, StillComing
  <2>4. CASE PutStarts(a, s) BY <2>1, <2>3, <2>4, PutEnv
  <2>5. CASE DeleteStarts(a, s)
    <3>1. job'.type = "del" /\ job'.app = a /\ job' # None BY <2>1, <2>5, DeleteType DEF DeleteStarts
    <3>2. listed'[a] = None BY <1>4 DEF TakesEvent, Nothing
    <3>3. ~Coming(a)' => Ends(a, cluster[a])' /\ ~Told(stream', a) BY DEF Coming, AppsInv
    <3>4. ~Coming(a)' => cluster'[a] = None BY <3>1, <3>2, <3>3 DEF Ends, Held, InTable
    <3>5. Coming(a)' BY <3>4 DEF Coming
    <3> QED BY <2>1, <2>3, <2>5, <3>5, DeleteEnv
  <2> QED BY <1>4, <2>2, <2>4, <2>5 DEF TakesEvent
<1>5. ASSUME NEW a \in Apps, TakesListed(a) PROVE EnvInv'
  <2>1. job = None /\ patch = None /\ UNCHANGED <<deployed, patch, stale>>
    BY <1>5 DEF TakesListed, Known, clusterVars
  <2>2. \A c \in Apps \ {a} : Coming(c) => Coming(c)' BY <1>5, StillComing
  <2> QED BY <1>5, <2>1, <2>2, ListedFacts, PutEnv DEF TakesListed
<1>6. ASSUME NEW c \in Apps, ReconcileStarts(c) PROVE EnvInv'
  BY <1>6, ReconcileEnv
<1>7. CASE PatchLands \/ PatchRefused
  BY <1>7, PatchEnv
<1>8. CASE Finishes
  <2>1. job \in Jobs /\ patch = None /\ patch' = None /\ job.left = {} /\ ~job.self
    <3>1. job \in Jobs /\ patch = None /\ ToReconcile = {} BY <1>8 DEF Finishes, TypeOK
    <3>2. job.left = {} BY <3>1 DEF ToReconcile, Jobs
    <3> QED BY <1>8, <3>1, <3>2 DEF ToReconcile, Finishes
  <2>2. UNCHANGED <<providers, deployed, stale>> BY <1>8 DEF Finishes, clusterVars
  <2>3. \A c \in Apps : apps'[c] # None => apps'[c] = apps[c]
    BY <1>8, <2>1 DEF Finishes, TypeOK, Tables, Jobs
  <2>4. \A c \in Apps : ~Due(c) BY <2>1 DEF Due
  <2>5. ASSUME NEW c \in Apps, Asks(c)' PROVE Served(c, apps[c])'
    <3>1. apps'[c] = apps[c] BY <2>3, <2>5 DEF Asks
    <3>2. Asks(c) BY <1>8, <2>2, <2>5, <3>1 DEF Asks, Coming, Finishes, clusterVars
    <3> QED BY <2>2, <2>4, <3>1, <3>2 DEF EnvInv, Served
  <2> QED BY <2>1, <2>5 DEF EnvInv
<1> QED BY <1>1, <1>2, <1>3, <1>4, <1>5, <1>6, <1>7, <1>8 DEF Next, Others, Server

\* What both theorems below follow from.
ConsumersInv == TypeOK /\ Known /\ RegistryInv /\ AppsInv /\ EnvInv

LEMMA ConsumersStep ==
  KeepsGroups /\ AsksBySysData =>
    (Init => ConsumersInv) /\ (ConsumersInv /\ [Next]_vars => ConsumersInv')
<1> SUFFICES ASSUME KeepsGroups, AsksBySysData
             PROVE  (Init => ConsumersInv) /\ (ConsumersInv /\ [Next]_vars => ConsumersInv')
  OBVIOUS
<1>1. Init => ConsumersInv
  BY InitType, AppsInit
     DEF ConsumersInv, Init, Known, RegistryInv, InTable, Nothing, Endpoints, EnvInv, Asks
<1>2. ConsumersInv /\ [Next]_vars => ConsumersInv'
  BY TypeStep, RegistryStep, AppsInvStep, EnvStep DEF ConsumersInv
<1> QED BY <1>1, <1>2

\* OnProviderChanged and Reconcile: whatever providers come, move and go, in
\* whatever order events are taken and patches land, every known consumer that
\* was reached and not refused has the URLs of the providers there are now.
THEOREM ConsumersServed ==
  KeepsGroups /\ AsksBySysData => (Spec => []EnvFollowsRegistry)
<1> SUFFICES ASSUME KeepsGroups, AsksBySysData PROVE Spec => []EnvFollowsRegistry
  OBVIOUS
<1>1. Init => ConsumersInv BY ConsumersStep
<1>2. ConsumersInv /\ [Next]_vars => ConsumersInv' BY ConsumersStep
<1>3. ConsumersInv => EnvFollowsRegistry
  BY DEF ConsumersInv, EnvFollowsRegistry, EnvInv, Asks, Due, Idle
<1> QED BY <1>1, <1>2, <1>3, PTL DEF Spec

\* watchApplications and Reconcile from the user's side: once all is handled, a
\* consumer whose Deployment came before its resource has been reached since, in
\* whatever order it and its providers were installed, listed and replayed.
THEOREM InstalledServed ==
  KeepsGroups /\ AsksBySysData => (Spec => []InstalledAreServed)
<1> SUFFICES ASSUME KeepsGroups, AsksBySysData PROVE Spec => []InstalledAreServed
  OBVIOUS
<1>1. Init => ConsumersInv BY ConsumersStep
<1>2. ConsumersInv /\ [Next]_vars => ConsumersInv' BY ConsumersStep
<1>3. ConsumersInv => InstalledAreServed
  <2> SUFFICES ASSUME ConsumersInv, Quiet, NEW c \in Apps \ missed, cluster[c] # None,
                      deployed[c] # None, cluster[c].wants # <<>>, stale[c] \in {"no", "new"}
               PROVE  Served(c, cluster[c])
    BY DEF InstalledAreServed
  <2>1. apps[c] = cluster[c] BY AppsEnd DEF ConsumersInv
  <2>2. ~Coming(c) BY DEF Quiet, Coming, Told, Nothing
  <2>3. Asks(c) /\ ~Due(c) BY <2>1, <2>2 DEF Asks, Due, Quiet, Idle
  <2> QED BY <2>1, <2>3 DEF ConsumersInv, EnvInv
<1> QED BY <1>1, <1>2, <1>3, PTL DEF Spec
=============================================================================
