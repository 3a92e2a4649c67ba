-------------------------- MODULE MiddlewareProofs --------------------------
(***************************************************************************)
(* Proofs about Middleware, for any requests, specs, failures and restarts. *)
(***************************************************************************)
EXTENDS Middleware, TLAPS

-----------------------------------------------------------------------------
(* Types *)

LEMMA SpecFacts ==
  ASSUME NEW r \in Requests, NEW spec \in SpecsOf[r]
  PROVE  /\ spec \in SpecType /\ spec \in Specs /\ spec # None
         /\ spec.stores \subseteq Stores /\ spec.user \in Users
BY MiddlewareAssumption DEF Specs, SpecType

LEMMA EventType ==
  ASSUME NEW r \in Requests, NEW o \in [spec : Specs, state : States],
         o.spec \in SpecsOf[r], NEW type \in {"put", "deleted"}
  PROVE  Event(type, r, o) \in Events
BY DEF Event, Events

LEMMA LoggedType ==
  ASSUME log \in Seq(Events), NEW event \in Events, Logged(event)
  PROVE  log' \in Seq(Events)
BY DEF Logged

\* The goroutine's record as TypeOK has it.
Controls == [pc : {"list", "next", "provision", "look", "write", "drop"},
             todo : SUBSET Objects, name : Requests \cup {None},
             spec : Specs \cup {None}, to : States, fresh : BOOLEAN]

LEMMA OvertakenType ==
  ASSUME TypeOK, NEW r \in Requests, Overtaken(r)
  PROVE  /\ ctl' \in Controls
         /\ ctl'.pc = ctl.pc /\ ctl'.name = ctl.name /\ ctl'.spec = ctl.spec
         /\ ctl'.to = ctl.to
         /\ ctl'.fresh => ctl.fresh /\ ctl.name # r
BY DEF Overtaken, TypeOK, Controls

LEMMA CreatesType ==
  ASSUME TypeOK, NEW r \in Requests, Creates(r)
  PROVE  TypeOK'
<1>1. PICK spec \in SpecsOf[r] :
        /\ obj' = [obj EXCEPT ![r] = [spec |-> spec, state |-> "new"]]
        /\ Logged(Event("put", r, [spec |-> spec, state |-> "new"]))
  BY DEF Creates
<1> DEFINE o == [spec |-> spec, state |-> "new"]
<1>2. o \in [spec : Specs, state : States] /\ o.spec \in SpecsOf[r]
  BY SpecFacts DEF States
<1>3. log' \in Seq(Events)
  BY <1>1, <1>2, EventType, LoggedType DEF TypeOK
<1>4. ctl' \in Controls /\ ctl'.pc = ctl.pc /\ ctl'.name = ctl.name /\ ctl'.spec = ctl.spec
      /\ (ctl'.fresh => ctl.fresh /\ ctl.name # r)
  BY OvertakenType DEF Creates
<1>5. /\ obj' \in [Requests -> [spec : Specs, state : States] \cup {None}]
      /\ \A x \in Requests : obj'[x] # None => obj'[x].spec \in SpecsOf[x]
      /\ \A x \in Requests \ {r} : obj'[x] = obj[x]
  BY <1>1, <1>2 DEF TypeOK
<1>6. lives' \in [Requests -> Nat]
  <2>1. lives \in [Requests -> Nat] /\ lives' = [lives EXCEPT ![r] = @ + 1]
    BY DEF Creates, TypeOK
  <2> QED BY <2>1
<1>7. changes' \in 0..MaxChanges
  <2>1. changes \in 0..MaxChanges /\ changes < MaxChanges /\ changes' = changes + 1
    BY DEF Creates, Change, TypeOK
  <2> QED BY <2>1, MiddlewareAssumption
<1> QED BY <1>3, <1>4, <1>5, <1>6, <1>7 DEF Creates, TypeOK, Controls, provisioned

LEMMA EditsType ==
  ASSUME TypeOK, NEW r \in Requests, Edits(r)
  PROVE  TypeOK'
<1>1. PICK spec \in SpecsOf[r] :
        /\ obj' = [obj EXCEPT ![r].spec = spec]
        /\ Logged(Event("put", r, [obj[r] EXCEPT !.spec = spec]))
  BY DEF Edits
<1> DEFINE o == [obj[r] EXCEPT !.spec = spec]
<1>2. o \in [spec : Specs, state : States] /\ o.spec \in SpecsOf[r]
  BY SpecFacts DEF Edits, TypeOK
<1>3. log' \in Seq(Events)
  BY <1>1, <1>2, EventType, LoggedType DEF TypeOK
<1>4. ctl' \in Controls /\ ctl'.pc = ctl.pc /\ ctl'.name = ctl.name /\ ctl'.spec = ctl.spec
      /\ (ctl'.fresh => ctl.fresh /\ ctl.name # r)
  BY OvertakenType DEF Edits
<1>5. /\ obj' \in [Requests -> [spec : Specs, state : States] \cup {None}]
      /\ \A x \in Requests : obj'[x] # None => obj'[x].spec \in SpecsOf[x]
      /\ \A x \in Requests \ {r} : obj'[x] = obj[x]
  BY <1>1, <1>2 DEF TypeOK
<1>6. changes' \in 0..MaxChanges
  BY MiddlewareAssumption DEF Edits, Change, TypeOK
<1> QED BY <1>3, <1>4, <1>5, <1>6 DEF Edits, TypeOK, Controls, provisioned

LEMMA DeletesType ==
  ASSUME TypeOK, NEW r \in Requests, Deletes(r)
  PROVE  TypeOK'
<1>1. log' \in Seq(Events)
  BY EventType, LoggedType DEF Deletes, TypeOK
<1>2. ctl' \in Controls /\ ctl'.pc = ctl.pc /\ ctl'.name = ctl.name /\ ctl'.spec = ctl.spec
      /\ (ctl'.fresh => ctl.fresh /\ ctl.name # r)
  BY OvertakenType DEF Deletes
<1>3. /\ obj' \in [Requests -> [spec : Specs, state : States] \cup {None}]
      /\ \A x \in Requests : obj'[x] # None => obj'[x].spec \in SpecsOf[x]
      /\ \A x \in Requests \ {r} : obj'[x] = obj[x]
  BY DEF Deletes, TypeOK
<1>4. changes' \in 0..MaxChanges /\ lost' \subseteq {"put", "deleted"} \X Requests
  BY MiddlewareAssumption DEF Deletes, Change, TypeOK
<1> QED BY <1>1, <1>2, <1>3, <1>4 DEF Deletes, TypeOK, Controls, provisioned

\* Where the goroutine goes when it takes an object.
LEMMA HandlesType ==
  ASSUME NEW c \in Controls, c.pc = "next", NEW r \in Requests, NEW spec \in SpecsOf[r],
         NEW o, o.name = r, o.spec = spec
  PROVE  /\ Handles(o, c) \in Controls
         /\ Handles(o, c).todo = c.todo
         /\ Handles(o, c).pc \in {"next", "provision"}
         /\ Handles(o, c).pc = "provision" =>
              Handles(o, c).name = r /\ Handles(o, c).spec = spec
BY SpecFacts DEF Handles, Controls

LEMMA BackType ==
  ASSUME NEW c \in Controls
  PROVE  Back(c) \in Controls /\ Back(c).pc = "next"
BY DEF Back, Idle, Controls, States

LEMMA OutsideType == Outside \in Controls /\ Outside.pc = "list"
BY DEF Outside, Idle, Controls, States

LEMMA TakesType ==
  ASSUME TypeOK, Lists \/ TakesListed \/ TakesEvent
  PROVE  TypeOK'
<1>1. CASE Lists
  <2> DEFINE listed == {[name |-> r, spec |-> obj[r].spec, state |-> obj[r].state] :
                          r \in {x \in Requests : obj[x] # None}}
  <2>2. listed \in SUBSET Objects
    <3> SUFFICES ASSUME NEW r \in Requests, obj[r] # None
                 PROVE  [name |-> r, spec |-> obj[r].spec, state |-> obj[r].state] \in Objects
      OBVIOUS
    <3>1. obj[r] \in [spec : Specs, state : States] /\ obj[r].spec \in SpecsOf[r]
      BY DEF TypeOK
    <3> QED BY <3>1 DEF Objects
  <2>1. ctl' \in Controls /\ ctl'.pc = "next"
    <3> HIDE DEF listed
    <3>1. ctl' = [Idle EXCEPT !.todo = listed]
      BY <1>1 DEF Lists, listed
    <3> QED BY <2>2, <3>1 DEF Idle, Controls, States
  <2> QED BY <1>1, <2>1 DEF Lists, TypeOK, Controls, world, provisioned
<1>2. CASE TakesListed
  <2>1. PICK o \in ctl.todo : ctl' = Handles(o, [ctl EXCEPT !.todo = @ \ {o}])
    BY <1>2 DEF TakesListed
  <2>2. o \in Objects /\ [ctl EXCEPT !.todo = @ \ {o}] \in Controls
    BY DEF TypeOK, Controls
  <2>3. ctl' \in Controls /\ ctl'.pc \in {"next", "provision"}
        /\ (ctl'.pc = "provision" => ctl'.name \in Requests /\ ctl'.spec \in SpecsOf[ctl'.name])
    <3> DEFINE c == [ctl EXCEPT !.todo = @ \ {o}]
    <3>1. c \in Controls /\ c.pc = "next"
      BY <1>2, <2>2 DEF TakesListed, TypeOK, Controls
    <3>2. o.name \in Requests /\ o.spec \in SpecsOf[o.name]
      BY <2>2 DEF Objects
    <3>3. ctl' = Handles(o, c)
      BY <2>1
    <3> HIDE DEF c
    <3> QED BY <3>1, <3>2, <3>3, HandlesType
  <2> QED BY <1>2, <2>3 DEF TakesListed, TypeOK, Controls, world, provisioned
<1>3. CASE TakesEvent
  <2> DEFINE event == Head(log)
  <2>1. log \in Seq(Events) /\ log # <<>>
    BY <1>3 DEF TakesEvent, TypeOK
  <2>2. event \in Events /\ log' \in Seq(Events)
    BY <1>3, <2>1 DEF TakesEvent
  <2>3. /\ event.name \in Requests /\ event.spec \in SpecsOf[event.name]
        /\ event.spec \in Specs
    BY <2>2 DEF Events
  <2>4. ctl \in Controls /\ ctl.pc = "next"
    BY <1>3 DEF TakesEvent, TypeOK, Controls
  <2>5. ctl' \in Controls /\ ctl'.pc \in {"next", "provision", "drop"}
        /\ (ctl'.pc \in {"provision", "drop"} =>
              ctl'.name \in Requests /\ ctl'.spec \in SpecsOf[ctl'.name])
    <3>1. CASE event.type = "put"
      <4>1. ctl' = Handles(event, ctl)
        BY <1>3, <3>1 DEF TakesEvent
      <4> HIDE DEF event
      <4> QED BY <4>1, <2>3, <2>4, HandlesType
    <3>2. CASE event.type # "put"
      <4>1. ctl' = ctl \/ ctl' = Doing("drop", event)
        BY <1>3, <3>2 DEF TakesEvent
      <4>2. CASE ctl' = ctl
        BY <4>2, <2>4
      <4>3. CASE ctl' = Doing("drop", event)
        <5> HIDE DEF event
        <5> QED BY <4>3, <2>3, <2>4 DEF Doing, Controls
      <4> QED BY <4>1, <4>2, <4>3
    <3> QED BY <3>1, <3>2
  <2> QED BY <1>3, <2>2, <2>5 DEF TakesEvent, TypeOK, Controls, world, provisioned
<1> QED BY <1>1, <1>2, <1>3

LEMMA MakesType ==
  ASSUME TypeOK, ctl.pc = "provision", NEW stores, NEW role, Makes(stores, role)
  PROVE  /\ roles' \subseteq Users
         /\ owner' \in [Stores -> Users \cup {None}]
         /\ \A s \in Stores : owner[s] # None => owner'[s] = owner[s]
         /\ \A s \in Stores \cap stores : owner'[s] # None
<1>1. ctl.spec \in SpecsOf[ctl.name] /\ ctl.name \in Requests
  BY DEF TypeOK
<1>2. ctl.spec.user \in Users /\ None \notin Users
  BY <1>1, SpecFacts, MiddlewareAssumption
<1> QED BY <1>2 DEF Makes, TypeOK

LEMMA ProvisionType ==
  ASSUME TypeOK, Provisions \/ ProvisionFails \/ ProvisionRefused
  PROVE  TypeOK'
<1>1. ctl.pc = "provision" /\ ctl.name \in Requests /\ ctl.spec \in SpecsOf[ctl.name]
      /\ ctl.spec \in Specs
  BY SpecFacts DEF Provisions, ProvisionFails, ProvisionRefused, TypeOK
<1>2. PICK to \in {"ready", "failed"} : Outcome(to)
  BY DEF Provisions, ProvisionFails, ProvisionRefused
<1>3. /\ ctl' \in Controls /\ ctl'.pc = "look"
      /\ ctl'.name = ctl.name /\ ctl'.spec = ctl.spec
  BY <1>2 DEF Outcome, TypeOK, Controls, States
<1>4. roles' \subseteq Users /\ owner' \in [Stores -> Users \cup {None}]
  <2>1. CASE Provisions
    BY <2>1, <1>1, MakesType DEF Provisions
  <2>2. CASE ProvisionFails
    <3>1. PICK made \in SUBSET ctl.spec.stores, role \in BOOLEAN :
            Makes(made, role /\ ctl.spec.kind = "postgres")
      BY <2>2 DEF ProvisionFails
    <3> QED BY <3>1, <1>1, MakesType
  <2>3. CASE ProvisionRefused
    BY <2>3 DEF ProvisionRefused, provisioned, TypeOK
  <2> QED BY <2>1, <2>2, <2>3
<1>5. creds' \in [Requests -> Specs \cup {None}]
      /\ \A r \in Requests : creds'[r] \in SpecsOf[r] \cup {None}
  BY <1>1 DEF Provisions, ProvisionFails, ProvisionRefused, provisioned, TypeOK
<1>6. faults' \in 0..MaxFaults
  BY MiddlewareAssumption DEF Provisions, ProvisionFails, ProvisionRefused, Fails, TypeOK
<1>7. UNCHANGED <<world, log, restarts, lost>>
  BY DEF Provisions, ProvisionFails, ProvisionRefused
<1> QED BY <1>1, <1>3, <1>4, <1>5, <1>6, <1>7 DEF TypeOK, Controls, world

LEMMA StatusType ==
  ASSUME TypeOK, StatusLooks \/ StatusWrites \/ StatusFails
  PROVE  TypeOK'
<1>1. CASE StatusLooks
  <2>1. CASE obj[ctl.name] = None
    <3>1. ctl' \in Controls /\ ctl'.pc = "next"
      BY <1>1, <2>1, BackType DEF StatusLooks, TypeOK, Controls
    <3> QED BY <1>1, <3>1 DEF StatusLooks, TypeOK, Controls, world, provisioned
  <2>2. CASE obj[ctl.name] # None
    <3>1. ctl' = [ctl EXCEPT !.pc = "write", !.fresh = TRUE]
      BY <1>1, <2>2 DEF StatusLooks
    <3>2. ctl' \in Controls /\ ctl'.name = ctl.name /\ ctl'.spec = ctl.spec
      BY <3>1 DEF TypeOK, Controls
    <3> QED BY <1>1, <2>2, <3>2 DEF StatusLooks, TypeOK, Controls, world, provisioned
  <2> QED BY <2>1, <2>2
<1>2. CASE StatusWrites
  <2>1. ctl' \in Controls /\ ctl'.pc = "next"
    BY <1>2, BackType DEF StatusWrites, TypeOK, Controls
  <2>2. CASE ctl.fresh /\ obj[ctl.name].state # ctl.to
    <3> DEFINE o == [obj[ctl.name] EXCEPT !.state = ctl.to]
    <3>1. ctl.name \in Requests /\ obj[ctl.name] # None
      BY <1>2, <2>2 DEF StatusWrites, TypeOK
    <3>2. o \in [spec : Specs, state : States] /\ o.spec \in SpecsOf[ctl.name]
      BY <3>1 DEF TypeOK
    <3>3. obj' = [obj EXCEPT ![ctl.name] = o] /\ log' = Append(log, Event("put", ctl.name, o))
      BY <1>2, <2>2 DEF StatusWrites
    <3>4. /\ obj' \in [Requests -> [spec : Specs, state : States] \cup {None}]
          /\ \A x \in Requests : obj'[x] # None => obj'[x].spec \in SpecsOf[x]
      BY <3>1, <3>2, <3>3 DEF TypeOK
    <3>5. log' \in Seq(Events)
      <4>1. Event("put", ctl.name, o) \in Events
        BY <3>1, <3>2, EventType
      <4> QED BY <3>3, <4>1 DEF TypeOK
    <3> QED BY <1>2, <2>1, <3>4, <3>5 DEF StatusWrites, TypeOK, Controls, provisioned
  <2>3. CASE ~(ctl.fresh /\ obj[ctl.name].state # ctl.to)
    BY <1>2, <2>1, <2>3 DEF StatusWrites, TypeOK, Controls, provisioned
  <2> QED BY <2>2, <2>3
<1>3. CASE StatusFails
  <2>1. ctl' \in Controls /\ ctl'.pc = "next"
    BY <1>3, BackType DEF StatusFails, TypeOK, Controls
  <2>2. faults' \in 0..MaxFaults
    BY <1>3, MiddlewareAssumption DEF StatusFails, Fails, TypeOK
  <2>3. lost' \subseteq {"put", "deleted"} \X Requests
    BY <1>3 DEF StatusFails, TypeOK
  <2> QED BY <1>3, <2>1, <2>2, <2>3 DEF StatusFails, TypeOK, Controls, world, provisioned
<1> QED BY <1>1, <1>2, <1>3

LEMMA DropType ==
  ASSUME TypeOK, Drops \/ DropFails
  PROVE  /\ TypeOK' /\ ctl'.pc = "next"
         /\ \A s \in Stores : s \notin ctl.spec.stores => owner'[s] = owner[s]
         /\ \A r \in Requests : r # ctl.name => creds'[r] = creds[r]
<1>1. ctl.pc = "drop" /\ ctl.name \in Requests /\ ctl.spec \in SpecsOf[ctl.name]
  BY DEF Drops, DropFails, TypeOK
<1>2. ctl' \in Controls /\ ctl'.pc = "next"
  BY BackType DEF Drops, DropFails, TypeOK, Controls
<1>3. /\ owner' \in [Stores -> Users \cup {None}]
      /\ \A s \in Stores : s \notin ctl.spec.stores => owner'[s] = owner[s]
  BY DEF Drops, DropsAll, DropFails, TypeOK
<1>4. roles' \subseteq Users
  BY DEF Drops, DropsAll, DropFails, TypeOK
<1>5. /\ creds' \in [Requests -> Specs \cup {None}]
      /\ \A r \in Requests : creds'[r] \in SpecsOf[r] \cup {None}
      /\ \A r \in Requests : r # ctl.name => creds'[r] = creds[r]
  <2>1. creds \in [Requests -> Specs \cup {None}]
        /\ \A r \in Requests : creds[r] \in SpecsOf[r] \cup {None}
    BY DEF TypeOK
  <2>2. PICK left \in {None, creds[ctl.name]} : creds' = [creds EXCEPT ![ctl.name] = left]
    BY DEF Drops, DropFails
  <2> QED BY <1>1, <2>1, <2>2
<1>6. faults' \in 0..MaxFaults /\ lost' \subseteq {"put", "deleted"} \X Requests
  BY <1>1, MiddlewareAssumption DEF Drops, DropFails, Fails, TypeOK
<1>7. UNCHANGED <<world, log, restarts>>
  BY DEF Drops, DropFails
<1> QED BY <1>2, <1>3, <1>4, <1>5, <1>6, <1>7 DEF TypeOK, Controls, world

LEMMA ResetType ==
  ASSUME TypeOK, WatchEnds \/ Restarts
  PROVE  TypeOK'
<1>1. ctl' \in Controls /\ ctl'.pc = "list"
  BY OutsideType DEF WatchEnds, Restarts
<1>2. Undelivered \subseteq {"put", "deleted"} \X Requests
  <2> SUFFICES ASSUME NEW i \in DOMAIN log
               PROVE  log[i].type \in {"put", "deleted"} /\ log[i].name \in Requests
    BY DEF Undelivered
  <2>1. log[i] \in Events
    BY DEF TypeOK
  <2> QED BY <2>1 DEF Events
<1>3. lost' \subseteq {"put", "deleted"} \X Requests
  BY <1>2 DEF WatchEnds, Restarts, TypeOK
<1>4. log' \in Seq(Events) /\ restarts' \in 0..MaxRestarts
  <2>1. log' = <<>>
    BY DEF WatchEnds, Restarts
  <2>2. /\ restarts \in 0..MaxRestarts
        /\ restarts' = restarts \/ (restarts < MaxRestarts /\ restarts' = restarts + 1)
    BY DEF WatchEnds, Restarts, TypeOK
  <2> QED BY <2>1, <2>2, MiddlewareAssumption
<1>5. UNCHANGED <<world, provisioned, faults>>
  BY DEF WatchEnds, Restarts
<1> QED BY <1>1, <1>3, <1>4, <1>5 DEF TypeOK, Controls, world, provisioned

\* Type correctness: whatever the goroutine works on is a request somebody made,
\* and a status is only written to an object that still exists as it was read.
THEOREM MiddlewareTypes == Spec => []TypeOK
<1>1. Init => TypeOK
  <2> SUFFICES ASSUME Init PROVE TypeOK
    OBVIOUS
  <2>1. ctl \in Controls /\ ctl.pc = "list"
    BY OutsideType DEF Init
  <2> QED BY <2>1, MiddlewareAssumption DEF Init, TypeOK, Controls
<1>2. TypeOK /\ [Next]_vars => TypeOK'
  <2> SUFFICES ASSUME TypeOK, [Next]_vars PROVE TypeOK'
    OBVIOUS
  <2>1. CASE UNCHANGED vars
    BY <2>1 DEF vars, world, provisioned, TypeOK
  <2>2. CASE UserActs
    BY <2>2, CreatesType, EditsType, DeletesType DEF UserActs
  <2>3. CASE Works
    BY <2>3, TakesType, ProvisionType, StatusType, DropType DEF Works
  <2>4. CASE WatchEnds \/ Restarts
    BY <2>4, ResetType
  <2> QED BY <2>1, <2>2, <2>3, <2>4 DEF Next
<1> QED BY <1>1, <1>2, PTL DEF Spec

-----------------------------------------------------------------------------
(* "ready" can be trusted while a name is used for the first time *)

\* The first request of that name is gone.
Gone(r) == lives[r] > 1 \/ (obj[r] = None /\ lives[r] = 1)

\* What keeps ReadyIsProvisioned for first requests: an outcome "ready" on its way is
\* true already, and clean-up is only ever on its way for requests that are gone.
TrustedAt(r) ==
  /\ obj[r] # None /\ obj[r].state = "ready" /\ lives[r] = 1 => Provisioned(r)
  /\ obj[r] # None => lives[r] # 0
  /\ ~Reuse => lives[r] < 2
Trust ==
  /\ \A r \in Requests : TrustedAt(r)
  /\ ctl.pc \in {"look", "write"} /\ ctl.to = "ready" /\ lives[ctl.name] < 2 =>
       Provisioned(ctl.name)
  /\ ctl.pc = "drop" => Gone(ctl.name)
  /\ \A i \in 1..Len(log) : log[i].type = "deleted" => Gone(log[i].name)

\* A step that keeps what is provisioned keeps whom it serves.
LEMMA ProvisionedStays ==
  ASSUME UNCHANGED creds, NEW r \in Requests, TypeOK,
         \A s \in Stores : owner[s] # None => owner'[s] # None
  PROVE  Provisioned(r) => Provisioned(r)'
<1>1. creds[r] # None => creds[r].stores \subseteq Stores
  BY SpecFacts DEF TypeOK
<1> QED BY <1>1 DEF Provisioned

LEMMA UserTrust ==
  ASSUME TypeOK, TypeOK', Trust, NEW r \in Requests,
         Creates(r) \/ Edits(r) \/ Deletes(r)
  PROVE  Trust'
<1>1. UNCHANGED provisioned
      /\ ctl'.pc = ctl.pc /\ ctl'.name = ctl.name /\ ctl'.to = ctl.to
  BY OvertakenType DEF Creates, Edits, Deletes
<1>2. \A x \in Requests : Provisioned(x)' <=> Provisioned(x)
  BY <1>1 DEF Provisioned, provisioned
<1>3. \A x \in Requests \ {r} : obj'[x] = obj[x] /\ lives'[x] = lives[x]
  BY DEF Creates, Edits, Deletes, TypeOK
<1>4. TrustedAt(r)' /\ (Gone(r) => Gone(r)') /\ (lives'[r] < 2 => lives[r] < 2)
  <2>0. lives[r] \in Nat
    BY DEF TypeOK
  <2>1. CASE Creates(r)
    <3>1. lives'[r] = lives[r] + 1 /\ (Reuse \/ lives[r] = 0)
      BY <2>1 DEF Creates, TypeOK
    <3>2. obj'[r].state = "new"
      <4>1. PICK spec \in SpecsOf[r] : obj' = [obj EXCEPT ![r] = [spec |-> spec, state |-> "new"]]
        BY <2>1 DEF Creates
      <4>2. obj \in [Requests -> [spec : Specs, state : States] \cup {None}]
        BY DEF TypeOK
      <4> QED BY <4>1, <4>2
    <3>3. TrustedAt(r)'
      BY <2>0, <3>1, <3>2 DEF TrustedAt
    <3>4. Gone(r) => Gone(r)'
      BY <2>0, <3>1 DEF Gone
    <3> QED BY <2>0, <3>1, <3>3, <3>4
  <2>2. CASE Edits(r)
    <3>1. obj[r] \in [spec : Specs, state : States]
      BY <2>2 DEF Edits, TypeOK
    <3>2. obj'[r].state = obj[r].state /\ lives' = lives /\ obj[r] # None
      BY <2>2, <3>1 DEF Edits, TypeOK
    <3> QED BY <2>0, <3>2, <1>2 DEF Gone, Trust, TrustedAt
  <2>3. CASE Deletes(r)
    <3>1. obj'[r] = None /\ lives' = lives
      BY <2>3 DEF Deletes, TypeOK
    <3> QED BY <2>0, <3>1 DEF Gone, Trust, TrustedAt
  <2> QED BY <2>1, <2>2, <2>3
<1>5. \A x \in Requests : Gone(x) => Gone(x)'
  BY <1>3, <1>4 DEF Gone
<1>6. ctl'.pc = "drop" => Gone(ctl.name)'
  <2> SUFFICES ASSUME ctl'.pc = "drop" PROVE Gone(ctl.name)'
    OBVIOUS
  <2>1. ctl.pc = "drop" /\ ctl.name \in Requests
    BY <1>1 DEF TypeOK
  <2>2. PICK n \in Requests : n = ctl.name /\ Gone(n)
    BY <2>1 DEF Trust
  <2> QED BY <2>2, <1>1, <1>5 DEF Gone
<1>7. \A i \in 1..Len(log') : log'[i].type = "deleted" => Gone(log[i].name)'
  <2>1. \A i \in 1..Len(log) : log[i] \in Events /\ log[i].name \in Requests
    BY DEF TypeOK, Events
  <2>2. CASE log' = log
    BY <2>1, <2>2, <1>5 DEF Trust
  <2>3. CASE log' # log
    <3>1. PICK event :
            /\ log' = Append(log, event) /\ event.name = r
            /\ event.type = "deleted" => Deletes(r)
      <4>1. CASE Creates(r)
        <5>1. PICK spec \in SpecsOf[r] : Logged(Event("put", r, [spec |-> spec, state |-> "new"]))
          BY <4>1 DEF Creates
        <5> DEFINE e == Event("put", r, [spec |-> spec, state |-> "new"])
        <5>2. e.name = r /\ e.type = "put"
          BY DEF Event
        <5> HIDE DEF e
        <5>3. log' = Append(log, e)
          BY <5>1, <2>3 DEF Logged, e
        <5> QED BY <5>2, <5>3
      <4>2. CASE Edits(r)
        BY <4>2, <2>3 DEF Edits, Logged, Event
      <4>3. CASE Deletes(r)
        BY <4>3, <2>3 DEF Deletes, Logged, Event
      <4> QED BY <4>1, <4>2, <4>3
    <3>3. event.type = "deleted" => Gone(r)'
      <4> SUFFICES ASSUME Deletes(r) PROVE Gone(r)'
        BY <3>1
      <4>1. obj'[r] = None /\ lives' = lives /\ obj[r] # None /\ lives[r] \in Nat
        BY DEF Deletes, TypeOK
      <4>2. lives[r] # 0
        BY <4>1 DEF Trust, TrustedAt
      <4> QED BY <4>1, <4>2 DEF Gone
    <3>4. log \in Seq(Events)
      BY DEF TypeOK
    <3>5. /\ Len(log') = Len(log) + 1
          /\ \A i \in 1..Len(log) : log'[i] = log[i]
          /\ log'[Len(log) + 1] = event
      BY <3>1, <3>4
    <3>6. ASSUME NEW i \in 1..Len(log'), log'[i].type = "deleted"
          PROVE  Gone(log[i].name)'
      <4>1. CASE i \in 1..Len(log)
        BY <4>1, <3>5, <3>6, <2>1, <1>5 DEF Trust, Gone
      <4>2. CASE i = Len(log) + 1
        BY <4>2, <3>1, <3>3, <3>5, <3>6 DEF Gone
      <4> QED BY <4>1, <4>2, <3>4, <3>5
    <3> QED BY <3>6
  <2> QED BY <2>2, <2>3
<1>8. \A x \in Requests : TrustedAt(x)'
  BY <1>2, <1>3, <1>4 DEF Trust, TrustedAt
<1>9. ctl'.pc \in {"look", "write"} /\ ctl'.to = "ready" /\ lives'[ctl'.name] < 2 =>
        Provisioned(ctl.name)'
  <2> SUFFICES ASSUME ctl'.pc \in {"look", "write"}, ctl'.to = "ready", lives'[ctl'.name] < 2
               PROVE  Provisioned(ctl.name)'
    OBVIOUS
  <2>1. PICK n \in Requests : n = ctl.name
    BY <1>1 DEF TypeOK
  <2>2. lives[n] < 2
    BY <1>1, <1>3, <1>4, <2>1
  <2> QED BY <1>1, <1>2, <2>1, <2>2 DEF Trust, Provisioned
<1> QED BY <1>1, <1>6, <1>7, <1>8, <1>9 DEF Trust

\* A step of the controller that leaves the requests and the log alone, and
\* neither looks, writes nor drops next, needs no more than this.
LEMMA TakesTrust ==
  ASSUME TypeOK, TypeOK', Trust, Lists \/ TakesListed \/ TakesEvent
  PROVE  Trust'
<1>1. UNCHANGED <<world, provisioned>>
  BY DEF Lists, TakesListed, TakesEvent
<1>2. \A x \in Requests : (Provisioned(x)' <=> Provisioned(x)) /\ (Gone(x)' <=> Gone(x))
  BY <1>1 DEF Provisioned, Gone, world, provisioned
<1>0. \A x \in Requests : TrustedAt(x)'
  BY <1>1, <1>2 DEF Trust, TrustedAt, world
<1>3. CASE Lists \/ TakesListed
  <2>1. ctl'.pc \in {"next", "provision"} /\ log' = log
    <3>1. CASE Lists
      BY <3>1 DEF Lists, Idle
    <3>2. CASE TakesListed
      <4>1. PICK o \in ctl.todo : ctl' = Handles(o, [ctl EXCEPT !.todo = @ \ {o}])
        BY <3>2 DEF TakesListed
      <4>2. ctl.pc = "next" /\ ctl \in Controls /\ log' = log
        BY <3>2 DEF TakesListed, TypeOK, Controls
      <4> QED BY <4>1, <4>2 DEF Handles, Controls
    <3> QED BY <1>3, <3>1, <3>2
  <2>2. \A i \in 1..Len(log) : log[i].name \in Requests
    BY DEF TypeOK, Events
  <2> QED BY <2>1, <2>2, <1>0, <1>1, <1>2 DEF Trust, world
<1>4. CASE TakesEvent
  <2>1. log \in Seq(Events) /\ log # <<>> /\ log' = Tail(log)
    BY <1>4 DEF TakesEvent, TypeOK
  <2> DEFINE event == Head(log)
  <2>2. event = log[1] /\ 1 \in 1..Len(log)
        /\ Len(log') = Len(log) - 1 /\ \A i \in 1..Len(log') : log'[i] = log[i + 1]
    BY <2>1
  <2>3. \A i \in 1..Len(log) : log[i] \in Events /\ log[i].name \in Requests
    BY <2>1 DEF Events
  <2>4. \A i \in 1..Len(log') : log'[i].type = "deleted" => Gone(log[i].name)'
    <3>1. \A i \in 1..Len(log') : i + 1 \in 1..Len(log)
      BY <2>1, <2>2
    <3> QED BY <3>1, <2>2, <2>3, <1>1 DEF Trust, Gone, world
  <2>5. ctl.pc = "next" /\ ctl \in Controls
    BY <1>4 DEF TakesEvent, TypeOK, Controls
  <2>6. event \in Events /\ (event.type # "put" => event.type = "deleted")
    BY <2>2, <2>3 DEF Events
  <2>7. event.type = "deleted" => \E n \in Requests : n = event.name /\ Gone(n)'
    BY <2>2, <2>3, <1>2 DEF Trust
  <2>8. ctl'.pc \in {"next", "provision"} \/ (ctl'.pc = "drop" /\ Gone(ctl.name)')
    <3>1. CASE event.type = "put"
      <4>1. ctl' = Handles(event, ctl)
        BY <1>4, <3>1 DEF TakesEvent
      <4> HIDE DEF event
      <4> QED BY <4>1, <2>5 DEF Handles, Controls
    <3>2. CASE event.type # "put"
      <4>1. ctl' = ctl \/ ctl' = Doing("drop", event)
        BY <1>4, <3>2 DEF TakesEvent
      <4>2. CASE ctl' = Doing("drop", event)
        <5> HIDE DEF event
        <5>1. ctl'.pc = "drop" /\ ctl'.name = event.name
          BY <4>2, <2>5 DEF Doing, Controls
        <5> QED BY <5>1, <3>2, <2>6, <2>7 DEF Gone
      <4> QED BY <4>1, <4>2, <2>5
    <3> QED BY <3>1, <3>2
  <2> QED BY <2>4, <2>8, <1>0, <1>1, <1>2 DEF Trust, world
<1> QED BY <1>3, <1>4

\* Provisioning takes nothing from anybody.
LEMMA ProvisionKeeps ==
  ASSUME TypeOK, Provisions \/ ProvisionFails \/ ProvisionRefused
  PROVE  /\ \A r \in Requests : Provisioned(r) => Provisioned(r)'
         /\ ctl'.to = "ready" => Provisioned(ctl.name)'
<1>1. ctl.pc = "provision" /\ ctl.name \in Requests /\ ctl.spec \in SpecsOf[ctl.name]
  BY DEF Provisions, ProvisionFails, ProvisionRefused, TypeOK
<1>2. ctl'.name = ctl.name
  BY DEF Provisions, ProvisionFails, ProvisionRefused, Outcome, TypeOK
<1>3. CASE Provisions
  <2>1. Makes(ctl.spec.stores, ctl.spec.kind = "postgres")
        /\ creds' = [creds EXCEPT ![ctl.name] = ctl.spec]
    BY <1>3 DEF Provisions
  <2>2. ctl.spec # None /\ ctl.spec.stores \subseteq Stores
    BY <1>1, SpecFacts
  <2>3. /\ \A s \in Stores : owner[s] # None => owner'[s] # None
        /\ \A s \in ctl.spec.stores : owner'[s] # None
    BY <2>1, <2>2, <1>1, MakesType
  <2>4. Provisioned(ctl.name)'
    BY <2>1, <2>2, <2>3, <1>1, <1>2 DEF Provisioned, TypeOK
  <2>5. ASSUME NEW r \in Requests, r # ctl.name, Provisioned(r)
        PROVE  Provisioned(r)'
    <3>1. creds'[r] = creds[r]
      BY <2>1, <2>5 DEF TypeOK
    <3>2. creds[r].stores \subseteq Stores
      BY <2>5, SpecFacts DEF Provisioned, TypeOK
    <3> QED BY <3>1, <3>2, <2>3, <2>5 DEF Provisioned
  <2>6. ASSUME NEW r \in Requests, r = ctl.name
        PROVE  Provisioned(r)'
    BY <2>4, <2>6, <1>2 DEF Provisioned
  <2> QED BY <2>4, <2>5, <2>6
<1>4. CASE ProvisionFails
  <2>1. PICK made \in SUBSET ctl.spec.stores, role \in BOOLEAN :
          Makes(made, role /\ ctl.spec.kind = "postgres")
    BY <1>4 DEF ProvisionFails
  <2>2. creds' = creds /\ ctl'.to = "failed"
    BY <1>4 DEF ProvisionFails, Outcome, TypeOK
  <2>3. \A s \in Stores : owner[s] # None => owner'[s] # None
    BY <2>1, <1>1, MakesType
  <2> QED BY <2>2, <2>3, ProvisionedStays
<1>5. CASE ProvisionRefused
  <2>1. UNCHANGED provisioned /\ ctl'.to = "failed"
    BY <1>5 DEF ProvisionRefused, Outcome, TypeOK
  <2> QED BY <2>1 DEF provisioned, Provisioned
<1> QED BY <1>3, <1>4, <1>5

LEMMA ProvisionTrust ==
  ASSUME TypeOK, TypeOK', Trust, Provisions \/ ProvisionFails \/ ProvisionRefused
  PROVE  Trust'
<1>1. ctl.pc = "provision" /\ ctl.name \in Requests /\ ctl.spec \in SpecsOf[ctl.name]
  BY DEF Provisions, ProvisionFails, ProvisionRefused, TypeOK
<1>2. ctl'.pc = "look" /\ ctl'.name = ctl.name
  BY DEF Provisions, ProvisionFails, ProvisionRefused, Outcome, TypeOK
<1>3. UNCHANGED <<world, log>>
  BY DEF Provisions, ProvisionFails, ProvisionRefused
<1>4. /\ \A r \in Requests : Provisioned(r) => Provisioned(r)'
      /\ ctl'.to = "ready" => Provisioned(ctl.name)'
  BY ProvisionKeeps
<1>5. \A r \in Requests : Gone(r)' <=> Gone(r)
  BY <1>3 DEF Gone, world
<1>6. \A i \in 1..Len(log) : log[i].name \in Requests
  BY DEF TypeOK, Events
<1>7. \A x \in Requests : TrustedAt(x)'
  BY <1>3, <1>4 DEF Trust, TrustedAt, world
<1> QED BY <1>1, <1>2, <1>3, <1>4, <1>5, <1>6, <1>7 DEF Trust, world

LEMMA StatusTrust ==
  ASSUME TypeOK, TypeOK', Trust, StatusLooks \/ StatusWrites \/ StatusFails
  PROVE  Trust'
<1>1. UNCHANGED <<provisioned, lives>> /\ ctl.name \in Requests
  BY DEF StatusLooks, StatusWrites, StatusFails, world, TypeOK
<1>2. \A r \in Requests : Provisioned(r)' <=> Provisioned(r)
  BY <1>1 DEF Provisioned, provisioned
<1>3. \A i \in 1..Len(log) : log[i] \in Events /\ log[i].name \in Requests
  BY DEF TypeOK, Events
<1>4. CASE UNCHANGED <<obj, log>>
  <2>1. ctl'.pc = "next" \/ (ctl'.pc = "write" /\ ctl'.name = ctl.name /\ ctl'.to = ctl.to
                              /\ ctl.pc = "look")
    <3>1. ctl \in Controls /\ (ctl' = Back(ctl) => ctl'.pc = "next")
      BY DEF TypeOK, Controls, Back, Idle
    <3>2. \/ ctl' = Back(ctl)
          \/ ctl.pc = "look" /\ ctl' = [ctl EXCEPT !.pc = "write", !.fresh = TRUE]
      BY DEF StatusLooks, StatusWrites, StatusFails
    <3> QED BY <3>1, <3>2 DEF Controls
  <2>2. \A r \in Requests : Gone(r)' <=> Gone(r)
    BY <1>1, <1>4 DEF Gone
  <2>3. \A r \in Requests : TrustedAt(r)'
    BY <1>1, <1>2, <1>4 DEF Trust, TrustedAt
  <2> QED BY <1>1, <1>2, <1>3, <1>4, <2>1, <2>2, <2>3 DEF Trust
<1>5. CASE StatusWrites /\ ctl.fresh /\ obj[ctl.name].state # ctl.to
  <2> DEFINE o == [obj[ctl.name] EXCEPT !.state = ctl.to]
  <2>1. ctl'.pc = "next" /\ ctl.pc = "write"
    BY <1>5 DEF StatusWrites, Back, Idle
  <2>2. obj[ctl.name] # None /\ obj[ctl.name] \in [spec : Specs, state : States]
    BY <1>1, <1>5, <2>1 DEF TypeOK
  <2>3. obj' = [obj EXCEPT ![ctl.name] = o] /\ log' = Append(log, Event("put", ctl.name, o))
    BY <1>5 DEF StatusWrites
  <2>4. o # None /\ o.state = ctl.to
    <3>1. o \in [spec : Specs, state : States]
      BY <2>2 DEF TypeOK
    <3> QED BY <3>1, <2>2, MiddlewareAssumption
  <2> HIDE DEF o
  <2>5. \A r \in Requests : /\ r # ctl.name => obj'[r] = obj[r]
                            /\ obj'[ctl.name] = o
    BY <2>3, <1>1 DEF TypeOK
  <2>6. \A r \in Requests : Gone(r)' <=> Gone(r)
    BY <1>1, <2>2, <2>4, <2>5 DEF Gone
  <2>7. \A r \in Requests : TrustedAt(r)'
    BY <1>1, <1>2, <2>1, <2>2, <2>4, <2>5 DEF Trust, TrustedAt
  <2>8. \A i \in 1..Len(log') : log'[i].type = "deleted" => Gone(log[i].name)'
    <3> DEFINE event == Event("put", ctl.name, o)
    <3>1. event.type = "put"
      BY DEF Event
    <3>2. log \in Seq(Events)
      BY DEF TypeOK
    <3> HIDE DEF event
    <3>3. /\ Len(log') = Len(log) + 1
          /\ \A i \in 1..Len(log) : log'[i] = log[i]
          /\ log'[Len(log) + 1] = event
      BY <2>3, <3>2 DEF event
    <3>4. ASSUME NEW i \in 1..Len(log'), log'[i].type = "deleted"
          PROVE  i \in 1..Len(log)
      BY <3>1, <3>2, <3>3, <3>4
    <3> QED BY <3>3, <3>4, <1>3, <2>6 DEF Trust
  <2> QED BY <2>1, <2>6, <2>7, <2>8 DEF Trust
<1> QED BY <1>4, <1>5 DEF StatusLooks, StatusWrites, StatusFails, world

\* Dropping takes nothing from others.
LEMMA DropKeeps ==
  ASSUME TypeOK, Drops \/ DropFails, NEW r \in Requests, r # ctl.name
  PROVE  Provisioned(r) => Provisioned(r)'
<1> SUFFICES ASSUME Provisioned(r) PROVE Provisioned(r)'
  OBVIOUS
<1>1. ctl.name \in Requests /\ ctl.spec \in SpecsOf[ctl.name]
  BY DEF Drops, DropFails, TypeOK
<1>2. creds[r] \in SpecsOf[r] /\ creds'[r] = creds[r]
  BY DropType DEF Provisioned, TypeOK
<1>3. creds[r].stores \subseteq Stores /\ creds[r].stores \cap ctl.spec.stores = {}
  BY <1>1, <1>2, SpecFacts, MiddlewareAssumption
<1>4. \A s \in creds[r].stores : owner'[s] = owner[s]
  BY <1>3, DropType
<1> QED BY <1>2, <1>4 DEF Provisioned

LEMMA DropTrust ==
  ASSUME TypeOK, TypeOK', Trust, Drops \/ DropFails
  PROVE  Trust'
<1>1. ctl.pc = "drop" /\ ctl.name \in Requests /\ ctl'.pc = "next"
  BY DropType DEF Drops, DropFails, TypeOK
<1>2. UNCHANGED <<world, log>>
  BY DEF Drops, DropFails
<1>3. PICK n \in Requests : n = ctl.name /\ Gone(n)
  BY <1>1 DEF Trust
<1>4. \A r \in Requests : TrustedAt(r)'
  <2> SUFFICES ASSUME NEW r \in Requests PROVE TrustedAt(r)'
    OBVIOUS
  <2>1. CASE r = n
    BY <1>2, <1>3, <2>1 DEF Trust, TrustedAt, Gone, world
  <2>2. CASE r # n
    BY <1>2, <1>3, <2>2, DropKeeps DEF Trust, TrustedAt, world
  <2> QED BY <2>1, <2>2
<1>5. \A r \in Requests : Gone(r)' <=> Gone(r)
  BY <1>2 DEF Gone, world
<1>6. \A i \in 1..Len(log) : log[i].name \in Requests
  BY DEF TypeOK, Events
<1> QED BY <1>1, <1>2, <1>4, <1>5, <1>6 DEF Trust, world

LEMMA TrustHolds == Spec => []Trust
<1>1. Init => Trust
  <2> SUFFICES ASSUME Init PROVE Trust
    OBVIOUS
  <2>1. ctl.pc = "list"
    BY OutsideType DEF Init
  <2> QED BY <2>1 DEF Init, Trust, TrustedAt
<1>2. TypeOK /\ TypeOK' /\ Trust /\ [Next]_vars => Trust'
  <2> SUFFICES ASSUME TypeOK, TypeOK', Trust, [Next]_vars PROVE Trust'
    OBVIOUS
  <2>1. CASE UNCHANGED vars
    BY <2>1 DEF vars, world, provisioned, Trust, TrustedAt, Provisioned, Gone
  <2>2. CASE UserActs
    BY <2>2, UserTrust DEF UserActs
  <2>3. CASE Works
    BY <2>3, TakesTrust, ProvisionTrust, StatusTrust, DropTrust DEF Works
  <2>4. CASE WatchEnds \/ Restarts
    <3>1. ctl'.pc = "list" /\ log' = <<>> /\ UNCHANGED <<world, provisioned>>
      BY <2>4, OutsideType DEF WatchEnds, Restarts
    <3> QED BY <3>1 DEF world, provisioned, Trust, TrustedAt, Provisioned, Gone
  <2> QED BY <2>1, <2>2, <2>3, <2>4 DEF Next
<1> QED BY <1>1, <1>2, MiddlewareTypes, PTL DEF Spec

-----------------------------------------------------------------------------
(* Deletions and edits: what the goroutine still has to hear of a request *)

\* What the goroutine will act on, besides what it does already: deletions, and
\* requests that were not ready when they were seen.
Effective(e) == e.type = "deleted" \/ e.state # "ready"
Silent(r) == \A i \in 1..Len(log) : log[i].name = r => ~Effective(log[i])
LastWord(i, r) ==
  /\ i \in 1..Len(log) /\ log[i].name = r /\ Effective(log[i])
  /\ \A j \in 1..Len(log) : j > i /\ log[j].name = r => ~Effective(log[j])
Latest(e, r) == \E i \in 1..Len(log) : LastWord(i, r) /\ log[i] = e

\* Before a list nothing is seen; a list shows each request once; and the goroutine
\* has a name in hand exactly while it is about one, which it will not meet again
\* in the list.
Rounds ==
  /\ ctl.pc = "list" => log = <<>> /\ ctl.todo = {}
  /\ ctl.pc \in {"list", "next"} => ctl.name = None
  /\ \A o, p \in ctl.todo : o.name = p.name => o = p
  /\ \A o \in ctl.todo : o.name # ctl.name

\* What exists was made for a spec of an offered type.
Made(s, spec) == s \in spec.stores /\ owner[s] = spec.user /\ spec.kind \in Offered
Traces ==
  /\ \A s \in Stores : owner[s] # None =>
       \E o \in Requests : \E spec \in SpecsOf[o] : Made(s, spec)
  /\ \A u \in roles : \E o \in Requests : \E spec \in SpecsOf[o] :
       spec.kind = "postgres" /\ spec.user = u
  /\ \A r \in Requests : creds[r] # None => creds[r].kind \in Offered

\* A request that is gone is to be dropped, or is being dropped, or has been.
Awaits(r) == \E i \in 1..Len(log) : LastWord(i, r) /\ log[i].type = "deleted"
Cleared(r) ==
  /\ Silent(r)
  /\ \A o \in ctl.todo : o.name # r
  /\ \/ ctl.name = r /\ ctl.pc = "drop"
     \/ ctl.name # r /\ ~Leftover(r)
GoneHandled(r) ==
  obj[r] = None /\ <<"deleted", r>> \notin lost => Awaits(r) \/ Cleared(r)

\* The spec a request has now is the last one seen of it, or in hand, or reached.
Seen(r) ==
  \E i \in 1..Len(log) :
    LastWord(i, r) /\ log[i].type = "put" /\ log[i].spec = obj[r].spec
Listed(r) ==
  /\ Silent(r) /\ ctl.name # r
  /\ obj[r].state # "ready"
  /\ \E o \in ctl.todo : o.name = r /\ o.state # "ready" /\ o.spec = obj[r].spec
InHand(r) ==
  /\ Silent(r) /\ ctl.name = r
  /\ \/ ctl.pc = "provision" /\ ctl.spec = obj[r].spec
     \/ ctl.pc \in {"look", "write"} /\ ctl.to = "ready" /\ creds[r] = obj[r].spec
     \/ ctl.pc = "look" /\ ctl.to = "failed"
     \/ ctl.pc = "write" /\ ctl.to = "failed" /\ ctl.fresh
Reached(r) ==
  /\ Silent(r) /\ ctl.name # r
  /\ \A o \in ctl.todo : o.name = r => o.state = "ready"
  /\ obj[r].state = "ready" => creds[r] = obj[r].spec
\* Only what is offered becomes ready.
Refused(r) == \A spec \in SpecsOf[r] : spec.kind \notin Offered
EditHandled(r) ==
  obj[r] # None /\ <<"put", r>> \notin lost /\ r \notin late =>
    Refused(r) \/ Seen(r) \/ Listed(r) \/ InHand(r) \/ Reached(r)
RefusedStays(r) ==
  Refused(r) =>
    /\ obj[r] # None => obj[r].state # "ready"
    /\ ctl.name = r /\ ctl.pc \in {"look", "write"} => ctl.to # "ready"

\* What a step leaves of the log's last word about r, and of the goroutine's
\* business with r.
LogKept(r) ==
  /\ Silent(r) => Silent(r)'
  /\ \A i \in 1..Len(log) : LastWord(i, r) =>
       \E k \in 1..Len(log') : LastWord(k, r)' /\ log'[k] = log[i]
HandKept(r) ==
  /\ \A o : o.name = r => (o \in ctl'.todo <=> o \in ctl.todo)
  /\ \/ ctl.name # r /\ ctl'.name # r
     \/ UNCHANGED <<ctl.name, ctl.pc, ctl.spec, ctl.to, ctl.fresh>>

-----------------------------------------------------------------------------
(* How the log and the goroutine speak of one request *)

LEMMA Appended ==
  ASSUME log \in Seq(Events), NEW e \in Events, log' = Append(log, e), NEW r \in Requests
  PROVE  /\ e.name = r /\ Effective(e) => Latest(e, r)'
         /\ ~(e.name = r /\ Effective(e)) => LogKept(r)
<1>1. /\ Len(log') = Len(log) + 1 /\ Len(log) \in Nat
      /\ \A i \in 1..Len(log) : log'[i] = log[i]
      /\ log'[Len(log) + 1] = e
  OBVIOUS
<1>2. ASSUME e.name = r, Effective(e)
      PROVE  Latest(e, r)'
  <2>1. PICK k \in 1..Len(log') : k = Len(log) + 1
    BY <1>1
  <2>2. log'[k] = e /\ \A j \in 1..Len(log') : ~(j > k)
    BY <1>1, <2>1
  <2>3. LastWord(k, r)'
    BY <1>2, <2>2 DEF LastWord, Effective
  <2> QED BY <2>2, <2>3 DEF Latest
<1>3. ASSUME ~(e.name = r /\ Effective(e))
      PROVE  LogKept(r)
  <2>1. \A i \in 1..Len(log') : i \in 1..Len(log) \/ log'[i] = e
    BY <1>1
  <2>2. Silent(r) => Silent(r)'
    BY <1>1, <1>3, <2>1 DEF Silent, Effective
  <2>3. ASSUME NEW i \in 1..Len(log), LastWord(i, r)
        PROVE  \E k \in 1..Len(log') : LastWord(k, r)' /\ log'[k] = log[i]
    <3>1. LastWord(i, r)'
      BY <1>1, <1>3, <2>1, <2>3 DEF LastWord, Effective
    <3> QED BY <1>1, <3>1
  <2> QED BY <2>2, <2>3 DEF LogKept
<1> QED BY <1>2, <1>3

LEMMA Taken ==
  ASSUME log \in Seq(Events), log # <<>>, log' = Tail(log), NEW r \in Requests
  PROVE  /\ Head(log) = log[1] /\ 1 \in 1..Len(log) /\ log[1] \in Events
         /\ ~(log[1].name = r /\ Effective(log[1])) => LogKept(r)
         /\ LastWord(1, r) => Silent(r)'
         /\ \A i \in 1..Len(log) : LastWord(i, r) /\ i # 1 =>
              \E k \in 1..Len(log') : LastWord(k, r)' /\ log'[k] = log[i]
         /\ Silent(r) => Silent(r)' /\ ~(log[1].name = r /\ Effective(log[1]))
<1>1. /\ Len(log) \in Nat /\ Len(log) >= 1 /\ Len(log') = Len(log) - 1
      /\ \A i \in 1..Len(log') : i + 1 \in 1..Len(log) /\ log'[i] = log[i + 1]
      /\ Head(log) = log[1] /\ log[1] \in Events
  OBVIOUS
<1>2. ASSUME NEW i \in 1..Len(log), LastWord(i, r), i # 1
      PROVE  \E k \in 1..Len(log') : LastWord(k, r)' /\ log'[k] = log[i]
  <2>1. i - 1 \in 1..Len(log') /\ log'[i - 1] = log[i]
    BY <1>1, <1>2
  <2>2. LastWord(i - 1, r)'
    BY <1>1, <1>2, <2>1 DEF LastWord, Effective
  <2> QED BY <2>1, <2>2
<1>3. LastWord(1, r) => Silent(r)'
  BY <1>1 DEF LastWord, Silent, Effective
<1>4. Silent(r) => Silent(r)' /\ ~(log[1].name = r /\ Effective(log[1]))
  BY <1>1 DEF Silent, Effective
<1>5. ASSUME ~(log[1].name = r /\ Effective(log[1])) PROVE LogKept(r)
  <2>1. ASSUME NEW i \in 1..Len(log), LastWord(i, r)
        PROVE  i # 1
    BY <1>5, <2>1 DEF LastWord
  <2> QED BY <1>2, <1>4, <2>1 DEF LogKept
<1> QED BY <1>1, <1>2, <1>3, <1>4, <1>5

LEMMA LogAlike ==
  ASSUME UNCHANGED log, NEW r \in Requests
  PROVE  LogKept(r)
BY DEF LogKept, Silent, LastWord, Effective

\* A step that has nothing to do with a request keeps what is to come of it.
LEMMA Untouched ==
  ASSUME NEW r \in Requests,
         obj'[r] = obj[r], creds'[r] = creds[r],
         lost \subseteq lost', r \in late <=> r \in late',
         LogKept(r), HandKept(r)
  PROVE  /\ GoneHandled(r) /\ (Leftover(r)' => Leftover(r)) => GoneHandled(r)'
         /\ EditHandled(r) => EditHandled(r)'
<1>1. Awaits(r) => Awaits(r)'
  BY DEF Awaits, LogKept
<1>2. Cleared(r) /\ (Leftover(r)' => Leftover(r)) => Cleared(r)'
  BY DEF Cleared, LogKept, HandKept
<1>3. Seen(r) => Seen(r)'
  BY DEF Seen, LogKept
<1>4. Listed(r) => Listed(r)'
  BY DEF Listed, LogKept, HandKept
<1>5. InHand(r) => InHand(r)'
  BY DEF InHand, LogKept, HandKept
<1>6. Reached(r) => Reached(r)'
  BY DEF Reached, LogKept, HandKept
<1> QED BY <1>1, <1>2, <1>3, <1>4, <1>5, <1>6 DEF GoneHandled, EditHandled, Refused

\* Where the goroutine is after it has done with a request, or takes another.
LEMMA BackFacts ==
  ASSUME TypeOK, ctl' = Back(ctl)
  PROVE  /\ ctl'.pc = "next" /\ ctl'.name = None /\ ctl'.todo = ctl.todo
         /\ \A r \in Requests : ctl.name # r => HandKept(r)
<1>1. ctl'.pc = "next" /\ ctl'.name = None /\ ctl'.todo = ctl.todo
  BY DEF Back, Idle, TypeOK
<1> QED BY <1>1, MiddlewareAssumption DEF HandKept

LEMMA TodoNames ==
  ASSUME TypeOK, NEW o \in ctl.todo
  PROVE  /\ o \in Objects /\ o.name \in Requests /\ o.name # None
         /\ o.spec \in SpecsOf[o.name]
BY MiddlewareAssumption DEF TypeOK, Objects

LEMMA UserFacts ==
  ASSUME TypeOK, NEW x \in Requests, Creates(x) \/ Edits(x) \/ Deletes(x)
  PROVE  /\ UNCHANGED provisioned /\ lost \subseteq lost'
         /\ ctl'.pc = ctl.pc /\ ctl'.name = ctl.name /\ ctl'.spec = ctl.spec
         /\ ctl'.to = ctl.to /\ ctl'.todo = ctl.todo
         /\ ctl.name # x => ctl'.fresh = ctl.fresh
         /\ \A r \in Requests \ {x} : obj'[r] = obj[r] /\ (r \in late <=> r \in late')
         /\ IF ctl.pc = "list" THEN log' = log
            ELSE \E e \in Events : log' = Append(log, e) /\ e.name = x
<1>1. \E e \in Events : Logged(e) /\ e.name = x
  <2>1. CASE Creates(x)
    <3>1. PICK spec \in SpecsOf[x] : Logged(Event("put", x, [spec |-> spec, state |-> "new"]))
      BY <2>1 DEF Creates
    <3>2. [spec |-> spec, state |-> "new"] \in [spec : Specs, state : States]
      BY SpecFacts DEF States
    <3> QED BY <3>1, <3>2, EventType DEF Event
  <2>2. CASE Edits(x)
    <3>1. PICK spec \in SpecsOf[x] : Logged(Event("put", x, [obj[x] EXCEPT !.spec = spec]))
      BY <2>2 DEF Edits
    <3>2. [obj[x] EXCEPT !.spec = spec] \in [spec : Specs, state : States]
          /\ [obj[x] EXCEPT !.spec = spec].spec = spec
      <4>1. obj[x] \in [spec : Specs, state : States]
        BY <2>2 DEF Edits, TypeOK
      <4> QED BY <4>1, SpecFacts
    <3>3. Event("put", x, [obj[x] EXCEPT !.spec = spec]) \in Events
      BY <3>2, EventType
    <3> QED BY <3>1, <3>3 DEF Event
  <2>3. CASE Deletes(x)
    <3>1. Logged(Event("deleted", x, obj[x])) /\ obj[x] \in [spec : Specs, state : States]
          /\ obj[x].spec \in SpecsOf[x]
      BY <2>3 DEF Deletes, TypeOK
    <3> QED BY <3>1, EventType DEF Event
  <2> QED BY <2>1, <2>2, <2>3
<1>2. IF ctl.pc = "list" THEN log' = log
      ELSE \E e \in Events : log' = Append(log, e) /\ e.name = x
  BY <1>1 DEF Logged
<1>3. Overtaken(x)
  BY DEF Creates, Edits, Deletes
<1>4. /\ ctl'.pc = ctl.pc /\ ctl'.name = ctl.name /\ ctl'.spec = ctl.spec
      /\ ctl'.to = ctl.to /\ ctl'.todo = ctl.todo
      /\ ctl.name # x => ctl'.fresh = ctl.fresh
  BY <1>3 DEF Overtaken, TypeOK
<1>5. UNCHANGED provisioned /\ lost \subseteq lost'
  BY DEF Creates, Edits, Deletes
<1>6. \A r \in Requests \ {x} : obj'[r] = obj[r] /\ (r \in late <=> r \in late')
  BY DEF Creates, Edits, Deletes, TypeOK
<1> QED BY <1>2, <1>4, <1>5, <1>6

LEMMA RoundsStep ==
  ASSUME TypeOK, Rounds, [Next]_vars
  PROVE  Rounds'
<1>1. CASE UNCHANGED vars
  BY <1>1 DEF vars, Rounds
<1>2. CASE UserActs
  BY <1>2, UserFacts DEF UserActs, Rounds
<1>3. CASE Lists
  <2> DEFINE listed == {[name |-> r, spec |-> obj[r].spec, state |-> obj[r].state] :
                          r \in {x \in Requests : obj[x] # None}}
  <2>1. /\ \A o, p \in listed : o.name = p.name => o = p
        /\ \A o \in listed : o.name # None
    BY MiddlewareAssumption
  <2> HIDE DEF listed
  <2>2. ctl' = [Idle EXCEPT !.todo = listed]
    BY <1>3 DEF Lists, listed
  <2> QED BY <2>1, <2>2 DEF Rounds, Idle
<1>4. CASE TakesListed
  <2>1. PICK o \in ctl.todo : ctl' = Handles(o, [ctl EXCEPT !.todo = @ \ {o}])
    BY <1>4 DEF TakesListed
  <2>2. /\ ctl'.todo = ctl.todo \ {o}
        /\ \/ ctl'.pc = "next" /\ ctl'.name = None
           \/ ctl'.pc = "provision" /\ ctl'.name = o.name
    BY <1>4, <2>1 DEF TakesListed, Handles, TypeOK, Rounds
  <2> QED BY <2>2, TodoNames DEF Rounds
<1>5. CASE TakesEvent
  <2>1. ctl'.todo = {} /\ (ctl'.pc = "next" => ctl'.name = None) /\ ctl'.pc # "list"
    BY <1>5 DEF TakesEvent, Handles, Doing, TypeOK, Rounds
  <2> QED BY <2>1 DEF Rounds
<1>6. CASE Provisions \/ ProvisionFails \/ ProvisionRefused
  <2>1. ctl'.pc = "look" /\ ctl'.name = ctl.name /\ ctl'.todo = ctl.todo
    BY <1>6 DEF Provisions, ProvisionFails, ProvisionRefused, Outcome, TypeOK
  <2> QED BY <2>1 DEF Rounds
<1>7. CASE StatusLooks /\ ctl' = [ctl EXCEPT !.pc = "write", !.fresh = TRUE]
  <2>1. ctl'.pc = "write" /\ ctl'.name = ctl.name /\ ctl'.todo = ctl.todo
    BY <1>7 DEF TypeOK
  <2> QED BY <2>1 DEF Rounds
<1>8. CASE ctl' = Back(ctl)
  BY <1>8, BackFacts, TodoNames DEF Rounds
<1>9. CASE WatchEnds \/ Restarts
  <2>1. ctl' = Outside /\ log' = <<>>
    BY <1>9 DEF WatchEnds, Restarts
  <2> QED BY <2>1 DEF Rounds, Outside, Idle
<1> QED BY <1>1, <1>2, <1>3, <1>4, <1>5, <1>6, <1>7, <1>8, <1>9
        DEF Next, Works, StatusLooks, StatusWrites, StatusFails, Drops, DropFails

LEMMA TracesStep ==
  ASSUME TypeOK, TypeOK', Traces, [Next]_vars
  PROVE  Traces'
<1>1. CASE UNCHANGED provisioned
  BY <1>1 DEF provisioned, Traces, Made
<1>2. CASE Provisions \/ ProvisionFails
  <2>1. /\ ctl.name \in Requests /\ ctl.spec \in SpecsOf[ctl.name]
        /\ ctl.spec.kind \in Offered /\ ctl.spec.user \in Users /\ None \notin Users
        /\ ctl.spec \in Specs
    BY <1>2, SpecFacts, MiddlewareAssumption DEF Provisions, ProvisionFails, TypeOK
  <2>2. PICK made \in SUBSET ctl.spec.stores, role \in BOOLEAN :
          Makes(made, role) /\ (role => ctl.spec.kind = "postgres")
    <3>1. CASE Provisions
      BY <3>1 DEF Provisions
    <3>2. CASE ProvisionFails
      <4>1. PICK made \in SUBSET ctl.spec.stores, role \in BOOLEAN :
              Makes(made, role /\ ctl.spec.kind = "postgres")
        BY <3>2 DEF ProvisionFails
      <4>2. (role /\ ctl.spec.kind = "postgres") \in BOOLEAN
        OBVIOUS
      <4> QED BY <4>1, <4>2
    <3> QED BY <1>2, <3>1, <3>2
  <2>3. \A s \in Stores : owner'[s] # None =>
          owner'[s] = owner[s] \/ (s \in ctl.spec.stores /\ owner'[s] = ctl.spec.user)
    BY <2>1, <2>2 DEF Makes
  <2>4. \A s \in Stores : owner'[s] # None =>
          \E o \in Requests : \E spec \in SpecsOf[o] : Made(s, spec)'
    BY <2>1, <2>3 DEF Traces, Made
  <2>5. \A u \in roles' : u \in roles \/ (u = ctl.spec.user /\ ctl.spec.kind = "postgres")
    BY <2>2 DEF Makes
  <2>6. \A r \in Requests : creds'[r] = creds[r] \/ creds'[r] = ctl.spec
    BY <1>2 DEF Provisions, ProvisionFails, TypeOK
  <2> QED BY <2>1, <2>4, <2>5, <2>6 DEF Traces
<1>3. CASE Drops \/ DropFails
  <2>1. \A s \in Stores : owner'[s] # None => owner'[s] = owner[s]
    BY <1>3 DEF Drops, DropsAll, DropFails
  <2>2. roles' \subseteq roles
    BY <1>3 DEF Drops, DropsAll, DropFails
  <2>3. \A r \in Requests : creds'[r] # None => creds'[r] = creds[r]
    BY <1>3 DEF Drops, DropFails, TypeOK
  <2> QED BY <2>1, <2>2, <2>3 DEF Traces, Made
<1> QED BY <1>1, <1>2, <1>3, UserFacts
        DEF Next, vars, UserActs, Works, Lists, TakesListed, TakesEvent, ProvisionRefused,
            StatusLooks, StatusWrites, StatusFails, WatchEnds, Restarts

-----------------------------------------------------------------------------
(* Each action, for a request it may be about *)

LEMMA SameLeftover ==
  ASSUME UNCHANGED provisioned, NEW r \in Requests
  PROVE  creds'[r] = creds[r] /\ (Leftover(r)' <=> Leftover(r))
BY DEF provisioned, Leftover

\* Before a list there is nothing else a request could wait for.
LEMMA BeforeList ==
  ASSUME TypeOK, TypeOK', Rounds', NEW r \in Requests, ctl'.pc = "list",
         obj'[r].state # "ready" \/ creds'[r] = obj'[r].spec
  PROVE  Reached(r)'
BY MiddlewareAssumption DEF Rounds, Reached, Silent

LEMMA UserHandled ==
  ASSUME TypeOK, TypeOK', Rounds, Rounds', NEW x \in Requests,
         Creates(x) \/ Edits(x) \/ Deletes(x), NEW r \in Requests
  PROVE  /\ GoneHandled(r) => GoneHandled(r)'
         /\ EditHandled(r) => EditHandled(r)'
         /\ RefusedStays(r) => RefusedStays(r)'
<1>1. CASE r # x
  <2>1. HandKept(r) /\ lost \subseteq lost' /\ UNCHANGED provisioned
        /\ obj'[r] = obj[r] /\ (r \in late <=> r \in late')
    BY <1>1, UserFacts DEF HandKept
  <2>2. LogKept(r)
    <3>1. CASE log' = log
      BY <3>1, LogAlike
    <3>2. CASE log' # log
      <4>1. PICK e \in Events : log' = Append(log, e) /\ e.name = x
        BY <3>2, UserFacts
      <4> QED BY <4>1, <1>1, Appended DEF TypeOK
    <3> QED BY <3>1, <3>2
  <2> QED BY <1>1, <2>1, <2>2, Untouched, SameLeftover, UserFacts DEF RefusedStays, Refused
<1>2. CASE r = x /\ Creates(r)
  <2>1. PICK spec \in SpecsOf[r] :
          /\ obj' = [obj EXCEPT ![r] = [spec |-> spec, state |-> "new"]]
          /\ Logged(Event("put", r, [spec |-> spec, state |-> "new"]))
    BY <1>2 DEF Creates
  <2>2. obj'[r] = [spec |-> spec, state |-> "new"] /\ obj'[r] # None
    <3>1. obj'[r] = [spec |-> spec, state |-> "new"]
      BY <2>1 DEF TypeOK
    <3>2. [spec |-> spec, state |-> "new"] \in [spec : Specs, state : States]
      BY SpecFacts DEF States
    <3> QED BY <3>1, <3>2, MiddlewareAssumption
  <2>3. CASE ctl.pc = "list"
    BY <2>2, <2>3, <1>2, BeforeList, UserFacts DEF GoneHandled, EditHandled, RefusedStays, Refused
  <2>4. CASE ctl.pc # "list"
    <3>1. PICK e : e = Event("put", r, [spec |-> spec, state |-> "new"])
      OBVIOUS
    <3>2. e.type = "put" /\ e.name = r /\ e.spec = spec /\ e.state = "new"
      BY <3>1 DEF Event
    <3>3. e \in Events
      BY <3>1, EventType, SpecFacts DEF States
    <3>4. log' = Append(log, e)
      BY <2>1, <2>4, <3>1 DEF Logged
    <3>5. Effective(e) /\ log \in Seq(Events)
      BY <3>2 DEF Effective, TypeOK
    <3>6. Latest(e, r)'
      BY <3>2, <3>3, <3>4, <3>5, Appended
    <3>7. Seen(r)'
      BY <2>2, <3>2, <3>6 DEF Latest, Seen
    <3> QED BY <2>2, <3>7, <1>2, UserFacts DEF GoneHandled, EditHandled, RefusedStays, Refused
  <2> QED BY <2>3, <2>4
<1>3. CASE r = x /\ Edits(r)
  <2>1. PICK spec \in SpecsOf[r] :
          /\ obj' = [obj EXCEPT ![r].spec = spec]
          /\ Logged(Event("put", r, [obj[r] EXCEPT !.spec = spec]))
    BY <1>3 DEF Edits
  <2>2. /\ obj[r] \in [spec : Specs, state : States]
        /\ obj'[r] = [obj[r] EXCEPT !.spec = spec] /\ obj'[r] # None
        /\ obj'[r].spec = spec /\ obj'[r].state = obj[r].state
    <3>1. obj[r] \in [spec : Specs, state : States] /\ obj[r] # None
      BY <1>3 DEF Edits, TypeOK
    <3>2. obj'[r] = [obj[r] EXCEPT !.spec = spec]
      BY <2>1 DEF TypeOK
    <3>3. obj'[r] \in [spec : Specs, state : States]
      BY <3>1, <3>2, SpecFacts
    <3> QED BY <3>1, <3>2, <3>3, MiddlewareAssumption
  <2>3. GoneHandled(r)' /\ (RefusedStays(r) => RefusedStays(r)')
    BY <2>2, <1>3, UserFacts DEF GoneHandled, RefusedStays, Refused, Edits
  <2>4. CASE obj[r].state = "ready"
    BY <2>3, <2>4, <1>3 DEF Edits, EditHandled
  <2>5. CASE obj[r].state # "ready" /\ ctl.pc = "list"
    BY <2>2, <2>3, <2>5, <1>3, BeforeList, UserFacts DEF EditHandled
  <2>6. CASE obj[r].state # "ready" /\ ctl.pc # "list"
    <3>1. PICK e : e = Event("put", r, [obj[r] EXCEPT !.spec = spec])
      OBVIOUS
    <3>2. e.type = "put" /\ e.name = r /\ e.spec = spec /\ e.state = obj[r].state
      BY <2>2, <3>1 DEF Event
    <3>3. e \in Events
      <4>1. [obj[r] EXCEPT !.spec = spec] \in [spec : Specs, state : States]
            /\ [obj[r] EXCEPT !.spec = spec].spec = spec
        BY <2>2, SpecFacts
      <4> QED BY <3>1, <4>1, EventType
    <3>4. log' = Append(log, e)
      BY <2>1, <2>6, <3>1 DEF Logged
    <3>5. Latest(e, r)'
      <4>1. Effective(e) /\ log \in Seq(Events)
        BY <2>6, <3>2 DEF Effective, TypeOK
      <4> QED BY <4>1, <3>2, <3>3, <3>4, Appended
    <3>6. Seen(r)'
      BY <2>2, <3>2, <3>5 DEF Latest, Seen
    <3> QED BY <2>3, <3>6 DEF EditHandled
  <2> QED BY <2>3, <2>4, <2>5, <2>6
<1>4. CASE r = x /\ Deletes(r)
  <2>1. obj'[r] = None /\ obj[r] \in [spec : Specs, state : States]
        /\ obj[r].spec \in SpecsOf[r]
    BY <1>4 DEF Deletes, TypeOK
  <2>2. EditHandled(r)' /\ (RefusedStays(r) => RefusedStays(r)')
    BY <2>1, <1>4, UserFacts DEF EditHandled, RefusedStays, Refused
  <2>3. CASE ctl.pc = "list"
    BY <2>2, <2>3, <1>4 DEF Deletes, GoneHandled
  <2>4. CASE ctl.pc # "list"
    <3>1. PICK e : e = Event("deleted", r, obj[r])
      OBVIOUS
    <3>2. e.type = "deleted" /\ e.name = r /\ e \in Events
      BY <2>1, <3>1, EventType DEF Event
    <3>3. log' = Append(log, e)
      BY <1>4, <2>4, <3>1 DEF Deletes, Logged
    <3>4. Effective(e) /\ log \in Seq(Events)
      BY <3>2 DEF Effective, TypeOK
    <3>5. Latest(e, r)'
      BY <3>2, <3>3, <3>4, Appended
    <3>6. PICK k \in 1..Len(log') : LastWord(k, r)' /\ log'[k] = e
      BY <3>5 DEF Latest
    <3> QED BY <2>2, <3>2, <3>6 DEF GoneHandled, Awaits
  <2> QED BY <2>3, <2>4
<1> QED BY <1>1, <1>2, <1>3, <1>4

LEMMA ListsHandled ==
  ASSUME TypeOK, Rounds, Lists, NEW r \in Requests
  PROVE  /\ GoneHandled(r) => GoneHandled(r)'
         /\ EditHandled(r) => EditHandled(r)'
         /\ RefusedStays(r) => RefusedStays(r)'
<1> DEFINE entry(x) == [name |-> x, spec |-> obj[x].spec, state |-> obj[x].state]
           listed == {entry(x) : x \in {y \in Requests : obj[y] # None}}
<1>1. ctl'.todo = listed /\ ctl'.name = None /\ ctl'.pc = "next"
  BY DEF Lists, Idle
<1>2. /\ \A o \in listed : o.name = r => obj[r] # None /\ o = entry(r)
      /\ obj[r] # None => entry(r) \in listed
      /\ entry(r).name = r /\ entry(r).state = obj[r].state /\ entry(r).spec = obj[r].spec
  OBVIOUS
<1> HIDE DEF listed, entry
<1>3. /\ obj' = obj /\ UNCHANGED <<lost, late, log>> /\ UNCHANGED provisioned
      /\ ctl.name = None /\ ctl.todo = {} /\ ctl.name # r
  BY MiddlewareAssumption DEF Lists, world, Rounds
<1>4. (Silent(r)' <=> Silent(r)) /\ (Leftover(r)' <=> Leftover(r)) /\ creds'[r] = creds[r]
  BY <1>3, SameLeftover DEF Silent
<1>5. GoneHandled(r) => GoneHandled(r)'
  BY <1>1, <1>2, <1>3, <1>4 DEF GoneHandled, Awaits, LastWord, Cleared
<1>6. Seen(r) => Seen(r)'
  BY <1>3 DEF Seen, LastWord
<1>7. Reached(r) /\ obj[r] # None => Listed(r)' \/ Reached(r)'
  BY <1>1, <1>2, <1>3, <1>4 DEF Reached, Listed
<1>8. EditHandled(r) => EditHandled(r)'
  BY <1>3, <1>6, <1>7 DEF EditHandled, Listed, InHand, Refused
<1> QED BY <1>1, <1>3, <1>5, <1>8 DEF RefusedStays, Refused

LEMMA TakesListedHandled ==
  ASSUME TypeOK, Rounds, KeepsKind, TakesListed, NEW r \in Requests
  PROVE  /\ GoneHandled(r) => GoneHandled(r)'
         /\ EditHandled(r) => EditHandled(r)'
         /\ RefusedStays(r) => RefusedStays(r)'
<1>1. PICK o \in ctl.todo : ctl' = Handles(o, [ctl EXCEPT !.todo = @ \ {o}])
  BY DEF TakesListed
<1>2. /\ ctl'.todo = ctl.todo \ {o} /\ ctl.pc = "next" /\ ctl.name = None
      /\ IF Skipped(o) THEN ctl'.pc = "next" /\ ctl'.name = None
         ELSE ctl'.pc = "provision" /\ ctl'.name = o.name /\ ctl'.spec = o.spec
  BY <1>1 DEF TakesListed, Handles, TypeOK, Rounds
<1>3. UNCHANGED <<world, provisioned, log, lost>> /\ None # r
  BY MiddlewareAssumption DEF TakesListed
<1>4. creds'[r] = creds[r] /\ (Leftover(r)' <=> Leftover(r)) /\ LogKept(r)
  BY <1>3, SameLeftover, LogAlike
<1>5. RefusedStays(r) => RefusedStays(r)'
  BY <1>2, <1>3 DEF RefusedStays, Refused, world
<1>6. CASE o.name # r
  <2>1. HandKept(r)
    BY <1>2, <1>3, <1>6 DEF HandKept
  <2> QED BY <1>3, <1>4, <1>5, <2>1, Untouched DEF world
<1>7. CASE o.name = r
  <2>1. GoneHandled(r) => GoneHandled(r)'
    BY <1>3, <1>4, <1>7 DEF GoneHandled, Cleared, Awaits, LogKept, world
  <2>2. Seen(r) => Seen(r)'
    BY <1>3, <1>4 DEF Seen, LogKept, world
  <2>3. Listed(r) /\ obj[r] # None => Refused(r) \/ InHand(r)'
    <3> SUFFICES ASSUME Listed(r), obj[r] # None, ~Refused(r) PROVE InHand(r)'
      OBVIOUS
    <3>1. o.state # "ready" /\ o.spec = obj[r].spec
      BY <1>7 DEF Listed, Rounds
    <3>2. o.spec \in SpecsOf[r] /\ o.spec.kind \in Offered
      BY <1>7, TodoNames DEF KeepsKind, Refused
    <3>3. ~Skipped(o)
      BY <3>1, <3>2 DEF Skipped, Offered
    <3> QED BY <3>1, <3>3, <1>2, <1>3, <1>4, <1>7 DEF Listed, InHand, LogKept, world
  <2>4. ~InHand(r)
    BY <1>2, <1>3 DEF InHand
  <2>5. Reached(r) => Reached(r)'
    BY <1>2, <1>3, <1>4, <1>7 DEF Reached, LogKept, Skipped, world
  <2> QED BY <1>3, <1>5, <2>1, <2>2, <2>3, <2>4, <2>5 DEF EditHandled, Refused, world
<1> QED BY <1>6, <1>7

LEMMA HomeFacts ==
  ASSUME KeepsHome, NEW r \in Requests, NEW s \in SpecsOf[r]
  PROVE  /\ \A t \in SpecsOf[r] : /\ s.stores = t.stores /\ s.user = t.user
                                  /\ s.kind \in Offered \/ t.kind \in Offered => s.kind = t.kind
         /\ \A o \in Requests : \A t \in SpecsOf[o] :
              s.kind = "postgres" /\ o # r => s.user # t.user
BY DEF KeepsHome

\* What is not offered leaves no traces.
LEMMA NothingMade ==
  ASSUME TypeOK, Traces, KeepsHome, NEW r \in Requests, NEW spec \in SpecsOf[r],
         spec.kind \notin Offered
  PROVE  ~Leftover(r)
<1>1. \A t \in SpecsOf[r] : t.kind \notin Offered
  BY DEF KeepsHome
<1>2. creds[r] = None
  BY <1>1, SpecFacts DEF Traces, TypeOK
<1>3. ASSUME NEW t \in SpecsOf[r], t.user \in roles PROVE FALSE
  <2>1. PICK o \in Requests, p \in Specs :
          p \in SpecsOf[o] /\ p.kind = "postgres" /\ p.user = t.user
    BY <1>3, SpecFacts DEF Traces
  <2> QED BY <2>1, <1>1, <1>3 DEF KeepsHome, Offered
<1>4. ASSUME NEW t \in SpecsOf[r], NEW s \in t.stores, owner[s] # None PROVE FALSE
  <2>1. s \in Stores
    BY SpecFacts
  <2>2. PICK o \in Requests, p \in Specs : p \in SpecsOf[o] /\ Made(s, p)
    BY <2>1, <1>4, SpecFacts DEF Traces
  <2>3. s \in p.stores \cap t.stores
    BY <2>2 DEF Made
  <2>4. o = r
    BY <2>2, <2>3, MiddlewareAssumption
  <2> QED BY <2>2, <2>4, <1>1 DEF Made
<1> QED BY <1>2, <1>3, <1>4 DEF Leftover

LEMMA TakesEventHandled ==
  ASSUME TypeOK, TypeOK', Rounds, KeepsKind, TakesEvent, NEW r \in Requests
  PROVE  /\ GoneHandled(r) /\ KeepsHome /\ Traces => GoneHandled(r)'
         /\ EditHandled(r) => EditHandled(r)'
         /\ RefusedStays(r) => RefusedStays(r)'
<1>1. PICK e \in Events : e = Head(log)
  BY DEF TakesEvent, TypeOK
<1>2. /\ log \in Seq(Events) /\ log # <<>> /\ log' = Tail(log)
      /\ ctl' = IF e.type = "put" THEN Handles(e, ctl)
                ELSE IF e.spec.kind \in Offered THEN Doing("drop", e) ELSE ctl
  BY <1>1 DEF TakesEvent, TypeOK
<1>3. /\ ctl'.todo = {} /\ ctl.todo = {} /\ ctl.pc = "next" /\ ctl.name = None
      /\ e.type = "put" /\ ~Skipped(e) =>
           ctl'.pc = "provision" /\ ctl'.name = e.name /\ ctl'.spec = e.spec
      /\ e.type # "put" /\ e.spec.kind \in Offered => ctl'.pc = "drop" /\ ctl'.name = e.name
      /\ e.type = "put" /\ Skipped(e) => ctl' = ctl
      /\ e.type # "put" /\ e.spec.kind \notin Offered => ctl' = ctl
      /\ ctl'.pc \in {"next", "provision", "drop"} /\ ctl'.name \in {None, e.name}
  <2>1. ctl.todo = {} /\ ctl.pc = "next" /\ ctl.name = None /\ ctl \in Controls
    BY DEF TakesEvent, TypeOK, Controls, Rounds
  <2>2. CASE ctl' = [ctl EXCEPT !.pc = "provision", !.name = e.name, !.spec = e.spec]
               /\ e.type = "put" /\ ~Skipped(e)
    BY <2>1, <2>2 DEF Controls
  <2>3. CASE ctl' = [ctl EXCEPT !.pc = "drop", !.name = e.name, !.spec = e.spec]
               /\ e.type # "put" /\ e.spec.kind \in Offered
    BY <2>1, <2>3 DEF Controls
  <2>4. CASE ctl' = ctl /\ ~(e.type = "put" /\ ~Skipped(e))
               /\ ~(e.type # "put" /\ e.spec.kind \in Offered)
    BY <2>1, <2>4
  <2> QED BY <1>2, <2>2, <2>3, <2>4 DEF Handles, Doing
<1>4. UNCHANGED <<world, provisioned, lost>> /\ None # r
  BY MiddlewareAssumption DEF TakesEvent
<1>5. creds'[r] = creds[r] /\ (Leftover(r)' <=> Leftover(r))
  BY <1>4, SameLeftover
<1>6. RefusedStays(r) => RefusedStays(r)'
  BY <1>3, <1>4 DEF RefusedStays, Refused, world
<1>7. /\ log[1] = e /\ 1 \in 1..Len(log)
      /\ ~(e.name = r /\ Effective(e)) => LogKept(r)
      /\ LastWord(1, r) => Silent(r)'
      /\ \A i \in 1..Len(log) : LastWord(i, r) /\ i # 1 =>
           \E k \in 1..Len(log') : LastWord(k, r)' /\ log'[k] = log[i]
      /\ Silent(r) => ~(e.name = r /\ Effective(e))
  BY <1>1, <1>2, Taken
<1>8. CASE ~(e.name = r /\ Effective(e))
  <2>1. HandKept(r)
    <3>1. CASE e.name # r
      BY <3>1, <1>3, <1>4 DEF HandKept
    <3>2. CASE e.name = r
      BY <3>2, <1>3, <1>8 DEF HandKept, Effective, Skipped, Events
    <3> QED BY <3>1, <3>2
  <2> QED BY <2>1, <1>4, <1>5, <1>6, <1>7, <1>8, Untouched DEF world
<1>9. CASE e.name = r /\ Effective(e)
  <2>1. ASSUME GoneHandled(r), KeepsHome, Traces, obj'[r] = None, <<"deleted", r>> \notin lost'
        PROVE  (Awaits(r) \/ Cleared(r))'
    <3>1. PICK i \in 1..Len(log) : LastWord(i, r) /\ log[i].type = "deleted"
      BY <2>1, <1>4, <1>7, <1>9 DEF GoneHandled, Awaits, Cleared, world
    <3>2. CASE i # 1
      BY <3>1, <3>2, <1>7 DEF Awaits
    <3>3. CASE i = 1
      <4>1. e.type = "deleted" /\ Silent(r)' /\ e.spec \in SpecsOf[r]
        BY <3>1, <3>3, <1>7, <1>9 DEF Events
      <4>2. CASE e.spec.kind \in Offered
        BY <4>1, <4>2, <1>3, <1>9 DEF Cleared
      <4>3. CASE e.spec.kind \notin Offered
        <5>1. ~Leftover(r)
          BY <4>1, <4>3, <2>1, NothingMade
        <5> QED BY <4>1, <4>3, <5>1, <1>3, <1>4, <1>5 DEF Cleared
      <4> QED BY <4>2, <4>3
    <3> QED BY <3>2, <3>3
  <2>2. ASSUME EditHandled(r), ~Refused(r), obj'[r] # None, <<"put", r>> \notin lost',
               r \notin late'
        PROVE  (Seen(r) \/ InHand(r))'
    <3>1. PICK i \in 1..Len(log) :
            LastWord(i, r) /\ log[i].type = "put" /\ log[i].spec = obj[r].spec
      BY <2>2, <1>4, <1>7, <1>9 DEF EditHandled, Seen, Listed, InHand, Reached, world
    <3>2. CASE i # 1
      BY <3>1, <3>2, <1>4, <1>7 DEF Seen, world
    <3>3. CASE i = 1
      <4>1. e.type = "put" /\ e.spec = obj[r].spec /\ Silent(r)' /\ e.spec \in SpecsOf[r]
        BY <3>1, <3>3, <1>7, <1>9 DEF Events
      <4>2. e.state # "ready" /\ e.spec.kind \in Offered
        BY <4>1, <1>9, <2>2 DEF Effective, KeepsKind, Refused
      <4>3. ~Skipped(e)
        BY <4>2 DEF Skipped, Offered
      <4> QED BY <4>1, <4>3, <1>3, <1>4, <1>9 DEF InHand, world
    <3> QED BY <3>2, <3>3
  <2> QED BY <1>6, <2>1, <2>2 DEF GoneHandled, EditHandled, Refused
<1> QED BY <1>8, <1>9

LEMMA ProvisionHandled ==
  ASSUME TypeOK, TypeOK', Rounds, Traces,
         Provisions \/ ProvisionFails \/ ProvisionRefused, NEW r \in Requests
  PROVE  /\ GoneHandled(r) /\ KeepsHome => GoneHandled(r)'
         /\ EditHandled(r) => EditHandled(r)'
         /\ RefusedStays(r) => RefusedStays(r)'
<1>1. /\ ctl.pc = "provision" /\ ctl.name \in Requests /\ ctl.spec \in SpecsOf[ctl.name]
      /\ ctl.spec \in Specs /\ ctl.spec.stores \subseteq Stores
  BY SpecFacts DEF Provisions, ProvisionFails, ProvisionRefused, TypeOK
<1>2. /\ ctl'.pc = "look" /\ ctl'.name = ctl.name /\ ctl'.todo = ctl.todo
      /\ ctl'.to = IF Provisions THEN "ready" ELSE "failed"
  <2>1. Provisions \/ (~Provisions /\ Outcome("failed"))
    BY DEF ProvisionFails, ProvisionRefused
  <2> QED BY <1>1, <2>1 DEF Provisions, Outcome, TypeOK
<1>3. UNCHANGED <<world, log, lost>> /\ LogKept(r)
  BY LogAlike DEF Provisions, ProvisionFails, ProvisionRefused
<1>4. RefusedStays(r) => RefusedStays(r)'
  BY <1>1, <1>2, <1>3 DEF RefusedStays, Refused, world, Provisions
<1>5. CASE r # ctl.name
  <2>1. creds'[r] = creds[r]
    BY <1>1, <1>5 DEF Provisions, ProvisionFails, ProvisionRefused, provisioned, TypeOK
  <2>2. HandKept(r)
    BY <1>2, <1>5 DEF HandKept
  <2>3. KeepsHome => (Leftover(r)' => Leftover(r))
    <3> SUFFICES ASSUME KeepsHome, Leftover(r)' PROVE Leftover(r)
      OBVIOUS
    <3>1. \/ UNCHANGED <<roles, owner>>
          \/ /\ roles' \subseteq roles \cup {ctl.spec.user}
             /\ ctl.spec.kind # "postgres" => roles' \subseteq roles
             /\ \A s \in Stores : s \notin ctl.spec.stores => owner'[s] = owner[s]
      <4>1. CASE Provisions
        BY <4>1 DEF Provisions, Makes
      <4>2. CASE ProvisionFails
        <5>1. PICK made \in SUBSET ctl.spec.stores, role \in BOOLEAN :
                Makes(made, role /\ ctl.spec.kind = "postgres")
          BY <4>2 DEF ProvisionFails
        <5>2. \A s \in Stores : s \notin ctl.spec.stores => owner'[s] = owner[s]
          BY <5>1, <1>1 DEF Makes, TypeOK
        <5> QED BY <5>1, <5>2 DEF Makes
      <4>3. CASE ProvisionRefused
        BY <4>3 DEF ProvisionRefused, provisioned
      <4> QED BY <4>1, <4>2, <4>3
    <3>2. \A t \in SpecsOf[r] : t.user \in roles' => t.user \in roles
      BY <1>1, <1>5, <3>1 DEF KeepsHome
    <3>3. \A t \in SpecsOf[r] : \A s \in t.stores : s \in Stores /\ s \notin ctl.spec.stores
      <4>1. \A t \in SpecsOf[r] : t.stores \cap ctl.spec.stores = {}
        BY <1>1, <1>5, MiddlewareAssumption
      <4> QED BY <4>1, SpecFacts
    <3> QED BY <2>1, <3>1, <3>2, <3>3 DEF Leftover
  <2> QED BY <1>3, <1>4, <2>1, <2>2, <2>3, Untouched DEF world
<1>6. CASE r = ctl.name
  <2>1. GoneHandled(r) => GoneHandled(r)'
    BY <1>1, <1>3, <1>6 DEF GoneHandled, Cleared, Awaits, LogKept, world
  <2>2. Seen(r) => Seen(r)'
    BY <1>3 DEF Seen, LogKept, world
  <2>3. InHand(r) => InHand(r)'
    <3> SUFFICES ASSUME InHand(r) PROVE InHand(r)'
      OBVIOUS
    <3>1. ctl.spec = obj[r].spec /\ Silent(r)' /\ obj' = obj
      BY <1>1, <1>3 DEF InHand, LogKept, world
    <3>2. Provisions => creds'[r] = ctl.spec
      BY <1>6 DEF Provisions, TypeOK
    <3> QED BY <3>1, <3>2, <1>2, <1>6 DEF InHand
  <2>4. ~Listed(r) /\ ~Reached(r)
    BY <1>6 DEF Listed, Reached
  <2> QED BY <1>3, <1>4, <2>1, <2>2, <2>3, <2>4 DEF EditHandled, Refused, world
<1> QED BY <1>5, <1>6

LEMMA StatusHandled ==
  ASSUME TypeOK, TypeOK', Rounds, StatusLooks \/ StatusWrites \/ StatusFails, NEW r \in Requests
  PROVE  /\ GoneHandled(r) => GoneHandled(r)'
         /\ EditHandled(r) => EditHandled(r)'
         /\ RefusedStays(r) => RefusedStays(r)'
<1>1. /\ ctl.pc \in {"look", "write"} /\ ctl.name \in Requests
      /\ UNCHANGED <<provisioned, late>> /\ lost \subseteq lost'
  BY DEF StatusLooks, StatusWrites, StatusFails, world, TypeOK
<1>2. creds'[r] = creds[r] /\ (Leftover(r)' <=> Leftover(r)) /\ (r \in late <=> r \in late')
  BY <1>1, SameLeftover
<1>3. CASE ctl.name # r
  <2>1. obj'[r] = obj[r]
    BY <1>3 DEF StatusLooks, StatusWrites, StatusFails, world, TypeOK
  <2>2. LogKept(r)
    <3>1. CASE log' = log
      BY <3>1, LogAlike
    <3>2. CASE log' # log
      <4>1. PICK o : /\ o = [obj[ctl.name] EXCEPT !.state = ctl.to]
                     /\ log' = Append(log, Event("put", ctl.name, o))
                     /\ obj[ctl.name] # None
        BY <3>2 DEF StatusLooks, StatusWrites, StatusFails, TypeOK
      <4>2. o \in [spec : Specs, state : States] /\ o.spec \in SpecsOf[ctl.name]
        <5>1. obj[ctl.name] \in [spec : Specs, state : States] /\ ctl.to \in States
              /\ obj[ctl.name].spec \in SpecsOf[ctl.name]
          BY <1>1, <4>1 DEF TypeOK
        <5> QED BY <4>1, <5>1
      <4>3. PICK e \in Events : log' = Append(log, e) /\ e.name # r
        <5>1. Event("put", ctl.name, o) \in Events /\ Event("put", ctl.name, o).name # r
          BY <1>1, <1>3, <4>2, EventType DEF Event
        <5> QED BY <4>1, <5>1
      <4> QED BY <4>3, Appended DEF TypeOK
    <3> QED BY <3>1, <3>2
  <2>3. HandKept(r) /\ ctl'.name # r
    <3>1. CASE ctl' = Back(ctl)
      BY <3>1, <1>3, BackFacts, MiddlewareAssumption
    <3>2. CASE ctl' = [ctl EXCEPT !.pc = "write", !.fresh = TRUE]
      BY <3>2, <1>3 DEF HandKept, TypeOK
    <3> QED BY <3>1, <3>2 DEF StatusLooks, StatusWrites, StatusFails
  <2> QED BY <1>1, <1>2, <2>1, <2>2, <2>3, Untouched DEF RefusedStays, Refused
<1>4. ASSUME ctl.name = r, ctl' = Back(ctl), obj'[r] = obj[r], LogKept(r),
             \/ ctl.to # "failed" \/ obj[r] = None \/ <<"put", r>> \in lost'
             \/ ctl.pc = "write" /\ (obj[r].state = "failed" \/ ~ctl.fresh)
      PROVE  /\ GoneHandled(r) => GoneHandled(r)'
             /\ EditHandled(r) => EditHandled(r)'
             /\ RefusedStays(r) => RefusedStays(r)'
  <2>1. ctl'.pc = "next" /\ ctl'.name = None /\ ctl'.todo = ctl.todo /\ None # r
    BY <1>4, BackFacts, MiddlewareAssumption
  <2>2. GoneHandled(r) => GoneHandled(r)'
    BY <1>1, <1>4 DEF GoneHandled, Cleared, Awaits, LogKept
  <2>3. Seen(r) => Seen(r)'
    BY <1>4 DEF Seen, LogKept
  <2>4. InHand(r) /\ <<"put", r>> \notin lost' /\ obj[r] # None => Reached(r)'
    BY <1>1, <1>2, <1>4, <2>1 DEF InHand, Reached, LogKept, Rounds
  <2>5. ~Listed(r) /\ ~Reached(r)
    BY <1>4 DEF Listed, Reached
  <2> QED BY <1>1, <1>2, <1>4, <2>1, <2>2, <2>3, <2>4, <2>5
          DEF EditHandled, RefusedStays, Refused
<1>5. CASE ctl.name = r /\ StatusLooks
  <2>1. UNCHANGED <<obj, lost, log>> /\ LogKept(r)
    BY <1>5, LogAlike DEF StatusLooks, world
  <2>2. CASE obj[r] = None
    BY <1>4, <1>5, <2>1, <2>2 DEF StatusLooks
  <2>3. CASE obj[r] # None
    <3>1. /\ ctl'.pc = "write" /\ ctl'.name = r /\ ctl'.to = ctl.to /\ ctl'.fresh
          /\ ctl'.todo = ctl.todo /\ ctl.pc = "look"
      BY <1>5, <2>3 DEF StatusLooks, TypeOK
    <3>2. Seen(r) => Seen(r)'
      BY <2>1 DEF Seen, LogKept
    <3>3. InHand(r) => InHand(r)'
      BY <1>2, <2>1, <3>1 DEF InHand, LogKept
    <3> QED BY <1>2, <1>5, <2>1, <2>3, <3>1, <3>2, <3>3
            DEF GoneHandled, EditHandled, Listed, Reached, RefusedStays, Refused
  <2> QED BY <2>2, <2>3
<1>6. CASE ctl.name = r /\ StatusFails
  BY <1>4, <1>6, LogAlike DEF StatusFails, world
<1>7. CASE ctl.name = r /\ StatusWrites /\ ~(ctl.fresh /\ obj[r].state # ctl.to)
  <2>1. ctl.to \in States /\ obj'[r] = obj[r] /\ ctl' = Back(ctl) /\ LogKept(r) /\ ctl.pc = "write"
    BY <1>7, LogAlike DEF StatusWrites, TypeOK
  <2> QED BY <1>4, <1>7, <2>1
<1>8. CASE ctl.name = r /\ StatusWrites /\ ctl.fresh /\ obj[r].state # ctl.to
  <2>1. PICK o : o = [obj[r] EXCEPT !.state = ctl.to]
    OBVIOUS
  <2>2. /\ obj[r] \in [spec : Specs, state : States] /\ obj[r].spec \in SpecsOf[r]
        /\ obj[r] # None /\ ctl.to \in States
    BY <1>8 DEF StatusWrites, TypeOK
  <2>3. o \in [spec : Specs, state : States] /\ o.spec = obj[r].spec /\ o.state = ctl.to
    BY <2>1, <2>2
  <2>4. PICK e \in Events : e = Event("put", r, o)
    BY <2>2, <2>3, EventType
  <2>5. e.type = "put" /\ e.name = r /\ e.spec = o.spec /\ e.state = o.state
    BY <2>4 DEF Event
  <2>6. obj'[r] = o /\ o # None /\ log' = Append(log, e) /\ ctl' = Back(ctl)
    <3>1. obj' = [obj EXCEPT ![r] = o] /\ log' = Append(log, e) /\ ctl' = Back(ctl)
      BY <1>8, <2>1, <2>4 DEF StatusWrites
    <3>2. obj \in [Requests -> [spec : Specs, state : States] \cup {None}]
      BY DEF TypeOK
    <3>3. obj'[r] = o BY <3>1, <3>2
    <3>4. o # None BY <2>3, MiddlewareAssumption
    <3> QED BY <3>1, <3>3, <3>4
  <2>7. ctl'.pc = "next" /\ ctl'.name = None /\ ctl'.todo = ctl.todo /\ None # r
    BY <2>6, BackFacts, MiddlewareAssumption
  <2>8. CASE ctl.to # "ready"
    <3>1. Effective(e) /\ log \in Seq(Events)
      BY <2>3, <2>5, <2>8 DEF Effective, TypeOK
    <3>2. Latest(e, r)'
      BY <2>5, <2>6, <3>1, Appended
    <3>3. Seen(r)'
      BY <2>3, <2>5, <2>6, <3>2 DEF Latest, Seen
    <3> QED BY <2>3, <2>6, <2>7, <2>8, <3>3 DEF GoneHandled, EditHandled, RefusedStays
  <2>9. CASE ctl.to = "ready"
    <3>1. LogKept(r)
      <4>1. ~Effective(e) /\ log \in Seq(Events)
        BY <2>3, <2>5, <2>9 DEF Effective, TypeOK
      <4> QED BY <2>6, <4>1, Appended
    <3>2. Seen(r) => Seen(r)'
      BY <2>3, <2>6, <3>1 DEF Seen, LogKept
    <3>3. InHand(r) => Reached(r)'
      BY <1>1, <1>2, <1>8, <2>3, <2>6, <2>7, <2>9, <3>1 DEF InHand, Reached, LogKept, Rounds, StatusWrites
    <3>4. ~Listed(r) /\ ~Reached(r)
      BY <1>8 DEF Listed, Reached
    <3>5. RefusedStays(r) => ~Refused(r)
      BY <1>1, <1>8, <2>9 DEF RefusedStays
    <3> QED BY <1>1, <1>2, <2>2, <2>6, <2>7, <3>2, <3>3, <3>4, <3>5
            DEF GoneHandled, EditHandled, RefusedStays, Refused
  <2> QED BY <2>8, <2>9
<1> QED BY <1>3, <1>5, <1>6, <1>7, <1>8

LEMMA DropHandled ==
  ASSUME TypeOK, TypeOK', Rounds, Rounds', Traces, Drops \/ DropFails, NEW r \in Requests
  PROVE  /\ GoneHandled(r) /\ KeepsHome => GoneHandled(r)'
         /\ EditHandled(r) => EditHandled(r)'
         /\ RefusedStays(r) => RefusedStays(r)'
<1>1. /\ ctl.pc = "drop" /\ ctl.name \in Requests /\ ctl.spec \in SpecsOf[ctl.name]
      /\ ctl' = Back(ctl) /\ UNCHANGED <<world, log>> /\ lost \subseteq lost'
  BY DEF Drops, DropFails, TypeOK
<1>2. ctl'.pc = "next" /\ ctl'.name = None /\ ctl'.todo = ctl.todo /\ None # r
  BY <1>1, BackFacts, MiddlewareAssumption
<1>3. LogKept(r)
  BY <1>1, LogAlike
<1>4. RefusedStays(r) => RefusedStays(r)'
  BY <1>1, <1>2 DEF RefusedStays, Refused, world
<1>5. /\ \A s \in Stores : owner'[s] # None => owner[s] # None
      /\ roles' \subseteq roles
  BY DEF Drops, DropsAll, DropFails
<1>6. CASE r # ctl.name
  <2>1. creds'[r] = creds[r]
    BY <1>6, DropType
  <2>2. \A spec \in SpecsOf[r] : spec.stores \subseteq Stores
    BY SpecFacts
  <2>3. Leftover(r)' => Leftover(r)
    BY <1>5, <2>1, <2>2 DEF Leftover
  <2>4. HandKept(r)
    BY <1>1, <1>6, BackFacts
  <2> QED BY <1>1, <1>3, <1>4, <2>1, <2>3, <2>4, Untouched DEF world
<1>7. CASE r = ctl.name
  <2>1. Seen(r) => Seen(r)'
    BY <1>1, <1>3 DEF Seen, LogKept, world
  <2>2. EditHandled(r) => EditHandled(r)'
    BY <1>1, <1>7, <2>1 DEF EditHandled, Listed, InHand, Reached, Refused, world
  <2>3. ASSUME Drops, KeepsHome PROVE ~Leftover(r)'
    <3>1. creds'[r] = None
      BY <2>3, <1>1, <1>7 DEF Drops, TypeOK
    <3>2. \A spec \in SpecsOf[r] : /\ spec.stores = ctl.spec.stores /\ spec.user = ctl.spec.user
                                   /\ spec.stores \subseteq Stores
      BY <1>1, <1>7, <2>3, SpecFacts DEF KeepsHome
    <3>3. \A s \in Stores : owner'[s] = IF s \in ctl.spec.stores THEN None ELSE owner[s]
      BY <2>3 DEF Drops, DropsAll
    <3>4. ctl.spec.user \notin roles'
      <4>1. CASE ctl.spec.kind = "postgres"
        <5>1. ASSUME NEW s \in Stores, owner'[s] = ctl.spec.user PROVE FALSE
          <6>1. s \notin ctl.spec.stores /\ owner[s] = ctl.spec.user /\ owner[s] # None
            BY <5>1, <3>3, <1>1, SpecFacts, MiddlewareAssumption
          <6>2. PICK o \in Requests, p \in Specs : p \in SpecsOf[o] /\ Made(s, p)
            BY <6>1, SpecFacts DEF Traces
          <6>3. p.user = ctl.spec.user /\ s \in p.stores
            BY <6>1, <6>2 DEF Made
          <6>4. o = r
            BY <6>2, <6>3, <4>1, <1>1, <1>7, <2>3, HomeFacts
          <6> QED BY <6>1, <6>2, <6>3, <6>4, <3>2
        <5> QED BY <5>1, <4>1, <2>3 DEF Drops, DropsAll
      <4>2. CASE ctl.spec.kind # "postgres"
        <5> SUFFICES ASSUME ctl.spec.user \in roles PROVE FALSE
          BY <1>5
        <5>1. PICK o \in Requests, p \in Specs :
                p \in SpecsOf[o] /\ p.kind = "postgres" /\ p.user = ctl.spec.user
          BY SpecFacts DEF Traces
        <5>2. CASE o = r
          BY <5>1, <5>2, <4>2, <1>1, <1>7, <2>3, HomeFacts DEF Offered
        <5>3. CASE o # r
          BY <5>1, <5>3, <1>1, <1>7, <2>3 DEF KeepsHome
        <5> QED BY <5>2, <5>3
      <4> QED BY <4>1, <4>2
    <3> QED BY <3>1, <3>2, <3>3, <3>4 DEF Leftover
  <2>4. Awaits(r) => Awaits(r)'
    BY <1>3 DEF Awaits, LogKept
  <2>5. CASE Drops
    BY <1>1, <1>2, <1>3, <1>4, <1>7, <2>2, <2>3, <2>4, <2>5 DEF GoneHandled, Cleared, LogKept, Rounds, world
  <2>6. CASE DropFails
    BY <1>4, <1>7, <2>2, <2>6 DEF GoneHandled, DropFails
  <2> QED BY <2>5, <2>6
<1> QED BY <1>6, <1>7

LEMMA ResetHandled ==
  ASSUME TypeOK, TypeOK', Rounds, Rounds', WatchEnds \/ Restarts, NEW r \in Requests
  PROVE  /\ GoneHandled(r) => GoneHandled(r)'
         /\ EditHandled(r) => EditHandled(r)'
         /\ RefusedStays(r) => RefusedStays(r)'
<1>1. /\ ctl' = Outside /\ log' = <<>> /\ UNCHANGED <<world, provisioned>>
      /\ lost \subseteq lost' /\ Undelivered \subseteq lost' /\ None # r
  BY MiddlewareAssumption DEF WatchEnds, Restarts
<1>2. creds'[r] = creds[r] /\ (Leftover(r)' <=> Leftover(r))
  BY <1>1, SameLeftover
<1>3. ctl'.pc = "list" /\ ctl'.name = None /\ ctl'.todo = {} /\ Silent(r)'
  BY <1>1 DEF Outside, Idle, Silent
<1>4. ctl.name = r => IF ctl.pc = "drop" THEN <<"deleted", r>> \in lost' ELSE <<"put", r>> \in lost'
  BY <1>1 DEF WatchEnds, Restarts, Rounds
<1>5. \A i \in 1..Len(log) : LastWord(i, r) => <<log[i].type, r>> \in lost'
  BY <1>1 DEF Undelivered, LastWord, TypeOK
<1>6. GoneHandled(r) => GoneHandled(r)'
  BY <1>1, <1>2, <1>3, <1>4, <1>5 DEF GoneHandled, Awaits, Cleared, world
<1>7. Seen(r) \/ InHand(r) => <<"put", r>> \in lost'
  BY <1>4, <1>5 DEF Seen, InHand
<1>8. Listed(r) \/ Reached(r) => Reached(r)'
  BY <1>1, <1>2, <1>3 DEF Listed, Reached, world
<1>9. EditHandled(r) => EditHandled(r)'
  BY <1>1, <1>7, <1>8 DEF EditHandled, Refused, world
<1>10. RefusedStays(r) => RefusedStays(r)'
  BY <1>1, <1>3 DEF RefusedStays, Refused, world
<1> QED BY <1>6, <1>9, <1>10

LEMMA StillHandled ==
  ASSUME UNCHANGED vars, NEW r \in Requests
  PROVE  /\ GoneHandled(r) => GoneHandled(r)'
         /\ EditHandled(r) => EditHandled(r)'
         /\ RefusedStays(r) => RefusedStays(r)'
BY SameLeftover DEF vars, world, GoneHandled, EditHandled, RefusedStays, Awaits, Cleared, Seen,
   Listed, InHand, Reached, Silent, LastWord, provisioned, Refused

LEMMA HandledStep ==
  ASSUME TypeOK, TypeOK', Rounds, Traces, KeepsKind, [Next]_vars, NEW r \in Requests
  PROVE  /\ GoneHandled(r) /\ KeepsHome => GoneHandled(r)'
         /\ EditHandled(r) => EditHandled(r)'
         /\ RefusedStays(r) => RefusedStays(r)'
<1>1. Rounds' BY RoundsStep
<1>2. CASE UNCHANGED vars BY <1>2, StillHandled
<1>3. CASE UserActs BY <1>1, <1>3, UserHandled DEF UserActs
<1>4. CASE Lists BY <1>4, ListsHandled
<1>5. CASE TakesListed BY <1>5, TakesListedHandled
<1>6. CASE TakesEvent BY <1>6, TakesEventHandled
<1>7. CASE Provisions \/ ProvisionFails \/ ProvisionRefused BY <1>7, ProvisionHandled
<1>8. CASE StatusLooks \/ StatusWrites \/ StatusFails BY <1>8, StatusHandled
<1>9. CASE Drops \/ DropFails BY <1>1, <1>9, DropHandled
<1>10. CASE WatchEnds \/ Restarts BY <1>1, <1>10, ResetHandled
<1> QED BY <1>2, <1>3, <1>4, <1>5, <1>6, <1>7, <1>8, <1>9, <1>10 DEF Next, Works

Groundwork == TypeOK /\ Rounds /\ Traces

LEMMA GroundworkHolds == Spec => []Groundwork
<1>1. Init => Rounds /\ Traces
  BY DEF Init, Rounds, Traces, Outside, Idle
<1>2. TypeOK /\ TypeOK' /\ Rounds /\ Traces /\ [Next]_vars => Rounds' /\ Traces'
  BY RoundsStep, TracesStep
<1> QED BY <1>1, <1>2, MiddlewareTypes, PTL DEF Spec, Groundwork

LEMMA HandledAtFirst ==
  ASSUME Init, NEW r \in Requests
  PROVE  GoneHandled(r) /\ EditHandled(r) /\ RefusedStays(r)
<1>1. obj[r] = None /\ ctl.name = None /\ ctl.todo = {} /\ log = <<>> /\ None # r
  BY MiddlewareAssumption DEF Init, Outside, Idle
<1>2. \A spec \in SpecsOf[r] : spec.stores \subseteq Stores
  BY SpecFacts
<1>3. ~Leftover(r)
  BY <1>2 DEF Init, Leftover
<1> QED BY <1>1, <1>3 DEF GoneHandled, EditHandled, RefusedStays, Cleared, Silent

\* handleDelete and what comes before it: wherever a request's creation, edits and
\* deletion meet the controller's round, its list and its watch, the last word it
\* hears of a deleted request is the deletion, and what that drops is all there was.
THEOREM GoneDropped == KeepsHome => (Spec => []GoneIsDropped)
<1> SUFFICES ASSUME KeepsHome PROVE Spec => []GoneIsDropped
  OBVIOUS
<1> DEFINE Inv == \A r \in Requests : GoneHandled(r)
<1>1. KeepsKind
  BY DEF KeepsHome, KeepsKind
<1>2. Init => Inv
  BY HandledAtFirst
<1>3. Groundwork /\ Groundwork' /\ Inv /\ [Next]_vars => Inv'
  BY <1>1, HandledStep DEF Groundwork
<1>4. Groundwork /\ Inv => GoneIsDropped
  BY MiddlewareAssumption
     DEF Groundwork, Rounds, GoneHandled, Awaits, Cleared, GoneIsDropped, Settled
<1> QED BY <1>2, <1>3, <1>4, GroundworkHolds, PTL DEF Spec

\* handleCreateOrUpdate and updateStatus: "ready" is only ever kept by the last
\* spec provisioned, or while the controller still has to hear of a newer one,
\* through conflicts, refused writes, lists and names that are used again.
THEOREM EditsReach == KeepsKind => (Spec => []EditsReachApp)
<1> SUFFICES ASSUME KeepsKind PROVE Spec => []EditsReachApp
  OBVIOUS
<1> DEFINE Inv == \A r \in Requests : EditHandled(r) /\ RefusedStays(r)
<1>1. Init => Inv
  BY HandledAtFirst
<1>2. Groundwork /\ Groundwork' /\ Inv /\ [Next]_vars => Inv'
  BY HandledStep DEF Groundwork
<1>3. Groundwork /\ Inv => EditsReachApp
  BY MiddlewareAssumption
     DEF Groundwork, Rounds, EditHandled, RefusedStays, Seen, Listed, InHand, Reached,
         EditsReachApp, Settled
<1> QED BY <1>1, <1>2, <1>3, GroundworkHolds, PTL DEF Spec

-----------------------------------------------------------------------------
(* "ready" can be trusted: names that are used again *)

\* The goroutine will hear of the request, meets it in the list, is at work on it,
\* or has nothing more to do for it.
Renewed(r) == \E i \in 1..Len(log) : LastWord(i, r) /\ log[i].type = "put"
Relisted(r) ==
  /\ Silent(r) /\ ctl.name # r
  /\ obj[r].state # "ready"
  /\ \E o \in ctl.todo : o.name = r /\ o.state # "ready"
AtWork(r) ==
  /\ Silent(r) /\ ctl.name = r
  /\ ctl.pc = "provision" \/ (ctl.pc \in {"look", "write"} /\ Provisioned(r))
Kept(r) ==
  /\ Silent(r) /\ ctl.name # r
  /\ \A o \in ctl.todo : o.name = r => o.state = "ready"
  /\ obj[r].state = "ready" => Provisioned(r)
ReadyHandled(r) ==
  obj[r] # None /\ <<"put", r>> \notin lost /\ faults = 0 =>
    Refused(r) \/ Renewed(r) \/ Relisted(r) \/ AtWork(r) \/ Kept(r)

\* A step that is not about a request leaves it as ready as it was.
LEMMA LeftReady ==
  ASSUME NEW r \in Requests, obj'[r] = obj[r], lost \subseteq lost', faults' = 0 => faults = 0,
         Provisioned(r) => Provisioned(r)', LogKept(r), HandKept(r), ReadyHandled(r)
  PROVE  ReadyHandled(r)'
<1>1. Renewed(r) => Renewed(r)'
  BY DEF Renewed, LogKept
<1>2. Relisted(r) => Relisted(r)'
  BY DEF Relisted, LogKept, HandKept
<1>3. AtWork(r) => AtWork(r)'
  BY DEF AtWork, LogKept, HandKept
<1>4. Kept(r) => Kept(r)'
  BY DEF Kept, LogKept, HandKept
<1> QED BY <1>1, <1>2, <1>3, <1>4 DEF ReadyHandled, Refused

LEMMA SameProvisions ==
  ASSUME UNCHANGED provisioned, NEW r \in Requests
  PROVE  Provisioned(r)' <=> Provisioned(r)
BY DEF provisioned, Provisioned

LEMMA UserReady ==
  ASSUME TypeOK, TypeOK', Rounds, Rounds', NEW x \in Requests,
         Creates(x) \/ Edits(x) \/ Deletes(x), NEW r \in Requests, ReadyHandled(r)
  PROVE  ReadyHandled(r)'
<1>1. /\ lost \subseteq lost' /\ faults' = faults /\ (Provisioned(r)' <=> Provisioned(r))
      /\ ctl'.pc = ctl.pc /\ ctl'.name = ctl.name /\ ctl'.todo = ctl.todo
  BY UserFacts, SameProvisions DEF Creates, Edits, Deletes
<1>2. CASE r # x
  <2>1. HandKept(r) /\ obj'[r] = obj[r]
    BY <1>2, UserFacts DEF HandKept
  <2>2. LogKept(r)
    <3>1. CASE log' = log
      BY <3>1, LogAlike
    <3>2. CASE log' # log
      <4>1. PICK e \in Events : log' = Append(log, e) /\ e.name = x
        BY <3>2, UserFacts
      <4> QED BY <4>1, <1>2, Appended DEF TypeOK
    <3> QED BY <3>1, <3>2
  <2> QED BY <1>1, <2>1, <2>2, LeftReady
<1>3. CASE r = x /\ Creates(r)
  <2>1. PICK spec \in SpecsOf[r] :
          /\ obj' = [obj EXCEPT ![r] = [spec |-> spec, state |-> "new"]]
          /\ Logged(Event("put", r, [spec |-> spec, state |-> "new"]))
    BY <1>3 DEF Creates
  <2>2. obj'[r].state = "new"
    BY <2>1 DEF TypeOK
  <2>3. CASE ctl.pc = "list"
    <3>1. Kept(r)'
      BY <2>2, <2>3, <1>1, MiddlewareAssumption DEF Kept, Rounds, Silent
    <3> QED BY <3>1 DEF ReadyHandled
  <2>4. CASE ctl.pc # "list"
    <3>1. PICK e : e = Event("put", r, [spec |-> spec, state |-> "new"])
      OBVIOUS
    <3>2. e.type = "put" /\ e.name = r /\ e.state = "new" /\ e \in Events
      BY <3>1, EventType, SpecFacts DEF Event, States
    <3>3. log' = Append(log, e)
      BY <2>1, <2>4, <3>1 DEF Logged
    <3>4. Effective(e) /\ log \in Seq(Events)
      BY <3>2 DEF Effective, TypeOK
    <3>5. Latest(e, r)'
      BY <3>2, <3>3, <3>4, Appended
    <3>6. Renewed(r)'
      BY <3>2, <3>5 DEF Latest, Renewed
    <3> QED BY <3>6 DEF ReadyHandled
  <2> QED BY <2>3, <2>4
<1>4. CASE r = x /\ Edits(r)
  <2>1. PICK spec \in SpecsOf[r] :
          /\ obj' = [obj EXCEPT ![r].spec = spec]
          /\ Logged(Event("put", r, [obj[r] EXCEPT !.spec = spec]))
    BY <1>4 DEF Edits
  <2>2. obj[r] \in [spec : Specs, state : States] /\ obj[r] # None
    BY <1>4 DEF Edits, TypeOK
  <2>3. obj'[r].state = obj[r].state
    BY <2>1, <2>2 DEF TypeOK
  <2>4. PICK e : e = Event("put", r, [obj[r] EXCEPT !.spec = spec])
    OBVIOUS
  <2>5. e.type = "put" /\ e.name = r /\ e.state = obj[r].state /\ e \in Events
    <3>1. [obj[r] EXCEPT !.spec = spec] \in [spec : Specs, state : States]
          /\ [obj[r] EXCEPT !.spec = spec].spec = spec
      BY <2>2, SpecFacts
    <3> QED BY <2>2, <2>4, <3>1, EventType DEF Event
  <2>6. CASE log' = log
    <3>1. Silent(r) <=> Silent(r)'
      BY <2>6 DEF Silent
    <3>2. Renewed(r) => Renewed(r)'
      BY <2>6 DEF Renewed, LastWord
    <3> QED BY <1>1, <2>2, <2>3, <3>1, <3>2 DEF ReadyHandled, Refused, Relisted, AtWork, Kept
  <2>7. CASE log' = Append(log, e) /\ obj[r].state = "ready"
    <3>1. LogKept(r)
      <4>1. ~Effective(e) /\ log \in Seq(Events)
        BY <2>5, <2>7 DEF Effective, TypeOK
      <4> QED BY <2>5, <2>7, <4>1, Appended
    <3>2. Renewed(r) => Renewed(r)'
      BY <3>1 DEF Renewed, LogKept
    <3> QED BY <1>1, <2>2, <2>3, <3>1, <3>2
            DEF ReadyHandled, Refused, Relisted, AtWork, Kept, LogKept
  <2>8. CASE log' = Append(log, e) /\ obj[r].state # "ready"
    <3>1. Effective(e) /\ log \in Seq(Events)
      BY <2>5, <2>8 DEF Effective, TypeOK
    <3>2. Latest(e, r)'
      BY <2>5, <2>8, <3>1, Appended
    <3>3. Renewed(r)'
      BY <2>5, <3>2 DEF Latest, Renewed
    <3> QED BY <3>3 DEF ReadyHandled
  <2> QED BY <2>1, <2>4, <2>6, <2>7, <2>8 DEF Logged
<1>5. CASE r = x /\ Deletes(r)
  <2>1. obj'[r] = None
    BY <1>5 DEF Deletes, TypeOK
  <2> QED BY <2>1 DEF ReadyHandled
<1> QED BY <1>2, <1>3, <1>4, <1>5

LEMMA ListsReady ==
  ASSUME TypeOK, Rounds, Lists, NEW r \in Requests, ReadyHandled(r)
  PROVE  ReadyHandled(r)'
<1> DEFINE entry(x) == [name |-> x, spec |-> obj[x].spec, state |-> obj[x].state]
           listed == {entry(x) : x \in {y \in Requests : obj[y] # None}}
<1>1. ctl'.todo = listed /\ ctl'.name = None
  BY DEF Lists, Idle
<1>2. /\ \A o \in listed : o.name = r => o = entry(r)
      /\ obj[r] # None => entry(r) \in listed
      /\ entry(r).name = r /\ entry(r).state = obj[r].state
  OBVIOUS
<1> HIDE DEF listed, entry
<1>3. /\ obj' = obj /\ UNCHANGED <<lost, faults, log>> /\ UNCHANGED provisioned
      /\ ctl.name = None /\ ctl.todo = {} /\ None # r
  BY MiddlewareAssumption DEF Lists, world, Rounds
<1>4. (Silent(r)' <=> Silent(r)) /\ (Provisioned(r)' <=> Provisioned(r))
  BY <1>3, SameProvisions DEF Silent
<1>5. Renewed(r) => Renewed(r)'
  BY <1>3 DEF Renewed, LastWord
<1>6. Kept(r) /\ obj[r] # None => Relisted(r)' \/ Kept(r)'
  BY <1>1, <1>2, <1>3, <1>4 DEF Kept, Relisted
<1> QED BY <1>3, <1>5, <1>6 DEF ReadyHandled, Relisted, AtWork, Refused

LEMMA TakesListedReady ==
  ASSUME TypeOK, Rounds, KeepsKind, TakesListed, NEW r \in Requests, ReadyHandled(r)
  PROVE  ReadyHandled(r)'
<1>1. PICK o \in ctl.todo : ctl' = Handles(o, [ctl EXCEPT !.todo = @ \ {o}])
  BY DEF TakesListed
<1>2. /\ ctl'.todo = ctl.todo \ {o} /\ ctl.pc = "next" /\ ctl.name = None
      /\ IF Skipped(o) THEN ctl'.pc = "next" /\ ctl'.name = None
         ELSE ctl'.pc = "provision" /\ ctl'.name = o.name
  BY <1>1 DEF TakesListed, Handles, TypeOK, Rounds
<1>3. obj' = obj /\ UNCHANGED <<provisioned, log, lost, faults>> /\ None # r
  BY MiddlewareAssumption DEF TakesListed, world
<1>4. (Provisioned(r)' <=> Provisioned(r)) /\ LogKept(r)
  BY <1>3, SameProvisions, LogAlike
<1>5. CASE o.name # r
  <2>1. HandKept(r)
    BY <1>2, <1>3, <1>5 DEF HandKept
  <2> QED BY <1>3, <1>4, <2>1, LeftReady
<1>6. CASE o.name = r
  <2>1. Renewed(r) => Renewed(r)'
    BY <1>4 DEF Renewed, LogKept
  <2>2. Relisted(r) => Refused(r) \/ AtWork(r)'
    <3> SUFFICES ASSUME Relisted(r), ~Refused(r) PROVE AtWork(r)'
      OBVIOUS
    <3>1. o.state # "ready"
      BY <1>6 DEF Relisted, Rounds
    <3>2. o.spec.kind \in Offered
      BY <1>6, TodoNames DEF KeepsKind, Refused
    <3>3. ~Skipped(o)
      BY <3>1, <3>2 DEF Skipped, Offered
    <3> QED BY <3>3, <1>2, <1>4, <1>6 DEF Relisted, AtWork, LogKept
  <2>3. ~AtWork(r)
    BY <1>2, <1>3 DEF AtWork
  <2>4. Kept(r) => Kept(r)'
    BY <1>2, <1>3, <1>4, <1>6 DEF Kept, LogKept, Skipped
  <2> QED BY <1>3, <2>1, <2>2, <2>3, <2>4 DEF ReadyHandled, Refused
<1> QED BY <1>5, <1>6

LEMMA TakesEventReady ==
  ASSUME TypeOK, TypeOK', Rounds, KeepsKind, TakesEvent, NEW r \in Requests, ReadyHandled(r)
  PROVE  ReadyHandled(r)'
<1>1. PICK e \in Events : e = Head(log)
  BY DEF TakesEvent, TypeOK
<1>2. /\ log \in Seq(Events) /\ log # <<>> /\ log' = Tail(log)
      /\ ctl' = IF e.type = "put" THEN Handles(e, ctl)
                ELSE IF e.spec.kind \in Offered THEN Doing("drop", e) ELSE ctl
  BY <1>1 DEF TakesEvent, TypeOK
<1>3. /\ ctl'.todo = {} /\ ctl.todo = {} /\ ctl.pc = "next" /\ ctl.name = None
      /\ e.type = "put" /\ ~Skipped(e) => ctl'.pc = "provision" /\ ctl'.name = e.name
      /\ e.type = "put" /\ Skipped(e) => ctl' = ctl
      /\ ctl'.name \in {None, e.name}
  <2>1. ctl.todo = {} /\ ctl.pc = "next" /\ ctl.name = None /\ ctl \in Controls
    BY DEF TakesEvent, TypeOK, Controls, Rounds
  <2>2. CASE ctl' = [ctl EXCEPT !.pc = "provision", !.name = e.name, !.spec = e.spec]
               /\ e.type = "put" /\ ~Skipped(e)
    BY <2>1, <2>2 DEF Controls
  <2>3. CASE ctl' = [ctl EXCEPT !.pc = "drop", !.name = e.name, !.spec = e.spec]
               /\ e.type # "put"
    BY <2>1, <2>3 DEF Controls
  <2>4. CASE ctl' = ctl /\ ~(e.type = "put" /\ ~Skipped(e))
    BY <2>1, <2>4
  <2> QED BY <1>2, <2>2, <2>3, <2>4 DEF Handles, Doing
<1>4. obj' = obj /\ UNCHANGED <<provisioned, lost, faults>> /\ None # r
  BY MiddlewareAssumption DEF TakesEvent, world
<1>5. Provisioned(r)' <=> Provisioned(r)
  BY <1>4, SameProvisions
<1>6. /\ log[1] = e /\ 1 \in 1..Len(log)
      /\ ~(e.name = r /\ Effective(e)) => LogKept(r)
      /\ LastWord(1, r) => Silent(r)'
      /\ \A i \in 1..Len(log) : LastWord(i, r) /\ i # 1 =>
           \E k \in 1..Len(log') : LastWord(k, r)' /\ log'[k] = log[i]
      /\ Silent(r) => ~(e.name = r /\ Effective(e))
  BY <1>1, <1>2, Taken
<1>7. CASE ~(e.name = r /\ Effective(e))
  <2>1. HandKept(r)
    <3>1. CASE e.name # r
      BY <3>1, <1>3, <1>4 DEF HandKept
    <3>2. CASE e.name = r
      BY <3>2, <1>3, <1>7 DEF HandKept, Effective, Skipped, Events
    <3> QED BY <3>1, <3>2
  <2> QED BY <2>1, <1>4, <1>5, <1>6, <1>7, LeftReady
<1>8. CASE e.name = r /\ Effective(e)
  <2> SUFFICES ASSUME ~Refused(r), Renewed(r)
               PROVE  Renewed(r)' \/ AtWork(r)'
    BY <1>4, <1>6, <1>8 DEF ReadyHandled, Refused, Relisted, AtWork, Kept
  <2>1. PICK i \in 1..Len(log) : LastWord(i, r) /\ log[i].type = "put"
    BY DEF Renewed
  <2>2. CASE i # 1
    BY <2>1, <2>2, <1>6 DEF Renewed
  <2>3. CASE i = 1
    <3>1. e.type = "put" /\ Silent(r)' /\ e.spec \in SpecsOf[r]
      BY <2>1, <2>3, <1>6, <1>8 DEF Events
    <3>2. ~Skipped(e)
      BY <3>1, <1>8 DEF Effective, KeepsKind, Refused, Skipped, Offered
    <3> QED BY <3>1, <3>2, <1>3, <1>8 DEF AtWork
  <2> QED BY <2>2, <2>3
<1> QED BY <1>7, <1>8

LEMMA ProvisionReady ==
  ASSUME TypeOK, Rounds, KeepsKind, Provisions \/ ProvisionFails \/ ProvisionRefused,
         NEW r \in Requests, ReadyHandled(r)
  PROVE  ReadyHandled(r)'
<1>1. /\ ctl.pc = "provision" /\ ctl.name \in Requests /\ ctl.spec \in SpecsOf[ctl.name]
      /\ faults \in Nat
  BY DEF Provisions, ProvisionFails, ProvisionRefused, TypeOK
<1>2. ctl'.pc = "look" /\ ctl'.name = ctl.name /\ ctl'.todo = ctl.todo
  BY DEF Provisions, ProvisionFails, ProvisionRefused, Outcome, TypeOK
<1>3. obj' = obj /\ UNCHANGED <<log, lost>> /\ LogKept(r) /\ (faults' = 0 => faults = 0)
  BY <1>1, LogAlike DEF Provisions, ProvisionFails, ProvisionRefused, world, Fails
<1>4. Provisioned(r) => Provisioned(r)'
  BY ProvisionKeeps
<1>5. CASE r # ctl.name
  <2>1. HandKept(r)
    BY <1>2, <1>5 DEF HandKept
  <2> QED BY <1>3, <1>4, <2>1, LeftReady
<1>6. CASE r = ctl.name
  <2>1. Renewed(r) => Renewed(r)'
    BY <1>3 DEF Renewed, LogKept
  <2>2. ~Relisted(r) /\ ~Kept(r)
    BY <1>6 DEF Relisted, Kept
  <2>3. AtWork(r) /\ faults' = 0 => Refused(r) \/ AtWork(r)'
    <3> SUFFICES ASSUME AtWork(r), faults' = 0, ~Refused(r) PROVE AtWork(r)'
      OBVIOUS
    <3>1. Provisions
      BY <1>1, <1>6 DEF ProvisionFails, ProvisionRefused, Fails, KeepsKind, Refused, Offered
    <3>2. ctl'.to = "ready"
      BY <3>1 DEF Provisions, Outcome, TypeOK
    <3>3. Provisioned(r)'
      BY <3>2, <1>2, <1>6, ProvisionKeeps DEF Provisioned
    <3> QED BY <3>3, <1>2, <1>3, <1>6 DEF AtWork, LogKept
  <2> QED BY <1>3, <2>1, <2>2, <2>3 DEF ReadyHandled, Refused
<1> QED BY <1>5, <1>6

LEMMA StatusReady ==
  ASSUME TypeOK, TypeOK', Rounds, StatusLooks \/ StatusWrites \/ StatusFails,
         NEW r \in Requests, ReadyHandled(r)
  PROVE  ReadyHandled(r)'
<1>1. /\ ctl.pc \in {"look", "write"} /\ ctl.name \in Requests /\ faults \in Nat
      /\ lost \subseteq lost' /\ (Provisioned(r)' <=> Provisioned(r))
      /\ (faults' = 0 => faults = 0 /\ ~StatusFails)
  BY SameProvisions DEF StatusLooks, StatusWrites, StatusFails, Fails, TypeOK
<1>2. CASE ctl.name # r
  <2>1. obj'[r] = obj[r]
    BY <1>2 DEF StatusLooks, StatusWrites, StatusFails, world, TypeOK
  <2>2. LogKept(r)
    <3>1. CASE log' = log
      BY <3>1, LogAlike
    <3>2. CASE log' # log
      <4>1. PICK o : /\ o = [obj[ctl.name] EXCEPT !.state = ctl.to]
                     /\ log' = Append(log, Event("put", ctl.name, o))
                     /\ obj[ctl.name] # None
        BY <3>2 DEF StatusLooks, StatusWrites, StatusFails, TypeOK
      <4>2. o \in [spec : Specs, state : States] /\ o.spec \in SpecsOf[ctl.name]
        <5>1. obj[ctl.name] \in [spec : Specs, state : States] /\ ctl.to \in States
              /\ obj[ctl.name].spec \in SpecsOf[ctl.name]
          BY <1>1, <4>1 DEF TypeOK
        <5> QED BY <4>1, <5>1
      <4>3. PICK e \in Events : log' = Append(log, e) /\ e.name # r
        <5>1. Event("put", ctl.name, o) \in Events /\ Event("put", ctl.name, o).name # r
          BY <1>1, <1>2, <4>2, EventType DEF Event
        <5> QED BY <4>1, <5>1
      <4> QED BY <4>3, Appended DEF TypeOK
    <3> QED BY <3>1, <3>2
  <2>3. HandKept(r)
    <3>1. CASE ctl' = Back(ctl)
      BY <3>1, <1>2, BackFacts
    <3>2. CASE ctl' = [ctl EXCEPT !.pc = "write", !.fresh = TRUE]
      BY <3>2, <1>2 DEF HandKept, TypeOK
    <3> QED BY <3>1, <3>2 DEF StatusLooks, StatusWrites, StatusFails
  <2> QED BY <1>1, <2>1, <2>2, <2>3, LeftReady
<1>3. CASE ctl.name = r /\ StatusFails
  BY <1>1, <1>3 DEF ReadyHandled
<1>4. ctl.name = r => ~Relisted(r) /\ ~Kept(r)
  BY DEF Relisted, Kept
<1>5. CASE ctl.name = r /\ StatusLooks
  <2>1. UNCHANGED <<obj, lost, log>> /\ LogKept(r)
    BY <1>5, LogAlike DEF StatusLooks, world
  <2>2. CASE obj[r] = None
    BY <2>1, <2>2 DEF ReadyHandled
  <2>3. CASE obj[r] # None
    <3>1. ctl'.pc = "write" /\ ctl'.name = r
      BY <1>5, <2>3 DEF StatusLooks, TypeOK
    <3>2. Renewed(r) => Renewed(r)'
      BY <2>1 DEF Renewed, LogKept
    <3>3. AtWork(r) => AtWork(r)'
      BY <1>1, <2>1, <3>1 DEF AtWork, LogKept
    <3> QED BY <1>1, <1>4, <1>5, <2>1, <3>2, <3>3 DEF ReadyHandled, Refused
  <2> QED BY <2>2, <2>3
<1>6. CASE ctl.name = r /\ StatusWrites
  <2>1. ctl' = Back(ctl) /\ UNCHANGED lost
    BY <1>6 DEF StatusWrites
  <2>2. ctl'.pc = "next" /\ ctl'.name = None /\ ctl'.todo = ctl.todo /\ None # r
    BY <2>1, BackFacts, MiddlewareAssumption
  <2>3. AtWork(r) /\ Silent(r)' => Kept(r)'
    BY <1>1, <1>6, <2>2 DEF AtWork, Kept, Rounds
  <2>4. CASE obj[r] = None
    BY <1>6, <2>4 DEF StatusWrites, ReadyHandled, TypeOK
  <2>5. CASE UNCHANGED log /\ obj'[r] = obj[r]
    <3>1. LogKept(r)
      BY <2>5, LogAlike
    <3>2. Renewed(r) => Renewed(r)'
      BY <3>1 DEF Renewed, LogKept
    <3>3. AtWork(r) => Kept(r)'
      BY <2>3, <3>1 DEF AtWork, LogKept
    <3> QED BY <1>1, <1>4, <1>6, <2>1, <2>5, <3>2, <3>3 DEF ReadyHandled, Refused
  <2>6. CASE obj[r] # None /\ ctl.fresh /\ obj[r].state # ctl.to
    <3>1. PICK o : o = [obj[r] EXCEPT !.state = ctl.to]
      OBVIOUS
    <3>2. /\ obj[r] \in [spec : Specs, state : States] /\ obj[r].spec \in SpecsOf[r]
          /\ ctl.to \in States
      BY <2>6 DEF TypeOK
    <3>3. o \in [spec : Specs, state : States] /\ o.spec = obj[r].spec /\ o.state = ctl.to
      BY <3>1, <3>2
    <3>4. PICK e \in Events : e = Event("put", r, o)
      BY <3>2, <3>3, EventType
    <3>5. e.type = "put" /\ e.name = r /\ e.state = ctl.to
      BY <3>3, <3>4 DEF Event
    <3>6. log' = Append(log, e) /\ log \in Seq(Events)
      BY <1>6, <2>6, <3>1, <3>4 DEF StatusWrites, TypeOK
    <3>7. CASE ctl.to # "ready"
      <4>1. Effective(e) BY <3>5, <3>7 DEF Effective
      <4>2. Latest(e, r)'
        BY <3>5, <3>6, <4>1, Appended
      <4>3. Renewed(r)'
        BY <3>5, <4>2 DEF Latest, Renewed
      <4> QED BY <4>3 DEF ReadyHandled
    <3>8. CASE ctl.to = "ready"
      <4>1. LogKept(r)
        <5>1. ~Effective(e) BY <3>5, <3>8 DEF Effective
        <5> QED BY <3>6, <5>1, Appended
      <4>2. Renewed(r) => Renewed(r)'
        BY <4>1 DEF Renewed, LogKept
      <4>3. AtWork(r) => Kept(r)'
        BY <2>3, <4>1 DEF AtWork, LogKept
      <4> QED BY <1>1, <1>4, <1>6, <2>1, <2>6, <4>2, <4>3 DEF ReadyHandled, Refused
    <3> QED BY <3>7, <3>8
  <2> QED BY <1>6, <2>4, <2>5, <2>6 DEF StatusWrites
<1> QED BY <1>2, <1>3, <1>5, <1>6

LEMMA DropReady ==
  ASSUME TypeOK, Rounds, Drops \/ DropFails, NEW r \in Requests, ReadyHandled(r)
  PROVE  ReadyHandled(r)'
<1>1. /\ ctl.pc = "drop" /\ ctl' = Back(ctl) /\ obj' = obj /\ UNCHANGED log
      /\ lost \subseteq lost' /\ faults \in Nat /\ (faults' = 0 => faults = 0)
  BY DEF Drops, DropFails, Fails, world, TypeOK
<1>2. LogKept(r)
  BY <1>1, LogAlike
<1>3. CASE r # ctl.name
  BY <1>1, <1>2, <1>3, BackFacts, DropKeeps, LeftReady
<1>4. CASE r = ctl.name
  <2>1. Renewed(r) => Renewed(r)'
    BY <1>2 DEF Renewed, LogKept
  <2> QED BY <1>1, <1>4, <2>1 DEF ReadyHandled, Relisted, AtWork, Kept, Refused
<1> QED BY <1>3, <1>4

LEMMA ResetReady ==
  ASSUME TypeOK, Rounds, WatchEnds \/ Restarts, NEW r \in Requests, ReadyHandled(r)
  PROVE  ReadyHandled(r)'
<1>1. /\ ctl' = Outside /\ log' = <<>> /\ obj' = obj /\ UNCHANGED <<provisioned, faults>>
      /\ lost \subseteq lost' /\ Undelivered \subseteq lost' /\ None # r
  BY MiddlewareAssumption DEF WatchEnds, Restarts, world
<1>2. Provisioned(r)' <=> Provisioned(r)
  BY <1>1, SameProvisions
<1>3. ctl'.name = None /\ ctl'.todo = {} /\ Silent(r)'
  BY <1>1 DEF Outside, Idle, Silent
<1>4. AtWork(r) => <<"put", r>> \in lost'
  BY <1>1 DEF AtWork, WatchEnds, Restarts, Rounds
<1>5. Renewed(r) => <<"put", r>> \in lost'
  <2>1. \A i \in 1..Len(log) : LastWord(i, r) => <<log[i].type, r>> \in lost'
    BY <1>1 DEF Undelivered, LastWord, TypeOK
  <2> QED BY <2>1 DEF Renewed
<1>6. Relisted(r) \/ Kept(r) => Kept(r)'
  BY <1>1, <1>2, <1>3 DEF Relisted, Kept
<1> QED BY <1>1, <1>4, <1>5, <1>6 DEF ReadyHandled, Refused

LEMMA ReadyStep ==
  ASSUME TypeOK, TypeOK', Rounds, KeepsKind, [Next]_vars, NEW r \in Requests, ReadyHandled(r)
  PROVE  ReadyHandled(r)'
<1>1. Rounds'
  BY RoundsStep
<1>2. CASE UNCHANGED vars
  BY <1>2 DEF vars, world, provisioned, ReadyHandled, Refused, Renewed, Relisted, AtWork, Kept,
              Silent, LastWord, Provisioned
<1>3. CASE UserActs BY <1>1, <1>3, UserReady DEF UserActs
<1>4. CASE Lists BY <1>4, ListsReady
<1>5. CASE TakesListed BY <1>5, TakesListedReady
<1>6. CASE TakesEvent BY <1>6, TakesEventReady
<1>7. CASE Provisions \/ ProvisionFails \/ ProvisionRefused BY <1>7, ProvisionReady
<1>8. CASE StatusLooks \/ StatusWrites \/ StatusFails BY <1>8, StatusReady
<1>9. CASE Drops \/ DropFails BY <1>9, DropReady
<1>10. CASE WatchEnds \/ Restarts BY <1>10, ResetReady
<1> QED BY <1>2, <1>3, <1>4, <1>5, <1>6, <1>7, <1>8, <1>9, <1>10 DEF Next, Works

\* handleCreateOrUpdate, handleDelete and updateStatus: an existing request that
\* says "ready" has its stores and its Secret: the first of its name at every
\* moment and through every failure, conflict, lost watch and restart; a later one
\* once all events are taken, if no event of it was lost and no command failed.  Names
\* are either not used again, or are kept to types that are offered or to others.
THEOREM ReadyTrusted == ~Reuse \/ KeepsKind => (Spec => []ReadyIsProvisioned)
<1>1. CASE ~Reuse
  <2>1. Trust /\ TypeOK => ReadyIsProvisioned
    <3> SUFFICES ASSUME Trust, TypeOK, NEW r \in Requests, obj[r] # None, obj[r].state = "ready"
                 PROVE  Provisioned(r)
      BY DEF ReadyIsProvisioned
    <3>1. lives[r] \in Nat /\ lives[r] # 0 /\ lives[r] < 2
      BY <1>1 DEF Trust, TrustedAt, TypeOK
    <3>2. lives[r] = 1
      BY <3>1
    <3> QED BY <3>2 DEF Trust, TrustedAt
  <2> QED BY <2>1, TrustHolds, MiddlewareTypes, PTL
<1>2. CASE KeepsKind
  <2> DEFINE Inv == \A r \in Requests : ReadyHandled(r) /\ RefusedStays(r)
  <2>1. Init => Inv
    BY HandledAtFirst DEF Init, ReadyHandled
  <2>2. Groundwork /\ Groundwork' /\ Inv /\ [Next]_vars => Inv'
    BY <1>2, ReadyStep, HandledStep DEF Groundwork
  <2>3. Groundwork /\ Trust /\ Inv => ReadyIsProvisioned
    <3> SUFFICES ASSUME Groundwork, Trust, Inv, NEW r \in Requests,
                        obj[r] # None, obj[r].state = "ready",
                        \/ lives[r] = 1
                        \/ Settled /\ <<"put", r>> \notin lost /\ faults = 0
                 PROVE  Provisioned(r)
      BY DEF ReadyIsProvisioned
    <3>1. CASE lives[r] = 1
      BY <3>1 DEF Trust, TrustedAt
    <3>2. CASE Settled /\ <<"put", r>> \notin lost /\ faults = 0
      <4>1. ctl.name = None /\ None # r /\ log = <<>> /\ ctl.todo = {}
        BY <3>2, MiddlewareAssumption DEF Settled, Groundwork, Rounds
      <4>2. ~Refused(r)
        BY DEF RefusedStays
      <4>3. Kept(r)
        BY <3>2, <4>1, <4>2 DEF ReadyHandled, Renewed, Relisted, AtWork
      <4> QED BY <4>3 DEF Kept
    <3> QED BY <3>1, <3>2
  <2> QED BY <2>1, <2>2, <2>3, GroundworkHolds, TrustHolds, PTL DEF Spec
<1> QED BY <1>1, <1>2
-----------------------------------------------------------------------------
(* A request that is not ready is still due *)

\* The goroutine starts over, will hear of the request as it is, meets it so in the
\* list, provisions it as it is, or is about to write "ready".
Nearly(r) ==
  /\ Silent(r) /\ ctl.name = r
  /\ \/ ctl.pc = "provision" /\ ctl.spec = obj[r].spec
     \/ ctl.pc = "look" /\ ctl.to = "ready"
     \/ ctl.pc = "write" /\ ctl.to = "ready" /\ ctl.fresh
Due(r) == ctl.pc = "list" \/ Seen(r) \/ Listed(r) \/ Nearly(r)
Unready(r) ==
  /\ obj[r] # None /\ obj[r].spec.kind \in Offered /\ obj[r].state # "ready"
  /\ <<"put", r>> \notin lost /\ faults = 0
StillDue(r) == Unready(r) => Due(r)

SettledIsReady ==
  Settled /\ faults = 0 =>
    \A r \in Requests :
      obj[r] # None /\ obj[r].spec.kind \in Offered /\ <<"put", r>> \notin lost =>
        obj[r].state = "ready"

LEMMA LeftDue ==
  ASSUME NEW r \in Requests, obj'[r] = obj[r], lost \subseteq lost', faults' = 0 => faults = 0,
         ctl.pc = "list" => ctl'.pc = "list", LogKept(r), HandKept(r), StillDue(r)
  PROVE  StillDue(r)'
<1>1. Seen(r) => Seen(r)'
  BY DEF Seen, LogKept
<1>2. Listed(r) => Listed(r)'
  BY DEF Listed, LogKept, HandKept
<1>3. Nearly(r) => Nearly(r)'
  BY DEF Nearly, LogKept, HandKept
<1> QED BY <1>1, <1>2, <1>3 DEF StillDue, Due, Unready

LEMMA UserDue ==
  ASSUME TypeOK, NEW x \in Requests, Creates(x) \/ Edits(x) \/ Deletes(x),
         NEW r \in Requests, StillDue(r)
  PROVE  StillDue(r)'
<1>1. lost \subseteq lost' /\ faults' = faults /\ ctl'.pc = ctl.pc
  BY UserFacts DEF Creates, Edits, Deletes
<1>2. CASE r # x
  <2>1. HandKept(r) /\ obj'[r] = obj[r]
    BY <1>2, UserFacts DEF HandKept
  <2>2. LogKept(r)
    <3>1. CASE log' = log
      BY <3>1, LogAlike
    <3>2. CASE log' # log
      <4>1. PICK e \in Events : log' = Append(log, e) /\ e.name = x
        BY <3>2, UserFacts
      <4> QED BY <4>1, <1>2, Appended DEF TypeOK
    <3> QED BY <3>1, <3>2
  <2> QED BY <1>1, <2>1, <2>2, LeftDue
<1>3. CASE ctl.pc = "list"
  BY <1>1, <1>3 DEF StillDue, Due
<1>4. CASE r = x /\ ctl.pc # "list" /\ ~Deletes(x)
  <2>1. PICK o \in [spec : Specs, state : States] :
          /\ obj' = [obj EXCEPT ![r] = o] /\ o.spec \in SpecsOf[r]
          /\ log' = Append(log, Event("put", r, o))
    <3>1. CASE Creates(x)
      <4>1. PICK spec \in SpecsOf[r] :
              /\ obj' = [obj EXCEPT ![r] = [spec |-> spec, state |-> "new"]]
              /\ log' = Append(log, Event("put", r, [spec |-> spec, state |-> "new"]))
        BY <1>4, <3>1 DEF Creates, Logged
      <4>2. [spec |-> spec, state |-> "new"] \in [spec : Specs, state : States]
        BY SpecFacts DEF States
      <4> QED BY <4>1, <4>2
    <3>2. CASE Edits(x)
      <4>1. PICK spec \in SpecsOf[r] :
              /\ obj' = [obj EXCEPT ![r].spec = spec]
              /\ log' = Append(log, Event("put", r, [obj[r] EXCEPT !.spec = spec]))
        BY <1>4, <3>2 DEF Edits, Logged
      <4>2. obj[r] \in [spec : Specs, state : States]
        BY <1>4, <3>2 DEF Edits, TypeOK
      <4>3. PICK o : o = [obj[r] EXCEPT !.spec = spec]
        OBVIOUS
      <4>4. o \in [spec : Specs, state : States] /\ o.spec = spec
        BY <4>2, <4>3, SpecFacts
      <4> QED BY <4>1, <4>3, <4>4
    <3> QED BY <1>4, <3>1, <3>2
  <2>2. obj'[r] = o
    BY <2>1 DEF TypeOK
  <2>3. PICK e \in Events : e = Event("put", r, o)
    BY <2>1, EventType
  <2>4. e.type = "put" /\ e.name = r /\ e.spec = o.spec /\ e.state = o.state
    BY <2>3 DEF Event
  <2>5. CASE o.state = "ready"
    BY <2>2, <2>5 DEF StillDue, Unready
  <2>6. CASE o.state # "ready"
    <3>1. Effective(e) BY <2>4, <2>6 DEF Effective
    <3>2. Latest(e, r)'
      BY <2>1, <2>3, <2>4, <3>1, Appended DEF TypeOK
    <3>3. Seen(r)'
      BY <2>2, <2>4, <3>2 DEF Latest, Seen
    <3> QED BY <3>3 DEF StillDue, Due
  <2> QED BY <2>5, <2>6
<1>5. CASE r = x /\ Deletes(x)
  <2>1. obj'[r] = None
    BY <1>5 DEF Deletes, TypeOK
  <2> QED BY <2>1 DEF StillDue, Unready
<1> QED BY <1>2, <1>3, <1>4, <1>5

LEMMA ListsDue ==
  ASSUME TypeOK, Rounds, Lists, NEW r \in Requests
  PROVE  StillDue(r)'
<1> DEFINE entry(x) == [name |-> x, spec |-> obj[x].spec, state |-> obj[x].state]
           listed == {entry(x) : x \in {y \in Requests : obj[y] # None}}
<1>1. ctl'.todo = listed /\ ctl'.name = None
  BY DEF Lists, Idle
<1>2. /\ obj[r] # None => entry(r) \in listed
      /\ entry(r).name = r /\ entry(r).state = obj[r].state /\ entry(r).spec = obj[r].spec
  OBVIOUS
<1> HIDE DEF listed, entry
<1>3. obj' = obj /\ log' = <<>> /\ None # r
  BY MiddlewareAssumption DEF Lists, world, Rounds
<1>4. Silent(r)'
  BY <1>3 DEF Silent
<1>5. Unready(r)' => Listed(r)'
  BY <1>1, <1>2, <1>3, <1>4 DEF Unready, Listed
<1> QED BY <1>5 DEF StillDue, Due

LEMMA TakesListedDue ==
  ASSUME TypeOK, Rounds, TakesListed, NEW r \in Requests, StillDue(r)
  PROVE  StillDue(r)'
<1>1. PICK o \in ctl.todo : ctl' = Handles(o, [ctl EXCEPT !.todo = @ \ {o}])
  BY DEF TakesListed
<1>2. /\ ctl'.todo = ctl.todo \ {o} /\ ctl.pc = "next" /\ ctl.name = None
      /\ IF Skipped(o) THEN ctl'.pc = "next" /\ ctl'.name = None
         ELSE ctl'.pc = "provision" /\ ctl'.name = o.name /\ ctl'.spec = o.spec
  BY <1>1 DEF TakesListed, Handles, TypeOK, Rounds
<1>3. obj' = obj /\ UNCHANGED <<log, lost, faults>> /\ None # r
  BY MiddlewareAssumption DEF TakesListed, world
<1>4. LogKept(r)
  BY <1>3, LogAlike
<1>5. CASE o.name # r
  <2>1. HandKept(r)
    BY <1>2, <1>3, <1>5 DEF HandKept
  <2> QED BY <1>2, <1>3, <1>4, <2>1, LeftDue
<1>6. CASE o.name = r
  <2> SUFFICES ASSUME Unready(r)' PROVE Due(r)'
    BY DEF StillDue
  <2>1. Unready(r) /\ Due(r)
    BY <1>3 DEF Unready, StillDue
  <2>2. CASE Seen(r)
    BY <2>2, <1>3, <1>4 DEF Seen, LogKept, Due
  <2>3. CASE Listed(r)
    <3>1. o.state # "ready" /\ o.spec = obj[r].spec
      BY <2>3, <1>6 DEF Listed, Rounds
    <3>2. ~Skipped(o)
      BY <2>1, <3>1 DEF Skipped, Unready, Offered
    <3> QED BY <2>3, <3>1, <3>2, <1>2, <1>3, <1>4, <1>6 DEF Listed, Nearly, LogKept, Due
  <2> QED BY <2>1, <2>2, <2>3, <1>2, <1>3 DEF Due, Nearly
<1> QED BY <1>5, <1>6

LEMMA TakesEventDue ==
  ASSUME TypeOK, Rounds, TakesEvent, NEW r \in Requests, StillDue(r)
  PROVE  StillDue(r)'
<1>1. PICK e \in Events : e = Head(log)
  BY DEF TakesEvent, TypeOK
<1>2. /\ log \in Seq(Events) /\ log # <<>> /\ log' = Tail(log)
      /\ ctl' = IF e.type = "put" THEN Handles(e, ctl)
                ELSE IF e.spec.kind \in Offered THEN Doing("drop", e) ELSE ctl
  BY <1>1 DEF TakesEvent, TypeOK
<1>3. /\ ctl'.todo = {} /\ ctl.todo = {} /\ ctl.pc = "next" /\ ctl.name = None
      /\ e.type = "put" /\ ~Skipped(e) =>
           ctl'.pc = "provision" /\ ctl'.name = e.name /\ ctl'.spec = e.spec
      /\ e.type = "put" /\ Skipped(e) => ctl' = ctl
      /\ ctl'.name \in {None, e.name}
  <2>1. ctl.todo = {} /\ ctl.pc = "next" /\ ctl.name = None /\ ctl \in Controls
    BY DEF TakesEvent, TypeOK, Controls, Rounds
  <2>2. CASE ctl' = [ctl EXCEPT !.pc = "provision", !.name = e.name, !.spec = e.spec]
               /\ e.type = "put" /\ ~Skipped(e)
    BY <2>1, <2>2 DEF Controls
  <2>3. CASE ctl' = [ctl EXCEPT !.pc = "drop", !.name = e.name, !.spec = e.spec]
               /\ e.type # "put"
    BY <2>1, <2>3 DEF Controls
  <2>4. CASE ctl' = ctl /\ ~(e.type = "put" /\ ~Skipped(e))
    BY <2>1, <2>4
  <2> QED BY <1>2, <2>2, <2>3, <2>4 DEF Handles, Doing
<1>4. obj' = obj /\ UNCHANGED <<lost, faults>> /\ None # r
  BY MiddlewareAssumption DEF TakesEvent, world
<1>5. /\ log[1] = e /\ 1 \in 1..Len(log)
      /\ ~(e.name = r /\ Effective(e)) => LogKept(r)
      /\ LastWord(1, r) => Silent(r)'
      /\ \A i \in 1..Len(log) : LastWord(i, r) /\ i # 1 =>
           \E k \in 1..Len(log') : LastWord(k, r)' /\ log'[k] = log[i]
      /\ Silent(r) => ~(e.name = r /\ Effective(e))
  BY <1>1, <1>2, Taken
<1>6. CASE ~(e.name = r /\ Effective(e))
  <2>1. HandKept(r)
    <3>1. CASE e.name # r
      BY <3>1, <1>3, <1>4 DEF HandKept
    <3>2. CASE e.name = r
      BY <3>2, <1>3, <1>6 DEF HandKept, Effective, Skipped, Events
    <3> QED BY <3>1, <3>2
  <2> QED BY <2>1, <1>3, <1>4, <1>5, <1>6, LeftDue
<1>7. CASE e.name = r /\ Effective(e)
  <2> SUFFICES ASSUME Unready(r)' PROVE Seen(r)' \/ Nearly(r)'
    BY DEF StillDue, Due
  <2>1. Unready(r) /\ Seen(r)
    BY <1>3, <1>4, <1>5, <1>7 DEF StillDue, Due, Unready, Listed, Nearly
  <2>2. PICK i \in 1..Len(log) : LastWord(i, r) /\ log[i].type = "put" /\ log[i].spec = obj[r].spec
    BY <2>1 DEF Seen
  <2>3. CASE i # 1
    BY <2>2, <2>3, <1>4, <1>5 DEF Seen
  <2>4. CASE i = 1
    <3>1. e.type = "put" /\ Silent(r)' /\ e.spec = obj[r].spec
      BY <2>2, <2>4, <1>5
    <3>2. ~Skipped(e)
      BY <3>1, <1>7, <2>1 DEF Effective, Unready, Skipped, Offered
    <3> QED BY <3>1, <3>2, <1>3, <1>4, <1>7 DEF Nearly
  <2> QED BY <2>3, <2>4
<1> QED BY <1>6, <1>7

LEMMA ProvisionDue ==
  ASSUME TypeOK, Provisions \/ ProvisionFails \/ ProvisionRefused, NEW r \in Requests, StillDue(r)
  PROVE  StillDue(r)'
<1>1. ctl.pc = "provision" /\ ctl.name \in Requests /\ faults \in Nat
  BY DEF Provisions, ProvisionFails, ProvisionRefused, TypeOK
<1>2. ctl'.pc = "look" /\ ctl'.name = ctl.name /\ ctl'.todo = ctl.todo
  BY DEF Provisions, ProvisionFails, ProvisionRefused, Outcome, TypeOK
<1>3. obj' = obj /\ UNCHANGED <<log, lost>> /\ LogKept(r) /\ (faults' = 0 => faults = 0)
  BY <1>1, LogAlike DEF Provisions, ProvisionFails, ProvisionRefused, world, Fails
<1>4. CASE r # ctl.name
  <2>1. HandKept(r)
    BY <1>2, <1>4 DEF HandKept
  <2> QED BY <1>1, <1>3, <2>1, LeftDue
<1>5. CASE r = ctl.name
  <2> SUFFICES ASSUME Unready(r)' PROVE Due(r)'
    BY DEF StillDue
  <2>1. Unready(r) /\ Due(r) /\ faults' = 0
    BY <1>3 DEF Unready, StillDue
  <2>2. CASE Seen(r)
    BY <2>2, <1>3 DEF Seen, LogKept, Due
  <2>3. CASE Nearly(r)
    <3>1. ctl.spec.kind \in Offered
      BY <2>1, <2>3, <1>1 DEF Nearly, Unready
    <3>2. Provisions
      BY <2>1, <3>1, <1>1 DEF ProvisionFails, ProvisionRefused, Fails, Offered
    <3>3. ctl'.to = "ready"
      BY <3>2 DEF Provisions, Outcome, TypeOK
    <3> QED BY <3>3, <2>3, <1>2, <1>3, <1>5 DEF Nearly, LogKept, Due
  <2> QED BY <2>1, <2>2, <2>3, <1>1, <1>5 DEF Due, Listed
<1> QED BY <1>4, <1>5

LEMMA StatusDue ==
  ASSUME TypeOK, StatusLooks \/ StatusWrites \/ StatusFails, NEW r \in Requests, StillDue(r)
  PROVE  StillDue(r)'
<1>1. /\ ctl.pc \in {"look", "write"} /\ ctl.name \in Requests /\ faults \in Nat
      /\ lost \subseteq lost' /\ (faults' = 0 => faults = 0 /\ ~StatusFails)
  BY DEF StatusLooks, StatusWrites, StatusFails, Fails, TypeOK
<1>2. CASE ctl.name # r
  <2>1. obj'[r] = obj[r]
    BY <1>2 DEF StatusLooks, StatusWrites, StatusFails, world, TypeOK
  <2>2. LogKept(r)
    <3>1. CASE log' = log
      BY <3>1, LogAlike
    <3>2. CASE log' # log
      <4>1. PICK o : /\ o = [obj[ctl.name] EXCEPT !.state = ctl.to]
                     /\ log' = Append(log, Event("put", ctl.name, o))
                     /\ obj[ctl.name] # None
        BY <3>2 DEF StatusLooks, StatusWrites, StatusFails, TypeOK
      <4>2. o \in [spec : Specs, state : States] /\ o.spec \in SpecsOf[ctl.name]
        <5>1. obj[ctl.name] \in [spec : Specs, state : States] /\ ctl.to \in States
              /\ obj[ctl.name].spec \in SpecsOf[ctl.name]
          BY <1>1, <4>1 DEF TypeOK
        <5> QED BY <4>1, <5>1
      <4>3. PICK e \in Events : log' = Append(log, e) /\ e.name # r
        <5>1. Event("put", ctl.name, o) \in Events /\ Event("put", ctl.name, o).name # r
          BY <1>1, <1>2, <4>2, EventType DEF Event
        <5> QED BY <4>1, <5>1
      <4> QED BY <4>3, Appended DEF TypeOK
    <3> QED BY <3>1, <3>2
  <2>3. HandKept(r)
    <3>1. CASE ctl' = Back(ctl)
      BY <3>1, <1>2, BackFacts
    <3>2. CASE ctl' = [ctl EXCEPT !.pc = "write", !.fresh = TRUE]
      BY <3>2, <1>2 DEF HandKept, TypeOK
    <3> QED BY <3>1, <3>2 DEF StatusLooks, StatusWrites, StatusFails
  <2> QED BY <1>1, <2>1, <2>2, <2>3, LeftDue
<1>3. CASE ctl.name = r /\ StatusFails
  BY <1>1, <1>3 DEF StillDue, Unready
<1>4. CASE ctl.name = r /\ StatusLooks
  <2>1. UNCHANGED <<obj, lost, log>> /\ LogKept(r)
    BY <1>4, LogAlike DEF StatusLooks, world
  <2> SUFFICES ASSUME Unready(r)' PROVE Due(r)'
    BY DEF StillDue
  <2>2. Unready(r) /\ Due(r) /\ obj[r] # None
    BY <1>1, <2>1 DEF Unready, StillDue
  <2>3. ctl'.pc = "write" /\ ctl'.name = r /\ ctl'.fresh = TRUE /\ ctl'.to = ctl.to /\ ctl.pc = "look"
    BY <1>4, <2>2 DEF StatusLooks, TypeOK
  <2>4. CASE Seen(r)
    BY <2>1, <2>4 DEF Seen, LogKept, Due
  <2>5. CASE Nearly(r)
    BY <2>1, <2>3, <2>5 DEF Nearly, LogKept, Due
  <2> QED BY <1>4, <2>2, <2>3, <2>4, <2>5 DEF Due, Listed
<1>5. CASE ctl.name = r /\ StatusWrites
  <2>1. ctl.pc = "write" /\ UNCHANGED lost
    BY <1>5 DEF StatusWrites
  <2>2. CASE UNCHANGED <<obj, log>> /\ ~(ctl.fresh /\ obj[r].state # ctl.to)
    <3> SUFFICES ASSUME Unready(r)' PROVE Seen(r)'
      BY DEF StillDue, Due
    <3>1. LogKept(r)
      BY <2>2, LogAlike
    <3>2. Unready(r) /\ Due(r)
      BY <1>1, <2>1, <2>2 DEF Unready, StillDue
    <3>3. Seen(r)
      BY <1>5, <2>1, <2>2, <3>2 DEF Due, Listed, Nearly, Unready
    <3> QED BY <2>2, <3>1, <3>3 DEF Seen, LogKept
  <2>3. CASE ctl.fresh /\ obj[r].state # ctl.to
    <3>1. PICK o : o = [obj[r] EXCEPT !.state = ctl.to]
      OBVIOUS
    <3>2. /\ obj[r] \in [spec : Specs, state : States] /\ obj[r].spec \in SpecsOf[r]
          /\ ctl.to \in States
      BY <1>5, <2>1, <2>3 DEF TypeOK
    <3>3. o \in [spec : Specs, state : States] /\ o.spec = obj[r].spec /\ o.state = ctl.to
      BY <3>1, <3>2
    <3>4. PICK e \in Events : e = Event("put", r, o)
      BY <3>2, <3>3, EventType
    <3>5. e.type = "put" /\ e.name = r /\ e.state = ctl.to /\ e.spec = o.spec
      BY <3>3, <3>4 DEF Event
    <3>6. log' = Append(log, e) /\ log \in Seq(Events) /\ obj'[r] = o
      BY <1>5, <2>3, <3>1, <3>4 DEF StatusWrites, TypeOK
    <3>7. CASE ctl.to = "ready"
      BY <3>3, <3>6, <3>7 DEF StillDue, Unready
    <3>8. CASE ctl.to # "ready"
      <4>1. Effective(e) BY <3>5, <3>8 DEF Effective
      <4>2. Latest(e, r)'
        BY <3>5, <3>6, <4>1, Appended
      <4>3. Seen(r)'
        BY <3>5, <3>6, <4>2 DEF Latest, Seen
      <4> QED BY <4>3 DEF StillDue, Due
    <3> QED BY <3>7, <3>8
  <2> QED BY <1>5, <2>2, <2>3 DEF StatusWrites
<1> QED BY <1>2, <1>3, <1>4, <1>5

LEMMA DropDue ==
  ASSUME TypeOK, Rounds, Drops \/ DropFails, NEW r \in Requests, StillDue(r)
  PROVE  StillDue(r)'
<1>1. /\ ctl.pc = "drop" /\ ctl' = Back(ctl) /\ obj' = obj /\ UNCHANGED log
      /\ lost \subseteq lost' /\ faults \in Nat /\ (faults' = 0 => faults = 0)
  BY DEF Drops, DropFails, Fails, world, TypeOK
<1>2. LogKept(r)
  BY <1>1, LogAlike
<1>3. CASE r # ctl.name
  BY <1>1, <1>2, <1>3, BackFacts, LeftDue
<1>4. CASE r = ctl.name
  <2>1. Seen(r) => Seen(r)'
    BY <1>1, <1>2 DEF Seen, LogKept
  <2> QED BY <1>1, <1>4, <2>1 DEF StillDue, Unready, Due, Listed, Nearly
<1> QED BY <1>3, <1>4

LEMMA DueStep ==
  ASSUME TypeOK, Rounds, [Next]_vars, NEW r \in Requests, StillDue(r)
  PROVE  StillDue(r)'
<1>1. CASE UNCHANGED vars
  BY <1>1 DEF vars, world, StillDue, Unready, Due, Seen, Listed, Nearly, Silent, LastWord
<1>2. CASE UserActs BY <1>2, UserDue DEF UserActs
<1>3. CASE Lists BY <1>3, ListsDue
<1>4. CASE TakesListed BY <1>4, TakesListedDue
<1>5. CASE TakesEvent BY <1>5, TakesEventDue
<1>6. CASE Provisions \/ ProvisionFails \/ ProvisionRefused BY <1>6, ProvisionDue
<1>7. CASE StatusLooks \/ StatusWrites \/ StatusFails BY <1>7, StatusDue
<1>8. CASE Drops \/ DropFails BY <1>8, DropDue
<1>9. CASE WatchEnds \/ Restarts
  BY <1>9, OutsideType DEF WatchEnds, Restarts, StillDue, Due
<1> QED BY <1>1, <1>2, <1>3, <1>4, <1>5, <1>6, <1>7, <1>8, <1>9 DEF Next, Works

\* reconcileExisting, handleCreateOrUpdate and updateStatus: when the goroutine has
\* taken every event and no command failed, a request of an offered type is ready,
\* however its creation and edits met the list, the round and the write of an
\* earlier outcome, and whatever its name was used for before; only an event that no
\* watch delivered, or whose handling a restart cut short, leaves it to the next list.
THEOREM SettledReady == Spec => []SettledIsReady
<1> DEFINE Inv == \A r \in Requests : StillDue(r)
<1>1. Init => Inv
  BY DEF Init, StillDue, Unready
<1>2. Groundwork /\ Inv /\ [Next]_vars => Inv'
  BY DueStep DEF Groundwork
<1>3. Groundwork /\ Inv => SettledIsReady
  <2> SUFFICES ASSUME Groundwork, Inv, Settled, NEW r \in Requests, Unready(r)
               PROVE  FALSE
    BY DEF SettledIsReady, Unready
  <2>1. ctl.name = None /\ None # r /\ log = <<>> /\ ctl.todo = {} /\ ctl.pc = "next"
    BY MiddlewareAssumption DEF Settled, Groundwork, Rounds
  <2>2. Due(r)
    BY DEF StillDue
  <2> QED BY <2>1, <2>2 DEF Due, Seen, Listed, Nearly
<1> QED BY <1>1, <1>2, <1>3, GroundworkHolds, PTL DEF Spec
=============================================================================
