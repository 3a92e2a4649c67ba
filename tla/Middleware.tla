----------------------------- MODULE Middleware -----------------------------
(***************************************************************************)
(* internal/middleware: the controller that gives apps their databases.  It *)
(* lists and watches MiddlewareRequests, provisions PostgreSQL, Redis or    *)
(* NATS for each that is not "ready", writes the outcome into the request's *)
(* status, and drops everything when the request is deleted.  It keeps no   *)
(* state of its own: what it did stands in the status, by the object's name.*)
(*                                                                         *)
(* The credentials of a request are in a Secret that is named after its     *)
(* app and type: two requests of one app and type would share it, and are   *)
(* left out.                                                               *)
(*                                                                         *)
(* One goroutine handles one object after the other.  Only users of the API *)
(* server act beside it, on the requests and never on what is provisioned,  *)
(* so a whole round of provisioning is one step that may fail anywhere.     *)
(***************************************************************************)
EXTENDS Naturals, Sequences, FiniteSets

CONSTANTS
  Requests,     \* names of MiddlewareRequests, no two for the same app and type
  Stores,       \* databases, Redis namespaces and streams, by their real names
  Users,        \* PostgreSQL roles
  SpecsOf,      \* [Requests -> SUBSET SpecType]: what users write under a name
  None,
  Reuse,        \* whether a name may be used again after its request is deleted
  Faulty,       \* where commands may fail
  MaxChanges,   \* creations, edits and deletions (a bound)
  MaxFaults,    \* failing commands (a bound)
  MaxRestarts   \* restarts of the process (a bound)

VARIABLES
  obj,          \* the request stored under a name, or None
  roles,        \* PostgreSQL roles that exist
  owner,        \* who a store was created for; None when it does not exist
  creds,        \* the credentials Secret of a request's app and type: the spec it was made from
  ctl,          \* the controller's goroutine
  log,          \* what happened since its list: the watch starts from there
  changes, faults, restarts,
  lives,        \* how often a name was created
  late,         \* requests edited when they were ready already
  lost          \* events no watch delivered, whose handling was cut short, or whose
                \* failure could not be recorded

world == <<obj, changes, lives, late>>
provisioned == <<roles, owner, creds>>
vars == <<world, provisioned, ctl, log, faults, restarts, lost>>

\* "other": one of the types the CRD allows and the controller does not know.
\* "missing": the type is known and its section of the spec is absent.  edition
\* stands for the password and the extensions.
SpecType == [kind : {"postgres", "redis", "nats", "other", "missing"},
             user : Users, stores : SUBSET Stores, edition : {1, 2}]
Specs == UNION {SpecsOf[r] : r \in Requests}
Offered == {"postgres", "redis", "nats"}
\* A request nobody has handled yet has no state: "new".
States == {"new", "failed", "ready"}

ASSUME MiddlewareAssumption ==
  /\ SpecsOf \in [Requests -> SUBSET SpecType]
  /\ \A r, o \in Requests : \A s \in SpecsOf[r], t \in SpecsOf[o] :
       r # o => s.stores \cap t.stores = {}
  /\ None \notin Users \cup Requests \cup Specs \cup [spec : Specs, state : States]
  /\ Reuse \in BOOLEAN
  /\ Faulty \subseteq {"provision", "status", "drop"}
  /\ MaxChanges \in Nat /\ MaxFaults \in Nat /\ MaxRestarts \in Nat

\* The specs written under a name are all of an offered type or none is.
KeepsKind ==
  \A r \in Requests : \A s, t \in SpecsOf[r] :
    s.kind \in Offered <=> t.kind \in Offered

\* They ask for the same stores of the same type as the same user, and a database
\* user serves no other name.
KeepsHome ==
  \A r \in Requests : \A s \in SpecsOf[r] :
    /\ \A t \in SpecsOf[r] :
         /\ s.stores = t.stores /\ s.user = t.user
         /\ s.kind = t.kind \/ {s.kind, t.kind} \cap Offered = {}
    /\ \A o \in Requests \ {r} : \A t \in SpecsOf[o] : s.kind = "postgres" => s.user # t.user

Objects ==
  {o \in [name : Requests, spec : Specs, state : States] : o.spec \in SpecsOf[o.name]}

Idle == [pc |-> "next", todo |-> {}, name |-> None, spec |-> None, to |-> "new", fresh |-> FALSE]
Outside == [Idle EXCEPT !.pc = "list"]

-----------------------------------------------------------------------------
(* The API server *)

Event(type, r, o) == [type |-> type, name |-> r, spec |-> o.spec, state |-> o.state]
Events ==
  {e \in [type : {"put", "deleted"}, name : Requests, spec : Specs, state : States] :
     e.spec \in SpecsOf[e.name]}

\* The watch will deliver what happens after the list it starts from.
Logged(event) == log' = IF ctl.pc = "list" THEN log ELSE Append(log, event)

\* An Update of an object that was written after it was read is refused.
Overtaken(r) == ctl' = [ctl EXCEPT !.fresh = @ /\ ctl.name # r]

Change == changes < MaxChanges /\ changes' = changes + 1

Creates(r) ==
  /\ Change
  /\ obj[r] = None /\ (Reuse \/ lives[r] = 0)
  /\ \E spec \in SpecsOf[r] :
       /\ obj' = [obj EXCEPT ![r] = [spec |-> spec, state |-> "new"]]
       /\ Logged(Event("put", r, [spec |-> spec, state |-> "new"]))
  /\ lives' = [lives EXCEPT ![r] = @ + 1]
  /\ late' = late \ {r}
  /\ Overtaken(r)
  /\ UNCHANGED <<provisioned, faults, restarts, lost>>

Edits(r) ==
  /\ Change
  /\ obj[r] # None
  /\ \E spec \in SpecsOf[r] \ {obj[r].spec} :
       /\ obj' = [obj EXCEPT ![r].spec = spec]
       /\ Logged(Event("put", r, [obj[r] EXCEPT !.spec = spec]))
  /\ late' = IF obj[r].state = "ready" THEN late \cup {r} ELSE late
  /\ Overtaken(r)
  /\ UNCHANGED <<provisioned, faults, restarts, lives, lost>>

Deletes(r) ==
  /\ Change
  /\ obj[r] # None
  /\ obj' = [obj EXCEPT ![r] = None]
  /\ Logged(Event("deleted", r, obj[r]))
  /\ lost' = IF ctl.pc = "list" THEN lost \cup {<<"deleted", r>>} ELSE lost
  /\ Overtaken(r)
  /\ UNCHANGED <<provisioned, faults, restarts, lives, late>>

-----------------------------------------------------------------------------
(* The controller *)

\* Slip: a failed request is not tried again.
SkippedOnFailure(o) == o.state \in {"ready", "failed"} \/ o.spec.kind = "other"

\* handleCreateOrUpdate leaves these alone; the state is the one the list or the
\* event carries.
Skipped(o) == o.state = "ready" \/ o.spec.kind = "other"

Doing(pc, o) == [ctl EXCEPT !.pc = pc, !.name = o.name, !.spec = o.spec]
Back(c) == [Idle EXCEPT !.todo = c.todo]

\* Slip: the state is looked up again when the object's turn comes.
HandlesCurrent(o, c) ==
  IF Skipped(o) \/ (obj[o.name] # None /\ obj[o.name].state = "ready") THEN c
  ELSE [c EXCEPT !.pc = "provision", !.name = o.name, !.spec = o.spec]

Handles(o, c) ==
  IF Skipped(o) THEN c
  ELSE [c EXCEPT !.pc = "provision", !.name = o.name, !.spec = o.spec]

\* reconcileExisting.  When the list fails the watch replays what exists instead,
\* which is the same objects, later.
Lists ==
  /\ ctl.pc = "list"
  /\ ctl' = [Idle EXCEPT !.todo =
       {[name |-> r, spec |-> obj[r].spec, state |-> obj[r].state] :
          r \in {x \in Requests : obj[x] # None}}]
  /\ UNCHANGED <<world, provisioned, log, faults, restarts, lost>>

TakesListed ==
  /\ ctl.pc = "next"
  /\ \E o \in ctl.todo : ctl' = Handles(o, [ctl EXCEPT !.todo = @ \ {o}])
  /\ UNCHANGED <<world, provisioned, log, faults, restarts, lost>>

TakesEvent ==
  /\ ctl.pc = "next" /\ ctl.todo = {} /\ log # <<>>
  /\ LET event == Head(log) IN
       ctl' = IF event.type = "put" THEN Handles(event, ctl)
              ELSE IF event.spec.kind \in Offered THEN Doing("drop", event) ELSE ctl
  /\ log' = Tail(log)
  /\ UNCHANGED <<world, provisioned, faults, restarts, lost>>

Outcome(to) == ctl' = [ctl EXCEPT !.pc = "look", !.to = to]

\* handlePostgreSQL, handleRedis, handleNATS: the role, then the stores that do
\* not exist yet, then the Secret.
Makes(stores, role) ==
  /\ roles' = IF role THEN roles \cup {ctl.spec.user} ELSE roles
  /\ owner' = [s \in Stores |->
                 IF s \in stores /\ owner[s] = None THEN ctl.spec.user ELSE owner[s]]

Provisions ==
  /\ ctl.pc = "provision" /\ ctl.spec.kind \in Offered
  /\ Makes(ctl.spec.stores, ctl.spec.kind = "postgres")
  /\ creds' = [creds EXCEPT ![ctl.name] = ctl.spec]
  /\ Outcome("ready")
  /\ UNCHANGED <<world, log, faults, restarts, lost>>

Fails(where) == where \in Faulty /\ faults < MaxFaults /\ faults' = faults + 1

\* Slip: the error is logged and the request counts as provisioned.
ProvisionFailsQuietly ==
  /\ ctl.pc = "provision" /\ ctl.spec.kind \in Offered
  /\ Fails("provision")
  /\ \E made \in SUBSET ctl.spec.stores, role \in BOOLEAN :
       /\ ctl.spec.kind = "postgres" /\ made # {} => role
       /\ Makes(made, role /\ ctl.spec.kind = "postgres")
  /\ Outcome("ready")
  /\ UNCHANGED <<world, creds, log, restarts, lost>>

\* Any of the commands fails; the earlier ones are not undone.
ProvisionFails ==
  /\ ctl.pc = "provision" /\ ctl.spec.kind \in Offered
  /\ Fails("provision")
  /\ \E made \in SUBSET ctl.spec.stores, role \in BOOLEAN :
       /\ ctl.spec.kind = "postgres" /\ made # {} => role
       /\ Makes(made, role /\ ctl.spec.kind = "postgres")
  /\ Outcome("failed")
  /\ UNCHANGED <<world, creds, log, restarts, lost>>

ProvisionRefused ==
  /\ ctl.pc = "provision" /\ ctl.spec.kind = "missing"
  /\ Outcome("failed")
  /\ UNCHANGED <<world, provisioned, log, faults, restarts, lost>>

\* Slip: the object is taken to exist.
StatusLooksBlindly ==
  /\ ctl.pc = "look"
  /\ ctl' = [ctl EXCEPT !.pc = "write", !.fresh = TRUE]
  /\ UNCHANGED <<world, provisioned, log, faults, restarts, lost>>

\* updateStatus reads the object now stored under the name ...
StatusLooks ==
  /\ ctl.pc = "look"
  /\ ctl' = IF obj[ctl.name] = None THEN Back(ctl)
            ELSE [ctl EXCEPT !.pc = "write", !.fresh = TRUE]
  /\ UNCHANGED <<world, provisioned, log, faults, restarts, lost>>

\* ... and writes it back with the state.  The CRD has no status subresource and
\* keeps only the state of the status, so the update that goes through is the
\* plain one, and one that changes nothing makes no event.
StatusWrites ==
  /\ ctl.pc = "write"
  /\ IF ctl.fresh /\ obj[ctl.name].state # ctl.to
     THEN LET o == [obj[ctl.name] EXCEPT !.state = ctl.to] IN
            /\ obj' = [obj EXCEPT ![ctl.name] = o]
            /\ log' = Append(log, Event("put", ctl.name, o))
     ELSE UNCHANGED <<obj, log>>
  /\ ctl' = Back(ctl)
  /\ UNCHANGED <<changes, lives, late, provisioned, faults, restarts, lost>>

\* A status that cannot be written is logged and given up.  After a failed
\* provisioning nothing is left that says so: the request keeps its old state.
StatusFails ==
  /\ ctl.pc \in {"look", "write"}
  /\ Fails("status")
  /\ lost' = IF ctl.to = "failed" THEN lost \cup {<<"put", ctl.name>>} ELSE lost
  /\ ctl' = Back(ctl)
  /\ UNCHANGED <<world, provisioned, log, restarts>>

\* deletePostgreSQL, deleteRedis, deleteNATS: failures are logged and passed over.
\* A role that owns a database cannot be dropped.  The databases listed as owned
\* by the role are "dropped" under names that do not exist: DropDatabase puts the
\* namespace and a "_" before the raw name it is given.
DropsAll(stores) ==
  /\ owner' = [s \in Stores |-> IF s \in stores THEN None ELSE owner[s]]
  /\ roles' = IF ctl.spec.kind = "postgres" /\ \A s \in Stores : owner'[s] # ctl.spec.user
              THEN roles \ {ctl.spec.user} ELSE roles

\* Slip: the role goes first.
DropsRoleFirst ==
  /\ ctl.pc = "drop"
  /\ owner' = [s \in Stores |-> IF s \in ctl.spec.stores THEN None ELSE owner[s]]
  /\ roles' = IF ctl.spec.kind = "postgres" /\ \A s \in Stores : owner[s] # ctl.spec.user
              THEN roles \ {ctl.spec.user} ELSE roles
  /\ creds' = [creds EXCEPT ![ctl.name] = None]
  /\ ctl' = Back(ctl)
  /\ UNCHANGED <<world, log, faults, restarts, lost>>

Drops ==
  /\ ctl.pc = "drop"
  /\ DropsAll(ctl.spec.stores)
  /\ creds' = [creds EXCEPT ![ctl.name] = None]
  /\ ctl' = Back(ctl)
  /\ UNCHANGED <<world, log, faults, restarts, lost>>

DropFails ==
  /\ ctl.pc = "drop"
  /\ Fails("drop")
  /\ \E dropped \in SUBSET ctl.spec.stores :
       /\ owner' = [s \in Stores |-> IF s \in dropped THEN None ELSE owner[s]]
       /\ roles' \in {roles, roles \ {ctl.spec.user}}
       /\ ctl.spec.user \in roles \ roles' =>
            ctl.spec.kind = "postgres" /\ \A s \in Stores : owner'[s] # ctl.spec.user
  /\ \E left \in {None, creds[ctl.name]} : creds' = [creds EXCEPT ![ctl.name] = left]
  /\ lost' = lost \cup {<<"deleted", ctl.name>>}
  /\ ctl' = Back(ctl)
  /\ UNCHANGED <<world, log, restarts>>

\* The API server closes the watch, which it does from time to time, and Run
\* starts over.  Events it had not sent are not sent again.
Undelivered == {<<log[i].type, log[i].name>> : i \in DOMAIN log}

WatchEnds ==
  /\ ctl.pc = "next" /\ ctl.todo = {}
  /\ ctl' = Outside
  /\ log' = <<>>
  /\ lost' = lost \cup Undelivered
  /\ UNCHANGED <<world, provisioned, faults, restarts>>

\* The process dies at any point, in the middle of provisioning too: that is a
\* failed provisioning whose outcome is not written.
Restarts ==
  /\ restarts < MaxRestarts /\ restarts' = restarts + 1
  /\ ctl' = Outside
  /\ log' = <<>>
  /\ lost' = lost \cup Undelivered \cup
       (IF ctl.name = None THEN {}
        ELSE {<<IF ctl.pc = "drop" THEN "deleted" ELSE "put", ctl.name>>})
  /\ UNCHANGED <<world, provisioned, faults>>

-----------------------------------------------------------------------------
(* The specification *)

Init ==
  /\ obj = [r \in Requests |-> None]
  /\ roles = {}
  /\ owner = [s \in Stores |-> None]
  /\ creds = [r \in Requests |-> None]
  /\ ctl = Outside
  /\ log = <<>>
  /\ changes = 0 /\ faults = 0 /\ restarts = 0
  /\ lives = [r \in Requests |-> 0]
  /\ late = {} /\ lost = {}

UserActs == \E r \in Requests : Creates(r) \/ Edits(r) \/ Deletes(r)

Works ==
  \/ Lists \/ TakesListed \/ TakesEvent
  \/ Provisions \/ ProvisionFails \/ ProvisionRefused
  \/ StatusLooks \/ StatusWrites \/ StatusFails
  \/ Drops \/ DropFails

Next == UserActs \/ Works \/ WatchEnds \/ Restarts

Spec == Init /\ [][Next]_vars

\* The controller's goroutine runs, and the API server lets no watch live for
\* ever: it closes each after some time.  Nothing else has to happen.
FairSpec == Spec /\ WF_vars(Works) /\ WF_vars(WatchEnds)

-----------------------------------------------------------------------------
(* Properties *)

\* The controller's goroutine is about a request it knows; a status it may still
\* write is that of an object that exists, as it was read.
TypeOK ==
  /\ obj \in [Requests -> [spec : Specs, state : States] \cup {None}]
  /\ roles \subseteq Users
  /\ owner \in [Stores -> Users \cup {None}]
  /\ creds \in [Requests -> Specs \cup {None}]
  /\ \A r \in Requests : /\ obj[r] # None => obj[r].spec \in SpecsOf[r]
                         /\ creds[r] \in SpecsOf[r] \cup {None}
  /\ ctl \in [pc : {"list", "next", "provision", "look", "write", "drop"},
              todo : SUBSET Objects, name : Requests \cup {None},
              spec : Specs \cup {None}, to : States, fresh : BOOLEAN]
  /\ ctl.pc \in {"provision", "look", "write", "drop"} =>
       ctl.name \in Requests /\ ctl.spec \in SpecsOf[ctl.name]
  /\ ctl.pc = "write" /\ ctl.fresh => obj[ctl.name] # None
  /\ log \in Seq(Events)
  /\ changes \in 0..MaxChanges /\ faults \in 0..MaxFaults /\ restarts \in 0..MaxRestarts
  /\ lives \in [Requests -> Nat]
  /\ late \subseteq Requests
  /\ lost \subseteq {"put", "deleted"} \X Requests

Provisioned(r) ==
  creds[r] # None /\ \A s \in creds[r].stores : owner[s] # None

\* The controller has taken every event.
Settled == ctl.pc = "next" /\ ctl.todo = {} /\ log = <<>>

\* "ready" can be trusted: the stores exist and the app's Secret names them,
\* through failed commands, conflicts, lost watches and restarts between any two
\* steps.  A name that is used again is the exception the code has: the status is
\* written by name, so the old request's outcome may reach the new one; then the
\* event of the new one repairs it, once all events are taken and if it is not lost
\* and nothing fails.
ReadyIsProvisioned ==
  \A r \in Requests :
    /\ obj[r] # None /\ obj[r].state = "ready"
    /\ lives[r] = 1 \/ (Settled /\ <<"put", r>> \notin lost /\ faults = 0)
    => Provisioned(r)

\* An edit made before a request is ready reaches the app, even one that comes
\* between the provisioning and the write of its outcome: the event carries the
\* state of its own moment, so the "ready" written meanwhile does not hide it.
\* (Where a name keeps to types that are offered, or to others: a request edited
\* into a type nobody handles keeps what it was given before.)
EditsReachApp ==
  \A r \in Requests :
    /\ obj[r] # None /\ obj[r].state = "ready"
    /\ Settled /\ <<"put", r>> \notin lost /\ r \notin late
    => creds[r] = obj[r].spec

\* Nothing of a deleted request stays behind, whenever it was deleted and whatever
\* was half provisioned, unless the deletion fell between two watches or a command
\* of the clean-up failed.  (Where a name keeps its stores, type and user: KeepsHome.)
Leftover(r) ==
  \/ creds[r] # None
  \/ \E spec \in SpecsOf[r] : spec.user \in roles \/ \E s \in spec.stores : owner[s] # None

GoneIsDropped ==
  Settled =>
    \A r \in Requests : obj[r] = None /\ <<"deleted", r>> \notin lost => ~Leftover(r)

\* Every request of an offered type is ready in the end, after the last failure,
\* edit and restart: a failed one is tried again although writing "failed" a
\* second time makes no event.
EventuallyReady ==
  <>[](\A r \in Requests :
         obj[r] # None /\ obj[r].spec.kind \in Offered => obj[r].state = "ready")

-----------------------------------------------------------------------------
(* What a comment in the source says, and the code does not do *)

\* controller.go:358: the deletion drops "any remaining databases owned by the user".
OwnedAreDropped ==
  Settled =>
    \A r \in Requests : obj[r] = None /\ <<"deleted", r>> \notin lost =>
      \A spec \in SpecsOf[r], s \in Stores : owner[s] # spec.user
=============================================================================
