---------------------------- MODULE SecretVault ----------------------------
(***************************************************************************)
(* internal/tapr and pkg/secrets: the gateway seeds Infisical's database,  *)
(* finds or makes the one project, and keeps the platform's secrets there; *)
(* the installer stores them and services load them when they start.  The  *)
(* gateway may end between any two steps, and starts again from the top.   *)
(***************************************************************************)
EXTENDS FiniteSets, Naturals, Values

CONSTANTS
  SecretKeys, SecretValues,
  StoreCalls,            \* requests to store every key
  MaxGatewayStarts,  \* (a bound)
  MaxMisreads        \* answers that are errors though the row or project is there, and
                     \* statements that fail unnoticed (a bound)

ASSUME SecretsAssumption == MaxGatewayStarts \in Nat /\ None \notin SecretValues

VARIABLES
  rows,       \* Infisical's tables: the starts that inserted a row
  gateway,    \* the running gateway: its step, its number, the rows it goes by
  projects,   \* the projects named packalares-system, by the start that made them
  vault,      \* [projects -> [SecretKeys -> SecretValues or None]]
  store,      \* each request: its step, its project, what is left to write
  service,    \* what a service loaded, and whether a store had been answered by then
  misreads

secretVars == <<rows, gateway, projects, vault, store, service, misreads>>

Runs == 1..MaxGatewayStarts

SeedSteps == <<"org", "user", "keys", "member", "role", "session", "project">>

Tables == {"org", "user", "keys", "member", "role", "session"}

Gateways ==
  [at : Tables \cup {"down", "project", "serves"}, run : Runs \cup {0},
   by : [Tables -> Runs \cup {0}]]

StoreRequests ==
  [at : {"idle", "project", "create", "write", "done", "cut"}, to : Runs \cup {0},
   value : SecretValues \cup {None}, todo : SUBSET SecretKeys, rivals : SUBSET StoreCalls]

StepAfter(s) ==
  LET i == CHOOSE j \in 1..7 : SeedSteps[j] = s
  IN  IF i = 7 THEN "serves" ELSE SeedSteps[i + 1]

Misread == misreads < MaxMisreads /\ misreads' = misreads + 1

NoStore == [at |-> "idle", to |-> 0, value |-> None, todo |-> {}, rivals |-> {}]

Running(q) == store[q].at \notin {"idle", "done", "cut"}

\* SeedAndStart: no user is configured, so every start seeds.
GatewayStarts ==
  /\ gateway.at = "down" /\ gateway.run < MaxGatewayStarts
  /\ gateway' = [at |-> "org", run |-> gateway.run + 1, by |-> [t \in Tables |-> 0]]
  /\ UNCHANGED <<rows, projects, vault, store, service, misreads>>

\* Killed, or a statement of Seed fails and the process exits; its requests end.
GatewayEnds ==
  /\ gateway.at # "down" /\ gateway.run < MaxGatewayStarts
  /\ gateway' = [gateway EXCEPT !.at = "down"]
  /\ store' = [q \in StoreCalls |-> IF Running(q) THEN [store[q] EXCEPT !.at = "cut"] ELSE store[q]]
  /\ UNCHANGED <<rows, projects, vault, service, misreads>>

AlwaysInserts(t) == TRUE   \* a slip: no row is looked for

\* A row is inserted when none was read: none is there, or the read failed.
Inserts(t) == rows[t] = {}

\* Seed: check, then insert; keys are made anew and replace the row's.
Seeds(t) ==
  /\ gateway.at = t /\ t \in Tables
  /\ \E inserts \in {Inserts(t), TRUE} :
       /\ IF inserts # Inserts(t) THEN Misread ELSE UNCHANGED misreads
       /\ \E row \in IF inserts THEN {gateway.run} ELSE rows[t] :
            /\ rows' = [rows EXCEPT ![t] = IF t = "keys" /\ ~inserts THEN {gateway.run} ELSE @ \cup {row}]
            /\ gateway' = [gateway EXCEPT !.at = StepAfter(t),
                                          !.by = [gateway.by EXCEPT ![t] = IF t = "keys" THEN gateway.run ELSE row]]
  /\ UNCHANGED <<projects, vault, store, service>>

\* No role is made when the membership is not found again or the INSERT fails.
RoleSkipped ==
  /\ gateway.at = "role" /\ Misread
  /\ gateway' = [gateway EXCEPT !.at = StepAfter("role")]
  /\ UNCHANGED <<rows, projects, vault, store, service>>

\* getOrCreateDefaultWorkspace: any error counts as none.  Thirty attempts; then it serves
\* without.
ProjectMade(by) ==
  /\ projects' = projects \cup {by}
  /\ vault' = [p \in projects' |->
                 IF p \in projects THEN vault[p] ELSE [k \in SecretKeys |-> None]]

ProjectReady ==
  /\ gateway.at = "project"
  /\ \/ projects # {} /\ UNCHANGED <<projects, vault, misreads>>
     \/ projects = {} /\ ProjectMade(gateway.run) /\ UNCHANGED misreads
     \/ projects # {} /\ gateway.run \notin projects /\ ProjectMade(gateway.run) /\ Misread
     \/ projects = {} /\ UNCHANGED <<projects, vault>> /\ Misread
  /\ gateway' = [gateway EXCEPT !.at = "serves"]
  /\ UNCHANGED <<rows, store, service>>

\* storeSecrets: the project is looked up, or made, by each request.
StoreAsked(q, v) ==
  /\ gateway.at = "serves" /\ store[q].at = "idle"
  /\ store' = [o \in StoreCalls |->
                 IF o = q
                   THEN [at |-> "project", to |-> 0, value |-> v, todo |-> SecretKeys,
                         rivals |-> {x \in StoreCalls : Running(x)}]
                   ELSE [store[o] EXCEPT !.rivals = @ \cup {q}]]
  /\ UNCHANGED <<rows, gateway, projects, vault, service, misreads>>

StoreFindsProject(q) ==
  /\ gateway.at = "serves" /\ store[q].at = "project"
  /\ \E p \in projects : store' = [store EXCEPT ![q].at = "write", ![q].to = p]
  /\ UNCHANGED <<rows, gateway, projects, vault, service, misreads>>

StoreFindsNone(q) ==
  /\ gateway.at = "serves" /\ store[q].at = "project"
  /\ IF projects = {} THEN UNCHANGED misreads ELSE Misread
  /\ store' = [store EXCEPT ![q].at = "create"]
  /\ UNCHANGED <<rows, gateway, projects, vault, service>>

StoreMakesProject(q) ==
  /\ gateway.at = "serves" /\ store[q].at = "create"
  /\ \E p \in Runs \ projects : ProjectMade(p) /\ store' = [store EXCEPT ![q].at = "write", ![q].to = p]
  /\ UNCHANGED <<rows, gateway, service, misreads>>

OnlyPosts(p, k, v) ==   \* a slip: no PATCH after a POST that was refused
  [vault EXCEPT ![p][k] = IF @ = None THEN v ELSE @]

\* POST makes the secret; refused because it is there, PATCH replaces its value.
Written(p, k, v) == [vault EXCEPT ![p][k] = v]

\* One key after the other, in no order.  A PATCH's own refusal is not looked at.
StoreWrites(q) ==
  /\ gateway.at = "serves" /\ store[q].at = "write"
  /\ \E k \in store[q].todo :
       /\ \/ vault' = Written(store[q].to, k, store[q].value) /\ UNCHANGED misreads
          \/ UNCHANGED vault /\ Misread
       /\ store' = [store EXCEPT ![q].todo = @ \ {k}]
  /\ UNCHANGED <<rows, gateway, projects, service>>

StoreAnswered(q) ==
  /\ gateway.at = "serves" /\ store[q].at = "write" /\ store[q].todo = {}
  /\ store' = [store EXCEPT ![q].at = "done"]
  /\ UNCHANGED <<rows, gateway, projects, vault, service, misreads>>

\* MustLoadSecrets: a variable that is set stays; an error, or a list that cannot be
\* decoded, sets none.
Loaded(vars) ==
  service' = [vars |-> vars, late |-> gateway.at = "serves" /\ \E q \in StoreCalls : store[q].at = "done"]

ServiceLoads ==
  /\ \/ /\ gateway.at = "serves"
        /\ \E p \in projects : Loaded(vault[p])
        /\ UNCHANGED misreads
     \/ /\ Loaded([k \in SecretKeys |-> None])
        /\ IF gateway.at # "serves" \/ projects = {} THEN UNCHANGED misreads ELSE Misread
  /\ UNCHANGED <<rows, gateway, projects, vault, store>>

SecretsInit ==
  /\ rows = [t \in Tables |-> {}]
  /\ gateway = [at |-> "down", run |-> 0, by |-> [t \in Tables |-> 0]]
  /\ projects = {} /\ vault = [p \in {} |-> [k \in SecretKeys |-> None]]
  /\ store = [q \in StoreCalls |-> NoStore]
  /\ service = [vars |-> [k \in SecretKeys |-> None], late |-> FALSE] /\ misreads = 0

SecretsNext ==
  \/ GatewayStarts \/ GatewayEnds \/ RoleSkipped \/ ProjectReady \/ ServiceLoads
  \/ \E t \in Tables : Seeds(t)
  \/ \E q \in StoreCalls :
       \/ \E v \in SecretValues : StoreAsked(q, v)
       \/ StoreFindsProject(q) \/ StoreFindsNone(q) \/ StoreMakesProject(q)
       \/ StoreWrites(q) \/ StoreAnswered(q)

SecretsTypeOK ==
  /\ rows \in [Tables -> SUBSET Runs] /\ projects \subseteq Runs
  /\ gateway \in Gateways /\ store \in [StoreCalls -> StoreRequests]
  /\ vault \in [projects -> [SecretKeys -> SecretValues \cup {None}]]
  /\ service \in [vars : [SecretKeys -> SecretValues \cup {None}], late : BOOLEAN]
  /\ misreads \in Nat

(***************************************************************************)
(* Secrets are found: however often the gateway ends half way through      *)
(* seeding, while every answer was right and no statement failed unnoticed *)
(* (seed.go:153, 159) there is one row of each kind and one project        *)
(* (seed.go:83-175, server.go:322), the gateway that serves goes by those  *)
(* rows and by the keys that are stored; and once a request to store was   *)
(* answered, every secret is there, with its own value or that of a        *)
(* request that ran with it or later, and a service that starts then lacks *)
(* none: the installer deletes its copies (infisical.go:173).              *)
(***************************************************************************)
SecretsAreFound ==
  misreads = 0 =>
    /\ \A t \in Tables : Cardinality(rows[t]) <= 1
    /\ Cardinality(projects) <= 1
    /\ gateway.at = "serves" => \A t \in Tables : rows[t] = {gateway.by[t]}
    /\ \A q \in StoreCalls : store[q].at = "done" =>
         \A k \in SecretKeys :
           vault[store[q].to][k] \in {store[o].value : o \in {q} \cup store[q].rivals}
    /\ service.late => \A k \in SecretKeys : service.vars[k] # None
=============================================================================
