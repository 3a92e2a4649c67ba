------------------------------ MODULE NetBlock ------------------------------
(***************************************************************************)
(* internal/appservice/netpolicy.go: the owner blocks an app's access to   *)
(* the internet.  The block is a mark in the app's record and rules in one *)
(* chain of the host's iptables for the addresses its pods have at that    *)
(* moment.  Toggles and the synchronisation at startup run command by      *)
(* command and side by side; pods come and go, and addresses are reused.   *)
(***************************************************************************)
EXTENDS Naturals, Sequences, SequencesExt, Values

CONSTANTS
  Blockables,      \* apps with a record, one pod each
  Addresses,
  Togglers,        \* requests to block or unblock at a time (a bound)
  Rounds,          \* times an unblock deletes each rule: 5 in the code
  MaxToggles,      \* (a bound)
  MaxPodMoves,     \* pods that start (a bound)
  MaxNetFaults     \* commands that fail, restarts of app-service and of the host (a bound)

\* A request that is being handled.
ToggleRuns ==
  [app : Blockables, at : {"hook", "look", "accept", "drop", "delete"}, on : BOOLEAN,
   addr : Addresses \cup {None}, left : 0 .. Rounds]

SyncRuns ==
  [at : {"start", "next", "look", "accept", "drop", "done"}, app : Blockables \cup {None},
   addr : Addresses \cup {None}, todo : SUBSET Blockables]

ASSUME NetAssumption ==
  /\ Rounds \in Nat \ {0}
  /\ None \notin Blockables /\ None \notin Addresses /\ None \notin ToggleRuns

VARIABLES
  address,    \* the app's pod: [Blockables -> Addresses or None]
  blocked,    \* InternetBlocked of the records
  chain,      \* PACKALARES-NET: each address' rules in order, "accept" or "drop"
  hooked,     \* FORWARD jumps to the chain
  toggle,     \* [Togglers -> [app, at, addr, left] or None]
  sync,       \* SyncInternetBlocks: its step, the app it is at, those it has still to do
  astray,     \* apps nothing is claimed about: see BlocksHold
  toggles, podMoves, netFaults

netVars == <<address, blocked, chain, hooked, toggle, sync, astray, toggles, podMoves, netFaults>>

NetFault == netFaults < MaxNetFaults /\ netFaults' = netFaults + 1

Toggling(a) == {t \in Togglers : toggle[t] # None /\ toggle[t].app = a}

ToggleAt(t, at) == toggle[t] # None /\ toggle[t].at = at

\* Apps other than a that have this address by now.
Others(a, addr) == {b \in Blockables \ {a} : addr # None /\ address[b] = addr}

\* No rules are left there, or those of whole blocks.
Orderly(addr) == addr = None \/ chain[addr] = <<>> \/ Head(chain[addr]) = "accept"

Inserted(rules, rule) == <<rule>> \o rules   \* a slip: -I

\* iptables -A.
Appended(rules, rule) == Append(rules, rule)

\* iptables -D: the first such rule.
Deleted(rules, rule) ==
  IF rule \in Range(rules) THEN RemoveFirst(rules, rule) ELSE rules

\* handleInternet: the record is marked and saved before the rules change.
ToggleStarts(t) ==
  /\ toggle[t] = None /\ toggles < MaxToggles
  /\ \E a \in Blockables, on \in BOOLEAN :
       /\ blocked' = [blocked EXCEPT ![a] = on]
       /\ toggle' = [toggle EXCEPT ![t] =
            [app |-> a, at |-> IF on THEN "hook" ELSE "look", on |-> on, addr |-> None, left |-> Rounds]]
       /\ astray' = IF Toggling(a) = {} /\ sync.app # a /\ Orderly(address[a]) THEN astray \ {a} ELSE astray \cup {a}
  /\ toggles' = toggles + 1
  /\ UNCHANGED <<address, chain, hooked, sync, podMoves, netFaults>>

\* The errors of iptables are discarded, and the app's block is not as its record says.
NetFails(a) == NetFault /\ astray' = astray \cup {a}

\* EnsureIptablesChain.
ToggleHooks(t) ==
  /\ ToggleAt(t, "hook")
  /\ \/ hooked' = TRUE /\ UNCHANGED <<astray, netFaults>>
     \/ NetFails(toggle[t].app) /\ UNCHANGED hooked
  /\ toggle' = [toggle EXCEPT ![t].at = "look"]
  /\ UNCHANGED <<address, blocked, chain, sync, toggles, podMoves>>

\* getPodIPs; its error, and an app without pods, end the request.
ToggleLooks(t) ==
  /\ ToggleAt(t, "look")
  /\ LET a == toggle[t].app IN
       IF address[a] = None
         THEN toggle' = [toggle EXCEPT ![t] = None]
         ELSE toggle' = [toggle EXCEPT ![t].addr = address[a],
                                       ![t].at = IF toggle[t].on THEN "accept" ELSE "delete"]
  /\ UNCHANGED <<address, blocked, chain, hooked, sync, astray, toggles, podMoves, netFaults>>

\* kubectl fails, or the client goes away, whose context the commands share.
ToggleFails(t) ==
  /\ toggle[t] # None /\ NetFails(toggle[t].app)
  /\ toggle' = [toggle EXCEPT ![t] = None]
  /\ UNCHANGED <<address, blocked, chain, hooked, sync, toggles, podMoves>>

\* BlockAppInternet: what may be reached first, then the rest.
Adds(a, addr, rule) ==
  \/ /\ chain' = [chain EXCEPT ![addr] = Appended(@, rule)]
     /\ astray' = astray \cup Others(a, addr)
     /\ UNCHANGED netFaults
  \/ NetFails(a) /\ UNCHANGED chain

ToggleAccepts(t) ==
  /\ ToggleAt(t, "accept")
  /\ Adds(toggle[t].app, toggle[t].addr, "accept")
  /\ toggle' = [toggle EXCEPT ![t].at = "drop"]
  /\ UNCHANGED <<address, blocked, hooked, sync, toggles, podMoves>>

ToggleDrops(t) ==
  /\ ToggleAt(t, "drop")
  /\ Adds(toggle[t].app, toggle[t].addr, "drop")
  /\ toggle' = [toggle EXCEPT ![t] = None]
  /\ UNCHANGED <<address, blocked, hooked, sync, toggles, podMoves>>

\* UnblockAppInternet: a round deletes the first of each rule.
ToggleDeletes(t) ==
  /\ ToggleAt(t, "delete")
  /\ LET a == toggle[t].app
         addr == toggle[t].addr
         rest == Deleted(Deleted(chain[addr], "accept"), "drop")
     IN  \/ /\ chain' = [chain EXCEPT ![addr] = rest]
            /\ astray' = astray \cup Others(a, addr)
                           \cup {b \in {a} : toggle[t].left = 1 /\ rest # <<>>}
            /\ UNCHANGED netFaults
         \/ /\ NetFault
            /\ \E kept \in {"accept", "drop"} :
                 chain' \in {chain, [chain EXCEPT ![addr] = Deleted(@, kept)]}
            /\ astray' = astray \cup {a} \cup Others(a, addr)
  /\ toggle' = [toggle EXCEPT ![t] = IF toggle[t].left = 1 THEN None ELSE [toggle[t] EXCEPT !.left = @ - 1]]
  /\ UNCHANGED <<address, blocked, hooked, sync, toggles, podMoves>>

\* SyncInternetBlocks, once when app-service starts: -N, the hook and -F.
SyncFlushes ==
  /\ sync.at = "start"
  /\ \/ /\ hooked' = TRUE
        /\ chain' = [addr \in Addresses |-> <<>>]
        /\ astray' = {a \in Blockables :
                       \E t \in Toggling(a) : a \in astray \/ toggle[t].at \in {"drop", "delete"}}
        /\ UNCHANGED netFaults
     \/ /\ NetFault
        /\ hooked' \in {hooked, TRUE}
        /\ chain' \in {chain, [addr \in Addresses |-> <<>>]}
        /\ astray' = Blockables
  /\ sync' = [sync EXCEPT !.at = "next", !.todo = Blockables]
  /\ UNCHANGED <<address, blocked, toggle, toggles, podMoves>>

\* The records are pointers: the mark is read when the loop comes to the app.  An app
\* that is stopped has no pod and is left out.
SyncTakes ==
  /\ sync.at = "next"
  /\ IF sync.todo = {}
       THEN sync' = [sync EXCEPT !.at = "done"]
       ELSE \E a \in sync.todo :
              sync' = [sync EXCEPT !.todo = @ \ {a},
                         !.app = IF blocked[a] /\ address[a] # None THEN a ELSE None,
                         !.at = IF blocked[a] /\ address[a] # None THEN "look" ELSE "next"]
  /\ UNCHANGED <<address, blocked, chain, hooked, toggle, astray, toggles, podMoves, netFaults>>

SyncLooks ==
  /\ sync.at = "look"
  /\ \/ /\ sync' = IF address[sync.app] = None THEN [sync EXCEPT !.at = "next", !.app = None]
                   ELSE [sync EXCEPT !.at = "accept", !.addr = address[sync.app]]
        /\ UNCHANGED <<astray, netFaults>>
     \/ /\ NetFails(sync.app)
        /\ sync' = [sync EXCEPT !.at = "next", !.app = None]
  /\ UNCHANGED <<address, blocked, chain, hooked, toggle, toggles, podMoves>>

SyncAccepts ==
  /\ sync.at = "accept"
  /\ Adds(sync.app, sync.addr, "accept")
  /\ sync' = [sync EXCEPT !.at = "drop"]
  /\ UNCHANGED <<address, blocked, hooked, toggle, toggles, podMoves>>

SyncDrops ==
  /\ sync.at = "drop"
  /\ Adds(sync.app, sync.addr, "drop")
  /\ sync' = [sync EXCEPT !.at = "next", !.app = None]
  /\ UNCHANGED <<address, blocked, hooked, toggle, toggles, podMoves>>

\* An app stops, or its pod ends; its rules stay.
PodGoes ==
  /\ \E a \in Blockables :
       address[a] # None /\ address' = [address EXCEPT ![a] = None]
  /\ UNCHANGED <<blocked, chain, hooked, toggle, sync, astray, toggles, podMoves, netFaults>>

\* A pod starts, with any address that is free: nothing tells app-service.
PodComes ==
  /\ podMoves < MaxPodMoves /\ podMoves' = podMoves + 1
  /\ \E a \in Blockables, addr \in Addresses :
       /\ address[a] = None /\ \A b \in Blockables : address[b] # addr
       /\ address' = [address EXCEPT ![a] = addr]
       /\ astray' = astray \cup {a}
  /\ UNCHANGED <<blocked, chain, hooked, toggle, sync, toggles, netFaults>>

ProcessStarts ==
  /\ toggle' = [t \in Togglers |-> None]
  /\ sync' = [at |-> "start", app |-> None, addr |-> None, todo |-> {}]
  /\ astray' = Blockables

\* app-service ends; the host's rules stay.
BlockerRestarts ==
  /\ NetFault /\ ProcessStarts
  /\ UNCHANGED <<address, blocked, chain, hooked, toggles, podMoves>>

\* The host restarts without its rules.
RulesLost ==
  /\ NetFault /\ ProcessStarts
  /\ chain' = [addr \in Addresses |-> <<>>] /\ hooked' = FALSE
  /\ UNCHANGED <<address, blocked, toggles, podMoves>>

NetInit ==
  /\ address = [a \in Blockables |-> None]
  /\ blocked = [a \in Blockables |-> FALSE]
  /\ chain = [addr \in Addresses |-> <<>>] /\ hooked = FALSE
  /\ toggle = [t \in Togglers |-> None]
  /\ sync = [at |-> "start", app |-> None, addr |-> None, todo |-> {}]
  /\ astray = {} /\ toggles = 0 /\ podMoves = 0 /\ netFaults = 0

NetNext ==
  \/ \E t \in Togglers :
       \/ ToggleStarts(t) \/ ToggleHooks(t) \/ ToggleLooks(t) \/ ToggleFails(t)
       \/ ToggleAccepts(t) \/ ToggleDrops(t) \/ ToggleDeletes(t)
  \/ SyncFlushes \/ SyncTakes \/ SyncLooks \/ SyncAccepts \/ SyncDrops
  \/ PodGoes \/ PodComes \/ BlockerRestarts \/ RulesLost

NetTypeOK ==
  /\ address \in [Blockables -> Addresses \cup {None}] /\ blocked \in [Blockables -> BOOLEAN]
  /\ chain \in [Addresses -> Seq({"accept", "drop"})]
  /\ toggle \in [Togglers -> {None} \cup ToggleRuns] /\ sync \in SyncRuns
  /\ hooked \in BOOLEAN /\ astray \subseteq Blockables

\* The host drops what the pod sends to the internet, and lets the rest through.
CutOff(addr) ==
  hooked /\ chain[addr] # <<>> /\ Head(chain[addr]) = "accept" /\ "drop" \in Range(chain[addr])

(***************************************************************************)
(* Blocks hold: when no request is being handled and startup is over, a    *)
(* pod of a blocked app reaches the cluster and nothing else, and one of   *)
(* an app that is not blocked is under no rule, although startup flushes   *)
(* the chain under requests that are adding to it (netpolicy.go:77) and    *)
(* blocks are repeated.  Not claimed of an app that is astray: its pod     *)
(* started after the last toggle or startup, two of its toggles overlapped *)
(* or one met the synchronisation half way, its address had another owner, *)
(* more rules than an unblock deletes; or a command failed since its last  *)
(* toggle (one of startup's: any app), whose error is discarded while the  *)
(* request answers that the app is blocked (netpolicy.go:23-27, 42-45,     *)
(* 62-64, 75-77).                                                          *)
(***************************************************************************)
BlocksHold ==
  (sync.at = "done" /\ \A t \in Togglers : toggle[t] = None) =>
    \A a \in Blockables \ astray :
      address[a] # None =>
        IF blocked[a] THEN CutOff(address[a]) ELSE chain[address[a]] = <<>>
=============================================================================
