---------------------------- MODULE MCEdge ----------------------------
(***************************************************************************)
(* The components of the edge that have to get somewhere: the login        *)
(* limiter, the auth server's copy of the public hosts, the L4 proxy's     *)
(* users, the websocket hub.  They share no state, so each is explored by  *)
(* itself: part is the one that moves, and the behaviours are exactly each *)
(* component's.                                                            *)
(***************************************************************************)
EXTENDS LoginLimiter, PublicWatcher, UserTable, WSHub

\* Every other account's zone ends in the owner's, as joann.example does in ann.example.
OwnersEnding == (Accounts \ {Owner}) \X {Owner}

VARIABLE part

Parts == {"limiter", "watcher", "users", "hub"}

edgeVars == <<part, limiterVars, watcherVars, userVars, hubVars>>

EdgeInit == part \in Parts /\ LimiterInit /\ WatcherInit /\ UserInit /\ HubInit

EdgeNext ==
  /\ UNCHANGED part
  /\ \/ part = "limiter" /\ LimiterNext /\ UNCHANGED <<watcherVars, userVars, hubVars>>
     \/ part = "watcher" /\ WatcherNext /\ UNCHANGED <<limiterVars, userVars, hubVars>>
     \/ part = "users" /\ UserNext /\ UNCHANGED <<limiterVars, watcherVars, hubVars>>
     \/ part = "hub" /\ HubNext /\ UNCHANGED <<limiterVars, watcherVars, userVars>>

\* What stands still while one component moves.
Only(p) ==
  /\ part = p /\ UNCHANGED part
  /\ p # "limiter" => UNCHANGED limiterVars
  /\ p # "watcher" => UNCHANGED watcherVars
  /\ p # "users" => UNCHANGED userVars
  /\ p # "hub" => UNCHANGED hubVars

\* Redis drops expired keys whatever the server does; the watcher's ticker and the
\* proxy's timer go on while their processes run, and what was listed is stored.
\* The hub's goroutines go on, and a writer waiting for an RWMutex gets it although
\* readers come and go.
EdgeFairness ==
  /\ \A k \in Keys : WF_edgeVars(Only("limiter") /\ CounterExpires(k))
  /\ WF_edgeVars(Only("watcher") /\ Ticks)
  /\ WF_edgeVars(Only("users") /\ Lists("timer"))
  /\ \A r \in Refreshers : WF_edgeVars(Only("users") /\ TableStores(r))
  /\ \A c \in Clients :
       /\ WF_edgeVars(Only("hub") /\ Welcomes(c))
       /\ WF_edgeVars(Only("hub") /\ ReaderEnds(c))
       /\ WF_edgeVars(Only("hub") /\ PingFails(c))
       /\ SF_edgeVars(Only("hub") /\ Unregisters(c))
  /\ \A m \in Messages :
       /\ WF_edgeVars(Only("hub") /\ BroadcastEnds(m))
       /\ \A c \in Clients : WF_edgeVars(Only("hub") /\ Offers(m, c))

EdgeSpec == EdgeInit /\ [][EdgeNext]_edgeVars /\ EdgeFairness

EdgeTypeOK == part \in Parts /\ LimiterTypeOK /\ WatcherTypeOK /\ UserTypeOK /\ HubTypeOK
=============================================================================
