------------------------------- MODULE WSHub -------------------------------
(***************************************************************************)
(* internal/appservice/websocket.go.  Broadcasts hold the hub's read lock  *)
(* while they offer the message to each client's buffer, dropping it where *)
(* the buffer is full; register and unregister, which closes the buffer,   *)
(* hold the write lock.  A connection's writer goroutine drains the buffer *)
(* and pings; its handler leaves after the reader and then the writer end. *)
(***************************************************************************)
EXTENDS Naturals, Sequences, Functions, Values

CONSTANTS
  Clients,    \* connections
  Messages,   \* broadcasts; none is made twice
  Buffer,     \* messages a client's channel holds, 64 in the code
  MaxJoins    \* connections made (a bound)

ASSUME HubAssumption ==
  /\ Buffer \in Nat \ {0} /\ MaxJoins \in Nat
  /\ \A S \in SUBSET Messages \cup SUBSET Clients : S # None

VARIABLES
  clients,   \* hub.clients: [Clients -> the broadcasts over when it was registered, or None]
  queue,     \* the client's buffered channel
  closed,    \* the clients whose channel was closed
  cast,      \* [Messages -> the clients still to be offered it; None before and after]
  began,     \* [Messages -> the broadcasts over when it began, or None]
  done,      \* the broadcasts that ended
  conn,      \* the connection: "none", "up", or "down" once the client is gone
  reader, writer,  \* the goroutines: "none", "on", "ended"; the reader also "welcome"
  received,  \* what the connection carried, in order
  panicked,  \* a message was sent on a closed channel
  joins

hubVars == <<clients, queue, closed, cast, began, done, conn, reader, writer, received,
             panicked, joins>>

Registered == {c \in Clients : clients[c] # None}

Running == {m \in Messages : cast[m] # None}

NoLock == TRUE                  \* a slip: unregister takes no lock

\* hub.mu.Lock: no broadcast is under way.
Locked == Running = {}

\* AuthWebSocketHandler let the connection in; the handler registers it.
Registers(c) ==
  /\ joins < MaxJoins /\ reader[c] = "none" /\ writer[c] = "none"
  /\ Running = {}
  /\ joins' = joins + 1
  /\ clients' = [clients EXCEPT ![c] = done]
  /\ queue' = [queue EXCEPT ![c] = <<>>]
  /\ closed' = closed \ {c}
  /\ conn' = [conn EXCEPT ![c] = "up"]
  /\ reader' = [reader EXCEPT ![c] = "welcome"]
  /\ received' = [received EXCEPT ![c] = <<>>]
  /\ UNCHANGED <<cast, began, done, writer, panicked>>

\* The welcome message is written; then the writer starts and the reader reads.
Welcomes(c) ==
  /\ reader[c] = "welcome"
  /\ \/ /\ reader' = [reader EXCEPT ![c] = "on"]
        /\ writer' = [writer EXCEPT ![c] = "on"]
     \/ /\ conn[c] = "down"
        /\ reader' = [reader EXCEPT ![c] = "ended"]
        /\ UNCHANGED writer
  /\ UNCHANGED <<clients, queue, closed, cast, began, done, conn, received, panicked, joins>>

\* Broadcast takes the read lock; the metrics pusher looks for clients before.
BroadcastBegins(m, pusher) ==
  /\ began[m] = None /\ ~panicked
  /\ pusher => Registered # {}
  /\ began' = [began EXCEPT ![m] = done]
  /\ cast' = [cast EXCEPT ![m] = Registered]
  /\ UNCHANGED <<clients, queue, closed, done, conn, reader, writer, received, panicked, joins>>

\* The non-blocking send.
Offers(m, c) ==
  /\ cast[m] # None /\ c \in cast[m]
  /\ cast' = [cast EXCEPT ![m] = @ \ {c}]
  /\ panicked' = (panicked \/ c \in closed)
  /\ queue' = IF Len(queue[c]) < Buffer /\ c \notin closed
                THEN [queue EXCEPT ![c] = Append(@, m)] ELSE queue
  /\ UNCHANGED <<clients, closed, began, done, conn, reader, writer, received, joins>>

BroadcastEnds(m) ==
  /\ cast[m] = {}
  /\ cast' = [cast EXCEPT ![m] = None]
  /\ done' = done \cup {m}
  /\ UNCHANGED <<clients, queue, closed, began, conn, reader, writer, received, panicked, joins>>

\* The writer's select, the channel's side; a write to a client that is gone may
\* still succeed into the socket's buffer, where it is lost.
Sends(c) ==
  /\ writer[c] = "on" /\ queue[c] # <<>>
  /\ queue' = [queue EXCEPT ![c] = Tail(@)]
  /\ \/ conn[c] = "up" /\ received' = [received EXCEPT ![c] = Append(@, Head(queue[c]))]
     \/ conn[c] = "down" /\ UNCHANGED received
  /\ UNCHANGED <<clients, closed, cast, began, done, conn, reader, writer, panicked, joins>>

SendFails(c) ==
  /\ writer[c] = "on" /\ queue[c] # <<>> /\ conn[c] = "down"
  /\ queue' = [queue EXCEPT ![c] = Tail(@)]
  /\ writer' = [writer EXCEPT ![c] = "ended"]
  /\ UNCHANGED <<clients, closed, cast, began, done, conn, reader, received, panicked, joins>>

PingsNever(c) == FALSE          \* a slip: the writer has no ticker

\* The ticker's side: the ping fails.
PingFails(c) ==
  /\ writer[c] = "on" /\ conn[c] = "down"
  /\ writer' = [writer EXCEPT ![c] = "ended"]
  /\ UNCHANGED <<clients, queue, closed, cast, began, done, conn, reader, received, panicked, joins>>

\* The client goes away, or its connection breaks.
Disconnects(c) ==
  /\ conn[c] = "up"
  /\ conn' = [conn EXCEPT ![c] = "down"]
  /\ UNCHANGED <<clients, queue, closed, cast, began, done, reader, writer, received, panicked, joins>>

ReaderEnds(c) ==
  /\ reader[c] = "on" /\ conn[c] = "down"
  /\ reader' = [reader EXCEPT ![c] = "ended"]
  /\ UNCHANGED <<clients, queue, closed, cast, began, done, conn, writer, received, panicked, joins>>

\* The handler returns after the reader, and after <-done if there is a writer.
Unregisters(c) ==
  /\ reader[c] = "ended" /\ writer[c] \in {"none", "ended"}
  /\ Locked
  /\ clients' = [clients EXCEPT ![c] = None]
  /\ closed' = closed \cup {c}
  /\ conn' = [conn EXCEPT ![c] = "none"]
  /\ reader' = [reader EXCEPT ![c] = "none"]
  /\ writer' = [writer EXCEPT ![c] = "none"]
  /\ UNCHANGED <<queue, cast, began, done, received, panicked, joins>>

HubInit ==
  /\ clients = [c \in Clients |-> None]
  /\ queue = [c \in Clients |-> <<>>]
  /\ closed = {}
  /\ cast = [m \in Messages |-> None]
  /\ began = [m \in Messages |-> None]
  /\ done = {}
  /\ conn = [c \in Clients |-> "none"]
  /\ reader = [c \in Clients |-> "none"]
  /\ writer = [c \in Clients |-> "none"]
  /\ received = [c \in Clients |-> <<>>]
  /\ panicked = FALSE /\ joins = 0

HubNext ==
  \/ \E c \in Clients :
       \/ Registers(c) \/ Welcomes(c) \/ Sends(c) \/ SendFails(c) \/ PingFails(c)
       \/ Disconnects(c) \/ ReaderEnds(c) \/ Unregisters(c)
  \/ \E m \in Messages, pusher \in BOOLEAN : BroadcastBegins(m, pusher)
  \/ \E m \in Messages : BroadcastEnds(m) \/ \E c \in Clients : Offers(m, c)

HubTypeOK ==
  /\ clients \in [Clients -> {None} \cup SUBSET Messages]
  /\ {queue, received} \subseteq [Clients -> Seq(Messages)]
  /\ \A c \in Clients : Len(queue[c]) <= Buffer
  /\ began \in [Messages -> {None} \cup SUBSET Messages]
  /\ closed \subseteq Clients /\ done \subseteq Messages
  /\ cast \in [Messages -> {None} \cup SUBSET Clients]
  /\ conn \in [Clients -> {"none", "up", "down"}]
  /\ reader \in [Clients -> {"none", "welcome", "on", "ended"}]
  /\ writer \in [Clients -> {"none", "on", "ended"}]
  /\ panicked \in BOOLEAN /\ joins \in 0 .. MaxJoins

F == INSTANCE Feed WITH since <- began, over <- done, joined <- clients, got <- received,
                        stopped <- panicked

(***************************************************************************)
(* The hub implements the feed: whatever registrations, broadcasts, full   *)
(* buffers, failed writes and disconnections interleave, no client gets a  *)
(* message twice, out of order or after it left, and none is sent on the   *)
(* channel that unregister closed (Broadcast, unregister).                 *)
(***************************************************************************)
Feeds == F!FeedSpec

(***************************************************************************)
(* A client that is gone is forgotten, even when nothing is broadcast: the *)
(* handler waits for the writer, and the ping ends it (<-done).            *)
(***************************************************************************)
GoneIsForgotten == \A c \in Clients : conn[c] = "down" ~> conn[c] # "down"
=============================================================================
