------------------------------- MODULE Feed -------------------------------
(***************************************************************************)
(* What the websocket hub promises its clients.  A client receives some of *)
(* the broadcasts that were not over when it joined, each at most once,    *)
(* none after it left, and never a broadcast that ended before another one *)
(* it already has began.  Broadcasts that overlap may reach two clients in *)
(* different orders.  Nothing stops the service.                           *)
(***************************************************************************)
EXTENDS Sequences, Functions, Values

CONSTANTS Clients, Messages

VARIABLES
  since,    \* [Messages -> the broadcasts over when it began; None if it has not]
  over,     \* the broadcasts that ended
  joined,   \* [Clients -> the broadcasts over when it joined; None if it is not there]
  got,      \* [Clients -> what it received, in order]
  stopped   \* the process panicked

feedVars == <<since, over, joined, got, stopped>>

FeedInit ==
  /\ since = [m \in Messages |-> None]
  /\ over = {}
  /\ joined = [c \in Clients |-> None]
  /\ got = [c \in Clients |-> <<>>]
  /\ stopped = FALSE

Begins(m) ==
  /\ since[m] = None
  /\ since' = [since EXCEPT ![m] = over]
  /\ UNCHANGED <<over, joined, got, stopped>>

Ends(m) ==
  /\ since[m] # None /\ m \notin over
  /\ over' = over \cup {m}
  /\ UNCHANGED <<since, joined, got, stopped>>

Joins(c) ==
  /\ joined[c] = None
  /\ joined' = [joined EXCEPT ![c] = over]
  /\ got' = [got EXCEPT ![c] = <<>>]
  /\ UNCHANGED <<since, over, stopped>>

Leaves(c) ==
  /\ joined[c] # None
  /\ joined' = [joined EXCEPT ![c] = None]
  /\ UNCHANGED <<since, over, got, stopped>>

Receives(c, m) ==
  /\ joined[c] # None /\ since[m] # None
  /\ m \notin joined[c] \cup Range(got[c])
  /\ \A n \in Range(got[c]) : m \notin since[n]
  /\ got' = [got EXCEPT ![c] = Append(@, m)]
  /\ UNCHANGED <<since, over, joined, stopped>>

FeedNext ==
  \/ \E m \in Messages : Begins(m) \/ Ends(m)
  \/ \E c \in Clients : Joins(c) \/ Leaves(c) \/ \E m \in Messages : Receives(c, m)

FeedSpec == FeedInit /\ [][FeedNext]_feedVars
=============================================================================
