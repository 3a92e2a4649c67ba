----------------------------- MODULE UserTable -----------------------------
(***************************************************************************)
(* The users the L4 proxy routes TLS connections to (internal/l4proxy).    *)
(* A timer and a watch each list the User resources and then replace the   *)
(* table, so the older list may be stored last; connections read the table *)
(* in between.  A zone belongs to one user and is named by that user; an   *)
(* ephemeral user shares the zone of its creator.  No app of one user has  *)
(* the name of another user's zone.                                        *)
(***************************************************************************)
EXTENDS Naturals, FiniteSets, Values

CONSTANTS
  Accounts,        \* names of User resources
  Owner,           \* the account with the owner's role, if it exists
  Endings,         \* <<z, y>>: z's zone is y's with letters, digits, hyphens in front, dot or not
  MaxUserEdits,    \* changes of User resources (a bound)
  MaxLookupFails   \* listings in which a service's address is not found (a bound)

UserResources == [creator : Accounts \cup {"cli", None}, deny : BOOLEAN, born : Nat]

\* "cli" is the creator that stands for the owner; an account of that name would be
\* taken for it.
ASSUME UserAssumption ==
  /\ {"cli", None} \cap Accounts = {} /\ None \notin UserResources
  /\ \A e \in Endings : e[1] # e[2]

VARIABLES
  users,     \* the User resources
  table,     \* Proxy.users, a set: the order is by age
  listing,   \* what the timer and the watch have listed and not yet stored
  news,      \* the watch has an event to deliver
  edits, lookupFails

userVars == <<users, table, listing, news, edits, lookupFails>>

Refreshers == {"timer", "watch"}

Profiles == [creator : Accounts \cup {"cli", None}, deny : BOOLEAN]

Ephemeral(u) == u.creator # None

\* findUser; "cli" stands for the owner.
Creators(u) ==
  {o \in Accounts : users[o] # None /\
     (o = users[u].creator \/ (users[u].creator = "cli" /\ o = Owner))}

\* listUsers: a user without a creator or an address is left out.
Rows(unresolved) ==
  {u \in Accounts \ unresolved : users[u] # None /\ (Ephemeral(users[u]) => Creators(u) # {})}

\* An ephemeral user inherits the zone and the access rules of its creator.
Row(u) ==
  LET o == IF Ephemeral(users[u]) THEN CHOOSE o \in Creators(u) : TRUE ELSE u
  IN [name |-> u, zone |-> o, ephemeral |-> Ephemeral(users[u]), born |-> users[u].born,
      deny |-> users[o].deny]

Listed(unresolved) == {Row(u) : u \in Rows(unresolved)}

\* An account is made, edited, or removed; one that is made is the newest.
UserEdits(u) ==
  /\ edits < MaxUserEdits
  /\ edits' = edits + 1
  /\ \/ \E p \in Profiles :
          /\ p.creator = None \/ (u # Owner /\ p.creator \in {"cli", Owner})
          /\ users' = [users EXCEPT ![u] =
               [creator |-> p.creator, deny |-> p.deny,
                born |-> IF @ = None THEN edits' ELSE @.born]]
     \/ users[u] # None /\ users' = [users EXCEPT ![u] = None]
  /\ news' = TRUE
  /\ UNCHANGED <<table, listing, lookupFails>>

\* refreshUsers up to the lock, every 15 seconds and for every event.
Lists(r) ==
  /\ listing[r] = None
  /\ r = "watch" => news
  /\ news' = IF r = "watch" THEN FALSE ELSE news
  /\ \/ listing' = [listing EXCEPT ![r] = [rows |-> Listed({})]] /\ UNCHANGED lookupFails
     \/ /\ lookupFails < MaxLookupFails /\ lookupFails' = lookupFails + 1
        /\ \E u \in Rows({}) : listing' = [listing EXCEPT ![r] = [rows |-> Listed({u})]]
  /\ UNCHANGED <<users, table, edits>>

\* The watch ends before its event arrives, or the list fails.
WatchBreaks ==
  /\ news
  /\ news' = FALSE
  /\ UNCHANGED <<users, table, listing, edits, lookupFails>>

AddsRows(rows) == table \cup {n \in rows : \A o \in table : o.name # n.name}   \* a slip

\* The list replaces the table, whichever list is the newer.
Replaced(rows) == rows

TableStores(r) ==
  /\ listing[r] # None
  /\ table' = Replaced(listing[r].rows)
  /\ listing' = [listing EXCEPT ![r] = None]
  /\ UNCHANGED <<users, news, edits, lookupFails>>

\* Server names: a zone's own or one below it, of is an ephemeral user or an app; None: no SNI.
Hosts == [zone : Accounts, of : Accounts \cup {None}] \cup {None}

NewestOf(rows) == {d \in rows : \A o \in rows : o.born <= d.born}

\* A zone's own names and those of one label below it; the dot in front of the zone is
\* optional, so that a zone's own name may end in another zone.
Fits(host, zone) ==
  host # None /\ (host.zone = zone \/ (host.of = None /\ <<host.zone, zone>> \in Endings))

\* matchUser: ephemeral users first, then the zones' own users, the newest first.
Matched(host) ==
  LET guests == {t \in table : t.ephemeral /\ host # None /\ host.zone = t.zone /\ host.of = t.name}
      locals == {t \in table : ~t.ephemeral /\ Fits(host, t.zone)}
  IN IF guests # {} THEN guests ELSE NewestOf(locals)

\* handleConn: without a match the first user of the table counts, the newest.
Target(host) == IF Matched(host) # {} THEN Matched(host) ELSE NewestOf(table)

\* denyFilter: only the zone itself is open to outside addresses.
Passes(t, host, outside) ==
  ~outside \/ ~t.deny \/ (host # None /\ host = [zone |-> t.zone, of |-> None])

\* handleConn: the user a connection is handed to, or "dropped".
Routed(host, outside) ==
  IF Target(host) = {} THEN "dropped"
  ELSE LET t == CHOOSE t \in Target(host) : TRUE
       IN IF Passes(t, host, outside) THEN t.name ELSE "dropped"

UserInit ==
  /\ users = [u \in Accounts |-> None]
  /\ table = {} /\ listing = [r \in Refreshers |-> None]
  /\ news = FALSE /\ edits = 0 /\ lookupFails = 0

UserNext ==
  \/ \E u \in Accounts : UserEdits(u)
  \/ \E r \in Refreshers : Lists(r) \/ TableStores(r)
  \/ WatchBreaks

UserTypeOK ==
  /\ \A t \in table : t.name \in Accounts /\ t.zone \in Accounts /\ t.born \in 1 .. MaxUserEdits
  /\ news \in BOOLEAN
  /\ edits \in 0 .. MaxUserEdits

\* Who is meant by a server name, by the User resources alone.
MeantFor(host) ==
  {u \in Accounts : users[u] # None /\ host # None /\
     IF Ephemeral(users[u]) THEN host.of = u /\ host.zone \in Creators(u) ELSE host.zone = u}

\* The own name of a zone that ends in the zone of a user who is not older: matchUser's
\* pattern for the names below a zone takes it (its dot is optional).
Captured(host) ==
  /\ host # None /\ host.of = None
  /\ \E u \in Accounts :
       /\ <<host.zone, u>> \in Endings /\ users[u] # None /\ ~Ephemeral(users[u])
       /\ users[u].born >= users[host.zone].born

\* Every name of a zone that exists is routed to the user it belongs to, an ephemeral
\* user's before its creator's, and outside addresses are let in by that zone's rule; but
\* for the zones' own names that another zone's pattern takes.
RoutesRight ==
  \A host \in Hosts : MeantFor(host) # {} /\ ~Captured(host) =>
    /\ Routed(host, FALSE) \in MeantFor(host)
    /\ \A u \in MeantFor(host) : Ephemeral(users[u]) => Routed(host, FALSE) = u
    /\ Routed(host, TRUE) = IF users[host.zone].deny /\ host.of # None
                            THEN "dropped" ELSE Routed(host, FALSE)

(***************************************************************************)
(* Once the users stay as they are the routes come to be right, although   *)
(* an older list may be stored last, a listing may miss a user and events  *)
(* may be lost (refreshUsers, matchUser, denyFilter).  Not so where a zone *)
(* ends in a newer one: "joann.example" goes to the user of "ann.example". *)
(***************************************************************************)
RoutesSettle == <>[]RoutesRight
=============================================================================
