---------------------------- MODULE AuthSessions ----------------------------
(***************************************************************************)
(* The sessions and TOTP secrets of internal/auth, kept in Redis.  Every   *)
(* handler reads the session named by the cookie, then acts on what it     *)
(* read, one Redis command at a time; requests of one session overlap, and *)
(* the server may restart in the middle of any of them.                    *)
(***************************************************************************)
EXTENDS Naturals, Values

CONSTANTS
  Users,      \* user names
  Sessions,   \* session ids: random, so none is made twice
  Secrets,    \* TOTP secrets: random, so none is made twice
  Calls       \* the requests the server handles at a time (a bound)

VARIABLES
  session,    \* Redis: [Sessions -> user and level, or None]
  made,       \* the session ids ever made
  secret,     \* Redis: the active secret of a user, or None
  pending,    \* Redis: the secret a user is setting up, or None
  minted,     \* the secrets ever generated
  shown,      \* [Users -> the secrets for which the user gave a right code]
  call        \* the requests under way

sessionVars == <<session, made, secret, pending, minted, shown, call>>

Operations == {"verify", "code", "enrol", "activate", "disable", "revoke"}

Steps == {"read", "upgrade", "store", "clear", "delete"}

Ends(c) == call' = [call EXCEPT ![c] = None]

Goes(c, step, what) == call' = [call EXCEPT ![c].at = step, ![c].what = what]

At(c, op, step) == call[c] # None /\ call[c].op = op /\ call[c].at = step

\* handleFirstFactor, password accepted: SessionStore.Create, level 1.
FirstFactor(u, id) ==
  /\ id \notin made
  /\ made' = made \cup {id}
  /\ session' = [session EXCEPT ![id] = [user |-> u, level |-> 1]]
  /\ UNCHANGED <<secret, pending, minted, shown, call>>

\* getSession: the handlers go on with the session as it was read.
Opens(c, id, op) ==
  /\ call[c] = None /\ session[id] # None
  /\ call' = [call EXCEPT ![c] = [op |-> op, id |-> id, held |-> session[id],
                                  at |-> "read", what |-> None]]
  /\ UNCHANGED <<session, made, secret, pending, minted, shown>>

TouchesByUpdate(c) ==   \* a slip: the data read is stored again
  /\ At(c, "verify", "read")
  /\ Ends(c)
  /\ session' = [session EXCEPT ![call[c].id] = call[c].held]

\* handleVerify: SessionStore.Touch only moves the expiry of a key that exists.
Touches(c) ==
  /\ At(c, "verify", "read")
  /\ Ends(c)
  /\ UNCHANGED session

Verifies(c) ==
  /\ Touches(c)
  /\ UNCHANGED <<made, secret, pending, minted, shown>>

\* handleSecondFactorTOTP: reads the active secret and compares the code.
CodeRight(c) ==
  /\ At(c, "code", "read") /\ secret[call[c].held.user] # None
  /\ Goes(c, "upgrade", None)
  /\ UNCHANGED <<session, made, secret, pending, minted, shown>>

\* SessionStore.Update sets the whole value: what was read, at level 2.
Upgrades(c) ==
  /\ At(c, "code", "upgrade")
  /\ session' = [session EXCEPT ![call[c].id] = [call[c].held EXCEPT !.level = 2]]
  /\ Ends(c)
  /\ UNCHANGED <<made, secret, pending, minted, shown>>

\* handleTOTPRegister, POST: a new secret, pending only.
Enrols(c) ==
  /\ At(c, "enrol", "read")
  /\ \E t \in Secrets \ minted :
       /\ minted' = minted \cup {t}
       /\ pending' = [pending EXCEPT ![call[c].held.user] = t]
  /\ Ends(c)
  /\ UNCHANGED <<session, made, secret, shown>>

\* PUT: the code is compared with the pending secret as it is now.
PendingRight(c) ==
  LET u == call[c].held.user IN
  /\ At(c, "activate", "read") /\ pending[u] # None
  /\ shown' = [shown EXCEPT ![u] = @ \cup {pending[u]}]
  /\ Goes(c, "store", pending[u])
  /\ UNCHANGED <<session, made, secret, pending, minted>>

ActivatesPending(c, u) == pending[u]   \* a slip: read again when it is stored

\* PUT goes on with the secret that was compared.
Activated(c, u) == call[c].what

Activates(c) ==
  LET u == call[c].held.user IN
  /\ At(c, "activate", "store")
  /\ secret' = [secret EXCEPT ![u] = Activated(c, u)]
  /\ Goes(c, "clear", None)
  /\ UNCHANGED <<session, made, pending, minted, shown>>

\* DELETE: the active secret, then the pending one.
Disables(c) ==
  /\ At(c, "disable", "read")
  /\ secret' = [secret EXCEPT ![call[c].held.user] = None]
  /\ Goes(c, "clear", None)
  /\ UNCHANGED <<session, made, pending, minted, shown>>

\* deletePendingTOTP, after PUT and DELETE.
Clears(c) ==
  /\ call[c] # None /\ call[c].at = "clear"
  /\ pending' = [pending EXCEPT ![call[c].held.user] = None]
  /\ Ends(c)
  /\ UNCHANGED <<session, made, secret, minted, shown>>

\* handleSessions, DELETE: lists the user's sessions, then deletes the one named.
Finds(c) ==
  /\ At(c, "revoke", "read")
  /\ \E id \in Sessions :
       /\ session[id] # None /\ session[id].user = call[c].held.user
       /\ Goes(c, "delete", id)
  /\ UNCHANGED <<session, made, secret, pending, minted, shown>>

Revokes(c) ==
  /\ At(c, "revoke", "delete")
  /\ session' = [session EXCEPT ![call[c].what] = None]
  /\ Ends(c)
  /\ UNCHANGED <<made, secret, pending, minted, shown>>

\* A handler answers an error: nothing found, a wrong code, Redis fails.
Refuses(c) ==
  /\ call[c] # None
  /\ Ends(c)
  /\ UNCHANGED <<session, made, secret, pending, minted, shown>>

\* handleLogout, or the session's time in Redis is over.
SessionEnds(id) ==
  /\ session[id] # None
  /\ session' = [session EXCEPT ![id] = None]
  /\ UNCHANGED <<made, secret, pending, minted, shown, call>>

\* The pending secret's five minutes are over.
PendingExpires(u) ==
  /\ pending[u] # None
  /\ pending' = [pending EXCEPT ![u] = None]
  /\ UNCHANGED <<session, made, secret, minted, shown, call>>

SessionsInit ==
  /\ session = [id \in Sessions |-> None]
  /\ made = {} /\ minted = {}
  /\ secret = [u \in Users |-> None]
  /\ pending = [u \in Users |-> None]
  /\ shown = [u \in Users |-> {}]
  /\ call = [c \in Calls |-> None]

SessionsNext ==
  \/ \E u \in Users, id \in Sessions : FirstFactor(u, id)
  \/ \E c \in Calls, id \in Sessions, op \in Operations : Opens(c, id, op)
  \/ \E c \in Calls :
       \/ Verifies(c) \/ CodeRight(c) \/ Upgrades(c)
       \/ Enrols(c) \/ PendingRight(c) \/ Activates(c) \/ Disables(c) \/ Clears(c)
       \/ Finds(c) \/ Revokes(c) \/ Refuses(c)
  \/ \E id \in Sessions : SessionEnds(id)
  \/ \E u \in Users : PendingExpires(u)

Session == [user : Users, level : 1 .. 2]

SessionsTypeOK ==
  /\ session \in [Sessions -> Session \cup {None}]
  /\ made \subseteq Sessions /\ minted \subseteq Secrets
  /\ secret \in [Users -> Secrets \cup {None}]
  /\ pending \in [Users -> Secrets \cup {None}]
  /\ shown \in [Users -> SUBSET Secrets]
  /\ call \in [Calls -> {None} \cup
       [op : Operations, id : Sessions, held : Session, at : Steps,
        what : Secrets \cup Sessions \cup {None}]]

\* Nobody is asked for codes of a secret they have not shown to have.
ActiveIsShown == \A u \in Users : secret[u] # None => secret[u] \in shown[u]

\* A second factor that had read a session before it ended can store it again, at level 2.
EndedStaysEnded ==
  \A id \in made :
    session[id] = None /\ session'[id] # None => session'[id].level = 2

(***************************************************************************)
(* Sessions are sound: a secret is pending until a code was right,         *)
(* whatever setups, removals and expiries overlap (handleTOTPRegister),    *)
(* and a session that ended does not come back because of a page that was  *)
(* loading: only a second factor brings it back (Update, Touch).           *)
(***************************************************************************)
SessionsAreSound == []ActiveIsShown /\ [][EndedStaysEnded]_sessionVars
=============================================================================
