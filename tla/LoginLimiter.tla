---------------------------- MODULE LoginLimiter ----------------------------
(***************************************************************************)
(* internal/auth/ratelimit.go as handleFirstFactor uses it.  Failed logins *)
(* are counted in Redis per client address and per user name.  A login     *)
(* reads both counters before it asks LLDAP and writes them after, so      *)
(* requests overlap; a counter is written by INCR and then EXPIRE, and     *)
(* EXPIRE may not happen.  Errors of Redis are ignored: a counter that     *)
(* cannot be read counts as 0, one that cannot be written stays.           *)
(***************************************************************************)
EXTENDS Naturals, FiniteSets, Values

CONSTANTS
  Names,        \* user names
  Addrs,        \* client addresses
  Logins,       \* the requests the server handles at a time (a bound)
  MaxAttempts,  \* failures that block, 10 in the code
  MaxLapses,    \* EXPIRE commands that do not happen (a bound)
  MaxErrors     \* other commands that fail and let a login pass (a bound)

Keys == Names \cup Addrs

LoginRecords == [name : Names, addr : Addrs, at : {"password", "count"}, todo : SUBSET Keys]

ASSUME LimiterAssumption ==
  /\ MaxAttempts \in Nat /\ MaxLapses \in Nat /\ MaxLapses < MaxAttempts /\ MaxErrors \in Nat
  /\ IsFiniteSet(Logins) /\ Names \cap Addrs = {}
  /\ None \notin LoginRecords

VARIABLES
  fails,    \* the counters: [Names \cup Addrs -> number and whether Redis will drop it]
  login,    \* the logins under way
  lapses,   \* EXPIRE commands that did not happen
  errors,   \* logins whose check could not read a counter, and INCRs that failed
  tried     \* observed, not in Redis: wrong passwords since the counter last began anew

limiterVars == <<fails, login, lapses, errors, tried>>

Zero == [n |-> 0, ttl |-> FALSE]

KeysOf(l) == {login[l].name, login[l].addr}

AllowsByAddress(keys) ==   \* a slip: the user's counter is not read
  \A k \in keys \cap Addrs : fails[k].n < MaxAttempts

\* RateLimiter.Check: the larger of the two counters decides; a counter that Redis does
\* not answer for counts as 0 (getFailures), so keys are the ones that were read.
Allows(keys) == \A k \in keys : fails[k].n < MaxAttempts

(***************************************************************************)
(* handleFirstFactor, up to the password check; a blocked login ends.      *)
(***************************************************************************)
LoginStarts(l) ==
  \E name \in Names, addr \in Addrs : \E unread \in SUBSET {name, addr} :
    /\ login[l] = None
    /\ Allows({name, addr} \ unread)
    /\ errors' = IF unread = {} THEN errors ELSE errors + 1
    /\ errors' <= MaxErrors
    /\ login' = [login EXCEPT ![l] = [name |-> name, addr |-> addr, at |-> "password", todo |-> {}]]
    /\ UNCHANGED <<fails, lapses, tried>>

\* LLDAP refuses the password: both counters are to be incremented.
PasswordWrong(l) ==
  /\ login[l] # None /\ login[l].at = "password"
  /\ login' = [login EXCEPT ![l].at = "count", ![l].todo = KeysOf(l)]
  /\ UNCHANGED <<fails, lapses, errors, tried>>

IncrementOnce(k, counted, expires) ==   \* a slip: EXPIRE only for the first failure
  [n |-> fails[k].n + IF counted THEN 1 ELSE 0,
   ttl |-> fails[k].ttl \/ (counted /\ expires /\ fails[k].n = 0)]

\* RateLimiter.increment: INCR keeps the key's expiry, EXPIRE sets it anew.  INCR may
\* fail; EXPIRE is sent all the same, and does nothing to a key that is absent.
Increment(k, counted, expires) ==
  [n |-> fails[k].n + IF counted THEN 1 ELSE 0,
   ttl |-> fails[k].ttl \/ (expires /\ (counted \/ fails[k].n # 0))]

\* RateLimiter.RecordFailure: the address first, then the user; both errors are ignored.
Counts(l) ==
  /\ login[l] # None /\ login[l].at = "count"
  /\ \E k \in login[l].todo, counted, expires \in BOOLEAN :
       /\ (k \in Names => login[l].todo \cap Addrs = {})
       /\ lapses' = IF expires THEN lapses ELSE lapses + 1
       /\ errors' = IF counted THEN errors ELSE errors + 1
       /\ lapses' <= MaxLapses /\ errors' <= MaxErrors
       /\ fails' = [fails EXCEPT ![k] = Increment(k, counted, expires)]
       /\ tried' = [tried EXCEPT ![k] = @ + 1]
       /\ login' = IF login[l].todo = {k} THEN [login EXCEPT ![l] = None]
                    ELSE [login EXCEPT ![l].todo = @ \ {k}]

\* The counters of keys begin anew.
Cleared(keys) ==
  /\ fails' = [k \in Keys |-> IF k \in keys THEN Zero ELSE fails[k]]
  /\ tried' = [k \in Keys |-> IF k \in keys THEN 0 ELSE tried[k]]

\* The password is right and a session is made: RateLimiter.Reset, whose two DELs may
\* each fail unnoticed.
PasswordRight(l) ==
  /\ login[l] # None /\ login[l].at = "password"
  /\ \E deleted \in SUBSET KeysOf(l) : Cleared(deleted)
  /\ login' = [login EXCEPT ![l] = None]
  /\ UNCHANGED <<lapses, errors>>

\* The session cannot be stored: the counters stay.
LoginAborts(l) ==
  /\ login[l] # None /\ login[l].at = "password"
  /\ login' = [login EXCEPT ![l] = None]
  /\ UNCHANGED <<fails, lapses, errors, tried>>

\* Redis drops a counter whose time is over.
CounterExpires(k) ==
  /\ fails[k].ttl
  /\ Cleared({k})
  /\ UNCHANGED <<login, lapses, errors>>

\* The process ends; the counters stay in Redis.
LimiterRestarts ==
  /\ login' = [l \in Logins |-> None]
  /\ UNCHANGED <<fails, lapses, errors, tried>>

LimiterInit ==
  /\ fails = [k \in Keys |-> Zero]
  /\ login = [l \in Logins |-> None]
  /\ lapses = 0 /\ errors = 0
  /\ tried = [k \in Keys |-> 0]

LimiterNext ==
  \/ \E l \in Logins : LoginStarts(l) \/ PasswordWrong(l) \/ Counts(l) \/ PasswordRight(l)
                       \/ LoginAborts(l)
  \/ \E k \in Keys : CounterExpires(k)
  \/ LimiterRestarts

LimiterTypeOK ==
  /\ fails \in [Keys -> [n : Nat, ttl : BOOLEAN]]
  /\ login \in [Logins -> {None} \cup LoginRecords]
  /\ lapses \in 0 .. MaxLapses /\ errors \in 0 .. MaxErrors
  /\ tried \in [Keys -> Nat]

\* The logins that have passed the check and may still count a failure on k.
Pending(k) ==
  {l \in Logins : login[l] # None /\
     \/ login[l].at = "password" /\ k \in KeysOf(l)
     \/ k \in login[l].todo}

(***************************************************************************)
(* The number of wrong passwords tried on a name or from an address within *)
(* a window is bounded although the check and the count are apart: what    *)
(* was tried and what is under way exceed the limit by less than the       *)
(* requests handled at a time, and by one more for each login whose check  *)
(* could not read a counter and each INCR that failed (Check lets a login  *)
(* pass on an error of Redis, RecordFailure ignores it).                   *)
(***************************************************************************)
BoundedTries ==
  \A k \in Keys :
    tried[k] + Cardinality(Pending(k)) < MaxAttempts + Cardinality(Logins) + errors

(***************************************************************************)
(* A block ends: "after maxAttempts failures, hard-blocks for              *)
(* blockDuration".  A blocked login refreshes the counter only if its      *)
(* check could not read it, so one EXPIRE among the failures that led      *)
(* there has to have happened; fewer than maxAttempts are lost here.       *)
(***************************************************************************)
BlockEnds ==
  \A k \in Keys : fails[k].n >= MaxAttempts ~> fails[k].n < MaxAttempts
=============================================================================
