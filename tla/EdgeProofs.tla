----------------------------- MODULE EdgeProofs -----------------------------
(***************************************************************************)
(* Proofs about the components of the edge: the login limiter keeps its    *)
(* bound and its blocks can end, the watcher notices what it has not read, *)
(* the user table routes as the users ask, and the websocket hub           *)
(* implements the feed, for any users, addresses, requests, files,         *)
(* connections and broadcasts.                                             *)
(***************************************************************************)
EXTENDS MCEdge, FiniteSetTheorems, SequenceTheorems, TLAPS

-----------------------------------------------------------------------------
(* The login limiter *)

LEMMA LoginRecord ==
  ASSUME LimiterTypeOK, NEW l \in Logins, login[l] # None
  PROVE  /\ login[l] \in LoginRecords
         /\ login[l].name \in Names /\ login[l].addr \in Addrs
         /\ login[l].todo \in SUBSET Keys /\ KeysOf(l) \subseteq Keys
BY DEF LimiterTypeOK, LoginRecords, KeysOf, Keys

\* A failure is counted or its INCR failed, and its EXPIRE happened or not.
LEMMA CountsFacts ==
  ASSUME LimiterTypeOK, NEW l \in Logins, Counts(l)
  PROVE  \E k \in Keys, counted, expires \in BOOLEAN, new \in LoginRecords \cup {None} :
           /\ k \in login[l].todo /\ login[l].at = "count" /\ login[l] # None
           /\ lapses' = (IF expires THEN lapses ELSE lapses + 1) /\ lapses' <= MaxLapses
           /\ errors' = (IF counted THEN errors ELSE errors + 1) /\ errors' <= MaxErrors
           /\ fails' = [fails EXCEPT ![k] = Increment(k, counted, expires)]
           /\ tried' = [tried EXCEPT ![k] = tried[k] + 1]
           /\ login' = [login EXCEPT ![l] = new]
           /\ new # None => new.at = "count" /\ new.todo = login[l].todo \ {k}
<1> PICK k \in login[l].todo, counted, expires \in BOOLEAN :
      /\ lapses' = IF expires THEN lapses ELSE lapses + 1
      /\ errors' = IF counted THEN errors ELSE errors + 1
      /\ lapses' <= MaxLapses /\ errors' <= MaxErrors
      /\ fails' = [fails EXCEPT ![k] = Increment(k, counted, expires)]
      /\ tried' = [tried EXCEPT ![k] = tried[k] + 1]
      /\ login' = IF login[l].todo = {k} THEN [login EXCEPT ![l] = None]
                   ELSE [login EXCEPT ![l].todo = @ \ {k}]
  BY DEF Counts
<1>1. login[l] \in LoginRecords /\ k \in Keys /\ login[l].at = "count" /\ login[l] # None
  BY LoginRecord DEF Counts
<1> DEFINE new == IF login[l].todo = {k} THEN None ELSE [login[l] EXCEPT !.todo = @ \ {k}]
<1>2. new \in LoginRecords \cup {None} BY <1>1 DEF LoginRecords
<1>3. login' = [login EXCEPT ![l] = new] OBVIOUS
<1>4. new # None => new.at = "count" /\ new.todo = login[l].todo \ {k}
  BY <1>1 DEF LoginRecords
<1> HIDE DEF new
<1>5. PICK c \in BOOLEAN, e \in BOOLEAN : c = counted /\ e = expires OBVIOUS
<1>6. PICK r \in LoginRecords \cup {None} : r = new BY <1>2
<1> QED BY <1>1, <1>3, <1>4, <1>5, <1>6

LEMMA ClearedFacts ==
  ASSUME LimiterTypeOK, NEW keys, Cleared(keys)
  PROVE  /\ fails' \in [Keys -> [n : Nat, ttl : BOOLEAN]] /\ tried' \in [Keys -> Nat]
         /\ \A k \in Keys : \/ fails'[k] = fails[k] /\ tried'[k] = tried[k]
                            \/ fails'[k] = Zero /\ tried'[k] = 0
<1>1. Zero \in [n : Nat, ttl : BOOLEAN] BY DEF Zero
<1> HIDE DEF Zero
<1> QED BY <1>1 DEF Cleared, LimiterTypeOK

LEMMA LimiterTypeStep ==
  ASSUME LimiterTypeOK, [LimiterNext]_limiterVars
  PROVE  LimiterTypeOK'
<1> USE LimiterAssumption
<1>1. ASSUME NEW l \in Logins, LoginStarts(l) PROVE LimiterTypeOK'
  <2> PICK name \in Names, addr \in Addrs, unread \in SUBSET Keys :
        /\ errors' = IF unread = {} THEN errors ELSE errors + 1
        /\ errors' <= MaxErrors
        /\ login' = [login EXCEPT ![l] =
             [name |-> name, addr |-> addr, at |-> "password", todo |-> {}]]
        /\ UNCHANGED <<fails, lapses, tried>>
    BY <1>1 DEF LoginStarts, Keys
  <2>1. errors' \in 0 .. MaxErrors BY DEF LimiterTypeOK
  <2> QED BY <2>1 DEF LimiterTypeOK, LoginRecords
<1>2. ASSUME NEW l \in Logins, PasswordWrong(l) PROVE LimiterTypeOK'
  <2>1. login[l] \in LoginRecords /\ KeysOf(l) \subseteq Keys BY <1>2, LoginRecord DEF PasswordWrong
  <2> DEFINE new == [login[l] EXCEPT !.at = "count", !.todo = KeysOf(l)]
  <2>2. new \in LoginRecords BY <2>1 DEF LoginRecords
  <2>3. login' = [login EXCEPT ![l] = new] /\ UNCHANGED <<fails, lapses, errors, tried>>
    BY <1>2 DEF PasswordWrong
  <2> HIDE DEF new
  <2> QED BY <2>2, <2>3 DEF LimiterTypeOK
<1>3. ASSUME NEW l \in Logins, Counts(l) PROVE LimiterTypeOK'
  <2> PICK k \in Keys, counted \in BOOLEAN, expires \in BOOLEAN, new \in LoginRecords \cup {None} :
        /\ lapses' = (IF expires THEN lapses ELSE lapses + 1) /\ lapses' <= MaxLapses
        /\ errors' = (IF counted THEN errors ELSE errors + 1) /\ errors' <= MaxErrors
        /\ fails' = [fails EXCEPT ![k] = Increment(k, counted, expires)]
        /\ tried' = [tried EXCEPT ![k] = tried[k] + 1]
        /\ login' = [login EXCEPT ![l] = new]
    BY <1>3, CountsFacts
  <2>1. Increment(k, counted, expires) \in [n : Nat, ttl : BOOLEAN] BY DEF Increment, LimiterTypeOK
  <2>2. lapses' \in 0 .. MaxLapses
    <3>1. CASE expires BY <3>1 DEF LimiterTypeOK
    <3>2. CASE ~expires BY <3>2 DEF LimiterTypeOK
    <3> QED BY <3>1, <3>2
  <2>3. errors' \in 0 .. MaxErrors
    <3>1. CASE counted BY <3>1 DEF LimiterTypeOK
    <3>2. CASE ~counted BY <3>2 DEF LimiterTypeOK
    <3> QED BY <3>1, <3>2
  <2>4. login' \in [Logins -> {None} \cup LoginRecords] BY DEF LimiterTypeOK
  <2>5. tried' \in [Keys -> Nat] BY DEF LimiterTypeOK
  <2>6. fails' \in [Keys -> [n : Nat, ttl : BOOLEAN]]
    <3> HIDE DEF Increment
    <3> QED BY <2>1 DEF LimiterTypeOK
  <2> QED BY <2>2, <2>3, <2>4, <2>5, <2>6 DEF LimiterTypeOK
<1>4. ASSUME NEW l \in Logins, PasswordRight(l) \/ LoginAborts(l) PROVE LimiterTypeOK'
  <2>1. login' \in [Logins -> {None} \cup LoginRecords] /\ lapses' = lapses /\ errors' = errors
    BY <1>4 DEF LimiterTypeOK, PasswordRight, LoginAborts
  <2>2. fails' \in [Keys -> [n : Nat, ttl : BOOLEAN]] /\ tried' \in [Keys -> Nat]
    <3>1. CASE LoginAborts(l) BY <3>1 DEF LimiterTypeOK, LoginAborts
    <3>2. CASE PasswordRight(l) BY <3>2, ClearedFacts DEF PasswordRight
    <3> QED BY <1>4, <3>1, <3>2
  <2> QED BY <2>1, <2>2 DEF LimiterTypeOK
<1>5. ASSUME NEW k \in Keys, CounterExpires(k) PROVE LimiterTypeOK'
  <2>1. fails' \in [Keys -> [n : Nat, ttl : BOOLEAN]] /\ tried' \in [Keys -> Nat]
    BY <1>5, ClearedFacts DEF CounterExpires
  <2> QED BY <1>5, <2>1 DEF LimiterTypeOK, CounterExpires
<1>6. CASE LimiterRestarts BY <1>6 DEF LimiterTypeOK, LimiterRestarts
<1>7. CASE UNCHANGED limiterVars BY <1>7 DEF LimiterTypeOK, limiterVars
<1> QED BY <1>1, <1>2, <1>3, <1>4, <1>5, <1>6, <1>7 DEF LimiterNext

\* What may still count on a key is a finite set, no larger than the logins.
LEMMA PendingFinite ==
  ASSUME NEW k
  PROVE  /\ IsFiniteSet(Pending(k)) /\ Cardinality(Pending(k)) \in Nat
         /\ Cardinality(Pending(k)) <= Cardinality(Logins) /\ Cardinality(Logins) \in Nat
<1>1. Pending(k) \in SUBSET Logins BY DEF Pending
<1> QED BY <1>1, LimiterAssumption, FS_Subset, FS_CardinalityType

LEMMA PendingFiniteNext ==
  ASSUME NEW k
  PROVE  /\ IsFiniteSet(Pending(k)') /\ Cardinality(Pending(k)') \in Nat
         /\ Cardinality(Pending(k)') <= Cardinality(Logins)
<1>1. Pending(k)' \in SUBSET Logins BY DEF Pending
<1> QED BY <1>1, LimiterAssumption, FS_Subset, FS_CardinalityType

\* A wrong password that is not in the counter is one whose INCR failed.
Unnoticed == \A k \in Keys : tried[k] <= fails[k].n + errors

BoundedAt(k) == tried[k] + Cardinality(Pending(k)) < MaxAttempts + Cardinality(Logins) + errors

TriesInv == LimiterTypeOK /\ Unnoticed /\ BoundedTries

LEMMA UnnoticedStep ==
  ASSUME LimiterTypeOK, LimiterTypeOK', Unnoticed, [LimiterNext]_limiterVars, NEW k \in Keys
  PROVE  tried'[k] <= fails'[k].n + errors'
<1>0. tried[k] <= fails[k].n + errors BY DEF Unnoticed
<1>n. tried[k] \in Nat /\ fails[k].n \in Nat /\ errors \in Nat /\ errors' \in Nat
  BY LimiterAssumption DEF LimiterTypeOK
<1>1. ASSUME NEW l \in Logins, LoginStarts(l) PROVE tried'[k] <= fails'[k].n + errors'
  <2>1. errors' \in {errors, errors + 1} BY <1>1 DEF LoginStarts
  <2>2. fails' = fails /\ tried' = tried BY <1>1 DEF LoginStarts
  <2> QED BY <1>0, <1>n, <2>1, <2>2
<1>2. ASSUME UNCHANGED <<fails, errors, tried>> PROVE tried'[k] <= fails'[k].n + errors'
  BY <1>0, <1>2
<1>3. ASSUME NEW l \in Logins, Counts(l) PROVE tried'[k] <= fails'[k].n + errors'
  <2> PICK j \in Keys, counted \in BOOLEAN, expires \in BOOLEAN, new \in LoginRecords \cup {None} :
        /\ errors' = (IF counted THEN errors ELSE errors + 1)
        /\ fails' = [fails EXCEPT ![j] = Increment(j, counted, expires)]
        /\ tried' = [tried EXCEPT ![j] = tried[j] + 1]
    BY <1>3, CountsFacts
  <2>1. CASE k # j
    <3>1. fails'[k] = fails[k] /\ tried'[k] = tried[k] BY <2>1 DEF LimiterTypeOK
    <3> QED BY <1>0, <1>n, <3>1
  <2>2. CASE k = j
    <3>1. tried'[k] = tried[k] + 1 /\ fails'[k].n = fails[k].n + IF counted THEN 1 ELSE 0
      BY <2>2 DEF LimiterTypeOK, Increment
    <3> QED BY <1>0, <1>n, <3>1
  <2> QED BY <2>1, <2>2
<1>4. ASSUME NEW keys, Cleared(keys), errors' = errors PROVE tried'[k] <= fails'[k].n + errors'
  <2>1. CASE fails'[k] = fails[k] /\ tried'[k] = tried[k] BY <1>0, <1>4, <2>1
  <2>2. CASE fails'[k] = Zero /\ tried'[k] = 0 BY <1>4, <1>n, <2>2 DEF Zero
  <2> QED BY <1>4, <2>1, <2>2, ClearedFacts
<1>5. ASSUME NEW l \in Logins, PasswordRight(l) PROVE tried'[k] <= fails'[k].n + errors'
  BY <1>4, <1>5 DEF PasswordRight
<1>6. ASSUME NEW j \in Keys, CounterExpires(j) PROVE tried'[k] <= fails'[k].n + errors'
  BY <1>4, <1>6 DEF CounterExpires
<1>7. ASSUME NEW l \in Logins, PasswordWrong(l) \/ LoginAborts(l)
      PROVE  tried'[k] <= fails'[k].n + errors'
  BY <1>2, <1>7 DEF PasswordWrong, LoginAborts
<1>8. CASE LimiterRestarts \/ UNCHANGED limiterVars
  BY <1>2, <1>8 DEF LimiterRestarts, limiterVars
<1> QED BY <1>1, <1>3, <1>5, <1>6, <1>7, <1>8 DEF LimiterNext

\* The bound is kept where neither what was tried nor what may be tried grows.
LEMMA Lighter ==
  ASSUME LimiterTypeOK, LimiterTypeOK', NEW k \in Keys, BoundedAt(k), tried'[k] <= tried[k],
         errors <= errors', Pending(k)' \subseteq Pending(k)
  PROVE  BoundedAt(k)'
<1>1. Cardinality(Pending(k)') <= Cardinality(Pending(k))
  BY PendingFinite, FS_Subset
<1>2. tried[k] \in Nat /\ tried'[k] \in Nat /\ errors \in Nat /\ errors' \in Nat
  BY LimiterAssumption DEF LimiterTypeOK
<1> HIDE DEF Pending
<1> QED BY <1>1, <1>2, PendingFinite, PendingFiniteNext, LimiterAssumption DEF BoundedAt

\* A login that starts adds itself at most to what may be tried.
LEMMA OneMore ==
  ASSUME LimiterTypeOK, NEW k \in Keys, NEW l \in Logins, NEW r \in LoginRecords,
         login' = [login EXCEPT ![l] = r]
  PROVE  /\ Pending(k)' \subseteq Pending(k) \cup {l}
         /\ r.at = "password" /\ k \notin {r.name, r.addr} /\ r.todo = {}
              => Pending(k)' \subseteq Pending(k)
<1>1. ASSUME NEW x \in Pending(k)', x # l PROVE x \in Pending(k)
  <2>1. login'[x] = login[x] BY <1>1 DEF Pending, LimiterTypeOK
  <2> QED BY <1>1, <2>1 DEF Pending, KeysOf
<1>2. ASSUME l \in Pending(k)', r.at = "password", r.todo = {} PROVE k \in {r.name, r.addr}
  <2>1. login'[l] = r BY DEF LimiterTypeOK
  <2> QED BY <1>2, <2>1 DEF Pending, KeysOf
<1> QED BY <1>1, <1>2

LEMMA BoundStep ==
  ASSUME TriesInv, LimiterTypeOK', [LimiterNext]_limiterVars, NEW k \in Keys
  PROVE  BoundedAt(k)'
<1> USE LimiterAssumption DEF TriesInv
<1>0. BoundedAt(k) BY DEF BoundedTries, BoundedAt
<1>n. /\ tried[k] \in Nat /\ tried'[k] \in Nat /\ errors \in Nat /\ errors' \in Nat
      /\ fails[k].n \in Nat
  BY DEF LimiterTypeOK
<1>1. ASSUME NEW l \in Logins, LoginStarts(l) PROVE BoundedAt(k)'
  <2> PICK name \in Names, addr \in Addrs : \E unread \in SUBSET {name, addr} :
        /\ login[l] = None /\ Allows({name, addr} \ unread)
        /\ errors' = IF unread = {} THEN errors ELSE errors + 1
        /\ login' = [login EXCEPT ![l] =
             [name |-> name, addr |-> addr, at |-> "password", todo |-> {}]]
        /\ tried' = tried
    BY <1>1 DEF LoginStarts
  <2> PICK unread \in SUBSET {name, addr} :
        /\ login[l] = None /\ Allows({name, addr} \ unread)
        /\ errors' = IF unread = {} THEN errors ELSE errors + 1
        /\ login' = [login EXCEPT ![l] =
             [name |-> name, addr |-> addr, at |-> "password", todo |-> {}]]
        /\ tried' = tried
    OBVIOUS
  <2> DEFINE r == [name |-> name, addr |-> addr, at |-> "password", todo |-> {}]
  <2>r. r \in LoginRecords /\ login' = [login EXCEPT ![l] = r] /\ tried'[k] = tried[k]
        /\ r.name = name /\ r.addr = addr /\ r.at = "password" /\ r.todo = {}
    BY DEF LoginRecords
  <2> HIDE DEF r
  <2>e. errors <= errors' BY <1>n
  <2>1. CASE k \notin {name, addr}
    <3>1. Pending(k)' \subseteq Pending(k) BY <2>1, <2>r, OneMore
    <3> QED BY <1>0, <1>n, <2>r, <2>e, <3>1, Lighter
  <2>2. CASE k \in {name, addr} \ unread
    \* The counter was read below the limit, and at most every login is under way.
    <3>1. fails[k].n < MaxAttempts BY <2>2 DEF Allows
    <3>2. tried'[k] <= fails[k].n + errors BY <2>r DEF Unnoticed
    <3>3. Cardinality(Pending(k)') <= Cardinality(Logins) /\ Cardinality(Pending(k)') \in Nat
          /\ Cardinality(Logins) \in Nat
      BY PendingFinite, PendingFiniteNext
    <3> HIDE DEF Pending
    <3> QED BY <1>n, <2>e, <3>1, <3>2, <3>3 DEF BoundedAt
  <2>3. CASE k \in unread
    \* The login that passed unseen is counted among the errors.
    <3>1. errors' = errors + 1 BY <2>3
    <3>2. Pending(k)' \subseteq Pending(k) \cup {l} BY <2>r, OneMore
    <3>3. /\ IsFiniteSet(Pending(k) \cup {l})
          /\ Cardinality(Pending(k) \cup {l}) <= Cardinality(Pending(k)) + 1
          /\ Cardinality(Pending(k) \cup {l}) \in Nat
      <4>1. IsFiniteSet(Pending(k)) /\ Cardinality(Pending(k)) \in Nat BY PendingFinite
      <4> HIDE DEF Pending
      <4>2. IsFiniteSet(Pending(k) \cup {l}) BY <4>1, FS_AddElement
      <4>3. Cardinality(Pending(k) \cup {l}) \in {Cardinality(Pending(k)), Cardinality(Pending(k)) + 1}
        BY <4>1, FS_AddElement
      <4> QED BY <4>1, <4>2, <4>3
    <3>4. Cardinality(Pending(k)') <= Cardinality(Pending(k) \cup {l})
      BY <3>2, <3>3, FS_Subset
    <3>5. /\ Cardinality(Pending(k)') \in Nat /\ Cardinality(Pending(k)) \in Nat
          /\ Cardinality(Logins) \in Nat
      BY PendingFinite, PendingFiniteNext
    <3> HIDE DEF Pending
    <3> QED BY <1>0, <1>n, <2>r, <3>1, <3>3, <3>4, <3>5 DEF BoundedAt
  <2> QED BY <2>1, <2>2, <2>3
<1>2. ASSUME NEW l \in Logins, PasswordWrong(l) PROVE BoundedAt(k)'
  <2>1. login[l] \in LoginRecords BY <1>2, LoginRecord DEF PasswordWrong
  <2> DEFINE new == [login[l] EXCEPT !.at = "count", !.todo = KeysOf(l)]
  <2>2. login' = [login EXCEPT ![l] = new] /\ tried' = tried /\ errors' = errors
    BY <1>2 DEF PasswordWrong
  <2>3. new.at = "count" /\ new.todo = KeysOf(l) BY <2>1 DEF LoginRecords
  <2> HIDE DEF new
  <2>4. Pending(k)' \subseteq Pending(k)
    <3> SUFFICES ASSUME NEW x \in Pending(k)' PROVE x \in Pending(k) OBVIOUS
    <3>1. CASE x = l BY <3>1, <1>2, <2>2, <2>3 DEF Pending, KeysOf, LimiterTypeOK, PasswordWrong
    <3>2. CASE x # l
      <4>1. login'[x] = login[x] BY <3>2, <2>2 DEF Pending, LimiterTypeOK
      <4> QED BY <4>1 DEF Pending, KeysOf
    <3> QED BY <3>1, <3>2
  <2> QED BY <2>2, <2>4, <1>0, <1>n, Lighter
<1>3. ASSUME NEW l \in Logins, Counts(l) PROVE BoundedAt(k)'
  <2> PICK j \in Keys, counted \in BOOLEAN, expires \in BOOLEAN, new \in LoginRecords \cup {None} :
        /\ j \in login[l].todo /\ login[l].at = "count" /\ login[l] # None
        /\ errors' = (IF counted THEN errors ELSE errors + 1)
        /\ tried' = [tried EXCEPT ![j] = tried[j] + 1]
        /\ login' = [login EXCEPT ![l] = new]
        /\ new # None => new.at = "count" /\ new.todo = login[l].todo \ {j}
    BY <1>3, CountsFacts
  <2>e. errors <= errors' BY <1>n
  <2>4. Pending(k)' \subseteq Pending(k) \ (IF k = j THEN {l} ELSE {})
    <3> SUFFICES ASSUME NEW x \in Pending(k)'
                 PROVE  x \in Pending(k) /\ (k = j => x # l)
      OBVIOUS
    <3>1. CASE x = l
      <4>1. new # None /\ k \in login[l].todo \ {j}
        BY <3>1 DEF Pending, LimiterTypeOK
      <4> QED BY <4>1, <3>1 DEF Pending
    <3>2. CASE x # l
      <4>1. login'[x] = login[x] BY <3>2 DEF Pending, LimiterTypeOK
      <4> QED BY <4>1, <3>2 DEF Pending, KeysOf
    <3> QED BY <3>1, <3>2
  <2>5. CASE k # j
    <3>1. tried'[k] = tried[k] BY <2>5 DEF LimiterTypeOK
    <3> QED BY <3>1, <2>4, <2>5, <2>e, <1>0, <1>n, Lighter
  <2>6. CASE k = j
    \* The failure that is counted was pending.
    <3>1. tried'[k] = tried[k] + 1 BY <2>6 DEF LimiterTypeOK
    <3>2. l \in Pending(k) BY <2>6 DEF Pending
    <3>3. Pending(k)' \in SUBSET (Pending(k) \ {l}) BY <2>4, <2>6
    <3>4. /\ IsFiniteSet(Pending(k) \ {l})
          /\ Cardinality(Pending(k) \ {l}) = Cardinality(Pending(k)) - 1
      BY <3>2, PendingFinite, FS_RemoveElement
    <3>5. Cardinality(Pending(k)') <= Cardinality(Pending(k)) - 1
      BY <3>3, <3>4, FS_Subset
    <3>6. /\ Cardinality(Pending(k)') \in Nat /\ Cardinality(Pending(k)) \in Nat
          /\ Cardinality(Logins) \in Nat
      BY PendingFinite, PendingFiniteNext
    <3> HIDE DEF Pending
    <3> QED BY <3>1, <3>5, <3>6, <2>e, <1>0, <1>n DEF BoundedAt
  <2> QED BY <2>5, <2>6
<1>4. ASSUME NEW l \in Logins, PasswordRight(l) \/ LoginAborts(l) PROVE BoundedAt(k)'
  <2>1. tried'[k] <= tried[k]
    <3>1. CASE PasswordRight(l) BY <3>1, <1>n, ClearedFacts DEF PasswordRight
    <3>2. CASE LoginAborts(l) BY <3>2, <1>n DEF LoginAborts
    <3> QED BY <1>4, <3>1, <3>2
  <2>2. login' = [login EXCEPT ![l] = None] /\ errors' = errors
    BY <1>4 DEF PasswordRight, LoginAborts
  <2>3. Pending(k)' \subseteq Pending(k)
    <3> SUFFICES ASSUME NEW x \in Pending(k)' PROVE x \in Pending(k) OBVIOUS
    <3>1. login'[x] = login[x] BY <2>2 DEF Pending, LimiterTypeOK
    <3> QED BY <3>1 DEF Pending, KeysOf
  <2> QED BY <2>1, <2>2, <2>3, <1>0, <1>n, Lighter
<1>5. ASSUME NEW j \in Keys, CounterExpires(j) PROVE BoundedAt(k)'
  <2>1. tried'[k] <= tried[k] /\ errors' = errors BY <1>5, <1>n, ClearedFacts DEF CounterExpires
  <2>2. Pending(k)' = Pending(k) BY <1>5 DEF CounterExpires, Pending, KeysOf
  <2> QED BY <2>1, <2>2, <1>0, <1>n, Lighter
<1>6. CASE LimiterRestarts
  <2>1. tried'[k] <= tried[k] /\ errors' = errors BY <1>6, <1>n DEF LimiterRestarts
  <2>2. Pending(k)' \subseteq Pending(k) BY <1>6 DEF LimiterRestarts, Pending
  <2> QED BY <2>1, <2>2, <1>0, <1>n, Lighter
<1>7. CASE UNCHANGED limiterVars
  BY <1>7, <1>0 DEF limiterVars, BoundedAt, Pending, KeysOf
<1> QED BY <1>1, <1>2, <1>3, <1>4, <1>5, <1>6, <1>7 DEF LimiterNext

LEMMA LimiterStarts ==
  ASSUME LimiterInit
  PROVE  TriesInv
<1> USE LimiterAssumption
<1>1. LimiterTypeOK BY DEF LimiterInit, LimiterTypeOK, Zero
<1>2. ASSUME NEW k \in Keys PROVE BoundedAt(k) /\ tried[k] <= fails[k].n + errors
  <2>1. Pending(k) = {} BY DEF Pending, LimiterInit
  <2>2. tried[k] = 0 /\ fails[k].n = 0 /\ errors = 0 BY DEF LimiterInit, Zero
  <2> QED BY <2>1, <2>2, FS_EmptySet, PendingFinite DEF BoundedAt
<1> QED BY <1>1, <1>2 DEF TriesInv, Unnoticed, BoundedTries, BoundedAt

\* A step of the edge is a step of each of its components, or leaves it alone.
LEMMA EdgeSteps ==
  ASSUME [EdgeNext]_edgeVars
  PROVE  /\ [LimiterNext]_limiterVars /\ [WatcherNext]_watcherVars
         /\ [UserNext]_userVars /\ [HubNext]_hubVars
BY DEF EdgeNext, edgeVars

(***************************************************************************)
(* What was tried on a name or from an address and what is under way       *)
(* exceed the limit by less than the requests handled at a time and the    *)
(* commands of Redis that failed, although Check and RecordFailure are     *)
(* apart and ignore errors, Redis may drop a counter at any moment and the *)
(* server may restart.  The strengthening says that a try the counter does *)
(* not show is one whose INCR failed: a login lets itself in by the        *)
(* counter, the bound is on the tries.                                     *)
(***************************************************************************)
THEOREM TriesBounded == EdgeSpec => []BoundedTries
<1>1. EdgeInit => TriesInv BY LimiterStarts DEF EdgeInit
<1>2. TriesInv /\ [EdgeNext]_edgeVars => TriesInv'
  <2> SUFFICES ASSUME TriesInv, [EdgeNext]_edgeVars PROVE TriesInv'
    OBVIOUS
  <2>1. [LimiterNext]_limiterVars BY EdgeSteps
  <2>2. LimiterTypeOK' BY <2>1, LimiterTypeStep DEF TriesInv
  <2>3. \A k \in Keys : BoundedAt(k)' BY <2>1, <2>2, BoundStep
  <2>4. \A k \in Keys : tried'[k] <= fails'[k].n + errors' BY <2>1, <2>2, UnnoticedStep DEF TriesInv
  <2> QED BY <2>2, <2>3, <2>4 DEF TriesInv, Unnoticed, BoundedTries, BoundedAt
<1>3. TriesInv => BoundedTries BY DEF TriesInv
<1> QED BY <1>1, <1>2, <1>3, PTL DEF EdgeSpec

\* A counter without an expiry was left behind by EXPIRE commands that did not happen.
Lapsed == \A k \in Keys : fails[k].ttl = TRUE \/ fails[k].n <= lapses

LEMMA LapsedStep ==
  ASSUME LimiterTypeOK, Lapsed, [LimiterNext]_limiterVars
  PROVE  Lapsed'
<1> USE LimiterAssumption
<1>0. \A k \in Keys : fails[k].n \in Nat /\ fails[k].ttl \in BOOLEAN BY DEF LimiterTypeOK
<1>1. ASSUME NEW l \in Logins, Counts(l) PROVE Lapsed'
  <2>1. PICK k \in Keys, counted \in BOOLEAN, expires \in BOOLEAN, new \in LoginRecords \cup {None} :
          /\ lapses' = (IF expires THEN lapses ELSE lapses + 1)
          /\ fails' = [fails EXCEPT ![k] = Increment(k, counted, expires)]
    BY <1>1, CountsFacts
  <2>3. lapses \in Nat /\ lapses <= lapses' BY <2>1 DEF LimiterTypeOK
  <2>4. ASSUME NEW x \in Keys \ {k} PROVE fails'[x].ttl = TRUE \/ fails'[x].n <= lapses'
    <3>1. fails'[x] = fails[x] BY <2>1
    <3>2. lapses' \in Nat BY <2>1, <2>3
    <3> QED BY <1>0, <2>3, <3>1, <3>2 DEF Lapsed
  <2>5. fails'[k].ttl = TRUE \/ fails'[k].n <= lapses'
    <3>1. /\ fails'[k].n = fails[k].n + IF counted THEN 1 ELSE 0
          /\ fails'[k].ttl = (fails[k].ttl \/ (expires /\ (counted \/ fails[k].n # 0)))
      BY <2>1 DEF Increment, LimiterTypeOK
    <3>2. CASE expires /\ (counted \/ fails[k].n # 0) BY <3>1, <3>2
    <3>3. CASE fails[k].ttl BY <3>1, <3>3
    <3>4. CASE expires /\ ~counted /\ fails[k].n = 0
      <4>1. fails'[k].n = 0 BY <3>1, <3>4
      <4>2. lapses' \in Nat /\ 0 <= lapses' BY <2>1, <2>3
      <4> QED BY <4>1, <4>2
    <3>5. CASE ~expires /\ ~fails[k].ttl
      <4>1. fails[k].n <= lapses /\ lapses' = lapses + 1 BY <2>1, <3>5 DEF Lapsed
      <4> QED BY <1>0, <2>3, <3>1, <4>1
    <3> QED BY <3>2, <3>3, <3>4, <3>5
  <2> QED BY <2>4, <2>5 DEF Lapsed
<1>2. ASSUME lapses' = lapses, \A k \in Keys : fails'[k] \in {fails[k], Zero} PROVE Lapsed'
  <2>1. ASSUME NEW k \in Keys PROVE fails'[k].ttl = TRUE \/ fails'[k].n <= lapses'
    <3>1. CASE fails'[k] = fails[k] BY <1>2, <3>1 DEF Lapsed
    <3>2. CASE fails'[k] = Zero BY <1>2, <3>2 DEF Zero, LimiterTypeOK
    <3> QED BY <1>2, <3>1, <3>2
  <2> QED BY <2>1 DEF Lapsed
<1>3. ASSUME NEW l \in Logins, LoginStarts(l) \/ PasswordWrong(l) \/ LoginAborts(l) PROVE Lapsed'
  BY <1>2, <1>3 DEF LoginStarts, PasswordWrong, LoginAborts
<1>4. ASSUME NEW l \in Logins, PasswordRight(l) PROVE Lapsed'
  BY <1>2, <1>4, ClearedFacts DEF PasswordRight
<1>5. ASSUME NEW k \in Keys, CounterExpires(k) PROVE Lapsed'
  <2>1. lapses' = lapses /\ \A x \in Keys : fails'[x] \in {fails[x], Zero}
    BY <1>5, ClearedFacts DEF CounterExpires
  <2> QED BY <1>2, <2>1
<1>6. CASE LimiterRestarts BY <1>2, <1>6 DEF LimiterRestarts
<1>7. CASE UNCHANGED limiterVars BY <1>2, <1>7 DEF limiterVars
<1> QED BY <1>1, <1>3, <1>4, <1>5, <1>6, <1>7 DEF LimiterNext

\* A counter that blocks will be dropped by Redis.
BlocksExpire == \A k \in Keys : fails[k].n >= MaxAttempts => fails[k].ttl

(***************************************************************************)
(* Nobody is blocked for ever, for any names, addresses and limit: INCR    *)
(* and EXPIRE are two commands whose errors RecordFailure ignores, and a   *)
(* login that is refused gets to neither of them, so the expiry that       *)
(* ends the block must be there when it begins.  It is, as long as fewer   *)
(* EXPIREs are lost than the limit has failures.                           *)
(***************************************************************************)
THEOREM BlocksCanEnd == EdgeSpec => []BlocksExpire
<1>1. EdgeInit => LimiterTypeOK /\ Lapsed
  <2> SUFFICES ASSUME LimiterInit PROVE LimiterTypeOK /\ Lapsed
    BY DEF EdgeInit
  <2>1. \A k \in Keys : fails[k].n = 0 /\ lapses = 0 BY DEF LimiterInit, Zero
  <2> QED BY <2>1, LimiterStarts DEF Lapsed, TriesInv
<1>2. LimiterTypeOK /\ Lapsed /\ [EdgeNext]_edgeVars => (LimiterTypeOK /\ Lapsed)'
  BY EdgeSteps, LimiterTypeStep, LapsedStep
<1>3. LimiterTypeOK /\ Lapsed => BlocksExpire
  <2> SUFFICES ASSUME LimiterTypeOK, Lapsed, NEW k \in Keys, fails[k].n >= MaxAttempts
               PROVE  fails[k].ttl
    BY DEF BlocksExpire
  <2>1. fails[k].n \in Nat /\ lapses \in 0 .. MaxLapses BY DEF LimiterTypeOK
  <2>2. ~(fails[k].n <= lapses) BY <2>1, LimiterAssumption
  <2> QED BY <2>2 DEF Lapsed
<1> QED BY <1>1, <1>2, <1>3, PTL DEF EdgeSpec

-----------------------------------------------------------------------------
(* The public domain watcher *)

\* A stamp is used once, and a watcher that has not looked yet has seen none.
StampsInv ==
  /\ stamp \in Nat /\ seen \in 0 .. stamp
  /\ file # None => file.stamp \in 1 .. stamp
  /\ watcher = "start" => seen = 0

\* A set that is not the file's is being read, or the next look finds the file changed.
StaleIsNoticed ==
  file # None /\ ~missed /\ open # file.hosts => watcher # "wait" \/ Changed

LEMMA WatcherStep ==
  ASSUME StampsInv, StaleIsNoticed, [WatcherNext]_watcherVars
  PROVE  StampsInv' /\ StaleIsNoticed'
<1> USE DEF StampsInv, StaleIsNoticed, Changed
<1>1. CASE FileChanges
  <2>1. PICK hosts \in SUBSET PublicHosts : file' = [stamp |-> stamp + 1, hosts |-> hosts]
    BY <1>1 DEF FileChanges
  <2>2. file'.stamp = stamp + 1 /\ stamp' = stamp + 1 /\ seen' = seen /\ watcher' = watcher
    BY <1>1, <2>1 DEF FileChanges
  <2> QED BY <2>2
<1>2. CASE FileGoes BY <1>2 DEF FileGoes
<1>3. CASE FindsNothing BY <1>3 DEF FindsNothing
<1>4. CASE LookFails BY <1>4 DEF LookFails
<1>5. CASE FindsNew BY <1>5 DEF FindsNew
<1>6. CASE FileReads BY <1>6 DEF FileReads
<1>7. CASE ReadFails BY <1>7 DEF ReadFails
<1>8. CASE AuthRestarts BY <1>8 DEF AuthRestarts
<1>9. CASE UNCHANGED watcherVars BY <1>9 DEF watcherVars
<1> QED BY <1>1, <1>2, <1>3, <1>4, <1>5, <1>6, <1>7, <1>8, <1>9 DEF WatcherNext, Ticks

(***************************************************************************)
(* The auth server never settles on a set of open hosts other than the     *)
(* file's, for any hosts: the stamp is remembered at the look and the file *)
(* read later, so it may change, go away and come back in between, and the *)
(* server may restart; still, what was not read is found changed by the    *)
(* next look, unless that read itself failed.                              *)
(***************************************************************************)
THEOREM StaleNoticed == EdgeSpec => []StaleIsNoticed
<1>1. EdgeInit => StampsInv /\ StaleIsNoticed
  BY DEF EdgeInit, WatcherInit, StampsInv, StaleIsNoticed
<1>2. StampsInv /\ StaleIsNoticed /\ [EdgeNext]_edgeVars => (StampsInv /\ StaleIsNoticed)'
  BY EdgeSteps, WatcherStep
<1> QED BY <1>1, <1>2, PTL DEF EdgeSpec

-----------------------------------------------------------------------------
(* The users of the L4 proxy *)

\* An ephemeral user's creator is the owner, by name or as "cli".
UsersInv ==
  /\ edits \in Nat
  /\ users \in [Accounts -> {None} \cup UserResources]
  /\ \A u \in Accounts :
       users[u] # None /\ Ephemeral(users[u]) => u # Owner /\ users[u].creator \in {"cli", Owner}

LEMMA UsersStep ==
  ASSUME UsersInv, [UserNext]_userVars
  PROVE  UsersInv'
<1> USE UserAssumption
<1>1. ASSUME NEW u \in Accounts, UserEdits(u) PROVE UsersInv'
  <2>1. edits' \in Nat BY <1>1 DEF UserEdits, UsersInv
  <2>2. CASE users' = [users EXCEPT ![u] = None]
    <3>1. users' \in [Accounts -> {None} \cup UserResources] BY <2>2 DEF UsersInv
    <3>2. \A v \in Accounts : users'[v] # None => users'[v] = users[v] BY <2>2 DEF UsersInv
    <3> QED BY <2>1, <3>1, <3>2 DEF UsersInv, Ephemeral
  <2>3. ASSUME NEW p \in Profiles, p.creator = None \/ (u # Owner /\ p.creator \in {"cli", Owner}),
               NEW born \in Nat,
               users' = [users EXCEPT ![u] = [creator |-> p.creator, deny |-> p.deny, born |-> born]]
        PROVE  UsersInv'
    <3> DEFINE new == [creator |-> p.creator, deny |-> p.deny, born |-> born]
    <3>1. new \in UserResources /\ new.creator = p.creator BY DEF Profiles, UserResources
    <3>2. users' = [users EXCEPT ![u] = new] BY <2>3
    <3> HIDE DEF new
    <3>3. users' \in [Accounts -> {None} \cup UserResources] BY <3>1, <3>2 DEF UsersInv
    <3>4. users'[u] = new /\ \A v \in Accounts \ {u} : users'[v] = users[v] BY <3>2 DEF UsersInv
    <3>5. new.creator # None => u # Owner /\ new.creator \in {"cli", Owner} BY <2>3, <3>1
    <3>6. ASSUME NEW v \in Accounts, users'[v] # None, users'[v].creator # None
          PROVE  v # Owner /\ users'[v].creator \in {"cli", Owner}
      <4>1. CASE v = u BY <3>4, <3>5, <3>6, <4>1
      <4>2. CASE v # u BY <3>4, <3>6, <4>2 DEF UsersInv, Ephemeral
      <4> QED BY <4>1, <4>2
    <3> QED BY <2>1, <3>3, <3>6 DEF UsersInv, Ephemeral
  <2>4. CASE \E p \in Profiles :
               /\ p.creator = None \/ (u # Owner /\ p.creator \in {"cli", Owner})
               /\ users' = [users EXCEPT ![u] =
                    [creator |-> p.creator, deny |-> p.deny,
                     born |-> IF @ = None THEN edits' ELSE @.born]]
    <3>1. PICK p \in Profiles :
             /\ p.creator = None \/ (u # Owner /\ p.creator \in {"cli", Owner})
             /\ users' = [users EXCEPT ![u] =
                  [creator |-> p.creator, deny |-> p.deny,
                   born |-> IF users[u] = None THEN edits' ELSE users[u].born]]
      BY <2>4
    <3>2. (IF users[u] = None THEN edits' ELSE users[u].born) \in Nat
      BY <2>1 DEF UsersInv, UserResources
    <3>3. PICK born \in Nat : born = IF users[u] = None THEN edits' ELSE users[u].born
      BY <3>2
    <3> QED BY <2>3, <3>1, <3>3
  <2> QED BY <1>1, <2>2, <2>4 DEF UserEdits
<1>2. ASSUME UNCHANGED <<users, edits>> PROVE UsersInv'
  BY <1>2 DEF UsersInv, Ephemeral
<1>3. ASSUME NEW r \in Refreshers, Lists(r) \/ TableStores(r) PROVE UsersInv'
  BY <1>2, <1>3 DEF Lists, TableStores
<1>4. CASE WatchBreaks \/ UNCHANGED userVars
  BY <1>2, <1>4 DEF WatchBreaks, userVars
<1> QED BY <1>1, <1>3, <1>4 DEF UserNext

\* findUser finds at most the owner.
LEMMA CreatorIsOwner ==
  ASSUME UsersInv, NEW u \in Accounts, users[u] # None, Ephemeral(users[u])
  PROVE  \A o \in Creators(u) : o = Owner /\ Owner \in Accounts /\ users[Owner] # None
BY UserAssumption DEF UsersInv, Creators

\* What listUsers makes of a user that is there.
LEMMA RowFields ==
  ASSUME UsersInv, NEW u \in Rows({})
  PROVE  /\ u \in Accounts /\ users[u] # None
         /\ Row(u).name = u /\ Row(u).ephemeral = Ephemeral(users[u])
         /\ Row(u).born = users[u].born
         /\ ~Ephemeral(users[u]) => Row(u).zone = u /\ Row(u).deny = users[u].deny
         /\ Ephemeral(users[u]) =>
              /\ Owner \in Creators(u) /\ Creators(u) = {Owner}
              /\ Row(u).zone = Owner /\ Row(u).deny = users[Owner].deny
<1>1. u \in Accounts /\ users[u] # None /\ (Ephemeral(users[u]) => Creators(u) # {})
  BY DEF Rows
<1>2. CASE Ephemeral(users[u])
  <2>1. Creators(u) = {Owner} BY <1>1, <1>2, CreatorIsOwner
  <2>2. (CHOOSE o \in Creators(u) : TRUE) = Owner BY <2>1
  <2> HIDE DEF Ephemeral
  <2> QED BY <1>1, <1>2, <2>1, <2>2 DEF Row
<1>3. CASE ~Ephemeral(users[u])
  BY <1>1, <1>3 DEF Row
<1> QED BY <1>1, <1>2, <1>3

\* The table the proxy has when nothing changed since it listed.
Exact == table = Listed({})

\* matchUser over an exact table: an ephemeral user whose name was asked for, and its
\* creator exists, ...
LEMMA GuestMatched ==
  ASSUME UsersInv, Exact, NEW host \in Hosts, NEW u \in MeantFor(host), Ephemeral(users[u])
  PROVE  /\ Target(host) = {Row(u)} /\ Row(u).name = u /\ u = host.of
         /\ Row(u).zone = host.zone /\ Row(u).deny = users[host.zone].deny
<1>1. u \in Accounts /\ users[u] # None /\ host # None /\ host.of = u /\ host.zone \in Creators(u)
  BY DEF MeantFor
<1>2. u \in Rows({}) BY <1>1 DEF Rows
<1>3. host.zone = Owner BY <1>1, CreatorIsOwner
<1>4. /\ Row(u).name = u /\ Row(u).ephemeral = TRUE
      /\ Row(u).zone = Owner /\ Row(u).deny = users[Owner].deny
  BY <1>2, RowFields
<1>5. Row(u) \in table BY <1>2 DEF Exact, Listed
<1>6. ASSUME NEW t \in table, t.name = u PROVE t = Row(u)
  <2>1. PICK v \in Rows({}) : t = Row(v) BY DEF Exact, Listed
  <2>2. Row(v).name = v BY RowFields
  <2> QED BY <1>6, <2>1, <2>2
<1>7. {t \in table : t.ephemeral /\ host # None /\ host.zone = t.zone /\ host.of = t.name} = {Row(u)}
  BY <1>1, <1>3, <1>4, <1>5, <1>6
<1>8. Matched(host) = {Row(u)} BY <1>7 DEF Matched
<1> QED BY <1>1, <1>3, <1>4, <1>8 DEF Target

\* Of the zones' own users that a name fits, all but its own are older, unless it is captured.
LEMMA NewestFits ==
  ASSUME UsersInv, Exact, NEW host \in Hosts, host # None, ~Captured(host), NEW u \in Rows({}),
         ~Ephemeral(users[u]), host.zone = u
  PROVE  NewestOf({t \in table : ~t.ephemeral /\ Fits(host, t.zone)}) = {Row(u)}
<1> DEFINE locals == {t \in table : ~t.ephemeral /\ Fits(host, t.zone)}
<1>1. Row(u).ephemeral = FALSE /\ Row(u).zone = u /\ Row(u).born = users[u].born /\ u \in Accounts
  BY RowFields
<1>2. Row(u) \in locals BY <1>1 DEF Exact, Listed, Fits
<1>3. ASSUME NEW t \in locals, t # Row(u)
      PROVE  t.born \in Nat /\ Row(u).born \in Nat /\ t.born < Row(u).born
  <2>1. PICK v \in Rows({}) : t = Row(v) BY DEF Exact, Listed
  <2>2. /\ ~Ephemeral(users[v]) /\ Row(v).zone = v /\ Row(v).born = users[v].born
        /\ v \in Accounts /\ users[v] # None
    BY <2>1, RowFields
  <2>3. v # u BY <1>3, <2>1
  <2>4. host.of = None /\ <<host.zone, v>> \in Endings BY <2>1, <2>2, <2>3 DEF Fits
  <2>5. ~(users[v].born >= users[u].born) BY <2>2, <2>4 DEF Captured
  <2>6. users[v].born \in Nat /\ users[u].born \in Nat
    BY <1>1, <2>2, RowFields DEF UsersInv, UserResources
  <2> QED BY <1>1, <2>1, <2>2, <2>5, <2>6
<1> HIDE DEF locals
<1>4. Row(u) \in NewestOf(locals)
  <2>1. ASSUME NEW t \in locals PROVE t.born <= Row(u).born
    <3>1. Row(u).born \in Nat BY <1>1, RowFields DEF UsersInv, UserResources
    <3> QED BY <1>3, <3>1
  <2> QED BY <1>2, <2>1 DEF NewestOf
<1>5. ASSUME NEW t \in NewestOf(locals) PROVE t = Row(u)
  <2>1. t \in locals /\ Row(u).born <= t.born BY <1>2 DEF NewestOf
  <2> QED BY <1>3, <2>1
<1>6. NewestOf(locals) = {Row(u)} BY <1>4, <1>5
<1> QED BY <1>6 DEF locals

\* ... and otherwise the zone's own user.
LEMMA LocalMatched ==
  ASSUME UsersInv, Exact, NEW host \in Hosts, NEW u \in MeantFor(host), ~Ephemeral(users[u]),
         ~Captured(host), \A v \in MeantFor(host) : ~Ephemeral(users[v])
  PROVE  /\ Target(host) = {Row(u)} /\ Row(u).name = u
         /\ Row(u).zone = host.zone /\ Row(u).deny = users[host.zone].deny
<1>1. u \in Accounts /\ users[u] # None /\ host # None /\ host.zone = u
  BY DEF MeantFor
<1>2. u \in Rows({}) BY <1>1 DEF Rows
<1>3. Row(u).name = u /\ Row(u).zone = u /\ Row(u).deny = users[u].deny
  BY <1>2, RowFields
<1>4. ASSUME NEW t \in table, t.ephemeral, host.zone = t.zone, host.of = t.name PROVE FALSE
  <2>1. PICK v \in Rows({}) : t = Row(v) BY DEF Exact, Listed
  <2>2. v \in Accounts /\ users[v] # None /\ Ephemeral(users[v]) /\ Row(v).name = v BY <1>4, <2>1, RowFields
  <2>3. Owner \in Creators(v) /\ Row(v).zone = Owner BY <2>2, RowFields
  <2>4. v \in MeantFor(host) BY <1>1, <1>4, <2>1, <2>2, <2>3 DEF MeantFor
  <2> QED BY <2>2, <2>4
<1>5. {t \in table : t.ephemeral /\ host # None /\ host.zone = t.zone /\ host.of = t.name} = {}
  BY <1>4
<1>6. NewestOf({t \in table : ~t.ephemeral /\ Fits(host, t.zone)}) = {Row(u)}
  BY <1>1, <1>2, NewestFits
<1>7. Matched(host) = {Row(u)} BY <1>5, <1>6 DEF Matched
<1> QED BY <1>1, <1>3, <1>7 DEF Target

\* handleConn and denyFilter, once the user is found.
LEMMA RoutedTo ==
  ASSUME NEW host \in Hosts, host # None, NEW t, Target(host) = {t}, t.zone = host.zone
  PROVE  /\ Routed(host, FALSE) = t.name
         /\ Routed(host, TRUE) = IF t.deny /\ host.of # None THEN "dropped" ELSE t.name
<1>1. (CHOOSE x \in Target(host) : TRUE) = t /\ Target(host) # {} OBVIOUS
<1>2. host = [zone |-> t.zone, of |-> None] <=> host.of = None BY DEF Hosts
<1>3. Passes(t, host, FALSE) /\ (Passes(t, host, TRUE) <=> ~t.deny \/ host.of = None)
  BY <1>2 DEF Passes
<1> HIDE DEF Passes
<1> QED BY <1>1, <1>3 DEF Routed

(***************************************************************************)
(* The routes are right whenever the table is what listUsers would list    *)
(* now: for any accounts, whatever was made, edited and removed, matchUser *)
(* and denyFilter over the table agree with the User resources on whom a   *)
(* name belongs to and who may connect from outside.  With RoutesSettle,   *)
(* which says that the table comes to be that, no stale entry, order of    *)
(* the table or second match is left that could decide otherwise: but for  *)
(* the zones that end in a newer user's, which Captured names.             *)
(***************************************************************************)
THEOREM ExactTableRoutes == EdgeSpec => [](Exact => RoutesRight)
<1>1. EdgeInit => UsersInv
  <2> SUFFICES ASSUME UserInit PROVE UsersInv
    BY DEF EdgeInit
  <2> QED BY DEF UserInit, UsersInv
<1>2. UsersInv /\ [EdgeNext]_edgeVars => UsersInv'
  BY EdgeSteps, UsersStep
<1>3. UsersInv => (Exact => RoutesRight)
  <2> SUFFICES ASSUME UsersInv, Exact, NEW host \in Hosts, MeantFor(host) # {}, ~Captured(host)
               PROVE  /\ Routed(host, FALSE) \in MeantFor(host)
                      /\ \A u \in MeantFor(host) : Ephemeral(users[u]) => Routed(host, FALSE) = u
                      /\ Routed(host, TRUE) = IF users[host.zone].deny /\ host.of # None
                                              THEN "dropped" ELSE Routed(host, FALSE)
    BY DEF RoutesRight
  <2>1. host # None BY DEF MeantFor
  <2>2. ASSUME NEW u \in MeantFor(host), Target(host) = {Row(u)}, Row(u).name = u,
               Row(u).zone = host.zone, Row(u).deny = users[host.zone].deny
        PROVE  /\ Routed(host, FALSE) = u
               /\ Routed(host, TRUE) = IF users[host.zone].deny /\ host.of # None THEN "dropped" ELSE u
    BY <2>1, <2>2, RoutedTo
  <2>3. CASE \E u \in MeantFor(host) : Ephemeral(users[u])
    <3>1. PICK u \in MeantFor(host) : Ephemeral(users[u]) BY <2>3
    <3>2. u = host.of /\ Routed(host, FALSE) = u
          /\ Routed(host, TRUE) = IF users[host.zone].deny /\ host.of # None THEN "dropped" ELSE u
      BY <2>2, <3>1, GuestMatched
    <3>3. \A v \in MeantFor(host) : Ephemeral(users[v]) => v = host.of BY GuestMatched
    <3> QED BY <3>2, <3>3
  <2>4. CASE \A u \in MeantFor(host) : ~Ephemeral(users[u])
    <3>1. PICK u \in MeantFor(host) : TRUE OBVIOUS
    <3>2. Routed(host, FALSE) = u
          /\ Routed(host, TRUE) = IF users[host.zone].deny /\ host.of # None THEN "dropped" ELSE u
      BY <2>2, <2>4, <3>1, LocalMatched
    <3> QED BY <2>4, <3>2
  <2> QED BY <2>3, <2>4
<1> QED BY <1>1, <1>2, <1>3, PTL DEF EdgeSpec

-----------------------------------------------------------------------------
(* The websocket hub: its inductive invariant *)

Told(c) == Range(received[c])

\* m is one of the broadcasts that were offered to c, or will not be.
Handed(c, m) == m \in Messages /\ began[m] # None /\ (cast[m] # None => c \notin cast[m])

\* What waits in a buffer continues what the client was told.
InOrder(c) ==
  /\ \A m \in Told(c) : Handed(c, m)
  /\ \A i \in 1 .. Len(queue[c]) :
       /\ Handed(c, queue[c][i])
       /\ queue[c][i] \notin clients[c] /\ queue[c][i] \notin Told(c)
       /\ \A n \in Told(c) : queue[c][i] \notin began[n]
  /\ \A i, j \in 1 .. Len(queue[c]) :
       i < j => queue[c][i] # queue[c][j] /\ queue[c][j] \notin began[queue[c][i]]

\* A broadcast that is under way is offered to registered clients only; what was over
\* when it began is over.
CastsInv ==
  \A m \in Messages :
    /\ cast[m] # None => began[m] # None /\ m \notin done /\ cast[m] \subseteq Registered
    /\ began[m] = None => m \notin done
    /\ began[m] # None => began[m] \subseteq done

\* A client is registered exactly while its handler runs, and then its channel is open.
ClientsInv ==
  \A c \in Clients :
    /\ clients[c] # None <=> reader[c] # "none"
    /\ writer[c] # "none" => reader[c] # "none"
    /\ clients[c] # None => c \notin closed /\ clients[c] \subseteq done

OrderInv == \A c \in Clients : clients[c] # None => InOrder(c)

HubInv == ~panicked /\ CastsInv /\ ClientsInv /\ OrderInv
LEMMA AppendFacts ==
  ASSUME NEW q \in Seq(Messages), NEW m \in Messages
  PROVE  /\ Append(q, m) \in Seq(Messages) /\ Len(Append(q, m)) = Len(q) + 1 /\ Len(q) \in Nat
         /\ \A i \in 1 .. Len(q) : Append(q, m)[i] = q[i]
         /\ Append(q, m)[Len(q) + 1] = m
         /\ Range(Append(q, m)) = Range(q) \cup {m}
<1>1. /\ Append(q, m) \in Seq(Messages) /\ Len(Append(q, m)) = Len(q) + 1 /\ Len(q) \in Nat
      /\ \A i \in 1 .. Len(q) : Append(q, m)[i] = q[i]
      /\ Append(q, m)[Len(q) + 1] = m
  OBVIOUS
<1>2. DOMAIN q = 1 .. Len(q) /\ DOMAIN Append(q, m) = 1 .. Len(q) + 1 BY <1>1
<1>3. ASSUME NEW x PROVE x \in Range(Append(q, m)) <=> x \in Range(q) \cup {m}
  <2>1. ASSUME x \in Range(Append(q, m)) PROVE x \in Range(q) \cup {m}
    <3> PICK i \in 1 .. Len(q) + 1 : x = Append(q, m)[i] BY <2>1, <1>2 DEF Range
    <3>1. CASE i = Len(q) + 1 BY <3>1, <1>1
    <3>2. CASE i # Len(q) + 1
      <4>1. i \in 1 .. Len(q) BY <3>2, <1>1
      <4> QED BY <4>1, <1>1, <1>2 DEF Range
    <3> QED BY <3>1, <3>2
  <2>2. ASSUME x \in Range(q) PROVE x \in Range(Append(q, m))
    <3> PICK i \in 1 .. Len(q) : x = q[i] BY <2>2, <1>2 DEF Range
    <3>1. i \in 1 .. Len(q) + 1 BY <1>1
    <3> QED BY <3>1, <1>1, <1>2 DEF Range
  <2>3. m \in Range(Append(q, m))
    <3>1. Len(q) + 1 \in 1 .. Len(q) + 1 BY <1>1
    <3> QED BY <3>1, <1>1, <1>2 DEF Range
  <2> QED BY <2>1, <2>2, <2>3
<1> QED BY <1>1, <1>3

LEMMA TailFacts ==
  ASSUME NEW q \in Seq(Messages), q # <<>>
  PROVE  /\ Tail(q) \in Seq(Messages) /\ Len(Tail(q)) = Len(q) - 1 /\ Len(q) \in Nat \ {0}
         /\ Head(q) = q[1] /\ Head(q) \in Messages
         /\ \A i \in 1 .. Len(Tail(q)) : Tail(q)[i] = q[i + 1] /\ i + 1 \in 2 .. Len(q)
<1>1. Head(q) \in Messages /\ Tail(q) \in Seq(Messages) /\ Len(Tail(q)) = Len(q) - 1
      /\ \A i \in 1 .. Len(Tail(q)) : Tail(q)[i] = q[i + 1]
  BY HeadTailProperties
<1>2. Len(q) \in Nat \ {0} BY EmptySeq
<1> QED BY <1>1, <1>2

LEMMA HubTypeStep ==
  ASSUME HubTypeOK, [HubNext]_hubVars
  PROVE  HubTypeOK'
<1> USE HubAssumption
<1>1. ASSUME NEW c \in Clients, Registers(c) PROVE HubTypeOK'
  <2>1. <<>> \in Seq(Messages) /\ Len(<<>>) = 0 OBVIOUS
  <2>2. /\ queue' \in [Clients -> Seq(Messages)] /\ received' \in [Clients -> Seq(Messages)]
        /\ \A d \in Clients : Len(queue'[d]) <= Buffer
    BY <1>1, <2>1 DEF Registers, HubTypeOK
  <2> QED BY <1>1, <2>2 DEF Registers, HubTypeOK
<1>2. ASSUME NEW c \in Clients, Welcomes(c) \/ PingFails(c) \/ Disconnects(c) \/ ReaderEnds(c)
      PROVE  HubTypeOK'
  <2>1. CASE Welcomes(c)
    <3>1. reader' \in [Clients -> {"none", "welcome", "on", "ended"}] BY <2>1 DEF Welcomes, HubTypeOK
    <3>2. writer' \in [Clients -> {"none", "on", "ended"}] BY <2>1 DEF Welcomes, HubTypeOK
    <3>3. UNCHANGED <<clients, queue, closed, cast, began, done, conn, received, panicked, joins>>
      BY <2>1 DEF Welcomes
    <3> QED BY <3>1, <3>2, <3>3 DEF HubTypeOK
  <2>2. CASE PingFails(c) BY <2>2 DEF PingFails, HubTypeOK
  <2>3. CASE Disconnects(c) BY <2>3 DEF Disconnects, HubTypeOK
  <2>4. CASE ReaderEnds(c) BY <2>4 DEF ReaderEnds, HubTypeOK
  <2> QED BY <1>2, <2>1, <2>2, <2>3, <2>4
<1>3. ASSUME NEW c \in Clients, Sends(c) \/ SendFails(c) PROVE HubTypeOK'
  <2>1. queue[c] \in Seq(Messages) /\ received[c] \in Seq(Messages) /\ queue[c] # <<>>
    BY <1>3 DEF HubTypeOK, Sends, SendFails
  <2>2. queue' = [queue EXCEPT ![c] = Tail(queue[c])] BY <1>3 DEF Sends, SendFails
  <2>3. queue' \in [Clients -> Seq(Messages)] /\ \A d \in Clients : Len(queue'[d]) <= Buffer
    BY <2>1, <2>2, TailFacts DEF HubTypeOK
  <2>4. received' \in [Clients -> Seq(Messages)]
    <3>1. \/ received' = received
          \/ received' = [received EXCEPT ![c] = Append(received[c], Head(queue[c]))]
      BY <1>3 DEF Sends, SendFails
    <3>2. PICK heard \in Seq(Messages) : heard = Append(received[c], Head(queue[c]))
      <4>1. Head(queue[c]) \in Messages BY <2>1, TailFacts
      <4> QED BY <2>1, <4>1, AppendFacts
    <3>3. received' = received \/ received' = [received EXCEPT ![c] = heard]
      BY <3>1, <3>2
    <3>4. received \in [Clients -> Seq(Messages)] BY DEF HubTypeOK
    <3> QED BY <3>2, <3>3, <3>4
  <2>5. writer' \in [Clients -> {"none", "on", "ended"}] /\ UNCHANGED <<clients, closed, cast, began, done, conn, reader, panicked, joins>>
    BY <1>3 DEF Sends, SendFails, HubTypeOK
  <2> QED BY <2>3, <2>4, <2>5 DEF HubTypeOK
<1>4. ASSUME NEW c \in Clients, Unregisters(c) PROVE HubTypeOK'
  BY <1>4 DEF Unregisters, HubTypeOK
<1>5. ASSUME NEW m \in Messages, NEW pusher \in BOOLEAN, BroadcastBegins(m, pusher) PROVE HubTypeOK'
  BY <1>5 DEF BroadcastBegins, HubTypeOK, Registered
<1>6. ASSUME NEW m \in Messages, BroadcastEnds(m) PROVE HubTypeOK'
  BY <1>6 DEF BroadcastEnds, HubTypeOK
<1>7. ASSUME NEW m \in Messages, NEW c \in Clients, Offers(m, c) PROVE HubTypeOK'
  <2>1. cast' \in [Messages -> {None} \cup SUBSET Clients] /\ panicked' \in BOOLEAN
        /\ UNCHANGED <<clients, closed, began, done, conn, reader, writer, received, joins>>
    BY <1>7 DEF Offers, HubTypeOK
  <2>2. queue' \in [Clients -> Seq(Messages)] /\ \A d \in Clients : Len(queue'[d]) <= Buffer
    <3>1. queue[c] \in Seq(Messages) BY DEF HubTypeOK
    <3>2. CASE queue' = queue BY <3>2 DEF HubTypeOK
    <3>3. CASE Len(queue[c]) < Buffer /\ queue' = [queue EXCEPT ![c] = Append(queue[c], m)]
      BY <3>1, <3>3, AppendFacts DEF HubTypeOK
    <3> QED BY <1>7, <3>2, <3>3 DEF Offers
  <2> QED BY <2>1, <2>2 DEF HubTypeOK
<1>8. CASE UNCHANGED hubVars BY <1>8 DEF hubVars, HubTypeOK
<1> QED BY <1>1, <1>2, <1>3, <1>4, <1>5, <1>6, <1>7, <1>8 DEF HubNext
\* What is in order for a client stays so while its buffer and what it received stay,
\* and casts that began before only go on.
LEMMA OrderKept ==
  ASSUME HubTypeOK, NEW c \in Clients, InOrder(c),
         queue'[c] = queue[c], received'[c] = received[c], clients'[c] = clients[c],
         \A m \in Messages : began[m] # None =>
           /\ began'[m] = began[m]
           /\ cast'[m] # None => cast[m] # None /\ cast'[m] \subseteq cast[m]
  PROVE  InOrder(c)'
<1>1. \A m : Handed(c, m) => Handed(c, m)' BY DEF Handed
<1>2. Told(c)' = Told(c) BY DEF Told
<1>3. \A m \in Told(c) : Handed(c, m) /\ began'[m] = began[m] BY DEF InOrder, Handed
<1>4. \A i \in 1 .. Len(queue[c]) : Handed(c, queue[c][i]) /\ began'[queue[c][i]] = began[queue[c][i]]
  BY DEF InOrder, Handed
<1> HIDE DEF Handed, Told
<1> QED BY <1>1, <1>2, <1>3, <1>4 DEF InOrder

LEMMA CastsStep ==
  ASSUME HubTypeOK, HubInv, [HubNext]_hubVars
  PROVE  CastsInv'
<1> USE HubAssumption
<1>1. ASSUME NEW c \in Clients, Registers(c) PROVE CastsInv'
  BY <1>1 DEF Registers, Running, HubInv, CastsInv
<1>2. ASSUME NEW c \in Clients, Unregisters(c) PROVE CastsInv'
  BY <1>2 DEF Unregisters, Locked, Running, HubInv, CastsInv
<1>3. ASSUME UNCHANGED <<cast, began, done, clients>> PROVE CastsInv'
  BY <1>3 DEF HubInv, CastsInv, Registered
<1>4. ASSUME NEW m \in Messages, NEW pusher \in BOOLEAN, BroadcastBegins(m, pusher) PROVE CastsInv'
  <2>1. Registered' = Registered BY <1>4 DEF BroadcastBegins, Registered
  <2> HIDE DEF Registered
  <2> QED BY <1>4, <2>1 DEF BroadcastBegins, HubInv, CastsInv, HubTypeOK
<1>5. ASSUME NEW m \in Messages, BroadcastEnds(m) PROVE CastsInv'
  <2>1. Registered' = Registered BY <1>5 DEF BroadcastEnds, Registered
  <2>2. cast[m] # None /\ began[m] # None BY <1>5 DEF BroadcastEnds, HubInv, CastsInv
  <2> HIDE DEF Registered
  <2> QED BY <1>5, <2>1, <2>2 DEF BroadcastEnds, HubInv, CastsInv, HubTypeOK
<1>6. ASSUME NEW m \in Messages, NEW c \in Clients, Offers(m, c) PROVE CastsInv'
  <2>1. Registered' = Registered BY <1>6 DEF Offers, Registered
  <2> HIDE DEF Registered
  <2> QED BY <1>6, <2>1 DEF Offers, HubInv, CastsInv, HubTypeOK
<1>7. ASSUME NEW c \in Clients,
             \/ Welcomes(c) \/ Sends(c) \/ SendFails(c) \/ PingFails(c) \/ Disconnects(c)
             \/ ReaderEnds(c)
      PROVE  UNCHANGED <<cast, began, done, clients, closed, panicked>>
  BY <1>7 DEF Welcomes, Sends, SendFails, PingFails, Disconnects, ReaderEnds
<1>8. UNCHANGED hubVars => UNCHANGED <<cast, began, done, clients>> BY DEF hubVars
<1> QED BY <1>1, <1>2, <1>3, <1>4, <1>5, <1>6, <1>7, <1>8 DEF HubNext

LEMMA ClientsStep ==
  ASSUME HubTypeOK, HubInv, [HubNext]_hubVars
  PROVE  ClientsInv'
<1> USE HubAssumption
<1>1. ASSUME NEW c \in Clients, Registers(c) PROVE ClientsInv'
  BY <1>1 DEF Registers, HubInv, ClientsInv, HubTypeOK
<1>2. ASSUME NEW c \in Clients, Unregisters(c) PROVE ClientsInv'
  BY <1>2 DEF Unregisters, HubInv, ClientsInv, HubTypeOK
<1>3. ASSUME NEW c \in Clients,
             \/ Welcomes(c) \/ Sends(c) \/ SendFails(c) \/ PingFails(c) \/ Disconnects(c)
             \/ ReaderEnds(c)
      PROVE  ClientsInv'
  <2>1. UNCHANGED <<clients, closed, done>>
    BY <1>3 DEF Welcomes, Sends, SendFails, PingFails, Disconnects, ReaderEnds
  <2>2. \A d \in Clients : /\ reader'[d] # "none" <=> reader[d] # "none"
                           /\ writer'[d] # "none" => reader[d] # "none"
    BY <1>3 DEF Welcomes, Sends, SendFails, PingFails, Disconnects, ReaderEnds, HubInv,
       ClientsInv, HubTypeOK
  <2> QED BY <2>1, <2>2 DEF HubInv, ClientsInv
<1>4. ASSUME NEW m \in Messages, NEW pusher \in BOOLEAN, BroadcastBegins(m, pusher) PROVE ClientsInv'
  BY <1>4 DEF BroadcastBegins, HubInv, ClientsInv
<1>5. ASSUME NEW m \in Messages, BroadcastEnds(m) PROVE ClientsInv'
  BY <1>5 DEF BroadcastEnds, HubInv, ClientsInv
<1>6. ASSUME NEW m \in Messages, NEW c \in Clients, Offers(m, c) PROVE ClientsInv'
  BY <1>6 DEF Offers, HubInv, ClientsInv
<1>7. CASE UNCHANGED hubVars BY <1>7 DEF hubVars, HubInv, ClientsInv
<1> QED BY <1>1, <1>2, <1>3, <1>4, <1>5, <1>6, <1>7 DEF HubNext

\* No broadcast is offered to a client whose channel is closed.
LEMMA OfferedIsOpen ==
  ASSUME HubTypeOK, HubInv, NEW m \in Messages, NEW c \in Clients, Offers(m, c)
  PROVE  /\ clients[c] # None /\ c \notin closed /\ panicked' = panicked
         /\ began[m] # None /\ m \notin done
<1>1. clients[c] # None /\ began[m] # None /\ m \notin done
  BY DEF Offers, HubInv, CastsInv, Registered
<1>2. c \notin closed BY <1>1 DEF HubInv, ClientsInv
<1>3. panicked' = (panicked \/ c \in closed) /\ panicked \in BOOLEAN BY DEF Offers, HubTypeOK
<1> QED BY <1>1, <1>2, <1>3

LEMMA NoPanic ==
  ASSUME HubTypeOK, HubInv, [HubNext]_hubVars
  PROVE  ~panicked'
<1>1. ASSUME NEW m \in Messages, NEW c \in Clients, Offers(m, c) PROVE ~panicked'
  BY <1>1, OfferedIsOpen DEF HubInv
<1> QED BY <1>1 DEF HubInv, HubNext, hubVars, Registers, Welcomes, Sends, SendFails, PingFails,
       Disconnects, ReaderEnds, Unregisters, BroadcastBegins, BroadcastEnds
\* A send is the first message of a buffer that is in order.
LEMMA SendsInOrder ==
  ASSUME HubTypeOK, HubInv, NEW c \in Clients, Sends(c), conn[c] = "up",
         received' = [received EXCEPT ![c] = Append(@, Head(queue[c]))]
  PROVE  /\ clients[c] # None /\ Head(queue[c]) \in Messages /\ began[Head(queue[c])] # None
         /\ Head(queue[c]) \notin clients[c] \cup Told(c)
         /\ \A n \in Told(c) : Head(queue[c]) \notin began[n]
<1>1. clients[c] # None BY DEF Sends, HubInv, ClientsInv
<1>2. InOrder(c) BY <1>1 DEF HubInv, OrderInv
<1>3. queue[c] \in Seq(Messages) /\ queue[c] # <<>> BY DEF HubTypeOK, Sends
<1>4. Head(queue[c]) = queue[c][1] /\ 1 \in 1 .. Len(queue[c]) BY <1>3, TailFacts
<1> QED BY <1>1, <1>2, <1>4 DEF InOrder, Handed

\* Taking the first message from a buffer, whether or not it is received.
LEMMA OrderTaken ==
  ASSUME HubTypeOK, HubInv, NEW c \in Clients, Sends(c) \/ SendFails(c), clients[c] # None
  PROVE  InOrder(c)'
<1> DEFINE q == queue[c]  h == Head(queue[c])
<1>1. InOrder(c) BY DEF HubInv, OrderInv
<1>2. q \in Seq(Messages) /\ q # <<>> /\ received[c] \in Seq(Messages)
  BY DEF HubTypeOK, Sends, SendFails
<1>3. /\ queue'[c] = Tail(q) /\ UNCHANGED <<clients, cast, began, done>>
      /\ received'[c] = received[c] \/ received'[c] = Append(received[c], h)
  BY DEF Sends, SendFails, HubTypeOK
<1>4. Told(c)' \subseteq Told(c) \cup {h}
  <2>1. h \in Messages BY <1>2, TailFacts
  <2>2. Range(Append(received[c], h)) = Range(received[c]) \cup {h}
    <3> HIDE DEF h
    <3> QED BY <1>2, <2>1, AppendFacts
  <2>3. Told(c)' = Range(received'[c]) /\ Told(c) = Range(received[c]) BY DEF Told
  <2> HIDE DEF h
  <2> QED BY <1>3, <2>2, <2>3
<1>6. Len(q) \in Nat \ {0} /\ h = q[1] /\ 1 \in 1 .. Len(q) BY <1>2, TailFacts
<1>7. \A i \in 1 .. Len(Tail(q)) : Tail(q)[i] = q[i + 1] /\ i + 1 \in 1 .. Len(q) /\ 1 < i + 1
  BY <1>2, TailFacts
<1>8. \A m \in Told(c)' : Handed(c, m) BY <1>1, <1>4, <1>6 DEF InOrder
<1>9. ASSUME NEW i \in 1 .. Len(Tail(q))
      PROVE  /\ Handed(c, Tail(q)[i])
             /\ Tail(q)[i] \notin clients[c] /\ Tail(q)[i] \notin Told(c)'
             /\ \A n \in Told(c)' : Tail(q)[i] \notin began[n]
  <2>1. Tail(q)[i] = q[i + 1] /\ i + 1 \in 1 .. Len(q) /\ 1 < i + 1 BY <1>7
  <2>2. Handed(c, q[i + 1]) /\ q[i + 1] \notin clients[c] /\ q[i + 1] \notin Told(c)
        /\ \A n \in Told(c) : q[i + 1] \notin began[n]
    BY <1>1, <2>1 DEF InOrder
  <2>3. h # q[i + 1] /\ q[i + 1] \notin began[h] BY <1>1, <1>6, <2>1 DEF InOrder
  <2> QED BY <1>4, <2>1, <2>2, <2>3
<1>10. ASSUME NEW i \in 1 .. Len(Tail(q)), NEW j \in 1 .. Len(Tail(q)), i < j
       PROVE  Tail(q)[i] # Tail(q)[j] /\ Tail(q)[j] \notin began[Tail(q)[i]]
  <2>1. i + 1 < j + 1 BY <1>10, <1>2, TailFacts
  <2> QED BY <1>1, <1>7, <2>1 DEF InOrder
<1> HIDE DEF q, h
<1>11. queue'[c] = Tail(q) /\ clients'[c] = clients[c] /\ began' = began /\ cast' = cast
  BY <1>3
<1> HIDE DEF Told
<1> QED BY <1>8, <1>9, <1>10, <1>11 DEF InOrder, Handed

\* Putting a message that is offered behind a buffer that has room.
LEMMA OrderOffered ==
  ASSUME HubTypeOK, HubInv, NEW m \in Messages, NEW c \in Clients, Offers(m, c),
         queue' = [queue EXCEPT ![c] = Append(@, m)]
  PROVE  InOrder(c)'
<1> DEFINE q == queue[c]
           After(n) == n \in Messages /\ began[n] # None /\ (cast'[n] # None => c \notin cast'[n])
<1>0. /\ clients[c] # None /\ c \notin closed /\ began[m] # None /\ m \notin done
      /\ cast[m] # None /\ c \in cast[m]
  BY OfferedIsOpen DEF Offers
<1>1. InOrder(c) BY <1>0 DEF HubInv, OrderInv
<1>2. q \in Seq(Messages) BY DEF HubTypeOK
<1>3. /\ queue'[c] = Append(q, m)
      /\ UNCHANGED <<clients, began, done, received>>
      /\ cast'[m] = cast[m] \ {c} /\ \A n \in Messages \ {m} : cast'[n] = cast[n]
  BY DEF Offers, HubTypeOK
<1>4. Told(c)' = Told(c) BY <1>3 DEF Told
<1>5. \A n : Handed(c, n) => After(n) BY <1>3 DEF Handed
<1>6. After(m) BY <1>0, <1>3
<1>7. ~Handed(c, m) BY <1>0 DEF Handed
<1>8. clients[c] \subseteq done /\ \A n \in Messages : began[n] # None => began[n] \subseteq done
  BY <1>0 DEF HubInv, ClientsInv, CastsInv
<1>9. \A n \in Told(c) : Handed(c, n) /\ n # m /\ m \notin began[n]
  BY <1>0, <1>1, <1>7, <1>8 DEF InOrder, Handed
<1>10. \A i \in 1 .. Len(q) : Handed(c, q[i]) /\ q[i] # m /\ m \notin began[q[i]]
  BY <1>0, <1>1, <1>7, <1>8 DEF InOrder, Handed
<1>11. /\ Len(Append(q, m)) = Len(q) + 1 /\ Len(q) \in Nat
       /\ \A i \in 1 .. Len(q) : Append(q, m)[i] = q[i]
       /\ Append(q, m)[Len(q) + 1] = m
  BY <1>2, AppendFacts
<1>12. ASSUME NEW i \in 1 .. Len(Append(q, m))
       PROVE  /\ After(Append(q, m)[i])
              /\ Append(q, m)[i] \notin clients[c] /\ Append(q, m)[i] \notin Told(c)
              /\ \A n \in Told(c) : Append(q, m)[i] \notin began[n]
  <2>1. CASE i = Len(q) + 1
    <3>1. Append(q, m)[i] = m BY <2>1, <1>11
    <3> HIDE DEF After
    <3> QED BY <3>1, <1>6, <1>0, <1>7, <1>8, <1>9
  <2>2. CASE i # Len(q) + 1
    <3>1. i \in 1 .. Len(q) /\ Append(q, m)[i] = q[i] BY <2>2, <1>11
    <3> HIDE DEF After
    <3> QED BY <3>1, <1>1, <1>5 DEF InOrder
  <2> QED BY <2>1, <2>2
<1>13. ASSUME NEW i \in 1 .. Len(Append(q, m)), NEW j \in 1 .. Len(Append(q, m)), i < j
       PROVE  /\ Append(q, m)[i] # Append(q, m)[j]
              /\ Append(q, m)[j] \notin began[Append(q, m)[i]]
  <2>1. i \in 1 .. Len(q) /\ Append(q, m)[i] = q[i] BY <1>11, <1>13
  <2>2. CASE j = Len(q) + 1 BY <2>1, <2>2, <1>10, <1>11
  <2>3. CASE j # Len(q) + 1
    <3>1. j \in 1 .. Len(q) /\ Append(q, m)[j] = q[j] BY <2>3, <1>11
    <3> QED BY <2>1, <3>1, <1>1, <1>13 DEF InOrder
  <2> QED BY <2>2, <2>3
<1>14. \A n \in Told(c) : After(n)
  <2> HIDE DEF After
  <2> QED BY <1>5, <1>9
<1> HIDE DEF q, Told
<1>15. queue'[c] = Append(q, m) /\ clients'[c] = clients[c] /\ began' = began BY <1>3
<1>16. \A n : After(n) => Handed(c, n)' BY <1>15 DEF Handed
<1> HIDE DEF After
<1>17. \A n \in Told(c)' : Handed(c, n)' BY <1>4, <1>14, <1>16
<1>18. ASSUME NEW i \in 1 .. Len(queue'[c])
       PROVE  /\ Handed(c, queue[c][i])'
              /\ queue'[c][i] \notin clients'[c] /\ queue'[c][i] \notin Told(c)'
              /\ \A n \in Told(c)' : queue'[c][i] \notin began'[n]
  BY <1>4, <1>12, <1>15, <1>16, <1>18
<1>19. ASSUME NEW i \in 1 .. Len(queue'[c]), NEW j \in 1 .. Len(queue'[c]), i < j
       PROVE  queue'[c][i] # queue'[c][j] /\ queue'[c][j] \notin began'[queue'[c][i]]
  BY <1>13, <1>15, <1>19
<1> QED BY <1>17, <1>18, <1>19 DEF InOrder

LEMMA OrderStep ==
  ASSUME HubTypeOK, HubInv, [HubNext]_hubVars
  PROVE  OrderInv'
<1> USE HubAssumption
<1> SUFFICES ASSUME NEW c \in Clients, clients'[c] # None PROVE InOrder(c)'
  BY DEF OrderInv
<1>0. clients[c] # None => InOrder(c) BY DEF HubInv, OrderInv
<1>1. ASSUME NEW d \in Clients, Registers(d) PROVE InOrder(c)'
  <2>1. CASE c = d
    <3>1. queue'[c] = <<>> /\ received'[c] = <<>> BY <1>1, <2>1 DEF Registers, HubTypeOK
    <3>2. Told(c)' = {} BY <3>1 DEF Told, Range
    <3> QED BY <3>1, <3>2 DEF InOrder
  <2>2. CASE c # d
    <3>1. clients[c] # None /\ queue'[c] = queue[c] /\ received'[c] = received[c]
          /\ clients'[c] = clients[c] /\ UNCHANGED <<cast, began>>
      BY <1>1, <2>2 DEF Registers, HubTypeOK
    <3> QED BY <3>1, <1>0, OrderKept
  <2> QED BY <2>1, <2>2
<1>2. ASSUME NEW d \in Clients, Unregisters(d) PROVE InOrder(c)'
  <2>1. clients'[c] = clients[c] /\ UNCHANGED <<queue, received, cast, began>>
    BY <1>2 DEF Unregisters, HubTypeOK
  <2> QED BY <2>1, <1>0, OrderKept
<1>3. ASSUME UNCHANGED <<clients, queue, received, cast, began>> PROVE InOrder(c)'
  BY <1>3, <1>0, OrderKept
<1>4. ASSUME NEW d \in Clients, Sends(d) \/ SendFails(d) PROVE InOrder(c)'
  <2>1. UNCHANGED <<clients, cast, began>> BY <1>4 DEF Sends, SendFails
  <2>2. CASE c = d BY <1>4, <2>1, <2>2, OrderTaken
  <2>3. CASE c # d
    <3>1. queue'[c] = queue[c] /\ received'[c] = received[c]
      BY <1>4, <2>3 DEF Sends, SendFails, HubTypeOK
    <3> QED BY <2>1, <3>1, <1>0, OrderKept
  <2> QED BY <2>2, <2>3
<1>5. ASSUME NEW m \in Messages, NEW pusher \in BOOLEAN, BroadcastBegins(m, pusher) PROVE InOrder(c)'
  <2>1. UNCHANGED <<clients, queue, received>> BY <1>5 DEF BroadcastBegins
  <2>2. \A n \in Messages : began[n] # None => began'[n] = began[n] /\ cast'[n] = cast[n]
    BY <1>5 DEF BroadcastBegins, HubTypeOK
  <2> QED BY <2>1, <2>2, <1>0, OrderKept
<1>6. ASSUME NEW m \in Messages, BroadcastEnds(m) PROVE InOrder(c)'
  <2>1. UNCHANGED <<clients, queue, received, began>> BY <1>6 DEF BroadcastEnds
  <2>2. \A n \in Messages : cast'[n] # None => cast'[n] = cast[n]
    BY <1>6 DEF BroadcastEnds, HubTypeOK
  <2> QED BY <2>1, <2>2, <1>0, OrderKept
<1>7. ASSUME NEW m \in Messages, NEW d \in Clients, Offers(m, d) PROVE InOrder(c)'
  <2>1. UNCHANGED <<clients, received, began>> BY <1>7 DEF Offers
  <2>2. \A n \in Messages : cast'[n] # None => cast[n] # None /\ cast'[n] \subseteq cast[n]
    BY <1>7 DEF Offers, HubTypeOK
  <2>3. CASE queue'[c] = queue[c] BY <2>1, <2>2, <2>3, <1>0, OrderKept
  <2>4. CASE queue'[c] # queue[c]
    <3>1. c = d /\ queue' = [queue EXCEPT ![d] = Append(@, m)]
      BY <1>7, <2>4 DEF Offers, HubTypeOK
    <3> QED BY <3>1, <1>7, OrderOffered
  <2> QED BY <2>3, <2>4
<1>8. ASSUME NEW d \in Clients, Welcomes(d) \/ PingFails(d) \/ Disconnects(d) \/ ReaderEnds(d)
      PROVE  UNCHANGED <<clients, queue, received, cast, began>>
  BY <1>8 DEF Welcomes, PingFails, Disconnects, ReaderEnds
<1>9. UNCHANGED hubVars => UNCHANGED <<clients, queue, received, cast, began>> BY DEF hubVars
<1> QED BY <1>1, <1>2, <1>3, <1>4, <1>5, <1>6, <1>7, <1>8, <1>9 DEF HubNext

LEMMA HubInvStep ==
  ASSUME HubTypeOK, HubInv, [HubNext]_hubVars
  PROVE  HubInv'
BY CastsStep, ClientsStep, NoPanic, OrderStep DEF HubInv

LEMMA HubStarts ==
  ASSUME HubInit
  PROVE  HubTypeOK /\ HubInv
<1> USE HubAssumption
<1>1. <<>> \in Seq(Messages) /\ Len(<<>>) = 0 OBVIOUS
<1>2. HubTypeOK
  <2>1. queue = [c \in Clients |-> <<>>] /\ received = queue BY DEF HubInit
  <2>2. /\ queue \in [Clients -> Seq(Messages)] /\ received \in [Clients -> Seq(Messages)]
        /\ \A c \in Clients : Len(queue[c]) <= Buffer
    BY <1>1, <2>1
  <2>3. /\ clients \in [Clients -> {None} \cup SUBSET Messages]
        /\ began \in [Messages -> {None} \cup SUBSET Messages]
        /\ cast \in [Messages -> {None} \cup SUBSET Clients]
    BY DEF HubInit
  <2>4. /\ closed \subseteq Clients /\ done \subseteq Messages
        /\ conn \in [Clients -> {"none", "up", "down"}]
        /\ reader \in [Clients -> {"none", "welcome", "on", "ended"}]
        /\ writer \in [Clients -> {"none", "on", "ended"}]
        /\ panicked \in BOOLEAN
    BY DEF HubInit
  <2>5. joins \in 0 .. MaxJoins
    <3>1. joins = 0 BY DEF HubInit
    <3> QED BY <3>1
  <2> QED BY <2>2, <2>3, <2>4, <2>5 DEF HubTypeOK
<1>3. CastsInv BY DEF HubInit, CastsInv
<1>4. ClientsInv BY DEF HubInit, ClientsInv
<1>5. OrderInv BY DEF HubInit, OrderInv
<1> QED BY <1>2, <1>3, <1>4, <1>5 DEF HubInv, HubInit

(***************************************************************************)
(* Each step of the hub is a step of the feed or leaves it as it is: the   *)
(* handler's registration joins, unregister leaves, Broadcast begins when  *)
(* it takes the lock and ends when it gives it back, and a write to a      *)
(* connection that is up is a receipt.                                     *)
(***************************************************************************)
LEMMA HubImplementsFeed ==
  ASSUME HubTypeOK, HubInv, [HubNext]_hubVars
  PROVE  [F!FeedNext]_F!feedVars
<1> USE HubAssumption
<1>1. ASSUME NEW c \in Clients, Registers(c) PROVE F!FeedNext
  <2>1. clients[c] = None BY <1>1 DEF Registers, HubInv, ClientsInv
  <2>2. F!Joins(c) BY <1>1, <2>1 DEF F!Joins, Registers
  <2> QED BY <2>2 DEF F!FeedNext
<1>2. ASSUME NEW c \in Clients, Unregisters(c) PROVE F!FeedNext
  <2>1. clients[c] # None BY <1>2 DEF Unregisters, HubInv, ClientsInv
  <2>2. F!Leaves(c) BY <1>2, <2>1 DEF F!Leaves, Unregisters
  <2> QED BY <2>2 DEF F!FeedNext
<1>3. ASSUME NEW m \in Messages, NEW pusher \in BOOLEAN, BroadcastBegins(m, pusher) PROVE F!FeedNext
  <2>1. F!Begins(m) BY <1>3 DEF F!Begins, BroadcastBegins
  <2> QED BY <2>1 DEF F!FeedNext
<1>4. ASSUME NEW m \in Messages, BroadcastEnds(m) PROVE F!FeedNext
  <2>1. cast[m] # None BY <1>4 DEF BroadcastEnds
  <2>2. began[m] # None /\ m \notin done BY <2>1 DEF HubInv, CastsInv
  <2>3. F!Ends(m) BY <1>4, <2>2 DEF F!Ends, BroadcastEnds
  <2> QED BY <2>3 DEF F!FeedNext
<1>5. ASSUME NEW c \in Clients, Sends(c) PROVE F!FeedNext \/ UNCHANGED F!feedVars
  <2>1. CASE UNCHANGED received
    BY <1>5, <2>1 DEF Sends, F!feedVars
  <2>2. CASE conn[c] = "up" /\ received' = [received EXCEPT ![c] = Append(@, Head(queue[c]))]
    <3>1. /\ clients[c] # None /\ Head(queue[c]) \in Messages /\ began[Head(queue[c])] # None
          /\ Head(queue[c]) \notin clients[c] \cup Told(c)
          /\ \A n \in Told(c) : Head(queue[c]) \notin began[n]
      BY <1>5, <2>2, SendsInOrder
    <3>2. UNCHANGED <<began, done, clients, panicked>> BY <1>5 DEF Sends
    <3>3. F!Receives(c, Head(queue[c]))
      BY <2>2, <3>1, <3>2 DEF F!Receives, Told, Range, F!Range
    <3> QED BY <3>1, <3>3 DEF F!FeedNext
  <2> QED BY <1>5, <2>1, <2>2 DEF Sends
<1>6. ASSUME NEW c \in Clients,
             Welcomes(c) \/ SendFails(c) \/ PingFails(c) \/ Disconnects(c) \/ ReaderEnds(c)
      PROVE  UNCHANGED F!feedVars
  BY <1>6 DEF Welcomes, SendFails, PingFails, Disconnects, ReaderEnds, F!feedVars
<1>7. ASSUME NEW m \in Messages, NEW c \in Clients, Offers(m, c) PROVE UNCHANGED F!feedVars
  <2>1. panicked' = panicked BY <1>7, OfferedIsOpen
  <2> QED BY <1>7, <2>1 DEF Offers, F!feedVars
<1>8. CASE UNCHANGED hubVars BY <1>8 DEF hubVars, F!feedVars
<1> QED BY <1>1, <1>2, <1>3, <1>4, <1>5, <1>6, <1>7, <1>8 DEF HubNext

(***************************************************************************)
(* The hub implements the feed, for any connections, broadcasts and buffer *)
(* size: no client is told a broadcast twice, out of order, or one that    *)
(* was over when it joined, and none is sent on a channel that unregister  *)
(* has closed.                                                             *)
(***************************************************************************)
THEOREM FeedImplemented == EdgeSpec => Feeds
<1>1. EdgeInit => HubTypeOK /\ HubInv /\ F!FeedInit
  BY HubStarts DEF EdgeInit, HubInit, F!FeedInit
<1>2. HubTypeOK /\ HubInv /\ [EdgeNext]_edgeVars => (HubTypeOK /\ HubInv)'
  BY EdgeSteps, HubTypeStep, HubInvStep
<1>3. HubTypeOK /\ HubInv /\ [EdgeNext]_edgeVars => [F!FeedNext]_F!feedVars
  BY EdgeSteps, HubImplementsFeed
<1> QED BY <1>1, <1>2, <1>3, PTL DEF EdgeSpec, Feeds, F!FeedSpec
=============================================================================
