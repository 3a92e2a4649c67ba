---------------------------- MODULE MCMiddleware ----------------------------
(* A PostgreSQL request, a Redis one, and one that cannot be provisioned; the *)
(* specs differ between the runs.                                            *)
EXTENDS Middleware, TLC

CONSTANTS q1, q2, q3, u1, u2, d1, d2, n1

MCRequests == {q1, q2, q3}
MCUsers == {u1, u2}
MCStores == {d1, d2, n1}

Of(kind, user, stores, edition) ==
  [kind |-> kind, user |-> user, stores |-> stores, edition |-> edition]

\* q1 may change its password; q3 asks for something not offered, or for nothing
\* that can be read.
MCSpecs ==
  q1 :> {Of("postgres", u1, {d1, d2}, e) : e \in {1, 2}} @@
  q2 :> {Of("redis", u2, {n1}, 1)} @@
  q3 :> {Of("other", u2, {}, 1), Of("missing", u2, {}, 1)}

\* q1 renames its database.
Renames ==
  q1 :> {Of("postgres", u1, {d}, 1) : d \in {d1, d2}} @@
  q2 :> {Of("redis", u2, {n1}, 1)} @@ q3 :> {}
=============================================================================
