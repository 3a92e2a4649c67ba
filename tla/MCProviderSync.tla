--------------------------- MODULE MCProviderSync ---------------------------
(* Two providers p and q of one group and a consumer c; p may move to another *)
(* address.  The manifests differ between the runs.                          *)
EXTENDS ProviderSync, TLC

CONSTANTS p, q, c, g1, g2, x1, x2, y, own, v1

MCApps == {p, q, c}
MCGroups == {g1, g2}
MCAddresses == {x1, x2, y, own}
MCVars == {v1}

\* api.g and v1.g yield one variable.
MCVarOf == g1 :> v1 @@ g2 :> v1

Offers(at1, at2) ==
  [offers |-> g1 :> at1 @@ g2 :> at2, wants |-> <<>>, also |-> <<>>, permits |-> FALSE]
Uses(wants, also) ==
  [offers |-> g1 :> None @@ g2 :> None, wants |-> wants, also |-> also, permits |-> TRUE]

Providers == p :> {Offers(x1, None), Offers(x2, None)} @@ q :> {Offers(y, None)}

\* c asks for the group and names a service of its own to fall back to.
MCSpecs ==
  Providers @@ c :> {Uses(<<[group |-> g1, static |-> own]>>, <<>>)}

\* c asks for the group without a service of its own.
NoFallback ==
  Providers @@ c :> {Uses(<<[group |-> g1, static |-> None]>>, <<>>)}
=============================================================================
