--------------------------- MODULE MCAppLifecycle ---------------------------
(* One app; in the runs about public domains it has a public entrance and one *)
(* that follows the public-access toggle, in the others none.                *)
EXTENDS AppLifecycle, TLC

CONSTANTS a1, a2, r1, r2, r3, h1, h2, h3

OneApp == {a1}
TwoReqs == {r1, r2}
ThreeReqs == {r1, r2, r3}

TwoRecs == TwoReqs \cup OneApp
ThreeRecs == ThreeReqs \cup OneApp

NoEntrances == a1 :> {}
MCEntrances ==
  a1 :> {[host |-> h1, level |-> "public"], [host |-> h2, level |-> "follow"]}
MCAppHost == a1 :> h1
MCHosts == {h1, h2}

ReqSymmetry == Permutations(Reqs)

\* Two apps whose manifests share the host h2.
TwoApps == {a1, a2}
TwoAppRecs == TwoReqs \cup TwoApps
SharedEntrances ==
  a1 :> {[host |-> h1, level |-> "public"], [host |-> h2, level |-> "follow"]} @@
  a2 :> {[host |-> h2, level |-> "follow"], [host |-> h3, level |-> "private"]}
SharedAppHost == a1 :> h1 @@ a2 :> h3
SharedHosts == {h1, h2, h3}
=============================================================================
