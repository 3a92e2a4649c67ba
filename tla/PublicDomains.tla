---------------------------- MODULE PublicDomains ----------------------------
(***************************************************************************)
(* internal/appservice/publicdomains.go: the hosts of each app that skip   *)
(* the login page, merged into one ConfigMap that the auth backend mounts. *)
(*                                                                         *)
(* A host stands for an entrance's name on the user zone and on the custom *)
(* domain together: both are produced, or neither is.  The body of the     *)
(* ConfigMap is the set of hosts it lists; the code sorts and joins the    *)
(* same set, so two bodies are equal exactly when the sets are.            *)
(***************************************************************************)
EXTENDS AppTypes

CONSTANTS
  Hosts,       \* hosts an entrance can have
  Entrances,   \* [Apps -> SUBSET [host : Hosts, level : Levels]]: the manifests
  AppHost,     \* [Apps -> Hosts]: the host named after the app itself
  Outcomes     \* what a `kubectl apply` of the ConfigMap may do

VARIABLES
  byApp,       \* PublicDomainSync.byApp: the hosts each app claims
  lastBody,    \* PublicDomainSync.lastBody: the body last written
  configMap,   \* the body in the cluster
  lastErr      \* what the last Sync or Reconcile returned

domainVars == <<byApp, lastBody, configMap, lastErr>>

Levels == {"public", "private", "follow"}

\* "refused": kubectl fails and the cluster is unchanged.  "unconfirmed": the
\* API server stored the ConfigMap but kubectl reports an error (a lost answer).
AllOutcomes == {"ok", "refused", "unconfirmed"}

ASSUME DomainAssumption ==
  /\ Entrances \in [Apps -> SUBSET [host : Hosts, level : Levels]]
  /\ AppHost \in [Apps -> Hosts]
  /\ Outcomes \subseteq AllOutcomes

Errors == {"none", "nil", "error"}

(***************************************************************************)
(* The public hosts of an app.  A record whose manifest has not been read   *)
(* has no entrances, and the app's own name then follows the toggle.       *)
(***************************************************************************)
HostsAt(a, levels) == {e.host : e \in {x \in Entrances[a] : x.level \in levels}}

HostsFor(a, entered, public) ==
  IF entered /\ Entrances[a] # {}
  THEN HostsAt(a, IF public THEN {"public", "follow"} ELSE {"public"})
  ELSE IF public THEN {AppHost[a]} ELSE {}

\* Slip: a host seen a second time is dropped.
MergedOnce(claims) ==
  {h \in Hosts : Cardinality({a \in Apps : h \in claims[a]}) = 1}

Merged(claims) == UNION {claims[a] : a \in Apps}

NoClaims == [a \in Apps |-> {}]

\* Slip: the body counts as written on error.
FlushBlindly(claims, outcome) ==
  /\ byApp' = claims
  /\ lastErr' = IF Merged(claims) = lastBody \/ outcome = "ok" THEN "nil" ELSE "error"
  /\ lastBody' = Merged(claims)
  /\ configMap' = IF Merged(claims) = lastBody \/ outcome = "refused"
                  THEN configMap ELSE Merged(claims)

(***************************************************************************)
(* flush: nothing is written when the merged body equals the last body     *)
(* this process wrote; lastBody moves only when the write is confirmed.    *)
(***************************************************************************)
Flush(claims, outcome) ==
  /\ byApp' = claims
  /\ IF Merged(claims) = lastBody
     THEN /\ lastErr' = "nil"
          /\ UNCHANGED <<lastBody, configMap>>
     ELSE /\ lastErr' = IF outcome = "ok" THEN "nil" ELSE "error"
          /\ lastBody' = IF outcome = "ok" THEN Merged(claims) ELSE lastBody
          /\ configMap' = IF outcome = "refused" THEN configMap ELSE Merged(claims)

\* Sync(name, enabled, hosts): every caller passes enabled = (hosts # {}), and
\* an absent entry merges like an empty one.
Sync(a, hosts, outcome) == Flush([byApp EXCEPT ![a] = hosts], outcome)

\* Reconcile: the claims of every record that is not uninstalled, at startup.
Reconcile(claims, outcome) == Flush(claims, outcome)

\* NewPublicDomainSync: a new process starts with no claims and no last body;
\* the ConfigMap stays as it was.
Forget ==
  /\ byApp' = NoClaims
  /\ lastBody' = {}
  /\ lastErr' = "none"
  /\ UNCHANGED configMap

DomainInit(published) ==
  /\ byApp = NoClaims
  /\ lastBody = {}
  /\ configMap = published
  /\ lastErr = "none"

DomainTypeOK ==
  /\ byApp \in [Apps -> SUBSET Hosts]
  /\ lastBody \in SUBSET Hosts
  /\ configMap \in SUBSET Hosts
  /\ lastErr \in Errors

(***************************************************************************)
(* The component with an arbitrary caller: any app may claim any of the    *)
(* host sets its manifest can give it, at any time, and the process may    *)
(* restart.                                                                *)
(***************************************************************************)
ClaimsOf(a) == {HostsFor(a, p, q) : p, q \in BOOLEAN} \cup {{}}

SyncSome ==
  \E a \in Apps, outcome \in Outcomes :
    \E hosts \in ClaimsOf(a) : Sync(a, hosts, outcome)

AllClaims == {c \in [Apps -> SUBSET Hosts] : \A a \in Apps : c[a] \in ClaimsOf(a)}

ReconcileAll ==
  byApp' \in AllClaims /\ \E outcome \in Outcomes : Reconcile(byApp', outcome)

DomainNext == SyncSome \/ ReconcileAll \/ Forget

\* Any manifests' hosts may be published by an earlier process.
DomainSpec == (\E published \in SUBSET Hosts : DomainInit(published)) /\ [][DomainNext]_domainVars

-----------------------------------------------------------------------------

\* A nil return means the ConfigMap lists exactly the claimed hosts: skipping
\* the write when the body repeats never hides a difference.  The one case left
\* out is the empty body before this process has written anything: lastBody
\* starts as "" and the skip then trusts a ConfigMap nobody has read.  This
\* holds when kubectl never fails after the API server has stored the object.
NilMeansPublished ==
  lastErr = "nil" =>
    \/ configMap = Merged(byApp)
    \/ Merged(byApp) = {} /\ lastBody = {}

\* Hosts are shared between apps (two apps may have an entrance of one name):
\* dropping one app's claim never unpublishes a host that another app claims.
SharedHostStays ==
  [][\A a \in Apps : byApp'[a] # {} /\ byApp'[a] = byApp[a]
       => byApp[a] \cap configMap \subseteq configMap']_domainVars
=============================================================================
