----------------------------- MODULE AppCluster -----------------------------
(***************************************************************************)
(* What internal/appservice/helm.go and k8s.go do to the cluster, one step *)
(* per external command.  helm and the API server are modelled from how    *)
(* these files call them and read their answers.  An app's release and the *)
(* label of its workloads are its name.                                    *)
(***************************************************************************)
EXTENDS AppTypes

CONSTANT ClusterFaults  \* the commands that may fail; "stateful": charts may have StatefulSets

VARIABLES
  release,       \* the helm release of an app
  pods,          \* the workloads labelled with the app
  crd            \* whether the Application resource exists

clusterVars == <<release, pods, crd>>

ASSUME ClusterAssumption == ClusterFaults \subseteq {"helm", "scale", "partial", "kubectl", "stateful"}

\* "pending": helm holds the name but `helm list` does not show the release: an
\* install still runs, or an install or uninstall was cut short.
Releases == {"none", "pending", "deployed", "failed"}

\* "none": no workload; "down": every workload scaled to 0; "up": some is not.
Pods == {"none", "down", "up"}

\* ListReleases: `helm list` without --all.
Listed == [a \in Apps |->
             IF release[a] \in {"deployed", "failed"} THEN release[a] ELSE "missing"]

\* InstallFromDir: the name must be free; resources are created; the release is
\* marked.  A release that somebody uninstalled meanwhile stays gone, and the
\* command still succeeds.
HelmInstallBegins(a) ==
  /\ release[a] = "none"
  /\ release' = [release EXCEPT ![a] = "pending"]
  /\ UNCHANGED <<pods, crd>>

HelmMarks(a, status) ==
  release' = [release EXCEPT ![a] = IF @ = "none" THEN "none" ELSE status]

HelmInstallEnds(a) ==
  /\ HelmMarks(a, "deployed")
  /\ pods' = [pods EXCEPT ![a] = "up"]
  /\ UNCHANGED crd

HelmInstallBreaks(a) ==
  /\ HelmMarks(a, "failed")
  /\ \E left \in {pods[a], "up"} : pods' = [pods EXCEPT ![a] = left]
  /\ UNCHANGED crd

\* Uninstall: an error when there is no such release.  The resources of a
\* deployed release go with it; those of a broken one may stay.
HelmUninstalls(a) ==
  /\ release[a] # "none"
  /\ release' = [release EXCEPT ![a] = "none"]
  /\ \E left \in {"none"} \cup (IF release[a] = "deployed" THEN {} ELSE {pods[a]}) :
       pods' = [pods EXCEPT ![a] = left]
  /\ UNCHANGED crd

HelmUninstallFails(a) ==
  /\ \/ release[a] = "none" /\ UNCHANGED release
     \/ release[a] # "none" /\ "helm" \in ClusterFaults
          /\ \E left \in {release[a], "pending"} : release' = [release EXCEPT ![a] = left]
  /\ UNCHANGED <<pods, crd>>

\* ScaleDeployment and ScaleStatefulSet together.  A workload that fails to
\* scale is only logged, so with several workloads a call may count as a success
\* with pods left over ("partial").
Scales(a, level) ==
  /\ pods[a] # "none"
  /\ \E got \in {level} \cup (IF "partial" \in ClusterFaults THEN {pods[a]} ELSE {}) :
       pods' = [pods EXCEPT ![a] = got]
  /\ UNCHANGED <<release, crd>>

ScaleFails(a, level) ==
  /\ \/ pods[a] = "none" /\ UNCHANGED pods
     \/ pods[a] # "none" /\ "scale" \in ClusterFaults
          /\ \E got \in {pods[a], level} : pods' = [pods EXCEPT ![a] = got]
  /\ UNCHANGED <<release, crd>>

\* DeleteOrphanedResources: Deployments, Services, ConfigMaps, Jobs and pods that carry the
\* app's label.  A StatefulSet stays, and makes its pods again.
DeletesOrphans(a) ==
  /\ \E left \in {"none"} \cup
          (IF {"kubectl", "stateful"} \cap ClusterFaults # {} THEN {pods[a]} ELSE {}) :
       pods' = [pods EXCEPT ![a] = left]
  /\ UNCHANGED <<release, crd>>

\* ApplyApplicationCRD and DeleteApplicationCRD; callers only log an error.
SetsCRD(a, present) ==
  /\ \E now \in {present} \cup (IF "kubectl" \in ClusterFaults THEN {crd[a]} ELSE {}) :
       crd' = [crd EXCEPT ![a] = now]
  /\ UNCHANGED <<release, pods>>

ClusterInit(installed) ==
  /\ release = [a \in Apps |-> IF a \in installed THEN "deployed" ELSE "none"]
  /\ pods = [a \in Apps |-> IF a \in installed THEN "up" ELSE "none"]
  /\ crd = [a \in Apps |-> a \in installed]

ClusterTypeOK ==
  /\ release \in [Apps -> Releases]
  /\ pods \in [Apps -> Pods]
  /\ crd \in [Apps -> BOOLEAN]
=============================================================================
