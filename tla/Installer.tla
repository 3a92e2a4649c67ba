----------------------------- MODULE Installer -----------------------------
(***************************************************************************)
(* pkg/installer: `packalares install` runs its phases in order, records   *)
(* the completed ones in a state file, skips those in a later process, and *)
(* removes the file at the end; `packalares uninstall` takes the host      *)
(* apart.  A phase is the list of things it leaves on the host, in the     *)
(* order it makes them.  The secrets are generated once, live in the       *)
(* process's environment, and are handed to their holders by later phases. *)
(***************************************************************************)
EXTENDS Naturals, Sequences, FiniteSets, Functions, Values

CONSTANTS
  HasGPU,        \* whether nvidia-smi and lspci find a card
  MaxGenerated,  \* times secrets are generated (a bound)
  MaxSetbacks,   \* failures, losses of power and uninstallations (a bound)
  MaxLostSaves   \* state files that are not written, silently (a bound)

VARIABLES
  file,      \* the state file: None, or its phases, --skip-precheck and whether it is whole
  run,       \* the installing process, or None
  host,      \* what is on the host and in the cluster
  holds,     \* [Holders -> the generation of secrets it was given; 0 is the empty string]
  plain,     \* the generation of secrets in state/ of the installation's base directory, 0 if none
  generated, \* generations of secrets made so far
  removing,       \* the step of an uninstallation, 0 if none
  ruined,    \* an uninstallation did not go through
  finished,  \* the last installation ended with EventInstallComplete
  setbacks, lostSaves

installVars == <<file, run, host, holds, plain, generated, removing, ruined, finished,
                 setbacks, lostSaves>>

Holders == {"kvrocks", "citus", "lldap", "infisical", "framework", "seed", "account"}

\* What the phases leave behind, each in the order its function makes it.
SystemWork == <<"hostname", "netplan", "wireguard-tools">>
BinaryWork == <<"k3s binary", "etcd binary", "crictl binary">>
KernelWork == <<"modules file", "sysctl file">>
EtcdWork == <<"etcd certificates", "etcd unit", "etcd enabled", "etcd runs">>
K3sWork == <<"k3s unit", "k3s config", "k3s enabled", "k3s runs">>
CalicoWork == <<"calico operator", "calico network">>
StorageWork == <<"openebs">>
ClusterWork == <<"crds", "owner">>
SecretsWork == <<"plaintext">>
KVRocksWork == <<"kvrocks">>
HelmWork == <<"helm">>
PlatformWork == <<"citus", "lldap", "infisical">>
FrameworkWork == <<"framework", "proxy">>
TLSWork == <<"tls files", "tls secret">>
SeedWork == <<"seed", "no plaintext">>
AccountWork == <<"account">>
AppsWork == <<"desktop and wizard">>
MonitoringWork == <<"monitoring">>
GPUWork == IF HasGPU THEN <<"driver", "driver loaded", "toolkit", "nvidia runtime">> ELSE <<>>

\* buildPhases: the order is the order of the installation.
Phases == <<
  "Configure system", "Precheck", "Download binaries", "Configure kernel", "Install etcd",
  "Install K3s", "Deploy Calico CNI", "Deploy OpenEBS", "Setup Kubernetes management",
  "Generate secrets", "Deploy KVRocks", "Install Helm", "Deploy platform services",
  "Deploy framework services", "Generate TLS certificate", "Seed Infisical",
  "Create LLDAP service account", "Deploy user apps", "Deploy monitoring", "Setup GPU",
  "Wait for pods", "Write release info">>

WorkOf == <<
  SystemWork, <<>>, BinaryWork, KernelWork, EtcdWork, K3sWork, CalicoWork, StorageWork,
  ClusterWork, SecretsWork, KVRocksWork, HelmWork, PlatformWork, FrameworkWork, TLSWork,
  SeedWork, AccountWork, AppsWork, MonitoringWork, GPUWork, <<>>, <<"release file">> >>

Index == 1 .. Len(Phases)

\* A failure of these is only printed.
Forgiven == {"netplan", "wireguard-tools", "owner"}

\* What GenerateSecrets writes and SeedInfisical removes: plain says whether it is there.
Plaintext == {"plaintext", "no plaintext"}

\* Kept in etcd: gone with its data.
InCluster == Range(CalicoWork) \cup Range(StorageWork) \cup Range(ClusterWork) \cup
             Holders \cup {"proxy", "tls secret", "desktop and wizard", "monitoring"}

\* Phases that refuse empty passwords.
RefusesEmpty == {"Deploy KVRocks", "Create LLDAP service account"}

\* What a phase asks of the host before it does anything, or kubectl does.
Asks(i) ==
  CASE Phases[i] = "Install etcd" -> {"etcd binary"}
    [] Phases[i] = "Install K3s" -> {"k3s binary"}
    [] Phases[i] = "Wait for pods" \/ Range(WorkOf[i]) \cap InCluster # {} -> {"etcd runs", "k3s runs"}
    [] OTHER -> {}

\* checkPorts: what a former installation started holds the ports it asks for.
PortsTaken == host \cap {"etcd runs", "k3s runs"} # {}

Refused(i) ==
  \/ ~(Asks(i) \subseteq host)
  \/ Phases[i] = "Precheck" /\ ~run.unchecked /\ PortsTaken
  \/ Phases[i] \in RefusesEmpty /\ run.env = 0

\* systemd at boot; a driver is loaded once the host starts with it.
Rebooted(things) ==
  (things \ {"etcd runs", "k3s runs"})
    \cup {"etcd runs" : x \in things \cap {"etcd enabled"}}
    \cup {"k3s runs" : x \in things \cap {"k3s enabled"}}
    \cup {"driver loaded" : x \in things \cap {"driver"}}

Hosted == UNCHANGED <<host, holds, plain, generated>>

Counted == UNCHANGED <<removing, ruined, setbacks, lostSaves>>

\* RunInstallWithEvents up to the loop; a file that does not parse ends it, another
\* one brings its options back.  Without one the base directory may be a new one.
InstallBegins ==
  LET done == IF file = None THEN {} ELSE file.done IN
  /\ run = None /\ removing = 0
  /\ file # None => file.whole
  /\ \E unchecked \in BOOLEAN :
       /\ file # None => unchecked = file.unchecked
       /\ run' = [at |-> 1, step |-> 1, skip |-> done, done |-> done, env |-> 0,
                  unchecked |-> unchecked, saves |-> "no"]
  /\ finished' = FALSE
  /\ plain' = plain \/ (file = None /\ plain' = 0)
  /\ UNCHANGED <<file, host, holds, generated>> /\ Counted

InPhase == run # None /\ run.saves = "no" /\ run.at \in Index

Skips ==
  /\ InPhase /\ Phases[run.at] \in run.skip
  /\ run' = [run EXCEPT !.at = @ + 1]
  /\ UNCHANGED <<file, finished>> /\ Hosted /\ Counted

\* One thing a phase makes; a forgiven failure makes nothing.
Leaves(thing) ==
  /\ run' = [run EXCEPT !.step = @ + 1, !.env = IF thing = "plaintext" THEN generated + 1 ELSE @]
  /\ generated' = IF thing = "plaintext" THEN generated + 1 ELSE generated
  /\ plain' = CASE thing = "plaintext" -> generated + 1
                [] thing = "no plaintext" -> 0
                [] OTHER -> plain
  /\ holds' = IF thing \in Holders THEN [holds EXCEPT ![thing] = run.env] ELSE holds
  /\ \/ host' = host \cup ({thing} \ Plaintext)
     \/ thing \in Forgiven /\ host' = host

PhaseWorks ==
  /\ InPhase /\ Phases[run.at] \notin run.skip
  /\ ~Refused(run.at)
  /\ run.step <= Len(WorkOf[run.at])
  /\ LET thing == WorkOf[run.at][run.step] IN
       /\ thing = "plaintext" => generated < MaxGenerated
       /\ thing = "driver loaded" => thing \in host
       /\ Leaves(thing)
  /\ UNCHANGED <<file, finished>> /\ Counted

\* p.Fn returned nil: the name is appended, then the file is written.
PhaseEnds ==
  /\ InPhase /\ Phases[run.at] \notin run.skip
  /\ ~Refused(run.at)
  /\ run.step > Len(WorkOf[run.at])
  /\ run' = [run EXCEPT !.done = @ \cup {Phases[run.at]}, !.saves = "on"]
  /\ UNCHANGED <<file, finished>> /\ Hosted /\ Counted

\* p.Fn returned an error: the state is saved as it was, and the process ends.
PhaseRefuses ==
  /\ InPhase /\ Phases[run.at] \notin run.skip
  /\ Refused(run.at)
  /\ run' = [run EXCEPT !.saves = "end"]
  /\ UNCHANGED <<file, finished>> /\ Hosted /\ Counted

\* A slip: the phase is recorded before its error is looked at.
FailsAsDone ==
  /\ InPhase /\ Phases[run.at] \notin run.skip
  /\ setbacks < MaxSetbacks
  /\ setbacks' = setbacks + 1
  /\ run' = [run EXCEPT !.done = @ \cup {Phases[run.at]}, !.saves = "end"]
  /\ UNCHANGED <<file, finished, removing, ruined, lostSaves>> /\ Hosted

PhaseFails ==
  /\ InPhase /\ Phases[run.at] \notin run.skip
  /\ setbacks < MaxSetbacks
  /\ setbacks' = setbacks + 1
  /\ run' = [run EXCEPT !.saves = "end"]
  /\ UNCHANGED <<file, finished, removing, ruined, lostSaves>> /\ Hosted

\* verifyDriverOrReboot: ErrRebootRequired.
NeedsReboot ==
  /\ InPhase /\ Phases[run.at] \notin run.skip /\ ~Refused(run.at)
  /\ run.step <= Len(WorkOf[run.at]) /\ WorkOf[run.at][run.step] = "driver loaded"
  /\ "driver loaded" \notin host
  /\ run' = [run EXCEPT !.saves = "end"]
  /\ UNCHANGED <<file, finished>> /\ Hosted /\ Counted

Saved == IF run.saves = "on" THEN [run EXCEPT !.saves = "no", !.at = @ + 1, !.step = 1] ELSE None

\* saveInstallState; its error is ignored.
Saves ==
  /\ run # None /\ run.saves # "no"
  /\ file' = [whole |-> TRUE, done |-> run.done, unchecked |-> run.unchecked]
  /\ run' = Saved
  /\ UNCHANGED finished /\ Hosted /\ Counted

SaveIsLost ==
  /\ run # None /\ run.saves # "no"
  /\ lostSaves < MaxLostSaves
  /\ lostSaves' = lostSaves + 1
  /\ run' = Saved
  /\ UNCHANGED <<file, finished, removing, ruined, setbacks>> /\ Hosted

\* A slip: a failed phase leaves the loop, not the function.
FinishesAfterFailure ==
  /\ run # None
  /\ \/ run.saves = "end"
     \/ run.saves = "no" /\ run.at > Len(Phases)
  /\ file' = None /\ run' = None /\ finished' = TRUE
  /\ Hosted /\ Counted

\* removeInstallState, removeLoginHook and EventInstallComplete.
Finishes ==
  /\ run # None /\ run.saves = "no" /\ run.at > Len(Phases)
  /\ file' = None /\ run' = None /\ finished' = TRUE
  /\ Hosted /\ Counted

\* The process dies with the host: a file being written is cut off.
PowerIsLost ==
  /\ setbacks < MaxSetbacks
  /\ setbacks' = setbacks + 1
  /\ \/ UNCHANGED file
     \/ run # None /\ run.saves # "no" /\ file' = [whole |-> FALSE, done |-> {}, unchecked |-> FALSE]
  /\ run' = None /\ removing' = 0
  /\ ruined' = (ruined \/ removing # 0)
  /\ host' = Rebooted(host)
  /\ UNCHANGED <<holds, plain, generated, finished, lostSaves>>

\* The user reboots when asked to.
Reboots ==
  /\ run = None /\ removing = 0 /\ host # Rebooted(host)
  /\ host' = Rebooted(host)
  /\ UNCHANGED <<file, run, holds, plain, generated, finished>> /\ Counted

\* RunUninstall, one set per step, in the order of its list.
Removals == <<
  {"k3s runs", "k3s enabled"}, {"etcd runs", "etcd enabled"}, {},
  {"k3s binary", "crictl binary", "k3s config"},
  {"etcd unit", "etcd binary", "etcd certificates"} \cup InCluster,
  {}, {}, {"driver", "driver loaded", "toolkit", "nvidia runtime"},
  {"tls files", "release file"}, {"helm"},
  {"k3s unit", "etcd unit"}, {"modules file", "sysctl file", "netplan"},
  {"release file"}, {}, {}>>

RemovesState == {9, 13}   \* removeData and removeInstallFiles

UninstallBegins ==
  /\ run = None /\ removing = 0 /\ setbacks < MaxSetbacks
  /\ removing' = 1 /\ setbacks' = setbacks + 1
  /\ finished' = FALSE
  /\ UNCHANGED <<file, run, ruined, lostSaves>> /\ Hosted

\* removeData takes the base directory from the release file, which may not be written
\* yet: then the secrets go only if they lie in the default one.
KeepsPlain == removing # 9 \/ "release file" \notin host

Removes ==
  /\ removing # 0
  /\ host' = host \ Removals[removing]
  /\ holds' = [h \in Holders |-> IF h \in Removals[removing] THEN None ELSE holds[h]]
  /\ plain' \in (IF removing = 9 THEN {0} ELSE {}) \cup (IF KeepsPlain THEN {plain} ELSE {})
  /\ file' = IF removing \in RemovesState THEN None ELSE file
  /\ removing' = IF removing = Len(Removals) THEN 0 ELSE removing + 1
  /\ ruined' = (ruined /\ removing # Len(Removals))
  /\ UNCHANGED <<run, generated, finished, setbacks, lostSaves>>

InstallInit ==
  /\ file = None /\ run = None /\ host = {} /\ plain = 0 /\ generated = 0
  /\ holds = [h \in Holders |-> None]
  /\ removing = 0 /\ ruined = FALSE /\ finished = FALSE /\ setbacks = 0 /\ lostSaves = 0

InstallNext ==
  \/ InstallBegins \/ Skips \/ PhaseWorks \/ PhaseEnds \/ PhaseRefuses
  \/ PhaseFails \/ NeedsReboot \/ Saves \/ SaveIsLost \/ Finishes
  \/ PowerIsLost \/ Reboots \/ UninstallBegins \/ Removes

InstallTypeOK ==
  /\ file \in {None} \cup [whole : BOOLEAN, done : SUBSET Range(Phases), unchecked : BOOLEAN]
  /\ run # None => run.at \in 1 .. Len(Phases) + 1 /\ run.env \in 0 .. MaxGenerated
  /\ host \subseteq Range(SystemWork) \cup UNION {Range(WorkOf[i]) : i \in Index}
  /\ holds \in [Holders -> {None} \cup 0 .. MaxGenerated]
  /\ plain \in 0 .. generated /\ generated \in 0 .. MaxGenerated
  /\ removing \in 0 .. Len(Removals)

ResumeIsSound ==
  file # None /\ removing = 0 /\ ~ruined =>
    \A i \in Index : Phases[i] \in file.done => Range(WorkOf[i]) \ (Forgiven \cup Plaintext) \subseteq host

FinishedAgrees ==
  finished /\ ~ruined =>
    /\ plain = 0
    /\ \E g \in 1 .. generated : \A h \in Holders : holds[h] = g

(***************************************************************************)
(* A phase that a later process will skip has left its work on the host,   *)
(* and what it started runs: through failures, losses of power between and *)
(* within phases, lost saves and whole uninstallations ("Skip phases       *)
(* already completed in a prior run"); and an installation that reports    *)
(* completion gave every component the same secrets and left none in plain *)
(* text in its base directory, whichever processes did its phases          *)
(* (GenerateSecrets, SeedInfisical).  Another base directory, which an     *)
(* earlier installation was given and an uninstallation did not find       *)
(* (uninstall.go:256), is not followed.                                    *)
(***************************************************************************)
InstallIsSound == ResumeIsSound /\ FinishedAgrees
=============================================================================
