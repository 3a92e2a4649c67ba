------------------------------- MODULE Models -------------------------------
(***************************************************************************)
(* Models (internal/appservice/models.go, service.go, internal/hfdownload  *)
(* and cmd/hf-downloader).  An Ollama model is pulled into and deleted     *)
(* from Ollama's library.  A vLLM model is a helm release whose pod has a  *)
(* downloader, which writes a done marker for the server after the last    *)
(* file, and an endpoint in OpenWebUI's list, read and written back by two *)
(* kubectl commands.  Each operation is a goroutine of app-service.        *)
(***************************************************************************)
EXTENDS Naturals, FiniteSets, Values

CONSTANTS
  OllamaModels, VLLMModels,
  ModelOps,   \* goroutines at a time (a bound)
  NumFiles,     \* files of a model: 1 .. NumFiles, and 0 the tiktoken encoding
  MaxStarted,   \* operations started (a bound)
  MaxMishaps    \* broken downloads, failed commands and restarts (a bound)

ModelJobs ==
  [model : OllamaModels \cup VLLMModels, kind : {"downloading", "uninstalling"},
   at : {"ollama", "pull", "helm", "follow", "read", "write", "data"}, seen : SUBSET VLLMModels]

Downloaders == [at : {"pick", "fetch", "mark", "exited"}, file : 0 .. NumFiles, tries : Nat]

ASSUME ModelsAssumption == NumFiles \in Nat /\ None \notin ModelJobs /\ None \notin Downloaders

VARIABLES
  library,     \* Ollama's models
  releases,    \* helm's releases
  pod,         \* downloaders: [VLLMModels -> [at, file, tries] or None]
  disk,        \* [VLLMModels -> [0 .. NumFiles -> "none", "part" or "whole"]]
  done,        \* models with a done marker
  listed,      \* OPENAI_API_BASE_URLS of OpenWebUI
  op,          \* operations under way: [ModelOps -> [model, kind, at, seen] or None]
  active,      \* activeModelOps: [models -> "downloading", "uninstalling" or None]
  odd,         \* models nothing is claimed about: see Models' properties
  started, mishaps

modelVars == <<library, releases, pod, disk, done, listed, op, active, odd, started, mishaps>>

cluster == <<library, releases, pod, disk, done, listed>>

AllModels == OllamaModels \cup VLLMModels

maxRetries == 3

Empty == [f \in 0 .. NumFiles |-> "none"]

Busy(m) == {o \in ModelOps : op[o] # None /\ op[o].model = m}

Mishap == mishaps < MaxMishaps /\ mishaps' = mishaps + 1

\* Two operations on one model may undo each other in any order.
OpStarts(o, m, kind, at) ==
  /\ op[o] = None /\ started < MaxStarted
  /\ op' = [op EXCEPT ![o] = [model |-> m, kind |-> kind, at |-> at, seen |-> {}]]
  /\ active' = [active EXCEPT ![m] = kind]
  /\ odd' = IF Busy(m) # {} THEN odd \cup {m} ELSE odd
  /\ started' = started + 1
  /\ UNCHANGED <<cluster, mishaps>>

InstallModel(o) ==
  \E m \in AllModels :
    OpStarts(o, m, "downloading", IF m \in OllamaModels THEN "ollama" ELSE "pull")

UninstallModel(o) ==
  \E m \in AllModels :
    OpStarts(o, m, "uninstalling", IF m \in OllamaModels THEN "ollama" ELSE "helm")

ModelAt(o, at) == op[o] # None /\ op[o].at = at

ModelGoes(o, at) == op' = [op EXCEPT ![o].at = at] /\ UNCHANGED <<active, started>>

\* The goroutine ends, after an error too: its model is not active any more.
ModelEnds(o) ==
  /\ op' = [op EXCEPT ![o] = None]
  /\ active' = [active EXCEPT ![op[o].model] = None]
  /\ UNCHANGED started

\* OllamaBackend: the pull's stream ends, or the delete is answered; or it fails.
OllamaAnswers(o) ==
  /\ ModelAt(o, "ollama")
  /\ library' = IF op[o].kind = "downloading" THEN library \cup {op[o].model}
                                              ELSE library \ {op[o].model}
  /\ ModelEnds(o)
  /\ UNCHANGED <<releases, pod, disk, done, listed, odd, mishaps>>

\* An error before anything was done: no memory, no chart, Ollama or helm refuses.
OpFails(o) ==
  /\ op[o] # None /\ op[o].at \in {"ollama", "pull", "helm"}
  /\ Mishap
  /\ ModelEnds(o)
  /\ UNCHANGED <<cluster, odd>>

\* VLLMBackend.Install: missing images are pulled first; what fails is pulled by kubelet.
ImagesPulled(o) ==
  /\ ModelAt(o, "pull")
  /\ ModelGoes(o, "helm")
  /\ UNCHANGED <<cluster, odd, mishaps>>

\* helm install creates the release and its pod; a release by that name is an error.
HelmInstalls(o) ==
  /\ ModelAt(o, "helm") /\ op[o].kind = "downloading"
  /\ LET m == op[o].model IN
       IF m \in releases
         THEN ModelEnds(o) /\ UNCHANGED <<releases, pod>>
         ELSE /\ ModelGoes(o, "follow")
              /\ releases' = releases \cup {m}
              /\ pod' = [pod EXCEPT ![m] = [at |-> "pick", file |-> 0, tries |-> 0]]
  /\ UNCHANGED <<library, disk, done, listed, odd, mishaps>>

\* helm uninstall does not wait for the pod, which ends a little later.
HelmUninstalls(o) ==
  /\ ModelAt(o, "helm") /\ op[o].kind = "uninstalling"
  /\ IF op[o].model \in releases THEN ModelGoes(o, "read") ELSE ModelEnds(o)
  /\ releases' = releases \ {op[o].model}
  /\ UNCHANGED <<library, pod, disk, done, listed, odd, mishaps>>

\* monitorDownload: until the downloader's log ends, as it does when it failed, too; or
\* no pod was found.
FollowEnds(o) ==
  /\ ModelAt(o, "follow")
  /\ LET p == pod[op[o].model] IN IF p = None THEN TRUE ELSE p.at = "exited"
  /\ ModelGoes(o, "read")
  /\ UNCHANGED <<cluster, odd, mishaps>>

\* ModelOps that have read the list and not written it.
Reading(o) == {q \in ModelOps \ {o} : ModelAt(q, "write")}

AfterEndpoint(o) == IF op[o].kind = "uninstalling" THEN ModelGoes(o, "data") ELSE ModelEnds(o)

\* getOpenWebUIEnv, for addOpenWebUIEndpoint and removeOpenWebUIEndpoint; a failing
\* kubectl reads as an empty list.
EndpointsRead(o) ==
  /\ ModelAt(o, "read")
  /\ \/ /\ op' = [op EXCEPT ![o].at = "write", ![o].seen = listed]
        /\ odd' = IF Reading(o) = {} THEN odd
                  ELSE odd \cup {op[q].model : q \in Reading(o) \cup {o}}
        /\ UNCHANGED <<active, started, mishaps>>
     \/ /\ Mishap
        /\ op' = [op EXCEPT ![o].at = "write", ![o].seen = {}]
        /\ odd' = odd \cup VLLMModels
        /\ UNCHANGED <<active, started>>
  /\ UNCHANGED cluster

\* What kubectl set env writes.
NewEndpoints(o) ==
  IF op[o].kind = "downloading" THEN op[o].seen \cup {op[o].model}
                                ELSE op[o].seen \ {op[o].model}

\* An endpoint that is already there is not added again; a failing kubectl is logged.
EndpointsWritten(o) ==
  /\ ModelAt(o, "write")
  /\ \/ /\ listed' = IF op[o].kind = "downloading" /\ op[o].model \in op[o].seen
                       THEN listed ELSE NewEndpoints(o)
        /\ UNCHANGED <<odd, mishaps>>
     \/ /\ Mishap
        /\ odd' = odd \cup {op[o].model}
        /\ UNCHANGED listed
  /\ AfterEndpoint(o)
  /\ UNCHANGED <<library, releases, pod, disk, done>>

\* os.RemoveAll of the model's directory, and the images; a pod that is still there may
\* write while files are removed, and a removal that fails is logged.
DataRemoved(o) ==
  /\ ModelAt(o, "data")
  /\ LET m == op[o].model IN
       \/ /\ pod[m] = None
          /\ disk' = [disk EXCEPT ![m] = Empty]
          /\ done' = done \ {m}
          /\ UNCHANGED <<odd, mishaps>>
       \/ /\ pod[m] # None \/ mishaps < MaxMishaps
          /\ \E left \in {Empty, disk[m]} : disk' = [disk EXCEPT ![m] = left]
          /\ odd' = odd \cup {m}
          /\ UNCHANGED <<done, mishaps>>
  /\ ModelEnds(o)
  /\ UNCHANGED <<library, releases, pod, listed>>

\* app-service restarts: its goroutines and activeModelOps are gone.
ServiceRestarts ==
  /\ Mishap
  /\ odd' = odd \cup {op[o].model : o \in {q \in ModelOps : op[q] # None}}
  /\ op' = [o \in ModelOps |-> None]
  /\ active' = [m \in AllModels |-> None]
  /\ UNCHANGED <<cluster, started>>

(* The downloader *)

others == <<library, releases, listed, op, active, odd, started>>

PodAt(m, at) == pod[m] # None /\ pod[m].at = at

Exits(m) == pod' = [pod EXCEPT ![m].at = "exited"]

SkipsAnySize(m, f) == disk[m][f] # "none"   \* a slip: the size is not compared

\* A file of the expected size is not downloaded again; an encoding is not, whatever its size.
SkipsFile(m, f) == IF f = 0 THEN disk[m][f] # "none" ELSE disk[m][f] = "whole"

NextFile(m) ==
  pod' = [pod EXCEPT ![m] = IF @.file < NumFiles
            THEN [at |-> "pick", file |-> @.file + 1, tries |-> 0]
            ELSE [@ EXCEPT !.at = "mark"]]

FileSkipped(m) ==
  /\ PodAt(m, "pick") /\ SkipsFile(m, pod[m].file)
  /\ NextFile(m)
  /\ UNCHANGED <<others, disk, done, mishaps>>

\* doDownload: os.Create truncates the file.
FetchStarts(m) ==
  /\ PodAt(m, "pick") /\ ~SkipsFile(m, pod[m].file)
  /\ disk' = [disk EXCEPT ![m][pod[m].file] = "part"]
  /\ pod' = [pod EXCEPT ![m].at = "fetch"]
  /\ UNCHANGED <<others, done, mishaps>>

FetchEnds(m) ==
  /\ PodAt(m, "fetch")
  /\ disk' = [disk EXCEPT ![m][pod[m].file] = "whole"]
  /\ NextFile(m)
  /\ UNCHANGED <<others, done, mishaps>>

\* downloadFile tries maxRetries times, each from the start of the file.
FetchBreaks(m) ==
  /\ PodAt(m, "fetch") /\ Mishap
  /\ IF pod[m].tries + 1 < maxRetries
       THEN pod' = [pod EXCEPT ![m].tries = @ + 1] ELSE Exits(m)
  /\ UNCHANGED <<others, disk, done>>

\* DownloadAll writes the marker after the last file.
DoneMarked(m) ==
  /\ PodAt(m, "mark")
  /\ done' = done \cup {m}
  /\ Exits(m)
  /\ UNCHANGED <<others, disk, mishaps>>

\* The files cannot be listed, or the container is killed.
DownloaderDies(m) ==
  /\ pod[m] # None /\ pod[m].at # "exited" /\ Mishap
  /\ Exits(m)
  /\ UNCHANGED <<others, disk, done>>

\* Kubernetes starts an exited container again, and removes the pod of a removed release.
DownloaderRestarts(m) ==
  /\ PodAt(m, "exited") /\ m \in releases /\ m \notin done
  /\ pod' = [pod EXCEPT ![m] = [at |-> "pick", file |-> 0, tries |-> 0]]
  /\ UNCHANGED <<others, disk, done, mishaps>>

PodRemoved(m) ==
  /\ pod[m] # None /\ m \notin releases
  /\ pod' = [pod EXCEPT ![m] = None]
  /\ UNCHANGED <<others, disk, done, mishaps>>

ModelsInit ==
  /\ library = {} /\ releases = {} /\ done = {} /\ listed = {} /\ odd = {}
  /\ pod = [m \in VLLMModels |-> None]
  /\ disk = [m \in VLLMModels |-> Empty]
  /\ op = [o \in ModelOps |-> None]
  /\ active = [m \in AllModels |-> None]
  /\ started = 0 /\ mishaps = 0

ModelsNext ==
  \/ \E o \in ModelOps :
       \/ InstallModel(o) \/ UninstallModel(o) \/ OllamaAnswers(o) \/ OpFails(o)
       \/ ImagesPulled(o) \/ HelmInstalls(o) \/ HelmUninstalls(o) \/ FollowEnds(o)
       \/ EndpointsRead(o) \/ EndpointsWritten(o) \/ DataRemoved(o)
  \/ \E m \in VLLMModels :
       \/ FileSkipped(m) \/ FetchStarts(m) \/ FetchEnds(m) \/ FetchBreaks(m) \/ DoneMarked(m)
       \/ DownloaderDies(m) \/ DownloaderRestarts(m) \/ PodRemoved(m)
  \/ ServiceRestarts

ModelsTypeOK ==
  /\ library \subseteq OllamaModels
  /\ releases \cup done \cup listed \subseteq VLLMModels
  /\ odd \subseteq AllModels
  /\ pod \in [VLLMModels -> {None} \cup Downloaders]
  /\ disk \in [VLLMModels -> [0 .. NumFiles -> {"none", "part", "whole"}]]
  /\ op \in [ModelOps -> {None} \cup ModelJobs]
  /\ active \in [AllModels -> {"downloading", "uninstalling", None}]

\* The server, which waits for the marker, finds every file of the model.
DoneIsWhole ==
  \A m \in done \ odd : \A f \in 1 .. NumFiles : disk[m][f] = "whole"

\* OpenWebUI offers the models that are installed.
EndpointsAgree ==
  \A m \in VLLMModels \ odd : Busy(m) = {} => (m \in listed <=> m \in releases)

\* ListInstalledModels shows what is under way, and nothing that is over.
ActiveAgrees ==
  \A m \in AllModels :
    /\ Busy(m) = {} => active[m] = None
    /\ m \notin odd => \A o \in Busy(m) : active[m] = op[o].kind

(***************************************************************************)
(* Models agree: while downloads break and are repeated, operations run    *)
(* side by side and app-service restarts, a marked model is whole, the     *)
(* endpoints are those of the releases and the operations shown are those  *)
(* that run.  Not claimed of an odd model: one with two operations at a    *)
(* time, whose list was read and written by two operations at a time, with *)
(* a failed kubectl, an operation cut off, or files removed under a pod    *)
(* that has not ended (models.go:302, 378, 572, 659, 683).                 *)
(***************************************************************************)
ModelsAgree == DoneIsWhole /\ EndpointsAgree /\ ActiveAgrees
=============================================================================
