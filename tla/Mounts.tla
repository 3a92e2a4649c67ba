------------------------------- MODULE Mounts -------------------------------
(***************************************************************************)
(* internal/mounts: remote shares (SMB, NFS, rclone) mounted under one     *)
(* directory.  The handlers hold one lock; the process or the host may end *)
(* between any two of their steps, and every command may fail.             *)
(***************************************************************************)
EXTENDS FiniteSets, Naturals, Values

CONSTANTS
  MountNames, Shares,
  MaxMountFaults   \* commands that fail, writes that fail, restarts (a bound)

MountRequests ==
  [kind : {"create", "remove"}, name : MountNames, share : Shares,
   at : {"mount", "record", "unmount", "rmdir", "save"}]

ASSUME MountAssumption == None \notin Shares /\ None \notin MountRequests

VARIABLES
  dir,        \* mount points that exist
  mounted,    \* the kernel's table: [MountNames -> Shares or None]
  files,      \* shares that still have their files
  mounts,     \* the handler's table: [MountNames -> the share asked for, or None]
  stateFile,  \* .mounts.json
  req,        \* the request that holds the lock, or None
  halfDone,   \* names whose request was cut off, or that a failed command left mounted
  unsaved,    \* names for which the file could not be brought up to date
  faults

mountVars == <<dir, mounted, files, mounts, stateFile, req, halfDone, unsaved, faults>>

disks == <<dir, mounted, files>>

Fault == faults < MaxMountFaults /\ faults' = faults + 1

ReqAt(kind, at) == req # None /\ req.kind = kind /\ req.at = at

ReqGoes(at) == req' = [req EXCEPT !.at = at]

\* createMount: a name in use is refused; the mount point is made.
CreateBegins ==
  /\ req = None
  /\ \E n \in MountNames, s \in Shares :
       /\ mounts[n] = None
       /\ req' = [kind |-> "create", name |-> n, share |-> s, at |-> "mount"]
       /\ dir' = dir \cup {n}
  /\ UNCHANGED <<mounted, files, mounts, stateFile, halfDone, unsaved, faults>>

\* mountSMB, mountNFS, mountRclone: what they mount hides what was mounted there.
MountSucceeds ==
  /\ ReqAt("create", "mount")
  /\ mounted' = [mounted EXCEPT ![req.name] = req.share]
  /\ ReqGoes("record")
  /\ UNCHANGED <<dir, files, mounts, stateFile, halfDone, unsaved, faults>>

RemovesAll(n) ==   \* a slip: os.RemoveAll
  IF mounted[n] # None
    THEN files' = files \ {mounted[n]} /\ UNCHANGED dir
    ELSE dir' = dir \ {n} /\ UNCHANGED files

\* os.Remove: an empty directory that nothing is mounted on.
RemovesPoint(n) ==
  /\ dir' = IF mounted[n] = None THEN dir \ {n} ELSE dir
  /\ UNCHANGED files

\* An option that is not allowed, an unknown type, or a server that does not answer.
MountFails ==
  /\ ReqAt("create", "mount") /\ Fault
  /\ RemovesPoint(req.name)
  /\ req' = None
  /\ UNCHANGED <<mounted, mounts, stateFile, halfDone, unsaved>>

NoShares == [n \in MountNames |-> None]

Listed == {n \in MountNames : stateFile[n] # None}

\* saveState: an error is logged.  os.WriteFile truncates the file first, so that a write
\* that fails later leaves it without the shares it listed.
MountsSaved(new) ==
  \/ stateFile' = new /\ unsaved' = {} /\ UNCHANGED faults
  \/ unsaved' = unsaved \cup {req.name} /\ UNCHANGED stateFile /\ Fault
  \/ unsaved' = unsaved \cup {req.name} \cup Listed /\ stateFile' = NoShares /\ Fault

MountRecorded ==
  /\ ReqAt("create", "record")
  /\ mounts' = [mounts EXCEPT ![req.name] = req.share]
  /\ ReqGoes("save")
  /\ UNCHANGED <<disks, stateFile, halfDone, unsaved, faults>>

RequestSaves ==
  /\ req # None /\ req.at = "save"
  /\ MountsSaved(mounts)
  /\ req' = None
  /\ UNCHANGED <<disks, mounts, halfDone>>

\* removeMount: fusermount, umount, and a lazy umount that does for busy mounts.
RemoveBegins ==
  /\ req = None
  /\ \E n \in MountNames :
       /\ mounts[n] # None
       /\ req' = [kind |-> "remove", name |-> n, share |-> mounts[n], at |-> "unmount"]
  /\ UNCHANGED <<disks, mounts, stateFile, halfDone, unsaved, faults>>

Unmounts ==
  /\ ReqAt("remove", "unmount")
  /\ mounted' = [mounted EXCEPT ![req.name] = None]
  /\ ReqGoes("rmdir")
  /\ UNCHANGED <<dir, files, mounts, stateFile, halfDone, unsaved, faults>>

UnmountFails ==
  /\ ReqAt("remove", "unmount") /\ Fault
  /\ halfDone' = IF mounted[req.name] # None THEN halfDone \cup {req.name} ELSE halfDone
  /\ ReqGoes("rmdir")
  /\ UNCHANGED <<disks, mounts, stateFile, unsaved>>

MountForgotten ==
  /\ ReqAt("remove", "rmdir")
  /\ RemovesPoint(req.name)
  /\ mounts' = [mounts EXCEPT ![req.name] = None]
  /\ ReqGoes("save")
  /\ UNCHANGED <<mounted, stateFile, halfDone, unsaved, faults>>

\* What the process finds when it starts: .mounts.json, which is empty after a save that
\* was cut off.
Restarts ==
  /\ Fault
  /\ \E torn \in {FALSE} \cup {req # None /\ req.at = "save"} :
       /\ stateFile' = IF torn THEN NoShares ELSE stateFile
       /\ halfDone' = halfDone \cup unsaved \cup (IF req = None THEN {} ELSE {req.name})
                        \cup (IF torn THEN Listed ELSE {})
  /\ mounts' = stateFile'
  /\ req' = None /\ unsaved' = {}
  /\ UNCHANGED <<dir, files>>

\* loadState: rclone's daemons and the kernel's mounts outlive the process.
MountsRestarts == Restarts /\ UNCHANGED mounted

\* The host restarts: nothing is mounted, and nothing mounts it again.
HostReboots == Restarts /\ mounted' = NoShares

MountsInit ==
  /\ dir = {} /\ mounted = NoShares /\ files = Shares
  /\ mounts = mounted /\ stateFile = mounted
  /\ req = None /\ halfDone = {} /\ unsaved = {} /\ faults = 0

MountsNext ==
  \/ CreateBegins \/ MountSucceeds \/ MountFails \/ MountRecorded \/ RequestSaves
  \/ RemoveBegins \/ Unmounts \/ UnmountFails \/ MountForgotten
  \/ MountsRestarts \/ HostReboots

MountsTypeOK ==
  /\ dir \subseteq MountNames /\ files \subseteq Shares
  /\ {mounted, mounts, stateFile} \subseteq [MountNames -> Shares \cup {None}]
  /\ req \in {None} \cup MountRequests
  /\ halfDone \cup unsaved \subseteq MountNames

(***************************************************************************)
(* Shares are safe: no request removes what is on a remote share, although *)
(* mount points are removed whether or not unmounting worked (handler.go:  *)
(* 291, 334).  A share that is mounted is listed under its name, unless    *)
(* its request was cut off, unmounting failed, or the process restarted    *)
(* on a file that lacked it; and the file has it, unless it could not be   *)
(* written.  A write that fails or is cut off may cost the file every      *)
(* share it listed, since os.WriteFile truncates it first (186): they are  *)
(* listed until the next restart, or in the file again with the next save. *)
(***************************************************************************)
SharesAreSafe ==
  /\ files = Shares
  /\ req = None =>
       \A n \in MountNames \ halfDone : mounted[n] # None =>
         mounts[n] = mounted[n] /\ (n \notin unsaved => stateFile[n] = mounted[n])
=============================================================================
