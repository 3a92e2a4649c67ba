----------------------------- MODULE HostProofs -----------------------------
(***************************************************************************)
(* Proofs about the components that act on the host and keep what is on    *)
(* it: mounts, SSH, the WireGuard tunnel, the platform's secrets, the      *)
(* users' files and the installer, for any names, ports, requests,         *)
(* failures, restarts and losses of power.                                 *)
(***************************************************************************)
EXTENDS MCPlatform, FiniteSetTheorems, TLAPS

\* A step of the platform is a step of each component, or leaves it alone.
LEMMA HostSteps ==
  ASSUME [PlatformNext]_platformVars
  PROVE  /\ [MountsNext]_mountVars /\ [SSHNext]_sshVars /\ [TunnelNext]_tunnelVars
         /\ [SecretsNext]_secretVars /\ [FilesNext]_filesVars /\ [InstallNext]_installVars
BY DEF PlatformNext, platformVars

-----------------------------------------------------------------------------
(* Mounts *)

\* The request at hand is at this point for this name.
MountAt(kind, at, n) == req # None /\ req.kind = kind /\ req.at = at /\ req.name = n

MountSaves(n) == req # None /\ req.at = "save" /\ req.name = n

\* What the kernel has, the handler's table and the file agree, but for names whose
\* request is between the steps that change them, was cut off or could not be saved.
MountInv ==
  /\ files = Shares
  /\ \A n \in MountNames :
       /\ n \notin halfDone /\ ~MountAt("create", "record", n) /\ mounted[n] # None
            => mounts[n] = mounted[n]
       /\ n \notin halfDone \cup unsaved /\ ~MountSaves(n) => stateFile[n] = mounts[n]
       /\ MountAt("create", "record", n) => mounted[n] = req.share
       /\ MountAt("remove", "rmdir", n) => mounted[n] = None \/ n \in halfDone

LEMMA ReqMoved ==
  ASSUME req \in MountRequests, NEW at \in {"mount", "record", "unmount", "rmdir", "save"},
         ReqGoes(at)
  PROVE  /\ req' \in MountRequests /\ req' # None /\ req'.at = at
         /\ req'.kind = req.kind /\ req'.name = req.name /\ req'.share = req.share
BY MountAssumption DEF ReqGoes, MountRequests

LEMMA MountTypeStep ==
  ASSUME MountsTypeOK, [MountsNext]_mountVars
  PROVE  MountsTypeOK'
<1> USE MountAssumption
<1>0. /\ mounted \in [MountNames -> Shares \cup {None}] /\ mounts \in [MountNames -> Shares \cup {None}]
      /\ stateFile \in [MountNames -> Shares \cup {None}]
      /\ dir \subseteq MountNames /\ files \subseteq Shares /\ halfDone \subseteq MountNames
      /\ unsaved \subseteq MountNames /\ req \in {None} \cup MountRequests
      /\ req # None => req.name \in MountNames /\ req.share \in Shares
  BY DEF MountsTypeOK, MountRequests
<1>1. CASE CreateBegins
  <2> PICK n \in MountNames, s \in Shares :
        /\ req' = [kind |-> "create", name |-> n, share |-> s, at |-> "mount"]
        /\ dir' = dir \cup {n}
    BY <1>1 DEF CreateBegins
  <2>1. req' \in MountRequests BY DEF MountRequests
  <2> QED BY <1>0, <1>1, <2>1 DEF CreateBegins, MountsTypeOK
<1>2. CASE MountSucceeds
  <2>1. req' \in MountRequests BY <1>0, <1>2, ReqMoved DEF MountSucceeds, ReqAt
  <2> QED BY <1>0, <1>2, <2>1 DEF MountSucceeds, ReqAt, MountsTypeOK
<1>3. CASE MountFails
  BY <1>0, <1>3 DEF MountFails, RemovesPoint, Fault, MountsTypeOK
<1>4. CASE MountRecorded
  <2>1. req' \in MountRequests BY <1>0, <1>4, ReqMoved DEF MountRecorded, ReqAt
  <2> QED BY <1>0, <1>4, <2>1 DEF MountRecorded, ReqAt, MountsTypeOK, disks
<1>5. CASE RequestSaves
  <2>1. /\ stateFile' = mounts \/ stateFile' = stateFile \/ stateFile' = NoShares
        /\ unsaved' \subseteq unsaved \cup {req.name} \cup Listed
        /\ req # None /\ req' = None /\ UNCHANGED <<disks, mounts, halfDone>>
    BY <1>5 DEF RequestSaves, MountsSaved
  <2> QED BY <1>0, <2>1 DEF disks, NoShares, Listed, MountsTypeOK
<1>6. CASE RemoveBegins
  <2> PICK n \in MountNames : mounts[n] # None
        /\ req' = [kind |-> "remove", name |-> n, share |-> mounts[n], at |-> "unmount"]
    BY <1>6 DEF RemoveBegins
  <2>1. req' \in MountRequests BY <1>0 DEF MountRequests
  <2> QED BY <1>0, <1>6, <2>1 DEF RemoveBegins, MountsTypeOK, disks
<1>7. CASE Unmounts
  <2>1. req' \in MountRequests BY <1>0, <1>7, ReqMoved DEF Unmounts, ReqAt
  <2> QED BY <1>0, <1>7, <2>1 DEF Unmounts, ReqAt, MountsTypeOK
<1>8. CASE UnmountFails
  <2>1. req' \in MountRequests BY <1>0, <1>8, ReqMoved DEF UnmountFails, ReqAt
  <2> QED BY <1>0, <1>8, <2>1 DEF UnmountFails, ReqAt, MountsTypeOK, disks
<1>9. CASE MountForgotten
  <2>1. req' \in MountRequests BY <1>0, <1>9, ReqMoved DEF MountForgotten, ReqAt
  <2> QED BY <1>0, <1>9, <2>1 DEF MountForgotten, RemovesPoint, ReqAt, MountsTypeOK
<1>10. CASE MountsRestarts \/ HostReboots
  <2>1. Restarts BY <1>10 DEF MountsRestarts, HostReboots
  <2>2. mounted' \in [MountNames -> Shares \cup {None}]
    BY <1>0, <1>10 DEF MountsRestarts, HostReboots, NoShares
  <2>3. stateFile' \in [MountNames -> Shares \cup {None}] /\ mounts' = stateFile'
    BY <1>0, <2>1 DEF Restarts, NoShares
  <2>4. halfDone' \subseteq MountNames /\ req' = None /\ unsaved' = {} /\ UNCHANGED <<dir, files>>
    BY <1>0, <2>1 DEF Restarts, Listed
  <2> QED BY <1>0, <2>2, <2>3, <2>4 DEF MountsTypeOK
<1>11. CASE UNCHANGED mountVars BY <1>11 DEF mountVars, MountsTypeOK
<1> QED BY <1>1, <1>2, <1>3, <1>4, <1>5, <1>6, <1>7, <1>8, <1>9, <1>10, <1>11 DEF MountsNext

LEMMA MountInvStep ==
  ASSUME MountsTypeOK, MountInv, [MountsNext]_mountVars
  PROVE  MountInv'
<1> USE MountAssumption
<1>0. /\ mounted \in [MountNames -> Shares \cup {None}] /\ mounts \in [MountNames -> Shares \cup {None}]
      /\ stateFile \in [MountNames -> Shares \cup {None}]
      /\ halfDone \subseteq MountNames /\ req \in {None} \cup MountRequests
      /\ req # None => req \in MountRequests /\ req.name \in MountNames /\ req.share \in Shares
  BY DEF MountsTypeOK, MountRequests
<1> USE DEF MountAt, MountSaves
<1>1. CASE CreateBegins
  <2> PICK n \in MountNames, s \in Shares :
        req' = [kind |-> "create", name |-> n, share |-> s, at |-> "mount"]
    BY <1>1 DEF CreateBegins
  <2> QED BY <1>0, <1>1 DEF CreateBegins, MountInv
<1>2. CASE MountSucceeds
  <2>1. req'.at = "record" /\ req'.kind = "create" /\ req'.name = req.name /\ req'.share = req.share
        /\ req' # None
    BY <1>0, <1>2, ReqMoved DEF MountSucceeds, ReqAt
  <2> QED BY <1>0, <1>2, <2>1 DEF MountSucceeds, ReqAt, MountInv
<1>3. CASE MountFails
  BY <1>0, <1>3 DEF MountFails, RemovesPoint, ReqAt, MountInv
<1>4. CASE MountRecorded
  <2>1. req'.at = "save" /\ req'.kind = "create" /\ req'.name = req.name /\ req'.share = req.share
        /\ req' # None
    BY <1>0, <1>4, ReqMoved DEF MountRecorded, ReqAt
  <2> QED BY <1>0, <1>4, <2>1 DEF MountRecorded, ReqAt, MountInv, disks
<1>5. CASE RequestSaves
  <2>1. UNCHANGED <<mounted, files, mounts, halfDone>> /\ req' = None
    BY <1>5 DEF RequestSaves, disks
  <2>2. CASE stateFile' = mounts /\ unsaved' = {} BY <1>0, <1>5, <2>1, <2>2 DEF RequestSaves, MountInv
  <2>3. CASE unsaved' = unsaved \cup {req.name} /\ UNCHANGED stateFile
    BY <1>0, <1>5, <2>1, <2>3 DEF RequestSaves, MountInv
  <2>4. CASE unsaved' = unsaved \cup {req.name} \cup Listed /\ stateFile' = NoShares
    <3>1. req # None /\ req.at = "save" BY <1>5 DEF RequestSaves
    <3>2. ASSUME NEW n \in MountNames, n \notin halfDone \cup unsaved' PROVE stateFile'[n] = mounts'[n]
      <4>1. n \notin halfDone \cup unsaved /\ n # req.name /\ stateFile[n] = None
        BY <2>4, <3>2 DEF Listed
      <4> QED BY <2>1, <2>4, <4>1 DEF MountInv, NoShares
    <3> QED BY <1>0, <2>1, <3>1, <3>2 DEF MountInv
  <2> QED BY <1>5, <2>2, <2>3, <2>4 DEF RequestSaves, MountsSaved
<1>6. CASE RemoveBegins
  <2> PICK n \in MountNames :
        req' = [kind |-> "remove", name |-> n, share |-> mounts[n], at |-> "unmount"]
    BY <1>6 DEF RemoveBegins
  <2> QED BY <1>0, <1>6 DEF RemoveBegins, MountInv, disks
<1>7. CASE Unmounts
  <2>1. req'.at = "rmdir" /\ req'.kind = "remove" /\ req'.name = req.name /\ req' # None
    BY <1>0, <1>7, ReqMoved DEF Unmounts, ReqAt
  <2> QED BY <1>0, <1>7, <2>1 DEF Unmounts, ReqAt, MountInv
<1>8. CASE UnmountFails
  <2>1. req'.at = "rmdir" /\ req'.kind = "remove" /\ req'.name = req.name /\ req' # None
    BY <1>0, <1>8, ReqMoved DEF UnmountFails, ReqAt
  <2> QED BY <1>0, <1>8, <2>1 DEF UnmountFails, ReqAt, MountInv, disks
<1>9. CASE MountForgotten
  <2>1. req'.at = "save" /\ req'.kind = "remove" /\ req'.name = req.name /\ req' # None
    BY <1>0, <1>9, ReqMoved DEF MountForgotten, ReqAt
  <2>2. files' = files BY <1>9 DEF MountForgotten, RemovesPoint
  <2> QED BY <1>0, <1>9, <2>1, <2>2 DEF MountForgotten, ReqAt, MountInv
<1>10. CASE MountsRestarts \/ HostReboots
  <2>1. Restarts /\ req' = None /\ mounts' = stateFile' /\ files' = files
    BY <1>10 DEF MountsRestarts, HostReboots, Restarts
  <2>2. \A n \in MountNames : mounted'[n] # None => mounted'[n] = mounted[n]
    BY <1>0, <1>10 DEF MountsRestarts, HostReboots, NoShares
  <2>3. ASSUME NEW n \in MountNames, n \notin halfDone', mounted'[n] # None
        PROVE  mounts'[n] = mounted'[n]
    <3> PICK torn \in {FALSE} \cup {req # None /\ req.at = "save"} :
          /\ stateFile' = IF torn THEN NoShares ELSE stateFile
          /\ halfDone' = halfDone \cup unsaved \cup (IF req = None THEN {} ELSE {req.name})
                           \cup (IF torn THEN Listed ELSE {})
      BY <2>1 DEF Restarts
    <3>1. n \notin halfDone \cup unsaved /\ (req # None => req.name # n) BY <2>3
    <3>2. stateFile[n] = mounted'[n] BY <2>2, <2>3, <3>1 DEF MountInv
    <3>3. CASE torn
      <4>1. n \notin Listed BY <2>3, <3>3
      <4> QED BY <2>3, <3>2, <4>1 DEF Listed
    <3>4. CASE ~torn BY <2>1, <3>2, <3>4
    <3> QED BY <3>3, <3>4
  <2> QED BY <2>1, <2>3 DEF MountInv
<1>11. CASE UNCHANGED mountVars BY <1>11 DEF mountVars, MountInv
<1> QED BY <1>1, <1>2, <1>3, <1>4, <1>5, <1>6, <1>7, <1>8, <1>9, <1>10, <1>11 DEF MountsNext

(***************************************************************************)
(* No request removes what is on a remote share, and what is mounted is    *)
(* listed under its name, also after restarts of the process or the host,  *)
(* unless its request was cut off, unmounting failed or a restart found a  *)
(* file that could not be written; the invariant follows a request through *)
(* the steps at which the kernel, the table and the file differ.           *)
(***************************************************************************)
THEOREM SharesSafe == PlatformSpec => []SharesAreSafe
<1>1. PlatformInit => MountsTypeOK /\ MountInv
  BY MountAssumption DEF PlatformInit, MountsInit, MountsTypeOK, MountInv, MountAt, MountSaves, NoShares
<1>2. MountsTypeOK /\ MountInv /\ [PlatformNext]_platformVars => (MountsTypeOK /\ MountInv)'
  BY HostSteps, MountTypeStep, MountInvStep
<1>3. MountInv => SharesAreSafe
  BY DEF MountInv, SharesAreSafe, MountAt, MountSaves
<1> QED BY <1>1, <1>2, <1>3, PTL DEF PlatformSpec
-----------------------------------------------------------------------------
(* SSH *)

\* The request has still to restart the service or to stop it.
Pends(r) == sshReq[r].at \in {"enable", "restart", "socket", "stop"}

\* What a request that none overlapped has done so far.
HasItsWay(r) ==
  IF sshReq[r].on
  THEN /\ sshReq[r].at \in {"port", "enable", "restart", "done"}
       /\ sshReq[r].at \in {"restart", "done"} => "service" \in atBoot
       /\ sshReq[r].at = "done" => SSHEnabled
  ELSE /\ sshReq[r].at \in {"port", "socket", "stop", "disable", "done"}
       /\ sshReq[r].at \in {"stop", "disable", "done"} => ~socket /\ "socket" \notin atBoot
       /\ sshReq[r].at \in {"disable", "done"} => daemon = None
       /\ sshReq[r].at = "done" => "service" \notin atBoot

SSHInv ==
  /\ portLine # None => PortAllowed(portLine)
  /\ \A r \in SSHRequests : PortAllowed(sshReq[r].port)
  /\ sshOnly # None => \A o \in SSHRequests \ {sshOnly} : SSHIdle(o)
  /\ ~sshFailed =>
       /\ (\A r \in SSHRequests : ~Pends(r)) /\ daemon # None /\ ~socket => daemon = SSHPort
       /\ sshOnly # None => HasItsWay(sshOnly)
SSHPoints == {"idle", "port", "enable", "restart", "socket", "stop", "disable", "done"}

SSHTable == [SSHRequests -> [at : SSHPoints, on : BOOLEAN, port : Ports \cup {22}]]

LEMMA SSHMoved ==
  ASSUME SSHTypeOK, NEW r \in SSHRequests, NEW at \in SSHPoints, SSHGoes(r, at)
  PROVE  /\ sshReq' \in SSHTable
         /\ sshReq'[r].at = at /\ sshReq'[r].on = sshReq[r].on /\ sshReq'[r].port = sshReq[r].port
         /\ \A o \in SSHRequests \ {r} : sshReq'[o] = sshReq[o]
BY DEF SSHTypeOK, SSHGoes, SSHPoints, SSHTable

LEMMA SSHRebooted ==
  ASSUME SSHTypeOK, SSHHostReboots
  PROVE  /\ sshReq' \in SSHTable
         /\ \A r \in SSHRequests :
              /\ sshReq'[r].at = (IF sshReq[r].at = "idle" THEN "idle" ELSE "done")
              /\ sshReq'[r].on = sshReq[r].on /\ sshReq'[r].port = sshReq[r].port
<1>1. sshReq' = [r \in SSHRequests |->
                   [sshReq[r] EXCEPT !.at = IF sshReq[r].at = "idle" THEN sshReq[r].at ELSE "done"]]
  BY DEF SSHHostReboots
<1>2. sshReq \in SSHTable
  BY DEF SSHTypeOK, SSHPoints, SSHTable
<1> QED BY <1>1, <1>2 DEF SSHPoints, SSHTable

LEMMA SSHTypeStep ==
  ASSUME SSHTypeOK, [SSHNext]_sshVars
  PROVE  SSHTypeOK'
<1> DEFINE PointOK == /\ sshReq' \in SSHTable
                      /\ sshFailed' \in BOOLEAN
                      /\ sshOnly' \in SSHRequests \cup {None}
           UnitsOK == /\ portLine' \in Ports \cup {22, None} /\ daemon' \in Ports \cup {22, None}
                      /\ socket' \in BOOLEAN /\ atBoot' \subseteq {"service", "socket"}
<1>0. /\ portLine \in Ports \cup {22, None} /\ daemon \in Ports \cup {22, None}
      /\ socket \in BOOLEAN /\ atBoot \subseteq {"service", "socket"}
      /\ Listens \in Ports \cup {22} /\ SSHPort \in Ports \cup {22}
      /\ sshFailed \in BOOLEAN /\ sshOnly \in SSHRequests \cup {None}
      /\ sshReq \in SSHTable
  BY DEF SSHTypeOK, Listens, SSHPort, SSHPoints, SSHTable
<1>1. ASSUME NEW r \in SSHRequests, NEW on \in BOOLEAN, NEW port \in Ports, SSHAsked(r, on, port)
      PROVE  PointOK /\ UnitsOK
  BY <1>0, <1>1 DEF SSHAsked, sshUnits, NoSSHFault, SSHPoints, SSHTable
<1>2. ASSUME NEW r \in SSHRequests, PortSet(r) PROVE PointOK /\ UnitsOK
  <2>1. sshReq' \in SSHTable
    BY <1>2, SSHMoved DEF PortSet, SSHPoints
  <2>2. portLine' \in Ports \cup {22, None}
    <3>1. sshReq[r].port \in Ports \cup {22} BY <1>0 DEF SSHTable
    <3> QED BY <1>2, <3>1 DEF PortSet
  <2> QED BY <1>0, <1>2, <2>1, <2>2 DEF PortSet, sshUnits, NoSSHFault
<1>3. ASSUME NEW r \in SSHRequests,
             \/ SSHGivesUp(r) \/ ServiceEnabled(r) \/ ServiceRestarted(r) \/ SocketStopped(r)
             \/ ServiceStopped(r) \/ ServiceDisabled(r)
      PROVE  PointOK /\ UnitsOK
  <2>1. sshReq' \in SSHTable
    <3>1. \E at \in SSHPoints : SSHGoes(r, at)
      BY <1>3 DEF SSHGivesUp, ServiceEnabled, ServiceRestarted, SocketStopped, ServiceStopped,
         ServiceDisabled, SSHPoints
    <3> QED BY <3>1, SSHMoved
  <2>2. sshFailed' \in BOOLEAN /\ sshOnly' = sshOnly /\ portLine' = portLine
    BY <1>0, <1>3 DEF SSHGivesUp, ServiceEnabled, ServiceRestarted, SocketStopped, ServiceStopped,
         ServiceDisabled, sshUnits, NoSSHFault, SSHFault
  <2>3. daemon' \in Ports \cup {22, None} /\ socket' \in BOOLEAN /\ atBoot' \subseteq {"service", "socket"}
    BY <1>0, <1>3 DEF SSHGivesUp, ServiceEnabled, ServiceRestarted, SocketStopped, ServiceStopped,
         ServiceDisabled, sshUnits, NoSSHFault, SSHFault
  <2> QED BY <1>0, <2>1, <2>2, <2>3
<1>4. ASSUME SocketUsed PROVE PointOK /\ UnitsOK BY <1>0, <1>4 DEF SocketUsed, NoSSHFault
<1>5. ASSUME SSHHostReboots PROVE PointOK /\ UnitsOK
  <2>1. sshReq' \in SSHTable
    BY <1>5, SSHRebooted
  <2>2. socket' \in BOOLEAN /\ sshFailed' \in BOOLEAN BY <1>5 DEF SSHHostReboots
  <2>3. daemon' \in Ports \cup {22, None} BY <1>0, <1>5 DEF SSHHostReboots
  <2> QED BY <1>0, <1>5, <2>1, <2>2, <2>3 DEF SSHHostReboots
<1>6. ASSUME UNCHANGED sshVars PROVE PointOK /\ UnitsOK BY <1>0, <1>6 DEF sshVars
<1>7. PointOK /\ UnitsOK BY <1>1, <1>2, <1>3, <1>4, <1>5, <1>6 DEF SSHNext
<1> QED BY <1>7 DEF SSHTypeOK, SSHPoints, SSHTable

\* The first two parts: ports are allowed ones, and the others stand still beside the
\* request that sshOnly names.
LEMMA SSHPortsStep ==
  ASSUME SSHTypeOK, SSHInv, [SSHNext]_sshVars
  PROVE  /\ portLine' # None => PortAllowed(portLine')
         /\ \A r \in SSHRequests : PortAllowed(sshReq'[r].port)
<1>1. ASSUME NEW r \in SSHRequests, NEW on \in BOOLEAN, NEW port \in Ports, SSHAsked(r, on, port)
      PROVE  portLine' = portLine /\ \A o \in SSHRequests : PortAllowed(sshReq'[o].port)
  <2>1. PortAllowed(port) /\ portLine' = portLine BY <1>1 DEF SSHAsked
  <2>2. \A o \in SSHRequests : sshReq'[o].port = sshReq[o].port \/ sshReq'[o].port = port
    BY <1>1 DEF SSHAsked, SSHTypeOK
  <2> HIDE DEF PortAllowed
  <2> QED BY <2>1, <2>2 DEF SSHInv
<1>2. ASSUME NEW r \in SSHRequests, PortSet(r)
      PROVE  /\ portLine' # None => PortAllowed(portLine')
             /\ \A o \in SSHRequests : PortAllowed(sshReq'[o].port)
  <2>1. \A o \in SSHRequests : sshReq'[o].port = sshReq[o].port
    BY <1>2, SSHMoved DEF PortSet, SSHPoints
  <2>2. portLine' = None \/ portLine' = sshReq[r].port BY <1>2 DEF PortSet
  <2> HIDE DEF PortAllowed
  <2> QED BY <2>1, <2>2 DEF SSHInv
<1>3. ASSUME NEW r \in SSHRequests,
             \/ SSHGivesUp(r) \/ ServiceEnabled(r) \/ ServiceRestarted(r) \/ SocketStopped(r)
             \/ ServiceStopped(r) \/ ServiceDisabled(r)
      PROVE  portLine' = portLine /\ \A o \in SSHRequests : sshReq'[o].port = sshReq[o].port
  <2>1. \E at \in SSHPoints : SSHGoes(r, at)
    BY <1>3 DEF SSHGivesUp, ServiceEnabled, ServiceRestarted, SocketStopped, ServiceStopped,
       ServiceDisabled, SSHPoints
  <2>2. \A o \in SSHRequests : sshReq'[o].port = sshReq[o].port BY <2>1, SSHMoved
  <2> QED BY <1>3, <2>2 DEF SSHGivesUp, ServiceEnabled, ServiceRestarted, SocketStopped,
         ServiceStopped, ServiceDisabled
<1>4. CASE SocketUsed \/ UNCHANGED sshVars
  BY <1>4 DEF SocketUsed, sshVars, SSHInv
<1>5. CASE SSHHostReboots
  <2>1. \A o \in SSHRequests : sshReq'[o].port = sshReq[o].port BY <1>5, SSHRebooted
  <2> QED BY <1>5, <2>1 DEF SSHHostReboots, SSHInv
<1> HIDE DEF PortAllowed
<1> QED BY <1>1, <1>2, <1>3, <1>4, <1>5 DEF SSHNext, SSHInv
\* While it runs, a request that sshOnly names is the only one.
LEMMA SSHAlone ==
  ASSUME SSHInv, NEW r \in SSHRequests, ~SSHIdle(r), sshOnly # None
  PROVE  sshOnly = r
BY DEF SSHInv

LEMMA SSHInvStep ==
  ASSUME SSHTypeOK, SSHInv, [SSHNext]_sshVars
  PROVE  SSHInv'
<1> USE SSHAssumption
<1>0. /\ sshReq \in SSHTable /\ SSHPort # None /\ Listens # None
      /\ sshOnly \in SSHRequests \cup {None}
  BY DEF SSHTypeOK, SSHTable, SSHPoints, SSHPort, Listens
<1>p. /\ portLine' # None => PortAllowed(portLine')
      /\ \A r \in SSHRequests : PortAllowed(sshReq'[r].port)
  BY SSHPortsStep
<1> DEFINE OtherSSH == sshOnly' # None => \A o \in SSHRequests \ {sshOnly'} : SSHIdle(o)'
           Ports0 == ~sshFailed' /\ (\A r \in SSHRequests : ~Pends(r)') /\ daemon' # None /\ ~socket'
                       => daemon' = SSHPort'
           Way == ~sshFailed' /\ sshOnly' # None => HasItsWay(sshOnly)'
<1>1. ASSUME NEW r \in SSHRequests, NEW on \in BOOLEAN, NEW port \in Ports, SSHAsked(r, on, port)
      PROVE  OtherSSH /\ Ports0 /\ Way
  <2>1. /\ sshReq'[r] = [at |-> "port", on |-> on, port |-> port]
        /\ \A o \in SSHRequests \ {r} : sshReq'[o] = sshReq[o]
        /\ UNCHANGED <<portLine, daemon, socket, atBoot, sshFailed>>
        /\ sshReq[r].at = "idle"
    BY <1>0, <1>1 DEF SSHAsked, sshUnits, NoSSHFault, SSHTable, SSHAt
  <2>2. sshOnly' = (IF \A o \in SSHRequests : SSHIdle(o) THEN r ELSE None)
    BY <1>1 DEF SSHAsked
  <2>3. OtherSSH BY <2>1, <2>2 DEF SSHIdle
  <2>4. Ports0 BY <2>1 DEF SSHInv, Pends, SSHPort
  <2>5. Way BY <2>1, <2>2 DEF HasItsWay
  <2> QED BY <2>3, <2>4, <2>5
<1>2. ASSUME NEW r \in SSHRequests, NEW at \in SSHPoints, SSHGoes(r, at), ~SSHIdle(r),
             sshOnly' = sshOnly
      PROVE  OtherSSH
  <2>1. \A o \in SSHRequests \ {r} : sshReq'[o] = sshReq[o] BY <1>2, SSHMoved
  <2> QED BY <1>2, <2>1, SSHAlone DEF SSHIdle, SSHInv
<1>3. ASSUME NEW r \in SSHRequests, PortSet(r) PROVE OtherSSH /\ Ports0 /\ Way
  <2> DEFINE at == IF sshReq[r].on THEN "enable" ELSE "socket"
  <2>1. /\ sshReq'[r].at = at /\ sshReq'[r].on = sshReq[r].on /\ sshReq[r].at = "port"
        /\ SSHGoes(r, at) /\ sshOnly' = sshOnly /\ at \in SSHPoints
    BY <1>3, SSHMoved DEF PortSet, SSHPoints, SSHAt
  <2>2. ~SSHIdle(r) BY <2>1 DEF SSHIdle
  <2>3. OtherSSH BY <1>2, <2>1, <2>2
  <2>4. Ports0 BY <2>1 DEF Pends
  <2>5. Way BY <2>1, <2>2, SSHAlone DEF HasItsWay
  <2> QED BY <2>3, <2>4, <2>5
<1>4. ASSUME NEW r \in SSHRequests, SSHGivesUp(r) PROVE OtherSSH /\ Ports0 /\ Way
  <2>1. SSHGoes(r, "done") /\ sshOnly' = sshOnly /\ sshFailed' /\ ~SSHIdle(r) /\ "done" \in SSHPoints
    BY <1>4 DEF SSHGivesUp, SSHFault, SSHIdle, SSHAt, SSHPoints
  <2> QED BY <1>2, <2>1
<1>5. ASSUME NEW r \in SSHRequests, ServiceEnabled(r) PROVE OtherSSH /\ Ports0 /\ Way
  <2>1. /\ sshReq'[r].at = "restart" /\ sshReq'[r].on = sshReq[r].on /\ sshReq[r].at = "enable"
        /\ SSHGoes(r, "restart") /\ UNCHANGED <<portLine, daemon, socket, sshOnly>>
        /\ "restart" \in SSHPoints
    BY <1>5, SSHMoved DEF ServiceEnabled, SSHPoints, SSHAt
  <2>2. ~SSHIdle(r) BY <2>1 DEF SSHIdle
  <2>3. OtherSSH BY <1>2, <2>1, <2>2
  <2>4. Ports0 BY <2>1 DEF Pends
  <2>5. ~sshFailed' => ~sshFailed /\ "service" \in atBoot'
    BY <1>5 DEF ServiceEnabled, NoSSHFault, SSHFault
  <2>6. Way BY <2>1, <2>2, <2>5, SSHAlone DEF HasItsWay, SSHInv
  <2> QED BY <2>3, <2>4, <2>6
<1>6. ASSUME NEW r \in SSHRequests, ServiceRestarted(r) PROVE OtherSSH /\ Ports0 /\ Way
  <2>1. /\ sshReq'[r].at = "done" /\ sshReq'[r].on = sshReq[r].on /\ sshReq[r].at = "restart"
        /\ SSHGoes(r, "done") /\ UNCHANGED <<portLine, socket, sshOnly, atBoot, sshFailed>>
        /\ daemon' = Listens /\ "done" \in SSHPoints
    BY <1>6, SSHMoved DEF ServiceRestarted, SSHPoints, SSHAt, NoSSHFault
  <2>2. ~SSHIdle(r) BY <2>1 DEF SSHIdle
  <2>3. OtherSSH BY <1>2, <2>1, <2>2
  <2>4. Ports0 BY <2>1 DEF Listens, SSHPort
  <2>6. Way BY <1>0, <2>1, <2>2, SSHAlone DEF HasItsWay, SSHInv, SSHEnabled
  <2> QED BY <2>3, <2>4, <2>6
<1>7. ASSUME NEW r \in SSHRequests, SocketStopped(r) PROVE OtherSSH /\ Ports0 /\ Way
  <2>1. /\ sshReq'[r].at = "stop" /\ sshReq'[r].on = sshReq[r].on /\ sshReq[r].at = "socket"
        /\ SSHGoes(r, "stop") /\ UNCHANGED <<portLine, daemon, sshOnly>> /\ "stop" \in SSHPoints
    BY <1>7, SSHMoved DEF SocketStopped, SSHPoints, SSHAt
  <2>2. ~SSHIdle(r) BY <2>1 DEF SSHIdle
  <2>3. OtherSSH BY <1>2, <2>1, <2>2
  <2>4. Ports0 BY <2>1 DEF Pends
  <2>5. ~sshFailed' => ~sshFailed /\ ~socket' /\ "socket" \notin atBoot'
    BY <1>7 DEF SocketStopped, NoSSHFault, SSHFault
  <2>6. Way BY <2>1, <2>2, <2>5, SSHAlone DEF HasItsWay, SSHInv
  <2> QED BY <2>3, <2>4, <2>6
<1>8. ASSUME NEW r \in SSHRequests, ServiceStopped(r) PROVE OtherSSH /\ Ports0 /\ Way
  <2>1. /\ sshReq'[r].at = "disable" /\ sshReq'[r].on = sshReq[r].on /\ sshReq[r].at = "stop"
        /\ SSHGoes(r, "disable") /\ UNCHANGED <<portLine, socket, atBoot, sshOnly>>
        /\ "disable" \in SSHPoints
    BY <1>8, SSHMoved DEF ServiceStopped, SSHPoints, SSHAt
  <2>2. ~SSHIdle(r) BY <2>1 DEF SSHIdle
  <2>3. OtherSSH BY <1>2, <2>1, <2>2
  <2>5. ~sshFailed' => ~sshFailed /\ daemon' = None
    BY <1>8 DEF ServiceStopped, NoSSHFault, SSHFault
  <2>4. Ports0 BY <2>5
  <2>6. Way BY <2>1, <2>2, <2>5, SSHAlone DEF HasItsWay, SSHInv
  <2> QED BY <2>3, <2>4, <2>6
<1>9. ASSUME NEW r \in SSHRequests, ServiceDisabled(r) PROVE OtherSSH /\ Ports0 /\ Way
  <2>1. /\ sshReq'[r].at = "done" /\ sshReq'[r].on = sshReq[r].on /\ sshReq[r].at = "disable"
        /\ SSHGoes(r, "done") /\ UNCHANGED <<portLine, daemon, socket, sshOnly>> /\ "done" \in SSHPoints
        /\ \A o \in SSHRequests \ {r} : sshReq'[o] = sshReq[o]
    BY <1>9, SSHMoved DEF ServiceDisabled, SSHPoints, SSHAt
  <2>2. ~SSHIdle(r) BY <2>1 DEF SSHIdle
  <2>3. OtherSSH BY <1>2, <2>1, <2>2
  <2>5. ~sshFailed' => ~sshFailed /\ "service" \notin atBoot' /\ ("socket" \in atBoot' => "socket" \in atBoot)
    BY <1>9 DEF ServiceDisabled, NoSSHFault, SSHFault
  <2>4. Ports0 BY <2>1, <2>5 DEF Pends, SSHInv, SSHPort
  <2>6. Way BY <2>1, <2>2, <2>5, SSHAlone DEF HasItsWay, SSHInv
  <2> QED BY <2>3, <2>4, <2>6
<1>10. ASSUME SocketUsed PROVE OtherSSH /\ Ports0 /\ Way
  <2>1. /\ UNCHANGED <<portLine, socket, atBoot, sshReq, sshOnly, sshFailed>>
        /\ socket /\ daemon' = Listens
    BY <1>10 DEF SocketUsed, NoSSHFault
  <2>2. OtherSSH BY <2>1 DEF SSHInv, SSHIdle
  <2>3. Ports0 BY <2>1
  <2>4. Way BY <1>0, <2>1 DEF SSHInv, HasItsWay, SSHEnabled
  <2> QED BY <2>2, <2>3, <2>4
<1>11. ASSUME SSHHostReboots PROVE OtherSSH /\ Ports0 /\ Way
  <2>1. /\ sshReq' \in SSHTable
        /\ \A r \in SSHRequests :
             /\ sshReq'[r].at = (IF sshReq[r].at = "idle" THEN "idle" ELSE "done")
             /\ sshReq'[r].on = sshReq[r].on
    BY <1>11, SSHRebooted
  <2>2. /\ sshFailed' <=> sshFailed \/ \E r \in SSHRequests : ~SSHIdle(r)
        /\ socket' <=> "socket" \in atBoot
        /\ daemon' = (IF "service" \in atBoot THEN IF socket' THEN 22 ELSE SSHPort ELSE None)
        /\ UNCHANGED <<portLine, atBoot, sshOnly>>
    BY <1>11 DEF SSHHostReboots
  <2>3. OtherSSH BY <2>1, <2>2 DEF SSHIdle
  <2>4. Ports0 BY <2>2 DEF SSHPort
  <2>5. Way
    <3> SUFFICES ASSUME ~sshFailed', sshOnly' # None PROVE HasItsWay(sshOnly)' OBVIOUS
    <3>1. ~sshFailed /\ sshOnly \in SSHRequests /\ SSHIdle(sshOnly) /\ HasItsWay(sshOnly)
      BY <1>0, <2>2 DEF SSHInv
    <3>2. sshReq[sshOnly].at = "done" BY <3>1 DEF SSHIdle, HasItsWay
    <3>3. sshReq'[sshOnly].at = "done" /\ sshReq'[sshOnly].on = sshReq[sshOnly].on BY <2>1, <3>1, <3>2
    <3> QED BY <1>0, <2>2, <3>1, <3>2, <3>3 DEF HasItsWay, SSHEnabled
  <2> QED BY <2>3, <2>4, <2>5
<1>12. ASSUME UNCHANGED sshVars PROVE OtherSSH /\ Ports0 /\ Way
  BY <1>12 DEF sshVars, SSHInv, SSHIdle, Pends, SSHPort, HasItsWay, SSHEnabled
<1>13. OtherSSH /\ Ports0 /\ Way
  BY <1>1, <1>3, <1>4, <1>5, <1>6, <1>7, <1>8, <1>9, <1>10, <1>11, <1>12 DEF SSHNext
<1> QED BY <1>p, <1>13 DEF SSHInv

LEMMA SSHStarts ==
  ASSUME SSHInit
  PROVE  SSHTypeOK /\ SSHInv
<1> USE SSHAssumption
<1>1. SSHTypeOK BY DEF SSHInit, SSHTypeOK
<1>2. PortAllowed(22) BY DEF PortAllowed
<1>3. \A r \in SSHRequests : sshReq[r].port = 22 /\ ~Pends(r) /\ SSHIdle(r)
  BY DEF SSHInit, Pends, SSHIdle
<1>4. portLine # None => portLine = 22 BY DEF SSHInit
<1>5. daemon # None /\ ~socket => daemon = SSHPort BY DEF SSHInit, SSHPort
<1>6. sshOnly = None BY DEF SSHInit
<1> HIDE DEF PortAllowed
<1>7. SSHInv BY <1>2, <1>3, <1>4, <1>5, <1>6 DEF SSHInv
<1> QED BY <1>1, <1>7

LEMMA SSHInvAgrees ==
  ASSUME SSHTypeOK, SSHInv
  PROVE  SSHAgrees
<1> SUFFICES ASSUME \A r \in SSHRequests : SSHIdle(r), ~sshFailed
             PROVE  /\ daemon # None /\ ~socket => daemon = SSHPort
                    /\ PortAllowed(SSHPort)
                    /\ sshOnly # None => SSHEnabled = sshReq[sshOnly].on
  BY DEF SSHAgrees
<1>1. \A r \in SSHRequests : ~Pends(r) BY DEF SSHIdle, Pends
<1>2. PortAllowed(SSHPort)
  <2>1. PortAllowed(22) BY DEF PortAllowed
  <2> HIDE DEF PortAllowed
  <2> QED BY <2>1 DEF SSHInv, SSHPort
<1>3. ASSUME sshOnly # None PROVE SSHEnabled = sshReq[sshOnly].on
  <2>1. sshOnly \in SSHRequests /\ sshReq[sshOnly].on \in BOOLEAN BY <1>3 DEF SSHTypeOK
  <2>2. HasItsWay(sshOnly) /\ SSHIdle(sshOnly) BY <1>3, <2>1 DEF SSHInv
  <2>3. sshReq[sshOnly].at = "done" BY <2>2 DEF SSHIdle, HasItsWay
  <2>4. SSHEnabled <=> sshReq[sshOnly].on BY <2>2, <2>3 DEF HasItsWay, SSHEnabled
  <2> QED BY <2>1, <2>4 DEF SSHEnabled
<1>4. daemon # None /\ ~socket => daemon = SSHPort BY <1>1 DEF SSHInv
<1> QED BY <1>2, <1>3, <1>4
-----------------------------------------------------------------------------
(* The tunnel *)

\* A request to disable that had no error yet has left nothing of what it has passed.
DisablesSoFar ==
  request # None /\ request.kind = "disable" /\ request.clean =>
    /\ request.at \in {"chains", "dns", "files"} => wg = None
    /\ request.at \in {"dns", "files"} => egress = None /\ redirect # "on"

TunnelInv == TunnelHolds /\ DisablesSoFar /\ (request # None => ~off)
LEMMA RequestGoes ==
  ASSUME request \in TunnelRequests, NEW step, Then(step),
         IF request.kind = "enable" THEN step \in {"down", "script", "conf", "up", "boot"}
         ELSE step \in {"down", "chains", "dns", "files"}
  PROVE  /\ request' \in TunnelRequests /\ request' # None /\ request'.kind = request.kind
         /\ request'.at = step
         /\ request.kind = "disable" => request'.clean = request.clean
BY TunnelAssumption DEF Then, TunnelRequests

\* What every step keeps true of the types.
Resolved ==
  /\ resolv \in Resolvers /\ preLink \in Links \cup {None} /\ preFile \in Resolvers \cup {None}

LEMMA SnapshotTypes ==
  ASSUME Resolved, Snapshot
  PROVE  preLink' \in Links \cup {None} /\ preFile' \in Resolvers \cup {None}
BY DEF Resolved, Snapshot, Resolvers

LEMMA UpTypes ==
  ASSUME TunnelTypeOK, RunsUp
  PROVE  /\ wg' \in Config \cup {None, Torn} /\ mark' \in Config \cup {None} /\ flawed' \in BOOLEAN
         /\ egress' \in Peers \cup {None} /\ redirect' \in {"none", "on", "empty"}
         /\ Resolved'
<1>1. wg' \in Config \cup {None, Torn} /\ mark' \in Config \cup {None} /\ flawed' \in BOOLEAN
  BY DEF TunnelTypeOK, RunsUp
<1>2. egress' \in Peers \cup {None} BY DEF TunnelTypeOK, RunsUp, Fences, Config
<1>3. redirect' \in {"none", "on", "empty"} BY DEF TunnelTypeOK, RunsUp
<1>4. resolv' \in Resolvers BY DEF RunsUp, Resolves, Resolvers
<1>5. Resolved BY DEF TunnelTypeOK, Resolved
<1>6. Snapshot BY DEF RunsUp
<1> QED BY <1>1, <1>2, <1>3, <1>4, <1>5, <1>6, SnapshotTypes DEF Resolved

LEMMA PartlyTypes ==
  ASSUME TunnelTypeOK, RunsUpPartly
  PROVE  /\ wg' \in Config \cup {None, Torn} /\ mark' \in Config \cup {None} /\ flawed' \in BOOLEAN
         /\ egress' \in Peers \cup {None} /\ redirect' \in {"none", "on", "empty"}
         /\ Resolved'
<1>0. /\ mark \in Config \cup {None} /\ script \in Config \cup {None}
      /\ egress \in Peers \cup {None} /\ redirect \in {"none", "on", "empty"} /\ Resolved
  BY DEF TunnelTypeOK, Resolved
<1>1. wg' \in Config \cup {None, Torn} /\ flawed' \in BOOLEAN BY DEF TunnelTypeOK, RunsUpPartly
<1>2. CASE UNCHANGED <<mark, dnsVars, chainVars, countVars>>
  BY <1>0, <1>1, <1>2 DEF dnsVars, chainVars, Resolved
<1>3. CASE conf # Torn /\ script # None
  <2>1. ~ (conf = Torn \/ script = None) BY <1>3
  <2>2. PICK failing \in SUBSET (Commands \cap TunnelFaults) :
          /\ mark' = IF "markers" \in failing THEN mark ELSE script
          /\ IF "snapshot" \in failing THEN UNCHANGED <<preLink, preFile>> ELSE Snapshot
          /\ resolv' \in IF "resolver" \in failing THEN {resolv, "empty"} ELSE {Resolves(script)}
          /\ redirect' \in IF script.mode # "dns-only" THEN {redirect}
                           ELSE IF "redirect" \in failing THEN {redirect, "empty"} ELSE {"on"}
          /\ egress' \in IF script.mode # "full" \/ ~script.kill THEN {egress}
                         ELSE IF "egress" \in failing THEN {egress, None} ELSE {Fences(script)}
    BY <2>1 DEF RunsUpPartly
  <2>3. mark' \in Config \cup {None} BY <1>0, <2>2
  <2>4. egress' \in Peers \cup {None}
    <3>1. Fences(script) \in Peers BY <1>0, <1>3 DEF Fences, Config
    <3> QED BY <1>0, <2>2, <3>1
  <2>5. redirect' \in {"none", "on", "empty"} BY <1>0, <2>2
  <2>6. resolv' \in Resolvers
    <3>1. Resolves(script) \in Resolvers /\ "empty" \in Resolvers BY DEF Resolves, Resolvers
    <3> QED BY <1>0, <2>2, <3>1 DEF Resolved
  <2>7. preLink' \in Links \cup {None} /\ preFile' \in Resolvers \cup {None}
    BY <1>0, <2>2, SnapshotTypes DEF Resolved
  <2> QED BY <1>1, <2>3, <2>4, <2>5, <2>6, <2>7 DEF Resolved
<1> QED BY <1>2, <1>3 DEF RunsUpPartly

LEMMA DownTypes ==
  ASSUME TunnelTypeOK, GoesDown \/ DownFails
  PROVE  wg' \in Config \cup {None, Torn} /\ Resolved' /\ wg' \in {wg, None}
<1>0. wg \in Config \cup {None, Torn} /\ Resolved BY DEF TunnelTypeOK, Resolved
<1>1. CASE UNCHANGED dnsVars /\ wg' \in {wg, None} BY <1>0, <1>1 DEF Resolved, dnsVars
<1>2. CASE RunsDown BY <1>0, <1>2 DEF RunsDown, Resolved, Resolvers, Links
<1> QED BY <1>1, <1>2 DEF GoesDown, DownFails

LEMMA TunnelTypeStep ==
  ASSUME TunnelTypeOK, [TunnelNext]_tunnelVars
  PROVE  TunnelTypeOK'
<1> USE TunnelAssumption
<1> DEFINE Req == request' \in {None} \cup TunnelRequests
           Up == /\ wg' \in Config \cup {None, Torn} /\ mark' \in Config \cup {None}
                 /\ flawed' \in BOOLEAN
                 /\ egress' \in Peers \cup {None} /\ redirect' \in {"none", "on", "empty"}
                 /\ Resolved'
           Kept == /\ conf' \in Config \cup {None, Torn} /\ script' \in Config \cup {None}
                   /\ boot' \in BOOLEAN /\ off' \in BOOLEAN
<1>0. /\ wg \in Config \cup {None, Torn} /\ mark \in Config \cup {None}
      /\ conf \in Config \cup {None, Torn} /\ script \in Config \cup {None}
      /\ egress \in Peers \cup {None} /\ redirect \in {"none", "on", "empty"} /\ flawed \in BOOLEAN
      /\ boot \in BOOLEAN /\ off \in BOOLEAN /\ request \in {None} \cup TunnelRequests
      /\ Resolved
  BY DEF TunnelTypeOK, Resolved
<1>d. UNCHANGED dnsVars => Resolved' BY <1>0 DEF dnsVars, Resolved
<1>r. ASSUME request # None, NEW step, Then(step),
             IF request.kind = "enable" THEN step \in {"down", "script", "conf", "up", "boot"}
             ELSE step \in {"down", "chains", "dns", "files"}
      PROVE  Req
  BY <1>0, <1>r, RequestGoes
<1>1. ASSUME NEW c \in Config, EnableBegins(c) PROVE Req /\ Up /\ Kept
  <2>1. Req BY <1>1 DEF EnableBegins, TunnelRequests
  <2> QED BY <1>0, <1>1, <1>d, <2>1 DEF EnableBegins, fileVars, chainVars
<1>2. ASSUME EnableDowns PROVE Req /\ Up /\ Kept
  <2>1. Req BY <1>2, <1>r DEF EnableDowns, Does
  <2>2. wg' \in Config \cup {None, Torn} /\ Resolved' BY <1>2, DownTypes DEF EnableDowns
  <2> QED BY <1>0, <1>2, <2>1, <2>2 DEF EnableDowns, fileVars, chainVars
<1>3. ASSUME EnableScripts PROVE Req /\ Up /\ Kept
  <2>1. Req BY <1>3, <1>r DEF EnableScripts, Does
  <2>2. script' \in Config \cup {None} BY <1>0, <1>3 DEF EnableScripts, Does, TunnelRequests
  <2> QED BY <1>0, <1>3, <1>d, <2>1, <2>2 DEF EnableScripts, chainVars
<1>4. ASSUME EnableConf PROVE Req /\ Up /\ Kept
  <2>1. Req BY <1>4, <1>r DEF EnableConf, Does
  <2>2. conf' \in Config \cup {None, Torn} BY <1>0, <1>4 DEF EnableConf, Does, TunnelRequests
  <2> QED BY <1>0, <1>4, <1>d, <2>1, <2>2 DEF EnableConf, chainVars
<1>5. ASSUME EnableUps PROVE Req /\ Up /\ Kept
  <2>1. Req
    <3>1. request # None /\ request.kind = "enable" BY <1>5 DEF EnableUps, Does
    <3>2. request' = None \/ Then("boot") BY <1>5 DEF EnableUps
    <3> QED BY <3>1, <3>2, <1>r
  <2>2. Up
    <3>1. CASE RunsUp BY <3>1, UpTypes
    <3>2. CASE RunsUpPartly BY <3>2, PartlyTypes
    <3>3. CASE UNCHANGED <<wg, mark, flawed, dnsVars, chainVars>>
      BY <1>0, <1>d, <3>3 DEF chainVars
    <3> QED BY <1>5, <3>1, <3>2, <3>3 DEF EnableUps
  <2> QED BY <1>0, <1>5, <2>1, <2>2 DEF EnableUps, fileVars
<1>6. ASSUME EnableBoots PROVE Req /\ Up /\ Kept
  <2>1. Resolved' BY <1>6, <1>d DEF EnableBoots
  <2>2. UNCHANGED <<wg, mark, flawed, egress, redirect, off, conf, script>>
    BY <1>6 DEF EnableBoots, chainVars
  <2>3. Req /\ boot' \in BOOLEAN BY <1>0, <1>6 DEF EnableBoots
  <2>4. Up BY <1>0, <2>1, <2>2
  <2> QED BY <1>0, <2>2, <2>3, <2>4
<1>7. ASSUME DisableBegins PROVE Req /\ Up /\ Kept
  <2>1. Req BY <1>7 DEF DisableBegins, TunnelRequests
  <2> QED BY <1>0, <1>7, <1>d, <2>1 DEF DisableBegins, fileVars, chainVars
<1>8. ASSUME DisableDowns PROVE Req /\ Up /\ Kept
  <2>1. \E clean \in BOOLEAN : request' = [request EXCEPT !.at = "chains", !.clean = clean]
    BY <1>8 DEF DisableDowns
  <2>2. Req BY <1>0, <1>8, <2>1 DEF DisableDowns, Does, TunnelRequests
  <2>3. wg' \in Config \cup {None, Torn} /\ Resolved' BY <1>8, DownTypes DEF DisableDowns
  <2> QED BY <1>0, <1>8, <2>2, <2>3 DEF DisableDowns, fileVars, chainVars
<1>9. ASSUME DisableChains PROVE Req /\ Up /\ Kept
  <2>1. Req
    <3>1. CASE Then("dns") BY <1>9, <3>1, <1>r DEF DisableChains, Does
    <3>2. CASE request' = [request EXCEPT !.at = "dns", !.clean = FALSE]
      BY <1>0, <1>9, <3>2 DEF DisableChains, Does, TunnelRequests
    <3> QED BY <1>9, <3>1, <3>2 DEF DisableChains
  <2>2. egress' \in Peers \cup {None} /\ redirect' \in {"none", "on", "empty"}
    BY <1>0, <1>9 DEF DisableChains, DropsChains, Emptied
  <2> QED BY <1>0, <1>9, <1>d, <2>1, <2>2 DEF DisableChains, fileVars
<1>10. ASSUME DisableDNS PROVE Req /\ Up /\ Kept
  <2>1. Req BY <1>10, <1>r DEF DisableDNS, Does
  <2>2. Resolved' BY <1>0, <1>10 DEF DisableDNS, Resolved, Resolvers, Links
  <2> QED BY <1>0, <1>10, <2>1, <2>2 DEF DisableDNS, fileVars, chainVars
<1>11. ASSUME DisableFiles PROVE Req /\ Up /\ Kept
  <2>1. off' \in BOOLEAN
    <3>1. request.clean \in BOOLEAN BY <1>0, <1>11 DEF DisableFiles, Does, TunnelRequests
    <3> QED BY <1>0, <1>11, <3>1 DEF DisableFiles
  <2>2. /\ conf' \in Config \cup {None, Torn} /\ script' \in Config \cup {None} /\ boot' \in BOOLEAN
        /\ mark' \in Config \cup {None} /\ flawed' \in BOOLEAN
    BY <1>0, <1>11 DEF DisableFiles
  <2> QED BY <1>0, <1>11, <1>d, <2>1, <2>2 DEF DisableFiles, chainVars
<1>12. ASSUME PowerLoss PROVE Req /\ Up /\ Kept
  BY <1>0, <1>12, <1>d DEF PowerLoss, fileVars
<1>h. ASSUME HostctlEnds PROVE Req /\ Up /\ Kept
  BY <1>0, <1>h, <1>d DEF HostctlEnds, fileVars, chainVars
<1>13. ASSUME BootUps PROVE Req /\ Up /\ Kept
  <2>1. Up BY <1>13, UpTypes, PartlyTypes DEF BootUps
  <2> QED BY <1>0, <1>13, <2>1 DEF BootUps, fileVars
<1>14. ASSUME UNCHANGED tunnelVars PROVE Req /\ Up /\ Kept
  BY <1>0, <1>14, <1>d DEF tunnelVars, fileVars, chainVars
<1>15. Req /\ Up /\ Kept
  BY <1>1, <1>2, <1>3, <1>4, <1>5, <1>6, <1>7, <1>8, <1>9, <1>10, <1>11, <1>12, <1>h, <1>13, <1>14
     DEF TunnelNext
<1>16. preLink' \in Resolvers \cup {None} BY <1>15 DEF Resolved, Resolvers
<1> QED BY <1>15, <1>16 DEF TunnelTypeOK, Resolved
\* The reported kill switch: what a step that leaves the interface, its marks and the
\* rules alone, or takes the interface down, cannot break.
LEMMA KillKept ==
  ASSUME ReportedKillHolds,
         wg' = None \/ (UNCHANGED <<wg, mark, egress, redirect, resolv>>
                        /\ (flawed \/ Undoing => flawed' \/ Undoing'))
  PROVE  ReportedKillHolds'
BY DEF ReportedKillHolds

\* The script puts in force what its marks say.
LEMMA KillSet ==
  ASSUME TunnelTypeOK, RunsUp \/ RunsUpPartly
  PROVE  ReportedKillHolds'
<1>1. CASE RunsUp
  <2>1. mark' = script /\ script \in Config BY <1>1 DEF RunsUp, TunnelTypeOK
  <2>2. script.mode \in {"full", "dns-only"} BY <2>1 DEF Config
  <2>3. CASE script.mode = "full"
    BY <1>1, <2>1, <2>3 DEF RunsUp, Fences, ReportedKillHolds
  <2>4. CASE script.mode = "dns-only"
    BY <1>1, <2>1, <2>4 DEF RunsUp, Resolves, ReportedKillHolds
  <2> QED BY <2>2, <2>3, <2>4
<1>2. CASE RunsUpPartly BY <1>2 DEF RunsUpPartly, ReportedKillHolds
<1> QED BY <1>1, <1>2

LEMMA TunnelInvStep ==
  ASSUME TunnelTypeOK, TunnelInv, [TunnelNext]_tunnelVars
  PROVE  TunnelInv'
<1> USE TunnelAssumption
<1> USE DEF Does
<1> DEFINE Rest == DisabledIsQuiet' /\ DisablesSoFar' /\ (request' # None => ~off')
           Done == ReportedKillHolds' /\ Rest
<1>0. /\ request \in {None} \cup TunnelRequests
      /\ ReportedKillHolds /\ DisabledIsQuiet /\ DisablesSoFar
      /\ (request # None => ~off)
  BY DEF TunnelTypeOK, TunnelInv, TunnelHolds
<1>1. ASSUME NEW c \in Config, EnableBegins(c) PROVE Done
  <2>1. /\ request = None /\ request'.kind = "enable" /\ request'.at = "down" /\ off' = FALSE
        /\ UNCHANGED <<wg, mark, flawed, egress, redirect, resolv>>
    BY <1>1 DEF EnableBegins, dnsVars, chainVars
  <2>2. ReportedKillHolds' BY <1>0, <2>1, KillKept DEF Undoing
  <2>4. Rest BY <2>1 DEF DisabledIsQuiet, DisablesSoFar
  <2> QED BY <2>2, <2>4
<1>2. ASSUME EnableDowns PROVE Done
  <2>1. /\ request # None /\ request.kind = "enable" /\ request'.kind = "enable"
        /\ request'.at = "script" /\ UNCHANGED <<mark, flawed, off, egress, redirect>>
    BY <1>0, <1>2, RequestGoes DEF EnableDowns, chainVars
  <2>2. wg' = None \/ UNCHANGED <<wg, resolv>>
    BY <1>2 DEF EnableDowns, GoesDown, RunsDown, DownFails, dnsVars
  <2>3. ReportedKillHolds' BY <1>0, <2>1, <2>2, KillKept DEF Undoing
  <2>5. Rest BY <1>0, <2>1 DEF DisabledIsQuiet, DisablesSoFar
  <2> QED BY <2>3, <2>5
<1>3. ASSUME EnableScripts PROVE Done
  <2>1. /\ request # None /\ request.kind = "enable" /\ request'.kind = "enable"
        /\ request'.at = "conf" /\ UNCHANGED <<wg, mark, flawed, off, egress, redirect, resolv>>
    BY <1>0, <1>3, RequestGoes DEF EnableScripts, dnsVars, chainVars
  <2>3. ReportedKillHolds' BY <1>0, <2>1, KillKept DEF Undoing
  <2>5. Rest BY <1>0, <2>1 DEF DisabledIsQuiet, DisablesSoFar
  <2> QED BY <2>3, <2>5
<1>4. ASSUME EnableConf PROVE Done
  <2>1. /\ request # None /\ request.kind = "enable"
        /\ UNCHANGED <<wg, mark, flawed, off, egress, redirect, resolv>>
        /\ request' = None \/ request'.kind = "enable"
    <3>1. Then("up") => request'.kind = "enable" BY <1>0, <1>4, RequestGoes DEF EnableConf
    <3> QED BY <1>4, <3>1 DEF EnableConf, dnsVars, chainVars
  <2>3. ReportedKillHolds' BY <1>0, <2>1, KillKept DEF Undoing
  <2>5. Rest BY <1>0, <2>1 DEF DisabledIsQuiet, DisablesSoFar
  <2> QED BY <2>3, <2>5
<1>5. ASSUME EnableUps PROVE Done
  <2>1. /\ request # None /\ request.kind = "enable" /\ UNCHANGED off
        /\ request' = None \/ request'.kind = "enable"
    <3>1. Then("boot") => request'.kind = "enable" BY <1>0, <1>5, RequestGoes DEF EnableUps
    <3> QED BY <1>5, <3>1 DEF EnableUps
  <2>3. ReportedKillHolds'
    <3>1. CASE RunsUp \/ RunsUpPartly BY <3>1, KillSet
    <3>2. CASE UNCHANGED <<wg, mark, flawed, dnsVars, chainVars>>
      BY <1>0, <2>1, <3>2, KillKept DEF dnsVars, chainVars, Undoing
    <3> QED BY <1>5, <3>1, <3>2 DEF EnableUps
  <2>5. Rest BY <1>0, <2>1 DEF DisabledIsQuiet, DisablesSoFar
  <2> QED BY <2>3, <2>5
<1>6. ASSUME EnableBoots PROVE Done
  <2>1. /\ request # None /\ request.kind = "enable" /\ request' = None
        /\ UNCHANGED <<wg, mark, flawed, off, egress, redirect, resolv>>
    BY <1>6 DEF EnableBoots, dnsVars, chainVars
  <2>3. ReportedKillHolds' BY <1>0, <2>1, KillKept DEF Undoing
  <2>5. Rest BY <1>0, <2>1 DEF DisabledIsQuiet, DisablesSoFar
  <2> QED BY <2>3, <2>5
<1>7. ASSUME DisableBegins PROVE Done
  <2>1. /\ request = None /\ request' # None /\ request'.kind = "disable" /\ request'.at = "down"
        /\ off' = FALSE /\ UNCHANGED <<wg, mark, flawed, egress, redirect, resolv>>
    <3>1. request' = [kind |-> "disable", at |-> "down", clean |-> TRUE] BY <1>7 DEF DisableBegins
    <3>2. request' \in TunnelRequests BY <3>1 DEF TunnelRequests
    <3>3. request' # None BY <3>2, TunnelAssumption
    <3>4. request'.kind = "disable" /\ request'.at = "down" BY <3>1
    <3>5. /\ request = None /\ off' = FALSE /\ UNCHANGED <<wg, mark, flawed, egress, redirect, resolv>>
      BY <1>7 DEF DisableBegins, dnsVars, chainVars
    <3> QED BY <3>3, <3>4, <3>5
  <2>3. ReportedKillHolds' BY <1>0, <2>1, KillKept DEF Undoing
  <2>5. Rest BY <2>1 DEF DisabledIsQuiet, DisablesSoFar
  <2> QED BY <2>3, <2>5
<1>8. ASSUME DisableDowns PROVE Done
  <2>1. PICK clean \in BOOLEAN :
          /\ request' = [request EXCEPT !.at = "chains", !.clean = clean]
          /\ clean => wg' = None
    <3>1. CASE GoesDown /\ request' = [request EXCEPT !.at = "chains", !.clean = wg = None \/ conf # None]
      <4>1. wg = None \/ conf # None => wg' = None BY <3>1 DEF GoesDown, RunsDown
      <4> QED BY <3>1, <4>1
    <3>2. CASE request' = [request EXCEPT !.at = "chains", !.clean = FALSE] BY <3>2
    <3> QED BY <1>8, <3>1, <3>2 DEF DisableDowns
  <2>2. /\ request \in [kind : {"disable"}, at : {"down", "chains", "dns", "files"}, clean : BOOLEAN]
        /\ request.at = "down" /\ UNCHANGED <<mark, flawed, off, egress, redirect>>
    BY <1>0, <1>8 DEF DisableDowns, chainVars, TunnelRequests
  <2>3. /\ request' # None /\ request'.kind = "disable" /\ request'.at = "chains"
        /\ request'.clean = clean
    BY <2>1, <2>2 DEF TunnelRequests
  <2>4. wg' = None \/ UNCHANGED <<wg, resolv>>
    BY <1>8 DEF DisableDowns, GoesDown, RunsDown, DownFails, dnsVars
  <2>5. ReportedKillHolds' BY <1>0, <2>2, <2>3, <2>4, KillKept DEF Undoing
  <2>6. request # None BY <1>8 DEF DisableDowns
  <2>7. Rest BY <1>0, <2>1, <2>2, <2>3, <2>6 DEF DisabledIsQuiet, DisablesSoFar
  <2> QED BY <2>5, <2>7
<1>9. ASSUME DisableChains PROVE Done
  <2>2. /\ request \in [kind : {"disable"}, at : {"down", "chains", "dns", "files"}, clean : BOOLEAN]
        /\ request.at = "chains" /\ request # None
        /\ UNCHANGED <<wg, off>>
    BY <1>0, <1>9 DEF DisableChains, TunnelRequests
  <2>3. /\ request' # None /\ request'.kind = "disable" /\ request'.at = "dns"
        /\ request'.clean => request.clean /\ egress' = None /\ redirect' # "on"
    <3>1. CASE DropsChains /\ Then("dns")
      BY <1>0, <2>2, <3>1, RequestGoes DEF DropsChains, Emptied
    <3>2. CASE request' = [request EXCEPT !.at = "dns", !.clean = FALSE]
      BY <2>2, <3>2 DEF TunnelRequests
    <3> QED BY <1>9, <3>1, <3>2 DEF DisableChains
  <2>4. ReportedKillHolds' BY <2>3 DEF ReportedKillHolds, Undoing
  <2>7. Rest BY <1>0, <2>2, <2>3 DEF DisabledIsQuiet, DisablesSoFar
  <2> QED BY <2>4, <2>7
<1>10. ASSUME DisableDNS PROVE Done
  <2>1. /\ request # None /\ request.kind = "disable" /\ request.at = "dns"
        /\ request' # None /\ request'.kind = "disable" /\ request'.at = "files"
        /\ request'.clean = request.clean
        /\ UNCHANGED <<wg, off, egress, redirect>>
    BY <1>0, <1>10, RequestGoes DEF DisableDNS, chainVars
  <2>4. ReportedKillHolds' BY <2>1 DEF ReportedKillHolds, Undoing
  <2>7. Rest BY <1>0, <2>1 DEF DisabledIsQuiet, DisablesSoFar
  <2> QED BY <2>4, <2>7
<1>11. ASSUME DisableFiles PROVE Done
  <2>1. /\ request # None /\ request.kind = "disable" /\ request.at = "files" /\ request' = None
        /\ \/ boot' = FALSE /\ mark' = None /\ off' = request.clean
           \/ flawed' = TRUE /\ UNCHANGED off
        /\ UNCHANGED <<wg, egress, redirect>>
    BY <1>11 DEF DisableFiles, chainVars
  <2>4. ReportedKillHolds' BY <2>1 DEF ReportedKillHolds
  <2>7. Rest BY <1>0, <2>1 DEF DisabledIsQuiet, DisablesSoFar
  <2> QED BY <2>4, <2>7
<1>12. ASSUME PowerLoss PROVE Done
  <2>1. /\ wg' = None /\ request' = None /\ egress' = None /\ redirect' = "none"
        /\ UNCHANGED <<off, boot>>
    BY <1>12 DEF PowerLoss, fileVars
  <2>4. ReportedKillHolds' BY <2>1 DEF ReportedKillHolds
  <2>7. Rest BY <1>0, <2>1 DEF DisabledIsQuiet, DisablesSoFar
  <2> QED BY <2>4, <2>7
<1>h. ASSUME HostctlEnds PROVE Done
  <2>1. /\ request # None /\ request' = None /\ flawed' = (flawed \/ Undoing)
        /\ UNCHANGED <<wg, mark, off, egress, redirect, resolv>>
    BY <1>h DEF HostctlEnds, dnsVars, chainVars
  <2>4. ReportedKillHolds' BY <1>0, <2>1, KillKept
  <2>7. Rest BY <1>0, <2>1 DEF DisabledIsQuiet, DisablesSoFar
  <2> QED BY <2>4, <2>7
<1>13. ASSUME BootUps PROVE Done
  <2>1. request' = request /\ request = None /\ boot /\ UNCHANGED off
    BY <1>13 DEF BootUps
  <2>4. ReportedKillHolds' BY <1>13, KillSet DEF BootUps
  <2>7. Rest BY <1>0, <2>1 DEF DisabledIsQuiet, DisablesSoFar
  <2> QED BY <2>4, <2>7
<1>14. ASSUME UNCHANGED tunnelVars PROVE Done
  BY <1>0, <1>14 DEF tunnelVars, dnsVars, fileVars, chainVars, ReportedKillHolds, DisabledIsQuiet,
     DisablesSoFar, Undoing
<1>15. Done
  BY <1>1, <1>2, <1>3, <1>4, <1>5, <1>6, <1>7, <1>8, <1>9, <1>10, <1>11, <1>12, <1>h, <1>13, <1>14
     DEF TunnelNext
<1> QED BY <1>15 DEF TunnelInv, TunnelHolds

(***************************************************************************)
(* hostctl leaves the host as it reports it, for any requests, peers and   *)
(* ports: a kill switch that the status reports holds, unless a command of *)
(* its script failed, a file was cut short or disabling could not remove   *)
(* the markers; a tunnel disabled without an error leaves nothing in       *)
(* force; sshd listens on the port that is reported; and a request for SSH *)
(* that none overlapped has its way.                                       *)
(***************************************************************************)
THEOREM HostReportsTrue == PlatformSpec => []HostAgrees
<1> DEFINE Inv == TunnelTypeOK /\ TunnelInv /\ SSHTypeOK /\ SSHInv
<1>1. PlatformInit => Inv
  <2> SUFFICES ASSUME PlatformInit PROVE Inv OBVIOUS
  <2>1. SSHTypeOK /\ SSHInv BY SSHStarts DEF PlatformInit
  <2>2. TunnelTypeOK
    BY TunnelAssumption DEF PlatformInit, TunnelInit, TunnelTypeOK, Resolvers, Links
  <2>3. TunnelInv
    BY DEF PlatformInit, TunnelInit, TunnelInv, TunnelHolds, ReportedKillHolds, DisabledIsQuiet,
       DisablesSoFar, Does
  <2> QED BY <2>1, <2>2, <2>3
<1>2. Inv /\ [PlatformNext]_platformVars => Inv'
  <2> SUFFICES ASSUME Inv, [PlatformNext]_platformVars PROVE Inv' OBVIOUS
  <2>1. SSHTypeOK' /\ SSHInv' BY HostSteps, SSHTypeStep, SSHInvStep
  <2>2. TunnelTypeOK' BY HostSteps, TunnelTypeStep
  <2>3. TunnelInv' BY HostSteps, TunnelInvStep
  <2> QED BY <2>1, <2>2, <2>3
<1>3. Inv => HostAgrees BY SSHInvAgrees DEF HostAgrees, TunnelInv
<1> QED BY <1>1, <1>2, <1>3, PTL DEF PlatformSpec

-----------------------------------------------------------------------------
(* The platform's secrets *)

\* The rows that Seed is past when it is here.
SeededBefore(at) ==
  CASE at = "user" -> {"org"}
    [] at = "keys" -> {"org", "user"}
    [] at = "member" -> {"org", "user", "keys"}
    [] at = "role" -> {"org", "user", "keys", "member"}
    [] at = "session" -> {"org", "user", "keys", "member", "role"}
    [] at \in {"project", "serves"} -> Tables
    [] OTHER -> {}

\* One row of each kind, which the gateway goes by once it is past it, and one project.
SeedHolds ==
  /\ \A t \in Tables : \A i, j \in rows[t] : i = j
  /\ \A t \in SeededBefore(gateway.at) : rows[t] = {gateway.by[t]}
  /\ \A i, j \in projects : i = j
  /\ gateway.at = "serves" => projects # {}

\* What a request has written is there, or what another one that ran with it wrote later.
Stands(q, k) == vault[store[q].to][k] \in {store[o].value : o \in {q} \cup store[q].rivals}

StoreHolds(q) ==
  /\ Running(q) => gateway.at = "serves"
  /\ store[q].at = "create" => misreads # 0
  /\ store[q].at \in {"write", "done"} => store[q].to \in projects
  /\ store[q].at \in {"project", "create"} => store[q].todo = SecretKeys
  /\ store[q].at = "done" => store[q].todo = {}
  /\ store[q].at # "idle" =>
       /\ store[q].value \in SecretValues
       /\ \A o \in store[q].rivals : store[o].at # "idle"
       /\ \A o \in StoreCalls \ {q} : Running(o) => o \in store[q].rivals
  /\ misreads = 0 /\ store[q].at \in {"write", "done"} =>
       \A k \in SecretKeys \ store[q].todo : Stands(q, k)

SecretsInv ==
  /\ gateway.at # "down" => gateway.run \in Runs
  /\ misreads = 0 => SeedHolds
  /\ \A q \in StoreCalls : StoreHolds(q)
  /\ misreads = 0 /\ service.late => \A k \in SecretKeys : service.vars[k] # None


LEMMA StepsOfSeed ==
  /\ StepAfter("org") = "user" /\ StepAfter("user") = "keys" /\ StepAfter("keys") = "member"
  /\ StepAfter("member") = "role" /\ StepAfter("role") = "session"
  /\ StepAfter("session") = "project"
<1> DEFINE Place(s) == CHOOSE j \in 1..7 : SeedSteps[j] = s
<1>1. /\ SeedSteps[1] = "org" /\ SeedSteps[2] = "user" /\ SeedSteps[3] = "keys"
      /\ SeedSteps[4] = "member" /\ SeedSteps[5] = "role" /\ SeedSteps[6] = "session"
      /\ SeedSteps[7] = "project"
  BY DEF SeedSteps
<1>2. \A j \in 1..7 : j \in {1, 2, 3, 4, 5, 6, 7} OBVIOUS
<1>3. /\ Place("org") = 1 /\ Place("user") = 2 /\ Place("keys") = 3
      /\ Place("member") = 4 /\ Place("role") = 5 /\ Place("session") = 6
  BY <1>1, <1>2
<1> QED BY <1>1, <1>3 DEF StepAfter

LEMMA PastOneMore ==
  ASSUME NEW t \in Tables
  PROVE  /\ StepAfter(t) \in Tables \cup {"project"}
         /\ SeededBefore(StepAfter(t)) \subseteq SeededBefore(t) \cup {t}
         /\ t \notin SeededBefore(t)
<1>1. t \in {"org", "user", "keys", "member", "role", "session"} BY DEF Tables
<1> QED BY <1>1, StepsOfSeed DEF SeededBefore, Tables

\* Seed goes by this row, which it found or inserted.
Row(t, inserts, row) ==
  /\ rows' = [rows EXCEPT ![t] = IF t = "keys" /\ ~inserts THEN {gateway.run} ELSE @ \cup {row}]
  /\ gateway' = [gateway EXCEPT !.at = StepAfter(t),
                                !.by = [gateway.by EXCEPT ![t] = IF t = "keys" THEN gateway.run ELSE row]]

LEMMA RequestTyped ==
  ASSUME NEW r \in StoreRequests,
         NEW at \in {"idle", "project", "create", "write", "done", "cut"}, NEW to \in Runs,
         NEW todo \in SUBSET SecretKeys, NEW rivals \in SUBSET StoreCalls
  PROVE  /\ [r EXCEPT !.at = at] \in StoreRequests /\ [r EXCEPT !.at = at, !.to = to] \in StoreRequests
         /\ [r EXCEPT !.todo = todo] \in StoreRequests /\ [r EXCEPT !.rivals = rivals] \in StoreRequests
         /\ r.rivals \subseteq StoreCalls /\ r.todo \subseteq SecretKeys
BY DEF StoreRequests

\* The request q makes project p and will write to it.
MadeFor(q, p) == ProjectMade(p) /\ store' = [store EXCEPT ![q].at = "write", ![q].to = p]

LEMMA ProjectMadeFor ==
  ASSUME NEW q \in StoreCalls, StoreMakesProject(q)
  PROVE  \E p \in Runs \ projects : MadeFor(q, p)
BY DEF StoreMakesProject, MadeFor

LEMMA SecretsTypeStep ==
  ASSUME SecretsTypeOK, SecretsInv, [SecretsNext]_secretVars
  PROVE  SecretsTypeOK'
<1> USE SecretsAssumption DEF SecretsTypeOK
<1>1. CASE GatewayStarts
  <2>1. gateway.run + 1 \in Runs BY <1>1 DEF GatewayStarts, Runs, Gateways
  <2>2. gateway' \in Gateways BY <1>1, <2>1 DEF GatewayStarts, Gateways, Tables
  <2> QED BY <1>1, <2>2 DEF GatewayStarts
<1>2. CASE GatewayEnds
  <2>1. gateway' \in Gateways BY <1>2 DEF GatewayEnds, Gateways
  <2>2. \A q \in StoreCalls : [store[q] EXCEPT !.at = "cut"] \in StoreRequests
    <3> TAKE q \in StoreCalls
    <3>1. store[q] \in StoreRequests OBVIOUS
    <3> QED BY <3>1 DEF StoreRequests
  <2>3. store' \in [StoreCalls -> StoreRequests] BY <1>2, <2>2 DEF GatewayEnds
  <2> QED BY <1>2, <2>1, <2>3 DEF GatewayEnds
<1>3. ASSUME NEW t \in Tables, Seeds(t) PROVE SecretsTypeOK'
  <2>1. PICK inserts \in {Inserts(t), TRUE} :
          /\ IF inserts # Inserts(t) THEN Misread ELSE UNCHANGED misreads
          /\ \E row \in IF inserts THEN {gateway.run} ELSE rows[t] : Row(t, inserts, row)
    BY <1>3 DEF Seeds, Row
  <2>2. PICK row \in IF inserts THEN {gateway.run} ELSE rows[t] : Row(t, inserts, row)
    BY <2>1
  <2>3. gateway.run \in Runs BY <1>3 DEF Seeds, SecretsInv, Tables
  <2>4. row \in Runs BY <2>2, <2>3
  <2>5. rows' \in [Tables -> SUBSET Runs] BY <2>2, <2>3, <2>4 DEF Row
  <2>6. [gateway.by EXCEPT ![t] = IF t = "keys" THEN gateway.run ELSE row] \in [Tables -> Runs \cup {0}]
    BY <2>3, <2>4 DEF Gateways
  <2>7. gateway' \in Gateways BY <2>2, <2>6, PastOneMore DEF Row, Gateways
  <2>8. misreads' \in Nat BY <2>1 DEF Misread
  <2> QED BY <1>3, <2>5, <2>7, <2>8 DEF Seeds
<1>13. CASE RoleSkipped
  <2>1. StepAfter("role") = "session" BY StepsOfSeed
  <2>2. gateway' \in Gateways BY <1>13, <2>1 DEF RoleSkipped, Gateways, Tables
  <2>3. misreads' \in Nat BY <1>13 DEF RoleSkipped, Misread
  <2> QED BY <1>13, <2>2, <2>3 DEF RoleSkipped
<1>4. ASSUME NEW by \in Runs, ProjectMade(by)
      PROVE  /\ projects' \subseteq Runs
             /\ vault' \in [projects' -> [SecretKeys -> SecretValues \cup {None}]]
  BY <1>4 DEF ProjectMade
<1>5. CASE ProjectReady
  <2>1. gateway.run \in Runs BY <1>5 DEF ProjectReady, SecretsInv
  <2>2. /\ projects' \subseteq Runs
        /\ vault' \in [projects' -> [SecretKeys -> SecretValues \cup {None}]]
    BY <1>4, <1>5, <2>1 DEF ProjectReady
  <2>3. misreads' \in Nat BY <1>5 DEF ProjectReady, Misread
  <2>4. gateway' \in Gateways BY <1>5 DEF ProjectReady, Gateways
  <2> QED BY <1>5, <2>2, <2>3, <2>4 DEF ProjectReady
<1>6. ASSUME NEW q \in StoreCalls, NEW v \in SecretValues, StoreAsked(q, v) PROVE SecretsTypeOK'
  <2>1. \A o \in StoreCalls : [store[o] EXCEPT !.rivals = store[o].rivals \cup {q}] \in StoreRequests
    <3> TAKE o \in StoreCalls
    <3>1. store[o] \in StoreRequests /\ store[o].rivals \subseteq StoreCalls BY DEF StoreRequests
    <3> QED BY <3>1 DEF StoreRequests
  <2>2. [at |-> "project", to |-> 0, value |-> v, todo |-> SecretKeys,
         rivals |-> {x \in StoreCalls : Running(x)}] \in StoreRequests
    BY DEF StoreRequests
  <2>3. store' \in [StoreCalls -> StoreRequests] BY <1>6, <2>1, <2>2 DEF StoreAsked
  <2> QED BY <1>6, <2>3 DEF StoreAsked
<1>7. ASSUME NEW q \in StoreCalls, StoreFindsProject(q) \/ StoreFindsNone(q) \/ StoreAnswered(q)
      PROVE  SecretsTypeOK'
  <2> DEFINE Told(at) == [store[q] EXCEPT !.at = at]
             Pointed(p) == [store[q] EXCEPT !.at = "write", !.to = p]
  <2>0. store[q] \in StoreRequests OBVIOUS
  <2>1. CASE StoreFindsProject(q)
    <3>1. \A p \in Runs : Pointed(p) \in StoreRequests BY <2>0 DEF StoreRequests
    <3>2. PICK p \in projects : store' = [store EXCEPT ![q] = Pointed(p)] BY <2>0, <2>1 DEF StoreFindsProject
    <3>3. store' \in [StoreCalls -> StoreRequests] BY <3>1, <3>2
    <3> QED BY <2>1, <3>3 DEF StoreFindsProject
  <2>2. CASE StoreFindsNone(q)
    <3>1. Told("create") \in StoreRequests BY <2>0 DEF StoreRequests
    <3>2. store' = [store EXCEPT ![q] = Told("create")] BY <2>2 DEF StoreFindsNone
    <3>3. store' \in [StoreCalls -> StoreRequests] BY <3>1, <3>2
    <3> QED BY <2>2, <3>3 DEF StoreFindsNone, Misread
  <2>3. CASE StoreAnswered(q)
    <3>1. Told("done") \in StoreRequests BY <2>0 DEF StoreRequests
    <3>2. store' = [store EXCEPT ![q] = Told("done")] BY <2>3 DEF StoreAnswered
    <3>3. store' \in [StoreCalls -> StoreRequests] BY <3>1, <3>2
    <3> QED BY <2>3, <3>3 DEF StoreAnswered
  <2> QED BY <1>7, <2>1, <2>2, <2>3
<1>8. ASSUME NEW q \in StoreCalls, StoreMakesProject(q) PROVE SecretsTypeOK'
  <2>1. PICK p \in Runs \ projects : MadeFor(q, p)
    BY <1>8, ProjectMadeFor
  <2>2. [store[q] EXCEPT !.at = "write", !.to = p] \in StoreRequests
    <3>1. store[q] \in StoreRequests OBVIOUS
    <3> QED BY <3>1 DEF StoreRequests
  <2>3. store' \in [StoreCalls -> StoreRequests] BY <2>1, <2>2 DEF MadeFor
  <2>4. ProjectMade(p) /\ UNCHANGED <<rows, gateway, service, misreads>>
    BY <1>8, <2>1 DEF MadeFor, StoreMakesProject
  <2> QED BY <1>4, <2>1, <2>3, <2>4
<1>9. ASSUME NEW q \in StoreCalls, StoreWrites(q) PROVE SecretsTypeOK'
  <2>1. PICK k \in store[q].todo :
          /\ \/ vault' = Written(store[q].to, k, store[q].value) /\ UNCHANGED misreads
             \/ UNCHANGED vault /\ Misread
          /\ store' = [store EXCEPT ![q].todo = @ \ {k}]
    BY <1>9 DEF StoreWrites
  <2>2. store[q].to \in projects /\ store[q].value \in SecretValues /\ k \in SecretKeys
    BY <1>9 DEF StoreWrites, SecretsInv, StoreHolds, StoreRequests
  <2>3. vault' \in [projects -> [SecretKeys -> SecretValues \cup {None}]]
    BY <2>1, <2>2 DEF Written
  <2>4. misreads' \in Nat BY <2>1 DEF Misread
  <2>5. [store[q] EXCEPT !.todo = store[q].todo \ {k}] \in StoreRequests
    <3>1. store[q] \in StoreRequests OBVIOUS
    <3>2. store[q].todo \ {k} \in SUBSET SecretKeys BY <3>1 DEF StoreRequests
    <3> QED BY <3>1, <3>2 DEF StoreRequests
  <2>6. store' \in [StoreCalls -> StoreRequests] BY <2>1, <2>5
  <2> QED BY <1>9, <2>3, <2>4, <2>6 DEF StoreWrites
<1>10. CASE ServiceLoads
  <2>1. \A p \in projects : vault[p] \in [SecretKeys -> SecretValues \cup {None}] OBVIOUS
  <2>2. \A vars \in [SecretKeys -> SecretValues \cup {None}] :
          Loaded(vars) => service' \in [vars : [SecretKeys -> SecretValues \cup {None}], late : BOOLEAN]
    BY DEF Loaded
  <2>3. service' \in [vars : [SecretKeys -> SecretValues \cup {None}], late : BOOLEAN]
    BY <1>10, <2>1, <2>2 DEF ServiceLoads
  <2>4. misreads' \in Nat BY <1>10 DEF ServiceLoads, Misread
  <2> QED BY <1>10, <2>3, <2>4 DEF ServiceLoads
<1>11. CASE UNCHANGED secretVars BY <1>11 DEF secretVars
<1> QED BY <1>1, <1>2, <1>3, <1>5, <1>6, <1>7, <1>8, <1>9, <1>10, <1>11, <1>13 DEF SecretsNext


\* What no request does leaves the requests as they are, if none runs that it would end.
LEMMA StoreFrame ==
  ASSUME SecretsTypeOK, SecretsInv, UNCHANGED store, misreads' = 0 => misreads = 0,
         gateway.at = "serves" => gateway'.at = "serves",
         projects \subseteq projects', \A p \in projects : vault'[p] = vault[p]
  PROVE  \A q \in StoreCalls : StoreHolds(q)'
<1> TAKE q \in StoreCalls
<1>1. store'[q] = store[q] /\ StoreHolds(q) BY DEF SecretsInv
<1>2. \A k \in SecretKeys : store[q].to \in projects => (Stands(q, k)' <=> Stands(q, k))
  BY DEF Stands
<1> QED BY <1>1, <1>2 DEF StoreHolds, Running

\* A request goes on, and writes at most its own value.
LEMMA RequestSteps ==
  ASSUME SecretsTypeOK, SecretsInv, NEW q \in StoreCalls, NEW new, Running(q),
         store' = [store EXCEPT ![q] = new],
         new.value = store[q].value, new.rivals = store[q].rivals, new.at # "idle",
         gateway' = gateway, misreads' = 0 => misreads = 0, projects \subseteq projects',
         \A p \in projects : \A k \in SecretKeys :
           vault'[p][k] = vault[p][k] \/ vault'[p][k] = store[q].value,
         new.at = "create" => misreads' # 0,
         new.at \in {"write", "done"} => new.to \in projects',
         new.at \in {"project", "create"} => new.todo = SecretKeys,
         new.at = "done" => new.todo = {},
         misreads' = 0 /\ new.at \in {"write", "done"} => \A k \in SecretKeys \ new.todo :
           vault'[new.to][k] \in {store[o].value : o \in {q} \cup store[q].rivals}
  PROVE  \A o \in StoreCalls : StoreHolds(o)'
<1>1. store'[q] = new /\ \A o \in StoreCalls \ {q} : store'[o] = store[o]
  BY DEF SecretsTypeOK
<1>2. \A o \in StoreCalls : /\ store'[o].value = store[o].value
                            /\ store'[o].rivals = store[o].rivals /\ store[o].rivals \subseteq StoreCalls
  BY <1>1 DEF SecretsTypeOK, StoreRequests
<1>3. \A o \in StoreCalls : (Running(o)' => Running(o)) /\ (store[o].at # "idle" => store'[o].at # "idle")
  BY <1>1 DEF Running
<1>4. gateway'.at = "serves" BY DEF SecretsInv, StoreHolds
<1>5. \A o \in StoreCalls :
        {store[x].value : x \in {o} \cup store[o].rivals} = {store'[x].value : x \in {o} \cup store'[o].rivals}
  BY <1>2
<1>6. \A o \in StoreCalls \ {q} : store[o].at # "idle" => q \in store[o].rivals
  BY DEF SecretsInv, StoreHolds
<1>7. StoreHolds(q)'
  <2>1. StoreHolds(q) /\ store[q].at # "idle" BY DEF SecretsInv, Running
  <2>2. misreads' = 0 /\ store'[q].at \in {"write", "done"} => \A k \in SecretKeys \ store'[q].todo : Stands(q, k)'
    BY <1>1, <1>5 DEF Stands
  <2> QED BY <1>1, <1>2, <1>3, <1>4, <2>1, <2>2 DEF StoreHolds
<1>8. ASSUME NEW o \in StoreCalls \ {q} PROVE StoreHolds(o)'
  <2>1. StoreHolds(o) /\ store'[o] = store[o] BY <1>1 DEF SecretsInv
  <2>2. ASSUME NEW k \in SecretKeys, store[o].to \in projects, store[o].at # "idle", Stands(o, k)
        PROVE  Stands(o, k)'
    <3>1. store[q].value \in {store[x].value : x \in {o} \cup store[o].rivals} BY <1>6, <2>2
    <3>2. vault'[store[o].to][k] \in {store[x].value : x \in {o} \cup store[o].rivals}
      BY <2>2, <3>1 DEF Stands
    <3> QED BY <1>5, <2>1, <3>2 DEF Stands
  <2> QED BY <1>2, <1>3, <1>4, <2>1, <2>2 DEF StoreHolds
<1> QED BY <1>7, <1>8

\* The first project that is made leaves what is stored in the others.
LEMMA ProjectKept ==
  ASSUME NEW by, ProjectMade(by)
  PROVE  projects' = projects \cup {by} /\ \A p \in projects : vault'[p] = vault[p]
BY DEF ProjectMade

LEMMA SecretsInvStep ==
  ASSUME SecretsTypeOK, SecretsInv, [SecretsNext]_secretVars
  PROVE  SecretsInv'
<1> DEFINE Seeded == misreads' = 0 => SeedHolds'
           Served == \A q \in StoreCalls : StoreHolds(q)'
           Known == misreads' = 0 /\ service'.late => \A k \in SecretKeys : service'.vars[k] # None
<1>0. misreads \in Nat /\ (Misread => misreads' # 0) /\ (service' = service /\ misreads' = misreads => Known)
  BY DEF SecretsTypeOK, Misread, SecretsInv
<1>1. CASE GatewayStarts
  <2>1. gateway'.at = "org" /\ gateway'.run \in Runs
    BY <1>1, SecretsAssumption DEF GatewayStarts, SecretsTypeOK, Gateways, Runs
  <2>2. Seeded BY <1>1, <2>1 DEF GatewayStarts, SecretsInv, SeedHolds, SeededBefore
  <2>3. Served BY <1>1, StoreFrame DEF GatewayStarts
  <2> QED BY <1>0, <1>1, <2>1, <2>2, <2>3 DEF GatewayStarts, SecretsInv
<1>2. CASE GatewayEnds
  <2>1. gateway'.at = "down" BY <1>2 DEF GatewayEnds, SecretsTypeOK, Gateways
  <2>2. Seeded BY <1>2, <2>1 DEF GatewayEnds, SecretsInv, SeedHolds, SeededBefore
  <2>3. \A q \in StoreCalls : /\ store'[q].value = store[q].value /\ store'[q].rivals = store[q].rivals
                              /\ store'[q].to = store[q].to /\ store'[q].todo = store[q].todo
                              /\ store'[q].at = IF Running(q) THEN "cut" ELSE store[q].at
                              /\ store[q].rivals \subseteq StoreCalls
    BY <1>2 DEF GatewayEnds, SecretsTypeOK, StoreRequests
  <2>4. \A q \in StoreCalls : ~Running(q)' BY <2>3 DEF Running
  <2>5. Served
    <3> TAKE q \in StoreCalls
    <3>1. StoreHolds(q) BY DEF SecretsInv
    <3>2. {store[x].value : x \in {q} \cup store[q].rivals} = {store'[x].value : x \in {q} \cup store'[q].rivals}
      BY <2>3
    <3>3. \A k \in SecretKeys : Stands(q, k)' <=> Stands(q, k)
      BY <1>2, <2>3, <3>2 DEF GatewayEnds, Stands
    <3>4. \A o \in StoreCalls : store[o].at # "idle" => store'[o].at # "idle" BY <2>3 DEF Running
    <3>5. \A o \in store'[q].rivals : store[q].at # "idle" => store'[o].at # "idle"
      BY <2>3, <3>4, <3>1 DEF StoreHolds
    <3>6. store'[q].at = "idle" <=> store[q].at = "idle" BY <2>3 DEF Running
    <3>7. store'[q].at \in {"write", "done"} => store'[q].at = store[q].at BY <2>3
    <3>8. store'[q].at \notin {"project", "create"} BY <2>3 DEF Running
    <3> QED BY <1>2, <2>3, <2>4, <3>1, <3>3, <3>5, <3>6, <3>7, <3>8 DEF GatewayEnds, StoreHolds
  <2> QED BY <1>0, <1>2, <2>1, <2>2, <2>5 DEF GatewayEnds, SecretsInv
<1>3. ASSUME NEW t \in Tables, Seeds(t) PROVE SecretsInv'
  <2>1. PICK inserts \in {Inserts(t), TRUE} :
          /\ IF inserts # Inserts(t) THEN Misread ELSE UNCHANGED misreads
          /\ \E row \in IF inserts THEN {gateway.run} ELSE rows[t] : Row(t, inserts, row)
    BY <1>3 DEF Seeds, Row
  <2>2. PICK row \in IF inserts THEN {gateway.run} ELSE rows[t] : Row(t, inserts, row)
    BY <2>1
  <2>3. /\ gateway.at = t /\ t # "down" /\ t # "serves" /\ t # "project"
        /\ gateway'.at = StepAfter(t) /\ gateway'.at # "serves" /\ gateway'.run = gateway.run
    BY <1>3, <2>2, PastOneMore DEF Seeds, Tables, Row, SecretsTypeOK, Gateways
  <2>4. Seeded
    <3> SUFFICES ASSUME misreads' = 0 PROVE SeedHolds'
      OBVIOUS
    <3>1. misreads = 0 /\ inserts = Inserts(t) /\ SeedHolds BY <1>0, <2>1 DEF SecretsInv
    <3>2. rows'[t] = {gateway'.by[t]}
      BY <2>2, <3>1 DEF Row, Inserts, SeedHolds, SecretsTypeOK, Gateways
    <3>3. \A o \in Tables \ {t} : rows'[o] = rows[o] /\ gateway'.by[o] = gateway.by[o]
      BY <2>2 DEF Row, SecretsTypeOK, Gateways
    <3>4. SeededBefore(gateway'.at) \subseteq SeededBefore(gateway.at) \cup {t} BY <2>3, PastOneMore
    <3>5. SeededBefore(gateway.at) \subseteq Tables BY <2>3 DEF SeededBefore, Tables
    <3> QED BY <1>3, <2>3, <3>1, <3>2, <3>3, <3>4, <3>5 DEF Seeds, SeedHolds
  <2>5. Served BY <1>0, <1>3, <2>1, <2>3, StoreFrame DEF Seeds
  <2>6. Known BY <1>0, <1>3, <2>1 DEF Seeds
  <2> QED BY <1>3, <2>3, <2>4, <2>5, <2>6 DEF Seeds, SecretsInv
<1>13. CASE RoleSkipped
  <2>1. /\ gateway.at = "role" /\ gateway'.at = "session" /\ gateway'.run = gateway.run
        /\ misreads' # 0 /\ UNCHANGED <<rows, projects, vault, store, service>>
    BY <1>0, <1>13, StepsOfSeed DEF RoleSkipped, SecretsTypeOK, Gateways
  <2>2. Served BY <1>0, <2>1, StoreFrame
  <2> QED BY <2>1, <2>2 DEF SecretsInv
<1>4. CASE ProjectReady
  <2>1. gateway'.at = "serves" /\ gateway'.run = gateway.run /\ gateway'.by = gateway.by /\ gateway.at = "project"
    BY <1>4 DEF ProjectReady, SecretsTypeOK, Gateways
  <2>2. projects \subseteq projects' /\ \A p \in projects : vault'[p] = vault[p]
    BY <1>4, ProjectKept DEF ProjectReady
  <2>3. misreads' = 0 => misreads = 0 BY <1>0, <1>4 DEF ProjectReady
  <2>4. Seeded
    <3>1. misreads' = 0 => projects' # {} /\ (projects' = projects \/ projects' = {gateway.run})
      BY <1>0, <1>4, ProjectKept DEF ProjectReady
    <3> QED BY <1>4, <2>1, <2>3, <3>1 DEF ProjectReady, SecretsInv, SeedHolds, SeededBefore
  <2>5. Served BY <1>4, <2>1, <2>2, <2>3, StoreFrame DEF ProjectReady
  <2>6. Known BY <1>4, <2>3 DEF ProjectReady, SecretsInv
  <2> QED BY <2>1, <2>4, <2>5, <2>6 DEF SecretsInv
<1>5. ASSUME NEW q \in StoreCalls, NEW v \in SecretValues, StoreAsked(q, v) PROVE SecretsInv'
  <2>1. /\ store[q].at = "idle" /\ store'[q].at = "project" /\ store'[q].value = v
        /\ store'[q].todo = SecretKeys /\ store'[q].rivals = {x \in StoreCalls : Running(x)}
        /\ gateway.at = "serves" /\ UNCHANGED <<rows, gateway, projects, vault, service, misreads>>
    BY <1>5 DEF StoreAsked, SecretsTypeOK
  <2>2. \A o \in StoreCalls \ {q} :
          /\ store'[o].at = store[o].at /\ store'[o].value = store[o].value /\ store'[o].to = store[o].to
          /\ store'[o].todo = store[o].todo /\ store'[o].rivals = store[o].rivals \cup {q}
          /\ store[o].rivals \subseteq StoreCalls
    BY <1>5 DEF StoreAsked, SecretsTypeOK, StoreRequests
  <2>3. \A o \in StoreCalls \ {q} : Running(o)' <=> Running(o) BY <2>2 DEF Running
  <2>4. StoreHolds(q)'
    <3>1. \A o \in StoreCalls : Running(o) => o # q /\ store'[o].at # "idle"
      BY <2>1, <2>2 DEF Running
    <3> QED BY <2>1, <2>3, <3>1 DEF StoreHolds
  <2>5. ASSUME NEW o \in StoreCalls \ {q} PROVE StoreHolds(o)'
    <3>1. StoreHolds(o) BY DEF SecretsInv
    <3>2. ASSUME NEW k \in SecretKeys, store[o].at # "idle", Stands(o, k) PROVE Stands(o, k)'
      <4>1. PICK x \in {o} \cup store[o].rivals : vault[store[o].to][k] = store[x].value
        BY <3>2 DEF Stands
      <4>2. x # q /\ x \in StoreCalls BY <2>1, <2>2, <3>1, <3>2 DEF StoreHolds
      <4>3. store'[x].value = store[x].value /\ x \in {o} \cup store'[o].rivals BY <2>2, <4>2
      <4>4. vault'[store'[o].to][k] = store'[x].value BY <2>1, <2>2, <4>1, <4>3
      <4> QED BY <4>3, <4>4 DEF Stands
    <3>3. \A x \in store'[o].rivals : store[o].at # "idle" => store'[x].at # "idle"
      BY <2>1, <2>2, <3>1 DEF StoreHolds
    <3>4. \A x \in StoreCalls \ {o} : store[o].at # "idle" => (Running(x)' => x \in store'[o].rivals)
      BY <2>2, <2>3, <3>1 DEF StoreHolds
    <3> QED BY <2>1, <2>2, <2>3, <3>1, <3>2, <3>3, <3>4 DEF StoreHolds
  <2> QED BY <2>1, <2>4, <2>5 DEF SecretsInv, SeedHolds
<1>6. ASSUME NEW q \in StoreCalls, StoreFindsProject(q) PROVE SecretsInv'
  <2>1. PICK p \in projects : store' = [store EXCEPT ![q].at = "write", ![q].to = p]
    BY <1>6 DEF StoreFindsProject
  <2> DEFINE new == [store[q] EXCEPT !.at = "write", !.to = p]
  <2>2. store[q].at = "project" /\ Running(q) /\ store[q].todo = SecretKeys
    BY <1>6 DEF StoreFindsProject, Running, SecretsInv, StoreHolds
  <2>3. /\ new.at = "write" /\ new.to = p /\ new.value = store[q].value
        /\ new.rivals = store[q].rivals /\ new.todo = store[q].todo
    BY DEF SecretsTypeOK, StoreRequests
  <2>4. store' = [store EXCEPT ![q] = new] BY <2>1
  <2> HIDE DEF new
  <2>5. Served BY <1>6, <2>2, <2>3, <2>4, RequestSteps DEF StoreFindsProject
  <2> QED BY <1>6, <2>5 DEF StoreFindsProject, SecretsInv, SeedHolds
<1>7. ASSUME NEW q \in StoreCalls, StoreFindsNone(q) PROVE SecretsInv'
  <2> DEFINE new == [store[q] EXCEPT !.at = "create"]
  <2>1. store[q].at = "project" /\ Running(q) /\ store[q].todo = SecretKeys /\ gateway.at = "serves"
    BY <1>7 DEF StoreFindsNone, Running, SecretsInv, StoreHolds
  <2>2. /\ new.at = "create" /\ new.value = store[q].value
        /\ new.rivals = store[q].rivals /\ new.todo = store[q].todo
    BY DEF SecretsTypeOK, StoreRequests
  <2>3. store' = [store EXCEPT ![q] = new] BY <1>7 DEF StoreFindsNone
  <2> HIDE DEF new
  <2>4. misreads' # 0 BY <1>0, <1>7, <2>1 DEF StoreFindsNone, SecretsInv, SeedHolds
  <2>5. Served BY <1>7, <2>1, <2>2, <2>3, <2>4, RequestSteps DEF StoreFindsNone
  <2> QED BY <1>7, <2>4, <2>5 DEF StoreFindsNone, SecretsInv
<1>8. ASSUME NEW q \in StoreCalls, StoreMakesProject(q) PROVE SecretsInv'
  <2>1. PICK p \in Runs \ projects : MadeFor(q, p)
    BY <1>8, ProjectMadeFor
  <2> DEFINE new == [store[q] EXCEPT !.at = "write", !.to = p]
  <2>2. store[q].at = "create" /\ Running(q) /\ misreads' # 0
    BY <1>8 DEF StoreMakesProject, Running, SecretsInv, StoreHolds
  <2>3. /\ new.at = "write" /\ new.to = p /\ new.value = store[q].value
        /\ new.rivals = store[q].rivals /\ new.todo = store[q].todo
    BY DEF SecretsTypeOK, StoreRequests
  <2>4. store' = [store EXCEPT ![q] = new] BY <2>1 DEF MadeFor
  <2> HIDE DEF new
  <2>5. projects' = projects \cup {p} /\ \A o \in projects : vault'[o] = vault[o]
    BY <2>1, ProjectKept DEF MadeFor
  <2>6. Served BY <1>8, <2>2, <2>3, <2>4, <2>5, RequestSteps DEF StoreMakesProject
  <2> QED BY <1>8, <2>2, <2>6 DEF StoreMakesProject, SecretsInv
<1>9. ASSUME NEW q \in StoreCalls, StoreWrites(q) PROVE SecretsInv'
  <2>1. PICK k \in store[q].todo :
          /\ \/ vault' = Written(store[q].to, k, store[q].value) /\ UNCHANGED misreads
             \/ UNCHANGED vault /\ Misread
          /\ store' = [store EXCEPT ![q].todo = @ \ {k}]
    BY <1>9 DEF StoreWrites
  <2> DEFINE new == [store[q] EXCEPT !.todo = store[q].todo \ {k}]
  <2>2. /\ store[q].at = "write" /\ Running(q) /\ store[q].to \in projects /\ StoreHolds(q)
        /\ k \in SecretKeys /\ store[q].todo \subseteq SecretKeys
    BY <1>9 DEF StoreWrites, Running, SecretsInv, StoreHolds, SecretsTypeOK, StoreRequests
  <2>3. /\ new.at = "write" /\ new.to = store[q].to /\ new.value = store[q].value
        /\ new.rivals = store[q].rivals /\ new.todo = store[q].todo \ {k}
    BY <2>2 DEF SecretsTypeOK, StoreRequests
  <2>4. store' = [store EXCEPT ![q] = new] BY <2>1
  <2> HIDE DEF new
  <2>5. \A p \in projects : \A x \in SecretKeys :
          vault'[p][x] = IF misreads' = misreads /\ p = store[q].to /\ x = k THEN store[q].value ELSE vault[p][x]
    BY <1>0, <2>1, <2>2 DEF Written, Misread, SecretsTypeOK
  <2>6. misreads' = 0 => misreads = 0 BY <1>0, <2>1
  <2>7. ASSUME misreads' = 0, NEW x \in SecretKeys \ new.todo
        PROVE  vault'[new.to][x] \in {store[o].value : o \in {q} \cup store[q].rivals}
    BY <2>2, <2>3, <2>5, <2>6, <2>7 DEF StoreHolds, Stands
  <2>8. \A p \in projects : \A x \in SecretKeys : vault'[p][x] = vault[p][x] \/ vault'[p][x] = store[q].value
    BY <2>5
  <2>9. Served BY <1>9, <2>2, <2>3, <2>4, <2>6, <2>7, <2>8, RequestSteps DEF StoreWrites
  <2> QED BY <1>9, <2>6, <2>9 DEF StoreWrites, SecretsInv, SeedHolds
<1>10. ASSUME NEW q \in StoreCalls, StoreAnswered(q) PROVE SecretsInv'
  <2> DEFINE new == [store[q] EXCEPT !.at = "done"]
  <2>1. store[q].at = "write" /\ Running(q) /\ store[q].to \in projects /\ StoreHolds(q) /\ store[q].todo = {}
    BY <1>10 DEF StoreAnswered, Running, SecretsInv, StoreHolds
  <2>2. /\ new.at = "done" /\ new.to = store[q].to /\ new.value = store[q].value
        /\ new.rivals = store[q].rivals /\ new.todo = store[q].todo
    BY DEF SecretsTypeOK, StoreRequests
  <2>3. store' = [store EXCEPT ![q] = new] BY <1>10 DEF StoreAnswered
  <2> HIDE DEF new
  <2>4. misreads = 0 => \A k \in SecretKeys : vault[new.to][k] \in {store[o].value : o \in {q} \cup store[q].rivals}
    BY <2>1, <2>2 DEF StoreHolds, Stands
  <2>5. Served BY <1>10, <2>1, <2>2, <2>3, <2>4, RequestSteps DEF StoreAnswered
  <2> QED BY <1>10, <2>5 DEF StoreAnswered, SecretsInv, SeedHolds
<1>11. CASE ServiceLoads
  <2>1. Served BY <1>0, <1>11, StoreFrame DEF ServiceLoads
  <2>2. Seeded BY <1>0, <1>11 DEF ServiceLoads, SecretsInv, SeedHolds
  <2>3. Known
    <3> SUFFICES ASSUME misreads' = 0, service'.late, NEW k \in SecretKeys PROVE service'.vars[k] # None
      OBVIOUS
    <3>1. misreads = 0 /\ SeedHolds BY <1>0, <1>11 DEF ServiceLoads, SecretsInv
    <3>2. PICK vars : service' = [vars |-> vars, late |-> gateway.at = "serves" /\ \E o \in StoreCalls : store[o].at = "done"]
      BY <1>11 DEF ServiceLoads, Loaded
    <3>3. gateway.at = "serves" /\ \E o \in StoreCalls : store[o].at = "done"
      <4> DEFINE l == gateway.at = "serves" /\ \E o \in StoreCalls : store[o].at = "done"
      <4>1. service'.late = l BY <3>2
      <4> HIDE DEF l
      <4>2. l BY <4>1
      <4> QED BY <4>2 DEF l
    <3>4. PICK q \in StoreCalls : store[q].at = "done" BY <3>3
    <3>5. store[q].to \in projects /\ Stands(q, k) BY <3>1, <3>4 DEF SecretsInv, StoreHolds
    <3>6. \A o \in {q} \cup store[q].rivals : store[o].value \in SecretValues
      BY <3>4 DEF SecretsInv, StoreHolds, SecretsTypeOK, StoreRequests
    <3>7. vault[store[q].to][k] # None BY <3>5, <3>6, SecretsAssumption DEF Stands
    <3>8. PICK p \in projects : service'.vars = vault[p]
      BY <1>0, <1>11, <3>1, <3>3, <3>5 DEF ServiceLoads, Loaded
    <3>9. p = store[q].to BY <3>1, <3>5 DEF SeedHolds
    <3> QED BY <3>7, <3>8, <3>9
  <2> QED BY <1>11, <2>1, <2>2, <2>3 DEF ServiceLoads, SecretsInv
<1>12. CASE UNCHANGED secretVars
  <2>1. Served BY <1>12, StoreFrame DEF secretVars
  <2> QED BY <1>0, <1>12, <2>1 DEF secretVars, SecretsInv, SeedHolds
<1> QED BY <1>1, <1>2, <1>3, <1>4, <1>5, <1>6, <1>7, <1>8, <1>9, <1>10, <1>11, <1>12, <1>13
  DEF SecretsNext

LEMMA OneAtMost ==
  ASSUME NEW S, \A i, j \in S : i = j
  PROVE  Cardinality(S) <= 1
<1>1. CASE S = {} BY <1>1, FS_EmptySet
<1>2. CASE S # {}
  <2>1. PICK i \in S : S = {i} BY <1>2
  <2>2. Cardinality({i}) = 1 BY FS_Singleton
  <2> QED BY <2>1, <2>2
<1> QED BY <1>1, <1>2

(***************************************************************************)
(* The secrets are found, for any keys, values, requests to store, starts  *)
(* of the gateway and answers.  What carries it is that a request that     *)
(* runs is among the rivals of every other one that was asked, so that     *)
(* what it writes over theirs is a value they may have to share, and that  *)
(* a gateway which serves has found or made the one project.               *)
(***************************************************************************)
THEOREM SecretsAreKept == PlatformSpec => []SecretsAreFound
<1> DEFINE Inv == SecretsTypeOK /\ SecretsInv
<1>1. PlatformInit => Inv
  <2> SUFFICES ASSUME SecretsInit PROVE Inv
    BY DEF PlatformInit
  <2>1. store = [q \in StoreCalls |-> NoStore] /\ NoStore \in StoreRequests
    BY DEF SecretsInit, NoStore, StoreRequests
  <2>2. SecretsTypeOK BY <2>1 DEF SecretsInit, SecretsTypeOK, Gateways
  <2>3. \A q \in StoreCalls : store[q].at = "idle" BY <2>1 DEF NoStore
  <2>4. \A q \in StoreCalls : StoreHolds(q) BY <2>3 DEF StoreHolds, Running
  <2> QED BY <2>2, <2>4 DEF SecretsInit, SecretsInv, SeedHolds, SeededBefore
<1>2. Inv /\ [PlatformNext]_platformVars => Inv'
  <2> SUFFICES ASSUME Inv, [PlatformNext]_platformVars PROVE Inv'
    OBVIOUS
  <2>1. [SecretsNext]_secretVars BY HostSteps
  <2> QED BY <2>1, SecretsTypeStep, SecretsInvStep
<1>3. Inv => SecretsAreFound
  <2> SUFFICES ASSUME Inv, misreads = 0 PROVE SecretsAreFound
    BY DEF SecretsAreFound
  <2>1. (\A t \in Tables : Cardinality(rows[t]) <= 1) /\ Cardinality(projects) <= 1
    BY OneAtMost DEF SecretsInv, SeedHolds
  <2>2. gateway.at = "serves" => \A t \in Tables : rows[t] = {gateway.by[t]}
    BY DEF SecretsInv, SeedHolds, SeededBefore
  <2>3. \A q \in StoreCalls : store[q].at = "done" => \A k \in SecretKeys : Stands(q, k)
    BY DEF SecretsInv, StoreHolds
  <2> QED BY <2>1, <2>2, <2>3 DEF SecretsAreFound, SecretsInv, Stands
<1> QED BY <1>1, <1>2, <1>3, PTL DEF PlatformSpec

-----------------------------------------------------------------------------
(* Files and uploads *)

\* An upload that is unfinished, or has a request under way.
Active(u) ==
  upload[u] # None /\ (upload[u].open \/ \E k \in Chunks : chunk[k] # None /\ chunk[k].up = u)

Target(u) == name[upload[u].path]

\* The file has this upload's parts from the first on, and nothing else.
Grows(u) ==
  /\ Target(u) # None
  /\ \A i \in Pieces :
       /\ data[Target(u)][i] \in {u, None}
       /\ data[Target(u)][i] = u => \A h \in 1 .. i - 1 : data[Target(u)][h] = u

ChunkHolds(k) ==
  LET u == chunk[k].up
      i == chunk[k].part
  IN  /\ upload[u] # None
      /\ \A h \in 1 .. i - 1 : data[Target(u)][h] = u
      /\ chunk[k].at = "write" => chunk[k].file = Target(u)
      /\ chunk[k].at = "record" => data[Target(u)][i] = u

\* Uploads have their paths to themselves.
UploadsHold ==
  /\ \A u \in Uploads : Active(u) =>
       /\ Grows(u)
       /\ \A j \in Handlers : job[j] # None => upload[u].path \notin PathsOf(j)
       /\ \A v \in Uploads : Active(v) /\ upload[v].path = upload[u].path => v = u
  /\ \A k \in Chunks : chunk[k] # None => ChunkHolds(k)

\* How far a request is, whoever else uses its paths.
JobSound(j) ==
  LET r == job[j]
  IN  /\ r.at # "write" => r.part = 1 /\ r.file = None
      /\ r.at = "write" => r.file # None /\ (r.op # "put" => r.from # None)
      /\ r.at = "check" => ~r.override
      /\ r.op = "put" => r.content \in Contents
      /\ r.op = "delete" => r.at = "go" /\ r.override /\ r.src = r.dst

\* What a request that is alone has written so far, and what it has made sure of.
JobHolds(j) ==
  LET r == job[j]
  IN  /\ r.op \in {"move", "copy"} /\ (r.at = "check" \/ r.override) => r.src # r.dst
      /\ r.at = "go" /\ ~r.override => name[r.dst] = None
      /\ r.at = "write" =>
           /\ name[r.dst] = r.file
           /\ r.op # "put" => name[r.src] = r.from /\ r.src # r.dst
           /\ \A i \in 1 .. r.part - 1 :
                data[r.file][i] = IF r.op = "put" THEN r.content ELSE data[r.from][i]

Apart(j) ==
  \A k \in Handlers \ {j} : job[k] # None => job[j].src \notin PathsOf(k) /\ job[j].dst \notin PathsOf(k)

JobsHold ==
  \A j \in Handlers : job[j] # None => JobSound(j) /\ (job[j].alone => JobHolds(j) /\ Apart(j))

\* The request does not overwrite or remove what is here.
Spares(j, p) ==
  job[j] # None =>
    /\ job[j].alone => p # job[j].dst \/ (~job[j].override /\ job[j].at # "write")
    /\ ~job[j].alone => p \notin PathsOf(j)

\* Content c is whole where no request overwrites or removes it.
Safe(c) == \E p \in Paths : Holds(p, c) /\ \A j \in Handlers : Spares(j, p)

FilesInv ==
  UploadsHold /\ JobsHold /\ \A c \in kept : Safe(c)


\* A request whose part, and whose upload's file, stay as they are.
LEMMA ChunkKept ==
  ASSUME NEW k \in Chunks, ChunkHolds(k), chunk'[k] = chunk[k], UNCHANGED <<name, data, upload>>
  PROVE  ChunkHolds(k)'
<1>1. PICK u, i : u = chunk[k].up /\ i = chunk[k].part
  OBVIOUS
<1>2. upload[u] # None /\ \A h \in 1 .. i - 1 : data[Target(u)][h] = u
  BY <1>1 DEF ChunkHolds
<1>3. /\ chunk[k].at = "write" => chunk[k].file = Target(u)
      /\ chunk[k].at = "record" => data[Target(u)][i] = u
  BY <1>1 DEF ChunkHolds
<1>4. chunk'[k].up = u /\ chunk'[k].part = i
  BY <1>1
<1> QED BY <1>2, <1>3, <1>4 DEF ChunkHolds, Target

LEMMA FilesTyped ==
  ASSUME FilesTypeOK
  PROVE  /\ \A j \in Handlers : job[j] # None =>
              /\ job[j] \in FileJobs /\ job[j].src \in Paths /\ job[j].dst \in Paths
              /\ job[j].part \in 1 .. Size + 1 /\ job[j].content \in Contents \cup {None}
              /\ job[j].file \in Files \cup {None} /\ job[j].from \in Files \cup {None}
              /\ PathsOf(j) \subseteq Paths
         /\ \A u \in Uploads : upload[u] # None => upload[u] \in UploadStates /\ upload[u].path \in Paths
         /\ \A k \in Chunks : chunk[k] # None =>
              /\ chunk[k] \in ChunkRequests /\ chunk[k].up \in Uploads
              /\ chunk[k].part \in Pieces /\ chunk[k].file \in Files \cup {None}
<1>1. \A j \in Handlers : job[j] # None =>
        /\ job[j] \in FileJobs /\ job[j].src \in Paths /\ job[j].dst \in Paths
        /\ job[j].part \in 1 .. Size + 1 /\ job[j].content \in Contents \cup {None}
        /\ job[j].file \in Files \cup {None} /\ job[j].from \in Files \cup {None}
  BY DEF FilesTypeOK, FileJobs
<1>2. \A u \in Uploads : upload[u] # None => upload[u] \in UploadStates /\ upload[u].path \in Paths
  BY DEF FilesTypeOK, UploadStates
<1>3. \A k \in Chunks : chunk[k] # None =>
        /\ chunk[k] \in ChunkRequests /\ chunk[k].up \in Uploads
        /\ chunk[k].part \in Pieces /\ chunk[k].file \in Files \cup {None}
  BY DEF FilesTypeOK, ChunkRequests
<1> QED BY <1>1, <1>2, <1>3 DEF PathsOf

\* The file that is created or truncated is the path's own one.
LEMMA CreatedAlone ==
  ASSUME FilesTypeOK, NEW p \in Paths, Creates(p)
  PROVE  /\ Opened(p) \in Files
         /\ name' = [name EXCEPT ![p] = Opened(p)] /\ data' = [data EXCEPT ![Opened(p)] = Blank]
         /\ name'[p] = Opened(p) /\ name'[p] # None /\ \A i \in Pieces : data'[name'[p]][i] = None
         /\ \A q \in Paths \ {p} : name'[q] = name[q] /\ name[q] # Opened(p)
         /\ \A q \in Paths \ {p} : name[q] # None => data'[name[q]] = data[name[q]]
         /\ \A k \in Chunks : chunk[k] # None /\ name[p] = None => chunk[k].file # Opened(p)
         /\ \A j \in Handlers : job[j] # None /\ name[p] = None => job[j].file # Opened(p)
<1>1. Opened(p) \in Files /\ (name[p] = None => Opened(p) \in Free)
  BY DEF Creates, Opened, Free, FilesTypeOK
<1>2. Blank \in [Pieces -> {None}] BY DEF Blank
<1>3. name' = [name EXCEPT ![p] = Opened(p)] /\ data' = [data EXCEPT ![Opened(p)] = Blank]
  BY DEF Creates
<1>4. \A q \in Paths \ {p} : name[q] # Opened(p)
  BY <1>1 DEF Free, Opened, FilesTypeOK
<1>5. \A k \in Chunks : chunk[k] # None /\ name[p] = None => chunk[k].file # Opened(p)
  BY <1>1 DEF Free
<1>6. \A j \in Handlers : job[j] # None /\ name[p] = None => job[j].file # Opened(p)
  BY <1>1 DEF Free
<1>7. Opened(p) # None BY <1>1, FilesAssumption
<1> QED BY <1>1, <1>2, <1>3, <1>4, <1>5, <1>6, <1>7 DEF FilesTypeOK

\* What a request writes to lies where it lay, or nowhere.
LEMMA CreatedElsewhere ==
  ASSUME FilesTypeOK, NEW p \in Paths, Creates(p), NEW k \in Handlers, job[k] # None, job'[k] = job[k]
  PROVE  PathsOf(k)' \subseteq PathsOf(k)
<1>1. /\ name'[p] = Opened(p) /\ \A q \in Paths \ {p} : name'[q] = name[q]
      /\ name[p] = None => job[k].file # Opened(p)
      /\ name[p] # None => Opened(p) = name[p]
  BY CreatedAlone DEF Opened
<1>2. \A q \in Paths : job[k].file # None /\ name'[q] = job[k].file => name[q] = job[k].file
  BY <1>1
<1> QED BY <1>2 DEF PathsOf

\* The request that starts.
LEMMA Started ==
  ASSUME NEW j \in Handlers, PutStarts(j) \/ DeleteStarts(j) \/ MoveStarts(j)
  PROVE  \E o \in {"put", "delete", "move", "copy"}, s \in Paths, d \in Paths, c \in Contents \cup {None},
            override \in BOOLEAN, gone \in SUBSET (Contents \cup Uploads) :
           /\ Starts(j, o, s, d, c, override, gone) /\ (override => gone = ContentAt(d))
           /\ o = "put" => c \in Contents
           /\ o = "delete" => override /\ s = d
           /\ o \in {"move", "copy"} => s # d
<1>0. \A p \in Paths : ContentAt(p) \in SUBSET (Contents \cup Uploads) /\ {} \in SUBSET (Contents \cup Uploads)
  BY DEF ContentAt
<1>1. CASE PutStarts(j)
  <2>1. PICK p \in Paths, c \in Contents, override \in BOOLEAN :
          Starts(j, "put", p, p, c, override, Replaced(p, override))
    BY <1>1 DEF PutStarts
  <2> QED BY <1>0, <2>1 DEF Replaced
<1>2. CASE DeleteStarts(j)
  <2>1. PICK p \in Paths : Starts(j, "delete", p, p, None, TRUE, ContentAt(p))
    BY <1>2 DEF DeleteStarts
  <2> QED BY <1>0, <2>1
<1>3. CASE MoveStarts(j)
  <2>1. PICK o \in {"move", "copy"}, s \in Paths, d \in Paths, override \in BOOLEAN :
          s # d /\ Starts(j, o, s, d, None, override, Replaced(d, override))
    BY <1>3 DEF MoveStarts
  <2> QED BY <1>0, <2>1 DEF Replaced
<1> QED BY <1>1, <1>2, <1>3

\* The same request, but for whether it is alone.
SameWork(a, b) ==
  /\ a.op = b.op /\ a.src = b.src /\ a.dst = b.dst /\ a.content = b.content /\ a.override = b.override
  /\ a.at = b.at /\ a.part = b.part /\ a.from = b.from /\ a.file = b.file

\* The requests after one has come to name its paths.
LEMMA Taken ==
  ASSUME FilesTypeOK, NEW j \in Handlers, NEW r \in FileJobs, NEW gone, TakesPaths(j, r, gone)
  PROVE  /\ job' \in [Handlers -> {None} \cup FileJobs]
         /\ job'[j] # None /\ SameWork(job'[j], r)
         /\ job'[j].alone <=> r.alone /\ Beside(j, r) = {}
         /\ \A i \in Handlers \ {j} : (job'[i] = None <=> job[i] = None)
         /\ \A i \in Handlers \ {j} : job[i] # None =>
              /\ SameWork(job'[i], job[i])
              /\ job'[i].alone <=> job[i].alone /\ i \notin Beside(j, r)
<1>1. \A a \in FileJobs : \A b \in BOOLEAN :
        /\ [a EXCEPT !.alone = b] \in FileJobs /\ SameWork([a EXCEPT !.alone = b], a)
        /\ [a EXCEPT !.alone = b].alone = b
  BY DEF FileJobs, SameWork
<1>2. r.alone \in BOOLEAN /\ SameWork(r, r) BY DEF FileJobs, SameWork
<1>3. PICK b \in BOOLEAN : b <=> r.alone /\ Beside(j, r) = {} OBVIOUS
<1>4. /\ job'[j] = [r EXCEPT !.alone = b]
      /\ \A i \in Handlers \ {j} : job'[i] = IF i \in Beside(j, r) THEN [job[i] EXCEPT !.alone = FALSE] ELSE job[i]
      /\ job' = [i \in Handlers |-> job'[i]]
  <2>1. (r.alone /\ Beside(j, r) = {}) = b BY <1>2, <1>3
  <2>2. job' = [i \in Handlers |->
                  IF i = j THEN [r EXCEPT !.alone = b]
                  ELSE IF i \in Beside(j, r) THEN [job[i] EXCEPT !.alone = FALSE] ELSE job[i]]
    BY <2>1 DEF TakesPaths
  <2> QED BY <2>2
<1>5. job'[j] \in FileJobs /\ SameWork(job'[j], r) /\ job'[j].alone = b BY <1>1, <1>4
<1>6. ASSUME NEW i \in Handlers \ {j}
      PROVE  /\ job'[i] \in {None} \cup FileJobs /\ (job'[i] = None <=> job[i] = None)
             /\ job[i] # None => SameWork(job'[i], job[i]) /\ (job'[i].alone <=> job[i].alone /\ i \notin Beside(j, r))
  <2>1. job[i] \in {None} \cup FileJobs /\ i \in Handlers BY DEF FilesTypeOK
  <2>2. CASE i \in Beside(j, r)
    <3>1. job[i] # None /\ job[i] \in FileJobs BY <2>1, <2>2 DEF Beside
    <3>2. job'[i] = [job[i] EXCEPT !.alone = FALSE] BY <1>4, <2>2
    <3>3. job'[i] \in FileJobs /\ SameWork(job'[i], job[i]) /\ job'[i].alone = FALSE BY <1>1, <3>1, <3>2
    <3> QED BY <2>2, <3>1, <3>3, FilesAssumption
  <2>3. CASE i \notin Beside(j, r)
    BY <1>4, <2>1, <2>3 DEF SameWork
  <2> QED BY <2>2, <2>3
<1> QED BY <1>3, <1>4, <1>5, <1>6, FilesAssumption

\* The state of an upload after a part.
LEMMA Recorded ==
  ASSUME FilesTypeOK, FilesInv, NEW k \in Chunks, ChunkRecords(k)
  PROVE  /\ upload' \in [Uploads -> {None} \cup UploadStates]
         /\ \A v \in Uploads \ {chunk[k].up} : upload'[v] = upload[v]
         /\ upload'[chunk[k].up] # None /\ upload'[chunk[k].up].path = upload[chunk[k].up].path
         /\ upload'[chunk[k].up].open => upload[chunk[k].up].open
<1> USE FilesAssumption
<1>1. PICK u \in Uploads : u = chunk[k].up BY FilesTyped DEF ChunkRecords
<1> DEFINE state(open) == [upload[u] EXCEPT !.offset = chunk[k].part, !.open = open]
<1>2. chunk[k].part \in Nat /\ upload[u] \in UploadStates
  BY <1>1, FilesTyped DEF ChunkRecords, FilesInv, UploadsHold, ChunkHolds, Pieces
<1>3. \A open \in BOOLEAN :
        state(open) \in UploadStates /\ state(open).path = upload[u].path /\ state(open).open = open
  BY <1>2 DEF UploadStates
<1>4. PICK open \in BOOLEAN : (open => upload[u].open) /\ open = (upload[u].open /\ chunk[k].part < Size)
  OBVIOUS
<1>5. upload' = [upload EXCEPT ![u] = state(open)]
  BY <1>1, <1>2, <1>4 DEF ChunkRecords, NewOffset, FilesTypeOK
<1> HIDE DEF state
<1> QED BY <1>1, <1>3, <1>4, <1>5 DEF FilesTypeOK

\* A job that goes on, or ends.
LEMMA GoesOn ==
  ASSUME FilesTypeOK, NEW j \in Handlers, NEW r, r \in {None} \cup FileJobs, job' = [job EXCEPT ![j] = r]
  PROVE  /\ job' \in [Handlers -> {None} \cup FileJobs]
         /\ job'[j] = r /\ \A k \in Handlers \ {j} : job'[k] = job[k]
BY DEF FilesTypeOK

LEMMA FilesTypeStep ==
  ASSUME FilesTypeOK, FilesInv, [FilesNext]_filesVars
  PROVE  FilesTypeOK'
<1> USE FilesAssumption
<1>0. /\ name \in [Paths -> Files \cup {None}]
      /\ data \in [Files -> [Pieces -> Contents \cup Uploads \cup {None}]]
      /\ \A p, q \in Paths : name[p] # None /\ name[p] = name[q] => p = q
      /\ kept \subseteq Contents \cup Uploads
      /\ job \in [Handlers -> {None} \cup FileJobs] /\ upload \in [Uploads -> {None} \cup UploadStates]
      /\ chunk \in [Chunks -> {None} \cup ChunkRequests]
  BY DEF FilesTypeOK
<1>1. ASSUME NEW j \in Handlers, PutStarts(j) \/ DeleteStarts(j) \/ MoveStarts(j) PROVE FilesTypeOK'
  <2>1. PICK o \in {"put", "delete", "move", "copy"}, s \in Paths, d \in Paths, c \in Contents \cup {None},
             override \in BOOLEAN, gone \in SUBSET (Contents \cup Uploads) : Starts(j, o, s, d, c, override, gone)
    BY <1>1, Started
  <2> DEFINE r == [op |-> o, src |-> s, dst |-> d, content |-> c, override |-> override,
                   at |-> IF override THEN "go" ELSE "check", part |-> 1,
                   from |-> None, file |-> None, alone |-> TRUE]
  <2>2. r \in FileJobs BY DEF FileJobs
  <2>3. TakesPaths(j, r, gone) /\ UNCHANGED <<name, data, upload, chunk>> BY <2>1 DEF Starts
  <2> HIDE DEF r
  <2>4. job' \in [Handlers -> {None} \cup FileJobs] BY <2>2, <2>3, Taken
  <2>5. kept' \subseteq kept BY <2>3 DEF TakesPaths
  <2> QED BY <1>0, <2>3, <2>4, <2>5 DEF FilesTypeOK
<1>2. ASSUME NEW j \in Handlers, Checks(j) PROVE FilesTypeOK'
  <2>1. /\ job[j] \in FileJobs /\ UNCHANGED <<name, data, upload, chunk>>
        /\ [job[j] EXCEPT !.at = "go"] \in FileJobs
        /\ \A p \in Paths : [job[j] EXCEPT !.at = "go", !.dst = p] \in FileJobs
    <3>1. job[j] \in FileJobs /\ UNCHANGED <<name, data>> BY <1>0, <1>2 DEF Checks
    <3>2. UNCHANGED <<upload, chunk>> BY <1>2 DEF Checks, JobEnds, JobGoesOn
    <3>3. /\ [job[j] EXCEPT !.at = "go"] \in FileJobs
          /\ \A p \in Paths : [job[j] EXCEPT !.at = "go", !.dst = p] \in FileJobs
      BY <3>1 DEF FileJobs
    <3> QED BY <3>1, <3>2, <3>3
  <2>2. CASE job' = [job EXCEPT ![j] = [job[j] EXCEPT !.at = "go"]] /\ UNCHANGED kept
    BY <1>0, <2>1, <2>2 DEF FilesTypeOK
  <2>3. CASE job' = [job EXCEPT ![j] = None] /\ UNCHANGED kept
    BY <1>0, <2>1, <2>3 DEF FilesTypeOK
  <2>4. ASSUME NEW p \in Paths, TakesPaths(j, [job[j] EXCEPT !.at = "go", !.dst = p], {})
        PROVE  FilesTypeOK'
    <3>1. PICK r \in FileJobs : r = [job[j] EXCEPT !.at = "go", !.dst = p] BY <2>1
    <3>2. job' \in [Handlers -> {None} \cup FileJobs] BY <2>4, <3>1, Taken
    <3>3. kept' \subseteq kept BY <2>4 DEF TakesPaths
    <3> QED BY <1>0, <2>1, <3>2, <3>3 DEF FilesTypeOK
  <2> QED BY <1>2, <2>2, <2>3, <2>4 DEF Checks, JobEnds, JobGoesOn
<1>3. ASSUME NEW j \in Handlers, Deletes(j) PROVE FilesTypeOK'
  <2>1. job[j].src \in Paths BY <1>3, FilesTyped DEF Deletes, JobIs
  <2> QED BY <1>0, <1>3, <2>1 DEF Deletes, JobEnds, FilesTypeOK
<1>4. ASSUME NEW j \in Handlers, Renames(j) PROVE FilesTypeOK'
  <2>1. job[j].src \in Paths /\ job[j].dst \in Paths BY <1>4, FilesTyped DEF Renames, JobIs
  <2>2. /\ name' = [name EXCEPT ![job[j].src] = None, ![job[j].dst] = name[job[j].src]]
        /\ name' \in [Paths -> Files \cup {None}]
    BY <1>0, <1>4, <2>1 DEF Renames
  <2>3. \A p, q \in Paths : name'[p] # None /\ name'[p] = name'[q] => p = q
    BY <1>0, <2>1, <2>2
  <2> QED BY <1>0, <1>4, <2>2, <2>3 DEF Renames, JobEnds, FilesTypeOK
<1>5. ASSUME NEW p \in Paths, Creates(p)
      PROVE  /\ name' \in [Paths -> Files \cup {None}]
             /\ data' \in [Files -> [Pieces -> Contents \cup Uploads \cup {None}]]
             /\ \A q, r \in Paths : name'[q] # None /\ name'[q] = name'[r] => q = r
  <2>1. Blank \in [Pieces -> Contents \cup Uploads \cup {None}] BY DEF Blank
  <2>2. Opened(p) \in Files /\ \A q \in Paths \ {p} : name[q] # Opened(p) BY <1>5, CreatedAlone
  <2>3. name' = [name EXCEPT ![p] = Opened(p)] /\ data' = [data EXCEPT ![Opened(p)] = Blank]
    BY <1>5 DEF Creates
  <2> QED BY <1>0, <2>1, <2>2, <2>3
<1>6. ASSUME NEW j \in Handlers, DestinationOpens(j) PROVE FilesTypeOK'
  <2>1. /\ job[j] \in FileJobs /\ job[j].dst \in Paths /\ job[j].src \in Paths /\ Creates(job[j].dst)
        /\ UNCHANGED <<kept, upload, chunk>>
    BY <1>0, <1>6, FilesTyped DEF DestinationOpens, JobGoesOn
  <2>2. Opened(job[j].dst) \in Files BY <2>1, CreatedAlone
  <2>3. \A f \in Files : \A g \in Files \cup {None} :
          [job[j] EXCEPT !.at = "write", !.file = f, !.from = g] \in FileJobs
    BY <2>1 DEF FileJobs
  <2>4. PICK g \in Files \cup {None} : g = IF job[j].op = "put" THEN None ELSE name[job[j].src]
    BY <1>0, <2>1
  <2>5. job' = [job EXCEPT ![j] = [job[j] EXCEPT !.at = "write", !.file = Opened(job[j].dst), !.from = g]]
    BY <1>6, <2>4 DEF DestinationOpens, JobGoesOn
  <2>6. job' \in [Handlers -> {None} \cup FileJobs] BY <2>2, <2>3, <2>5, GoesOn
  <2> QED BY <1>0, <1>5, <2>1, <2>6 DEF FilesTypeOK
<1>7. ASSUME NEW j \in Handlers, NoSource(j) \/ JobBreaks(j) PROVE FilesTypeOK'
  BY <1>0, <1>7 DEF NoSource, JobBreaks, JobEnds, FilesTypeOK
<1>8. ASSUME NEW j \in Handlers, CopiesPart(j) PROVE FilesTypeOK'
  <2>1. /\ job[j] # None /\ job[j] \in FileJobs /\ job[j].part \in Pieces /\ job[j].part + 1 \in 1 .. Size + 1
        /\ UNCHANGED <<name, kept, upload, chunk>>
    BY <1>0, <1>8 DEF CopiesPart, JobGoesOn, FileJobs, Pieces
  <2>2. [job[j] EXCEPT !.part = job[j].part + 1] \in FileJobs BY <2>1 DEF FileJobs
  <2>3. job' \in [Handlers -> {None} \cup FileJobs]
    <3>1. job' = [job EXCEPT ![j] = [job[j] EXCEPT !.part = job[j].part + 1]]
      BY <1>8 DEF CopiesPart, JobGoesOn
    <3> QED BY <2>2, <3>1, GoesOn
  <2>4. /\ job[j].file \in Files /\ (job[j].op # "put" => job[j].from \in Files)
        /\ job[j].op = "put" => job[j].content \in Contents
    BY <1>8, <2>1, FilesTyped DEF CopiesPart, FilesInv, JobsHold, JobSound
  <2>5. PICK f, i, x : /\ f = job[j].file /\ i = job[j].part
                       /\ x = IF job[j].op = "put" THEN job[j].content ELSE data[job[j].from][job[j].part]
    OBVIOUS
  <2>6. x \in Contents \cup Uploads \cup {None} BY <1>0, <2>1, <2>4, <2>5
  <2>7. data' = [data EXCEPT ![f][i] = x] BY <1>8, <2>5 DEF CopiesPart
  <2>8. data' \in [Files -> [Pieces -> Contents \cup Uploads \cup {None}]]
    BY <1>0, <2>1, <2>4, <2>5, <2>6, <2>7
  <2> QED BY <1>0, <2>1, <2>3, <2>8 DEF FilesTypeOK
<1>9. ASSUME NEW j \in Handlers, CopyEnds(j) PROVE FilesTypeOK'
  <2>1. job[j].src \in Paths /\ (job[j].op = "put" => job[j].content \in Contents)
    BY <1>9, FilesTyped DEF CopyEnds, FilesInv, JobsHold, JobSound
  <2>2. name' = name \/ name' = [name EXCEPT ![job[j].src] = None] BY <1>9 DEF CopyEnds, SourceRemoved
  <2> QED BY <1>0, <1>9, <2>1, <2>2 DEF CopyEnds, JobEnds, FilesTypeOK
<1>10. CASE FilesRestarts
  <2>1. ASSUME NEW u \in Uploads, upload[u] # None
        PROVE  [upload[u] EXCEPT !.open = FALSE] \in UploadStates
    <3>1. upload[u] \in UploadStates BY <1>0, <2>1
    <3> QED BY <3>1 DEF UploadStates
  <2>2. upload' \in [Uploads -> {None} \cup UploadStates] BY <1>10, <2>1 DEF FilesRestarts
  <2> QED BY <1>0, <1>10, <2>2 DEF FilesRestarts, FilesTypeOK
<1>11. ASSUME NEW u \in Uploads, UploadStarts(u) PROVE FilesTypeOK'
  <2>1. PICK p \in Paths :
          /\ Creates(p) /\ kept' = kept \ ContentAt(p)
          /\ upload' = [upload EXCEPT ![u] = [path |-> p, offset |-> 0, open |-> TRUE]]
    BY <1>11 DEF UploadStarts
  <2>2. [path |-> p, offset |-> 0, open |-> TRUE] \in UploadStates BY DEF UploadStates
  <2>3. upload' \in [Uploads -> {None} \cup UploadStates] BY <1>0, <2>1, <2>2
  <2> QED BY <1>0, <1>5, <1>11, <2>1, <2>3 DEF UploadStarts, FilesTypeOK
<1>12. ASSUME NEW u \in Uploads, NEW k \in Chunks, ChunkSent(k, u) PROVE FilesTypeOK'
  <2>1. \A i \in Pieces : [up |-> u, part |-> i, file |-> None, at |-> "sent"] \in ChunkRequests
    BY DEF ChunkRequests
  <2>2. chunk' \in [Chunks -> {None} \cup ChunkRequests] BY <1>0, <1>12, <2>1 DEF ChunkSent
  <2> QED BY <1>0, <1>12, <2>2 DEF ChunkSent, FilesTypeOK
<1>13. ASSUME NEW k \in Chunks, ChunkOpens(k) PROVE FilesTypeOK'
  <2>1. chunk[k] \in ChunkRequests /\ Target(chunk[k].up) \in Files \cup {None}
    <3>1. chunk[k] \in ChunkRequests /\ chunk[k].up \in Uploads BY <1>13, FilesTyped DEF ChunkOpens
    <3>2. upload[chunk[k].up] # None BY <1>13 DEF ChunkOpens, FilesInv, UploadsHold, ChunkHolds
    <3>3. upload[chunk[k].up].path \in Paths BY <3>1, <3>2, FilesTyped
    <3> QED BY <1>0, <3>1, <3>3 DEF Target
  <2>2. [chunk[k] EXCEPT !.file = Target(chunk[k].up), !.at = "write"] \in ChunkRequests
    BY <2>1 DEF ChunkRequests
  <2>3. chunk' = [chunk EXCEPT ![k] = [chunk[k] EXCEPT !.file = Target(chunk[k].up), !.at = "write"]]
    <3>1. chunk' = [chunk EXCEPT ![k].file = Target(chunk[k].up), ![k].at = "write"]
      BY <1>13 DEF ChunkOpens, Target
    <3> QED BY <1>0, <3>1
  <2>4. chunk' \in [Chunks -> {None} \cup ChunkRequests] BY <1>0, <2>2, <2>3
  <2> QED BY <1>0, <1>13, <2>4 DEF ChunkOpens, FilesTypeOK
<1>14. ASSUME NEW k \in Chunks, ChunkWrites(k) PROVE FilesTypeOK'
  <2>1. chunk[k] \in ChunkRequests /\ chunk[k].up \in Uploads /\ chunk[k].part \in Pieces
    BY <1>14, FilesTyped DEF ChunkWrites
  <2>2. data' \in [Files -> [Pieces -> Contents \cup Uploads \cup {None}]]
    BY <1>0, <1>14, <2>1 DEF ChunkWrites
  <2>3. [chunk[k] EXCEPT !.at = "record"] \in ChunkRequests BY <2>1 DEF ChunkRequests
  <2>4. chunk' \in [Chunks -> {None} \cup ChunkRequests] BY <1>0, <1>14, <2>3 DEF ChunkWrites
  <2> QED BY <1>0, <1>14, <2>2, <2>4 DEF ChunkWrites, FilesTypeOK
<1>15. ASSUME NEW k \in Chunks, ChunkRecords(k) PROVE FilesTypeOK'
  <2>1. upload' \in [Uploads -> {None} \cup UploadStates] BY <1>15, Recorded
  <2>2. kept' \subseteq kept \cup {chunk[k].up} BY <1>15 DEF ChunkRecords
  <2>3. chunk[k].up \in Uploads BY <1>15, FilesTyped DEF ChunkRecords
  <2> QED BY <1>0, <1>15, <2>1, <2>2, <2>3 DEF ChunkRecords, FilesTypeOK
<1>16. ASSUME NEW k \in Chunks, ChunkFails(k) PROVE FilesTypeOK'
  BY <1>0, <1>16 DEF ChunkFails, FilesTypeOK
<1>17. CASE UNCHANGED filesVars
  BY <1>0, <1>17 DEF filesVars, FilesTypeOK
<1> QED BY <1>1, <1>2, <1>3, <1>4, <1>6, <1>7, <1>8, <1>9, <1>10, <1>11, <1>12, <1>13, <1>14, <1>15, <1>16, <1>17
       DEF FilesNext


\* What is under way goes on undisturbed, or ends.
LEMMA UploadsFrame ==
  ASSUME FilesTypeOK, FilesInv,
         \A u \in Uploads : upload[u] # None => upload'[u] # None /\ upload'[u].path = upload[u].path,
         \A u \in Uploads : Active(u)' =>
           /\ Active(u) /\ name'[upload[u].path] = name[upload[u].path]
           /\ data'[Target(u)] = data[Target(u)]
           /\ \A j \in Handlers : job'[j] # None => upload[u].path \notin PathsOf(j)',
         \A k \in Chunks : chunk'[k] # None => chunk'[k] = chunk[k]
  PROVE  UploadsHold'
<1>1. \A u \in Uploads : Active(u)' =>
        Active(u) /\ upload[u] # None /\ upload'[u].path = upload[u].path /\ Target(u)' = Target(u)
  BY DEF Active, Target
<1>2. ASSUME NEW u \in Uploads, Active(u)'
      PROVE  /\ Grows(u)' /\ \A j \in Handlers : job'[j] # None => upload'[u].path \notin PathsOf(j)'
             /\ \A v \in Uploads : Active(v)' /\ upload'[v].path = upload'[u].path => v = u
  <2>1. Grows(u) /\ \A v \in Uploads : Active(v) /\ upload[v].path = upload[u].path => v = u
    BY <1>1, <1>2 DEF FilesInv, UploadsHold
  <2>2. Grows(u)' BY <1>1, <1>2, <2>1 DEF Grows
  <2> QED BY <1>1, <1>2, <2>1, <2>2
<1>3. ASSUME NEW k \in Chunks, chunk'[k] # None PROVE ChunkHolds(k)'
  <2>1. chunk'[k] = chunk[k] /\ ChunkHolds(k) /\ chunk[k].up \in Uploads
    BY <1>3, FilesTyped DEF FilesInv, UploadsHold
  <2>2. Active(chunk[k].up)' BY <1>3, <2>1 DEF Active, ChunkHolds
  <2>3. Target(chunk[k].up)' = Target(chunk[k].up) /\ data'[Target(chunk[k].up)] = data[Target(chunk[k].up)]
    BY <1>1, <2>1, <2>2
  <2> QED BY <2>1, <2>2, <2>3 DEF ChunkHolds, Active
<1> QED BY <1>2, <1>3 DEF UploadsHold

\* An upload under way has a file of its own.
LEMMA OwnFile ==
  ASSUME FilesTypeOK, FilesInv, NEW u \in Uploads, Active(u)
  PROVE  /\ upload[u].path \in Paths /\ Target(u) \in Files /\ Target(u) # None
         /\ \A p \in Paths : name[p] = Target(u) => p = upload[u].path
         /\ \A v \in Uploads : Active(v) /\ Target(v) = Target(u) => v = u
<1>1. upload[u].path \in Paths BY FilesTyped DEF Active
<1>2. Target(u) # None BY DEF FilesInv, UploadsHold, Grows
<1>3. Target(u) \in Files /\ \A p \in Paths : name[p] = Target(u) => p = upload[u].path
  BY <1>1, <1>2 DEF FilesTypeOK, Target
<1>4. ASSUME NEW v \in Uploads, Active(v), Target(v) = Target(u) PROVE v = u
  <2>1. upload[v].path \in Paths BY <1>4, FilesTyped DEF Active
  <2>2. upload[v].path = upload[u].path BY <1>3, <1>4, <2>1 DEF Target
  <2> QED BY <1>4, <2>2 DEF FilesInv, UploadsHold
<1> QED BY <1>1, <1>2, <1>3, <1>4

\* What a request stands on, where it is not touched.
LEMMA JobKept ==
  ASSUME FilesTypeOK, FilesInv, NEW k \in Handlers, job[k] # None, job'[k] = job[k],
         job[k].alone =>
           \A p \in {job[k].src, job[k].dst} :
             name'[p] = name[p] /\ (name[p] # None => data'[name[p]] = data[name[p]])
  PROVE  JobSound(k)' /\ (job'[k].alone => JobHolds(k)')
<1>1. JobSound(k) /\ (job[k].alone => JobHolds(k)) BY DEF FilesInv, JobsHold
<1>2. PICK r : r = job[k] /\ r = job'[k] OBVIOUS
<1>3. JobSound(k)' BY <1>1, <1>2 DEF JobSound
<1>4. ASSUME r.alone PROVE JobHolds(k)'
  <2>1. /\ r.op \in {"move", "copy"} /\ (r.at = "check" \/ r.override) => r.src # r.dst
        /\ r.at = "go" /\ ~r.override => name[r.dst] = None
    BY <1>1, <1>2, <1>4 DEF JobHolds
  <2>2. r.at = "write" =>
          /\ name[r.dst] = r.file /\ r.file # None
          /\ r.op # "put" => name[r.src] = r.from /\ r.src # r.dst /\ r.from # None
          /\ \A i \in 1 .. r.part - 1 :
               data[r.file][i] = IF r.op = "put" THEN r.content ELSE data[r.from][i]
    BY <1>1, <1>2, <1>4 DEF JobHolds, JobSound
  <2>3. \A p \in {r.src, r.dst} : name'[p] = name[p] /\ (name[p] # None => data'[name[p]] = data[name[p]])
    BY <1>2, <1>4
  <2>4. ASSUME r.at = "write"
        PROVE  /\ name'[r.dst] = r.file /\ data'[r.file] = data[r.file]
               /\ r.op # "put" => name'[r.src] = r.from /\ r.src # r.dst /\ data'[r.from] = data[r.from]
    BY <2>2, <2>3, <2>4
  <2>5. r.at = "write" =>
          /\ name'[r.dst] = r.file
          /\ r.op # "put" => name'[r.src] = r.from /\ r.src # r.dst
          /\ \A i \in 1 .. r.part - 1 :
               data'[r.file][i] = IF r.op = "put" THEN r.content ELSE data'[r.from][i]
    BY <2>2, <2>4
  <2>6. r.at = "go" /\ ~r.override => name'[r.dst] = None BY <2>1, <2>3
  <2> QED BY <1>2, <2>1, <2>5, <2>6 DEF JobHolds
<1> QED BY <1>2, <1>3, <1>4

\* Request j acts on its paths, and goes on with them or ends.
HandlerActs(j) ==
  /\ job[j] # None /\ UNCHANGED <<upload, chunk>>
  /\ \A k \in Handlers \ {j} : job'[k] = job[k]
  /\ \A p \in Paths \ PathsOf(j) :
       name'[p] = name[p] /\ (name[p] # None => data'[name[p]] = data[name[p]])
  /\ \A k \in Handlers \ {j} : job[k] # None =>
       PathsOf(k)' \subseteq PathsOf(k) \cup PathsOf(j) /\ (job[j].alone => PathsOf(k)' \subseteq PathsOf(k))
  /\ job'[j] # None =>
       /\ job'[j].src = job[j].src /\ job'[j].dst = job[j].dst /\ (job'[j].alone <=> job[j].alone)
       /\ PathsOf(j)' \subseteq PathsOf(j)

\* This leaves the uploads and the requests that are alone as they are.
LEMMA JobFrame ==
  ASSUME FilesTypeOK, FilesInv, NEW j \in Handlers, HandlerActs(j)
  PROVE  /\ UploadsHold'
         /\ \A k \in Handlers \ {j} : job'[k] # None =>
              JobSound(k)' /\ (job'[k].alone => JobHolds(k)' /\ Apart(k)')
         /\ job'[j] # None /\ job'[j].alone => Apart(j)'
<1>0. /\ job[j] # None /\ UNCHANGED <<upload, chunk>>
      /\ \A k \in Handlers \ {j} : job'[k] = job[k]
      /\ \A p \in Paths \ PathsOf(j) :
           name'[p] = name[p] /\ (name[p] # None => data'[name[p]] = data[name[p]])
      /\ \A k \in Handlers \ {j} : job[k] # None =>
           PathsOf(k)' \subseteq PathsOf(k) \cup PathsOf(j) /\ (job[j].alone => PathsOf(k)' \subseteq PathsOf(k))
      /\ job'[j] # None =>
           /\ job'[j].src = job[j].src /\ job'[j].dst = job[j].dst /\ (job'[j].alone <=> job[j].alone)
           /\ PathsOf(j)' \subseteq PathsOf(j)
  BY DEF HandlerActs
<1>1. \A u \in Uploads : Active(u)' <=> Active(u) BY <1>0 DEF Active
<1>2. \A k \in Handlers : job'[k] # None => job[k] # None /\ PathsOf(k)' \subseteq PathsOf(k) \cup PathsOf(j)
  BY <1>0
<1>3. ASSUME NEW u \in Uploads, Active(u)
      PROVE  /\ name'[upload[u].path] = name[upload[u].path] /\ data'[Target(u)] = data[Target(u)]
             /\ \A k \in Handlers : job'[k] # None => upload[u].path \notin PathsOf(k)'
  <2>1. upload[u].path \in Paths /\ Target(u) # None BY <1>3, OwnFile
  <2>2. \A k \in Handlers : job[k] # None => upload[u].path \notin PathsOf(k)
    BY <1>3 DEF FilesInv, UploadsHold
  <2> QED BY <1>0, <1>2, <2>1, <2>2 DEF Target
<1>4. UploadsHold' BY <1>0, <1>1, <1>3, UploadsFrame
<1>5. ASSUME NEW k \in Handlers \ {j}, job'[k] # None
      PROVE  JobSound(k)' /\ (job'[k].alone => JobHolds(k)' /\ Apart(k)')
  <2>1. job'[k] = job[k] /\ job[k] # None /\ k \in Handlers BY <1>0, <1>5
  <2>2. job[k].alone => Apart(k) BY <2>1 DEF FilesInv, JobsHold
  <2>3. ASSUME job[k].alone
        PROVE  \A p \in {job[k].src, job[k].dst} :
                 name'[p] = name[p] /\ (name[p] # None => data'[name[p]] = data[name[p]])
    <3>1. \A p \in {job[k].src, job[k].dst} : p \in Paths \ PathsOf(j)
      BY <1>0, <1>5, <2>1, <2>2, <2>3, FilesTyped DEF Apart
    <3> QED BY <1>0, <3>1
  <2>4. JobSound(k)' /\ (job'[k].alone => JobHolds(k)') BY <2>1, <2>3, JobKept
  <2>5. ASSUME job[k].alone PROVE Apart(k)'
    <3>1. job[k].src \notin PathsOf(j) /\ job[k].dst \notin PathsOf(j)
      BY <1>0, <1>5, <2>2, <2>5 DEF Apart
    <3>2. ASSUME NEW i \in Handlers \ {k}, job'[i] # None
          PROVE  job[k].src \notin PathsOf(i)' /\ job[k].dst \notin PathsOf(i)'
      <4>1. job[i] # None /\ PathsOf(i)' \subseteq PathsOf(i) \cup PathsOf(j) BY <1>2, <3>2
      <4>2. job[k].src \notin PathsOf(i) /\ job[k].dst \notin PathsOf(i)
        BY <2>2, <2>5, <3>2, <4>1 DEF Apart
      <4> QED BY <3>1, <4>1, <4>2
    <3> QED BY <2>1, <3>2 DEF Apart
  <2> QED BY <2>1, <2>4, <2>5
<1>6. ASSUME job'[j] # None, job'[j].alone PROVE Apart(j)'
  <2>1. Apart(j) BY <1>0, <1>6 DEF FilesInv, JobsHold
  <2> QED BY <1>0, <1>6, <2>1 DEF Apart
<1> QED BY <1>4, <1>5, <1>6

\* What a request that is alone reads and writes, the others spare.
LEMMA OthersSpare ==
  ASSUME FilesTypeOK, FilesInv, NEW j \in Handlers, job[j] # None, job[j].alone, NEW k \in Handlers \ {j}
  PROVE  Spares(k, job[j].src) /\ Spares(k, job[j].dst)
<1>1. Apart(j) BY DEF FilesInv, JobsHold
<1> QED BY <1>1 DEF Apart, Spares, PathsOf

\* What is whole beside its paths stays so, and what a request that is alone has moved.
LEMMA KeptBeside ==
  ASSUME FilesTypeOK, FilesInv, NEW j \in Handlers, HandlerActs(j), NEW c, NEW p \in Paths,
         \/ Holds(p, c) /\ Spares(j, p) /\ p \notin PathsOf(j)
         \/ job[j].alone /\ Holds(p, c)' /\ Spares(j, p)',
         \A k \in Handlers \ {j} : Spares(k, p)
  PROVE  Safe(c)'
<1>1. Holds(p, c)'
  BY DEF HandlerActs, Holds
<1>2. Spares(j, p)'
  BY DEF HandlerActs, Spares, PathsOf
<1>3. \A k \in Handlers \ {j} : Spares(k, p)'
  BY DEF HandlerActs, Spares
<1> QED BY <1>1, <1>2, <1>3 DEF Safe

\* What was kept stays safe, if a request that is alone keeps it.
LEMMA KeptSafe ==
  ASSUME FilesTypeOK, FilesInv, NEW j \in Handlers, HandlerActs(j), NEW c \in kept,
         ASSUME NEW p \in Paths, job[j].alone, Holds(p, c), Spares(j, p)
         PROVE  \E q \in {p, job[j].dst} : Holds(q, c)' /\ Spares(j, q)'
  PROVE  Safe(c)'
<1>1. PICK p \in Paths : Holds(p, c) /\ \A k \in Handlers : Spares(k, p) BY DEF FilesInv, Safe
<1>2. job[j] # None BY DEF HandlerActs
<1>3. CASE ~job[j].alone
  <2>1. p \notin PathsOf(j) BY <1>1, <1>2, <1>3 DEF Spares
  <2> QED BY <1>1, <2>1, KeptBeside
<1>4. CASE job[j].alone
  <2>1. PICK q \in {p, job[j].dst} : Holds(q, c)' /\ Spares(j, q)' BY <1>1, <1>4
  <2>2. q \in Paths BY <1>2, FilesTyped
  <2>3. \A k \in Handlers \ {j} : Spares(k, q) BY <1>1, <1>2, <1>4, OthersSpare
  <2> QED BY <1>4, <2>1, <2>2, <2>3, KeptBeside
<1> QED BY <1>3, <1>4

\* A request that comes to name its paths, none of which is being uploaded to.
LEMMA TakesInv ==
  ASSUME FilesTypeOK, FilesInv, NEW j \in Handlers, NEW r \in FileJobs, NEW gone, TakesPaths(j, r, gone),
         UNCHANGED <<name, data, upload, chunk>>,
         r.at \in {"check", "go"}, r.part = 1, r.file = None, r.at = "check" => ~r.override,
         r.op = "put" => r.content \in Contents,
         r.op = "delete" => r.at = "go" /\ r.override /\ r.src = r.dst,
         r.alone => /\ r.op \in {"move", "copy"} /\ (r.at = "check" \/ r.override) => r.src # r.dst
                    /\ r.at = "go" /\ ~r.override => name[r.dst] = None,
         \A u \in Uploads : Active(u) => upload[u].path \notin {r.src, r.dst},
         \A c \in kept \ gone : \A p \in Paths : Holds(p, c) /\ Spares(j, p) =>
           /\ r.alone => p # r.dst \/ ~r.override
           /\ ~r.alone => p \notin {r.src, r.dst}
  PROVE  FilesInv'
<1>0. /\ job' \in [Handlers -> {None} \cup FileJobs]
      /\ job'[j] # None /\ SameWork(job'[j], r)
      /\ job'[j].alone <=> r.alone /\ Beside(j, r) = {}
      /\ \A i \in Handlers \ {j} : (job'[i] = None <=> job[i] = None)
      /\ \A i \in Handlers \ {j} : job[i] # None =>
           /\ SameWork(job'[i], job[i])
           /\ job'[i].alone <=> job[i].alone /\ i \notin Beside(j, r)
  BY Taken
<1>1. PathsOf(j)' = {r.src, r.dst}
  BY <1>0 DEF PathsOf, SameWork
<1>2. \A k \in Handlers \ {j} : job[k] # None => PathsOf(k)' = PathsOf(k)
  BY <1>0 DEF PathsOf, SameWork
<1>3. UploadsHold'
  <2>1. \A u \in Uploads : Active(u)' <=> Active(u) BY DEF Active
  <2>2. ASSUME NEW u \in Uploads, Active(u), NEW k \in Handlers, job'[k] # None
        PROVE  upload[u].path \notin PathsOf(k)'
    <3>1. job[k] # None => upload[u].path \notin PathsOf(k) BY <2>2 DEF FilesInv, UploadsHold
    <3> QED BY <1>0, <1>1, <1>2, <2>2, <3>1
  <2> QED BY <2>1, <2>2, UploadsFrame
<1>4. ASSUME NEW k \in Handlers \ {j}, job'[k] # None
      PROVE  JobSound(k)' /\ (job'[k].alone => JobHolds(k)' /\ Apart(k)')
  <2>1. job[k] # None /\ JobSound(k) /\ (job[k].alone => JobHolds(k) /\ Apart(k))
    BY <1>0, <1>4 DEF FilesInv, JobsHold
  <2>2. /\ SameWork(job'[k], job[k]) /\ (job'[k].alone => job[k].alone /\ k \notin Beside(j, r))
    BY <1>0, <2>1
  <2>3. JobSound(k)' BY <2>1, <2>2 DEF JobSound, SameWork
  <2>4. job'[k].alone => JobHolds(k)' BY <2>1, <2>2 DEF JobHolds, SameWork
  <2>5. ASSUME job'[k].alone PROVE Apart(k)'
    <3>1. {r.src, r.dst} \cap PathsOf(k) = {} BY <2>1, <2>2, <2>5 DEF Beside
    <3>2. job[k].src \notin {r.src, r.dst} /\ job[k].dst \notin {r.src, r.dst} BY <3>1 DEF PathsOf
    <3>3. ASSUME NEW i \in Handlers \ {k}, job'[i] # None
          PROVE  job'[k].src \notin PathsOf(i)' /\ job'[k].dst \notin PathsOf(i)'
      <4>1. CASE i = j BY <1>1, <2>2, <3>2, <4>1 DEF SameWork
      <4>2. CASE i # j
        <5>1. job[i] # None /\ PathsOf(i)' = PathsOf(i) BY <1>0, <1>2, <3>3, <4>2
        <5>2. job[k].src \notin PathsOf(i) /\ job[k].dst \notin PathsOf(i)
          BY <2>1, <2>2, <2>5, <3>3, <5>1 DEF Apart
        <5> QED BY <2>2, <5>1, <5>2 DEF SameWork
      <4> QED BY <4>1, <4>2
    <3> QED BY <3>3 DEF Apart
  <2> QED BY <2>3, <2>4, <2>5
<1>5. JobSound(j)' BY <1>0 DEF JobSound, SameWork
<1>6. job'[j].alone => JobHolds(j)' BY <1>0 DEF JobHolds, SameWork
<1>7. ASSUME job'[j].alone PROVE Apart(j)'
  <2>1. \A k \in Handlers \ {j} : job[k] # None => {r.src, r.dst} \cap PathsOf(k) = {}
    BY <1>0, <1>7 DEF Beside
  <2> QED BY <1>0, <1>2, <2>1 DEF Apart, SameWork
<1>8. ASSUME NEW c \in kept' PROVE Safe(c)'
  <2>1. c \in kept /\ c \notin gone /\ c \notin Contested(j, r) /\ c \in Contents \cup Uploads
    BY <1>8 DEF TakesPaths, FilesTypeOK
  <2>2. PICK p \in Paths : Holds(p, c) /\ \A k \in Handlers : Spares(k, p) BY <2>1 DEF FilesInv, Safe
  <2>3. c \in ContentAt(p) BY <2>1, <2>2 DEF ContentAt
  <2>4. Beside(j, r) # {} => p \notin {r.src, r.dst} BY <2>1, <2>3 DEF Contested
  <2>5. \A k \in Beside(j, r) : p \notin PathsOf(k) BY <2>1, <2>3 DEF Contested
  <2>6. Spares(j, p)'
    <3>1. /\ r.alone => p # r.dst \/ ~r.override
          /\ ~r.alone => p \notin {r.src, r.dst}
      BY <2>1, <2>2
    <3>2. job'[j].dst = r.dst /\ job'[j].override = r.override /\ job'[j].at = r.at
      BY <1>0 DEF SameWork
    <3> QED BY <1>0, <1>1, <2>4, <3>1, <3>2 DEF Spares
  <2>7. ASSUME NEW k \in Handlers \ {j} PROVE Spares(k, p)'
    <3>1. Spares(k, p) BY <2>2
    <3>2. CASE job[k] = None BY <1>0, <3>2 DEF Spares
    <3>3. CASE job[k] # None
      <4>1. /\ job'[k].dst = job[k].dst /\ job'[k].override = job[k].override /\ job'[k].at = job[k].at
            /\ job'[k].alone <=> job[k].alone /\ k \notin Beside(j, r)
        BY <1>0, <3>3 DEF SameWork
      <4>2. PathsOf(k)' = PathsOf(k) BY <1>2, <3>3
      <4> QED BY <2>5, <3>1, <3>3, <4>1, <4>2 DEF Spares
    <3> QED BY <3>2, <3>3
  <2>8. Holds(p, c)' BY <2>2 DEF Holds
  <2> QED BY <2>6, <2>7, <2>8 DEF Safe
<1> QED BY <1>3, <1>4, <1>5, <1>6, <1>7, <1>8 DEF FilesInv, JobsHold

LEMMA StartsInv ==
  ASSUME FilesTypeOK, FilesInv, NEW j \in Handlers, PutStarts(j) \/ DeleteStarts(j) \/ MoveStarts(j)
  PROVE  FilesInv'
<1>1. PICK o \in {"put", "delete", "move", "copy"}, s \in Paths, d \in Paths, c \in Contents \cup {None},
           override \in BOOLEAN, gone \in SUBSET (Contents \cup Uploads) :
         /\ Starts(j, o, s, d, c, override, gone) /\ (override => gone = ContentAt(d))
         /\ o = "put" => c \in Contents
         /\ o = "delete" => override /\ s = d
         /\ o \in {"move", "copy"} => s # d
  BY Started
<1> DEFINE r == [op |-> o, src |-> s, dst |-> d, content |-> c, override |-> override,
                 at |-> IF override THEN "go" ELSE "check", part |-> 1,
                 from |-> None, file |-> None, alone |-> TRUE]
<1>2. /\ r \in FileJobs /\ r.op = o /\ r.src = s /\ r.dst = d /\ r.content = c /\ r.override = override
      /\ (override => r.at = "go") /\ (~override => r.at = "check")
      /\ r.part = 1 /\ r.from = None /\ r.file = None /\ r.alone
  <2>1. 1 \in 1 .. Size + 1 BY FilesAssumption
  <2> QED BY <2>1 DEF FileJobs
<1>3. TakesPaths(j, r, gone) /\ UNCHANGED <<name, data, upload, chunk>> /\ {s, d} \cap Uploading = {}
  BY <1>1 DEF Starts
<1> HIDE DEF r
<1>4. \A u \in Uploads : Active(u) => upload[u].path \notin {r.src, r.dst}
  BY <1>2, <1>3 DEF Active, Uploading
<1>5. ASSUME NEW e \in kept \ gone, NEW p \in Paths, Holds(p, e) PROVE p # r.dst \/ ~r.override
  <2>1. e \in Contents \cup Uploads BY <1>5 DEF FilesTypeOK
  <2> QED BY <1>1, <1>2, <1>5, <2>1 DEF ContentAt
<1> QED BY <1>1, <1>2, <1>3, <1>4, <1>5, TakesInv

\* A request that works on keeps the invariant, if it is sound itself and keeps what is kept.
LEMMA WorksInv ==
  ASSUME FilesTypeOK, FilesInv, NEW j \in Handlers, HandlerActs(j),
         job'[j] # None => JobSound(j)' /\ (job'[j].alone => JobHolds(j)'),
         \A c \in kept' : Safe(c)'
  PROVE  FilesInv'
<1>1. /\ UploadsHold'
      /\ \A k \in Handlers \ {j} : job'[k] # None =>
           JobSound(k)' /\ (job'[k].alone => JobHolds(k)' /\ Apart(k)')
      /\ job'[j] # None /\ job'[j].alone => Apart(j)'
  BY JobFrame
<1> QED BY <1>1 DEF FilesInv, JobsHold

LEMMA ChecksInv ==
  ASSUME FilesTypeOK, FilesInv, NEW j \in Handlers, Checks(j)
  PROVE  FilesInv'
<1>1. /\ job[j] # None /\ job[j] \in FileJobs /\ job[j].at = "check" /\ UNCHANGED <<name, data, upload, chunk>>
  BY FilesTyped DEF Checks, JobEnds, JobGoesOn
<1>2. JobSound(j) /\ (job[j].alone => JobHolds(j)) /\ ~job[j].override /\ job[j].file = None /\ job[j].part = 1
  BY <1>1 DEF FilesInv, JobsHold, JobSound
<1>3. CASE job' = [job EXCEPT ![j] = None] /\ UNCHANGED kept
  <2>1. job'[j] = None /\ \A k \in Handlers \ {j} : job'[k] = job[k] BY <1>3 DEF FilesTypeOK
  <2>2. HandlerActs(j) BY <1>1, <2>1 DEF HandlerActs, PathsOf
  <2>3. \A c \in kept' : Safe(c)'
    <3>1. ASSUME NEW c \in kept PROVE Safe(c)'
      <4>1. ASSUME NEW p \in Paths, Holds(p, c) PROVE Holds(p, c)' /\ Spares(j, p)'
        BY <1>1, <2>1, <4>1 DEF Holds, Spares
      <4> QED BY <2>2, <3>1, <4>1, KeptSafe
    <3> QED BY <1>3, <3>1
  <2> QED BY <2>1, <2>2, <2>3, WorksInv
<1>4. CASE name[job[j].dst] = None /\ job' = [job EXCEPT ![j] = [job[j] EXCEPT !.at = "go"]] /\ UNCHANGED kept
  <2>1. \A k \in Handlers \ {j} : job'[k] = job[k] BY <1>4 DEF FilesTypeOK
  <2>2. /\ job'[j] # None /\ job'[j].op = job[j].op /\ job'[j].src = job[j].src /\ job'[j].dst = job[j].dst
        /\ job'[j].content = job[j].content /\ job'[j].override = job[j].override /\ job'[j].at = "go"
        /\ job'[j].part = 1 /\ job'[j].file = None /\ job'[j].alone = job[j].alone
    <3> DEFINE r == [job[j] EXCEPT !.at = "go"]
    <3>1. /\ r \in FileJobs /\ r.op = job[j].op /\ r.src = job[j].src /\ r.dst = job[j].dst
          /\ r.content = job[j].content /\ r.override = job[j].override /\ r.at = "go"
          /\ r.part = job[j].part /\ r.file = job[j].file /\ r.alone = job[j].alone
      BY <1>1 DEF FileJobs
    <3>2. job' = [job EXCEPT ![j] = r] BY <1>4
    <3> HIDE DEF r
    <3>3. job'[j] = r BY <3>1, <3>2, GoesOn
    <3> QED BY <1>2, <3>1, <3>3, FilesAssumption
  <2>3. HandlerActs(j) BY <1>1, <1>2, <2>1, <2>2 DEF HandlerActs, PathsOf
  <2>4. JobSound(j)' /\ (job'[j].alone => JobHolds(j)')
    <3>1. JobSound(j)' BY <1>1, <1>2, <2>2 DEF JobSound
    <3>2. job[j].alone => JobHolds(j)' BY <1>1, <1>2, <1>4, <2>2 DEF JobHolds
    <3> QED BY <2>2, <3>1, <3>2
  <2>5. \A c \in kept' : Safe(c)'
    <3>1. ASSUME NEW c \in kept PROVE Safe(c)'
      <4>1. ASSUME NEW p \in Paths, job[j].alone, Holds(p, c) PROVE Holds(p, c)' /\ Spares(j, p)'
        BY <1>1, <1>2, <2>2, <4>1 DEF Holds, Spares
      <4> QED BY <2>3, <3>1, <4>1, KeptSafe
    <3> QED BY <1>4, <3>1
  <2> QED BY <2>3, <2>4, <2>5, WorksInv
<1>5. ASSUME NEW p \in Paths, job[j].op # "put", name[p] = None,
             TakesPaths(j, [job[j] EXCEPT !.at = "go", !.dst = p], {})
      PROVE  FilesInv'
  <2>1. PICK r \in FileJobs : r = [job[j] EXCEPT !.at = "go", !.dst = p] BY <1>1, <1>5 DEF FileJobs
  <2>2. /\ r.op = job[j].op /\ r.src = job[j].src /\ r.dst = p /\ r.override = job[j].override /\ r.at = "go"
        /\ r.part = 1 /\ r.file = None /\ (r.alone <=> job[j].alone)
    BY <1>1, <1>2, <2>1 DEF FileJobs
  <2>3. r.op \notin {"put", "delete"} BY <1>1, <1>5, <2>2, <1>2 DEF JobSound
  <2>4. \A u \in Uploads : Active(u) => upload[u].path \notin {r.src, r.dst}
    <3> SUFFICES ASSUME NEW u \in Uploads, Active(u) PROVE upload[u].path \notin {r.src, r.dst}
      OBVIOUS
    <3>1. upload[u].path # p BY <1>5, OwnFile DEF Target
    <3>2. upload[u].path \notin PathsOf(j) BY <1>1 DEF FilesInv, UploadsHold
    <3> QED BY <2>2, <3>1, <3>2 DEF PathsOf
  <2>5. ASSUME NEW c \in kept, NEW q \in Paths, Holds(q, c), Spares(j, q)
        PROVE  (r.alone => q # r.dst \/ ~r.override) /\ (~r.alone => q \notin {r.src, r.dst})
    <3>1. q # p BY <1>5, <2>5 DEF Holds
    <3>2. ~job[j].alone => q # job[j].src BY <1>1, <2>5 DEF Spares, PathsOf
    <3> QED BY <2>2, <3>1, <3>2
  <2> QED BY <1>1, <1>2, <1>5, <2>1, <2>2, <2>3, <2>4, <2>5, TakesInv
<1> QED BY <1>3, <1>4, <1>5 DEF Checks, JobEnds, JobGoesOn

\* A request that ends, having at most removed what is at one of its paths.
LEMMA EndsInv ==
  ASSUME FilesTypeOK, FilesInv, NEW j \in Handlers, job[j] # None, UNCHANGED <<data, kept, upload, chunk>>,
         job' = [job EXCEPT ![j] = None],
         name' = name \/ (name' = [name EXCEPT ![job[j].dst] = None] /\ job[j].at # "check" /\ job[j].override)
  PROVE  FilesInv'
<1>1. job'[j] = None /\ \A k \in Handlers \ {j} : job'[k] = job[k] BY DEF FilesTypeOK
<1>2. job[j].dst \in Paths BY FilesTyped
<1>3. \A p \in Paths : name'[p] = name[p] \/ (p = job[j].dst /\ name'[p] = None)
  BY <1>2 DEF FilesTypeOK
<1>4. \A k \in Handlers \ {j} : PathsOf(k)' \subseteq PathsOf(k) BY <1>1, <1>3 DEF PathsOf
<1>5. HandlerActs(j) BY <1>1, <1>3, <1>4 DEF HandlerActs, PathsOf
<1>6. ASSUME NEW c \in kept, NEW p \in Paths, job[j].alone, Holds(p, c), Spares(j, p)
      PROVE  Holds(p, c)' /\ Spares(j, p)'
  <2>1. name'[p] = name[p]
    BY <1>3, <1>6 DEF Spares
  <2> QED BY <1>1, <1>6, <2>1 DEF Holds, Spares
<1>7. \A c \in kept' : Safe(c)'
  <2> SUFFICES ASSUME NEW c \in kept PROVE Safe(c)'
    OBVIOUS
  <2> QED BY <1>5, <1>6, KeptSafe
<1> QED BY <1>1, <1>5, <1>7, WorksInv

LEMMA RenamesInv ==
  ASSUME FilesTypeOK, FilesInv, NEW j \in Handlers, Renames(j)
  PROVE  FilesInv'
<1>1. /\ job[j] # None /\ job[j].op = "move" /\ job[j].at = "go" /\ name[job[j].src] # None
      /\ name' = [name EXCEPT ![job[j].src] = None, ![job[j].dst] = name[job[j].src]]
      /\ job' = [job EXCEPT ![j] = None] /\ UNCHANGED <<data, kept, upload, chunk>>
  BY DEF Renames, JobIs, JobEnds
<1>2. job'[j] = None /\ \A k \in Handlers \ {j} : job'[k] = job[k] BY <1>1 DEF FilesTypeOK
<1>3. PICK s \in Paths, d \in Paths : s = job[j].src /\ d = job[j].dst BY <1>1, FilesTyped
<1>4. /\ name'[d] = name[s] /\ \A p \in Paths \ {s, d} : name'[p] = name[p]
      /\ s # d => name'[s] = None
  BY <1>1, <1>3 DEF FilesTypeOK
<1>5. s \in PathsOf(j) /\ d \in PathsOf(j) BY <1>3 DEF PathsOf
<1>6. ASSUME NEW k \in Handlers \ {j}, job[k] # None
      PROVE  PathsOf(k)' \subseteq PathsOf(k) \cup PathsOf(j) /\ (job[j].alone => PathsOf(k)' \subseteq PathsOf(k))
  <2>1. \A p \in Paths : name'[p] = job[k].file /\ job[k].file # None => p = d \/ name[p] = job[k].file
    BY <1>4
  <2>2. PathsOf(k)' \subseteq PathsOf(k) \cup {d} BY <1>2, <2>1 DEF PathsOf
  <2>3. ASSUME job[j].alone, name'[d] = job[k].file, job[k].file # None PROVE FALSE
    <3>1. s \in PathsOf(k) BY <1>4, <2>3 DEF PathsOf
    <3>2. Apart(j) BY <1>1, <2>3 DEF FilesInv, JobsHold
    <3> QED BY <1>3, <1>6, <3>1, <3>2 DEF Apart
  <2>4. job[j].alone => PathsOf(k)' \subseteq PathsOf(k)
    BY <1>2, <2>1, <2>3 DEF PathsOf
  <2> QED BY <1>5, <2>2, <2>4
<1>7. \A p \in Paths \ PathsOf(j) : name'[p] = name[p] BY <1>4, <1>5
<1>8. HandlerActs(j) BY <1>1, <1>2, <1>6, <1>7 DEF HandlerActs
<1>9. ASSUME NEW c \in kept, NEW p \in Paths, job[j].alone, Holds(p, c), Spares(j, p)
      PROVE  \E q \in {p, d} : Holds(q, c)' /\ Spares(j, q)'
  <2>1. JobHolds(j) /\ (job[j].override \/ name[d] = None)
    BY <1>1, <1>3, <1>9 DEF FilesInv, JobsHold, JobHolds
  <2>2. p # d BY <1>1, <1>3, <1>9, <2>1 DEF Spares, Holds
  <2>3. CASE p = s
    BY <1>1, <1>2, <1>4, <1>9, <2>3 DEF Holds, Spares
  <2>4. CASE p # s
    BY <1>1, <1>2, <1>4, <1>9, <2>2, <2>4 DEF Holds, Spares
  <2> QED BY <2>3, <2>4
<1>10. \A c \in kept' : Safe(c)'
  <2> SUFFICES ASSUME NEW c \in kept PROVE Safe(c)'
    BY <1>1
  <2> QED BY <1>3, <1>8, <1>9, KeptSafe
<1> QED BY <1>2, <1>8, <1>10, WorksInv

LEMMA DestinationOpensInv ==
  ASSUME FilesTypeOK, FilesInv, NEW j \in Handlers, DestinationOpens(j)
  PROVE  FilesInv'
<1>1. /\ job[j] # None /\ job[j] \in FileJobs /\ job[j].op # "delete" /\ job[j].at = "go"
      /\ job[j].op = "put" \/ name[job[j].src] # None
      /\ Creates(job[j].dst) /\ UNCHANGED <<kept, upload, chunk>>
  BY FilesTyped DEF DestinationOpens, JobGoesOn
<1>2. PICK s \in Paths, d \in Paths : s = job[j].src /\ d = job[j].dst BY <1>1, FilesTyped
<1>3. PICK g \in Files \cup {None} : g = IF job[j].op = "put" THEN None ELSE name[s]
  BY FilesTypeOK DEF FilesTypeOK
<1>4. PICK f : f = Opened(d) OBVIOUS
<1>5. /\ f \in Files /\ f # None /\ name'[d] = f
      /\ \A q \in Paths \ {d} : name'[q] = name[q] /\ name[q] # f
      /\ \A q \in Paths \ {d} : name[q] # None => data'[name[q]] = data[name[q]]
  BY <1>1, <1>2, <1>4, CreatedAlone, FilesAssumption
<1>6. /\ job'[j] # None /\ job'[j].op = job[j].op /\ job'[j].src = s /\ job'[j].dst = d
      /\ job'[j].content = job[j].content /\ job'[j].override = job[j].override /\ job'[j].at = "write"
      /\ job'[j].part = job[j].part /\ job'[j].file = f /\ job'[j].from = g /\ job'[j].alone = job[j].alone
      /\ \A k \in Handlers \ {j} : job'[k] = job[k]
  <2> DEFINE r == [job[j] EXCEPT !.at = "write", !.file = f, !.from = g]
  <2>1. /\ r \in FileJobs /\ r.op = job[j].op /\ r.src = s /\ r.dst = d
        /\ r.content = job[j].content /\ r.override = job[j].override /\ r.at = "write"
        /\ r.part = job[j].part /\ r.file = f /\ r.from = g /\ r.alone = job[j].alone
    BY <1>1, <1>2, <1>5 DEF FileJobs
  <2>2. job' = [job EXCEPT ![j] = r] BY <1>2, <1>3, <1>4 DEF DestinationOpens, JobGoesOn
  <2> HIDE DEF r
  <2>3. job'[j] = r /\ \A k \in Handlers \ {j} : job'[k] = job[k] BY <2>1, <2>2, GoesOn
  <2> QED BY <2>1, <2>3, FilesAssumption
<1>7. JobSound(j) /\ job[j].part = 1 /\ job[j].file = None BY <1>1 DEF FilesInv, JobsHold, JobSound
<1>8. HandlerActs(j)
  <2>1. \A k \in Handlers \ {j} : job[k] # None => PathsOf(k)' \subseteq PathsOf(k)
    BY <1>1, <1>2, <1>6, CreatedElsewhere
  <2>2. PathsOf(j)' \subseteq PathsOf(j)
    BY <1>2, <1>5, <1>6 DEF PathsOf
  <2>3. d \in PathsOf(j) BY <1>2 DEF PathsOf
  <2>4. \A p \in Paths \ PathsOf(j) : name'[p] = name[p] /\ (name[p] # None => data'[name[p]] = data[name[p]])
    BY <1>5, <2>3
  <2> QED BY <1>1, <1>2, <1>6, <2>1, <2>2, <2>4 DEF HandlerActs
<1>9. JobSound(j)'
  <2>1. job[j].op # "put" => g # None BY <1>1, <1>2, <1>3
  <2> QED BY <1>1, <1>5, <1>6, <1>7, <2>1 DEF JobSound
<1>10. ASSUME job[j].alone
       PROVE  /\ job[j].op \in {"move", "copy"} => s # d
              /\ ~job[j].override => name[d] = None
  BY <1>1, <1>2, <1>10 DEF FilesInv, JobsHold, JobHolds
<1>11. job'[j].alone => JobHolds(j)'
  <2> SUFFICES ASSUME job[j].alone PROVE JobHolds(j)'
    BY <1>6
  <2>1. job[j].op # "put" => s # d /\ name'[s] = g
    <3>1. job[j].op # "put" => s # d BY <1>1, <1>10 DEF FileJobs
    <3> QED BY <1>2, <1>3, <1>5, <3>1
  <2>2. 1 .. job'[j].part - 1 = {} BY <1>6, <1>7
  <2>3. job'[j].op \in {"move", "copy"} => job'[j].src # job'[j].dst BY <1>6, <1>10
  <2> QED BY <1>5, <1>6, <2>1, <2>2, <2>3 DEF JobHolds
<1>12. ASSUME NEW c \in kept, NEW p \in Paths, job[j].alone, Holds(p, c), Spares(j, p)
       PROVE  Holds(p, c)' /\ Spares(j, p)'
  <2>1. p # d BY <1>1, <1>2, <1>10, <1>12 DEF Spares, Holds
  <2> QED BY <1>5, <1>6, <1>12, <2>1 DEF Holds, Spares
<1>13. \A c \in kept' : Safe(c)'
  <2> SUFFICES ASSUME NEW c \in kept PROVE Safe(c)'
    BY <1>1
  <2> QED BY <1>8, <1>12, KeptSafe
<1> QED BY <1>8, <1>9, <1>11, <1>13, WorksInv

LEMMA CopiesPartInv ==
  ASSUME FilesTypeOK, FilesInv, NEW j \in Handlers, CopiesPart(j)
  PROVE  FilesInv'
<1>1. /\ job[j] # None /\ job[j] \in FileJobs /\ job[j].at = "write" /\ job[j].part \in Pieces
      /\ UNCHANGED <<name, kept, upload, chunk>> /\ JobSound(j)
  BY FilesTyped DEF CopiesPart, JobGoesOn, FilesInv, JobsHold, Pieces
<1>2. PICK s \in Paths, d \in Paths, i \in Pieces : s = job[j].src /\ d = job[j].dst /\ i = job[j].part
  BY <1>1, FilesTyped
<1>3. PICK f \in Files : f = job[j].file BY <1>1, FilesTyped DEF JobSound
<1>4. PICK g : g = job[j].from OBVIOUS
<1>5. PICK x : x = IF job[j].op = "put" THEN job[j].content ELSE data[g][i] OBVIOUS
<1>6. data' = [data EXCEPT ![f] = [data[f] EXCEPT ![i] = x]]
  BY <1>2, <1>3, <1>4, <1>5 DEF CopiesPart
<1>7. /\ \A h \in Files \ {f} : data'[h] = data[h]
      /\ \A h \in Pieces : data'[f][h] = IF h = i THEN x ELSE data[f][h]
  BY <1>6 DEF FilesTypeOK
<1>8. /\ job'[j] # None /\ job'[j].op = job[j].op /\ job'[j].src = s /\ job'[j].dst = d
      /\ job'[j].content = job[j].content /\ job'[j].override = job[j].override /\ job'[j].at = "write"
      /\ job'[j].part = i + 1 /\ job'[j].file = f /\ job'[j].from = g /\ job'[j].alone = job[j].alone
      /\ \A k \in Handlers \ {j} : job'[k] = job[k]
  <2> DEFINE r == [job[j] EXCEPT !.part = i + 1]
  <2>0. i + 1 \in 1 .. Size + 1 BY FilesAssumption DEF Pieces
  <2>1. /\ r \in FileJobs /\ r.op = job[j].op /\ r.src = s /\ r.dst = d
        /\ r.content = job[j].content /\ r.override = job[j].override /\ r.at = "write"
        /\ r.part = i + 1 /\ r.file = f /\ r.from = g /\ r.alone = job[j].alone
    BY <1>1, <1>2, <1>3, <1>4, <2>0 DEF FileJobs
  <2>2. job' = [job EXCEPT ![j] = r] BY <1>2 DEF CopiesPart, JobGoesOn
  <2> HIDE DEF r
  <2>3. job'[j] = r /\ \A k \in Handlers \ {j} : job'[k] = job[k] BY <2>1, <2>2, GoesOn
  <2> QED BY <2>1, <2>3, FilesAssumption
<1>9. HandlerActs(j)
  <2>1. \A k \in Handlers \ {j} : PathsOf(k)' = PathsOf(k) BY <1>1, <1>8 DEF PathsOf
  <2>2. PathsOf(j)' = PathsOf(j) BY <1>1, <1>2, <1>3, <1>8 DEF PathsOf
  <2>3. ASSUME NEW p \in Paths \ PathsOf(j), name[p] # None PROVE data'[name[p]] = data[name[p]]
    <3>1. name[p] # f BY <1>3, <2>3, FilesAssumption DEF PathsOf
    <3>2. name[p] \in Files BY <2>3 DEF FilesTypeOK
    <3> QED BY <1>7, <3>1, <3>2
  <2> QED BY <1>1, <1>2, <1>8, <2>1, <2>2, <2>3 DEF HandlerActs
<1>10. JobSound(j)' BY <1>1, <1>3, <1>4, <1>8, FilesAssumption DEF JobSound
<1>11. ASSUME job[j].alone
       PROVE  /\ name[d] = f
              /\ job[j].op # "put" => name[s] = g /\ s # d /\ g # f /\ g \in Files
              /\ job[j].op \in {"move", "copy"} /\ job[j].override => s # d
              /\ \A h \in 1 .. i - 1 : data[f][h] = IF job[j].op = "put" THEN job[j].content ELSE data[g][h]
  <2>1. JobHolds(j) BY <1>1, <1>11 DEF FilesInv, JobsHold
  <2>2. /\ name[d] = f /\ (job[j].op # "put" => name[s] = g /\ s # d)
        /\ job[j].op \in {"move", "copy"} /\ job[j].override => s # d
        /\ \A h \in 1 .. i - 1 : data[f][h] = IF job[j].op = "put" THEN job[j].content ELSE data[g][h]
    BY <1>1, <1>2, <1>3, <1>4, <2>1 DEF JobHolds
  <2>3. job[j].op # "put" => g # None BY <1>1, <1>4 DEF JobSound
  <2>4. job[j].op # "put" => g # f /\ g \in Files BY <2>2, <2>3 DEF FilesTypeOK
  <2> QED BY <2>2, <2>4
<1>12. ASSUME job[j].alone PROVE JobHolds(j)'
  <2>1. ASSUME NEW h \in 1 .. i
        PROVE  data'[f][h] = IF job[j].op = "put" THEN job[j].content ELSE data'[g][h]
    <3>1. h \in Pieces /\ (h # i => h \in 1 .. i - 1) BY <2>1, FilesAssumption DEF Pieces
    <3>2. job[j].op # "put" => data'[g] = data[g] BY <1>7, <1>11, <1>12
    <3>3. CASE h = i BY <1>5, <1>7, <3>1, <3>2, <3>3
    <3>4. CASE h # i BY <1>7, <1>11, <1>12, <3>1, <3>2, <3>4
    <3> QED BY <3>3, <3>4
  <2>2. 1 .. job'[j].part - 1 = 1 .. i BY <1>8 DEF Pieces
  <2>3. name'[d] = f /\ (job[j].op # "put" => name'[s] = g /\ s # d) BY <1>1, <1>11, <1>12
  <2>4. job[j].op \in {"move", "copy"} /\ job[j].override => s # d BY <1>11, <1>12
  <2>5. \A h \in 1 .. job'[j].part - 1 :
          data'[f][h] = IF job[j].op = "put" THEN job[j].content ELSE data'[g][h]
    BY <2>1, <2>2
  <2> QED BY <1>8, <2>3, <2>4, <2>5 DEF JobHolds
<1>13. ASSUME NEW c \in kept, NEW p \in Paths, job[j].alone, Holds(p, c), Spares(j, p)
       PROVE  Holds(p, c)' /\ Spares(j, p)'
  <2>1. p # d BY <1>1, <1>2, <1>13 DEF Spares
  <2>2. name[p] \in Files \ {f} BY <1>11, <1>13, <2>1 DEF Holds, FilesTypeOK
  <2> QED BY <1>1, <1>7, <1>8, <1>13, <2>1, <2>2 DEF Holds, Spares
<1>14. \A c \in kept' : Safe(c)'
  <2> SUFFICES ASSUME NEW c \in kept PROVE Safe(c)'
    BY <1>1
  <2> QED BY <1>9, <1>13, KeptSafe
<1> QED BY <1>8, <1>9, <1>10, <1>12, <1>14, WorksInv

LEMMA CopyEndsInv ==
  ASSUME FilesTypeOK, FilesInv, NEW j \in Handlers, CopyEnds(j)
  PROVE  FilesInv'
<1>1. /\ job[j] # None /\ job[j].at = "write" /\ CopyEnded(job[j]) /\ job' = [job EXCEPT ![j] = None]
      /\ name' = SourceRemoved(j) /\ UNCHANGED <<data, upload, chunk>> /\ JobSound(j)
  BY DEF CopyEnds, JobEnds, FilesInv, JobsHold
<1>2. PICK s \in Paths, d \in Paths : s = job[j].src /\ d = job[j].dst BY <1>1, FilesTyped
<1>3. job'[j] = None /\ \A k \in Handlers \ {j} : job'[k] = job[k] BY <1>1 DEF FilesTypeOK
<1>4. \A p \in Paths : name'[p] = name[p] \/ (p = s /\ job[j].op = "move" /\ name'[p] = None)
  BY <1>1, <1>2 DEF SourceRemoved, FilesTypeOK
<1>5. \A k \in Handlers \ {j} : PathsOf(k)' \subseteq PathsOf(k) BY <1>3, <1>4 DEF PathsOf
<1>6. HandlerActs(j) BY <1>1, <1>2, <1>3, <1>4, <1>5 DEF HandlerActs, PathsOf
<1>7. ASSUME job[j].alone, job[j].part > Size
      PROVE  /\ name[d] \in Files /\ name[d] # None
             /\ job[j].op = "put" => data[name[d]] = Whole(job[j].content)
             /\ job[j].op # "put" => s # d /\ name[s] \in Files /\ data[name[d]] = data[name[s]]
  <2>1. job[j].part = Size + 1 BY <1>1, <1>7, FilesTyped, FilesAssumption
  <2>2. JobHolds(j) BY <1>1, <1>7 DEF FilesInv, JobsHold
  <2>3. PICK f, g : f = job[j].file /\ g = job[j].from OBVIOUS
  <2>4. /\ f # None /\ name[d] = f /\ (job[j].op # "put" => g # None /\ name[s] = g /\ s # d)
        /\ \A i \in Pieces : data[f][i] = IF job[j].op = "put" THEN job[j].content ELSE data[g][i]
    BY <1>1, <1>2, <2>1, <2>2, <2>3, FilesAssumption DEF JobHolds, JobSound, Pieces
  <2>5. f \in Files /\ (job[j].op # "put" => g \in Files) BY <2>4 DEF FilesTypeOK
  <2>6. data[f] \in [Pieces -> Contents \cup Uploads \cup {None}]
        /\ (job[j].op # "put" => data[g] \in [Pieces -> Contents \cup Uploads \cup {None}])
    BY <2>5 DEF FilesTypeOK
  <2>7. job[j].op = "put" => data[f] = Whole(job[j].content) BY <2>4, <2>6 DEF Whole
  <2>8. job[j].op # "put" => data[f] = data[g] BY <2>4, <2>6
  <2> QED BY <2>4, <2>5, <2>7, <2>8
<1>8. ASSUME NEW c \in kept, NEW p \in Paths, job[j].alone, Holds(p, c), Spares(j, p)
      PROVE  \E q \in {p, d} : Holds(q, c)' /\ Spares(j, q)'
  <2>1. CASE p = s /\ job[j].op = "move"
    <3>1. job[j].part > Size BY <1>1, <2>1 DEF CopyEnded
    <3>2. name'[d] = name[d] /\ data[name[d]] = data[name[s]] /\ name[d] # None BY <1>4, <1>7, <1>8, <2>1, <3>1
    <3> QED BY <1>1, <1>3, <1>8, <2>1, <3>2 DEF Holds, Spares
  <2>2. CASE ~(p = s /\ job[j].op = "move")
    <3>1. name'[p] = name[p] BY <1>4, <2>2
    <3> QED BY <1>1, <1>3, <1>8, <3>1 DEF Holds, Spares
  <2> QED BY <2>1, <2>2
<1>9. ASSUME NEW c \in kept' PROVE Safe(c)'
  <2>1. CASE c \in kept BY <1>2, <1>6, <1>8, <2>1, KeptSafe
  <2>2. CASE c \notin kept
    <3>1. job[j].op = "put" /\ job[j].part > Size /\ job[j].alone /\ c = job[j].content
      BY <1>9, <2>2 DEF CopyEnds
    <3>2. name'[d] = name[d] BY <1>4, <3>1
    <3>3. Holds(d, c)' BY <1>1, <1>7, <3>1, <3>2 DEF Holds
    <3>4. Spares(j, d)' BY <1>3 DEF Spares
    <3>5. \A k \in Handlers \ {j} : Spares(k, d) BY <1>1, <1>2, <3>1, OthersSpare
    <3> QED BY <1>6, <3>1, <3>3, <3>4, <3>5, KeptBeside
  <2> QED BY <2>1, <2>2
<1> QED BY <1>3, <1>6, <1>9, WorksInv

\* What happens elsewhere leaves the requests on whole files as they are.
LEMMA JobsElsewhere ==
  ASSUME FilesTypeOK, FilesInv, UNCHANGED job,
         \A j \in Handlers : job[j] # None =>
           /\ PathsOf(j)' \subseteq PathsOf(j)
           /\ \A p \in PathsOf(j) : name'[p] = name[p] /\ (name[p] # None => data'[name[p]] = data[name[p]])
  PROVE  JobsHold' /\ \A j \in Handlers : \A p \in Paths : Spares(j, p) => Spares(j, p)'
<1>1. ASSUME NEW j \in Handlers, job'[j] # None
      PROVE  JobSound(j)' /\ (job'[j].alone => JobHolds(j)' /\ Apart(j)')
  <2>1. job[j] # None /\ job'[j] = job[j] /\ (job[j].alone => Apart(j))
    BY <1>1 DEF FilesInv, JobsHold
  <2>2. \A p \in {job[j].src, job[j].dst} : name'[p] = name[p] /\ (name[p] # None => data'[name[p]] = data[name[p]])
    BY <2>1 DEF PathsOf
  <2>3. JobSound(j)' /\ (job'[j].alone => JobHolds(j)') BY <2>1, <2>2, JobKept
  <2>4. job[j].alone => Apart(j)' BY <2>1 DEF Apart
  <2> QED BY <2>1, <2>3, <2>4
<1>2. \A j \in Handlers : \A p \in Paths : Spares(j, p) => Spares(j, p)' BY DEF Spares
<1> QED BY <1>1, <1>2 DEF JobsHold

LEMMA JobsUntouched ==
  ASSUME FilesTypeOK, FilesInv, UNCHANGED <<name, data, job>>
  PROVE  /\ JobsHold' /\ \A j \in Handlers : job'[j] # None => job[j] # None /\ PathsOf(j)' = PathsOf(j)
         /\ \A c \in kept : Safe(c)'
<1>1. \A j \in Handlers : PathsOf(j)' = PathsOf(j) BY DEF PathsOf
<1>2. JobsHold' /\ \A j \in Handlers : \A p \in Paths : Spares(j, p) => Spares(j, p)' BY <1>1, JobsElsewhere
<1>3. \A p \in Paths : \A c : Holds(p, c) => Holds(p, c)' BY DEF Holds
<1>4. \A c \in kept : \E p \in Paths : Holds(p, c) /\ \A j \in Handlers : Spares(j, p) BY DEF FilesInv, Safe
<1>5. \A c \in kept : \E p \in Paths : Holds(p, c)' /\ \A j \in Handlers : Spares(j, p)' BY <1>2, <1>3, <1>4
<1> QED BY <1>1, <1>2, <1>5 DEF Safe

LEMMA FilesInvStep ==
  ASSUME FilesTypeOK, FilesInv, [FilesNext]_filesVars
  PROVE  FilesInv'
<1> USE FilesAssumption
<1> DEFINE Keeps == \A c \in kept' : Safe(c)'
<1>0. \A c \in kept : \E p \in Paths : Holds(p, c) /\ \A j \in Handlers : Spares(j, p) BY DEF FilesInv, Safe
<1>1. ASSUME NEW j \in Handlers, PutStarts(j) \/ DeleteStarts(j) \/ MoveStarts(j) PROVE FilesInv'
  BY <1>1, StartsInv
<1>2. ASSUME NEW j \in Handlers, Checks(j) PROVE FilesInv'
  BY <1>2, ChecksInv
<1>3. ASSUME NEW j \in Handlers, Deletes(j) PROVE FilesInv'
  <2>1. /\ job[j] # None /\ job[j].op = "delete" /\ job' = [job EXCEPT ![j] = None]
        /\ name' = [name EXCEPT ![job[j].src] = None] /\ UNCHANGED <<data, kept, upload, chunk>>
    BY <1>3 DEF Deletes, JobIs, JobEnds
  <2>2. job[j].src = job[j].dst /\ job[j].at # "check" /\ job[j].override
    BY <2>1 DEF FilesInv, JobsHold, JobSound
  <2> QED BY <2>1, <2>2, EndsInv
<1>4. ASSUME NEW j \in Handlers, Renames(j) PROVE FilesInv'
  BY <1>4, RenamesInv
<1>5. ASSUME NEW j \in Handlers, DestinationOpens(j) PROVE FilesInv'
  BY <1>5, DestinationOpensInv
<1>6. ASSUME NEW j \in Handlers, NoSource(j) \/ JobBreaks(j) PROVE FilesInv'
  <2>1. job[j] # None /\ job' = [job EXCEPT ![j] = None] /\ UNCHANGED <<name, data, kept, upload, chunk>>
    BY <1>6 DEF NoSource, JobBreaks, JobEnds
  <2> QED BY <2>1, EndsInv
<1>7. ASSUME NEW j \in Handlers, CopiesPart(j) PROVE FilesInv'
  BY <1>7, CopiesPartInv
<1>8. ASSUME NEW j \in Handlers, CopyEnds(j) PROVE FilesInv'
  BY <1>8, CopyEndsInv
<1>11. CASE FilesRestarts
  <2>1. /\ (\A j \in Handlers : job'[j] = None) /\ UNCHANGED <<name, data, kept>> /\ \A k \in Chunks : chunk'[k] = None
        /\ \A u \in Uploads : upload'[u] = IF upload[u] = None THEN None ELSE [upload[u] EXCEPT !.open = FALSE]
    BY <1>11 DEF FilesRestarts
  <2>2. \A u \in Uploads : ~Active(u)'
    <3>1. \A u \in Uploads : upload'[u] # None => ~upload'[u].open
      BY <2>1, FilesTyped DEF UploadStates
    <3> QED BY <2>1, <3>1 DEF Active
  <2>3. UploadsHold' BY <2>1, <2>2 DEF UploadsHold
  <2>4. Keeps BY <1>0, <2>1 DEF Holds, Spares, Safe
  <2> QED BY <2>1, <2>3, <2>4 DEF FilesInv, JobsHold
<1>12. ASSUME NEW u \in Uploads, UploadStarts(u) PROVE FilesInv'
  <2>1. PICK p \in Paths :
          /\ upload[u] = None /\ p \notin Uploading /\ \A j \in Handlers : job[j] # None => p \notin PathsOf(j)
          /\ Creates(p) /\ kept' = kept \ ContentAt(p)
          /\ upload' = [upload EXCEPT ![u] = [path |-> p, offset |-> 0, open |-> TRUE]]
    BY <1>12 DEF UploadStarts
  <2>2. UNCHANGED <<job, chunk>> BY <1>12 DEF UploadStarts
  <2>3. /\ name'[p] # None /\ \A i \in Pieces : data'[name'[p]][i] = None
        /\ \A q \in Paths \ {p} : name'[q] = name[q]
        /\ \A q \in Paths \ {p} : name[q] # None => data'[name[q]] = data[name[q]]
    BY <2>1, CreatedAlone
  <2>4. upload'[u].path = p /\ upload'[u] # None /\ \A v \in Uploads \ {u} : upload'[v] = upload[v]
    <3>1. [path |-> p, offset |-> 0, open |-> TRUE] \in UploadStates BY DEF UploadStates
    <3> QED BY <2>1, <3>1 DEF FilesTypeOK
  <2>5. \A v \in Uploads \ {u} : (Active(v)' <=> Active(v)) /\ (Active(v) => upload[v].path # p)
    BY <2>1, <2>2, <2>4 DEF Active, Uploading
  <2>6. \A v \in Uploads \ {u} : Active(v) =>
          /\ Grows(v) /\ upload[v].path \in Paths /\ Target(v)' = Target(v) /\ data'[Target(v)] = data[Target(v)]
          /\ \A j \in Handlers : job[j] # None => upload[v].path \notin PathsOf(j)
    BY <2>3, <2>4, <2>5, OwnFile DEF FilesInv, UploadsHold, Target
  <2>7. Grows(u)' BY <2>3, <2>4 DEF Grows, Target
  <2>8. \A v \in Uploads : Active(v)' => Grows(v)' BY <2>5, <2>6, <2>7 DEF Grows
  <2>9. \A v, w \in Uploads : Active(v)' /\ Active(w)' /\ upload'[v].path = upload'[w].path => v = w
    BY <2>4, <2>5 DEF FilesInv, UploadsHold
  <2>10. ASSUME NEW k \in Chunks, chunk'[k] # None PROVE ChunkHolds(k)'
    <3>1. chunk'[k] = chunk[k] /\ ChunkHolds(k) /\ chunk[k].up \in Uploads
      BY <2>2, <2>10, FilesTyped DEF FilesInv, UploadsHold
    <3>2. chunk[k].up # u /\ Active(chunk[k].up) BY <2>1, <2>2, <2>10, <3>1 DEF ChunkHolds, Active
    <3>3. Target(chunk[k].up)' = Target(chunk[k].up) /\ data'[Target(chunk[k].up)] = data[Target(chunk[k].up)]
      BY <2>6, <3>1, <3>2
    <3> QED BY <2>4, <3>1, <3>2, <3>3 DEF ChunkHolds
  <2>12. JobsHold' /\ \A j \in Handlers : \A q \in Paths : Spares(j, q) => Spares(j, q)'
    <3>1. ASSUME NEW j \in Handlers, job[j] # None
          PROVE  /\ PathsOf(j)' \subseteq PathsOf(j)
                 /\ \A q \in PathsOf(j) : name'[q] = name[q] /\ (name[q] # None => data'[name[q]] = data[name[q]])
      <4>1. PathsOf(j)' \subseteq PathsOf(j) BY <2>1, <2>2, <3>1, CreatedElsewhere
      <4>2. PathsOf(j) \subseteq Paths \ {p} BY <2>1, <3>1, FilesTyped
      <4> QED BY <2>3, <4>1, <4>2
    <3> QED BY <2>2, <3>1, JobsElsewhere
  <2>13. Keeps
    <3> SUFFICES ASSUME NEW c \in kept' PROVE Safe(c)'
      OBVIOUS
    <3>1. c \in kept /\ c \notin ContentAt(p) /\ c \in Contents \cup Uploads BY <2>1 DEF FilesTypeOK
    <3>2. PICK q \in Paths : Holds(q, c) /\ \A j \in Handlers : Spares(j, q) BY <1>0, <3>1
    <3>3. q # p BY <3>1, <3>2 DEF ContentAt
    <3>4. Holds(q, c)' BY <2>3, <3>2, <3>3 DEF Holds
    <3>5. \A j \in Handlers : Spares(j, q)' BY <2>12, <3>2
    <3> QED BY <3>4, <3>5 DEF Safe
  <2>14. \A j \in Handlers : job'[j] # None => p \notin PathsOf(j)' /\ PathsOf(j)' \subseteq PathsOf(j)
    BY <2>1, <2>2, CreatedElsewhere
  <2>15. UploadsHold' BY <2>1, <2>2, <2>4, <2>5, <2>6, <2>8, <2>9, <2>10, <2>14 DEF UploadsHold
  <2> QED BY <2>12, <2>13, <2>15 DEF FilesInv
<1>13. ASSUME NEW u \in Uploads, NEW k \in Chunks, ChunkSent(k, u) PROVE FilesInv'
  <2>1. PICK i \in Pieces :
          /\ i = 1 \/ \E h \in UploadedBytes(u) : i <= h + 1
          /\ chunk' = [chunk EXCEPT ![k] = [up |-> u, part |-> i, file |-> None, at |-> "sent"]]
    BY <1>13 DEF ChunkSent
  <2>2. /\ chunk[k] = None /\ upload[u] # None /\ upload[u].open
        /\ UNCHANGED <<name, data, job, upload, kept>>
    BY <1>13 DEF ChunkSent
  <2>3. Active(u) /\ Grows(u) BY <2>2 DEF Active, FilesInv, UploadsHold
  <2>4. \A h \in 1 .. i - 1 : data[Target(u)][h] = u
    <3> TAKE h \in 1 .. i - 1
    <3>1. PICK g \in UploadedBytes(u) : i <= g + 1 BY <2>1 DEF Pieces
    <3>2. g \in Pieces /\ data[Target(u)][g] = u BY <2>3, <3>1 DEF UploadedBytes, Grows, Target
    <3>3. h = g \/ h \in 1 .. g - 1 BY <3>1, <3>2 DEF Pieces
    <3> QED BY <2>3, <3>2, <3>3 DEF Grows
  <2>5. /\ chunk'[k] # None /\ chunk'[k].up = u /\ chunk'[k].part = i /\ chunk'[k].at = "sent"
        /\ \A m \in Chunks \ {k} : chunk'[m] = chunk[m]
    BY <2>1 DEF FilesTypeOK, ChunkRequests
  <2>6. \A v \in Uploads : Active(v)' <=> Active(v) BY <2>2, <2>3, <2>5 DEF Active
  <2>7. \A v \in Uploads : Grows(v)' <=> Grows(v) BY <2>2 DEF Grows, Target
  <2>8. ChunkHolds(k)'
    <3>1. upload'[u] # None /\ \A h \in 1 .. i - 1 : data'[name'[upload'[u].path]][h] = u
      BY <2>2, <2>4 DEF Target
    <3> QED BY <2>5, <3>1 DEF ChunkHolds, Target
  <2>9. ASSUME NEW m \in Chunks \ {k}, chunk'[m] # None PROVE ChunkHolds(m)'
    <3>1. chunk'[m] = chunk[m] BY <2>5
    <3>2. ChunkHolds(m) BY <2>9, <3>1 DEF FilesInv, UploadsHold
    <3> QED BY <2>2, <3>1, <3>2, ChunkKept
  <2>10. JobsHold' /\ Keeps /\ \A j \in Handlers : job'[j] # None => job[j] # None /\ PathsOf(j)' = PathsOf(j)
    BY <2>2, JobsUntouched
  <2>11. UploadsHold' BY <2>2, <2>6, <2>7, <2>8, <2>9, <2>10 DEF FilesInv, UploadsHold
  <2> QED BY <2>10, <2>11 DEF FilesInv
<1>14. ASSUME NEW k \in Chunks, ChunkOpens(k) PROVE FilesInv'
  <2>1. /\ chunk[k] # None /\ chunk[k] \in ChunkRequests /\ ChunkHolds(k)
        /\ chunk' = [chunk EXCEPT ![k].file = Target(chunk[k].up), ![k].at = "write"]
        /\ UNCHANGED <<name, data, job, upload, kept>>
    <3>1. chunk[k] # None /\ UNCHANGED <<name, data, job, upload, kept>> BY <1>14 DEF ChunkOpens
    <3>2. chunk' = [chunk EXCEPT ![k].file = Target(chunk[k].up), ![k].at = "write"]
      BY <1>14 DEF ChunkOpens, Target
    <3>3. chunk[k] \in ChunkRequests BY <3>1, FilesTyped
    <3>4. ChunkHolds(k) BY <3>1 DEF FilesInv, UploadsHold
    <3> QED BY <3>1, <3>2, <3>3, <3>4
  <2>2. /\ chunk'[k] # None /\ chunk'[k].up = chunk[k].up /\ chunk'[k].part = chunk[k].part
        /\ chunk'[k].at = "write" /\ chunk'[k].file = Target(chunk[k].up)
        /\ \A m \in Chunks \ {k} : chunk'[m] = chunk[m]
    <3> DEFINE new == [chunk[k] EXCEPT !.file = Target(chunk[k].up), !.at = "write"]
    <3>1. Target(chunk[k].up) \in Files \cup {None}
      BY <2>1, FilesTyped DEF ChunkHolds, Target, FilesTypeOK
    <3>2. new \in ChunkRequests /\ new.up = chunk[k].up /\ new.part = chunk[k].part
          /\ new.at = "write" /\ new.file = Target(chunk[k].up)
      BY <2>1, <3>1 DEF ChunkRequests
    <3>3. chunk' = [chunk EXCEPT ![k] = new] BY <2>1 DEF FilesTypeOK
    <3> HIDE DEF new
    <3> QED BY <3>2, <3>3 DEF FilesTypeOK
  <2>3. \A v \in Uploads : Active(v)' <=> Active(v)
    <3> TAKE v \in Uploads
    <3>1. \A m \in Chunks : chunk'[m] # None /\ chunk'[m].up = v <=> chunk[m] # None /\ chunk[m].up = v
      <4> TAKE m \in Chunks
      <4>1. CASE m = k BY <2>1, <2>2, <4>1
      <4>2. CASE m # k BY <2>2, <4>2
      <4> QED BY <4>1, <4>2
    <3>2. upload'[v] = upload[v] BY <2>1
    <3> QED BY <3>1, <3>2 DEF Active
  <2>4. \A v \in Uploads : Grows(v)' <=> Grows(v) BY <2>1 DEF Grows, Target
  <2>5. ChunkHolds(k)'
    <3>1. PICK u, i : u = chunk[k].up /\ i = chunk[k].part OBVIOUS
    <3>2. upload[u] # None /\ \A h \in 1 .. i - 1 : data[Target(u)][h] = u
      BY <2>1, <3>1 DEF ChunkHolds
    <3>3. /\ chunk'[k].up = u /\ chunk'[k].part = i
          /\ chunk'[k].at = "write" /\ chunk'[k].file = Target(u)
      BY <2>2, <3>1
    <3>4. /\ upload'[u] # None /\ Target(u) = name'[upload'[u].path]
          /\ \A h \in 1 .. i - 1 : data'[name'[upload'[u].path]][h] = u
      BY <2>1, <3>2 DEF Target
    <3> QED BY <3>3, <3>4 DEF ChunkHolds, Target
  <2>6. ASSUME NEW m \in Chunks \ {k}, chunk'[m] # None PROVE ChunkHolds(m)'
    <3>1. chunk'[m] = chunk[m] BY <2>2
    <3>2. ChunkHolds(m) BY <2>6, <3>1 DEF FilesInv, UploadsHold
    <3> QED BY <2>1, <3>1, <3>2, ChunkKept
  <2>7. JobsHold' /\ Keeps /\ \A j \in Handlers : job'[j] # None => job[j] # None /\ PathsOf(j)' = PathsOf(j)
    BY <2>1, JobsUntouched
  <2>8. ASSUME NEW v \in Uploads, Active(v)'
        PROVE  /\ Grows(v)' /\ \A j \in Handlers : job'[j] # None => upload'[v].path \notin PathsOf(j)'
               /\ \A w \in Uploads : Active(w)' /\ upload'[w].path = upload'[v].path => w = v
    <3>1. Active(v) /\ Grows(v) BY <2>3, <2>8 DEF FilesInv, UploadsHold
    <3>2. \A j \in Handlers : job[j] # None => upload[v].path \notin PathsOf(j)
      BY <3>1 DEF FilesInv, UploadsHold
    <3>3. \A w \in Uploads : Active(w) /\ upload[w].path = upload[v].path => w = v
      BY <3>1 DEF FilesInv, UploadsHold
    <3>4. \A j \in Handlers : job'[j] # None => upload'[v].path \notin PathsOf(j)' BY <2>1, <2>7, <3>2
    <3>5. \A w \in Uploads : Active(w)' /\ upload'[w].path = upload'[v].path => w = v
      BY <2>1, <2>3, <3>3
    <3>6. Grows(v)' BY <2>4, <3>1
    <3> QED BY <3>4, <3>5, <3>6
  <2>9. \A m \in Chunks : chunk'[m] # None => ChunkHolds(m)' BY <2>5, <2>6
  <2>10. UploadsHold' BY <2>8, <2>9 DEF UploadsHold
  <2> QED BY <2>7, <2>10 DEF FilesInv
<1>15. ASSUME NEW k \in Chunks, ChunkWrites(k) PROVE FilesInv'
  <2> DEFINE u == chunk[k].up
             f == Target(u)
  <2>1. /\ chunk[k] # None /\ chunk[k] \in ChunkRequests /\ ChunkHolds(k) /\ u \in Uploads
        /\ chunk[k].part \in Pieces /\ chunk[k].file = f
        /\ chunk' = [chunk EXCEPT ![k].at = "record"] /\ UNCHANGED <<name, job, upload, kept>>
    BY <1>15, FilesTyped DEF ChunkWrites, FilesInv, UploadsHold, ChunkHolds
  <2>2. Active(u) /\ Grows(u) BY <2>1 DEF Active, ChunkHolds, FilesInv, UploadsHold
  <2>3. /\ f \in Files /\ f # None /\ \A p \in Paths : name[p] = f => p = upload[u].path
        /\ \A v \in Uploads : Active(v) /\ Target(v) = f => v = u
    BY <2>1, <2>2, OwnFile
  <2>4. data' = [data EXCEPT ![f] = [data[f] EXCEPT ![chunk[k].part] = u]] BY <1>15, <2>1 DEF ChunkWrites
  <2>5. \A g \in Files \ {f} : data'[g] = data[g] BY <2>4 DEF FilesTypeOK
  <2>6. \A i \in Pieces : data'[f][i] = IF i = chunk[k].part THEN u ELSE data[f][i]
    BY <2>1, <2>3, <2>4 DEF FilesTypeOK
  <2>7. /\ chunk'[k] # None /\ chunk'[k].up = u /\ chunk'[k].part = chunk[k].part /\ chunk'[k].at = "record"
        /\ \A m \in Chunks \ {k} : chunk'[m] = chunk[m]
    BY <2>1 DEF FilesTypeOK, ChunkRequests
  <2>8. \A v \in Uploads : (Active(v)' <=> Active(v)) /\ Target(v)' = Target(v)
    BY <2>1, <2>7 DEF Active, Target
  <2>9. \A i \in Pieces : data[f][i] = u => data'[f][i] = u BY <2>6
  <2>10. \A i \in Pieces : \A h \in 1 .. i - 1 : h \in Pieces BY DEF Pieces
  <2>11. ASSUME NEW v \in Uploads, v = u PROVE Grows(v)'
    <3>1. Target(v)' = f BY <2>8, <2>11
    <3>2. ASSUME NEW i \in Pieces
          PROVE  /\ data'[f][i] \in {u, None}
                 /\ data'[f][i] = u => \A h \in 1 .. i - 1 : data'[f][h] = u
      <4>1. \A h \in 1 .. i - 1 : h \in Pieces /\ (data[f][h] = u => data'[f][h] = u)
        BY <2>9, <2>10
      <4>2. CASE i = chunk[k].part
        <5>1. \A h \in 1 .. i - 1 : data[f][h] = u BY <2>1, <4>2 DEF ChunkHolds
        <5>2. data'[f][i] = u BY <2>6, <4>2
        <5> QED BY <4>1, <5>1, <5>2
      <4>3. CASE i # chunk[k].part
        <5>1. data[f][i] \in {u, None} /\ (data[f][i] = u => \A h \in 1 .. i - 1 : data[f][h] = u)
          BY <2>2 DEF Grows
        <5>2. data'[f][i] = data[f][i] BY <2>6, <4>3
        <5> QED BY <4>1, <5>1, <5>2
      <4> QED BY <4>2, <4>3
    <3> QED BY <2>3, <2>11, <3>1, <3>2 DEF Grows
  <2>12. ASSUME NEW v \in Uploads \ {u}, Active(v)
         PROVE  Grows(v)' /\ data'[Target(v)] = data[Target(v)]
    <3>0. v \in Uploads /\ v # u OBVIOUS
    <3>1. Grows(v) BY <2>12 DEF FilesInv, UploadsHold
    <3> HIDE DEF u, f
    <3>2. Target(v) \in Files BY <2>12, <3>0, OwnFile
    <3>3. Target(v) # f BY <2>3, <2>12, <3>0
    <3>4. Target(v)' = Target(v) BY <2>8, <3>0, Zenon
    <3>5. data'[Target(v)] = data[Target(v)] BY <2>5, <3>2, <3>3, Zenon
    <3> QED BY <3>1, <3>4, <3>5 DEF Grows
  <2>13. ASSUME NEW m \in Chunks, chunk'[m] # None PROVE ChunkHolds(m)'
    <3> DEFINE v == chunk[m].up
               i == chunk[m].part
    <3>1. chunk[m] # None /\ ChunkHolds(m) /\ v \in Uploads /\ i \in Pieces /\ chunk'[m].up = v /\ chunk'[m].part = i
          /\ (m # k => chunk'[m] = chunk[m])
      BY <2>1, <2>7, <2>13, FilesTyped DEF FilesInv, UploadsHold
    <3>2. Active(v) BY <3>1 DEF Active, ChunkHolds
    <3>3. \A h \in Pieces : data[Target(v)][h] = v => data'[Target(v)][h] = v
      BY <2>9, <2>12, <3>1, <3>2
    <3>4. \A h \in 1 .. i - 1 : data'[Target(v)][h] = v BY <2>10, <3>1, <3>3 DEF ChunkHolds
    <3>5. chunk'[m].at = "record" => data'[Target(v)][i] = v
      BY <2>1, <2>6, <2>7, <3>1, <3>3 DEF ChunkHolds
    <3>6. chunk'[m].at = "write" => chunk'[m].file = Target(v)
      <4>1. chunk[m].at = "write" => chunk[m].file = Target(v) BY <3>1 DEF ChunkHolds
      <4>2. CASE m = k BY <2>7, <4>2
      <4>3. CASE m # k
        <5>1. PICK c : c = chunk[m] OBVIOUS
        <5>2. chunk'[m] = c BY <2>7, <4>3, <5>1
        <5>3. c.at = "write" => c.file = Target(v) BY <4>1, <5>1, Zenon
        <5> QED BY <5>2, <5>3
      <4> QED BY <4>2, <4>3
    <3>7. Target(v)' = Target(v) /\ upload'[v] # None BY <2>1, <3>1, Zenon DEF Target, ChunkHolds
    <3> QED BY <3>1, <3>4, <3>5, <3>6, <3>7, Zenon DEF ChunkHolds, Target
  <2>14. UploadsHold'
    <3>1. ASSUME NEW v \in Uploads, Active(v)'
          PROVE  /\ Grows(v)' /\ (\A j \in Handlers : job'[j] # None => upload'[v].path \notin PathsOf(j)')
                 /\ \A w \in Uploads : Active(w)' /\ upload'[w].path = upload'[v].path => w = v
      <4>1. Active(v) BY <2>8, <3>1
      <4>2. Grows(v)' BY <2>11, <2>12, <3>1, <4>1
      <4>3. UploadsHold BY DEF FilesInv
      <4>4. \A j \in Handlers : job[j] # None => upload[v].path \notin PathsOf(j) BY <3>1, <4>1, <4>3 DEF UploadsHold
      <4>5. \A w \in Uploads : Active(w) /\ upload[w].path = upload[v].path => w = v
        BY <3>1, <4>1, <4>3 DEF UploadsHold
      <4>6. \A j \in Handlers : PathsOf(j)' = PathsOf(j) BY <2>1 DEF PathsOf
      <4> QED BY <2>1, <2>8, <4>2, <4>4, <4>5, <4>6
    <3> QED BY <2>13, <3>1 DEF UploadsHold
  <2>15. JobsHold' /\ \A j \in Handlers : \A q \in Paths : Spares(j, q) => Spares(j, q)'
    <3>1. ASSUME NEW j \in Handlers, job[j] # None
          PROVE  /\ PathsOf(j)' \subseteq PathsOf(j)
                 /\ \A q \in PathsOf(j) : name'[q] = name[q] /\ (name[q] # None => data'[name[q]] = data[name[q]])
      <4>1. upload[u].path \notin PathsOf(j) /\ PathsOf(j) \subseteq Paths
        BY <2>1, <2>2, <3>1, FilesTyped DEF FilesInv, UploadsHold
      <4>2. PathsOf(j)' = PathsOf(j) BY <2>1 DEF PathsOf
      <4>3. \A q \in PathsOf(j) : name[q] # None => name[q] \in Files \ {f}
        BY <2>3, <4>1 DEF FilesTypeOK
      <4> QED BY <2>1, <2>5, <4>2, <4>3
    <3> QED BY <2>1, <3>1, JobsElsewhere
  <2>16. Keeps
    <3> SUFFICES ASSUME NEW c \in kept' PROVE Safe(c)'
      OBVIOUS
    <3>1. PICK p \in Paths : Holds(p, c) /\ \A j \in Handlers : Spares(j, p) BY <1>0, <2>1
    <3>2. \A j \in Handlers : Spares(j, p)' BY <2>15, <3>1
    <3>3. CASE name[p] # f BY <2>1, <2>5, <3>1, <3>2, <3>3 DEF Holds, FilesTypeOK, Safe
    <3>4. CASE name[p] = f
      <4>1. 1 \in Pieces /\ data[f] = Whole(c) /\ data[f][1] \in {u, None} BY <2>2, <3>1, <3>4 DEF Pieces, Holds, Grows
      <4>2. c # None BY <2>1 DEF FilesTypeOK
      <4>3. c = u BY <4>1, <4>2 DEF Whole
      <4>4. data'[f] = Whole(c) BY <2>1, <2>3, <2>4, <4>1, <4>3 DEF Whole, FilesTypeOK
      <4> QED BY <2>1, <2>3, <3>2, <3>4, <4>4 DEF Holds, Safe
    <3> QED BY <3>3, <3>4
  <2> QED BY <2>14, <2>15, <2>16 DEF FilesInv
<1>16. ASSUME NEW k \in Chunks, ChunkRecords(k) PROVE FilesInv'
  <2> DEFINE u == chunk[k].up
  <2>1. /\ chunk[k] # None /\ chunk[k].at = "record" /\ ChunkHolds(k) /\ u \in Uploads /\ chunk[k].part \in Pieces
        /\ chunk' = [chunk EXCEPT ![k] = None] /\ UNCHANGED <<name, data, job>>
    BY <1>16, FilesTyped DEF ChunkRecords, FilesInv, UploadsHold
  <2>2. Active(u) /\ Grows(u) BY <2>1 DEF Active, ChunkHolds, FilesInv, UploadsHold
  <2>3. /\ \A v \in Uploads \ {u} : upload'[v] = upload[v]
        /\ upload'[u].path = upload[u].path /\ upload'[u] # None /\ (upload'[u].open => upload[u].open)
    BY <1>16, Recorded DEF UploadStates
  <2>4. \A v \in Uploads : Active(v)' => Active(v)
    <3>1. \A m \in Chunks : chunk'[m] # None => chunk'[m] = chunk[m] BY <2>1 DEF FilesTypeOK
    <3> QED BY <2>2, <2>3, <3>1 DEF Active
  <2>5. JobsHold' /\ (\A c \in kept : Safe(c)')
        /\ \A j \in Handlers : job'[j] # None => job[j] # None /\ PathsOf(j)' = PathsOf(j)
    BY <2>1, JobsUntouched
  <2>6. UploadsHold'
    <3>1. \A m \in Chunks : chunk'[m] # None => chunk'[m] = chunk[m] BY <2>1 DEF FilesTypeOK
    <3>2. \A v \in Uploads : upload[v] # None => upload'[v] # None /\ upload'[v].path = upload[v].path
      BY <2>3
    <3>3. \A v \in Uploads : Active(v) => \A j \in Handlers : job[j] # None => upload[v].path \notin PathsOf(j)
      BY DEF FilesInv, UploadsHold
    <3>4. \A v \in Uploads : Active(v)' =>
            Active(v) /\ \A j \in Handlers : job'[j] # None => upload[v].path \notin PathsOf(j)'
      BY <2>4, <2>5, <3>3
    <3> QED BY <2>1, <3>1, <3>2, <3>4, UploadsFrame
  <2>7. Keeps
    <3> SUFFICES ASSUME NEW c \in kept' PROVE Safe(c)'
      OBVIOUS
    <3>1. CASE c \in kept
      BY <2>5, <3>1
    <3>2. CASE c \notin kept
      <4>1. c = u /\ chunk[k].part >= Size BY <1>16, <3>2 DEF ChunkRecords, NewOffset
      <4>2. chunk[k].part = Size /\ \A i \in Pieces : i = Size \/ i \in 1 .. Size - 1
        BY <2>1, <4>1 DEF Pieces
      <4>3. \A i \in Pieces : data[Target(u)][i] = u BY <2>1, <4>2 DEF ChunkHolds
      <4>4. Target(u) \in Files /\ Target(u) # None /\ upload[u].path \in Paths BY <2>1, <2>2, OwnFile
      <4>5. data[Target(u)] = Whole(u) BY <4>3, <4>4 DEF Whole, FilesTypeOK
      <4>6. PICK p \in Paths : p = upload[u].path BY <4>4
      <4>7. Holds(p, c)' BY <2>1, <4>1, <4>4, <4>5, <4>6 DEF Holds, Target
      <4>8. ASSUME NEW j \in Handlers PROVE Spares(j, p)'
        <5>1. job[j] # None => p \notin PathsOf(j) BY <2>1, <2>2, <4>6 DEF FilesInv, UploadsHold
        <5>2. job'[j] # None => p \notin PathsOf(j)' /\ p # job'[j].dst BY <2>5, <5>1 DEF PathsOf
        <5> QED BY <5>2 DEF Spares
      <4> QED BY <4>7, <4>8 DEF Safe
    <3> QED BY <3>1, <3>2
  <2> QED BY <2>5, <2>6, <2>7 DEF FilesInv
<1>17. ASSUME UNCHANGED <<name, data, job, upload, kept>>,
              \A m \in Chunks : chunk'[m] # None => chunk'[m] = chunk[m]
       PROVE  FilesInv'
  <2>1. JobsHold' /\ Keeps /\ \A j \in Handlers : job'[j] # None => job[j] # None /\ PathsOf(j)' = PathsOf(j)
    BY <1>17, JobsUntouched
  <2>2. \A v \in Uploads : Active(v)' => Active(v) BY <1>17 DEF Active
  <2>3. \A v \in Uploads : Active(v) => \A j \in Handlers : job[j] # None => upload[v].path \notin PathsOf(j)
    BY DEF FilesInv, UploadsHold
  <2>4. \A v \in Uploads : Active(v)' => \A j \in Handlers : job'[j] # None => upload[v].path \notin PathsOf(j)'
    BY <2>1, <2>2, <2>3
  <2>5. UploadsHold' BY <1>17, <2>2, <2>4, UploadsFrame
  <2> QED BY <2>1, <2>5 DEF FilesInv
<1>18. ASSUME NEW k \in Chunks, ChunkFails(k) PROVE FilesInv'
  <2>1. chunk' = [chunk EXCEPT ![k] = None] /\ UNCHANGED <<name, data, job, upload, kept>>
    BY <1>18 DEF ChunkFails
  <2>2. \A m \in Chunks : chunk'[m] # None => chunk'[m] = chunk[m] BY <2>1 DEF FilesTypeOK
  <2> QED BY <1>17, <2>1, <2>2
<1>19. CASE UNCHANGED filesVars
  BY <1>17, <1>19 DEF filesVars
<1> QED BY <1>1, <1>2, <1>3, <1>4, <1>5, <1>6, <1>7, <1>8, <1>11, <1>12, <1>13, <1>14, <1>15, <1>16, <1>18,
          <1>19
       DEF FilesNext

(***************************************************************************)
(* What was saved or uploaded survives, for any paths, files, uploads and  *)
(* sizes.  What carries it is that an upload under way has its file to     *)
(* itself and fills it from the first part on, whatever is repeated or     *)
(* late, and that whatever a request on whole files is about to overwrite  *)
(* is whole at another path as well or was given up when it was asked.     *)
(***************************************************************************)
THEOREM FilesAreKept == PlatformSpec => []FilesSurvive
<1> DEFINE Inv == FilesTypeOK /\ FilesInv
<1>1. PlatformInit => Inv
  <2> SUFFICES ASSUME FilesInit PROVE Inv
    BY DEF PlatformInit
  <2>1. PICK p \in Paths, f \in Files, c \in Contents :
          /\ name = [q \in Paths |-> IF q = p THEN f ELSE None]
          /\ data = [g \in Files |-> IF g = f THEN Whole(c) ELSE Blank]
          /\ kept = {c}
    <3>1. PICK p \in Paths : p = CHOOSE q \in Paths : TRUE BY FilesAssumption
    <3>2. PICK f \in Files : f = CHOOSE g \in Files : TRUE BY FilesAssumption
    <3>3. PICK c \in Contents : c = CHOOSE b \in Contents : TRUE BY FilesAssumption
    <3>4. /\ name = [q \in Paths |-> IF q = p THEN f ELSE None]
          /\ data = [g \in Files |-> IF g = f THEN Whole(c) ELSE Blank]
          /\ kept = {c}
      BY <3>1, <3>2, <3>3 DEF FilesInit
    <3> QED BY <3>4
  <2>2. FilesTypeOK BY <2>1, FilesAssumption DEF FilesInit, FilesTypeOK, Whole, Blank
  <2>3. Holds(p, c) BY <2>1, FilesAssumption DEF Holds
  <2> QED BY <2>1, <2>2, <2>3 DEF FilesInit, FilesInv, UploadsHold, JobsHold, Active, Spares, Safe
<1>2. Inv /\ [PlatformNext]_platformVars => Inv'
  <2> SUFFICES ASSUME Inv, [PlatformNext]_platformVars PROVE Inv'
    OBVIOUS
  <2>1. [FilesNext]_filesVars BY HostSteps
  <2> QED BY <2>1, FilesTypeStep, FilesInvStep
<1>3. Inv => FilesSurvive
  BY DEF FilesInv, Safe, FilesSurvive
<1> QED BY <1>1, <1>2, <1>3, PTL DEF PlatformSpec

-----------------------------------------------------------------------------
(* The installer *)

Unbroken(names) ==
  \A i, j \in Index : i < j /\ Phases[j] \in names => Phases[i] \in names

\* The process: what it has done, and what it gave of the secrets it generated.
RunHolds ==
  /\ run = [at |-> run.at, step |-> run.step, skip |-> run.skip, done |-> run.done,
            env |-> run.env, unchecked |-> run.unchecked, saves |-> run.saves]
  /\ run.at \in 1 .. Len(Phases) + 1 /\ run.step \in Nat \ {0} /\ run.env \in Nat
  /\ run.saves \in {"no", "on", "end"} /\ Unbroken(run.skip) /\ Unbroken(run.done)
  /\ run.saves = "on" =>
       run.at \in Index /\ Phases[run.at] \in run.done /\ run.step > Len(WorkOf[run.at])
  /\ \A i \in Index :
       /\ i < run.at \/ Phases[i] \in run.skip => Phases[i] \in run.done
       /\ Phases[i] \in run.done =>
            i < run.at \/ Phases[i] \in run.skip \/ (i = run.at /\ run.saves = "on")
       /\ i = run.at /\ Phases[i] \in run.skip => run.step = 1
  /\ file # None => file.done \subseteq run.done
  /\ run.env # 0 =>
       /\ run.env = generated /\ Phases[10] \notin run.skip
       /\ \A i \in Index : \A k \in 1 .. Len(WorkOf[i]) :
            WorkOf[i][k] \in Holders /\ (i < run.at \/ (i = run.at /\ k < run.step))
              => holds[WorkOf[i][k]] = run.env

\* One generation of secrets everywhere, and none in plain text.
SecretsAgree == generated # 0 /\ \A h \in Holders : holds[h] = generated

\* What is said to be done has been done.
DoneHolds(names) ==
  /\ \A i \in Index : Phases[i] \in names => Range(WorkOf[i]) \ (Forgiven \cup Plaintext) \subseteq host
  /\ Phases[16] \in names => plain = 0
  /\ Phases[17] \in names => SecretsAgree

WorkUnderWay ==
  /\ \A i \in Index : \A k \in 1 .. Len(WorkOf[i]) :
       i = run.at /\ k < run.step => WorkOf[i][k] \in host \cup Forgiven \cup Plaintext
  /\ run.at = 16 /\ run.step > 2 => plain = 0

InstallInv ==
  /\ generated \in Nat /\ removing \in 0 .. Len(Removals)
  /\ holds = [h \in Holders |-> holds[h]]
  /\ removing # 0 => run = None /\ ~finished
  /\ removing > 9 => file = None
  /\ finished => run = None
  /\ file # None => Unbroken(file.done)
  /\ run # None => RunHolds
  /\ removing = 0 /\ ~ruined =>
       /\ file # None => DoneHolds(file.done)
       /\ run # None => DoneHolds(run.done) /\ WorkUnderWay
       /\ finished => plain = 0 /\ SecretsAgree

\* The phases by their numbers.
LEMMA PhaseCount == Len(Phases) = 22 /\ Index = 1 .. 22
BY DEF Phases, Index

LEMMA PhaseNumbers == Index = {1, 2, 3, 4, 5, 6, 7, 8, 9, 10, 11, 12, 13, 14, 15, 16, 17, 18, 19, 20, 21, 22}
BY PhaseCount

LEMMA PhaseNames ==
  ASSUME NEW i \in Index, NEW j \in Index, Phases[i] = Phases[j]
  PROVE  i = j
<1> DEFINE Number(x) ==
             CASE x = "Configure system" -> 1
               [] x = "Precheck" -> 2
               [] x = "Download binaries" -> 3
               [] x = "Configure kernel" -> 4
               [] x = "Install etcd" -> 5
               [] x = "Install K3s" -> 6
               [] x = "Deploy Calico CNI" -> 7
               [] x = "Deploy OpenEBS" -> 8
               [] x = "Setup Kubernetes management" -> 9
               [] x = "Generate secrets" -> 10
               [] x = "Deploy KVRocks" -> 11
               [] x = "Install Helm" -> 12
               [] x = "Deploy platform services" -> 13
               [] x = "Deploy framework services" -> 14
               [] x = "Generate TLS certificate" -> 15
               [] x = "Seed Infisical" -> 16
               [] x = "Create LLDAP service account" -> 17
               [] x = "Deploy user apps" -> 18
               [] x = "Deploy monitoring" -> 19
               [] x = "Setup GPU" -> 20
               [] x = "Wait for pods" -> 21
               [] x = "Write release info" -> 22
           Numbered(n) == Number(Phases[n]) = n
<1>1. Numbered(1) /\ Numbered(2) /\ Numbered(3) /\ Numbered(4) /\ Numbered(5) /\ Numbered(6)
  BY DEF Phases
<1>2. Numbered(7) /\ Numbered(8) /\ Numbered(9) /\ Numbered(10) /\ Numbered(11) /\ Numbered(12)
  BY DEF Phases
<1>3. Numbered(13) /\ Numbered(14) /\ Numbered(15) /\ Numbered(16) /\ Numbered(17)
  BY DEF Phases
<1>4. Numbered(18) /\ Numbered(19) /\ Numbered(20) /\ Numbered(21) /\ Numbered(22)
  BY DEF Phases
<1> HIDE DEF Number
<1> QED BY <1>1, <1>2, <1>3, <1>4, PhaseNumbers

LEMMA WorkNumbers ==
  /\ WorkOf[1] = SystemWork /\ WorkOf[2] = <<>> /\ WorkOf[3] = BinaryWork /\ WorkOf[4] = KernelWork
  /\ WorkOf[5] = EtcdWork /\ WorkOf[6] = K3sWork /\ WorkOf[7] = CalicoWork /\ WorkOf[8] = StorageWork
  /\ WorkOf[9] = ClusterWork /\ WorkOf[10] = SecretsWork /\ WorkOf[11] = KVRocksWork
  /\ WorkOf[12] = HelmWork /\ WorkOf[13] = PlatformWork /\ WorkOf[14] = FrameworkWork
  /\ WorkOf[15] = TLSWork /\ WorkOf[16] = SeedWork /\ WorkOf[17] = AccountWork
  /\ WorkOf[18] = AppsWork /\ WorkOf[19] = MonitoringWork /\ WorkOf[20] = GPUWork
  /\ WorkOf[21] = <<>> /\ WorkOf[22] = <<"release file">>
BY DEF WorkOf

\* Whose secrets are whose, and in which order.
LEMMA WorkIsListed ==
  ASSUME NEW i \in Index
  PROVE  /\ Len(WorkOf[i]) \in Nat
         /\ Range(WorkOf[i]) = {WorkOf[i][k] : k \in 1 .. Len(WorkOf[i])}
<1> DEFINE WorkIsSeq(s) == Len(s) \in Nat /\ DOMAIN s = 1 .. Len(s)
<1>1. WorkIsSeq(SystemWork) /\ WorkIsSeq(BinaryWork) /\ WorkIsSeq(KernelWork) /\ WorkIsSeq(EtcdWork)
      /\ WorkIsSeq(K3sWork) /\ WorkIsSeq(CalicoWork) /\ WorkIsSeq(StorageWork)
  BY DEF SystemWork, BinaryWork, KernelWork, EtcdWork, K3sWork, CalicoWork, StorageWork
<1>2. WorkIsSeq(ClusterWork) /\ WorkIsSeq(SecretsWork) /\ WorkIsSeq(KVRocksWork) /\ WorkIsSeq(HelmWork)
      /\ WorkIsSeq(PlatformWork) /\ WorkIsSeq(FrameworkWork) /\ WorkIsSeq(TLSWork)
  BY DEF ClusterWork, SecretsWork, KVRocksWork, HelmWork, PlatformWork, FrameworkWork, TLSWork
<1>3. WorkIsSeq(SeedWork) /\ WorkIsSeq(AccountWork) /\ WorkIsSeq(AppsWork) /\ WorkIsSeq(MonitoringWork)
      /\ WorkIsSeq(<<>>) /\ WorkIsSeq(<<"release file">>)
  BY DEF SeedWork, AccountWork, AppsWork, MonitoringWork
<1>4. WorkIsSeq(GPUWork)
  <2>1. CASE HasGPU BY <2>1 DEF GPUWork
  <2>2. CASE ~HasGPU BY <2>2 DEF GPUWork
  <2> QED BY <2>1, <2>2
<1>5. WorkIsSeq(WorkOf[i])
  <2> HIDE DEF WorkIsSeq
  <2> QED BY <1>1, <1>2, <1>3, <1>4, PhaseNumbers, WorkNumbers
<1> QED BY <1>5 DEF Range

LEMMA RangeListed ==
  ASSUME NEW s, NEW n \in Nat, DOMAIN s = 1 .. n
  PROVE  Range(s) = {s[k] : k \in 1 .. n}
BY DEF Range

LEMMA RangeOfTwo == ASSUME NEW s, DOMAIN s = 1 .. 2 PROVE Range(s) = {s[1], s[2]}
<1>1. Range(s) = {s[k] : k \in 1 .. 2} BY RangeListed
<1> QED BY <1>1

LEMMA RangeOfThree == ASSUME NEW s, DOMAIN s = 1 .. 3 PROVE Range(s) = {s[1], s[2], s[3]}
<1>1. Range(s) = {s[k] : k \in 1 .. 3} BY RangeListed
<1> QED BY <1>1

LEMMA RangeOfFour == ASSUME NEW s, DOMAIN s = 1 .. 4 PROVE Range(s) = {s[1], s[2], s[3], s[4]}
<1>1. Range(s) = {s[k] : k \in 1 .. 4} BY RangeListed
<1> QED BY <1>1

LEMMA BaseThings ==
  /\ Range(WorkOf[1]) = {"hostname", "netplan", "wireguard-tools"} /\ Range(WorkOf[2]) = {}
  /\ Range(WorkOf[3]) = {"k3s binary", "etcd binary", "crictl binary"}
  /\ Range(WorkOf[4]) = {"modules file", "sysctl file"}
  /\ Range(WorkOf[5]) = {"etcd certificates", "etcd unit", "etcd enabled", "etcd runs"}
  /\ Range(WorkOf[6]) = {"k3s unit", "k3s config", "k3s enabled", "k3s runs"}
<1>1. Range(SystemWork) = {"hostname", "netplan", "wireguard-tools"}
  <2>1. DOMAIN SystemWork = 1 .. 3 BY DEF SystemWork
  <2>2. SystemWork[1] = "hostname" /\ SystemWork[2] = "netplan" /\ SystemWork[3] = "wireguard-tools"
    BY DEF SystemWork
  <2> QED BY <2>1, <2>2, RangeOfThree
<1>2. Range(BinaryWork) = {"k3s binary", "etcd binary", "crictl binary"}
  <2>1. DOMAIN BinaryWork = 1 .. 3 BY DEF BinaryWork
  <2>2. BinaryWork[1] = "k3s binary" /\ BinaryWork[2] = "etcd binary" /\ BinaryWork[3] = "crictl binary"
    BY DEF BinaryWork
  <2> QED BY <2>1, <2>2, RangeOfThree
<1>3. Range(EtcdWork) = {"etcd certificates", "etcd unit", "etcd enabled", "etcd runs"}
  <2>1. DOMAIN EtcdWork = 1 .. 4 BY DEF EtcdWork
  <2>2. EtcdWork[1] = "etcd certificates" /\ EtcdWork[2] = "etcd unit" /\ EtcdWork[3] = "etcd enabled" /\ EtcdWork[4] = "etcd runs"
    BY DEF EtcdWork
  <2> QED BY <2>1, <2>2, RangeOfFour
<1>4. Range(K3sWork) = {"k3s unit", "k3s config", "k3s enabled", "k3s runs"}
  <2>1. DOMAIN K3sWork = 1 .. 4 BY DEF K3sWork
  <2>2. K3sWork[1] = "k3s unit" /\ K3sWork[2] = "k3s config" /\ K3sWork[3] = "k3s enabled" /\ K3sWork[4] = "k3s runs"
    BY DEF K3sWork
  <2> QED BY <2>1, <2>2, RangeOfFour
<1>5. Range(KernelWork) = {"modules file", "sysctl file"}
  <2>1. DOMAIN KernelWork = 1 .. 2 BY DEF KernelWork
  <2>2. KernelWork[1] = "modules file" /\ KernelWork[2] = "sysctl file"
    BY DEF KernelWork
  <2> QED BY <2>1, <2>2, RangeOfTwo
<1>6. Range(<<>>) = {}
  BY DEF Range
<1> QED BY <1>1, <1>2, <1>3, <1>4, <1>5, <1>6, WorkNumbers

LEMMA ClusterThings ==
  /\ Range(WorkOf[7]) = {"calico operator", "calico network"}
  /\ Range(WorkOf[8]) = {"openebs"} /\ Range(WorkOf[9]) = {"crds", "owner"}
  /\ Range(WorkOf[10]) = {"plaintext"}
<1>1. Range(CalicoWork) = {"calico operator", "calico network"}
  <2>1. DOMAIN CalicoWork = 1 .. 2 BY DEF CalicoWork
  <2>2. CalicoWork[1] = "calico operator" /\ CalicoWork[2] = "calico network"
    BY DEF CalicoWork
  <2> QED BY <2>1, <2>2, RangeOfTwo
<1>2. Range(ClusterWork) = {"crds", "owner"}
  <2>1. DOMAIN ClusterWork = 1 .. 2 BY DEF ClusterWork
  <2>2. ClusterWork[1] = "crds" /\ ClusterWork[2] = "owner"
    BY DEF ClusterWork
  <2> QED BY <2>1, <2>2, RangeOfTwo
<1>3. \A x : Range(<<x>>) = {x}
  BY DEF Range
<1>4. WorkOf[8] = <<"openebs">> /\ WorkOf[10] = <<"plaintext">>
  BY WorkNumbers DEF StorageWork, SecretsWork
<1> QED BY <1>1, <1>2, <1>3, <1>4, WorkNumbers

LEMMA SecretThings ==
  /\ Range(WorkOf[11]) = {"kvrocks"} /\ Range(WorkOf[12]) = {"helm"}
  /\ Range(WorkOf[13]) = {"citus", "lldap", "infisical"} /\ Range(WorkOf[14]) = {"framework", "proxy"}
  /\ Range(WorkOf[15]) = {"tls files", "tls secret"} /\ Range(WorkOf[16]) = {"seed", "no plaintext"}
  /\ Range(WorkOf[17]) = {"account"}
<1>1. Range(PlatformWork) = {"citus", "lldap", "infisical"}
  <2>1. DOMAIN PlatformWork = 1 .. 3 BY DEF PlatformWork
  <2>2. PlatformWork[1] = "citus" /\ PlatformWork[2] = "lldap" /\ PlatformWork[3] = "infisical"
    BY DEF PlatformWork
  <2> QED BY <2>1, <2>2, RangeOfThree
<1>2. Range(FrameworkWork) = {"framework", "proxy"}
  <2>1. DOMAIN FrameworkWork = 1 .. 2 BY DEF FrameworkWork
  <2>2. FrameworkWork[1] = "framework" /\ FrameworkWork[2] = "proxy"
    BY DEF FrameworkWork
  <2> QED BY <2>1, <2>2, RangeOfTwo
<1>3. Range(TLSWork) = {"tls files", "tls secret"}
  <2>1. DOMAIN TLSWork = 1 .. 2 BY DEF TLSWork
  <2>2. TLSWork[1] = "tls files" /\ TLSWork[2] = "tls secret"
    BY DEF TLSWork
  <2> QED BY <2>1, <2>2, RangeOfTwo
<1>4. Range(SeedWork) = {"seed", "no plaintext"}
  <2>1. DOMAIN SeedWork = 1 .. 2 BY DEF SeedWork
  <2>2. SeedWork[1] = "seed" /\ SeedWork[2] = "no plaintext"
    BY DEF SeedWork
  <2> QED BY <2>1, <2>2, RangeOfTwo
<1>5. \A x : Range(<<x>>) = {x}
  BY DEF Range
<1>6. WorkOf[11] = <<"kvrocks">> /\ WorkOf[12] = <<"helm">> /\ WorkOf[17] = <<"account">>
  BY WorkNumbers DEF KVRocksWork, HelmWork, AccountWork
<1> QED BY <1>1, <1>2, <1>3, <1>4, <1>5, <1>6, WorkNumbers

LEMMA UserThings ==
  /\ Range(WorkOf[18]) = {"desktop and wizard"} /\ Range(WorkOf[19]) = {"monitoring"}
  /\ Range(WorkOf[20]) \subseteq {"driver", "driver loaded", "toolkit", "nvidia runtime"}
  /\ Range(WorkOf[21]) = {} /\ Range(WorkOf[22]) = {"release file"}
<1>1. \A x : Range(<<x>>) = {x}
  BY DEF Range
<1>2. Range(<<>>) = {}
  BY DEF Range
<1>3. Range(GPUWork) \subseteq {"driver", "driver loaded", "toolkit", "nvidia runtime"}
  <2>1. CASE HasGPU
    <3>1. DOMAIN GPUWork = 1 .. 4 BY <2>1 DEF GPUWork
    <3>2. /\ GPUWork[1] = "driver" /\ GPUWork[2] = "driver loaded" /\ GPUWork[3] = "toolkit"
          /\ GPUWork[4] = "nvidia runtime"
      BY <2>1 DEF GPUWork
    <3> QED BY <3>1, <3>2, RangeOfFour
  <2>2. CASE ~HasGPU BY <2>2, <1>2 DEF GPUWork
  <2> QED BY <2>1, <2>2
<1>4. WorkOf[18] = <<"desktop and wizard">> /\ WorkOf[19] = <<"monitoring">> /\ WorkOf[22] = <<"release file">>
  BY WorkNumbers DEF AppsWork, MonitoringWork
<1> QED BY <1>1, <1>2, <1>3, <1>4, WorkNumbers

\* Which phases handle the secrets, and what a reboot starts again.
LEMMA WorkPlaces ==
  ASSUME NEW i \in Index
  PROVE  /\ "plaintext" \in Range(WorkOf[i]) => i = 10
         /\ "no plaintext" \in Range(WorkOf[i]) => i = 16
         /\ "etcd runs" \in Range(WorkOf[i]) => "etcd enabled" \in Range(WorkOf[i])
         /\ "k3s runs" \in Range(WorkOf[i]) => "k3s enabled" \in Range(WorkOf[i])
<1> DEFINE Fits(n) ==
      /\ "plaintext" \in Range(WorkOf[n]) => n = 10
      /\ "no plaintext" \in Range(WorkOf[n]) => n = 16
      /\ "etcd runs" \in Range(WorkOf[n]) => "etcd enabled" \in Range(WorkOf[n])
      /\ "k3s runs" \in Range(WorkOf[n]) => "k3s enabled" \in Range(WorkOf[n])
<1>1. Fits(1) /\ Fits(2) /\ Fits(3)
  BY BaseThings
<1>2. Fits(4) /\ Fits(5) /\ Fits(6)
  BY BaseThings
<1>3. Fits(7) /\ Fits(8) /\ Fits(9) /\ Fits(10)
  BY ClusterThings
<1>4. Fits(11) /\ Fits(12) /\ Fits(13) /\ Fits(14)
  BY SecretThings
<1>5. Fits(15) /\ Fits(16) /\ Fits(17)
  BY SecretThings
<1>6. Fits(18) /\ Fits(19) /\ Fits(20) /\ Fits(21) /\ Fits(22)
  BY UserThings
<1> HIDE DEF Fits
<1>7. Fits(i)
  BY <1>1, <1>2, <1>3, <1>4, <1>5, <1>6, PhaseNumbers
<1> QED BY <1>7 DEF Fits

LEMMA HolderPhases ==
  ASSUME NEW i \in Index, Range(WorkOf[i]) \cap Holders # {}
  PROVE  i \in 11 .. 17
<1> DEFINE Bare(n) == Range(WorkOf[n]) \cap Holders = {}
<1>1. Bare(1) /\ Bare(2) /\ Bare(3)
  BY BaseThings DEF Holders
<1>2. Bare(4) /\ Bare(5) /\ Bare(6)
  BY BaseThings DEF Holders
<1>3. Bare(7) /\ Bare(8) /\ Bare(9) /\ Bare(10)
  BY ClusterThings DEF Holders
<1>4. Bare(18) /\ Bare(19) /\ Bare(20) /\ Bare(21) /\ Bare(22)
  BY UserThings DEF Holders
<1> HIDE DEF Bare
<1>5. Bare(i) \/ i \in 11 .. 17
  BY <1>1, <1>2, <1>3, <1>4, PhaseNumbers
<1> QED BY <1>5 DEF Bare

LEMMA HolderPlaces ==
  ASSUME NEW h \in Holders
  PROVE  \E i \in 11 .. 17 : h \in Range(WorkOf[i])
<1>1. \/ h \in Range(WorkOf[11]) \/ h \in Range(WorkOf[13]) \/ h \in Range(WorkOf[14])
      \/ h \in Range(WorkOf[16]) \/ h \in Range(WorkOf[17])
  BY SecretThings DEF Holders
<1> QED BY <1>1

LEMMA RemovalCount == Len(Removals) = 15
BY DEF Removals

\* A reboot starts again what was enabled.
LEMMA RebootKeeps ==
  ASSUME NEW i \in Index, Range(WorkOf[i]) \ (Forgiven \cup Plaintext) \subseteq host
  PROVE  Range(WorkOf[i]) \ (Forgiven \cup Plaintext) \subseteq Rebooted(host)
BY WorkPlaces DEF Rebooted, Forgiven, Plaintext

\* The process has failed, and goes on to save what it had done.
LEMMA InstallFails ==
  ASSUME InstallInv, run # None, run.saves = "no", run' = [run EXCEPT !.saves = "end"],
         UNCHANGED <<file, finished, removing, ruined>>, Hosted
  PROVE  InstallInv'
<1>1. RunHolds
  BY DEF InstallInv
<1>2. /\ run' = [at |-> run.at, step |-> run.step, skip |-> run.skip, done |-> run.done,
                 env |-> run.env, unchecked |-> run.unchecked, saves |-> "end"]
  BY <1>1 DEF RunHolds
<1>3. /\ run'.at = run.at /\ run'.step = run.step /\ run'.skip = run.skip /\ run'.done = run.done
      /\ run'.env = run.env /\ run'.unchecked = run.unchecked /\ run'.saves = "end"
  BY <1>2
<1>4. RunHolds'
  BY <1>1, <1>2, <1>3 DEF RunHolds, Hosted, Unbroken
<1>5. removing = 0 /\ ~ruined => DoneHolds(run.done)' /\ WorkUnderWay'
  BY <1>3 DEF InstallInv, DoneHolds, WorkUnderWay, Hosted, SecretsAgree
<1> QED BY <1>4, <1>5 DEF InstallInv, Hosted, DoneHolds, SecretsAgree, Unbroken

\* Where the process is, and what it may skip.
LEMMA PhaseKnown ==
  ASSUME InstallInv, InPhase
  PROVE  /\ run # None /\ run.at \in Index /\ RunHolds /\ removing = 0 /\ ~finished
         /\ run.at \in 1 .. 22 /\ run.step \in Nat
BY PhaseCount DEF InstallInv, InPhase, RunHolds

LEMMA InstallSkips ==
  ASSUME InstallInv, Skips
  PROVE  InstallInv'
<1>1. /\ run # None /\ run.at \in Index /\ RunHolds /\ removing = 0 /\ ~finished
      /\ run.at \in 1 .. 22 /\ run.saves = "no" /\ Phases[run.at] \in run.skip
  BY PhaseKnown DEF Skips, InPhase
<1>2. run' = [at |-> run.at + 1, step |-> run.step, skip |-> run.skip, done |-> run.done,
              env |-> run.env, unchecked |-> run.unchecked, saves |-> run.saves]
  BY <1>1 DEF RunHolds, Skips
<1>3. /\ run'.at = run.at + 1 /\ run'.step = 1 /\ run'.skip = run.skip /\ run'.done = run.done
      /\ run'.env = run.env /\ run'.unchecked = run.unchecked /\ run'.saves = "no"
  BY <1>1, <1>2 DEF RunHolds
<1>4. ASSUME run.env # 0, NEW i \in Index, NEW k \in 1 .. Len(WorkOf[i]), WorkOf[i][k] \in Holders
      PROVE  ~(i < run'.at)
  <2>1. run.at < 10
    <3>1. 10 \in Index /\ Phases[10] \notin run.skip
      BY <1>1, <1>4, PhaseCount DEF RunHolds
    <3> QED BY <1>1, <3>1 DEF RunHolds, Unbroken
  <2>2. i \in 11 .. 17
    BY <1>4, WorkIsListed, HolderPhases
  <2>3. run.at \in 1 .. 22 /\ run'.at = run.at + 1
    BY <1>1, <1>3
  <2>4. run'.at \in 1 .. 10
    <3>1. \A n \in 1 .. 22 : n < 10 => n + 1 \in 1 .. 10 OBVIOUS
    <3> QED BY <2>1, <2>3, <3>1
  <2> QED BY <2>2, <2>4
<1>5. \A i \in Index :
        /\ i < run'.at \/ Phases[i] \in run'.skip => Phases[i] \in run'.done
        /\ Phases[i] \in run'.done => i < run'.at \/ Phases[i] \in run'.skip
  <2>1. \A i \in Index :
          /\ i < run.at \/ Phases[i] \in run.skip => Phases[i] \in run.done
          /\ Phases[i] \in run.done => i < run.at \/ Phases[i] \in run.skip
    BY <1>1 DEF RunHolds
  <2>2. \A i \in Index : i < run.at + 1 <=> (i < run.at \/ i = run.at)
    BY <1>1, PhaseCount
  <2> QED BY <1>1, <1>3, <2>1, <2>2
<1>6. ASSUME NEW i \in Index, NEW k \in 1 .. Len(WorkOf[i])
      PROVE  ~(k < run'.step)
  BY <1>3, WorkIsListed
<1>7. RunHolds'
  <2>1. /\ run' = [at |-> run'.at, step |-> run'.step, skip |-> run'.skip, done |-> run'.done,
                   env |-> run'.env, unchecked |-> run'.unchecked, saves |-> run'.saves]
        /\ run'.at \in 1 .. Len(Phases) + 1 /\ run'.step \in Nat \ {0} /\ run'.env \in Nat
    <3>1. run.at + 1 \in 1 .. 23 /\ Len(Phases) + 1 = 23 BY <1>1, PhaseCount
    <3>2. run.env \in Nat BY <1>1 DEF RunHolds
    <3>3. run' = [at |-> run'.at, step |-> run'.step, skip |-> run'.skip, done |-> run'.done,
                  env |-> run'.env, unchecked |-> run'.unchecked, saves |-> run'.saves]
      BY <1>2
    <3> QED BY <1>3, <3>1, <3>2, <3>3
  <2>2. Unbroken(run.skip)' /\ Unbroken(run.done)' /\ (file' # None => file'.done \subseteq run'.done)
    BY <1>1, <1>3 DEF RunHolds, Unbroken, Skips
  <2>3. run.env # 0 => run.env = generated /\ Phases[10] \notin run.skip
    BY <1>1 DEF RunHolds
  <2> QED BY <1>3, <1>4, <1>5, <1>6, <2>1, <2>2, <2>3 DEF RunHolds, Skips, Hosted
<1>8. ~ruined => DoneHolds(run.done)' /\ WorkUnderWay'
  BY <1>1, <1>3, <1>6 DEF InstallInv, DoneHolds, WorkUnderWay, Skips, Hosted, SecretsAgree
<1> QED BY <1>1, <1>7, <1>8 DEF InstallInv, Skips, Hosted, Counted, DoneHolds, SecretsAgree, Unbroken

\* What is done lies before a phase that is worked on.
LEMMA DoneIsBefore ==
  ASSUME InstallInv, InPhase, Phases[run.at] \notin run.skip, NEW i \in Index, Phases[i] \in run.done
  PROVE  i < run.at
<1>1. i < run.at \/ Phases[i] \in run.skip
  BY PhaseKnown DEF RunHolds, InPhase
<1>2. Phases[i] \in run.skip => ~(run.at < i) /\ i # run.at
  BY PhaseKnown DEF RunHolds, Unbroken
<1> QED BY <1>1, <1>2, PhaseKnown, PhaseCount

LEMMA InstallWorks ==
  ASSUME InstallInv, PhaseWorks
  PROVE  InstallInv'
<1>1. /\ run # None /\ run.at \in Index /\ RunHolds /\ removing = 0 /\ ~finished
      /\ run.at \in 1 .. 22 /\ run.step \in Nat /\ run.saves = "no" /\ Phases[run.at] \notin run.skip
      /\ run.step \in Nat \ {0}
  BY PhaseKnown DEF PhaseWorks, InPhase, RunHolds
<1>2. PICK thing : thing = WorkOf[run.at][run.step]
  OBVIOUS
<1>3. /\ run.step \in 1 .. Len(WorkOf[run.at]) /\ thing \in Range(WorkOf[run.at])
      /\ Leaves(thing)
  <2>1. run.step <= Len(WorkOf[run.at]) /\ Leaves(thing)
    BY <1>2 DEF PhaseWorks
  <2>2. /\ Len(WorkOf[run.at]) \in Nat
        /\ Range(WorkOf[run.at]) = {WorkOf[run.at][k] : k \in 1 .. Len(WorkOf[run.at])}
    BY <1>1, WorkIsListed
  <2>3. run.step \in 1 .. Len(WorkOf[run.at])
    BY <1>1, <2>1, <2>2
  <2> QED BY <1>2, <2>1, <2>2, <2>3
<1>4. /\ thing = "plaintext" => run.at = 10
      /\ thing = "no plaintext" => run.at = 16
      /\ thing \in Holders => run.at \in 11 .. 17
  BY <1>1, <1>3, WorkPlaces, HolderPhases
<1>5. PICK handed : handed = IF thing = "plaintext" THEN generated + 1 ELSE run.env
  OBVIOUS
<1>6. run' = [at |-> run.at, step |-> run.step + 1, skip |-> run.skip, done |-> run.done,
              env |-> handed, unchecked |-> run.unchecked, saves |-> run.saves]
  BY <1>1, <1>3, <1>5 DEF RunHolds, Leaves
<1>7. /\ run'.at = run.at /\ run'.step = run.step + 1 /\ run'.skip = run.skip /\ run'.done = run.done
      /\ run'.env = handed /\ run'.unchecked = run.unchecked /\ run'.saves = "no"
      /\ run' = [at |-> run'.at, step |-> run'.step, skip |-> run'.skip, done |-> run'.done,
                 env |-> run'.env, unchecked |-> run'.unchecked, saves |-> run'.saves]
  BY <1>1, <1>6
<1>8. /\ generated \in Nat /\ generated' \in Nat /\ handed \in Nat
      /\ (thing = "plaintext" => generated' = generated + 1 /\ handed = generated')
      /\ (thing # "plaintext" => generated' = generated /\ handed = run.env)
  <2>1. generated \in Nat /\ run.env \in Nat
    BY <1>1 DEF InstallInv, RunHolds
  <2>2. generated' = IF thing = "plaintext" THEN generated + 1 ELSE generated
    BY <1>3 DEF Leaves
  <2> QED BY <1>5, <2>1, <2>2
<1>9. /\ holds' = [h \in Holders |-> holds'[h]]
      /\ \A h \in Holders : holds'[h] = IF h = thing THEN run.env ELSE holds[h]
  BY <1>3 DEF InstallInv, Leaves
<1>10. /\ host \subseteq host' /\ thing \in host' \cup Forgiven \cup Plaintext
       /\ UNCHANGED <<file, finished, removing, ruined>>
  BY <1>3 DEF Leaves, PhaseWorks, Counted
<1>11. ASSUME handed # 0, NEW i \in Index, NEW k \in 1 .. Len(WorkOf[i]), WorkOf[i][k] \in Holders,
              i < run.at \/ (i = run.at /\ k < run.step + 1)
       PROVE  holds'[WorkOf[i][k]] = handed
  <2>1. i \in 11 .. 17
    BY <1>11, WorkIsListed, HolderPhases
  <2>2. k \in Nat
    BY <1>11, WorkIsListed
  <2>5. thing # "plaintext"
    <3>1. i < run.at \/ i = run.at
      BY <1>11
    <3>2. run.at \in 1 .. 22 /\ (thing = "plaintext" => run.at = 10)
      BY <1>1, <1>4
    <3> QED BY <2>1, <3>1, <3>2
  <2>3. CASE i = run.at /\ k = run.step
    BY <1>2, <1>8, <1>9, <1>11, <2>5, <2>3
  <2>4. CASE i < run.at \/ (i = run.at /\ k < run.step)
    BY <1>1, <1>8, <1>9, <1>11, <2>5, <2>4 DEF RunHolds
  <2> QED BY <1>1, <1>11, <2>2, <2>3, <2>4
<1>12. handed # 0 => handed = generated' /\ Phases[10] \notin run.skip
  BY <1>1, <1>4, <1>8 DEF RunHolds
<1>13. RunHolds'
  <2>1. run'.at \in 1 .. Len(Phases) + 1 /\ run'.step \in Nat \ {0} /\ run'.env \in Nat
    BY <1>1, <1>7, <1>8, PhaseCount
  <2>2. Unbroken(run.skip)' /\ Unbroken(run.done)' /\ (file' # None => file'.done \subseteq run'.done)
    BY <1>1, <1>7, <1>10 DEF RunHolds, Unbroken
  <2>3. \A i \in Index :
          /\ i < run'.at \/ Phases[i] \in run'.skip => Phases[i] \in run'.done
          /\ Phases[i] \in run'.done => i < run'.at \/ Phases[i] \in run'.skip
          /\ i = run'.at => Phases[i] \notin run'.skip
    BY <1>1, <1>7 DEF RunHolds
  <2> QED BY <1>7, <1>11, <1>12, <2>1, <2>2, <2>3 DEF RunHolds
<1>14. ASSUME ~ruined PROVE DoneHolds(run.done)' /\ WorkUnderWay'
  <2>1. DoneHolds(run.done) /\ WorkUnderWay
    BY <1>1, <1>14 DEF InstallInv
  <2>2. 16 \in Index /\ 17 \in Index
    BY PhaseCount
  <2>3. /\ Phases[16] \in run.done => thing # "plaintext"
        /\ Phases[17] \in run.done => thing # "plaintext" /\ thing \notin Holders
    <3>1. /\ Phases[16] \in run.done => 16 < run.at
          /\ Phases[17] \in run.done => 17 < run.at
      BY <2>2, DoneIsBefore DEF PhaseWorks
    <3>2. /\ run.at \in 1 .. 22 /\ (thing = "plaintext" => run.at = 10)
          /\ thing \in Holders => run.at \in 11 .. 17
      BY <1>1, <1>4
    <3> QED BY <3>1, <3>2
  <2>4. thing # "plaintext" => plain' = plain \/ plain' = 0
    BY <1>3 DEF Leaves
  <2>5. Phases[17] \in run.done => SecretsAgree'
    BY <1>8, <1>9, <2>1, <2>3 DEF DoneHolds, SecretsAgree
  <2>6. DoneHolds(run.done)'
    BY <1>7, <1>10, <2>1, <2>3, <2>4, <2>5 DEF DoneHolds
  <2>7. ASSUME NEW k \in 1 .. Len(WorkOf[run.at]), k < run.step + 1
        PROVE  WorkOf[run.at][k] \in host' \cup Forgiven \cup Plaintext
    <3>1. k \in Nat
      BY <1>1, <2>7, WorkIsListed
    <3>2. CASE k = run.step
      BY <1>2, <1>10, <3>2
    <3>3. CASE k < run.step
      BY <1>1, <1>10, <2>1, <2>7, <3>3 DEF WorkUnderWay
    <3> QED BY <1>1, <2>7, <3>1, <3>2, <3>3
  <2>8. run.at = 16 /\ run.step + 1 > 2 => plain' = 0
    <3>1. ASSUME run.at = 16, run.step + 1 > 2 PROVE thing = "no plaintext"
      <4>1. WorkOf[16] = SeedWork /\ Len(SeedWork) = 2 /\ SeedWork[2] = "no plaintext"
        BY WorkNumbers DEF SeedWork
      <4>2. run.step \in 1 .. 2
        BY <1>3, <3>1, <4>1
      <4>3. run.step = 2
        BY <3>1, <4>2
      <4> QED BY <1>2, <3>1, <4>1, <4>3
    <3> QED BY <1>3, <3>1 DEF Leaves
  <2> QED BY <1>7, <2>6, <2>7, <2>8 DEF WorkUnderWay
<1>15. ~ruined /\ file # None => DoneHolds(file.done)'
  BY <1>1, <1>7, <1>10, <1>14 DEF DoneHolds, RunHolds
<1> QED BY <1>1, <1>8, <1>9, <1>10, <1>13, <1>14, <1>15 DEF InstallInv, Unbroken

LEMMA InstallEnds ==
  ASSUME InstallInv, PhaseEnds
  PROVE  InstallInv'
<1>1. /\ run # None /\ run.at \in Index /\ RunHolds /\ removing = 0 /\ ~finished
      /\ run.at \in 1 .. 22 /\ run.step \in Nat /\ run.saves = "no" /\ Phases[run.at] \notin run.skip
      /\ run.step > Len(WorkOf[run.at]) /\ ~Refused(run.at)
      /\ UNCHANGED <<file, finished, removing, ruined, host, holds, plain, generated>>
  BY PhaseKnown DEF PhaseEnds, InPhase, Hosted, Counted
<1>2. PICK now : now = run.done \cup {Phases[run.at]}
  OBVIOUS
<1>3. run' = [at |-> run.at, step |-> run.step, skip |-> run.skip, done |-> now,
              env |-> run.env, unchecked |-> run.unchecked, saves |-> "on"]
  BY <1>1, <1>2 DEF RunHolds, PhaseEnds
<1>4. /\ run'.at = run.at /\ run'.step = run.step /\ run'.skip = run.skip /\ run'.done = now
      /\ run'.env = run.env /\ run'.unchecked = run.unchecked /\ run'.saves = "on"
      /\ run' = [at |-> run'.at, step |-> run'.step, skip |-> run'.skip, done |-> run'.done,
                 env |-> run'.env, unchecked |-> run'.unchecked, saves |-> run'.saves]
  BY <1>3
<1>5. \A i \in Index : Phases[i] \in now <=> Phases[i] \in run.done \/ i = run.at
  BY <1>1, <1>2, PhaseNames
<1>6. Unbroken(now)
  BY <1>1, <1>5 DEF RunHolds, Unbroken
<1>7. RunHolds'
  <2>1. \A i \in Index :
          /\ i < run.at \/ Phases[i] \in run.skip => Phases[i] \in now
          /\ Phases[i] \in now => i < run.at \/ Phases[i] \in run.skip \/ i = run.at
          /\ i = run.at => Phases[i] \notin run.skip
    BY <1>1, <1>5 DEF RunHolds
  <2>2. Unbroken(run.skip)' /\ Unbroken(run.done)' /\ (file' # None => file'.done \subseteq run'.done)
    BY <1>1, <1>2, <1>4, <1>6 DEF RunHolds, Unbroken
  <2>3. Phases[run.at] \in now
    BY <1>2
  <2> QED BY <1>1, <1>4, <2>1, <2>2, <2>3 DEF RunHolds
<1>8. ASSUME ~ruined PROVE DoneHolds(now) /\ WorkUnderWay
  <2>1. DoneHolds(run.done) /\ WorkUnderWay
    BY <1>1, <1>8 DEF InstallInv
  <2>2. Range(WorkOf[run.at]) \ (Forgiven \cup Plaintext) \subseteq host
    <3>1. \A k \in 1 .. Len(WorkOf[run.at]) : k < run.step
      BY <1>1, WorkIsListed
    <3>2. ASSUME NEW thing \in Range(WorkOf[run.at]) PROVE thing \in host \cup Forgiven \cup Plaintext
      <4>0. PICK i \in Index : i = run.at BY <1>1
      <4>1. PICK k \in 1 .. Len(WorkOf[i]) : thing = WorkOf[i][k]
        BY <3>2, <4>0, WorkIsListed
      <4> QED BY <1>1, <2>1, <3>1, <4>0, <4>1 DEF WorkUnderWay
    <3> QED BY <3>2
  <2>3. run.at = 16 => plain = 0
    <3>1. WorkOf[16] = SeedWork /\ Len(SeedWork) = 2
      BY WorkNumbers DEF SeedWork
    <3> QED BY <1>1, <2>1, <3>1 DEF WorkUnderWay
  <2>4. ASSUME run.at = 17 PROVE SecretsAgree
    <3>1. run.env # 0
      <4>1. Phases[17] = "Create LLDAP service account"
        BY DEF Phases
      <4> QED BY <1>1, <2>4, <4>1 DEF Refused, RefusesEmpty
    <3>2. ASSUME NEW h \in Holders PROVE holds[h] = run.env
      <4>1. PICK i \in 11 .. 17 : h \in Range(WorkOf[i])
        BY HolderPlaces
      <4>2. i \in Index
        BY PhaseCount
      <4>3. PICK k \in 1 .. Len(WorkOf[i]) : WorkOf[i][k] = h
        BY <4>1, <4>2, WorkIsListed
      <4>4. i < run.at \/ (i = run.at /\ k < run.step)
        BY <1>1, <2>4, <4>2, WorkIsListed
      <4> QED BY <1>1, <3>1, <4>2, <4>3, <4>4 DEF RunHolds
    <3> QED BY <1>1, <3>1, <3>2 DEF SecretsAgree, RunHolds
  <2>5. 16 \in Index /\ 17 \in Index
    BY PhaseCount
  <2> QED BY <1>5, <2>1, <2>2, <2>3, <2>4, <2>5 DEF DoneHolds
<1>9. ~ruined => DoneHolds(run.done)' /\ WorkUnderWay'
  BY <1>1, <1>4, <1>8 DEF DoneHolds, WorkUnderWay, SecretsAgree
<1> QED BY <1>1, <1>7, <1>9 DEF InstallInv, Unbroken, DoneHolds, SecretsAgree

LEMMA InstallStarts ==
  ASSUME InstallInv, InstallBegins
  PROVE  InstallInv'
<1>1. PICK before : before = IF file = None THEN {} ELSE file.done
  OBVIOUS
<1>2. PICK unchecked \in BOOLEAN :
        run' = [at |-> 1, step |-> 1, skip |-> before, done |-> before, env |-> 0,
                unchecked |-> unchecked, saves |-> "no"]
  BY <1>1 DEF InstallBegins
<1>3. /\ run'.at = 1 /\ run'.step = 1 /\ run'.skip = before /\ run'.done = before /\ run'.env = 0
      /\ run'.saves = "no"
      /\ run' = [at |-> run'.at, step |-> run'.step, skip |-> run'.skip, done |-> run'.done,
                 env |-> run'.env, unchecked |-> run'.unchecked, saves |-> run'.saves]
  BY <1>2
<1>4. /\ removing = 0 /\ UNCHANGED <<file, removing, ruined, host, holds, generated>>
      /\ finished' = FALSE /\ (file # None => plain' = plain)
  BY DEF InstallBegins, Counted
<1>5. Unbroken(before) /\ (file # None => file.done \subseteq before)
  BY <1>1 DEF InstallInv, Unbroken
<1>6. \A i \in Index : ~(i < 1)
  BY PhaseCount
<1>7. RunHolds'
  BY <1>3, <1>4, <1>5, <1>6, PhaseCount DEF RunHolds, Unbroken
<1>8. ASSUME ~ruined PROVE DoneHolds(run.done)' /\ WorkUnderWay'
  <2>1. DoneHolds(before) /\ (Phases[16] \in before => plain' = plain)
    BY <1>1, <1>4, <1>8 DEF InstallInv, DoneHolds
  <2>2. ASSUME NEW i \in Index, NEW k \in 1 .. Len(WorkOf[i]) PROVE ~(k < 1)
    BY WorkIsListed
  <2> QED BY <1>3, <1>4, <2>1, <2>2 DEF DoneHolds, WorkUnderWay, SecretsAgree
<1> QED BY <1>4, <1>7, <1>8 DEF InstallInv, Unbroken, DoneHolds, SecretsAgree

\* The next phase, or the end of a process that failed.
LEMMA InstallGoesOn ==
  ASSUME InstallInv, run # None, run.saves # "no", run' = Saved,
         UNCHANGED <<finished, removing, ruined>>, Hosted,
         file' # None => file'.done \subseteq run.done /\ Unbroken(file'.done)
  PROVE  InstallInv'
<1>1. RunHolds /\ removing = 0 /\ ~finished
  BY DEF InstallInv
<1>2. /\ removing' = 0 /\ ~finished'
      /\ ~ruined' /\ file' # None => DoneHolds(file.done)'
      /\ generated' \in Nat /\ removing' \in 0 .. Len(Removals)
      /\ holds' = [h \in Holders |-> holds'[h]]
      /\ file' # None => Unbroken(file.done)'
  BY <1>1 DEF InstallInv, Hosted, DoneHolds, SecretsAgree, Unbroken
<1>3. CASE run.saves # "on"
  BY <1>1, <1>2, <1>3 DEF Saved, InstallInv
<1>4. CASE run.saves = "on"
  <2>1. run' = [at |-> run.at + 1, step |-> 1, skip |-> run.skip, done |-> run.done,
                env |-> run.env, unchecked |-> run.unchecked, saves |-> "no"]
    BY <1>1, <1>4 DEF Saved, RunHolds
  <2>2. /\ run'.at = run.at + 1 /\ run'.step = 1 /\ run'.skip = run.skip /\ run'.done = run.done
        /\ run'.env = run.env /\ run'.saves = "no"
        /\ run' = [at |-> run'.at, step |-> run'.step, skip |-> run'.skip, done |-> run'.done,
                   env |-> run'.env, unchecked |-> run'.unchecked, saves |-> run'.saves]
    BY <2>1
  <2>3. run.at \in 1 .. 22 /\ run.at \in Index
    BY <1>1, <1>4, PhaseCount DEF RunHolds
  <2>4. \A i \in Index : i < run.at + 1 <=> (i < run.at \/ i = run.at)
    BY <2>3, PhaseCount
  <2>5. \A i \in Index :
          /\ i < run'.at \/ Phases[i] \in run'.skip => Phases[i] \in run'.done
          /\ Phases[i] \in run'.done => i < run'.at \/ Phases[i] \in run'.skip
    <3>1. \A i \in Index :
            /\ i < run.at \/ Phases[i] \in run.skip => Phases[i] \in run.done
            /\ Phases[i] \in run.done => i < run.at \/ Phases[i] \in run.skip \/ i = run.at
      BY <1>1 DEF RunHolds
    <3>2. Phases[run.at] \in run.done
      BY <1>1, <1>4 DEF RunHolds
    <3> QED BY <2>2, <2>4, <3>1, <3>2
  <2>6. ASSUME NEW i \in Index, NEW k \in 1 .. Len(WorkOf[i]) PROVE ~(k < 1)
    BY WorkIsListed
  <2>7. ASSUME run.env # 0, NEW i \in Index, NEW k \in 1 .. Len(WorkOf[i]), WorkOf[i][k] \in Holders,
               i < run.at \/ i = run.at
        PROVE  holds[WorkOf[i][k]] = run.env
    <3>1. i < run.at \/ (i = run.at /\ k < run.step)
      BY <1>1, <1>4, <2>3, <2>7, WorkIsListed DEF RunHolds
    <3> QED BY <1>1, <2>7, <3>1 DEF RunHolds
  <2>8. /\ run'.at \in 1 .. Len(Phases) + 1 /\ run'.step \in Nat \ {0} /\ run'.env \in Nat
        /\ Unbroken(run.skip)' /\ Unbroken(run.done)' /\ (file' # None => file'.done \subseteq run'.done)
        /\ (run.env # 0 => run.env = generated /\ Phases[10] \notin run.skip)
    <3>1. Unbroken(run.skip)' /\ Unbroken(run.done)'
      BY <1>1, <2>2 DEF RunHolds, Unbroken
    <3>2. file' # None => file'.done \subseteq run'.done
      BY <1>1, <2>2 DEF RunHolds
    <3>3. run.env \in Nat /\ (run.env # 0 => run.env = generated /\ Phases[10] \notin run.skip)
      BY <1>1 DEF RunHolds
    <3>4. run'.at \in 1 .. Len(Phases) + 1 /\ run'.step \in Nat \ {0}
      BY <2>2, <2>3, PhaseCount
    <3> QED BY <2>2, <3>1, <3>2, <3>3, <3>4
  <2>9. RunHolds'
    BY <2>2, <2>4, <2>5, <2>6, <2>7, <2>8 DEF RunHolds, Hosted
  <2>10. ~ruined' => DoneHolds(run.done)' /\ WorkUnderWay'
    BY <1>1, <2>2, <2>6 DEF InstallInv, DoneHolds, WorkUnderWay, Hosted, SecretsAgree
  <2> QED BY <1>2, <2>9, <2>10 DEF InstallInv
<1> QED BY <1>3, <1>4

LEMMA InstallStops ==
  ASSUME InstallInv, Finishes
  PROVE  InstallInv'
<1>1. RunHolds /\ removing = 0 /\ run.at > 22
  BY PhaseCount DEF InstallInv, Finishes
<1>2. /\ file' = None /\ run' = None
      /\ UNCHANGED <<removing, ruined, host, holds, plain, generated>>
  BY DEF Finishes, Hosted, Counted
<1>3. 16 \in Index /\ 17 \in Index /\ 16 < run.at /\ 17 < run.at
  <2>1. run.at \in 1 .. 23
    BY <1>1, PhaseCount DEF RunHolds
  <2> QED BY <1>1, <2>1, PhaseCount
<1>4. Phases[16] \in run.done /\ Phases[17] \in run.done
  BY <1>1, <1>3 DEF RunHolds
<1>5. ~ruined => plain = 0 /\ SecretsAgree
  BY <1>1, <1>4 DEF InstallInv, DoneHolds, Finishes
<1> QED BY <1>1, <1>2, <1>5 DEF InstallInv, SecretsAgree

LEMMA InstallBoots ==
  ASSUME InstallInv, PowerIsLost \/ Reboots
  PROVE  InstallInv'
<1>1. /\ run' = None /\ host' = Rebooted(host) /\ UNCHANGED <<holds, plain, generated, finished>>
      /\ removing' = 0 /\ (removing' = 0 /\ ~ruined' => removing = 0 /\ ~ruined)
      /\ file' = file \/ (file' # None => file'.done = {})
  <2>1. CASE Reboots
    BY <2>1 DEF Reboots, Counted
  <2>2. CASE PowerIsLost
    <3>1. run' = None /\ removing' = 0 /\ host' = Rebooted(host) /\ UNCHANGED <<holds, plain, generated, finished>>
      BY <2>2 DEF PowerIsLost
    <3>2. ~ruined' => removing = 0 /\ ~ruined
      BY <2>2 DEF PowerIsLost
    <3>3. file' = file \/ file'.done = {}
      BY <2>2 DEF PowerIsLost
    <3> QED BY <3>1, <3>2, <3>3
  <2> QED BY <2>1, <2>2
<1>2. \A names : DoneHolds(names) => DoneHolds(names)'
  BY <1>1, RebootKeeps DEF DoneHolds, SecretsAgree
<1>3. Unbroken({}) /\ DoneHolds({})'
  BY DEF Unbroken, DoneHolds
<1>4. removing' \in 0 .. Len(Removals)
  BY <1>1, RemovalCount
<1>5. file' # None => Unbroken(file.done)'
  BY <1>1, <1>3 DEF InstallInv, Unbroken
<1>6. file' # None /\ ~ruined' => DoneHolds(file.done)'
  BY <1>1, <1>2, <1>3 DEF InstallInv, DoneHolds
<1> QED BY <1>1, <1>4, <1>5, <1>6 DEF InstallInv, SecretsAgree

LEMMA InstallRemoves ==
  ASSUME InstallInv, UninstallBegins \/ Removes
  PROVE  InstallInv'
<1>1. CASE UninstallBegins
  <2>1. /\ run = None /\ run' = None /\ removing' = 1 /\ finished' = FALSE
        /\ UNCHANGED <<file, holds, generated>>
    BY <1>1 DEF UninstallBegins, Hosted
  <2> QED BY <2>1, RemovalCount DEF InstallInv, Unbroken
<1>2. CASE Removes
  <2>1. /\ removing # 0 /\ removing \in 0 .. 15 /\ run = None /\ ~finished
        /\ UNCHANGED <<run, generated, finished>>
        /\ removing' = IF removing = 15 THEN 0 ELSE removing + 1
        /\ file' = IF removing \in {9, 13} THEN None ELSE file
        /\ holds' = [h \in Holders |-> holds'[h]]
    BY <1>2, RemovalCount DEF Removes, RemovesState, InstallInv
  <2>2. /\ removing' \in 0 .. Len(Removals)
        /\ removing > 9 => file' = None
        /\ removing' > 9 => file' = None
        /\ removing' = 0 => file' = None
    BY <2>1, RemovalCount DEF InstallInv
  <2>3. file' # None => Unbroken(file.done)'
    BY <2>1 DEF InstallInv, Unbroken
  <2> QED BY <2>1, <2>2, <2>3 DEF InstallInv
<1> QED BY <1>1, <1>2

LEMMA InstallStep ==
  ASSUME InstallInv, [InstallNext]_installVars
  PROVE  InstallInv'
<1>1. CASE UNCHANGED installVars
  BY <1>1 DEF installVars, InstallInv, RunHolds, DoneHolds, WorkUnderWay, SecretsAgree, Unbroken
<1>2. ASSUME PhaseRefuses \/ PhaseFails \/ NeedsReboot PROVE InstallInv'
  BY <1>2, InstallFails DEF PhaseRefuses, PhaseFails, NeedsReboot, InPhase, Counted
<1>3. ASSUME Saves PROVE InstallInv'
  <2>1. PICK f : f = [whole |-> TRUE, done |-> run.done, unchecked |-> run.unchecked]
    OBVIOUS
  <2>2. file'.done = run.done /\ Unbroken(run.done)
    BY <1>3 DEF Saves, InstallInv, RunHolds
  <2> QED BY <1>3, <2>2, InstallGoesOn DEF Saves, Counted, Unbroken
<1>4. ASSUME SaveIsLost PROVE InstallInv'
  <2>1. file # None => file.done \subseteq run.done /\ Unbroken(file.done)
    BY <1>4 DEF SaveIsLost, InstallInv, RunHolds
  <2> QED BY <1>4, <2>1, InstallGoesOn DEF SaveIsLost
<1> QED
  BY <1>1, <1>2, <1>3, <1>4, InstallStarts, InstallSkips, InstallWorks, InstallEnds, InstallStops,
     InstallBoots, InstallRemoves
     DEF InstallNext

\* RunInstallWithEvents and RunUninstall, through any failures, losses of power, lost saves
\* and reboots: what a process will skip has been done and still runs, and an
\* installation that reports completion left one generation of secrets, none in plain text.
THEOREM InstallSound == PlatformSpec => []InstallIsSound
<1>1. PlatformInit => InstallInv
  BY RemovalCount DEF PlatformInit, InstallInit, InstallInv
<1>2. InstallInv /\ [PlatformNext]_platformVars => InstallInv'
  BY HostSteps, InstallStep
<1>3. InstallInv => InstallIsSound
  <2> SUFFICES ASSUME InstallInv PROVE InstallIsSound
    OBVIOUS
  <2>1. ResumeIsSound
    BY DEF InstallInv, ResumeIsSound, DoneHolds
  <2>2. FinishedAgrees
    BY DEF InstallInv, FinishedAgrees, SecretsAgree
  <2> QED BY <2>1, <2>2 DEF InstallIsSound
<1> QED BY <1>1, <1>2, <1>3, PTL DEF PlatformSpec
=============================================================================
