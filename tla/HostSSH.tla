------------------------------ MODULE HostSSH ------------------------------
(***************************************************************************)
(* cmd/hostctl and internal/bfl: the owner turns the host's SSH server on  *)
(* or off and chooses its port.  Requests hold no lock: they interleave    *)
(* command by command, and each command may fail.                          *)
(***************************************************************************)
EXTENDS Naturals, Values

CONSTANTS
  SSHRequests,
  Ports,           \* the ports that are asked for
  MaxSSHFaults     \* commands that fail, restarts of hostctl (a bound)

ASSUME SSHAssumption == Ports \subseteq Nat /\ None \notin Ports /\ None # 22

VARIABLES
  portLine,    \* the Port of sshd_config, or None when it has no such line
  daemon,      \* the port sshd listens on, or None
  socket,      \* ssh.socket listens
  atBoot,      \* the units that start with the host
  sshReq,      \* each request
  sshOnly,     \* the last request, when none overlapped it
  sshFailed,   \* a command failed or a request was cut off
  sshFaults

sshVars == <<portLine, daemon, socket, atBoot, sshReq, sshOnly, sshFailed, sshFaults>>

sshUnits == <<daemon, socket, atBoot>>

SSHIdle(r) == sshReq[r].at \in {"idle", "done"}

SSHAt(r, at) == sshReq[r].at = at

SSHGoes(r, at) == sshReq' = [sshReq EXCEPT ![r].at = at]

SSHFault == sshFaults < MaxSSHFaults /\ sshFaults' = sshFaults + 1 /\ sshFailed' = TRUE

NoSSHFault == UNCHANGED <<sshFailed, sshFaults>>

PortAllowed(p) == p = 22 \/ p \in 1024..65535

\* What getSSHStatus reports.
SSHPort == IF portLine = None THEN 22 ELSE portLine

SSHEnabled == daemon # None \/ socket

\* handleSSHSettings passes the request on to handleSSHConfig.
SSHAsked(r, on, port) ==
  /\ SSHAt(r, "idle") /\ PortAllowed(port)
  /\ sshReq' = [sshReq EXCEPT ![r] = [at |-> "port", on |-> on, port |-> port]]
  /\ sshOnly' = IF \A o \in SSHRequests : SSHIdle(o) THEN r ELSE None
  /\ UNCHANGED <<portLine, sshUnits>> /\ NoSSHFault

\* setSSHPort: sed edits the Port lines there are.
PortSet(r) ==
  /\ SSHAt(r, "port")
  /\ portLine' = IF portLine = None THEN None ELSE sshReq[r].port
  /\ SSHGoes(r, IF sshReq[r].on THEN "enable" ELSE "socket")
  /\ UNCHANGED <<sshUnits, sshOnly>> /\ NoSSHFault

\* sed or the restart fails: the request ends there.
SSHGivesUp(r) ==
  /\ SSHAt(r, "port") \/ SSHAt(r, "restart")
  /\ daemon' = IF SSHAt(r, "restart") THEN None ELSE daemon
  /\ SSHGoes(r, "done") /\ SSHFault
  /\ UNCHANGED <<portLine, socket, atBoot, sshOnly>>

ServiceEnabled(r) ==
  /\ SSHAt(r, "enable")
  /\ \/ atBoot' = atBoot \cup {"service"} /\ NoSSHFault
     \/ UNCHANGED atBoot /\ SSHFault
  /\ SSHGoes(r, "restart")
  /\ UNCHANGED <<portLine, daemon, socket, sshOnly>>

\* sshd reads its configuration; under a socket it is given the socket's port.
Listens == IF socket THEN 22 ELSE SSHPort

ServiceRestarted(r) ==
  /\ SSHAt(r, "restart")
  /\ daemon' = Listens
  /\ SSHGoes(r, "done")
  /\ UNCHANGED <<portLine, socket, atBoot, sshOnly>> /\ NoSSHFault

SocketLeft(r) ==   \* a slip: only the service is stopped
  /\ SSHAt(r, "socket") /\ SSHGoes(r, "stop")
  /\ UNCHANGED <<portLine, sshUnits, sshOnly>> /\ NoSSHFault

\* Stop and disable, socket first, errors ignored.
SocketStopped(r) ==
  /\ SSHAt(r, "socket")
  /\ \/ socket' = FALSE /\ atBoot' = atBoot \ {"socket"} /\ NoSSHFault
     \/ socket' \in {socket, FALSE} /\ UNCHANGED atBoot /\ SSHFault
  /\ SSHGoes(r, "stop")
  /\ UNCHANGED <<portLine, daemon, sshOnly>>

ServiceStopped(r) ==
  /\ SSHAt(r, "stop")
  /\ \/ daemon' = None /\ NoSSHFault
     \/ UNCHANGED daemon /\ SSHFault
  /\ SSHGoes(r, "disable")
  /\ UNCHANGED <<portLine, socket, atBoot, sshOnly>>

ServiceDisabled(r) ==
  /\ SSHAt(r, "disable")
  /\ \/ atBoot' = atBoot \ {"service"} /\ NoSSHFault
     \/ UNCHANGED atBoot /\ SSHFault
  /\ SSHGoes(r, "done")
  /\ UNCHANGED <<portLine, daemon, socket, sshOnly>>

\* A connection to the socket starts the service.
SocketUsed ==
  /\ socket /\ daemon = None
  /\ daemon' = Listens
  /\ UNCHANGED <<portLine, socket, atBoot, sshReq, sshOnly>> /\ NoSSHFault

\* The host restarts: requests are cut off, and systemd starts what is enabled.
SSHHostReboots ==
  /\ sshFaults < MaxSSHFaults /\ sshFaults' = sshFaults + 1
  /\ sshFailed' = (sshFailed \/ \E r \in SSHRequests : ~SSHIdle(r))
  /\ sshReq' = [r \in SSHRequests |-> [sshReq[r] EXCEPT !.at = IF @ = "idle" THEN @ ELSE "done"]]
  /\ socket' = ("socket" \in atBoot)
  /\ daemon' = IF "service" \in atBoot THEN IF socket' THEN 22 ELSE SSHPort ELSE None
  /\ UNCHANGED <<portLine, atBoot, sshOnly>>

\* Distributions differ: a service or a socket, with or without a Port line.
SSHInit ==
  /\ portLine \in {None, 22}
  /\ \E unit \in {"service", "socket"} :
       /\ atBoot = {unit} /\ socket = (unit = "socket")
       /\ daemon = IF socket THEN None ELSE 22
  /\ sshReq = [r \in SSHRequests |-> [at |-> "idle", on |-> FALSE, port |-> 22]]
  /\ sshOnly = None /\ sshFailed = FALSE /\ sshFaults = 0

SSHNext ==
  \/ \E r \in SSHRequests :
       \/ \E on \in BOOLEAN, port \in Ports : SSHAsked(r, on, port)
       \/ PortSet(r) \/ SSHGivesUp(r) \/ ServiceEnabled(r) \/ ServiceRestarted(r)
       \/ SocketStopped(r) \/ ServiceStopped(r) \/ ServiceDisabled(r)
  \/ SocketUsed \/ SSHHostReboots

SSHTypeOK ==
  /\ {portLine, daemon} \subseteq Ports \cup {22, None}
  /\ socket \in BOOLEAN /\ atBoot \subseteq {"service", "socket"}
  /\ sshReq \in [SSHRequests ->
       [at : {"idle", "port", "enable", "restart", "socket", "stop", "disable", "done"},
        on : BOOLEAN, port : Ports \cup {22}]]
  /\ sshOnly \in SSHRequests \cup {None} /\ sshFailed \in BOOLEAN

(***************************************************************************)
(* The status agrees with the host: once no request runs and no command    *)
(* failed, sshd listens on the port that is reported however requests for  *)
(* different ports interleaved (main.go:199, 209), unless it runs under a  *)
(* socket; that port is one the handler allows; and a request that none    *)
(* overlapped has its way, also after the host restarts.                   *)
(***************************************************************************)
SSHAgrees ==
  (\A r \in SSHRequests : SSHIdle(r)) /\ ~sshFailed =>
    /\ daemon # None /\ ~socket => daemon = SSHPort
    /\ PortAllowed(SSHPort)
    /\ sshOnly # None => SSHEnabled = sshReq[sshOnly].on
=============================================================================
