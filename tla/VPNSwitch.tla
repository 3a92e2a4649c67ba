----------------------------- MODULE VPNSwitch -----------------------------
(***************************************************************************)
(* How bfl switches between VPNs and sets a custom domain (vpn.go,         *)
(* network.go, tls.go) and closes the proxy to bare addresses (server.go). *)
(* The choice is kept in the ConfigMap packalares-network; a certificate,  *)
(* the proxy's configuration and two deployments are derived from it, and  *)
(* the proxy is restarted to load them.  Requests run at the same time,    *)
(* and their tails in goroutines of their own.  An address of a VPN is     *)
(* written as that VPN's name.                                             *)
(***************************************************************************)
EXTENDS Naturals, Values

CONSTANTS
  Domains,       \* custom domains
  Changes,       \* requests and goroutines at a time (a bound)
  MaxRequests,   \* requests (a bound)
  MaxSlips       \* API calls and commands that fail (a bound)

VPNs == {"tailscale", "wireguard"}
CertNames == [vpn : VPNs \cup {None}, domain : Domains \cup {None}]
ProxyConfs == [vpn : VPNs \cup {None}, domain : Domains \cup {None}, closed : BOOLEAN]
Services == {"auth", "app-service"}
NetworkMaps == [vpn : VPNs \cup {None}, domain : Domains \cup {None}, version : Nat]

\* A change of the network at one of its steps: a VPN on or off, or a custom domain.
NetworkChanges ==
  [kind : {"enable", "disable", "domain"}, vpn : VPNs \cup {None}, domain : Domains \cup {None},
   at : {"host", "poll", "copy", "store", "gather", "cert", "render", "write", "env", "restart"},
   copy : NetworkMaps \cup {None}, conf : ProxyConfs \cup {None}]

\* Bare addresses being let in or not.
IPChanges == [kind : {"ip"}, vpn : {None}, domain : {None}, at : {"setting", "edit", "restart"},
              copy : {None}, conf : BOOLEAN]

ASSUME SwitchAssumption == None \notin NetworkChanges \cup IPChanges

VARIABLES
  netmap,     \* packalares-network: vpn, domain and resourceVersion (0: there is none)
  cert,       \* the names in the zone's certificate
  proxyConf,  \* proxy-config: its addresses and domain, and whether bare addresses get 403
  ipAccess,   \* ip_access_enabled in packalares-settings
  env,        \* CUSTOM_DOMAIN of the services' deployments
  loaded,     \* what the running proxy was started with, or None
  tailscale,  \* the Tailscale deployment: "off", "starting" or "up"
  change,     \* the changes under way
  alone,      \* the last change of the network ran beside no other, and nothing failed since
  cut,        \* a change ended after it wrote and before it restarted the proxy
  requests, slips

derivedVars == <<cert, proxyConf, env, loaded>>
switchVars == <<netmap, ipAccess, derivedVars, tailscale, change, alone, cut, requests, slips>>

ChangeAt(c, step) == change[c] # None /\ change[c].at = step

ChangeGoes(c, step) == change' = [change EXCEPT ![c].at = step]

ChangeEnds(c) == change' = [change EXCEPT ![c] = None]

Quiet == \A c \in Changes : change[c] = None

\* A call fails; the change is not one that worked.
Slips ==
  /\ slips < MaxSlips /\ slips' = slips + 1
  /\ alone' = FALSE

Works == UNCHANGED <<slips, alone>>

\* getActiveVPNIP: without a recorded VPN, a running Tailscale counts.
ActiveVPN ==
  IF netmap.vpn # None THEN netmap.vpn ELSE IF tailscale = "up" THEN "tailscale" ELSE None

Begins(c, task) ==
  /\ change[c] = None /\ requests < MaxRequests
  /\ requests' = requests + 1
  /\ alone' = (Quiet /\ (task.kind = "ip" => alone))
  /\ change' = [change EXCEPT ![c] = task]
  /\ UNCHANGED <<netmap, ipAccess, derivedVars, cut>>

Task(kind, vpn, domain, step) ==
  [kind |-> kind, vpn |-> vpn, domain |-> domain, at |-> step, copy |-> None, conf |-> None]

\* disableTailscale, when its deployment can be deleted.
TailscaleStops ==
  \/ tailscale' = "off" /\ UNCHANGED slips
  \/ slips < MaxSlips /\ slips' = slips + 1 /\ UNCHANGED tailscale

\* handleWireGuardEnable: a recorded Tailscale is stopped first.
WireGuardEnables(c) ==
  /\ Begins(c, Task("enable", "wireguard", None, "host"))
  /\ IF netmap.vpn = "tailscale" THEN TailscaleStops ELSE UNCHANGED <<tailscale, slips>>

\* The request to hostctl; if it fails nothing more is done.
HostAnswers(c) ==
  /\ ChangeAt(c, "host")
  /\ \/ ChangeGoes(c, "copy") /\ Works
     \/ ChangeEnds(c) /\ Slips
  /\ UNCHANGED <<netmap, ipAccess, derivedVars, tailscale, cut, requests>>

\* handleWireGuardDisable: hostctl's error is only logged.
WireGuardDisables(c) ==
  /\ Begins(c, Task("disable", None, None, "copy"))
  /\ UNCHANGED <<tailscale, slips>>

\* handleTailscaleDisable.
TailscaleDisables(c) ==
  /\ Begins(c, Task("disable", None, None, "copy"))
  /\ TailscaleStops

\* handleTailscaleSettings: the deployment is made or restarted, WireGuard is left as it is.
TailscaleEnables(c) ==
  /\ Begins(c, Task("enable", "tailscale", None, "poll"))
  /\ tailscale' = "starting"
  /\ UNCHANGED slips

TailscaleRuns ==
  /\ tailscale = "starting"
  /\ tailscale' = "up"
  /\ UNCHANGED <<netmap, ipAccess, derivedVars, change, alone, cut, requests, slips>>

\* afterTailscaleEnabled: an address within 30 seconds, or nothing more is done.
TailscaleAnswers(c) ==
  /\ ChangeAt(c, "poll")
  /\ \/ tailscale = "up" /\ ChangeGoes(c, "copy") /\ UNCHANGED alone
     \/ tailscale # "up" /\ ChangeEnds(c) /\ alone' = FALSE
  /\ UNCHANGED <<netmap, ipAccess, derivedVars, tailscale, cut, requests, slips>>

\* handleCustomDomain.
DomainSets(c) ==
  /\ \E d \in Domains \cup {None} : Begins(c, Task("domain", None, d, "copy"))
  /\ UNCHANGED <<tailscale, slips>>

\* setVPNState and setCustomDomain read the whole ConfigMap.
NetworkReads(c) ==
  /\ ChangeAt(c, "copy")
  /\ change' = [change EXCEPT ![c].at = "store", ![c].copy = netmap]
  /\ UNCHANGED <<netmap, ipAccess, derivedVars, tailscale, alone, cut, requests, slips>>

\* What a change writes back: its copy with one key set.
Edited(task) ==
  IF task.kind = "domain" THEN [task.copy EXCEPT !.domain = task.domain, !.version = @ + 1]
                          ELSE [task.copy EXCEPT !.vpn = task.vpn, !.version = @ + 1]

StoresAnyway(c) == TRUE   \* a slip: the resource version is not sent

\* Update and Create refuse a copy that is out of date.
Stores(c) == change[c].copy.version = netmap.version

\* A conflict ends a custom domain's request; a VPN's change goes on regardless.
NetworkStores(c) ==
  /\ ChangeAt(c, "store")
  /\ \/ Stores(c) /\ netmap' = Edited(change[c]) /\ ChangeGoes(c, "gather") /\ Works
     \/ /\ (~Stores(c) /\ UNCHANGED slips /\ alone' = FALSE) \/ Slips
        /\ IF change[c].kind = "domain" THEN ChangeEnds(c) ELSE ChangeGoes(c, "gather")
        /\ UNCHANGED netmap
  /\ UNCHANGED <<ipAccess, derivedVars, tailscale, cut, requests>>

AskedVPN(c) == change[c].vpn   \* a slip: a custom domain's certificate forgets the VPN

\* The VPN whose address the certificate is to name.
CertVPN(c) == IF change[c].kind = "domain" THEN ActiveVPN ELSE change[c].vpn

\* What the certificate is to name is read; without a zone the change ends here.
Gathers(c) ==
  /\ ChangeAt(c, "gather")
  /\ \/ /\ change' = [change EXCEPT ![c].at = "cert", ![c].copy = None,
                       ![c].vpn = CertVPN(c),
                       ![c].domain = IF change[c].kind = "domain" THEN @ ELSE netmap.domain]
        /\ Works
     \/ ChangeEnds(c) /\ Slips
  /\ UNCHANGED <<netmap, ipAccess, derivedVars, tailscale, cut, requests>>

\* regenerateTLSCert: the change ends where it fails.
CertWrites(c) ==
  /\ ChangeAt(c, "cert")
  /\ \/ /\ cert' = [vpn |-> change[c].vpn, domain |-> change[c].domain]
        /\ ChangeGoes(c, "render") /\ Works
     \/ ChangeEnds(c) /\ Slips /\ UNCHANGED cert
  /\ UNCHANGED <<netmap, ipAccess, proxyConf, env, loaded, tailscale, cut, requests>>

AfterProxy(c) == IF change[c].kind = "domain" THEN "env" ELSE "restart"

RenderEnds(c) == ChangeEnds(c)   \* a slip: the change ends where its configuration fails

\* A failure of regenerateNginxConfig is only logged.
RenderFails(c) == ChangeGoes(c, AfterProxy(c))

\* regenerateNginxConfig reads what is stored by now, but not ipAccess: the proxy opens again.
ProxyRenders(c) ==
  /\ ChangeAt(c, "render")
  /\ \/ /\ change' = [change EXCEPT ![c].at = "write",
                        ![c].conf = [vpn |-> ActiveVPN, domain |-> netmap.domain, closed |-> FALSE]]
        /\ Works
     \/ RenderFails(c) /\ Slips
  /\ UNCHANGED <<netmap, ipAccess, derivedVars, tailscale, cut, requests>>

ProxyWrites(c) ==
  /\ ChangeAt(c, "write")
  /\ \/ proxyConf' = change[c].conf /\ Works
     \/ Slips /\ UNCHANGED proxyConf
  /\ ChangeGoes(c, AfterProxy(c))
  /\ UNCHANGED <<netmap, ipAccess, cert, env, loaded, tailscale, cut, requests>>

\* setCustomDomainOnServices: either deployment may be left as it is.
EnvSets(c) ==
  /\ ChangeAt(c, "env")
  /\ \/ env' = [s \in Services |-> change[c].domain] /\ Works
     \/ \E s \in Services : env' = [env EXCEPT ![s] = change[c].domain] /\ Slips
  /\ ChangeGoes(c, "restart")
  /\ UNCHANGED <<netmap, ipAccess, cert, proxyConf, loaded, tailscale, cut, requests>>

\* handleIPAccess.
IPAccessSets(c) ==
  /\ \E open \in BOOLEAN : Begins(c, [Task("ip", None, None, "setting") EXCEPT !.conf = open])
  /\ UNCHANGED <<tailscale, slips>>

\* The setting is stored, then the proxy's configuration is edited; each may fail alone.
IPAccessStores(c) ==
  /\ ChangeAt(c, "setting")
  /\ \/ ipAccess' = change[c].conf /\ ChangeGoes(c, "edit") /\ Works
     \/ ChangeEnds(c) /\ Slips /\ UNCHANGED ipAccess
  /\ UNCHANGED <<netmap, derivedVars, tailscale, cut, requests>>

IPAccessEdits(c) ==
  /\ ChangeAt(c, "edit")
  /\ \/ proxyConf' = [proxyConf EXCEPT !.closed = ~change[c].conf] /\ ChangeGoes(c, "restart") /\ Works
     \/ ChangeEnds(c) /\ Slips /\ UNCHANGED proxyConf
  /\ UNCHANGED <<netmap, ipAccess, cert, env, loaded, tailscale, cut, requests>>

\* restartProxy deletes the pods it lists, unless it cannot list them.
ProxyRestarts(c) ==
  /\ ChangeAt(c, "restart")
  /\ \/ loaded' = None /\ cut' = FALSE /\ Works
     \/ Slips /\ cut' = TRUE /\ UNCHANGED loaded
  /\ ChangeEnds(c)
  /\ UNCHANGED <<netmap, ipAccess, cert, proxyConf, env, tailscale, requests>>

\* The deployment's next pod.
ProxyStarts ==
  /\ loaded = None
  /\ loaded' = [cert |-> cert, conf |-> proxyConf]
  /\ UNCHANGED <<netmap, ipAccess, cert, proxyConf, env, tailscale, change, alone, cut, requests, slips>>

Writing(c) == change[c] # None /\ change[c].at \in {"render", "write", "env", "restart"}

\* bfl ends, and with it every change under way.
BflRestarts ==
  /\ ~Quiet /\ Slips
  /\ change' = [c \in Changes |-> None]
  /\ cut' = (cut \/ \E c \in Changes : Writing(c))
  /\ UNCHANGED <<netmap, ipAccess, derivedVars, tailscale, requests>>

SwitchInit ==
  LET nothing == [vpn |-> None, domain |-> None] IN
    /\ netmap = [vpn |-> None, domain |-> None, version |-> 0]
    /\ cert = nothing
    /\ proxyConf = [vpn |-> None, domain |-> None, closed |-> FALSE]
    /\ loaded = [cert |-> cert, conf |-> proxyConf]
    /\ ipAccess = TRUE
    /\ env = [s \in Services |-> None]
    /\ tailscale = "off"
    /\ change = [c \in Changes |-> None]
    /\ alone = TRUE /\ cut = FALSE /\ requests = 0 /\ slips = 0

SwitchNext ==
  \/ \E c \in Changes :
       \/ WireGuardEnables(c) \/ WireGuardDisables(c) \/ HostAnswers(c)
       \/ TailscaleEnables(c) \/ TailscaleDisables(c) \/ TailscaleAnswers(c)
       \/ DomainSets(c) \/ NetworkReads(c) \/ NetworkStores(c) \/ Gathers(c)
       \/ IPAccessSets(c) \/ IPAccessStores(c) \/ IPAccessEdits(c)
       \/ CertWrites(c) \/ ProxyRenders(c) \/ ProxyWrites(c) \/ EnvSets(c) \/ ProxyRestarts(c)
  \/ TailscaleRuns \/ ProxyStarts \/ BflRestarts

SwitchTypeOK ==
  /\ netmap \in [vpn : VPNs \cup {None}, domain : Domains \cup {None}, version : 0 .. MaxRequests]
  /\ cert \in CertNames /\ proxyConf \in ProxyConfs /\ ipAccess \in BOOLEAN
  /\ env \in [Services -> Domains \cup {None}]
  /\ loaded \in [cert : CertNames, conf : ProxyConfs] \cup {None}
  /\ tailscale \in {"off", "starting", "up"}
  /\ alone \in BOOLEAN /\ cut \in BOOLEAN

ProxyIsCurrent ==
  loaded = None \/ loaded = [cert |-> cert, conf |-> proxyConf] \/ cut
    \/ \E c \in Changes : Writing(c)

NetworkAgrees ==
  Quiet /\ alone =>
    /\ {cert.domain, proxyConf.domain} = {netmap.domain}
    /\ netmap.vpn # None => {cert.vpn, proxyConf.vpn} = {netmap.vpn}

KeysKeptApart == netmap'.vpn = netmap.vpn \/ netmap'.domain = netmap.domain

(***************************************************************************)
(* Changes that overlap and fail, each with a tail that goes on after its  *)
(* request was answered, leave the network consistent: no write of the     *)
(* shared ConfigMap undoes the other's key (setVPNState, setCustomDomain); *)
(* once they are over the proxy runs with the certificate and              *)
(* configuration that are stored, unless a change was cut off before its   *)
(* restart; and a change that runs alone and fails nowhere brings both to  *)
(* what is stored, whatever earlier changes left behind.                   *)
(***************************************************************************)
SwitchSettles == [](ProxyIsCurrent /\ NetworkAgrees) /\ [][KeysKeptApart]_switchVars
=============================================================================
