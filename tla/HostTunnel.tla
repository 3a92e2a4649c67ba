----------------------------- MODULE HostTunnel -----------------------------
(***************************************************************************)
(* The WireGuard tunnel of the host as cmd/hostctl sets it up: wg-quick,   *)
(* the scripts it runs, the firewall chains, /etc/resolv.conf and the unit *)
(* that brings the tunnel up at boot.  A request is a list of host         *)
(* commands, most of whose errors are ignored; the host may lose power and *)
(* hostctl may end between any two.  Requests are made one at a time, and  *)
(* a configuration names a DNS server and an endpoint.                     *)
(***************************************************************************)
EXTENDS FiniteSets, Naturals, Values

CONSTANTS
  Peers,         \* endpoints of the tunnel
  Originals,     \* what /etc/resolv.conf may be at first: "link" or "file"
  Torn,          \* wg0.conf after a write that was cut short
  Wanted,        \* the configurations that are asked for (a bound)
  TunnelFaults,  \* the commands that may fail: the steps named below (a bound)
  MaxOutages,    \* power losses and ends of hostctl (a bound)
  MaxFailures    \* failing commands (a bound)

Config == [mode : {"full", "dns-only"}, kill : BOOLEAN, peer : Peers]

TunnelRequests ==
  [kind : {"enable"}, cfg : Config, at : {"down", "script", "conf", "up", "boot"}]
    \cup [kind : {"disable"}, at : {"down", "chains", "dns", "files"}, clean : BOOLEAN]

ASSUME TunnelAssumption ==
  /\ Wanted \subseteq Config
  /\ Originals \subseteq {"link", "file"}
  /\ None \notin TunnelRequests /\ None \notin Config
  /\ Torn \notin Config /\ Torn # None

Links == {"link", "stub"}            \* symlinks: the original one, systemd-resolved's stub
Resolvers == Links \cup {"file", "empty", "soft", "strict"}

VARIABLES
  wg,        \* the configuration the interface runs with, or None
  conf,      \* /etc/wireguard/wg0.conf, or None
  script,    \* the configuration wg0-up.sh was written for; None: missing or cut short
  mark,      \* the configuration whose script ran last (wg0.mode, wg0.killswitch), or None
  egress,    \* WG_OUT, called from OUTPUT: the only endpoint it lets out, or None
  redirect,  \* WG_DNS_REDIRECT, called from OUTPUT: "none", "on", or "empty"
  resolv,    \* /etc/resolv.conf
  preLink,   \* /etc/resolv.conf.pre-wg-link, or None
  preFile,   \* /etc/resolv.conf.pre-wg, or None
  boot,      \* wg-quick@wg0 is enabled
  request,   \* the request being handled and its next command, or None
  flawed,    \* the markers may not say what is in force: see TunnelHolds
  off,       \* the last request disabled the tunnel and all its commands worked
  outages, failures

dnsVars == <<resolv, preLink, preFile>>
fileVars == <<conf, script, boot>>
chainVars == <<egress, redirect>>
countVars == <<outages, failures>>
tunnelVars == <<wg, mark, flawed, request, off, dnsVars, fileVars, chainVars, countVars>>

Does(kind, step) == request # None /\ request.kind = kind /\ request.at = step

Then(step) == request' = [request EXCEPT !.at = step]

\* A command fails: the request goes on with the next one, or ends.
Faults(fault) ==
  /\ fault \in TunnelFaults /\ failures < MaxFailures
  /\ failures' = failures + 1
  /\ UNCHANGED outages

(***************************************************************************)
(* wg0-up.sh, run by wg-quick up: the script's own configuration counts.   *)
(***************************************************************************)
FencesStale(c) == IF egress = None THEN c.peer ELSE egress   \* a slip: the chain is not flushed

Fences(c) == c.peer

Snapshot ==
  IF resolv \in Links
  THEN preLink' = resolv /\ UNCHANGED preFile
  ELSE preFile' = resolv /\ UNCHANGED preLink

Resolves(c) == IF c.mode = "dns-only" /\ c.kill THEN "strict" ELSE "soft"

RunsUp ==
  /\ conf # Torn /\ script # None
  /\ wg' = conf
  /\ mark' = script /\ flawed' = FALSE
  /\ Snapshot
  /\ resolv' = Resolves(script)
  /\ redirect' = IF script.mode = "dns-only" THEN "on" ELSE redirect
  /\ egress' = IF script.mode = "full" /\ script.kill THEN Fences(script) ELSE egress

Commands == {"markers", "snapshot", "resolver", "redirect", "egress"}

\* The script goes on after a command that fails, and it writes the markers first; its
\* last command decides whether wg-quick takes the interface down again, and only that.
\* A configuration that was cut short names no script.
RunsUpPartly ==
  /\ wg' \in {conf, None}
  /\ flawed' = TRUE
  /\ \/ (conf = Torn \/ script = None) /\ UNCHANGED <<mark, dnsVars, chainVars, countVars>>
     \/ /\ conf # Torn /\ script # None
        /\ \E broken \in SUBSET (Commands \cap TunnelFaults) :
             /\ broken # {} /\ failures + Cardinality(broken) <= MaxFailures
             /\ failures' = failures + Cardinality(broken)
             /\ mark' = IF "markers" \in broken THEN mark ELSE script
             /\ IF "snapshot" \in broken THEN UNCHANGED <<preLink, preFile>> ELSE Snapshot
             /\ resolv' \in IF "resolver" \in broken THEN {resolv, "empty"} ELSE {Resolves(script)}
             /\ redirect' \in IF script.mode # "dns-only" THEN {redirect}
                              ELSE IF "redirect" \in broken THEN {redirect, "empty"} ELSE {"on"}
             /\ egress' \in IF script.mode # "full" \/ ~script.kill THEN {egress}
                            ELSE IF "egress" \in broken THEN {egress, None} ELSE {Fences(script)}
        /\ UNCHANGED outages

(***************************************************************************)
(* wg-quick down and wg0-down.sh: only the resolver is restored.           *)
(***************************************************************************)
RunsDown ==
  /\ wg' = None
  /\ resolv' = IF preLink # None THEN preLink ELSE IF preFile # None THEN preFile ELSE "stub"
  /\ preLink' = None
  /\ preFile' = IF preLink # None THEN preFile ELSE None

\* wg-quick needs the configuration to take the interface down, and to find the script.
GoesDown ==
  IF wg = None \/ conf = None THEN UNCHANGED <<wg, dnsVars>>
  ELSE IF conf = Torn THEN wg' = None /\ UNCHANGED dnsVars
  ELSE RunsDown

DownFails == Faults("down") /\ wg' \in {wg, None} /\ UNCHANGED dnsVars

(***************************************************************************)
(* POST /wireguard/enable.                                                 *)
(***************************************************************************)
EnableBegins(c) ==
  /\ request = None
  /\ request' = [kind |-> "enable", cfg |-> c, at |-> "down"]
  /\ off' = FALSE
  /\ UNCHANGED <<wg, mark, flawed, dnsVars, fileVars, chainVars, countVars>>

EnableDowns ==
  /\ Does("enable", "down")
  /\ \/ GoesDown /\ UNCHANGED countVars
     \/ DownFails
  /\ Then("script")
  /\ UNCHANGED <<mark, flawed, off, fileVars, chainVars>>

\* buildWGConfig writes the scripts before the configuration is written, and ignores the
\* errors: the old script stays, or what is left of the new one.
EnableScripts ==
  /\ Does("enable", "script")
  /\ \/ script' = request.cfg /\ UNCHANGED countVars
     \/ Faults("script") /\ script' \in {script, None}
  /\ Then("conf")
  /\ UNCHANGED <<wg, mark, flawed, off, dnsVars, conf, boot, chainVars>>

EnableConf ==
  /\ Does("enable", "conf")
  /\ \/ conf' = request.cfg /\ Then("up") /\ UNCHANGED countVars
     \/ Faults("conf") /\ request' = None /\ conf' \in {conf, Torn}
  /\ UNCHANGED <<wg, mark, flawed, off, dnsVars, script, boot, chainVars>>

\* wg-quick up refuses an interface that exists.
EnableUps ==
  /\ Does("enable", "up")
  /\ \/ wg = None /\ RunsUp /\ Then("boot") /\ UNCHANGED countVars
     \/ wg = None /\ RunsUpPartly /\ (IF wg' = None THEN request' = None ELSE Then("boot"))
     \/ /\ (wg # None /\ UNCHANGED countVars) \/ Faults("up")
        /\ request' = None
        /\ UNCHANGED <<wg, mark, flawed, dnsVars, chainVars>>
  /\ UNCHANGED <<off, fileVars>>

EnableBoots ==
  /\ Does("enable", "boot")
  /\ \/ boot' = TRUE /\ UNCHANGED countVars
     \/ Faults("boot") /\ UNCHANGED boot
  /\ request' = None
  /\ UNCHANGED <<wg, mark, flawed, off, dnsVars, conf, script, chainVars>>

(***************************************************************************)
(* POST /wireguard/disable: every error is ignored.                        *)
(***************************************************************************)
DisableBegins ==
  /\ request = None
  /\ request' = [kind |-> "disable", at |-> "down", clean |-> TRUE]
  /\ off' = FALSE
  /\ UNCHANGED <<wg, mark, flawed, dnsVars, fileVars, chainVars, countVars>>

DisableDowns ==
  /\ Does("disable", "down")
  /\ \/ /\ GoesDown /\ UNCHANGED countVars
        /\ request' = [request EXCEPT !.at = "chains", !.clean = wg = None \/ conf # None]
     \/ /\ DownFails
        /\ request' = [request EXCEPT !.at = "chains", !.clean = FALSE]
  /\ UNCHANGED <<mark, flawed, off, fileVars, chainVars>>

DropsEgressOnly == egress' = None /\ UNCHANGED redirect   \* a slip

\* removeWGKillSwitch: the rules that call WG_DNS_REDIRECT are not the ones it
\* deletes, so that chain is emptied and stays.
Emptied == IF redirect = "none" THEN "none" ELSE "empty"

DropsChains == egress' = None /\ redirect' = Emptied

DisableChains ==
  /\ Does("disable", "chains")
  /\ \/ DropsChains /\ Then("dns") /\ UNCHANGED countVars
     \/ /\ Faults("clean") /\ egress' \in {egress, None} /\ redirect' \in {redirect, Emptied}
        /\ request' = [request EXCEPT !.at = "dns", !.clean = FALSE]
  /\ UNCHANGED <<wg, mark, flawed, off, dnsVars, fileVars>>

DisableDNS ==
  /\ Does("disable", "dns")
  /\ \/ /\ resolv' = IF preFile # None THEN preFile ELSE "stub"
        /\ preFile' = None
        /\ UNCHANGED countVars
     \/ Faults("dns") /\ UNCHANGED <<resolv, preFile>>
  /\ Then("files")
  /\ UNCHANGED <<wg, mark, flawed, off, preLink, fileVars, chainVars>>

\* systemctl disable and rm: what cannot be removed, stays.
DisableFiles ==
  /\ Does("disable", "files")
  /\ \/ /\ boot' = FALSE /\ conf' = None /\ script' = None /\ mark' = None
        /\ off' = request.clean
        /\ UNCHANGED <<flawed, countVars>>
     \/ /\ Faults("files")
        /\ boot' \in {boot, FALSE} /\ conf' \in {conf, None}
        /\ script' \in {script, None} /\ mark' \in {mark, None}
        /\ flawed' = TRUE
        /\ UNCHANGED off
  /\ request' = None
  /\ UNCHANGED <<wg, dnsVars, chainVars>>

Outage == outages < MaxOutages /\ outages' = outages + 1

\* Files stay, the interface and the firewall's chains do not.
PowerLoss ==
  /\ Outage
  /\ wg' = None /\ request' = None
  /\ egress' = None /\ redirect' = "none"
  /\ UNCHANGED <<mark, flawed, off, dnsVars, fileVars, failures>>

\* The chains are removed and the markers are not yet.
Undoing == Does("disable", "dns") \/ Does("disable", "files")

\* hostctl ends, the host goes on.
HostctlEnds ==
  /\ request # None /\ Outage
  /\ request' = None
  /\ flawed' = (flawed \/ Undoing)
  /\ UNCHANGED <<wg, mark, off, dnsVars, fileVars, chainVars, failures>>

\* wg-quick@wg0 at boot.
BootUps ==
  /\ boot /\ conf # None /\ wg = None /\ request = None
  /\ (RunsUp /\ UNCHANGED countVars) \/ RunsUpPartly
  /\ UNCHANGED <<request, off, fileVars>>

TunnelInit ==
  /\ wg = None /\ conf = None /\ script = None /\ mark = None
  /\ egress = None /\ redirect = "none"
  /\ resolv \in Originals
  /\ preLink = None /\ preFile = None
  /\ boot = FALSE /\ request = None /\ off = FALSE /\ flawed = FALSE
  /\ outages = 0 /\ failures = 0

TunnelNext ==
  \/ \E c \in Wanted : EnableBegins(c)
  \/ EnableDowns \/ EnableScripts \/ EnableConf \/ EnableUps \/ EnableBoots
  \/ DisableBegins \/ DisableDowns \/ DisableChains \/ DisableDNS \/ DisableFiles
  \/ PowerLoss \/ HostctlEnds \/ BootUps

TunnelTypeOK ==
  /\ {wg, conf} \subseteq Config \cup {None, Torn} /\ {script, mark} \subseteq Config \cup {None}
  /\ egress \in Peers \cup {None} /\ redirect \in {"none", "on", "empty"}
  /\ resolv \in Resolvers /\ {preLink, preFile} \subseteq Resolvers \cup {None}
  /\ preLink \in Links \cup {None}
  /\ boot \in BOOLEAN /\ off \in BOOLEAN /\ flawed \in BOOLEAN
  /\ request \in {None} \cup TunnelRequests

ReportedKillHolds ==
  wg # None /\ mark # None /\ mark.kill /\ ~flawed /\ ~Undoing =>
    IF mark.mode = "full" THEN egress = mark.peer ELSE resolv = "strict" /\ redirect = "on"

DisabledIsQuiet ==
  off => wg = None /\ egress = None /\ redirect # "on" /\ ~boot

(***************************************************************************)
(* What handleWGStatus reports holds: while the tunnel is up and its       *)
(* markers say the kill switch is on, full mode lets out only the endpoint *)
(* of the markers' configuration beside the tunnel, and dns-only mode asks *)
(* only the tunnel's resolver; and a tunnel disabled without an error      *)
(* leaves nothing in force that redirects, rejects or tunnels, and no boot *)
(* brings it back: after switches of configuration, boots, and failures of *)
(* every command of hostctl's (handleWGEnable, handleWGDisable,            *)
(* removeWGKillSwitch).  The report is not trusted once a command of       *)
(* wg0-up.sh failed, since the script writes its markers first and goes on *)
(* (main.go:512-566), once the script or the configuration was cut short,  *)
(* or once a request to disable that had removed the chains could not      *)
(* remove the markers or ended before: until the script next works whole.  *)
(***************************************************************************)
TunnelHolds == ReportedKillHolds /\ DisabledIsQuiet
=============================================================================
