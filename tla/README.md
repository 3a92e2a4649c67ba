# Packalares in TLA+

Packalares is a personal cloud on one machine: an installer sets up k3s, and a
set of Go services on top of it installs apps from a market, puts them behind a
login, gives them databases and host names, and exposes files, mounts, VPN and
metrics.  This directory models the parts of it whose correctness depends on
order, concurrency or failure.  Paths below are relative to the repository;
`appservice/` stands for `internal/appservice/`, and so on.

## Inventory

| Component | State it keeps | Operations | What is hard | Correct when |
|---|---|---|---|---|
| app store (`appservice/store.go`) | map of names to record pointers; `appstate.json` | Put, Get, List, Delete, load | pointers escape the lock; the file is truncated, then written | the file lists what the table lists |
| app lifecycle (`appservice/service.go`, `handler.go`) | the records | Install, Uninstall, Suspend, Resume, public-access and internet toggles, 30 s status sync, startup | goroutines on shared records, no lock across a request, restarts | states settle and agree with helm; nothing installed is lost from sight |
| helm and kubectl clients (`appservice/helm.go`, `k8s.go`) | releases, workloads, Application resources (in the cluster) | one external command each | any command may fail half-way | callers cope with each outcome |
| public domains (`appservice/publicdomains.go`) | claims per app, last body written | Sync, Reconcile | write skipped when "unchanged", lost answers, restarts, hosts shared by apps | ConfigMap = merged claims |
| public domain watcher (`auth/publicdomainwatcher.go`) | set of public hosts | poll every 30 s | file replaced or missing while read | the set follows the file |
| auth (`auth/server.go`, `session.go`, `ratelimit.go`, `totp.go`) | sessions, TOTP secrets and failure counters in Redis | first and second factor, registration, logout, verify, revoke, password change | read-modify-write of a session, expiry | a session ends when it is ended |
| websocket hub (`appservice/websocket.go`) | set of clients with buffered channels | register, unregister, Broadcast, reader and writer goroutines | close of a channel others send on, slow clients | no send on a closed channel; clients are released |
| internet blocking (`appservice/netpolicy.go`) | iptables rules per pod address | block, unblock, rebuild at start | pods restart with new addresses; startup flushes under requests | rules match the records' flags |
| model backends (`appservice/models.go`, `service.go`) | running operations; OpenWebUI's endpoint list | install, uninstall, list | read-modify-write of a list in a Deployment | installed models are listed once |
| system server (`systemserver/`) | apps by name, providers by group, permissions | watch of Applications, HTTP queries, reverse proxy | events missed between watches, deployments written from several sources | consumers see the providers there are |
| middleware controller (`middleware/`) | none in memory; databases, namespaces, streams and secrets it creates | list and watch of MiddlewareRequests, provision, drop, status | replayed events, partial provisioning, deletions missed while not watching | ready means provisioned; deleted means dropped |
| bfl (`bfl/`) | VPN and network settings in ConfigMaps, certificate, nginx configuration, the owner's User resource | settings handlers, VPN switch, certificate and proxy regeneration, activation, restarts of workloads | handlers that read state, work, and write it back; goroutines that outlive their request | certificate, configuration and running proxy agree; a finished setup stays finished |
| host control (`cmd/hostctl`) | WireGuard, kill switch, resolver and SSH on the host | enable, disable | half-done host changes, boots | what it reports is what runs |
| l4 proxy (`l4proxy/`) | users and their addresses | refresh by timer and by watch, SNI routing | two refreshers, failed lookups | a known user stays routed |
| mounts (`mounts/`) | mounts and their state file | mount, unmount, load | restarts, failed umount | the list says what is mounted |
| model download (`hfdownload/`) | files and a `.done` marker | download, retry, resume | truncated transfers, retries | the marker means complete |
| market (`market/`) | catalog and an LRU of app details | refresh, search, icons | rescan while serving | answers come from one catalog |
| files (`files/`) | files; chunks of uploads | listing, moves, chunked upload | chunks repeated or out of order | an upload is whole or absent |
| tapr (`tapr/`, `pkg/secrets`) | Infisical's rows, one workspace, its secrets | seed, store, read | restarts between steps; two requests make the workspace | one of each; nothing acknowledged is missing |
| monitor, mdns, kubesphere | counters, names, User resources | reads and single writes | unsynchronised previous counters | — |
| installer (`pkg/installer`, `cmd/cli`) | phases done | install, resume, uninstall | a phase fails half-way | a rerun completes |
| web interface (`frontend-app/`) | mirrors of the above | buttons | what it lets users request | — |

The components interact through the cluster (Application resources,
MiddlewareRequests, ConfigMaps, Deployments), through files mounted from it,
through Redis, and by HTTP:

- the web interface sends requests to app-service, which answers at once and
  works in a goroutine; a status sync runs beside it every 30 s;
- app-service keeps records in its store, installs with helm, scales with
  kubectl, applies an Application resource per app, and writes the merged public
  hosts into one ConfigMap;
- the kubelet mounts that ConfigMap into auth, which polls the file;
- the system server watches Applications and writes the addresses of providers
  into the environment of consumers' Deployments;
- the middleware controller watches MiddlewareRequests that charts create and
  makes databases and credentials for them;
- bfl and hostctl change the host's network; the l4 proxy routes by the users in
  the cluster.

## Modules

| Module | Models | State |
|---|---|---|
| `AppTypes` | `appservice/types.go` | states of a record |
| `AppStore` | `appservice/store.go` | `apps`, `heap`, `file` |
| `AppCluster` | `appservice/helm.go`, `k8s.go`, and what they command | `release`, `pods`, `crd` |
| `PublicDomains` | `appservice/publicdomains.go` | `byApp`, `lastBody`, `configMap`, `lastErr` |
| `AppLifecycle` | `appservice/service.go`, `handler.go` | composes the four; adds `req`, `sync`, `boot`, `crashes` |
| `AppLifecycleProofs`, `AppTrackingProofs`, `PublicDomainsProofs` | theorems about these | |
| `MCAppLifecycle` | instances for TLC | |
| `ProviderSync` | `systemserver/` without the reverse proxy | `apps`, `providers`, the permissions, the stream, the Deployments' environment |
| `ProviderSyncProofs`, `MCProviderSync` | theorems; instances | |
| `Middleware` | `middleware/controller.go` and its provisioners | requests, roles, stores, credentials, the controller's goroutine, the watch |
| `MiddlewareProofs`, `MCMiddleware` | theorems; instances | |
| `AppDatabase` | Postgres provisioning in `doInstall`, `chartdownload.go`, `chartrewrite.go` | `rolePassword`, `dbOwner`, `chartValues`, `release`, the installs |
| `NetBlock` | `appservice/netpolicy.go`, `handleInternet` | pods' addresses, marks, `chain`, toggles, the startup synchronisation |
| `Models` | `appservice/models.go`, `hfdownload/`, `cmd/hf-downloader` | library, releases, `disk`, markers, endpoints, operations |
| `Feed`, `WSHub` | `appservice/websocket.go`: what it promises, and how | clients, buffers, broadcasts, the goroutines of connections |
| `AuthSessions`, `LoginLimiter` | `auth/session.go`, `server.go`, `totp.go`; `ratelimit.go` | sessions, secrets, requests; counters |
| `PublicWatcher` | `auth/publicdomainwatcher.go` | the file, its last stamp, the set in force |
| `UserTable` | `l4proxy/proxy.go` | User resources, the table, two listings |
| `VPNSwitch` | `bfl/vpn.go`, `network.go`, `tls.go`, nginx rendering | network ConfigMap, certificate, configuration, running proxy, requests and tails |
| `UserSetup` | activation and reset in `bfl/server.go` | the owner's User resource, certificate, password, wizard |
| `Updates` | restarts of workloads in `bfl/server.go` | template, pods, the update list |
| `HostSSH` | SSH in `bfl/server.go` and `cmd/hostctl` | port line, daemon, units at boot, requests |
| `HostTunnel` | WireGuard in `cmd/hostctl` | interface, configuration, kill-switch chains, resolver, markers, boot |
| `Installer` | `pkg/installer/phases` and what it calls | state file, the process, the host, secrets and their holders |
| `SecretVault` | `tapr/`, `pkg/secrets/infisical.go` | rows, gateway, workspaces, secrets, a service |
| `FileStore` | `files/handler.go`, `util.go` | directory, inodes, requests, uploads and chunks |
| `Mounts` | `mounts/handler.go` | mounts in force, listed and saved |
| `Catalog` | `market/catalog.go` | files with versions, index, cache, readers, curation |
| `Values` | the value that stands for nothing | |
| `MCEdge`, `MCPlatform` | instances of the modules of the last rows | `part` |
| `EdgeProofs` | theorems about `LoginLimiter`, `PublicWatcher`, `UserTable`, `WSHub` and `Feed` | |
| `HostProofs` | about `Mounts`, `HostSSH`, `HostTunnel`, `SecretVault`, `FileStore`, `Installer` | |
| `ServiceProofs` | about `Updates`, `AppDatabase`, `Catalog`, `Models`, `AuthSessions`, `UserSetup`, `VPNSwitch`, `NetBlock` | |

Definitions whose comment says "slip" are variants of the operator that follows
them with one plausible programming error.  No specification uses them.
For each property that a run checks there is one such variant under which the
property fails, which shows that the property depends on that piece of code.

### The app lifecycle

A record (`AppRecord`) is reduced to what decides anything: its state, whether
the entrances of its manifest have been read in, and the public-access toggle.
In Go the store hands out pointers, and goroutines go on assigning through them
after the lock is released; so `heap` maps record identities to records and
`apps` maps names to identities.  A record made by an install is named after its
request, one loaded from the file after its app.  `file` is `appstate.json`.
`Save` is `os.WriteFile`: it succeeds, is refused, or leaves a torn file, which
`NewAppStore` reads as an empty one.

`req[r].pc` is where the goroutine of request `r` stands.  A step ends wherever
another goroutine can see or change what it shares: at each `store.Put`, each
helm or kubectl command (which take seconds), and at `PublicDomainSync.Sync`.
Steps that touch nothing shared (downloads, rewriting, image pulls) belong to
the next store or command.  A helm install is two steps, since the release
exists, unlisted, while it runs.  The status sync keeps what it read (`seen`,
`todo`) between its steps: first `helm list`, then the pointers, then each
record's state, then the write, each time with whatever happened in between.
`boot` is the Reconcile that `Start` leaves running in a goroutine.  `Crash`
loses all of it and loads the file again; a helm uninstall under way dies too.

helm is modelled from what the code relies on: an install refuses a name in use;
a plain list shows deployed and failed releases only; uninstalling what is not
there is an error; the resources of a release that failed may survive its
uninstall (service.go:677-680 says so).  The clean-up of orphans deletes Deployments,
Services, ConfigMaps, Jobs and pods; "stateful" among `ClusterFaults` stands for
charts with a StatefulSet, which it leaves, and which makes its pods again.

`Serial` says that no request for an app starts while another one works on it.
That is how the market page behaves: its buttons are hidden while the state is
transitional (`MarketPage.vue`, `getAppDisplayState`).  The server itself does
not check it, and a status sync can break it (see `app_sync_hides`), so
`app_converges` runs without it.

### The provider sync

One goroutine opens the watch, lists the Applications, and then takes listed
objects and events one at a time; each is put into the table, the registry and
the permissions, and then consumers are patched one Deployment at a time, each
patch being a list of Deployments and a later Update that can be refused.  Events
sent while the watch was open but before the list are handled after it, old ones
over newer ones; without a resource version the watch also replays what exists.
One Deployment stands for an app: the code goes through all that carry the app's
label, each with an Update of its own, whose refusal stops no other one, so that each
of them goes through the steps of the one here.  `Breaks` ends the watch with events in flight, `Restarts` starts from nothing.
`missed` and `stale` are bookkeeping of the specification: apps whose deletion no
watch delivered, and consumers whose last patch was skipped or refused.

### The middleware controller

The controller has no memory; what it did stands in the status of the request,
by name.  `log` is what the watch has still to deliver, from the list on.
Provisioning is one step that may fail anywhere (`ProvisionFails` leaves any part
of the work done), because nothing else looks at what it makes; reading the
object and writing its status are two, because users act in between.  The CRD
(`deploy/framework/middleware.yaml`) has no status subresource and keeps only
`state`, so `updateStatus` always ends in the plain Update, and writing "failed"
over "failed" is no event.  `lost` is bookkeeping: events no watch delivered and
work that was cut short.  The Secret with the credentials is named after app and
type; no two requests here are for the same app and type, and so share one.

### The smaller components

Each of the modules from `AppDatabase` to `Catalog` follows one convention.  A
request or goroutine is a record with the step it is at (`at`) and what it has
read and will still use; a step is one command or one access to shared state, so
two requests interleave wherever the code lets them; a failing command, a
process that ends and a host that boots are actions of their own, each taken from
a bounded number.  Sets or flags such as `astray`, `adrift`, `odd`, `raced`,
`cut` and `left` are bookkeeping of the specification: they name what a property
makes no claim about, and every member of such a set is there because of
something the code does.  These exceptions were found by model checking the
property without them.

- `AppDatabase`: the role's password on citus is set before the chart gets it and
  the release is made; the chart lies in one directory per app, where the first
  injected values win (`deepMergeUnder`), and so do values that the chart brings.
- `NetBlock`: a chain is a sequence of "accept" and "drop" per address; the two
  ACCEPT rules of the code stand as one, and one unblock deletes `Rounds` times (2
  for the code's 5, with at most two blocks to undo).  Every command may fail, which
  nobody notices (`NetFails`).
- `Models`: the downloader of a vLLM model is a process of its own, restarted by
  Kubernetes; `monitorDownload` polls its log.
- `WSHub`: RWMutex as readers (`cast`) and a writer; `F == INSTANCE Feed` maps its
  state to the abstract feed by dropping buffers and goroutines.
- `AuthSessions`: one Redis command a step.  `LoginLimiter`: `Check` and
  `RecordFailure` apart, INCR and EXPIRE apart.  A counter that Redis does not
  answer for counts as 0, and an INCR, EXPIRE or DEL that fails changes nothing.
- `VPNSwitch`: the tail of a request (`afterVPNEnabled` and its like) outlives it;
  ConfigMaps carry resource versions where the code uses Update.
- `UserSetup`: every write of the User resource is a read and a later write.
- `HostTunnel`, `HostSSH`: a command a step; what `wg-quick`, iptables, systemd and
  resolv.conf do with it is modelled from how the code relies on it.  `wg0-up.sh`
  is one step, in which any of its five groups of commands may fail while the
  others take effect (`RunsUpPartly`); files may be cut short.
- `Installer`: a phase is the sequence of things it leaves on the host.  What a
  phase asks for is checked before; generations of secrets are numbers.
- `SecretVault`: each SELECT-or-INSERT of `Seed` is a step; one gateway runs at a
  time (a rolling update might overlap two).
- `FileStore`: inodes, so that a handler goes on with a file that is renamed or
  removed under it.  Two requests on whole files run at a time and may name the same
  paths, with the Stat of one before the Create of the other; paths being uploaded
  to are left to their upload.  A body beyond `MaxUploadSize` is cut and answered.
- `UserTable`: zones, and which zone's own name ends in another zone (`Endings`),
  since the pattern of `matchUser` does not insist on a dot in between.
- `Mounts`, `Catalog`, `Updates`, `PublicWatcher`: what is listed, cached or copied
  against what it was taken from.  Writing `.mounts.json` truncates it first.

`MCEdge` and `MCPlatform` put such components together in one state space, in
which `part` says which one moves; since they share no variable, this explores
each by itself.

## Runs

| Run | Question | Result |
|---|---|---|
| `app_serial` | three requests of every kind for one app, failing helm and scale commands, a crash, the status sync anywhere | releases stay tracked; stopped apps are scaled down; deployed apps are registered |
| `app_converges` | two requests at once, failing helm commands and partly failing scaling, a crash, stale status syncs | types; no transition without a goroutine to settle it; states come to agree with helm |
| `app_public` | toggles and uninstalls of two apps sharing a host, refused writes, a crash and Reconcile | published hosts follow the records; app-service implements `DomainSpec` |
| `provider_sync` | two providers and a consumer come, move and go; conflicts, a cut watch or a restart | table follows cluster, registry follows table, environment follows registry; the goroutine catches up |
| `middleware` | three requests created, edited, deleted, created again; failures, conflicts, ended watches, a restart | ready means provisioned; edits arrive; deleted means dropped; everything offered becomes ready |
| `edge` | limiter, public hosts' watcher, user table and hub under fairness | limits hold and blocks end; copies come to agree with their sources; the hub implements `Feed`; gone clients are forgotten |
| `platform` | fourteen components with failures and restarts, each by itself | the thirteen invariants and step properties below |
| `app_orphans`, `app_stale_public`, `app_sync_hides`, `sync_deletes`, `middleware_owned` | what a comment says | violated: the findings below |

The bounds:

- One app is enough where apps share nothing; only public hosts are shared, so
  `app_public` has two, with a host in common and one of each access level.
- Three requests in `app_serial` give install, suspend, uninstall and the like,
  over an app that is installed at first or not: any request after any two
  others, each complete, failed or cut by a crash.  `app_converges` has two, which
  is what it takes for goroutines to share a record; that more of them, and
  "wipe", leave no transition behind is the theorem `NoOrphans`.
- One crash: a crash forgets everything but the file and the cluster, so a
  second starts from a state the first also reaches.
- `MaxChanges` counts what users do to Applications and requests, `MaxBreaks`
  cut watches and restarts, `MaxFaults` failing commands; 2, 1 in `provider_sync`
  allow an install and a move or removal across a break, and 3 changes, 2 faults
  and 1 restart in `middleware` a request deleted and created again across a
  restart and a provisioning that fails and cannot say so.
- `edge` and `platform` take two of what may overlap (requests, goroutines,
  connections, logins) and one or two failures: every hazard listed is about two
  actors, or one actor and a failure.  Smaller bounds stand for constants of the
  code: `MaxAttempts` 2 for 10, `Buffer` 1 for 64, `Rounds` 2 for 5, `Size` 2 parts
  of a file.  `install` goes through all 22 phases (depth 266).  `NetBlock` has one
  address that two apps have in turn, so that addresses are reused, and
  `AppDatabase` two roles, so that an upgrade may rename one; a role that two apps
  share is an exception that needs two apps.  In `HostTunnel` one
  command of any kind fails, and the host or hostctl ends once, over the configurations
  of `SomeConfigs`.  Together 3 million states.
- `CHECK_DEADLOCK` is off in `edge` and `platform`, whose bounded components stop
  when requests, changes and failures are used up.  In the other runs it is on: the status sync, the watch and the API server's
  closing of watches always have a step.

Fairness is assumed of goroutines only: each request's worker, the status sync
and the startup Reconcile in `app_converges`; the one server goroutine in
`provider_sync`; the controller and the API server's closing of watches in
`middleware`.  Go schedules runnable goroutines, and each command has an outcome.
That a watch does not live for ever is a property of the API server, which ends
each after a timeout of its own; without it a failed middleware request would
wait for an edit.  In `edge`: Redis drops expired keys, the watcher's ticker and the proxy's timer go
on, a list that was made is stored, and the hub's goroutines run.  `Unregisters`
has strong fairness, since it waits for a lock that readers take and release: Go's
RWMutex lets a waiting writer in before new readers.  `platform` needs none.
Users, failures and crashes are never obliged to happen.

## Properties and their limits

- `NoOrphanedTransition`: a transitional state is always in some goroutine's
  hands.  Holds without `Serial`.  Ends with a crash, and is not claimed when the
  save after the assignment fails: the handler then returns with the state set.
- `StatusConverges`: in the end each record agrees with helm.  "Uninstalling" is
  excepted, since the status sync never touches it: after a crash in the middle of
  an uninstall the record keeps that state.
- `NoUntrackedRelease`: whatever helm holds under an app's name has a record;
  excepted is an install between dropping the old record and storing the new one.
- `StoppedIsScaledDown`: with several workloads a scaling error of one is only
  logged ("partial"), so it is stated for apps where that does not happen.
- `DeployedIsRegistered`: without crashes and kubectl errors, both of which leave
  the resource unapplied for good.
- `PublishedFollowsToggle`: without reinstalls, whose new record has no toggle.
- `NilMeansPublished`: if kubectl never fails after the object was stored, and
  except for the empty body of a new process: `Reconcile` with nothing to publish
  skips the write, and trusts a ConfigMap that nobody has read.
- `RegistryFollowsApps`, `EnvFollowsRegistry`: see Proofs for the two assumptions.
- `ReadyIsProvisioned`, `EditsReachApp`, `GoneIsDropped`: each names the lost
  event, failure or reuse of a name that breaks it; each was found necessary.

- `Feeds`: safety only; a message for a full buffer is dropped by design.
- `BoundedTries`: the limit is exceeded by less than the logins under way and, for
  each check that could not read a counter and each INCR that failed, by one more:
  the limiter lets pass on an error of Redis.  `BlockEnds`: if fewer EXPIREs fail
  than the limit has tries.
- `RoutesSettle`, `FollowsFile`: under a timer that goes on; not while the file is
  gone or could not be read when it was found changed (the stamp is kept first).
  Of routes excepted: a zone's own name which ends in the zone of a user who is not
  older, who gets it ("joann.example" and "ann.example").
- `SessionsAreSound`: an ended session may come back at level 2, by a second
  factor that had read it before.
- `SwitchSettles`: agreement is claimed after a change that ran alone and without
  failures; that no write undoes another's key, and that the proxy runs what is
  stored, after any overlap.
- `HostAgrees`: the kill switch that is reported holds, a tunnel disabled without an
  error leaves nothing behind, and sshd is what the status says, after SSH requests
  that overlap and without errors.  A report of the kill switch is not trusted from
  the failure of a command of `wg0-up.sh` (which writes its markers first and has no
  `set -e`), from a script or configuration cut short, or from a disabling that
  removed the chains and not the markers, until the script next works whole.
  Tunnel requests are made one at a time.
- `InstallIsSound`: a phase that is skipped has done its work; an install that
  reports completion gave one generation of secrets to every holder.  Not after an
  uninstallation that was cut off; and of the base directory it was given, not of
  one that an earlier installation had and an uninstallation without a release file
  did not find (uninstall.go:256).
- `FilesSurvive`: what was saved or uploaded whole and not asked away is there.  Not
  claimed of a body beyond `MaxUploadSize`, nor of what lies on paths that two
  requests use at the same time.
- `SharesAreSafe`: no request removes what lies on a share, and what is mounted is
  listed.  A save that fails or is cut off may cost the file all shares it listed
  (os.WriteFile truncates it first), so that these are not listed after a restart.
- `BlocksHold`: not of an app for which an iptables command failed: the request
  answers that it is blocked all the same.
- `DatabaseOpens`: not of an app whose chart brings credentials of its own, which
  win over those that were made for it (chartrewrite.go:55-63).
- `RestartsSettle`: no copy that is written back late undoes an upgrade, an install
  or a removal; and no update is shown as "restarting" for good unless a request was
  cut off or its last write to Redis failed.
- `SecretsAreFound`: misread answers are excepted, and statements that fail
  unnoticed, as the INSERT of the membership's role may (seed.go:159).
- `ModelsAgree`, `CatalogIsFresh`: with the exceptions their comments name.
- `NeverReopened`: copies that are written back late never reopen a setup.

Races that the code has and no document excludes, so that no property is stated:
a status sync that puts a record back which a wipe dropped; two toggles at once,
whose hosts are published in the wrong order; the startup Reconcile overwriting a
claim made meanwhile; a torn `appstate.json`; the clean-up of an old uninstall
that hits a reinstall let in beside it.

## Findings

- `app_orphans`: after a failed install removed its own release, an uninstall
  gets "release not found" from helm and never deletes the orphaned resources
  that the next lines are there to delete (service.go:667, 677-680).
- `app_stale_public`: an uninstall drops the app's hosts, "so an uninstalled app
  never leaves a stale SSO-bypass entry behind", and writes "uninstalled" later; a
  Reconcile of the startup in between skips only what is uninstalled and claims them
  again (publicdomains.go:120; service.go:688-692).  The toggle of an uninstalled app,
  whose record remains, does the same (handler.go:635).
- `app_sync_hides`: a status sync during a download or image pull marks the app
  uninstalled, as if a release had gone (service.go:172-178).
- `sync_deletes`: consumers of a group whose last provider was deleted keep its
  URL (reconciler.go:39; server.go:265).
- `middleware_owned`: "any remaining databases owned by the user" are dropped
  under names that do not exist (middleware/controller.go:357-361,
  postgres.go:200-203).

Smaller disagreements met while modelling, without a run:

- system server, middleware: an update that drops shared entrances leaves the
  endpoint registered; consumers under `permission.provider` are set by a reconcile
  but not found when the provider changes (registry.go:161, reconciler.go:64); a
  middleware request whose name is used again may be skipped as ready by its
  predecessor's outcome.  A provisioning that fails and whose "failed" cannot be
  written either is only logged (middleware/controller.go:222-226): an edited
  request stays "ready" without what the edit asked for.
- limiter and proxy: a counter that Redis does not answer for counts as 0
  (ratelimit.go:73-77), so a blocked login passes while Redis fails.  "Match
  subdomains: {prefix}.{domain}" (proxy.go:244) matches a prefix without the dot as well.
- internet blocking: `SyncInternetBlocks` is "called on startup and when pods
  restart (new IPs)" (netpolicy.go:72-73), yet only startup calls it (service.go:127):
  a blocked app's new pod is not blocked, and old rules meet the next owner of the
  address.  Five rounds of deletions do not "catch all" after six blocks.  A flush
  between ACCEPT and DROP leaves a DROP first.
- app databases: an app whose name has a dash gets no role (`ensureCitusUserAndDB`
  refuses it) but citus' own user, and no database.  Two apps that name one role
  take its password from each other.  A reinstall that ends between the new
  password and helm leaves the old release with the old one.  A failed injection
  into a subchart is only logged.  A chart index entry that merely starts with the
  app's name and a dash may be taken for it, in map order (chartdownload.go:154).
- models: `monitorDownload` is to block "until .done file appears"
  (models.go:363-364) but returns when the downloader's log ends, even by a failure,
  and the model is registered and shown running.  A failing `kubectl get` reads as
  an empty list of endpoints.  Tiktoken files are skipped whatever their size.
  Removing files while the pod still ends may leave a marker without files.
- VPN and proxy: `regenerateNginxConfig` drops the block of bare addresses although
  the setting still says so (server.go:757, tls.go:199); disabling WireGuard while
  Tailscale runs leaves Tailscale's address although vpn.go:276 says "without VPN
  IP"; enabling Tailscale does not disable WireGuard.
- hostctl: switching from full mode with kill switch to dns-only leaves `WG_OUT` in
  force although main.go:421-422 says the internet stays direct; disabling replaces a
  resolv.conf that was restored by the stub (691-695); after a loss of power the
  snapshot holds the tunnel's resolver; after a failed `wg-quick down` the
  configuration is removed, so the interface cannot be taken down; errors of
  writing scripts are ignored.
- SSH: sed never adds a missing Port line, so another port is silently ignored;
  under ssh.socket the daemon listens on the socket's port; overlapping requests may
  leave the service running but disabled at boot.
- setup and restarts: a failed write in a reset is logged while the wizard is
  deleted; two resets at once both set the password; after an unbind only status
  "vault" can bind again.  A restart writes a copy two seconds old, which the API
  server refuses if the controller wrote in between: it is reported failed although
  the pods were replaced.  A list made before the pods were deleted may show
  "complete" early.
- installer: an install resumed in a new process between "Generate secrets" and
  "Create LLDAP service account" cannot finish, although the state is saved "so user
  can resume after fixing" (install.go:203); `saveInstallState` is not atomic as its
  comment says (options.go:220); failing to create the owner is only a warning and
  never retried; a fresh rerun meets the ports of the first.
- tapr: `storeSecrets` ignores a refused PATCH, after which the installer deletes
  its plain-text copies (infisical.go:173); an error of a listing counts as "not
  there" and makes a duplicate; a list that cannot be decoded is served as empty.
- files: `handlePaste` discards the path it trimmed, so PATCH /api/paste never finds
  its source (handler.go:512); copying a file onto itself with override empties it;
  a chunk that ends at the file's size ends the upload, whatever is missing before
  it; upload progress is lost at a restart.
- mounts: a failed unmount forgets a share that is still mounted; shares are listed
  "mounted" after a reboot; a torn `.mounts.json` forgets all.
- catalog: a load that ends after a rescan caches old content under new times,
  although catalog.go:360-361 says both "see the same on-disk state"; the time of the
  curation is taken after its content.

## Proofs

Every safety invariant and every action property that a passing run checks is
also a theorem, for any constants that satisfy the named `ASSUME`s of the modules.
Those say what the constants range over and that `None` is none of the values it
stands beside.  Four say more: in `MiddlewareAssumption` requests of different
names have different stores; in `LimiterAssumption` counters lose their expiry
less often than the limit allows; in `HubAssumption` a channel has room for a
message; in `UserAssumption` no account is called "cli", which `findUser` takes
for the owner.  The theorems hold without any fairness.

Hypotheses that are not about ranges stand in the theorem or in the property and
say which behaviour of the code they exclude:

| Hypothesis | Says | Without it |
|---|---|---|
| `Serial` | one request per app at a time, as the web interface sends them | two requests overwrite each other's records |
| no "kubectl", "partial", "install" faults or kinds | which command does not fail, or is not used, in that property | see Properties and their limits |
| `"unconfirmed" \notin Outcomes` | kubectl does not fail after the object was stored | the body in the cluster is unknown |
| `KeepsGroups` | every version of an app shares the same provider groups | `OnProviderChanged` registers what a version offers and forgets nothing |
| `AsksBySysData` | consumers name groups under `sysData` | what is under `permission.provider` is read when the consumer is reconciled, not when a provider changes |
| `KeepsKind` | a name's specs are all of offered types or none is | a request edited into a type nobody handles keeps what it had; a new one of such a type gets its predecessor's "ready" |
| `KeepsHome` | a name keeps its stores, type and user, and shares no user | what an earlier spec asked for is never looked at again |
| `~Reuse` (or `KeepsKind`, in `ReadyTrusted`) | no name of a MiddlewareRequest is used twice | as before |

### App lifecycle

- `TypeCorrect` (`AppLifecycleProofs`): `Spec => []TypeOK`.  Besides types it says
  that every pointer held anywhere is to a record of a known app; it is inductive.
- `NoOrphans`: `NoOrphanedTransition` is inductive together with `TypeOK`.  Each
  step either leaves records alone, or writes a transitional state while staying
  at work on that record, or writes a settled one and ends.
- `ReleasesTracked` (`AppTrackingProofs`): under one request per app and a file
  written whole.  `NoUntrackedRelease` alone is not inductive: a crash restores
  the table from the file, and an uninstall drops the record at its end.  `Tracked`
  adds that requests for one app exclude each other (`Exclusive`), that the file
  holds what the table holds, that a worker's app has a record, and that from a
  successful helm uninstall to the end of the request there is no release
  (`ReleaseGone`).
- `DeployedRegistered`, `StoppedScaledDown`, `PublishedFollows`: each has
  `Exclusive` in common and one part of its own.  `Registered` says of an app with
  a deployed release that the resource is there or the request that applies it is
  still at work.  `Lowered` says that pods are up only while neither table nor file
  say "Stopped", and that a request which holds a record as stopped has scaled it
  down; `Owned` is needed since the status sync writes through pointers it took
  before.  `Published` says of a deployed app that Reconcile has still to merge its
  record, or its claim is what the record says, or a request is about to make it
  so; `Plain` that without installs no record is ever replaced.

### Public domains

- `NilIsTrue`, `SharedHostsKept` (`PublicDomainsProofs`): under any caller;
  `DomainInv` adds that a body this process wrote is in the cluster.
- `CallsAreLegal`: `Spec => DomainSpec`.  The invariant `Owned` says that a record
  belongs to the app under which it is stored, used and listed, so that hosts
  waiting to be claimed, and those Reconcile merges, are of the right manifest.
  A record never changes its app while a pointer to it exists.  `PublishedIsKept`
  transfers the two theorems above to app-service.

### Provider sync

- `SyncTypes`, `RegistryExact`, `ConsumersServed` (`ProviderSyncProofs`):
  `RegistryInv` follows the table through the middle of a deletion, when the
  registry has dropped an app that the table still has.  `EnvInv` says that a
  consumer is served or still due in the round under way.
- `TableFollows`: `AppsInv` says of every app what the list and the stream say
  last of it: that is its present state, or its deletion was missed.  It needs no
  hypothesis; order of delivery, replays and restarts are all covered.
- `InstalledServed`: the same `EnvInv` with `AppsInv`; of a Deployment that was made
  anew it asks something only when nothing of its app is `Coming` any more.

### Middleware

- `MiddlewareTypes`, `ReadyTrusted` (`MiddlewareProofs`): for the first request of a
  name, `Trust` adds that what the controller is about to call ready is
  provisioned, and that a deletion, taken or still to come, is of a request that
  is gone.  For later ones, which may be called ready by their predecessor's
  outcome, `ReadyHandled` says that while no event is lost and no command failed
  the goroutine will hear of the request, will meet it in the list, is at work on
  it, or has provisioned it.
- `GoneDropped`, `EditsReach`: `Groundwork` collects types and what a round in hand
  and the events still to come carry.  `GoneHandled` says of a name without a
  request that nothing of it is left, or its deletion is to come, in hand or lost,
  and that no put after that deletion will be taken.  `EditHandled` says that an
  early edit's spec is the app's, or is in hand, or an event that is not yet
  "ready" still carries it; names may be used again.
- `SettledReady`: once every event is taken and no command failed, what is offered
  and lost no event is ready.  `StillDue` says of a request that is not: the
  goroutine starts over, an event or the list still carries the spec it has now, or
  that spec is being provisioned, or "ready" is about to be written.  It needs
  neither `KeepsKind` nor `~Reuse`.

### Edge

- `TriesBounded` (`EdgeProofs`): `TriesInv` adds to `BoundedTries` that what was
  tried exceeds a counter by no more than the INCRs that failed, so that a login
  which passes the check finds room, or its check could not read the counter.
- `BlocksCanEnd`: a counter at the limit has its expiry.  The invariant is `Lapsed`:
  a counter without one holds no more failures than EXPIREs were lost, since each
  failure asks for the expiry again.
- `StaleNoticed`: hosts other than the file's are found by the next look at the
  file, unless reading them failed.  `StampsInv` adds that no stamp is later than
  the last one given, and that a watcher which has not looked yet has seen none.
- `ExactTableRoutes`: a table that is what `listUsers` would list now sends every
  name to whom it belongs, if no other zone's pattern takes it.  `UsersInv` has the types of the User resources, and that
  an ephemeral user was made by the owner, who is none.
- `FeedImplemented`: `EdgeSpec => Feeds`, the refinement of `Feed` by the hub.
  `HubInv` says that what waits in a buffer was broadcast since its client
  registered and continues in order what the client was told, that a broadcast
  under way is offered to registered clients only, and that their channels are
  open.  Each step then is one of `Feed` or a stutter.

### Host

- `SharesSafe` (`HostProofs`): `MountInv` follows a request through the steps at
  which kernel, table and file differ; the file is compared with the table only for
  names that every save since has reached.
- `HostReportsTrue`: `TunnelInv` adds to `TunnelHolds` what a request to disable has
  undone so far while all its commands worked; `SSHInv` what daemon, units and port line owe each
  other while requests run.
- `SecretsAreKept`: `SecretsInv` joins `SeedHolds` (one row and one project, made by
  the start that says so) and `StoreHolds` (an answered store's secrets are all
  there).
- `FilesAreKept`: `FilesInv` joins `UploadsHold` (the chunks so far are in the file,
  and a growing upload has its path to itself) and `JobsHold`: what a request that is
  alone on its paths has written and made sure of (`JobHolds`), and that no other
  one names them (`Apart`).  What is kept lies where every request `Spares` it: one
  that is alone, unless it is its destination; one that is not, beside all its paths.
- `InstallSound`: `InstallInv`: the phases done are a prefix of the 22 (`Unbroken`);
  what a done phase left is in place, by the run's own state (`RunHolds`) and by
  the saved one (`DoneHolds`); and the phase under way has made what it passed
  (`WorkUnderWay`).  Lemmas state for the sequence of phases which of them place
  and which of them start what.

### Services

- `RestartsAreSafe` (`ServiceProofs`): `UpdatesInv`: a copy in hand that the API
  server will accept is the template as stored, and what is shown as restarting
  has a request that goes on, was cut off or could not write its end.
- `DatabaseIsOpen`: `DatabaseInv` follows the password from the directory of the
  chart, if it brought none, to citus, to the chart and to the release.
- `CatalogStaysFresh`: `CatalogInv` tracks loads that read another file than the
  one indexed.
- `ModelsStayInStep`: `ModelsInv`: marker, parts on disk and pod of a download fit,
  and each operation accounts for what it has left undone.
- `SessionsSound`: `SessionsInv`: an activation that goes on holds a secret whose
  code was right.
- `SetupStaysComplete`: `SetupInv`: a copy whose resource version is still current
  is the owner as stored.
- `NetworkSettles`: `SwitchInv` is what a change holds at each of its steps
  (`ChangesHold`), with what a change that runs alone has already achieved
  (`AloneHolds`); `ProxyIsCurrent` beside it.
- `BlocksAreHeld`: `NetInv` has `ToggleFits` and `SyncFits` for each thread's own
  progress and `AppFits` for each app that is not astray, no command of which failed.  `AloneOn` says that at
  most one request works on it, at its pod's address; `RulesFit` that after the
  flush its rules are in order except while being deleted, have ACCEPT before
  DROP, and that an app marked blocked is cut off or still due.  The deletion
  loop's `Rounds` need a least-index lemma for `RemoveFirst`, by well-foundedness.

### Only model-checked

- Liveness: `StatusConverges`, `CatchesUp`, `EventuallyReady`, `BlockEnds`,
  `FollowsFile`, `RoutesSettle`, `GoneIsForgotten`.  The prover treats neither
  fairness (which is ENABLED) nor the induction over steps that such a property
  takes.  What four of them rest on is proved: a request that is not ready has
  something to come (`SettledReady`), the expiry that ends a block is there
  (`BlocksCanEnd`), a stale copy is noticed (`StaleNoticed`), and a table that is
  the list routes rightly (`ExactTableRoutes`); that the goroutine runs, watches
  end, Redis drops the counter, the next look comes and the next list is stored is
  fairness.
- The runs that show a disagreement with a comment: a counterexample is a
  behaviour, not a theorem.


## Not modelled

- The monitor and mdns: they report or advertise; the monitor's previous counters
  are unsynchronised and may wrap, which shows for one sample.  kubesphere answers
  from single User resources.
- The user sync of app-service: its loop only ticks, and `SyncUser` has no caller.
  `GENERATED_APPS` is empty in the deployment.
- Codecs and cryptography (JWT, argon2, LDAP, Infisical's encryption, ClientHello),
  unpacking and parsing of charts, nginx and Helm templates, path resolution, the
  GPU and memory arithmetic of a model's chart: functions of their inputs.
- Handlers that only read: user, cluster, app, file and market listings, previews,
  the reverse proxy of the system server, the password change of auth, which hands
  on to LLDAP.
- The manifests that the installer applies are data; the terminal and web
  interfaces show what the services send.
- Logs, progress messages and HTTP wording everywhere.

## Plan

What is built stands, and every safety property is proved.  What is left is what
the other liveness properties rest on, each an invariant that can be stated and
proved by itself:

1. For `EventuallyReady`, after a failure: a request that failed has an event to
   come or waits for the watch to end (`SettledReady` is about runs without one).
2. For `CatchesUp` and `StatusConverges`: what is still due is in the stream, in
   hand, or with a worker.
3. For `GoneIsForgotten`: a client that is gone has a goroutine that will notice.
