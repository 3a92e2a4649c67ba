---------------------------- MODULE MCPlatform ----------------------------
(***************************************************************************)
(* The components whose properties are about states and steps.  They share *)
(* no state, so each is explored by itself: part is the one that moves.    *)
(***************************************************************************)
EXTENDS AuthSessions, HostTunnel, VPNSwitch, UserSetup, Installer, FileStore, Models,
        Mounts, Catalog, Updates, HostSSH, SecretVault, NetBlock, AppDatabase

\* Kill switches of full mode for every peer, the other configurations for one.
SomeConfigs ==
  LET first == CHOOSE p \in Peers : TRUE IN
  {c \in Config : (c.mode = "full" /\ c.kill) \/ c.peer = first}

\* A chart that comes with a user and a password that citus was never given.
OneChart == {[role |-> CHOOSE r \in Roles : TRUE, pass |-> MaxPasswords + 1]}

VARIABLE part

Parts == {"sessions", "tunnel", "switch", "setup", "install", "files", "models", "mounts",
          "catalog", "updates", "ssh", "secrets", "net", "database"}

platformVars == <<part, sessionVars, tunnelVars, switchVars, setupVars, installVars,
                  filesVars, modelVars, mountVars, catalogVars, updateVars, sshVars, secretVars,
                  netVars, dbVars>>

PlatformInit ==
  /\ part \in Parts
  /\ SessionsInit /\ TunnelInit /\ SwitchInit /\ SetupInit /\ InstallInit /\ FilesInit
  /\ ModelsInit /\ MountsInit /\ CatalogInit /\ UpdatesInit /\ SSHInit /\ SecretsInit
  /\ NetInit /\ DatabaseInit
  /\ part # "ssh" => portLine = 22 /\ ~socket

PlatformNext ==
  /\ UNCHANGED part
  /\ IF part = "sessions" THEN SessionsNext ELSE UNCHANGED sessionVars
  /\ IF part = "tunnel" THEN TunnelNext ELSE UNCHANGED tunnelVars
  /\ IF part = "switch" THEN SwitchNext ELSE UNCHANGED switchVars
  /\ IF part = "setup" THEN SetupNext ELSE UNCHANGED setupVars
  /\ IF part = "install" THEN InstallNext ELSE UNCHANGED installVars
  /\ IF part = "files" THEN FilesNext ELSE UNCHANGED filesVars
  /\ IF part = "models" THEN ModelsNext ELSE UNCHANGED modelVars
  /\ IF part = "mounts" THEN MountsNext ELSE UNCHANGED mountVars
  /\ IF part = "catalog" THEN CatalogNext ELSE UNCHANGED catalogVars
  /\ IF part = "updates" THEN UpdatesNext ELSE UNCHANGED updateVars
  /\ IF part = "ssh" THEN SSHNext ELSE UNCHANGED sshVars
  /\ IF part = "secrets" THEN SecretsNext ELSE UNCHANGED secretVars
  /\ IF part = "net" THEN NetNext ELSE UNCHANGED netVars
  /\ IF part = "database" THEN DatabaseNext ELSE UNCHANGED dbVars

PlatformSpec == PlatformInit /\ [][PlatformNext]_platformVars

PlatformTypeOK ==
  /\ part \in Parts
  /\ SessionsTypeOK /\ TunnelTypeOK /\ SwitchTypeOK /\ SetupTypeOK /\ InstallTypeOK /\ FilesTypeOK
  /\ ModelsTypeOK /\ MountsTypeOK /\ CatalogTypeOK /\ UpdatesTypeOK /\ SSHTypeOK /\ SecretsTypeOK
  /\ NetTypeOK /\ DatabaseTypeOK

(***************************************************************************)
(* hostctl's two services, each of which leaves the host as it reports it, *)
(* after commands that fail and, for SSH, requests that overlap.           *)
(***************************************************************************)
HostAgrees == TunnelHolds /\ SSHAgrees
=============================================================================
