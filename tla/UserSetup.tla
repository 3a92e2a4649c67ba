----------------------------- MODULE UserSetup -----------------------------
(***************************************************************************)
(* The setup of the owner's account in bfl (server.go, k8s.go): binding a  *)
(* name, activating its zone, settings and the first password.  Each       *)
(* request reads the User resource, works on its copy and writes it back   *)
(* whole; what it does to the SSL secret, LLDAP and the wizard happens in  *)
(* between or after.                                                       *)
(***************************************************************************)
EXTENDS Naturals, Values

CONSTANTS
  Requests,       \* requests at a time (a bound)
  MaxUserWrites,  \* writes of the User resource (a bound)
  MaxSetupFails   \* calls that fail (a bound)

VARIABLES
  owner,      \* the User resource: its name, zone, wizard status, locale and version
  ssl,        \* zone-ssl-config: "none" or "zone"
  password,   \* in LLDAP: "generated" by the installer, or "chosen"
  wizard,     \* the wizard's deployment exists
  ask,        \* the requests under way
  setupFails

setupVars == <<owner, ssl, password, wizard, ask, setupFails>>

Statuses == {"wait_activate_vault", "wait_activate_system", "wait_reset_password", "completed"}
OwnerRecords == [bound : BOOLEAN, zone : BOOLEAN, status : Statuses, locale : BOOLEAN,
          version : 0 .. MaxUserWrites]

\* IsWizardComplete.
Complete(user) == user.status \in {"completed", "wait_reset_password"}

Asking(r, kind, step) == ask[r] # None /\ ask[r].kind = kind /\ ask[r].at = step

Moves(r, step) == ask' = [ask EXCEPT ![r].at = step]

Answers(r) == ask' = [ask EXCEPT ![r] = None]

Fails == setupFails < MaxSetupFails /\ setupFails' = setupFails + 1

\* GetUser: the request goes on with a copy.
Reads(r, kind, step) ==
  /\ ask[r] = None
  /\ ask' = [ask EXCEPT ![r] = [kind |-> kind, copy |-> owner, at |-> step]]
  /\ UNCHANGED <<owner, ssl, password, wizard, setupFails>>

AlwaysFresh(r) == TRUE   \* a slip: the resource version is not sent

Fresh(r) == ask[r].copy.version = owner.version

\* UpdateUser with a copy so edited.
Writes(r, edited) ==
  /\ Fresh(r) /\ owner.version < MaxUserWrites
  /\ owner' = [edited EXCEPT !.version = owner.version + 1]

\* A conflict, or the API server fails.
WriteFails(r) ==
  /\ UNCHANGED owner
  /\ \/ ~Fresh(r) /\ UNCHANGED setupFails
     \/ Fails

\* handleBindingZone: only while nothing was bound.
Binds(r) == owner.status = "wait_activate_vault" /\ Reads(r, "bind", "write")

BindWrites(r) ==
  /\ Asking(r, "bind", "write")
  /\ \/ /\ Writes(r, [ask[r].copy EXCEPT !.bound = TRUE, !.status = "wait_activate_system"])
        /\ UNCHANGED setupFails
     \/ WriteFails(r)
  /\ Answers(r)
  /\ UNCHANGED <<ssl, password, wizard>>

\* handleUnbindZone: the secret is deleted after the write, whatever that gives.
Unbinds(r) == Reads(r, "unbind", "write")

UnbindWrites(r) ==
  /\ Asking(r, "unbind", "write")
  /\ \/ /\ Writes(r, [ask[r].copy EXCEPT !.bound = FALSE, !.zone = FALSE])
        /\ Moves(r, "ssl") /\ UNCHANGED setupFails
     \/ WriteFails(r) /\ Answers(r)
  /\ UNCHANGED <<ssl, password, wizard>>

UnbindDeletes(r) ==
  /\ Asking(r, "unbind", "ssl")
  /\ \/ ssl' = "none" /\ UNCHANGED setupFails
     \/ Fails /\ UNCHANGED ssl
  /\ Answers(r)
  /\ UNCHANGED <<owner, password, wizard>>

\* handleActivate: an active zone is answered at once; a name must be bound.
ActivationBegins(r) == owner.bound /\ ~owner.zone /\ Reads(r, "activate", "ssl")

\* EnsureSSLSecret, for handleActivate and handleReDownloadCert.
CertStores(r) ==
  /\ \E kind \in {"activate", "download"} : Asking(r, kind, "ssl")
  /\ \/ /\ ssl' = "zone" /\ UNCHANGED setupFails
        /\ IF ask[r].kind = "activate" THEN Moves(r, "write") ELSE Answers(r)
     \/ Fails /\ Answers(r) /\ UNCHANGED ssl
  /\ UNCHANGED <<owner, password, wizard>>

ActivateWrites(r) ==
  /\ Asking(r, "activate", "write")
  /\ \/ /\ Writes(r, [ask[r].copy EXCEPT !.zone = TRUE, !.locale = TRUE,
                                         !.status = "wait_reset_password"])
        /\ UNCHANGED setupFails
     \/ WriteFails(r)
  /\ Answers(r)
  /\ UNCHANGED <<ssl, password, wizard>>

\* handleReDownloadCert.
Downloads(r) == owner.bound /\ Reads(r, "download", "ssl")

\* handleConfigSystem.
Configures(r) == Reads(r, "config", "write")

ConfigWrites(r) ==
  /\ Asking(r, "config", "write")
  /\ \/ Writes(r, [ask[r].copy EXCEPT !.locale = TRUE]) /\ UNCHANGED setupFails
     \/ WriteFails(r)
  /\ Answers(r)
  /\ UNCHANGED <<ssl, password, wizard>>

\* handleResetPassword.
Resets(r) == Reads(r, "reset", "ldap")

\* While the setup is not complete the administrator sets the password; later the
\* current one is needed, which nobody knows before one was chosen.
PasswordSets(r) ==
  /\ Asking(r, "reset", "ldap")
  /\ \/ /\ Complete(ask[r].copy) => password = "chosen"
        /\ password' = "chosen" /\ UNCHANGED setupFails
        /\ IF Complete(ask[r].copy) THEN Answers(r) ELSE Moves(r, "write")
     \/ (Complete(ask[r].copy) /\ UNCHANGED setupFails) /\ Answers(r) /\ UNCHANGED password
     \/ Fails /\ Answers(r) /\ UNCHANGED password
  /\ UNCHANGED <<owner, ssl, wizard>>

\* The write's failure is only logged: the wizard goes all the same.
ResetWrites(r) ==
  /\ Asking(r, "reset", "write")
  /\ \/ Writes(r, [ask[r].copy EXCEPT !.status = "completed"]) /\ UNCHANGED setupFails
     \/ WriteFails(r)
  /\ Moves(r, "wizard")
  /\ UNCHANGED <<ssl, password, wizard>>

\* deleteWizard, in a goroutine.
WizardGoes(r) ==
  /\ Asking(r, "reset", "wizard")
  /\ \/ wizard' = FALSE /\ UNCHANGED setupFails
     \/ Fails /\ UNCHANGED wizard
  /\ Answers(r)
  /\ UNCHANGED <<owner, ssl, password>>

SetupRestarts ==
  /\ \E r \in Requests : ask[r] # None
  /\ Fails
  /\ ask' = [r \in Requests |-> None]
  /\ UNCHANGED <<owner, ssl, password, wizard>>

\* The installer leaves a User with a zone and no name.
SetupInit ==
  /\ owner = [bound |-> FALSE, zone |-> TRUE, status |-> "wait_activate_vault",
              locale |-> FALSE, version |-> 0]
  /\ ssl = "none" /\ password = "generated" /\ wizard = TRUE
  /\ ask = [r \in Requests |-> None] /\ setupFails = 0

SetupNext ==
  \/ \E r \in Requests :
       \/ Binds(r) \/ BindWrites(r) \/ Unbinds(r) \/ UnbindWrites(r) \/ UnbindDeletes(r)
       \/ ActivationBegins(r) \/ CertStores(r) \/ ActivateWrites(r) \/ Downloads(r)
       \/ Configures(r) \/ ConfigWrites(r)
       \/ Resets(r) \/ PasswordSets(r) \/ ResetWrites(r) \/ WizardGoes(r)
  \/ SetupRestarts

SetupTypeOK ==
  /\ owner \in OwnerRecords /\ ssl \in {"none", "zone"}
  /\ password \in {"generated", "chosen"} /\ wizard \in BOOLEAN
  /\ setupFails \in 0 .. MaxSetupFails

(***************************************************************************)
(* A setup that is complete is never opened again, although requests that  *)
(* were read before write their copies back after it: an open setup lets   *)
(* the password be set without the current one (handleBindingZone,         *)
(* handleActivate, handleResetPassword).                                   *)
(***************************************************************************)
NeverReopened == [][Complete(owner) => Complete(owner')]_setupVars
=============================================================================
