---------------------------- MODULE PublicWatcher ----------------------------
(***************************************************************************)
(* internal/auth/publicdomainwatcher.go: the auth server's copy of the     *)
(* hosts that app-service publishes (PublicDomains), read from the mounted *)
(* ConfigMap.  The file is looked at, then opened and read: it may change  *)
(* or go away in between, and each of the two may fail.                    *)
(***************************************************************************)
EXTENDS Naturals, FiniteSets, Values

CONSTANTS
  PublicHosts,   \* hosts that may be published
  MaxStamps,     \* changes of the file (a bound)
  MaxStarts      \* restarts of the auth server (a bound)

VARIABLES
  file,      \* the mounted file: its stamp (mtime and size) and hosts, or None
  stamp,     \* the last stamp given
  seen,      \* lastMod and lastSize: the stamp of the last look, 0 before the first
  open,      \* the set isDomainPublic reads, or None before the first reload
  watcher,   \* "start", "wait" for the ticker, or "read" after a look
  missed,    \* the file could not be read when it was last found changed
  starts     \* restarts so far

watcherVars == <<file, stamp, seen, open, watcher, missed, starts>>

\* kubelet replaces the file at once, with a new mtime.
FileChanges ==
  /\ stamp < MaxStamps
  /\ \E hosts \in SUBSET PublicHosts : file' = [stamp |-> stamp + 1, hosts |-> hosts]
  /\ stamp' = stamp + 1
  /\ UNCHANGED <<seen, open, watcher, missed, starts>>

FileGoes ==
  /\ file # None
  /\ file' = None
  /\ UNCHANGED <<stamp, seen, open, watcher, missed, starts>>

\* reload without a file: the set stays as it is, but there is one from now on.
FindsNothing ==
  /\ watcher # "read" /\ file = None
  /\ open' = IF open = None THEN {} ELSE open
  /\ watcher' = "wait"
  /\ UNCHANGED <<file, stamp, seen, missed, starts>>

\* The first look fails for another reason; a later one would change nothing.
LookFails ==
  /\ watcher = "start"
  /\ watcher' = "wait"
  /\ UNCHANGED <<file, stamp, seen, open, missed, starts>>

Resized ==   \* a slip: the size alone is compared
  IF open = None THEN TRUE ELSE Cardinality(file.hosts) # Cardinality(open)

\* mtime or size differ from the last look.
Changed == file.stamp # seen

\* The stamp is remembered before the file is opened; an unchanged file is left alone.
FindsNew ==
  /\ watcher # "read" /\ file # None
  /\ watcher = "start" \/ Changed
  /\ seen' = file.stamp
  /\ watcher' = "read"
  /\ missed' = FALSE
  /\ UNCHANGED <<file, stamp, open, starts>>

FileReads ==
  /\ watcher = "read" /\ file # None
  /\ open' = file.hosts
  /\ watcher' = "wait"
  /\ UNCHANGED <<file, stamp, seen, missed, starts>>

\* Nothing is read, and the stamp stays remembered.
ReadFails ==
  /\ watcher = "read"
  /\ watcher' = "wait"
  /\ missed' = TRUE
  /\ UNCHANGED <<file, stamp, seen, open, starts>>

AuthRestarts ==
  /\ starts < MaxStarts
  /\ starts' = starts + 1
  /\ seen' = 0 /\ open' = None /\ watcher' = "start" /\ missed' = FALSE
  /\ UNCHANGED <<file, stamp>>

WatcherInit ==
  /\ file = None /\ stamp = 0 /\ seen = 0 /\ open = None /\ watcher = "start"
  /\ missed = FALSE /\ starts = 0

Ticks == FindsNothing \/ FindsNew \/ FileReads \/ ReadFails

WatcherNext == FileChanges \/ FileGoes \/ Ticks \/ LookFails \/ AuthRestarts

WatcherTypeOK ==
  /\ file \in [stamp : 1 .. MaxStamps, hosts : SUBSET PublicHosts] \cup {None}
  /\ stamp \in 0 .. MaxStamps /\ seen \in 0 .. stamp
  /\ open \in {None} \cup SUBSET PublicHosts
  /\ watcher \in {"start", "wait", "read"}
  /\ missed \in BOOLEAN /\ starts \in 0 .. MaxStarts

(***************************************************************************)
(* The auth server comes to open exactly the published hosts, however the  *)
(* file changes between the look and the read, and across restarts, unless *)
(* the file is gone or could not be read when it had changed (reload).     *)
(***************************************************************************)
FollowsFile ==
  []<>(file = None \/ missed \/ open = file.hosts)
=============================================================================
