------------------------------ MODULE Catalog ------------------------------
(***************************************************************************)
(* The market's catalog (internal/market/catalog.go): an index of the      *)
(* files of each app, a sidecar and a chart, with their times, rebuilt     *)
(* when it is older than rescanInterval, and a bounded cache of parsed     *)
(* apps.  Requests load apps without a lock while files are replaced, one  *)
(* at a time; a file's number stands for its content and its time.         *)
(***************************************************************************)
EXTENDS Naturals, FiniteSets, Values

CONSTANTS
  Entries,      \* names of apps and models
  Readers,      \* requests at a time (a bound)
  MaxVersions   \* times that files are replaced (a bound)

Version == {None} \cup Nat

IndexEntries == [side : Nat, chart : Version]

Loads == [name : Entries, entry : IndexEntries, side : Version, chart : Version,
          at : {"check", "chart", "add"}]

ASSUME CatalogAssumption == None \notin Nat /\ None \notin IndexEntries /\ None \notin Loads

VARIABLES
  sidecar, chart,   \* files: [Entries -> version, or None]
  index,            \* chartIndex: [Entries -> [side, chart] or None]
  expired,          \* indexedAt is more than rescanInterval ago
  scan,             \* charts as a scan under way has seen them, or None
  cache,            \* parsed: [Entries -> [side, chart] or None]
  load,             \* [Readers -> [name, entry, side, chart, at] or None]
  raced,            \* names that a load cached after the index had changed under it
  notes, curation, curationLoad, curationRaced,   \* curation.json and what is kept of it
  versions

catalogVars == <<sidecar, chart, index, expired, scan, cache, load, raced,
                 notes, curation, curationLoad, curationRaced, versions>>

filesOf == <<sidecar, chart, notes, versions>>
curations == <<curation, curationLoad, curationRaced>>

\* A file is replaced or removed; a chart may be there without its sidecar.
SidecarChanges ==
  /\ versions < MaxVersions /\ versions' = versions + 1
  /\ \E n \in Entries, v \in {None, versions + 1} : sidecar' = [sidecar EXCEPT ![n] = v]
  /\ UNCHANGED <<chart, notes, index, expired, scan, cache, load, raced, curations>>

ChartChanges ==
  /\ versions < MaxVersions /\ versions' = versions + 1
  /\ \E n \in Entries, v \in {None, versions + 1} : chart' = [chart EXCEPT ![n] = v]
  /\ UNCHANGED <<sidecar, notes, index, expired, scan, cache, load, raced, curations>>

TimePasses ==
  /\ ~expired /\ expired' = TRUE
  /\ UNCHANGED <<filesOf, index, scan, cache, load, raced, curations>>

\* ensureFresh takes the lock; scanDir first looks at the charts' times.
ScanBegins ==
  /\ expired /\ scan = None
  /\ scan' = chart
  /\ UNCHANGED <<filesOf, index, expired, cache, load, raced, curations>>

OnlySidecars(n, old, new) ==   \* a slip: a new chart does not count
  old[n] # None /\ (new[n] = None \/ new[n].side # old[n].side)

\* rescan drops what it parsed of an entry that changed, or is new.
Changed(n, old, new) == new[n] # old[n]

\* scanDir looks at the sidecars; the new index replaces the old one.  A directory
\* that cannot be read leaves an empty index.
ScanEnds ==
  /\ scan # None
  /\ \E readable \in BOOLEAN :
       LET new == [n \in Entries |-> IF readable /\ sidecar[n] # None
                                       THEN [side |-> sidecar[n], chart |-> scan[n]] ELSE None]
       IN  /\ index' = new
           /\ cache' = [n \in Entries |-> IF Changed(n, index, new) THEN None ELSE cache[n]]
  /\ scan' = None /\ expired' = FALSE
  /\ UNCHANGED <<filesOf, load, raced, curations>>

\* What os.Stat finds of the files an entry names; a chart that was not there is not
\* looked for.
Stat(n, e) == [side |-> sidecar[n], chart |-> IF e.chart = None THEN None ELSE chart[n]]

\* ListApps and GetApp: after ensureFresh, loadOne looks the entry up.
LoadBegins(r) ==
  /\ load[r] = None /\ ~expired
  /\ \E n \in Entries :
       /\ index[n] # None
       /\ load' = [load EXCEPT ![r] = [name |-> n, entry |-> index[n], side |-> None,
                                       chart |-> None, at |-> "check"]]
  /\ UNCHANGED <<filesOf, index, expired, scan, cache, raced, curations>>

\* The cache is used when the files have the times of the entry.
IsHit(r) ==
  LET l == load[r] IN cache[l.name] # None /\ Stat(l.name, l.entry) = l.entry

Loading(r, at) == load[r] # None /\ load[r].at = at

CacheServes(r) ==
  /\ Loading(r, "check") /\ IsHit(r)
  /\ load' = [load EXCEPT ![r] = None]
  /\ UNCHANGED <<filesOf, index, expired, scan, cache, raced, curations>>

\* Otherwise what is cached is dropped, and the sidecar is read; without one there is
\* no app.
SidecarRead(r) ==
  /\ Loading(r, "check") /\ ~IsHit(r)
  /\ LET n == load[r].name IN
       /\ cache' = [cache EXCEPT ![n] = None]
       /\ load' = [load EXCEPT ![r] =
            IF sidecar[n] = None THEN None ELSE [@ EXCEPT !.side = sidecar[n], !.at = "chart"]]
  /\ UNCHANGED <<filesOf, index, expired, scan, raced, curations>>

\* readOlaresManifestFromTGZ: the chart's entrances; if it cannot be read, the sidecar's.
ChartRead(r) ==
  /\ Loading(r, "chart")
  /\ load' = [load EXCEPT ![r].at = "add",
        ![r].chart = IF load[r].entry.chart = None THEN None ELSE chart[load[r].name]]
  /\ UNCHANGED <<filesOf, index, expired, scan, cache, raced, curations>>

LoadEnds(r) ==
  /\ Loading(r, "add")
  /\ LET l == load[r] IN
       /\ cache' = [cache EXCEPT ![l.name] = [side |-> l.side, chart |-> l.chart]]
       /\ raced' = IF index[l.name] = l.entry THEN raced \ {l.name} ELSE raced \cup {l.name}
  /\ load' = [load EXCEPT ![r] = None]
  /\ UNCHANGED <<filesOf, index, expired, scan, curations>>

\* The cache is full of other entries.
CacheEvicts ==
  /\ \E n \in Entries : cache[n] # None /\ cache' = [cache EXCEPT ![n] = None]
  /\ UNCHANGED <<filesOf, index, expired, scan, load, raced, curations>>

CurationChanges ==
  /\ versions < MaxVersions /\ versions' = versions + 1
  /\ \E v \in {None, versions + 1} : notes' = v
  /\ curationRaced' = (curationRaced \/ curationLoad # None)
  /\ UNCHANGED <<sidecar, chart, index, expired, scan, cache, load, raced, curation, curationLoad>>

\* loadCuration: the file is read when its time is not that of what is kept, and looked
\* at again for the time.  A file that is gone changes nothing.
CurationRead ==
  /\ curationLoad = None
  /\ notes # None /\ curation.time # notes
  /\ curationLoad' = notes
  /\ UNCHANGED <<filesOf, index, expired, scan, cache, load, raced, curation, curationRaced>>

CurationKept ==
  /\ curationLoad # None
  /\ curation' = [content |-> curationLoad,
                  time |-> IF notes # None THEN notes ELSE curation.time]
  /\ curationLoad' = None
  /\ UNCHANGED <<filesOf, index, expired, scan, cache, load, raced, curationRaced>>

CatalogInit ==
  /\ sidecar = [n \in Entries |-> 0] /\ chart = [n \in Entries |-> 0]
  /\ index = [n \in Entries |-> [side |-> 0, chart |-> 0]] /\ expired = FALSE
  /\ scan = None
  /\ cache = [n \in Entries |-> None]
  /\ load = [r \in Readers |-> None] /\ raced = {}
  /\ notes = 0 /\ curation = [content |-> None, time |-> None] /\ curationLoad = None /\ curationRaced = FALSE
  /\ versions = 0

CatalogNext ==
  \/ SidecarChanges \/ ChartChanges \/ TimePasses \/ ScanBegins \/ ScanEnds \/ CacheEvicts
  \/ \E r \in Readers : \/ LoadBegins(r) \/ CacheServes(r) \/ SidecarRead(r)
                        \/ ChartRead(r) \/ LoadEnds(r)
  \/ CurationChanges \/ CurationRead \/ CurationKept

CatalogTypeOK ==
  /\ sidecar \in [Entries -> Version] /\ chart \in [Entries -> Version]
  /\ index \in [Entries -> {None} \cup IndexEntries]
  /\ cache \in [Entries -> {None} \cup IndexEntries]
  /\ scan \in {None} \cup [Entries -> Version]
  /\ load \in [Readers -> {None} \cup Loads]
  /\ raced \subseteq Entries
  /\ notes \in Version /\ curationLoad \in Version
  /\ curation \in [content : Version, time : Version] /\ curationRaced \in BOOLEAN
  /\ versions \in Nat

\* What the cache would serve is what the files hold.
CachedIsOnDisk ==
  \A n \in Entries \ raced :
    (index[n] # None /\ cache[n] # None /\ Stat(n, index[n]) = index[n])
      => cache[n] = index[n]

CurationIsOnDisk ==
  (notes # None /\ curation.time = notes /\ ~curationRaced)
    => curation.content = notes

(***************************************************************************)
(* The catalog is fresh: whenever the times say that nothing changed since *)
(* the index was built, what is cached was read from the files as they     *)
(* are, although sidecars and charts are replaced while they are scanned   *)
(* and read.  Not claimed of an entry whose last load ended after a scan   *)
(* that changed it, nor of a curation replaced while it was read: those    *)
(* are stale until the next change (catalog.go:113, 370, 401, 437).        *)
(***************************************************************************)
CatalogIsFresh == CachedIsOnDisk /\ CurationIsOnDisk
=============================================================================
