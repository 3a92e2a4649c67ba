------------------------------ MODULE AppStore ------------------------------
(***************************************************************************)
(* internal/appservice/store.go: the table of app records and its file.    *)
(*                                                                         *)
(* Put and Get hand out pointers, so a record is an object of its own: apps *)
(* maps a name to a record's identity, heap holds what the record says now, *)
(* and a goroutine that kept a pointer goes on writing to a record that the *)
(* table may have dropped or replaced.  save writes the current contents of *)
(* every record in the table, whoever changed them.                        *)
(***************************************************************************)
EXTENDS AppTypes

CONSTANTS
  Recs,        \* identities of records
  None,        \* no record
  SaveFaults   \* how writing the file may fail

VARIABLES
  apps,        \* AppStore.apps: [Apps -> Recs \cup {None}]
  heap,        \* [Recs -> AppRecord]
  file         \* appstate.json: [Apps -> AppRecord \cup {None}]

storeVars == <<apps, heap, file>>

\* The fields of a record that decide anything here: its state, whether the
\* entrances of its manifest have been filled in, and the public-access toggle.
AppRecord == [state : States, entered : BOOLEAN, public : BOOLEAN]

\* A record loaded from the file gets the app's name as its identity.
ASSUME StoreAssumption ==
  /\ Apps \subseteq Recs
  /\ None \notin Recs /\ None \notin AppRecord
  /\ SaveFaults \subseteq {"refused", "torn"}

Blank == [state |-> "Uninstalled", entered |-> FALSE, public |-> FALSE]

NothingSaved == [a \in Apps |-> None]

Image(table, h) ==
  [a \in Apps |-> IF table[a] = None THEN None ELSE h[table[a]]]

\* save: os.WriteFile truncates the file and then writes it.  It may fail before
\* that ("refused") or after it ("torn"); a file cut short does not parse, and
\* NewAppStore then starts with an empty table, as if nothing had been saved.
SaveOutcomes == {"ok"} \cup SaveFaults

Save(outcome) ==
  file' = CASE outcome = "ok"      -> Image(apps', heap')
            [] outcome = "refused" -> file
            [] outcome = "torn"    -> NothingSaved

\* Put(rec) after the caller has assigned to the record: the table points at it.
Put(a, r, rec, outcome) ==
  /\ apps' = [apps EXCEPT ![a] = r]
  /\ heap' = [heap EXCEPT ![r] = rec]
  /\ Save(outcome)

Delete(a, outcome) ==
  /\ apps' = [apps EXCEPT ![a] = None]
  /\ heap' = heap
  /\ Save(outcome)

\* NewAppStore on a file: every record it holds becomes a fresh object.
LoadedApps(image) == [a \in Apps |-> IF image[a] = None THEN None ELSE a]

LoadedHeap(image) ==
  [r \in Recs |-> IF r \in Apps /\ image[r] # None THEN image[r] ELSE Blank]

Load(image) ==
  /\ apps' = LoadedApps(image)
  /\ heap' = LoadedHeap(image)
  /\ file' = image

StoreInit(image) ==
  /\ apps = LoadedApps(image)
  /\ heap = LoadedHeap(image)
  /\ file = image

StoreTypeOK ==
  /\ apps \in [Apps -> Recs \cup {None}]
  /\ heap \in [Recs -> AppRecord]
  /\ file \in [Apps -> AppRecord \cup {None}]
=============================================================================
