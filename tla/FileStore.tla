----------------------------- MODULE FileStore -----------------------------
(***************************************************************************)
(* internal/files: the file manager's requests, each a sequence of calls   *)
(* to the file system, and its chunked uploads, whose progress is kept in  *)
(* memory.  A path names a file; a handler that opened a file goes on with *)
(* it when the path is renamed, removed or replaced.  Files have Size      *)
(* parts, written in order; a part holds the content it was written for.   *)
(* Requests overlap, and may name the same paths; but a path that is being *)
(* uploaded to is not used by another request.                             *)
(***************************************************************************)
EXTENDS Naturals, FiniteSets, Values

CONSTANTS
  Paths,      \* paths in one directory tree (no directory is moved here)
  Files,      \* inodes (a bound)
  Contents,   \* what is saved as a whole
  Large,      \* those that are larger than MaxUploadSize
  Limit,      \* the parts of such a body up to MaxUploadSize
  Uploads,    \* chunked uploads; each brings a content of its own
  Chunks,     \* PATCH requests handled at a time (a bound)
  Size,       \* parts of a file
  Handlers,   \* requests on whole files handled at a time (a bound)
  MaxJobs,    \* and with the uploads in all (a bound)
  MaxBroken   \* requests that fail in the middle (a bound)

Pieces == 1 .. Size

FileJobs ==
  [op : {"put", "delete", "move", "copy"}, src : Paths, dst : Paths, content : Contents \cup {None},
   override : BOOLEAN, at : {"check", "go", "write"}, part : 1 .. Size + 1,
   from : Files \cup {None}, file : Files \cup {None}, alone : BOOLEAN]

UploadStates == [path : Paths, offset : Nat, open : BOOLEAN]

ChunkRequests ==
  [up : Uploads, part : Pieces, file : Files \cup {None}, at : {"sent", "write", "record"}]

ASSUME FilesAssumption ==
  /\ Size \in Nat \ {0} /\ Limit \in 1 .. Size /\ Large \subseteq Contents /\ Paths # {} /\ Files # {} /\ Contents # {}
  /\ None \notin Files \cup Contents \cup Uploads
  /\ None \notin FileJobs \cup UploadStates \cup ChunkRequests

VARIABLES
  name,      \* the directory: [Paths -> Files or None]
  data,      \* [Files -> [1 .. Size -> what the part was written for, or None]]
  job,       \* the requests on whole files under way; alone is observed: no other that
             \* ran beside it has used a path it names
  upload,    \* uploadsInProgress: [Uploads -> [path, file, open], or None before]
  chunk,     \* the PATCH requests under way
  kept,      \* observed: what was saved or uploaded, and nobody asked to replace or remove
  jobs, broken

filesVars == <<name, data, job, upload, chunk, kept, jobs, broken>>

Blank == [i \in Pieces |-> None]

Whole(c) == [i \in Pieces |-> c]

Holds(p, c) == name[p] # None /\ data[name[p]] = Whole(c)

ContentAt(p) == {c \in Contents \cup Uploads : Holds(p, c)}

\* Files nothing refers to any more.
Free == {f \in Files :
          /\ \A p \in Paths : name[p] # f
          /\ \A j \in Handlers : job[j] = None \/ f \notin {job[j].from, job[j].file}
          /\ \A k \in Chunks : chunk[k] = None \/ chunk[k].file # f}

\* The file that os.Create opens: an existing one keeps its identity.
Opened(p) == IF name[p] # None THEN name[p] ELSE CHOOSE f \in Free : TRUE

\* os.Create: the file is truncated.
Creates(p) ==
  /\ name[p] = None => Free # {}
  /\ name' = [name EXCEPT ![p] = Opened(p)]
  /\ data' = [data EXCEPT ![Opened(p)] = Blank]

\* The paths of uploads that are unfinished, or have a request under way.
Uploading ==
  {upload[u].path : u \in {v \in Uploads :
     upload[v] # None /\ (upload[v].open \/ \E k \in Chunks : chunk[k] # None /\ chunk[k].up = v)}}

\* The paths a request names, and where the file it writes to has been moved since.
PathsOf(j) ==
  {job[j].src, job[j].dst} \cup {p \in Paths : job[j].file # None /\ name[p] = job[j].file}

\* The requests under way that use a path of r's.
Beside(j, r) ==
  {i \in Handlers \ {j} : job[i] # None /\ {r.src, r.dst} \cap PathsOf(i) # {}}

\* What lies on the paths that r and other requests use at a time.
Contested(j, r) ==
  IF Beside(j, r) = {} THEN {}
  ELSE UNION {ContentAt(p) : p \in {r.src, r.dst} \cup UNION {PathsOf(i) : i \in Beside(j, r)}}

\* Handler j goes on as r, whose paths it has just come to name.  Whether another
\* request uses them is only observed, the code does not look.
TakesPaths(j, r, gone) ==
  /\ job' = [i \in Handlers |->
       IF i = j THEN [r EXCEPT !.alone = r.alone /\ Beside(j, r) = {}]
       ELSE IF i \in Beside(j, r) THEN [job[i] EXCEPT !.alone = FALSE] ELSE job[i]]
  /\ kept' = kept \ (gone \cup Contested(j, r))

\* With override the destination is not looked at.
Starts(j, op, s, d, c, override, gone) ==
  /\ job[j] = None /\ jobs < MaxJobs /\ {s, d} \cap Uploading = {}
  /\ TakesPaths(j, [op |-> op, src |-> s, dst |-> d, content |-> c, override |-> override,
                    at |-> IF override THEN "go" ELSE "check", part |-> 1,
                    from |-> None, file |-> None, alone |-> TRUE], gone)
  /\ jobs' = jobs + 1
  /\ UNCHANGED <<name, data, upload, chunk, broken>>

Replaced(p, override) == IF override THEN ContentAt(p) ELSE {}

\* uploadFile and uploadRawBody; createOrUpdate, the text editor's save, overrides.
PutStarts(j) ==
  \E p \in Paths, c \in Contents, override \in BOOLEAN :
    /\ \A q \in Paths : ~Holds(q, c)
    /\ Starts(j, "put", p, p, c, override, Replaced(p, override))

DeleteStarts(j) ==
  \E p \in Paths : Starts(j, "delete", p, p, None, TRUE, ContentAt(p))

\* renameMove, from PATCH /api/resources; a file is not moved onto itself.
MoveStarts(j) ==
  \E op \in {"move", "copy"}, s, d \in Paths, override \in BOOLEAN :
    s # d /\ Starts(j, op, s, d, None, override, Replaced(d, override))

JobIs(j, op) == job[j] # None /\ job[j].op = op

JobEnds(j) == job' = [job EXCEPT ![j] = None] /\ UNCHANGED <<upload, chunk, jobs, broken>>

JobGoesOn(j, next) == job' = [job EXCEPT ![j] = next] /\ UNCHANGED <<upload, chunk, jobs, broken>>

\* os.Stat of the destination: an existing file ends the request, unless rename asks for
\* a name that is free now (generateUniqueName).  What was free may exist by the time it
\* is created.
Checks(j) ==
  /\ job[j] # None /\ job[j].at = "check"
  /\ \/ /\ name[job[j].dst] = None
        /\ JobGoesOn(j, [job[j] EXCEPT !.at = "go"]) /\ UNCHANGED kept
     \/ name[job[j].dst] # None /\ JobEnds(j) /\ UNCHANGED kept
     \/ /\ name[job[j].dst] # None /\ job[j].op # "put"
        /\ \E p \in Paths : name[p] = None /\ TakesPaths(j, [job[j] EXCEPT !.at = "go", !.dst = p], {})
        /\ UNCHANGED <<upload, chunk, jobs, broken>>
  /\ UNCHANGED <<name, data>>

\* os.RemoveAll, for deleteResource.
Deletes(j) ==
  /\ JobIs(j, "delete")
  /\ name' = [name EXCEPT ![job[j].src] = None]
  /\ JobEnds(j) /\ UNCHANGED <<data, kept>>

\* os.Rename: within a device it moves the name at once.
Renames(j) ==
  /\ JobIs(j, "move") /\ job[j].at = "go" /\ name[job[j].src] # None
  /\ name' = [name EXCEPT ![job[j].src] = None, ![job[j].dst] = name[job[j].src]]
  /\ JobEnds(j) /\ UNCHANGED <<data, kept>>

\* copyFile, or the upload itself: the source is opened, the destination is created or
\* truncated.  A rename that fails, between devices, goes on as a copy.
DestinationOpens(j) ==
  /\ job[j] # None /\ job[j].op # "delete" /\ job[j].at = "go"
  /\ job[j].op = "put" \/ name[job[j].src] # None
  /\ Creates(job[j].dst)
  /\ JobGoesOn(j, [job[j] EXCEPT !.at = "write", !.file = Opened(job[j].dst),
                     !.from = IF job[j].op = "put" THEN None ELSE name[job[j].src]])
  /\ UNCHANGED kept

NoSource(j) ==
  /\ job[j] # None /\ job[j].op \in {"move", "copy"} /\ job[j].at = "go" /\ name[job[j].src] = None
  /\ JobEnds(j) /\ UNCHANGED <<name, data, kept>>

\* io.Copy, a part at a time.
CopiesPart(j) ==
  /\ job[j] # None /\ job[j].at = "write" /\ job[j].part <= Size
  /\ data' = [data EXCEPT ![job[j].file][job[j].part] =
                IF job[j].op = "put" THEN job[j].content ELSE data[job[j].from][job[j].part]]
  /\ JobGoesOn(j, [job[j] EXCEPT !.part = @ + 1]) /\ UNCHANGED <<name, kept>>

SourceRemoved(j) ==
  IF job[j].op = "move" THEN [name EXCEPT ![job[j].src] = None] ELSE name

\* Of a large body io.LimitReader ends the copy early, without an error: uploadRawBody and
\* createOrUpdate, while a multipart form is read to its end.
CopyEnded(r) ==
  r.part > Size \/ (r.op = "put" /\ r.content \in Large /\ r.part > Limit)

\* A move removes the source.  The answer is "ok", also for a body that was cut.
CopyEnds(j) ==
  /\ job[j] # None /\ job[j].at = "write" /\ CopyEnded(job[j])
  /\ name' = SourceRemoved(j)
  /\ kept' = IF job[j].op = "put" /\ job[j].part > Size /\ job[j].alone
             THEN kept \cup {job[j].content} ELSE kept
  /\ JobEnds(j) /\ UNCHANGED data

BreaksAndRemoves(j) ==   \* a slip: the copy's error is not looked at
  /\ job[j] # None /\ job[j].at = "write" /\ broken < MaxBroken
  /\ name' = SourceRemoved(j)
  /\ job' = [job EXCEPT ![j] = None] /\ broken' = broken + 1
  /\ UNCHANGED <<data, upload, chunk, kept, jobs>>

\* Writing fails, or the client goes away: the parts that were copied stay.
JobBreaks(j) ==
  /\ job[j] # None /\ job[j].at = "write" /\ broken < MaxBroken
  /\ job' = [job EXCEPT ![j] = None] /\ broken' = broken + 1
  /\ UNCHANGED <<name, data, upload, chunk, kept, jobs>>

\* handleUploadInit: the file is emptied, whatever it was, and an id is given out.
UploadStarts(u) ==
  \E p \in Paths :
    /\ upload[u] = None /\ jobs < MaxJobs /\ p \notin Uploading
    /\ \A j \in Handlers : job[j] # None => p \notin PathsOf(j)
    /\ Creates(p)
    /\ kept' = kept \ ContentAt(p)
    /\ upload' = [upload EXCEPT ![u] = [path |-> p, offset |-> 0, open |-> TRUE]]
    /\ jobs' = jobs + 1
    /\ UNCHANGED <<job, chunk, broken>>

\* handleUploadedBytes: what the file has, from which its size follows.
UploadedBytes(u) ==
  LET f == name[upload[u].path]
  IN  {i \in Pieces : f # None /\ data[f][i] # None}

\* A client goes on where the file ends, and repeats what was not answered in time,
\* while the first request may still be handled.
ChunkSent(k, u) ==
  /\ chunk[k] = None /\ upload[u] # None /\ upload[u].open
  /\ \E i \in Pieces :
       /\ i = 1 \/ \E h \in UploadedBytes(u) : i <= h + 1
       /\ chunk' = [chunk EXCEPT ![k] = [up |-> u, part |-> i, file |-> None, at |-> "sent"]]
  /\ UNCHANGED <<name, data, job, upload, kept, jobs, broken>>

\* handleUploadChunk: the state is looked up, then the file is opened.
ChunkOpens(k) ==
  /\ chunk[k] # None /\ chunk[k].at = "sent" /\ upload[chunk[k].up].open
  /\ chunk' = [chunk EXCEPT ![k].file = name[upload[chunk[k].up].path], ![k].at = "write"]
  /\ UNCHANGED <<name, data, job, upload, kept, jobs, broken>>

\* Seek and io.Copy at the client's offset.
ChunkWrites(k) ==
  /\ chunk[k] # None /\ chunk[k].at = "write"
  /\ data' = [data EXCEPT ![chunk[k].file][chunk[k].part] = chunk[k].up]
  /\ chunk' = [chunk EXCEPT ![k].at = "record"]
  /\ UNCHANGED <<name, job, upload, kept, jobs, broken>>

Accumulated(u, i) == upload[u].offset + 1   \* a slip: what was written is added up

\* The offset after this part.
NewOffset(u, i) == i

\* The state is updated under the lock, and dropped once the size is reached.
ChunkRecords(k) ==
  /\ chunk[k] # None /\ chunk[k].at = "record"
  /\ LET u == chunk[k].up
         offset == NewOffset(u, chunk[k].part)
     IN  /\ upload' = [upload EXCEPT ![u].offset = offset, ![u].open = @ /\ offset < Size]
         /\ kept' = IF upload[u].open /\ offset >= Size THEN kept \cup {u} ELSE kept
  /\ chunk' = [chunk EXCEPT ![k] = None]
  /\ UNCHANGED <<name, data, job, jobs, broken>>

\* 404, no such file, or a body that breaks off: nothing is recorded.
ChunkFails(k) ==
  /\ chunk[k] # None /\ chunk[k].at # "record"
  /\ chunk' = [chunk EXCEPT ![k] = None]
  /\ UNCHANGED <<name, data, job, upload, kept, jobs, broken>>

\* The files server ends: what is in progress is forgotten, the disk stays.
FilesRestarts ==
  /\ broken < MaxBroken
  /\ broken' = broken + 1
  /\ job' = [j \in Handlers |-> None]
  /\ chunk' = [k \in Chunks |-> None]
  /\ upload' = [u \in Uploads |-> IF upload[u] = None THEN None ELSE [upload[u] EXCEPT !.open = FALSE]]
  /\ UNCHANGED <<name, data, kept, jobs>>

\* One file at first; which path, file and content does not matter.
FilesInit ==
  /\ LET p == CHOOSE q \in Paths : TRUE
         f == CHOOSE g \in Files : TRUE
         c == CHOOSE b \in Contents : TRUE
     IN
       /\ name = [q \in Paths |-> IF q = p THEN f ELSE None]
       /\ data = [g \in Files |-> IF g = f THEN Whole(c) ELSE Blank]
       /\ kept = {c}
  /\ job = [j \in Handlers |-> None]
  /\ upload = [u \in Uploads |-> None]
  /\ chunk = [k \in Chunks |-> None]
  /\ jobs = 0 /\ broken = 0

FilesNext ==
  \/ \E j \in Handlers :
       \/ PutStarts(j) \/ DeleteStarts(j) \/ MoveStarts(j) \/ Checks(j) \/ Deletes(j)
       \/ Renames(j) \/ DestinationOpens(j) \/ NoSource(j) \/ CopiesPart(j) \/ CopyEnds(j) \/ JobBreaks(j)
  \/ FilesRestarts
  \/ \E u \in Uploads : UploadStarts(u) \/ \E k \in Chunks : ChunkSent(k, u)
  \/ \E k \in Chunks : ChunkOpens(k) \/ ChunkWrites(k) \/ ChunkRecords(k) \/ ChunkFails(k)

FilesTypeOK ==
  /\ name \in [Paths -> Files \cup {None}]
  /\ data \in [Files -> [Pieces -> Contents \cup Uploads \cup {None}]]
  /\ \A p, q \in Paths : name[p] # None /\ name[p] = name[q] => p = q
  /\ kept \subseteq Contents \cup Uploads
  /\ job \in [Handlers -> {None} \cup FileJobs] /\ upload \in [Uploads -> {None} \cup UploadStates]
  /\ chunk \in [Chunks -> {None} \cup ChunkRequests]

(***************************************************************************)
(* Files survive: what the server answered as saved, or as an upload that  *)
(* is complete, and nobody asked to replace or remove, is whole at some    *)
(* path, although parts were repeated and overtaken (handleUploadChunk),   *)
(* moves and copies fail in the middle or cross devices (renameMove,       *)
(* copyFile), and other requests work on files that are moved meanwhile.   *)
(* Not claimed: a body beyond MaxUploadSize, whose rest is not read and    *)
(* not missed (uploadRawBody, createOrUpdate); what requests that use one  *)
(* path at the same time leave there, since Stat and Create are apart.     *)
(***************************************************************************)
FilesSurvive == \A c \in kept : \E p \in Paths : Holds(p, c)
=============================================================================
