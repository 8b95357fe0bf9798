------------------------------- MODULE Upload -------------------------------
(***************************************************************************)
(* Uploads of one content into one knowledge base: the existence check,    *)
(* the file saved under a temporary name and renamed, the document row     *)
(* with its unique key, and the single commit of document, version and     *)
(* job; beside them the deletion of the knowledge base and the worker that *)
(* reads the stored file.  Sources: services/ingestion.py                  *)
(* (create_ingestion_job), ingestion/storage.py, services/knowledge.py.    *)
(*                                                                         *)
(* A request is one call of the endpoint; it stores the content under the  *)
(* path of its user and its file name's extension.  A file is an inode,    *)
(* named after the request that created it, with the units of the content  *)
(* written to it so far: a name is a pointer to an inode, so a rename      *)
(* moves the pointer and writers that opened the inode keep writing to it. *)
(***************************************************************************)
EXTENDS Naturals

CONSTANTS
  Requests,      \* calls of POST .../documents with the one content
  Paths,         \* storage paths: <user>/<knowledge base>/<digest>.<extension>
  Size,          \* units the content is written in
  MaxFaults,     \* bound on the requests that fail or die on the way
  None           \* no request, no file, no path

ASSUME UploadAssumption ==
  /\ Size \in Nat \ {0} /\ MaxFaults \in Nat
  /\ None \notin Requests \cup Paths

Units == 1..Size

VARIABLES
  base,        \* knowledge_bases.status
  document,    \* the request whose document, version and job are committed
  job,         \* the status of that job
  text,        \* the units of the content the worker made READY
  temporary,   \* path -> inode under its temporary name
  target,      \* path -> inode under its own name
  content,     \* inode -> units in it
  req,         \* request -> how far it is and what it was answered
  clashed,     \* history: paths whose temporary file two requests had open
  faults       \* requests that failed or died

vars == <<base, document, job, text, temporary, target, content, req, clashed, faults>>
files == <<temporary, target, content, clashed>>
rows == <<document, job, text>>

(* pc: where the request is; handle and pos: its open file and the units it has
   written; answer and names: the response and the job it names. *)
Request == [pc : {"idle", "save", "write", "stored", "flushed", "done"},
            path : Paths \cup {None}, handle : Requests \cup {None}, pos : 0..Size,
            answer : {"none", "new", "existing", "missing", "error"},
            names : Requests \cup {None}]

Unsent == [pc |-> "idle", path |-> None, handle |-> None, pos |-> 0,
           answer |-> "none", names |-> None]

Init ==
  /\ base = "active" /\ document = None /\ job = "ABSENT" /\ text = {}
  /\ temporary = [p \in Paths |-> None] /\ target = [p \in Paths |-> None]
  /\ content = [r \in Requests |-> {}]
  /\ req = [r \in Requests |-> Unsent]
  /\ clashed = {} /\ faults = 0

Advance(r, pc) == req' = [req EXCEPT ![r].pc = pc]

(* The request is over: its file is closed, its transaction ended. *)
Answer(r, answer, names) ==
  req' = [req EXCEPT ![r] = [@ EXCEPT !.pc = "done", !.handle = None,
                                      !.answer = answer, !.names = names]]

-----------------------------------------------------------------------------
(* The steps of an upload *)

(* The knowledge base, the document and its job, as of one snapshot. *)
Check(r, p) ==
  /\ req[r].pc = "idle"
  /\ \/ base = "deleted" /\ Answer(r, "missing", None)
     \/ base = "active" /\ document # None /\ Answer(r, "existing", document)
     \/ /\ base = "active" /\ document = None
        /\ req' = [req EXCEPT ![r] = [@ EXCEPT !.pc = "save", !.path = p]]
  /\ UNCHANGED <<base, rows, files, faults>>

Writing(p) == {q \in Requests : req[q].pc = "write" /\ req[q].path = p}

(* Faulty variant: the file is written under its own name. *)
OpenInPlace(r) ==
  LET p == req[r].path
      i == IF target[p] = None THEN r ELSE target[p]
  IN /\ req[r].pc = "save"
     /\ temporary' = [temporary EXCEPT ![p] = i]
     /\ target' = [target EXCEPT ![p] = i]
     /\ content' = [content EXCEPT ![i] = {}]
     /\ req' = [req EXCEPT ![r] = [@ EXCEPT !.pc = "write", !.handle = i]]
     /\ clashed' = IF Writing(p) = {} THEN clashed ELSE clashed \cup {p}
     /\ UNCHANGED <<base, rows, faults>>

(* Opening the temporary name truncates the file that is there, whoever writes it. *)
Open(r) ==
  LET p == req[r].path
      i == IF temporary[p] = None THEN r ELSE temporary[p]
  IN /\ req[r].pc = "save"
     /\ temporary' = [temporary EXCEPT ![p] = i]
     /\ content' = [content EXCEPT ![i] = {}]
     /\ req' = [req EXCEPT ![r] = [@ EXCEPT !.pc = "write", !.handle = i]]
     /\ clashed' = IF Writing(p) = {} THEN clashed ELSE clashed \cup {p}
     /\ UNCHANGED <<base, rows, target, faults>>

(* Faulty variant: one unit too many is written. *)
WriteBeyond(r) ==
  LET i == req[r].handle IN
  /\ req[r].pc = "write" /\ req[r].pos <= Size
  /\ content' = [content EXCEPT ![i] = @ \cup {req[r].pos + 1}]
  /\ req' = [req EXCEPT ![r].pos = @ + 1]
  /\ UNCHANGED <<base, rows, temporary, target, clashed, faults>>

(* The next unit goes to the file the request has open, wherever it is by now. *)
Write(r) ==
  LET i == req[r].handle IN
  /\ req[r].pc = "write" /\ req[r].pos < Size
  /\ content' = [content EXCEPT ![i] = @ \cup {req[r].pos + 1}]
  /\ req' = [req EXCEPT ![r].pos = @ + 1]
  /\ UNCHANGED <<base, rows, temporary, target, clashed, faults>>

(* The file is closed and renamed; the rename fails when another request has
   renamed the temporary file meanwhile. *)
Replace(r) ==
  LET p == req[r].path IN
  /\ req[r].pc = "write" /\ req[r].pos = Size
  /\ \/ /\ temporary[p] # None
        /\ target' = [target EXCEPT ![p] = temporary[p]]
        /\ temporary' = [temporary EXCEPT ![p] = None]
        /\ req' = [req EXCEPT ![r] = [@ EXCEPT !.pc = "stored", !.handle = None]]
     \/ /\ temporary[p] = None
        /\ Answer(r, "error", None)
        /\ UNCHANGED <<target, temporary>>
  /\ UNCHANGED <<base, rows, content, clashed, faults>>

Flushed == {q \in Requests : req[q].pc = "flushed"}

(* Faulty variant: no unique key. *)
InsertDocumentTwice(r) ==
  /\ req[r].pc = "stored"
  /\ Advance(r, "flushed")
  /\ UNCHANGED <<base, rows, files, faults>>

(* Faulty variant: the document is inserted before the file is stored. *)
InsertDocumentFirst(r) ==
  /\ req[r].pc \in {"save", "stored"} /\ Flushed = {} /\ document = None
  /\ Advance(r, "flushed")
  /\ UNCHANGED <<base, rows, files, faults>>

(* INSERT into documents: the unique key (knowledge base, content hash) makes it
   wait for a transaction that has inserted the same key to end. *)
InsertDocument(r) ==
  /\ req[r].pc = "stored" /\ Flushed = {} /\ document = None
  /\ Advance(r, "flushed")
  /\ UNCHANGED <<base, rows, files, faults>>

(* Faulty variant: the loser uploads again. *)
LoseRaceRetrying(r) ==
  /\ req[r].pc = "stored" /\ Flushed = {} /\ document # None
  /\ Advance(r, "save")
  /\ UNCHANGED <<base, rows, files, faults>>

(* The key is taken: IntegrityError.  The rollback expires knowledge_base, whose
   id the next statement reads outside of an awaited call: MissingGreenlet, and
   the lookup of the existing document is never reached. *)
LoseRace(r) ==
  /\ req[r].pc = "stored" /\ Flushed = {} /\ document # None
  /\ Answer(r, "error", None)
  /\ UNCHANGED <<base, rows, files, faults>>

(* Document, version and job are committed; what comes after the commit may
   fail, or the answer of the database may be lost. *)
CommitRows(r) ==
  /\ req[r].pc = "flushed"
  /\ document' = r /\ job' = "PENDING"
  /\ \/ Answer(r, "new", r) /\ UNCHANGED faults
     \/ faults < MaxFaults /\ faults' = faults + 1 /\ Answer(r, "error", None)
  /\ UNCHANGED <<base, text, files>>

(* Any step of the request raises, or the process dies: the transaction is
   rolled back, the files stay as they are. *)
Fail(r) ==
  /\ req[r].pc \notin {"idle", "done"} /\ faults < MaxFaults
  /\ faults' = faults + 1
  /\ Answer(r, "error", None)
  /\ UNCHANGED <<base, rows, files>>

-----------------------------------------------------------------------------
(* The others *)

(* soft_delete_knowledge_base: one row; documents and jobs stay. *)
DeleteBase ==
  /\ base = "active" /\ base' = "deleted"
  /\ UNCHANGED <<rows, files, req, faults>>

(* The worker reads the stored file and makes what it finds searchable; it asks
   neither for the knowledge base's status nor for the file's hash. *)
Process ==
  LET i == target[req[document].path] IN
  /\ job = "PENDING"
  /\ \/ /\ i # None /\ content[i] # {}
        /\ job' = "READY" /\ text' = content[i]
     \/ /\ i # None /\ content[i] = {}
        /\ job' = "FAILED" /\ UNCHANGED text
  /\ UNCHANGED <<base, document, files, req, faults>>

Advances(r) == Open(r) \/ Write(r) \/ Replace(r) \/ InsertDocument(r) \/ LoseRace(r) \/ CommitRows(r)

Next == \/ \E r \in Requests : Advances(r) \/ Fail(r) \/ \E p \in Paths : Check(r, p)
        \/ DeleteBase \/ Process

Spec == Init /\ [][Next]_vars

(* The event loop, the thread pool and the database get every request on. *)
FairSpec == Spec /\ \A r \in Requests : WF_vars(Advances(r))

-----------------------------------------------------------------------------
(* Properties *)

(* Rows, files and requests stay in their domains. *)
TypeOK ==
  /\ base \in {"active", "deleted"}
  /\ document \in Requests \cup {None}
  /\ job \in {"ABSENT", "PENDING", "READY", "FAILED"}
  /\ text \in SUBSET Units
  /\ temporary \in [Paths -> Requests \cup {None}]
  /\ target \in [Paths -> Requests \cup {None}]
  /\ content \in [Requests -> SUBSET Units]
  /\ req \in [Requests -> Request]
  /\ clashed \in SUBSET Paths
  /\ faults \in 0..MaxFaults

(* A committed document has a file under its storage_uri, whichever uploads
   failed or overtook it: the worker never meets a job without its file. *)
RecordedIsStored ==
  document # None => req[document].path # None /\ target[req[document].path] # None

(* Every 200 answer names the one committed job, and it is called new for the
   upload that created it alone: the content is recorded once. *)
AnswersNameTheJob ==
  \A r \in Requests :
    /\ req[r].answer \in {"new", "existing"} => document # None /\ req[r].names = document
    /\ req[r].answer = "new" => document = r

(* Saving under a temporary name pays off: unless two uploads had one temporary
   file open at once, what the worker made searchable is the whole content, even
   when uploads die while they write. *)
TextIsWhole ==
  job \in {"READY", "FAILED"} =>
    \/ req[document].path \in clashed
    \/ job = "READY" /\ text = Units

(* The endpoint implements the registry of module ContentRegistry: the content is
   recorded once and never replaced, and no answer is taken back. *)
Registry == INSTANCE ContentRegistry WITH
              recorded <- document,
              answer <- [r \in Requests |-> req[r].answer],
              names <- [r \in Requests |-> req[r].names]

RecordsOnce == Registry!Spec

(* An upload in progress is answered: nobody waits for a document key that a
   failed upload left locked. *)
UploadsEnd ==
  \A r \in Requests : (req[r].pc # "idle") ~> (req[r].pc = "done")
=============================================================================
