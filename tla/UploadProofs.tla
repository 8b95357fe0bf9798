---------------------------- MODULE UploadProofs ----------------------------
(***************************************************************************)
(* Proofs about module Upload, for every number of requests, paths, units  *)
(* and faults.                                                             *)
(***************************************************************************)
EXTENDS Upload, TLAPS

-----------------------------------------------------------------------------
(* The inductive invariant. *)

(* A request that is past the check has a path, one that writes has a file, and
   one that does not write yet has written nothing. *)
RequestsWellFormed ==
  \A r \in Requests :
    /\ req[r].pc \in {"save", "write", "stored", "flushed"} => req[r].path \in Paths
    /\ req[r].pc = "write" => req[r].handle \in Requests
    /\ req[r].pc \in {"idle", "save"} => req[r].pos = 0

(* The files of a path were created by requests for that path, which have opened
   them: no file is shared by two paths, and a request about to open one has none
   of its own yet.  A file has one name only. *)
Created(i, p) == req[i].path = p /\ req[i].pc \notin {"idle", "save"}

FilesWellFormed ==
  /\ \A p \in Paths :
       /\ temporary[p] # None => Created(temporary[p], p) /\ temporary[p] # target[p]
       /\ target[p] # None => Created(target[p], p)
  /\ \A r \in Requests : req[r].pc = "write" => Created(req[r].handle, req[r].path)

(* Under a path without a clash one request at a time writes, its file is the
   temporary one and holds what it has written, and the stored file is whole. *)
UnclashedIsWhole ==
  \A p \in Paths \ clashed :
    /\ \A r, q \in Writing(p) : r = q
    /\ \A r \in Writing(p) :
         temporary[p] = req[r].handle /\ content[req[r].handle] = 1..req[r].pos
    /\ target[p] # None => content[target[p]] = Units

(* A request that has stored the file, or recorded the document, has its file. *)
StoredHasFile ==
  \A r \in Requests : req[r].pc \in {"stored", "flushed"} => target[req[r].path] # None

(* One uncommitted document at a time, and none once there is a committed one. *)
KeyIsUnique ==
  \A r \in Flushed : document = None /\ \A q \in Flushed : q = r

(* The job belongs to the document, whose request is over. *)
RowsWellFormed ==
  /\ job # "ABSENT" => document # None
  /\ document # None =>
       req[document].pc = "done" /\ req[document].path \in Paths
         /\ target[req[document].path] # None

IInv == /\ TypeOK /\ RequestsWellFormed /\ FilesWellFormed /\ UnclashedIsWhole
        /\ StoredHasFile /\ KeyIsUnique /\ RowsWellFormed
        /\ AnswersNameTheJob /\ TextIsWhole

-----------------------------------------------------------------------------
(* The type. *)

(* The updates of a request's record. *)
LEMMA Updates ==
  ASSUME NEW x \in Request
  PROVE  /\ \A pc \in {"save", "write", "stored", "flushed"} :
              /\ [x EXCEPT !.pc = pc] \in Request
              /\ \A p \in Paths : [x EXCEPT !.pc = pc, !.path = p] \in Request
              /\ \A h \in Requests \cup {None} : [x EXCEPT !.pc = pc, !.handle = h] \in Request
         /\ \A n \in 0..Size : [x EXCEPT !.pos = n] \in Request
         /\ \A a \in {"new", "existing", "missing", "error"}, n \in Requests \cup {None} :
              [x EXCEPT !.pc = "done", !.handle = None, !.answer = a, !.names = n] \in Request
BY DEF Request

LEMMA Updated ==
  ASSUME TypeOK, NEW r \in Requests, NEW new \in Request, req' = [req EXCEPT ![r] = new]
  PROVE  req' \in [Requests -> Request]
BY DEF TypeOK

LEMMA AnswerType ==
  ASSUME TypeOK, NEW r \in Requests, NEW a \in {"new", "existing", "missing", "error"},
         NEW n \in Requests \cup {None}, Answer(r, a, n)
  PROVE  req' \in [Requests -> Request]
<1>1. req[r] \in Request
  BY DEF TypeOK
<1>2. [req[r] EXCEPT !.pc = "done", !.handle = None, !.answer = a, !.names = n] \in Request
  BY <1>1, Updates
<1> QED BY <1>2, Updated DEF Answer

LEMMA AdvanceType ==
  ASSUME TypeOK, NEW r \in Requests, NEW pc \in {"save", "write", "stored", "flushed"},
         Advance(r, pc)
  PROVE  req' \in [Requests -> Request]
<1>1. req[r] \in Request
  BY DEF TypeOK
<1>2. [req[r] EXCEPT !.pc = pc] \in Request
  BY <1>1, Updates
<1> QED BY <1>2, Updated DEF Advance

LEMMA FileStepsType ==
  ASSUME TypeOK, NEW r \in Requests, req[r].path \in Paths,
         req[r].pc = "write" => req[r].handle \in Requests,
         Open(r) \/ Write(r) \/ Replace(r)
  PROVE  TypeOK'
<1>0. req[r] \in Request
  BY DEF TypeOK
<1>1. CASE Open(r)
  <2> DEFINE i == IF temporary[req[r].path] = None THEN r ELSE temporary[req[r].path]
  <2>1. i \in Requests
    BY DEF TypeOK
  <2>2. [req[r] EXCEPT !.pc = "write", !.handle = i] \in Request
    BY <1>0, <2>1, Updates
  <2>3. req' \in [Requests -> Request]
    BY <1>1, <2>2, Updated DEF Open
  <2> QED BY <1>1, <2>1, <2>3 DEF Open, TypeOK, rows
<1>2. CASE Write(r)
  <2>1. req[r].pos + 1 \in 0..Size /\ req[r].pos + 1 \in Units
    BY <1>0, <1>2, UploadAssumption DEF Write, Request, Units
  <2>2. [req[r] EXCEPT !.pos = req[r].pos + 1] \in Request
    BY <1>0, <2>1, Updates
  <2>3. req' \in [Requests -> Request]
    BY <1>2, <2>2, Updated DEF Write
  <2>4. content' \in [Requests -> SUBSET Units]
    BY <1>2, <2>1 DEF Write, TypeOK
  <2> QED BY <1>2, <2>3, <2>4 DEF Write, TypeOK, rows
<1>3. CASE Replace(r)
  <2>1. [req[r] EXCEPT !.pc = "stored", !.handle = None] \in Request
    BY <1>0, Updates
  <2>2. req' \in [Requests -> Request]
    BY <1>3, <2>1, AnswerType, Updated DEF Replace
  <2> QED BY <1>3, <2>2 DEF Replace, TypeOK, rows
<1> QED BY <1>1, <1>2, <1>3

LEMMA RowStepsType ==
  ASSUME TypeOK, NEW r \in Requests,
         InsertDocument(r) \/ LoseRace(r) \/ CommitRows(r) \/ Fail(r) \/ \E p \in Paths : Check(r, p)
  PROVE  TypeOK'
<1>0. faults < MaxFaults => faults + 1 \in 0..MaxFaults
  BY UploadAssumption DEF TypeOK
<1>6. req[r] \in Request
  BY DEF TypeOK
<1>1. CASE InsertDocument(r)
  BY <1>1, AdvanceType DEF InsertDocument, TypeOK, rows, files
<1>2. CASE LoseRace(r)
  BY <1>2, AnswerType DEF LoseRace, TypeOK, rows, files
<1>3. CASE CommitRows(r)
  BY <1>0, <1>3, AnswerType DEF CommitRows, TypeOK, files
<1>4. CASE Fail(r)
  BY <1>0, <1>4, AnswerType DEF Fail, TypeOK, rows, files
<1>5. ASSUME NEW p \in Paths, Check(r, p) PROVE TypeOK'
  <2>1. [req[r] EXCEPT !.pc = "save", !.path = p] \in Request
    BY <1>6, Updates
  <2>2. req' \in [Requests -> Request]
    BY <1>5, <2>1, AnswerType, Updated DEF Check, TypeOK
  <2> QED BY <1>5, <2>2 DEF Check, TypeOK, rows, files
<1> QED BY <1>1, <1>2, <1>3, <1>4, <1>5

LEMMA OthersType ==
  ASSUME TypeOK, job = "PENDING" => document \in Requests /\ req[document].path \in Paths,
         DeleteBase \/ Process
  PROVE  TypeOK'
<1>1. CASE DeleteBase
  BY <1>1 DEF DeleteBase, TypeOK, rows, files
<1>2. CASE Process
  <2>1. target[req[document].path] # None => content[target[req[document].path]] \in SUBSET Units
    BY <1>2 DEF Process, TypeOK
  <2>2. text' \in SUBSET Units /\ job' \in {"READY", "FAILED"}
    BY <1>2, <2>1 DEF Process, TypeOK
  <2> QED BY <1>2, <2>2 DEF Process, TypeOK, files
<1> QED BY <1>1, <1>2
-----------------------------------------------------------------------------
(* What the steps do to the requests, field by field. *)

Others(r) == \A q \in Requests \ {r} : req'[q] = req[q]

LEMMA Changed ==
  ASSUME TypeOK, NEW r \in Requests, NEW new, req' = [req EXCEPT ![r] = new]
  PROVE  Others(r) /\ req'[r] = new
BY DEF TypeOK, Others

LEMMA AnswerFields ==
  ASSUME TypeOK, NEW r \in Requests, NEW a, NEW n, Answer(r, a, n)
  PROVE  /\ Others(r)
         /\ req'[r].pc = "done" /\ req'[r].path = req[r].path
         /\ req'[r].answer = a /\ req'[r].names = n
<1>1. req[r] \in Request
  BY DEF TypeOK
<1>2. Others(r) /\ req'[r] = [req[r] EXCEPT !.pc = "done", !.handle = None, !.answer = a, !.names = n]
  BY Changed DEF Answer
<1> QED BY <1>1, <1>2 DEF Request

LEMMA AdvanceFields ==
  ASSUME TypeOK, NEW r \in Requests, NEW pc, Advance(r, pc)
  PROVE  /\ Others(r)
         /\ req'[r].pc = pc /\ req'[r].path = req[r].path
         /\ req'[r].answer = req[r].answer /\ req'[r].names = req[r].names
<1>1. req[r] \in Request
  BY DEF TypeOK
<1>2. Others(r) /\ req'[r] = [req[r] EXCEPT !.pc = pc]
  BY Changed DEF Advance
<1> QED BY <1>1, <1>2 DEF Request

LEMMA OpenFields ==
  ASSUME TypeOK, NEW r \in Requests, Open(r),
         NEW i, i = IF temporary[req[r].path] = None THEN r ELSE temporary[req[r].path]
  PROVE  /\ Others(r)
         /\ req'[r].pc = "write" /\ req'[r].path = req[r].path /\ req'[r].handle = i
         /\ req'[r].pos = req[r].pos
         /\ req'[r].answer = req[r].answer /\ req'[r].names = req[r].names
<1>1. req[r] \in Request
  BY DEF TypeOK
<1>2. PICK x \in Request : x = req[r]
  BY <1>1
<1>3. PICK y : y = [x EXCEPT !.pc = "write", !.handle = i]
  OBVIOUS
<1>4. Others(r) /\ req'[r] = y
  BY <1>2, <1>3, Changed DEF Open
<1>5. y.pc = "write" /\ y.path = x.path
  BY <1>3 DEF Request
<1>6. y.handle = i /\ y.pos = x.pos
  BY <1>3 DEF Request
<1>7. y.answer = x.answer /\ y.names = x.names
  BY <1>3 DEF Request
<1> QED BY <1>2, <1>4, <1>5, <1>6, <1>7

LEMMA WriteFields ==
  ASSUME TypeOK, NEW r \in Requests, Write(r)
  PROVE  /\ Others(r)
         /\ req'[r].pc = "write" /\ req'[r].path = req[r].path
         /\ req'[r].handle = req[r].handle /\ req'[r].pos = req[r].pos + 1
         /\ req'[r].answer = req[r].answer /\ req'[r].names = req[r].names
<1>1. req[r] \in Request
  BY DEF TypeOK
<1>2. Others(r) /\ req'[r] = [req[r] EXCEPT !.pos = @ + 1]
  BY Changed DEF Write
<1> QED BY <1>1, <1>2 DEF Request, Write

LEMMA ReplaceFields ==
  ASSUME TypeOK, NEW r \in Requests,
         req' = [req EXCEPT ![r] = [@ EXCEPT !.pc = "stored", !.handle = None]]
  PROVE  /\ Others(r)
         /\ req'[r].pc = "stored" /\ req'[r].path = req[r].path
         /\ req'[r].answer = req[r].answer /\ req'[r].names = req[r].names
<1>1. req[r] \in Request
  BY DEF TypeOK
<1>2. PICK x \in Request : x = req[r]
  BY <1>1
<1>3. PICK y : y = [x EXCEPT !.pc = "stored", !.handle = None]
  OBVIOUS
<1>4. Others(r) /\ req'[r] = y
  BY <1>2, <1>3, Changed
<1>5. y.pc = "stored" /\ y.path = x.path
  BY <1>3 DEF Request
<1>6. y.handle = None /\ y.pos = x.pos
  BY <1>3 DEF Request
<1>7. y.answer = x.answer /\ y.names = x.names
  BY <1>3 DEF Request
<1> QED BY <1>2, <1>4, <1>5, <1>6, <1>7

LEMMA CheckFields ==
  ASSUME TypeOK, NEW r \in Requests, NEW p \in Paths,
         req' = [req EXCEPT ![r] = [@ EXCEPT !.pc = "save", !.path = p]]
  PROVE  /\ Others(r) /\ req'[r].pos = req[r].pos
         /\ req'[r].pc = "save" /\ req'[r].path = p
         /\ req'[r].answer = req[r].answer /\ req'[r].names = req[r].names
<1>1. req[r] \in Request
  BY DEF TypeOK
<1>2. PICK x \in Request : x = req[r]
  BY <1>1
<1>3. PICK y : y = [x EXCEPT !.pc = "save", !.path = p]
  OBVIOUS
<1>4. Others(r) /\ req'[r] = y
  BY <1>2, <1>3, Changed
<1>5. y.pc = "save" /\ y.path = p /\ y.pos = x.pos
  BY <1>3 DEF Request
<1>6. y.answer = x.answer /\ y.names = x.names
  BY <1>3 DEF Request
<1> QED BY <1>2, <1>4, <1>5, <1>6

-----------------------------------------------------------------------------
(* Each step preserves the invariant: first those that leave the files alone. *)

(* A request leaves, or goes on to a state in which it does not write, while the
   files stay as they are. *)
LEMMA FilesStay ==
  ASSUME IInv, NEW r \in Requests, UNCHANGED files, Others(r),
         req'[r].pc \notin {"save", "write"} \/ req[r].pc = "idle",
         req[r].pc \notin {"idle", "save"} => req'[r].pc \notin {"idle", "save"},
         req'[r].path = req[r].path \/ req[r].pc = "idle",
         req'[r].pc # "write"
  PROVE  FilesWellFormed' /\ UnclashedIsWhole'
<1>1. \A i \in Requests, p \in Paths : Created(i, p) => Created(i, p)'
  BY DEF Created, Others
<1>2. \A p \in Paths : Writing(p)' \subseteq Writing(p)
  BY DEF Writing, Others
<1>3. FilesWellFormed'
  BY <1>1 DEF IInv, TypeOK, FilesWellFormed, RequestsWellFormed, files, Others
<1>4. \A p \in Paths : \A q \in Writing(p)' : q \in Writing(p) /\ req'[q] = req[q]
  BY <1>2 DEF Writing, Others
<1>5. UnclashedIsWhole'
  BY <1>4 DEF IInv, UnclashedIsWhole, files
<1> QED BY <1>3, <1>5
(* A request ends without having touched rows or files. *)
LEMMA EndKeeps ==
  ASSUME IInv, NEW r \in Requests, NEW a \in {"existing", "missing", "error"},
         NEW n \in Requests \cup {None},
         Answer(r, a, n), UNCHANGED <<rows, files>>,
         req[r].pc # "done", a = "existing" => document # None /\ n = document
  PROVE  /\ RequestsWellFormed' /\ FilesWellFormed' /\ UnclashedIsWhole'
         /\ StoredHasFile' /\ KeyIsUnique' /\ RowsWellFormed'
         /\ AnswersNameTheJob' /\ TextIsWhole'
<1>0. TypeOK
  BY DEF IInv
<1>1. Others(r) /\ req'[r].pc = "done" /\ req'[r].path = req[r].path
        /\ req'[r].answer = a /\ req'[r].names = n
  BY <1>0, AnswerFields
<1>2. FilesWellFormed' /\ UnclashedIsWhole'
  BY <1>1, FilesStay
<1>3. RequestsWellFormed'
  BY <1>1 DEF IInv, RequestsWellFormed, Others
<1>4. StoredHasFile'
  BY <1>1 DEF IInv, StoredHasFile, Others, files
<1>5. KeyIsUnique'
  BY <1>1 DEF IInv, KeyIsUnique, Flushed, Others, rows
<1>6. RowsWellFormed' /\ (document # None => req'[document] = req[document])
  BY <1>0, <1>1 DEF IInv, RowsWellFormed, Others, rows, files, TypeOK
<1>7. AnswersNameTheJob'
  BY <1>1 DEF IInv, AnswersNameTheJob, Others, rows
<1>8. TextIsWhole'
  BY <1>6 DEF IInv, TextIsWhole, RowsWellFormed, rows, files
<1> QED BY <1>2, <1>3, <1>4, <1>5, <1>6, <1>7, <1>8

LEMMA CheckKeeps ==
  ASSUME IInv, NEW r \in Requests, NEW p \in Paths, Check(r, p)
  PROVE  IInv'
<1>0. TypeOK /\ TypeOK'
  BY RowStepsType DEF IInv
<1>1. CASE Answer(r, "missing", None)
  BY <1>0, <1>1, EndKeeps DEF IInv, Check
<1>2. CASE document # None /\ Answer(r, "existing", document)
  BY <1>0, <1>2, EndKeeps DEF IInv, Check, TypeOK
<1>3. CASE req' = [req EXCEPT ![r] = [@ EXCEPT !.pc = "save", !.path = p]]
  <2>1. Others(r) /\ req'[r].pc = "save" /\ req'[r].path = p /\ req'[r].pos = req[r].pos
          /\ req'[r].answer = req[r].answer /\ req'[r].names = req[r].names
    BY <1>0, <1>3, CheckFields
  <2>2. FilesWellFormed' /\ UnclashedIsWhole'
    BY <2>1, FilesStay DEF Check
  <2>3. RequestsWellFormed' /\ StoredHasFile'
    BY <2>1 DEF IInv, RequestsWellFormed, StoredHasFile, Others, Check, files
  <2>4. KeyIsUnique'
    BY <2>1 DEF IInv, KeyIsUnique, Flushed, Others, Check, rows
  <2>5. RowsWellFormed' /\ (document # None => req'[document] = req[document])
    BY <1>0, <2>1 DEF IInv, RowsWellFormed, Others, rows, files, TypeOK, Check
  <2>6. AnswersNameTheJob'
    BY <2>1 DEF IInv, AnswersNameTheJob, Others, rows, Check
  <2>7. TextIsWhole'
    BY <2>5 DEF IInv, TextIsWhole, RowsWellFormed, rows, files, Check
  <2> QED BY <1>0, <2>2, <2>3, <2>4, <2>5, <2>6, <2>7 DEF IInv
<1> QED BY <1>1, <1>2, <1>3 DEF Check

LEMMA InsertKeeps ==
  ASSUME IInv, NEW r \in Requests, InsertDocument(r)
  PROVE  IInv'
<1>0. TypeOK /\ TypeOK'
  BY RowStepsType DEF IInv
<1>1. Others(r) /\ req'[r].pc = "flushed" /\ req'[r].path = req[r].path
        /\ req'[r].answer = req[r].answer /\ req'[r].names = req[r].names
  BY <1>0, AdvanceFields DEF InsertDocument
<1>2. FilesWellFormed' /\ UnclashedIsWhole'
  BY <1>1, FilesStay DEF InsertDocument
<1>3. RequestsWellFormed' /\ StoredHasFile'
  BY <1>1 DEF IInv, RequestsWellFormed, StoredHasFile, Others, InsertDocument, files
<1>4. KeyIsUnique'
  BY <1>1 DEF IInv, KeyIsUnique, Flushed, Others, InsertDocument, rows
<1>5. RowsWellFormed' /\ AnswersNameTheJob'
  BY <1>1 DEF IInv, RowsWellFormed, AnswersNameTheJob, Others, rows, InsertDocument
<1>6. TextIsWhole'
  BY <1>1 DEF IInv, TextIsWhole, RowsWellFormed, rows, InsertDocument
<1> QED BY <1>0, <1>2, <1>3, <1>4, <1>5, <1>6 DEF IInv

LEMMA CommitKeeps ==
  ASSUME IInv, NEW r \in Requests, CommitRows(r)
  PROVE  IInv'
<1>0. TypeOK /\ TypeOK'
  BY RowStepsType DEF IInv
<1>1. /\ Others(r) /\ req'[r].pc = "done" /\ req'[r].path = req[r].path
      /\ req'[r].answer = "error" \/ (req'[r].answer = "new" /\ req'[r].names = r)
  <2>1. CASE Answer(r, "new", r)
    BY <1>0, <2>1, AnswerFields
  <2>2. CASE Answer(r, "error", None)
    BY <1>0, <2>2, AnswerFields
  <2>3. Answer(r, "new", r) \/ Answer(r, "error", None)
    BY DEF CommitRows
  <2> QED BY <2>1, <2>2, <2>3
<1>2. FilesWellFormed' /\ UnclashedIsWhole'
  BY <1>1, FilesStay DEF CommitRows
<1>3. RequestsWellFormed' /\ StoredHasFile'
  BY <1>1 DEF IInv, RequestsWellFormed, StoredHasFile, Others, CommitRows, files
<1>4. document = None /\ document' = r /\ job' = "PENDING" /\ r # None
  BY UploadAssumption DEF IInv, KeyIsUnique, Flushed, CommitRows
<1>5. KeyIsUnique'
  BY <1>1 DEF IInv, KeyIsUnique, Flushed, Others, CommitRows
<1>6. RowsWellFormed'
  BY <1>1, <1>4 DEF IInv, RowsWellFormed, RequestsWellFormed, StoredHasFile, CommitRows, files
<1>7. AnswersNameTheJob'
  BY <1>1, <1>4 DEF IInv, AnswersNameTheJob, Others
<1>8. TextIsWhole'
  BY <1>4 DEF TextIsWhole
<1> QED BY <1>0, <1>2, <1>3, <1>5, <1>6, <1>7, <1>8 DEF IInv

LEMMA OthersKeep ==
  ASSUME IInv, DeleteBase \/ Process
  PROVE  IInv'
<1>0. TypeOK /\ (job = "PENDING" => document \in Requests /\ req[document].path \in Paths)
  BY DEF IInv, RowsWellFormed, TypeOK
<1>1. TypeOK'
  BY <1>0, OthersType
<1>2. UNCHANGED <<document, req, files>>
  BY DEF DeleteBase, Process, rows
<1>3. /\ RequestsWellFormed' /\ FilesWellFormed' /\ UnclashedIsWhole' /\ StoredHasFile'
      /\ KeyIsUnique' /\ AnswersNameTheJob'
  BY <1>2 DEF IInv, RequestsWellFormed, FilesWellFormed, Created, UnclashedIsWhole, Writing,
              StoredHasFile, KeyIsUnique, Flushed, AnswersNameTheJob, files
<1>4. RowsWellFormed'
  BY <1>0, <1>2 DEF IInv, RowsWellFormed, files, DeleteBase, Process, rows
<1>5. TextIsWhole'
  <2>1. CASE DeleteBase
    BY <2>1 DEF IInv, TextIsWhole, DeleteBase, rows, files
  <2>2. CASE Process
    <3>1. document # None /\ req[document].path \in Paths
      BY <1>0, <2>2, UploadAssumption DEF Process
    <3>2. Units # {}
      BY UploadAssumption DEF Units
    <3>3. req[document].path \notin clashed => job' = "READY" /\ text' = Units
      BY <2>2, <3>1, <3>2 DEF IInv, Process, UnclashedIsWhole, RowsWellFormed
    <3> QED BY <1>2, <3>1, <3>3 DEF TextIsWhole, files
  <2> QED BY <2>1, <2>2
<1> QED BY <1>1, <1>3, <1>4, <1>5 DEF IInv
-----------------------------------------------------------------------------
(* The steps that change files. *)

(* What no file step changes. *)
LEMMA RowsKept ==
  ASSUME IInv, NEW r \in Requests, UNCHANGED rows, clashed \subseteq clashed', Others(r),
         req[r].pc \in {"save", "write"}, req'[r].pc \in {"write", "stored", "done"},
         req'[r].path = req[r].path,
         req'[r].answer \in {req[r].answer, "error"}, req'[r].names \in {req[r].names, None},
         req'[r].answer = req[r].answer => req'[r].names = req[r].names,
         req'[r].pc = "write" => req'[r].handle \in Requests,
         \A p \in Paths : target[p] # None => target'[p] # None,
         req'[r].pc = "stored" => target'[req[r].path] # None
  PROVE  /\ RequestsWellFormed' /\ StoredHasFile' /\ KeyIsUnique' /\ RowsWellFormed'
         /\ AnswersNameTheJob' /\ TextIsWhole'
<1>1. RequestsWellFormed'
  BY DEF IInv, RequestsWellFormed, Others
<1>2. StoredHasFile'
  BY DEF IInv, StoredHasFile, RequestsWellFormed, Others
<1>3. KeyIsUnique'
  BY DEF IInv, KeyIsUnique, Flushed, Others, rows
<1>4. RowsWellFormed' /\ (document # None => req'[document] = req[document])
  BY DEF IInv, RowsWellFormed, Others, rows, TypeOK
<1>5. AnswersNameTheJob'
  BY DEF IInv, AnswersNameTheJob, Others, rows
<1>6. TextIsWhole'
  BY <1>4 DEF IInv, TextIsWhole, RowsWellFormed, rows
<1> QED BY <1>1, <1>2, <1>3, <1>4, <1>5, <1>6

LEMMA OpenKeeps ==
  ASSUME IInv, NEW r \in Requests, Open(r)
  PROVE  IInv'
<1>a. PICK p : p = req[r].path
  OBVIOUS
<1>b. PICK i : i = IF temporary[p] = None THEN r ELSE temporary[p]
  OBVIOUS
<1>0. TypeOK /\ TypeOK' /\ p \in Paths /\ req[r].pc = "save"
  BY <1>a, FileStepsType DEF IInv, RequestsWellFormed, Open
<1>1. i \in Requests /\ i # None
  BY <1>0, <1>b, UploadAssumption DEF TypeOK
<1>2. Others(r) /\ req'[r].pc = "write" /\ req'[r].path = p /\ req'[r].handle = i
        /\ req'[r].pos = req[r].pos /\ req'[r].answer = req[r].answer /\ req'[r].names = req[r].names
  BY <1>a, <1>b, <1>0, OpenFields
<1>3. /\ temporary' = [temporary EXCEPT ![p] = i] /\ target' = target
      /\ content' = [content EXCEPT ![i] = {}]
      /\ clashed \subseteq clashed' /\ UNCHANGED rows
      /\ p \notin clashed' => clashed' = clashed /\ Writing(p) = {}
  BY <1>a, <1>b DEF Open
<1>4. /\ RequestsWellFormed' /\ StoredHasFile' /\ KeyIsUnique' /\ RowsWellFormed'
      /\ AnswersNameTheJob' /\ TextIsWhole'
  BY <1>a, <1>0, <1>1, <1>2, <1>3, RowsKept
<1>5. \A k \in Requests, q \in Paths : Created(k, q) => Created(k, q)' /\ k # r
  BY <1>0, <1>2, <1>a DEF Created, Others
<1>6. Created(i, p)' /\ \A q \in Paths : target[q] # i /\ (q # p => temporary[q] # i)
  <2>1. CASE temporary[p] = None
    <3>1. i = r
      BY <1>b, <2>1
    <3> QED BY <1>a, <1>0, <1>1, <1>2, <3>1 DEF IInv, FilesWellFormed, Created
  <2>2. CASE temporary[p] # None
    <3>1. i = temporary[p] /\ Created(i, p)
      BY <1>b, <1>0, <2>2 DEF IInv, FilesWellFormed
    <3>2. Created(i, p)'
      BY <1>0, <1>1, <1>5, <3>1
    <3>3. \A q \in Paths : target[q] = i => q = p /\ target[p] = temporary[p]
      BY <1>1, <3>1 DEF IInv, FilesWellFormed, Created
    <3>4. \A q \in Paths : temporary[q] = i => q = p
      BY <1>1, <3>1 DEF IInv, FilesWellFormed, Created
    <3>5. temporary[p] # target[p]
      BY <1>0, <2>2 DEF IInv, FilesWellFormed
    <3> QED BY <3>2, <3>3, <3>4, <3>5
  <2> QED BY <2>1, <2>2
<1>7. FilesWellFormed'
  BY <1>0, <1>1, <1>2, <1>3, <1>5, <1>6 DEF IInv, FilesWellFormed, TypeOK, Others, RequestsWellFormed
<1>8. UnclashedIsWhole'
  <2> SUFFICES ASSUME NEW q \in Paths \ clashed'
               PROVE  /\ \A x, y \in Writing(q)' : x = y
                      /\ \A x \in Writing(q)' : temporary'[q] = req'[x].handle
                            /\ content'[req'[x].handle] = 1..req'[x].pos
                      /\ target'[q] # None => content'[target'[q]] = Units
    BY DEF UnclashedIsWhole
  <2>1. q \notin clashed
    BY <1>3
  <2>2. target'[q] # None => content'[target'[q]] = Units
    BY <1>3, <1>6, <2>1 DEF IInv, UnclashedIsWhole, TypeOK
  <2>3. CASE q = p
    <3>1. Writing(q)' = {r}
      BY <1>0, <1>2, <1>3, <2>3 DEF Writing, Others
    <3>2. req[r].pos = 0 /\ 1..0 = {}
      BY <1>a, <1>0 DEF IInv, RequestsWellFormed
    <3> QED BY <1>0, <1>1, <1>2, <1>3, <2>2, <2>3, <3>1, <3>2 DEF TypeOK
  <2>4. CASE q # p
    <3>1. Writing(q)' = Writing(q) /\ r \notin Writing(q)
      BY <1>0, <1>2, <2>4 DEF Writing, Others
    <3>2. \A x \in Writing(q) : req'[x] = req[x] /\ req[x].handle = temporary[q]
                               /\ content[req[x].handle] = 1..req[x].pos
      BY <2>1, <3>1, <1>2 DEF IInv, UnclashedIsWhole, Others, Writing
    <3>3. \A x \in Writing(q) : req[x].handle # i
      BY <1>6, <2>4, <3>2
    <3> QED BY <1>3, <2>1, <2>2, <2>4, <3>1, <3>2, <3>3 DEF IInv, UnclashedIsWhole, TypeOK
  <2> QED BY <2>3, <2>4
<1> QED BY <1>0, <1>4, <1>7, <1>8 DEF IInv
LEMMA WriteKeeps ==
  ASSUME IInv, NEW r \in Requests, Write(r)
  PROVE  IInv'
<1>a. PICK p : p = req[r].path
  OBVIOUS
<1>b. PICK i : i = req[r].handle
  OBVIOUS
<1>0. TypeOK /\ TypeOK' /\ p \in Paths /\ i \in Requests /\ req[r].pc = "write"
  BY <1>a, <1>b, FileStepsType DEF IInv, RequestsWellFormed, Write
<1>1. Others(r) /\ req'[r].pc = "write" /\ req'[r].path = p /\ req'[r].handle = i
        /\ req'[r].pos = req[r].pos + 1
        /\ req'[r].answer = req[r].answer /\ req'[r].names = req[r].names
  BY <1>a, <1>b, <1>0, WriteFields
<1>2. /\ UNCHANGED <<temporary, target, clashed, rows>>
      /\ content' = [content EXCEPT ![i] = content[i] \cup {req[r].pos + 1}]
  BY <1>b DEF Write
<1>3. /\ RequestsWellFormed' /\ StoredHasFile' /\ KeyIsUnique' /\ RowsWellFormed'
      /\ AnswersNameTheJob' /\ TextIsWhole'
  BY <1>a, <1>0, <1>1, <1>2, RowsKept
<1>4. FilesWellFormed'
  <2>1. \A k \in Requests, q \in Paths : Created(k, q) => Created(k, q)'
    BY <1>a, <1>0, <1>1 DEF Created, Others
  <2> QED BY <1>a, <1>b, <1>0, <1>1, <1>2, <2>1 DEF IInv, FilesWellFormed, TypeOK, Others, RequestsWellFormed
<1>5. UnclashedIsWhole'
  <2> SUFFICES ASSUME NEW q \in Paths \ clashed
               PROVE  /\ \A x, y \in Writing(q)' : x = y
                      /\ \A x \in Writing(q)' : temporary'[q] = req'[x].handle
                            /\ content'[req'[x].handle] = 1..req'[x].pos
                      /\ target'[q] # None => content'[target'[q]] = Units
    BY <1>2 DEF UnclashedIsWhole
  <2>1. Writing(q)' = Writing(q)
    BY <1>a, <1>0, <1>1 DEF Writing, Others
  <2>2. i # None /\ Created(i, p)
    BY <1>a, <1>b, <1>0, UploadAssumption DEF IInv, FilesWellFormed
  <2>3. target[q] # None => target[q] # i
    <3>1. CASE q = p
      <4>1. temporary[p] = i
        BY <1>a, <1>b, <1>0, <3>1 DEF IInv, UnclashedIsWhole, Writing
      <4> QED BY <1>0, <2>2, <3>1, <4>1 DEF IInv, FilesWellFormed
    <3>2. CASE q # p
      BY <2>2, <3>2 DEF IInv, FilesWellFormed, Created
    <3> QED BY <3>1, <3>2
  <2>4. target'[q] # None => content'[target'[q]] = Units
    BY <1>2, <2>3 DEF IInv, UnclashedIsWhole, TypeOK
  <2>5. \A x \in Writing(q) : temporary[q] = req[x].handle /\ content[req[x].handle] = 1..req[x].pos
    BY DEF IInv, UnclashedIsWhole
  <2>6. ASSUME NEW x \in Writing(q)
        PROVE  temporary[q] = req'[x].handle /\ content'[req'[x].handle] = 1..req'[x].pos
    <3>1. CASE x = r
      <4>1. content[i] = 1..req[r].pos /\ req[r].pos \in Nat
        BY <1>b, <1>0, <2>5, <2>6, <3>1, UploadAssumption DEF TypeOK, Request
      <4>2. content'[i] = 1..(req[r].pos + 1)
        BY <1>0, <1>2, <4>1 DEF TypeOK
      <4> QED BY <1>b, <1>1, <2>5, <2>6, <3>1, <4>2
    <3>2. CASE x # r
      <4>1. req'[x] = req[x] /\ req[x].handle \in Requests
        BY <1>1, <2>6, <3>2 DEF Others, Writing, IInv, RequestsWellFormed
      <4>2. req[x].handle # i
        <5>1. q # p
          BY <1>a, <1>0, <2>6, <3>2 DEF IInv, UnclashedIsWhole, Writing
        <5> QED BY <2>2, <2>6, <5>1 DEF IInv, FilesWellFormed, Created, Writing
      <4> QED BY <1>0, <1>2, <2>5, <2>6, <4>1, <4>2 DEF TypeOK
    <3> QED BY <3>1, <3>2
  <2>7. \A x, y \in Writing(q) : x = y
    BY DEF IInv, UnclashedIsWhole
  <2> QED BY <1>2, <2>1, <2>4, <2>6, <2>7
<1> QED BY <1>0, <1>3, <1>4, <1>5 DEF IInv

LEMMA ReplaceKeeps ==
  ASSUME IInv, NEW r \in Requests, Replace(r)
  PROVE  IInv'
<1>a. PICK p : p = req[r].path
  OBVIOUS
<1>0. TypeOK /\ TypeOK' /\ p \in Paths /\ req[r].pc = "write"
  BY <1>a, FileStepsType DEF IInv, RequestsWellFormed, Replace
<1>1. CASE temporary[p] = None
  <2>1. Answer(r, "error", None) /\ UNCHANGED <<rows, files>>
    BY <1>a, <1>1 DEF Replace, files
  <2> QED BY <1>0, <2>1, EndKeeps DEF IInv
<1>2. CASE temporary[p] # None
  <2>1. /\ req' = [req EXCEPT ![r] = [@ EXCEPT !.pc = "stored", !.handle = None]]
        /\ target' = [target EXCEPT ![p] = temporary[p]]
        /\ temporary' = [temporary EXCEPT ![p] = None]
        /\ UNCHANGED <<rows, content, clashed>>
    BY <1>a, <1>2 DEF Replace
  <2>2. Others(r) /\ req'[r].pc = "stored" /\ req'[r].path = p
          /\ req'[r].answer = req[r].answer /\ req'[r].names = req[r].names
    BY <1>a, <1>0, <2>1, ReplaceFields
  <2>3. /\ RequestsWellFormed' /\ StoredHasFile' /\ KeyIsUnique' /\ RowsWellFormed'
        /\ AnswersNameTheJob' /\ TextIsWhole'
    <3>1. target'[p] # None /\ \A q \in Paths : target[q] # None => target'[q] # None
      BY <1>0, <1>2, <2>1 DEF TypeOK
    <3> QED BY <1>a, <1>0, <2>1, <2>2, <3>1, RowsKept
  <2>4. \A k \in Requests, q \in Paths : Created(k, q) => Created(k, q)'
    BY <1>a, <1>0, <2>2 DEF Created, Others
  <2>5. FilesWellFormed'
    BY <1>0, <1>2, <2>1, <2>2, <2>4 DEF IInv, FilesWellFormed, TypeOK, Others, RequestsWellFormed
  <2>6. UnclashedIsWhole'
    <3>1. \A q \in Paths : Writing(q)' = Writing(q) \ {r}
      BY <1>0, <2>2 DEF Writing, Others
    <3>2. \A q \in Paths : \A x \in Writing(q)' : x \in Writing(q) /\ x # r /\ req'[x] = req[x]
      BY <2>2, <3>1 DEF Others, Writing
    <3>3. \A q \in Paths \ clashed : Writing(q)' # {} => q # p
      BY <1>a, <1>0, <3>2 DEF IInv, UnclashedIsWhole, Writing
    <3>4. p \notin clashed => content[temporary[p]] = Units
      BY <1>a, <1>0 DEF IInv, UnclashedIsWhole, Writing, Replace, Units
    <3>5. \A q \in Paths \ clashed : target'[q] # None => content[target'[q]] = Units
      BY <1>0, <2>1, <3>4 DEF IInv, UnclashedIsWhole, TypeOK
    <3>6. \A q \in Paths \ clashed : \A x, y \in Writing(q)' : x = y
      BY <3>2 DEF IInv, UnclashedIsWhole
    <3>7. \A q \in Paths \ clashed : \A x \in Writing(q)' :
            temporary'[q] = req'[x].handle /\ content[req'[x].handle] = 1..req'[x].pos
      BY <1>0, <2>1, <3>2, <3>3 DEF IInv, UnclashedIsWhole, TypeOK
    <3> QED BY <2>1, <3>5, <3>6, <3>7 DEF UnclashedIsWhole
  <2> QED BY <1>0, <2>3, <2>5, <2>6 DEF IInv
<1> QED BY <1>1, <1>2
-----------------------------------------------------------------------------
(* The theorems. *)

LEMMA InitIInv == Init => IInv
<1> SUFFICES ASSUME Init PROVE IInv
  OBVIOUS
<1>1. Unsent \in Request /\ Unsent.pc = "idle" /\ Unsent.pos = 0 /\ Unsent.answer = "none"
  BY UploadAssumption DEF Unsent, Request
<1>2. \A r \in Requests : req[r] = Unsent
  BY DEF Init
<1>3. TypeOK
  BY <1>1, UploadAssumption DEF Init, TypeOK
<1>4. Flushed = {} /\ \A p \in Paths : Writing(p) = {}
  BY <1>1, <1>2 DEF Flushed, Writing
<1> QED BY <1>1, <1>2, <1>3, <1>4
        DEF Init, IInv, RequestsWellFormed, FilesWellFormed, UnclashedIsWhole, StoredHasFile,
            KeyIsUnique, RowsWellFormed, AnswersNameTheJob, TextIsWhole

LEMMA NextIInv == IInv /\ [Next]_vars => IInv'
<1> SUFFICES ASSUME IInv, [Next]_vars PROVE IInv'
  OBVIOUS
<1>1. ASSUME NEW r \in Requests, LoseRace(r) \/ Fail(r) PROVE IInv'
  <2>1. TypeOK' /\ Answer(r, "error", None) /\ UNCHANGED <<rows, files>> /\ req[r].pc # "done"
    BY <1>1, RowStepsType DEF IInv, LoseRace, Fail
  <2> QED BY <2>1, EndKeeps DEF IInv
<1>2. ASSUME NEW r \in Requests, Advances(r) PROVE IInv'
  BY <1>1, <1>2, OpenKeeps, WriteKeeps, ReplaceKeeps, InsertKeeps, CommitKeeps DEF Advances
<1>3. CASE UNCHANGED vars
  BY <1>3 DEF vars, IInv, TypeOK, RequestsWellFormed, FilesWellFormed, Created, UnclashedIsWhole,
              Writing, StoredHasFile, KeyIsUnique, Flushed, RowsWellFormed, AnswersNameTheJob, TextIsWhole
<1> QED BY <1>1, <1>2, <1>3, CheckKeeps, OthersKeep DEF Next

LEMMA Invariant == Spec => []IInv
<1> QED BY InitIInv, NextIInv, PTL DEF Spec

(* The type of every variable, for any number of requests, paths and units. *)
THEOREM TypeCorrect == Spec => []TypeOK
<1>1. IInv => TypeOK
  BY DEF IInv
<1> QED BY <1>1, Invariant, PTL

(* A committed document always has its file, however uploads overlap and fail. *)
THEOREM RecordedIsStoredAlways == Spec => []RecordedIsStored
<1>1. IInv => RecordedIsStored
  BY UploadAssumption DEF IInv, RecordedIsStored, RowsWellFormed
<1> QED BY <1>1, Invariant, PTL

(* Every successful answer names the one committed job, and one upload at most is
   told that its document is new. *)
THEOREM AnswersNameTheJobAlways == Spec => []AnswersNameTheJob
<1>1. IInv => AnswersNameTheJob
  BY DEF IInv
<1> QED BY <1>1, Invariant, PTL

(* Without a clash on the temporary name, what becomes searchable is the whole
   content, in whatever units it is written and wherever uploads die. *)
THEOREM TextIsWholeAlways == Spec => []TextIsWhole
<1>1. IInv => TextIsWhole
  BY DEF IInv
<1> QED BY <1>1, Invariant, PTL
-----------------------------------------------------------------------------
(* The refinement: a step answers one request, or no answer changes. *)

(* An answer is given at the end, so it is given once. *)
Unanswered == \A r \in Requests : req[r].pc # "done" => req[r].answer = "none"

Quiet ==
  /\ document' = document
  /\ \A r \in Requests :
       /\ req'[r].answer = req[r].answer /\ req'[r].names = req[r].names
       /\ req[r].pc = "done" => req'[r].pc = "done"

Answered(r, a, n) ==
  /\ Answer(r, a, n) /\ req[r].pc # "done"
  /\ \/ a = "new" /\ n = r /\ document = None /\ document' = r
     \/ a = "error" /\ n = None /\ document = None /\ document' = r
     \/ a = "existing" /\ n = document /\ document # None /\ document' = document
     \/ a \in {"missing", "error"} /\ n = None /\ document' = document

LEMMA OneGoesOn ==
  ASSUME NEW r \in Requests, Others(r), document' = document, req[r].pc # "done",
         req'[r].answer = req[r].answer /\ req'[r].names = req[r].names
  PROVE  Quiet
BY DEF Quiet, Others

LEMMA CheckAnswers ==
  ASSUME IInv, NEW r \in Requests, NEW p \in Paths, Check(r, p)
  PROVE  Quiet \/ \E q \in Requests : \E a, n : Answered(q, a, n)
<1>0. TypeOK /\ req[r].pc # "done" /\ document' = document
  BY DEF IInv, Check, rows
<1>1. CASE Answer(r, "missing", None)
  <2> Answered(r, "missing", None)
    BY <1>0, <1>1 DEF Answered
  <2> QED OBVIOUS
<1>2. CASE document # None /\ Answer(r, "existing", document)
  <2> Answered(r, "existing", document)
    BY <1>0, <1>2 DEF Answered
  <2> QED OBVIOUS
<1>3. CASE req' = [req EXCEPT ![r] = [@ EXCEPT !.pc = "save", !.path = p]]
  BY <1>0, <1>3, CheckFields, OneGoesOn
<1> QED BY <1>1, <1>2, <1>3 DEF Check

LEMMA CommitAnswers ==
  ASSUME IInv, NEW r \in Requests, CommitRows(r)
  PROVE  \E a, n : Answered(r, a, n)
<1>1. req[r].pc # "done" /\ document = None /\ document' = r
  BY DEF IInv, CommitRows, KeyIsUnique, Flushed
<1>2. CASE Answer(r, "new", r)
  <2> Answered(r, "new", r)
    BY <1>1, <1>2 DEF Answered
  <2> QED OBVIOUS
<1>3. CASE Answer(r, "error", None)
  <2> Answered(r, "error", None)
    BY <1>1, <1>3 DEF Answered
  <2> QED OBVIOUS
<1> QED BY <1>2, <1>3 DEF CommitRows

LEMMA ErrorAnswers ==
  ASSUME NEW r \in Requests, Answer(r, "error", None), req[r].pc # "done", document' = document
  PROVE  \E a, n : Answered(r, a, n)
<1> Answered(r, "error", None)
  BY DEF Answered
<1> QED OBVIOUS

LEMMA ReplaceAnswers ==
  ASSUME IInv, NEW r \in Requests, Replace(r)
  PROVE  Quiet \/ \E a, n : Answered(r, a, n)
<1>0. TypeOK /\ req[r].pc # "done" /\ document' = document
  BY DEF IInv, Replace, rows
<1>1. CASE Answer(r, "error", None)
  BY <1>0, <1>1, ErrorAnswers
<1>2. CASE req' = [req EXCEPT ![r] = [@ EXCEPT !.pc = "stored", !.handle = None]]
  BY <1>0, <1>2, ReplaceFields, OneGoesOn
<1> QED BY <1>1, <1>2 DEF Replace

LEMMA StepsAnswer ==
  ASSUME IInv, [Next]_vars
  PROVE  Quiet \/ \E r \in Requests : \E a, n : Answered(r, a, n)
<1>0. TypeOK
  BY DEF IInv
<1>1. ASSUME NEW r \in Requests, Open(r) PROVE Quiet
  <2>1. req[r].pc # "done" /\ document' = document
    BY <1>1 DEF Open, rows
  <2>2. PICK i : i = IF temporary[req[r].path] = None THEN r ELSE temporary[req[r].path]
    OBVIOUS
  <2> QED BY <1>0, <1>1, <2>1, <2>2, OpenFields, OneGoesOn
<1>2. ASSUME NEW r \in Requests, Write(r) PROVE Quiet
  <2>1. req[r].pc # "done" /\ document' = document
    BY <1>2 DEF Write, rows
  <2> QED BY <1>0, <1>2, <2>1, WriteFields, OneGoesOn
<1>3. ASSUME NEW r \in Requests, InsertDocument(r) PROVE Quiet
  <2>1. req[r].pc # "done" /\ document' = document /\ Advance(r, "flushed")
    BY <1>3 DEF InsertDocument, rows
  <2> QED BY <1>0, <2>1, AdvanceFields, OneGoesOn
<1>4. ASSUME NEW r \in Requests, LoseRace(r) \/ Fail(r) PROVE \E a, n : Answered(r, a, n)
  <2>1. req[r].pc # "done" /\ document' = document /\ Answer(r, "error", None)
    BY <1>4 DEF LoseRace, Fail, rows
  <2> QED BY <2>1, ErrorAnswers
<1>5. CASE DeleteBase \/ Process \/ UNCHANGED vars
  BY <1>5 DEF DeleteBase, Process, vars, rows, Quiet
<1> QED BY <1>1, <1>2, <1>3, <1>4, <1>5, CheckAnswers, CommitAnswers, ReplaceAnswers DEF Next, Advances

LEMMA UnansweredStays == IInv /\ Unanswered /\ [Next]_vars => Unanswered'
<1> SUFFICES ASSUME IInv, Unanswered, [Next]_vars PROVE Unanswered'
  OBVIOUS
<1>1. CASE Quiet
  BY <1>1 DEF Quiet, Unanswered
<1>2. ASSUME NEW r \in Requests, NEW a, NEW n, Answered(r, a, n) PROVE Unanswered'
  <2>1. Others(r) /\ req'[r].pc = "done"
    BY <1>2, AnswerFields DEF Answered, IInv
  <2> QED BY <2>1 DEF Others, Unanswered
<1> QED BY <1>1, <1>2, StepsAnswer

LEMMA Replies ==
  ASSUME TypeOK, NEW r \in Requests, NEW a, NEW n, Answer(r, a, n), req[r].answer = "none"
  PROVE  Registry!Reply(r, a, n)
<1>1. Others(r) /\ req'[r].answer = a /\ req'[r].names = n
  BY AnswerFields
<1>2. [q \in Requests |-> req'[q].answer] = [[q \in Requests |-> req[q].answer] EXCEPT ![r] = a]
  BY <1>1 DEF Others
<1>3. [q \in Requests |-> req'[q].names] = [[q \in Requests |-> req[q].names] EXCEPT ![r] = n]
  BY <1>1 DEF Others
<1> QED BY <1>2, <1>3 DEF Registry!Reply

LEMMA StepsRefine == IInv /\ Unanswered /\ [Next]_vars => [Registry!Next]_(Registry!vars)
<1> SUFFICES ASSUME IInv, Unanswered, [Next]_vars PROVE [Registry!Next]_(Registry!vars)
  OBVIOUS
<1>1. CASE Quiet
  BY <1>1 DEF Quiet, Registry!vars
<1>2. ASSUME NEW r \in Requests, NEW a, NEW n, Answered(r, a, n) PROVE Registry!Next
  <2>1. Registry!Reply(r, a, n)
    BY <1>2, Replies DEF Answered, IInv, Unanswered
  <2>2. CASE a = "new" /\ n = r /\ document = None /\ document' = r
    <3>1. Registry!Reply(r, "new", r)
      BY <2>1, <2>2
    <3> QED BY <2>2, <3>1 DEF Registry!Record, Registry!Next
  <2>3. CASE a = "error" /\ n = None /\ document = None /\ document' = r
    <3>1. Registry!Reply(r, "error", None)
      BY <2>1, <2>3
    <3> QED BY <2>3, <3>1 DEF Registry!Record, Registry!Next
  <2>4. CASE a = "existing" /\ n = document /\ document # None /\ document' = document
    <3>1. Registry!Reply(r, "existing", document)
      BY <2>1, <2>4 DEF Registry!Reply
    <3> QED BY <2>4, <3>1 DEF Registry!Find, Registry!Next
  <2>5. CASE a \in {"missing", "error"} /\ n = None /\ document' = document
    <3>1. Registry!Reply(r, "missing", None) \/ Registry!Reply(r, "error", None)
      BY <2>1, <2>5
    <3> QED BY <2>5, <3>1 DEF Registry!Refuse, Registry!Next
  <2> QED BY <1>2, <2>2, <2>3, <2>4, <2>5 DEF Answered
<1> QED BY <1>1, <1>2, StepsAnswer

(* Module Upload implements module ContentRegistry: whatever overlaps and fails,
   the content is recorded once, and every answer given stands. *)
THEOREM UploadRecordsOnce == Spec => RecordsOnce
<1>1. Init => Registry!Init /\ Unanswered
  BY DEF Init, Unsent, Registry!Init, Unanswered
<1>2. Spec => []Unanswered
  BY <1>1, InitIInv, NextIInv, UnansweredStays, PTL DEF Spec
<1>3. Spec => Registry!Spec
  BY <1>1, <1>2, Invariant, StepsRefine, PTL DEF Spec, Registry!Spec
<1> QED BY <1>3 DEF RecordsOnce
=============================================================================
