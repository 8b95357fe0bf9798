# A TLA+ model of Asphoif-RAG

Asphoif-RAG is a retrieval-augmented question-answering service: a FastAPI
backend over MySQL, Redis, OpenSearch and two model providers, an ingestion
worker, and a small console. This directory holds TLA+ modules that model the
parts of the backend whose correctness depends on the order of events, the TLC
configurations that check them on small instances, and TLAPS proofs of the
properties that hold for every size. Source paths below are relative to
`src/backend/app/` unless they start with `docs/` or `docker/`.

## Inventory

| Component | State it keeps | Operations | What is hard about it |
|---|---|---|---|
| Ingestion pipeline (`services/ingestion.py`) | `ingestion_jobs`, `document_versions`, `chunks` rows | upload, two claims, the attempt (parse, chunk, embed, index, publish), retry/failure marks, two operator resets | several sessions on one row, each with its own stale view; death between commits; partial bulk writes |
| Its entry points (`docker/worker.sh`, `cli.py`, `api/ingestion.py`) | a database session each | worker loop, background task, operator commands | the three run concurrently, in different processes |
| Bulk indexer (`ingestion/indexers.py`) | documents in OpenSearch | upsert (`delete_chunks` is never called) | not transactional with MySQL |
| Parsers, chunker (`ingestion/parsers.py`, `chunking.py`) | none | parse, chunk: loops over lines and windows | headings that end paragraphs, windows that overlap, offsets, empty results |
| File storage (`ingestion/storage.py`) | files | save by rename, read | concurrent saves of one path share its temporary name |
| Embedding client (`ingestion/embeddings.py`) | none | embed | remote failures, wrong shapes |
| Circuit breaker (`retrieval/circuit.py`) | state, failure times, probe count, per dependency | before_call, record_success, record_failure | calls that start in one state and end in another; calls that never report |
| Resilient retrieval (`retrieval/service.py`, `deadline.py`) | two tasks under a deadline | retrieve_resilient | one channel fails, is skipped or is cut off |
| Search endpoint (`api/retrieval.py`) | cache entry, rebuild lock, trace row | search | single flight across processes, waiting, fallbacks at every step, `finally` |
| Redis cache (`cache/redis.py`) | keys with a TTL | get, set, wait, acquire, release | calls that time out after they took effect; GET-then-DELETE |
| Rank fusion (`retrieval/fusion.py`) | none | rrf_fuse | equal scores, chunks found by both channels |
| OpenSearch queries and aliases (`retrieval/opensearch.py`) | index, two aliases | ensure, queries | look-ups and the switch of the aliases are separate requests, and operators overlap |
| Chat stream (`api/chat.py`) | an SSE stream, the trace row | completions | disconnection, timeouts, trace updated in several commits |
| Evaluation (`evaluation/*.py`, `api/evaluation.py`) | runs and case results | create, execute, review | re-execution against human review of the same row |
| Knowledge bases (`services/knowledge.py`, `api/knowledge.py`) | rows | create, list, soft delete | deletion during ingestion |
| Users and permissions (`services/auth.py`, `core/security.py`) | user rows | register, log in | none that is about order |
| Shell (`main.py`, `core/*`, `api/health.py`, `db/*`, alembic, frontend) | configuration | wiring | none that is about order |

How they interact. The console uploads a document (`create_ingestion_job`:
file, then `documents`, `document_versions` and `ingestion_jobs` rows in one
commit). A worker process, the API's background task, or an operator's CLI
command takes the job through its stages, committing after each, and writes the
chunks to OpenSearch through the write alias of the index that searches read.
Searches (and chat completions, which call the search handler inside their
stream) look the payload up in Redis; on a miss one request takes a lock and
rebuilds the entry while the others poll. The rebuild embeds the query, runs
the sparse and the dense search as two tasks, each behind its circuit breaker,
under one deadline, fuses what came back, stores it, and writes a trace row.
Evaluation later binds these traces to test cases.

What makes each component correct, and where it is stated:

* Ingestion: READY means searchable, whatever overlapped or died; statuses move
  along the documented lifecycle; failures are explained; retries are bounded;
  every job settles.
* Uploads: one content is recorded once per knowledge base, with its file, and what becomes
  searchable of it is whole.
* Aliases: after a switch both point exactly at its index, and none is ever without an index.
* Parser, chunker and fusion: no text is lost but the number signs around titles, nor repeated beyond the overlap,
  paths and offsets say where it stands, and the fused order is that of the sums of reciprocal ranks.
* Breaker: it opens on enough recent failures only, a closed one is never at
  its threshold, and it recovers.
* Search: nothing is served that no channel answered, a request says "completed" of
  what it retrieved only when that is whole, answers and traces go together, the lock
  is owned by one running request and comes back, and every request ends.
* Chat stream: what the client reads is one well-formed sequence, the trace agrees
  with it, and no part of an answer passes for all of it.
* Evaluation: a completed run has a result for every case, and a case that was pinned
  to a trace shows, scores and counts that trace.

## Modules

| Module | Role |
|---|---|
| `JobLifecycle` | abstract specification: what the pipeline promises of one job row |
| `Ingestion` | the pipeline and all its actors, over rows, index and session views |
| `IngestionClaims` | statements of the documents about ingestion, which TLC refutes |
| `IngestionProofs` | the safety properties of `Ingestion`, and, for one session, that it implements `JobLifecycle` |
| `ContentRegistry` | abstract specification: what the upload endpoint promises of one content |
| `Upload` | uploads of one content, the files they write, the rows, a deletion and the worker |
| `UploadProofs` | the safety properties of `Upload`, and that it implements `ContentRegistry` |
| `IndexAliases`, `IndexAliasesProofs` | overlapping runs of init-opensearch, and workers that index |
| `Parsing` | from the lines of a document to its blocks and its chunks |
| `Fusion` | reciprocal rank fusion of two lists of hits |
| `CircuitBreaker` | one breaker and the calls it guards, with time |
| `BreakerClaims`, `CircuitBreakerProofs` | likewise |
| `Search` | the search handler, Redis entry, lock, retrieval and trace |
| `SearchProofs` | type correctness and the safety properties of the handler |
| `SearchOutcomes` | how a search ends, for its caller and in its trace |
| `ChatStream` | one event stream, its provider, its trace row and its client |
| `ChatStreamProofs` | type correctness and the safety properties of the stream |
| `Evaluation` | snapshot, run, executions and reviews as overlapping transactions |
| `EvaluationProofs` | type correctness and the properties of runs, with the induction over the loop of cases |
| `EvaluationClaims` | a statement of the documents about runs, which TLC refutes |
| `MCAlgorithms` | the inputs of `Parsing` and `Fusion`, and one specification for both |
| `AlgorithmProofs` | the properties of `Parsing` and `Fusion`, for every document and every two lists |
| `MCIngestion`, `MCCircuitBreaker`, `MCSearch`, `MCEvaluation` | names for the values the `.cfg` files use |

Operators whose comment starts with "Faulty variant" are not part of any
specification: each is a plausible bug in the definition after it, and replacing
that definition by it makes one property fail. They record that the property
does depend on the code.

### Ingestion

*State.* `job[j]` is the row: status, stage, attempt_count, error code,
next_retry_at (NULL, future or past), whether it carries a lease, and its
creation order. `version[j]` is the status of the single version an upload
creates. `chunks[j]` and `index[j]` give, for each ordinal, the chunk setting
it was cut with (`NoConfig`: no such chunk); documents are replaced by id because
`stable_chunk_id` hashes the version and the ordinal. `sess[s]` is a database
session.

*Sessions.* SQLAlchemy reads a row once per session (identity map,
`expire_on_commit=False`) and an UPDATE contains only the columns that differ
from what the session believes is stored. `view` and `seen` are these beliefs and
`Flush` is that UPDATE, so two overlapping sessions overwrite each other column by
column, as they do in MySQL. A session ends a step at each commit and at each
call to the file store, the provider or OpenSearch. Each action is named for
the piece of `process_ingestion_job` between two of these points. Claiming
(`Claim`, `ClaimForKB`) is one step because its row lock is held from the SELECT to
the commit; a claimer that finds the rows locked skips them and finds nothing,
which is a claim that does not happen.

*Roles.* `Workers` claim and process in the same session (worker.sh runs
`cli.process_next_job` for ever), `Background` sessions are claimed for in the
request and load the job afresh in the background task, `Operators` run the CLI's
process, retry and reindex commands. A session may have several roles, one
after another.

*Errors.* What the except branches tell apart: "raised" (may be retried) and
"refused" (may not). `Abandon` is the death of a process, or a database error,
after which the except branch fails as well.

*Abstracted.* Texts, vectors, error messages; the parser (`Unparsable`) and the
chunker (`Drafts`, which ordinals each chunk size gives for each document, none for
a document that is one empty heading); backoff lengths (`BackoffElapses`).
`max_attempts` is one number although each row stores its own. Jobs created at
the same instant do not occur. PUBLISHED is tested by the code and set nowhere.

### Upload

*State.* `base` is the status of the knowledge base, `document` the request whose document,
version and job rows are committed, `job` the status of that job and `text` what the worker
found. A file is an inode: `content[i]` is the set of units written to it, `temporary[p]` and
`target[p]` are the inodes under `.<name>.tmp` and `<name>`. `req[r]` is a request, with the
file it has open and how much it has written. `clashed` is a history variable: the paths
whose temporary file two requests had open at once.

*Steps.* `Check` is the visibility test and the look-up of the document, in one snapshot of
MySQL. `Open` truncates what is under the temporary name, whoever is writing it, `Write` adds
a unit to the file the request has open, and `Replace` renames whatever the temporary name
points at by then, or fails. `InsertDocument` waits for another transaction that has
inserted the same key, as InnoDB makes it; `CommitRows` is the one commit. `LoseRace` is the
`except IntegrityError` branch as it runs: the rollback expires `knowledge_base`, whose id the next
statement reads outside of an awaited call, so that the request ends in an error and the
look-up of the existing document is not reached. `Fail` is an exception or a death at any
point: the transaction rolls back and the files stay. `Process` is the worker of `Ingestion`, reduced to the
file it reads.

*Abstracted.* The checks of size and file type, which end a request before it touches
anything. There is one content and one base: others have other paths and other keys.

### IndexAliases

*State.* `mapping[i]` is absent, good, or of another shape; `alias[a]` the set of indices an alias
points at; `squatted` the alias names that a physical index has taken; `docs[i]` the documents in
an index; `op[o]` the run of an operator with the indices it has `seen`. `current`, `recent` and
`raced` are histories: the index of the last switch, what was indexed since, and whether a
switch was made from reads that a switch to another index had outdated.

*Steps.* One per request to OpenSearch: the mapping, the creation, one look-up for each alias, and the
switch. `Post` applies the removals and additions `build_alias_actions` made of what was seen;
OpenSearch applies them together, ignores the removal of an alias that is not there, and
answers 404 when nothing applies (`PostNothing`, as also when there is no action to send).
`Bulk` is a worker's write with `require_alias=true`. An index of a wrong mapping is never repaired, nor
an alias name freed; both end the run.

*Abstracted.* `verify_ik` changes nothing and may end the run (`Fail`). Other writers of aliases do not exist.

### Parsing and Fusion

A line is what the pattern for headings (`parsers.py:71`) tells apart in it: indentation, level signs and white space, a
title with the spaces inside, white space, closing signs, white space, and its end: a newline, one of the other
separators of `str.splitlines` (form feed, U+2028 and so on), or none at the end of the document. A character is
white space, a heading's mark, or ink. A number sign at the end of a title is a mark even with no white space before it:
the pattern takes it for a closing sign, although to the reader it may belong to the word. `Characters`
writes a line out behind the `text` of the lines before it, with the offset each character has in the source.

Every position in the module is a position in `text`, which is what blocks are made of, while `offset` is the
parser's own counter, in characters of the source. They differ in Markdown documents, where only a newline is
stripped of a line and the lines are joined by newlines: `Ending` is two characters long after another separator,
and the block has one character more than the source from there on.

`ReadHeading`, `ReadText` and `ReadBlank` are the branches of the loop of `MarkdownParser.parse`, with
`Flushed` for its inner function. `headed` is FALSE for `TextParser`, whose regular expression finds paragraphs and
no headings: a blank line ends a paragraph only where two newlines have nothing but white space between,
which an end that is no newline does not give (`Parted`, `ReadParagraph`). `Cut` is one turn of the chunker's `while`. A
heading's block is its title, which may be empty, located at the beginning of its line (`at`); a paragraph's
block is the paragraph without the white space around it, located at its first character.

A Python transcription of `Parsing` (not kept here) was compared with the parsers and the chunker of the source on
120,000 parses of random documents of such lines: the texts and offsets of blocks and chunks, and the lengths of
section paths, were the same.

`Fusion` reads the dense list and then the sparse one, as the code does, a hit at a time, and sorts.
Scores are whole numbers of a `Unit` in which every reciprocal rank is whole, so equal sums
are equal; in floating point two sums that are equal may differ in the last digit. `Sort` takes the
sequence of the found chunks in which each is better than the next; ids are distinct, so there is one.

### CircuitBreaker

*State.* The breaker's own fields, with ages in place of monotonic timestamps: an
age is capped at the first value at which the code no longer tells it from a larger
one, so time is unbounded in a finite state space. `calls[c]` is the state in
which a call in flight was admitted, `healthy` whether the dependency answers.

*Steps.* `asyncio.Lock` is never held across another await, so the three methods
are atomic. A call ends by success, by failure, or cancelled by the deadline
(`Cancel`), in which case `_branch_call` re-raises and records nothing. `Bypass`
is `_get_embedding` recording a success although the vector was cached or the
deadline left no time to call; it is on only where `Bypasses` is, for the breaker
`qwen.embedding`. `Tick` is a second.

A late failure that is recorded while OPEN enters the deque; it restarts the
cool-down only if the deque then reaches the threshold.

### Search

*State.* `entry` is the payload cached under the key that the requests share,
reduced to the channels it was fused from; `lock` names the request whose token the lock holds. `req[r]` is a
place for one handler at a time: when a request is over the place is free for
another.

*Steps.* One action per await on Redis, the provider, OpenSearch or MySQL. A Redis
call may fail with its effect applied or not (a timeout after the server did it).
Two calls of `release_lock` are two steps. `Embed`, `EmbedFails` and `EmbedSkipped`
are the ways `_get_embedding` ends; the deadline may expire at any point before
the answer. `Die` is a process that dies, or a chat stream that is closed while it
is inside search.

*Abstracted.* `_get_embedding` is one step: its own cache entry and its breaker
appear as outcomes. The breakers appear as channels that did not answer. The two
reasons for a missing channel are one. A trace whose commit fails is rolled back
and forgotten by design, and is not modelled. `cache_policy = "disabled"` requests
take the same path without the Redis steps. What is in the index, and changes there,
is left out: the key does not depend on it.

### ChatStream

*State.* `sent` is the list of events yielded so far with their numbers, `seq` the
generator's counter, `trace` the row that search wrote, with the columns that change
later: status, `output_snapshot` (how many pieces the answer has, how many citations)
and the conversation id. `retrieval`, `citations`, `deltas` are the generator's locals.

*Steps.* The generator stops at each await and at each `yield`, and each stretch
between two is an action, in the order of the source. `Search` takes any of
`SearchOutcomes!Outcomes`; that the search handler ends in no other way is
`AnswersMatchTraces`, checked in `search`. `update_trace` forgets whatever it raises
(`UpdateTrace`); a commit that raises may have been applied. A generated
conversation id has 32 characters and its column 26, so that MySQL, in its default
strict mode, refuses the whole update (`fits`); an id that the client gave may fit.

*Environment.* The provider ends, with or without `[DONE]`, fails, or is silent for
longer than the first-token timeout (`Silence`), which the code looks at only when a
delta comes. `Leave` is the client's disconnection at any point: the `CancelledError`
(or, between two steps, the closing of the generator) passes every except branch.

*Abstracted.* Texts are numbers of pieces; redaction and truncation of the stored
answer are layout. One stream has its trace row to itself.

### Evaluation

*State.* One dataset snapshot (`dataset`), the online traces (`trace`, numbered by
their `created_at`), and `rows`: the results, the case each trace is linked to, and the
run. A trace is the question it asks, its knowledge base and what it can be used for:
"answered", "broken" (retrieved, but the generation failed) or "missed" (no retrieval
snapshot). A metrics column is the trace that was scored in it and the trace whose
answer a human reviewed in it.

*Transactions.* Each request is one: `Execute` and `Review` read `rows` as they are
when the transaction begins (REPEATABLE READ) and put what they would write into
`sess`; `Commit` writes the columns that changed over whatever others committed
meanwhile (`WrittenResult`, `WrittenRun`), as SQLAlchemy's UPDATEs do. A second
INSERT of the same result violates `uq_evaluation_run_case`, which leaves only
`Rollback`. The statement order inside a transaction does not matter, because row
locks make two writers of a row commit one after the other.

*The loop.* `Loop` runs `EvaluateCase` over the cases in the order of their ordinals,
carrying what the variable `snapshot` is: first the dataset's row, and after a case
with a trace the retrieval snapshot of that trace. A later case that has to search for
its trace then either searches without the knowledge base (`{}`), or raises. The
exception is caught, the run fails, and what was done until then is committed.

*Abstracted.* The evaluators and the judge are the trace they look at. There is one
user, so that visibility filters are always met. Questions are compared by identity;
a question and a query with the same normal form are the same. Sources of cases, and
listing and exporting, change nothing.

## Runs

Passing runs:

| Run | Instance | Shows |
|---|---|---|
| `ingestion_serial` | two jobs, one session in every role, two chunk sizes, a document without chunks, 2 attempts, one death, two operator commands | `TypeOK`, `ReadyIsConsistent`, `FailureIsExplained`, and the refinement `ImplementsLifecycle` |
| `ingestion_overlap` | one job; the worker loop against a session that is background task and operator, one death, one command | `ReadyIsSearchable`, `IndexedHasRow` and `JobsSettle` under true concurrency |
| `upload` | three uploads, two paths, files of two units, two failures, a deletion | `TypeOK`, `RecordedIsStored`, `TextIsWhole`, `UploadsEnd`, and the refinement `RecordsOnce` |
| `aliases` | three operators, two indices in any earlier state, four runs, one document | `TypeOK`, `SwitchIsExact`, `IndexedIsFound`, `AliasNeverLost` |
| `algorithms` | every document of up to four lines of nine kinds, windows of four characters; every two lists of up to three hits, `rrf_k` 2 | `NothingIsLost`, `ChunksAdvance`, `PathIsEnclosing`, `OffsetsAreNear`, `BothBeatsOne`, `FusedIsRanked` |
| `breaker` | three calls, threshold 3, window and cool-down 2 s, 2 probes, one cancellation | `TypeOK`, `ClosedBelowThreshold`, `TripsOnRecentFailures`, `Recovers` |
| `search` | two requests at a time, one fault | `TypeOK`, `ResultsAreBacked`, `FreshCompletedIsWhole`, `AnswersMatchTraces`, `LockHasOwner`, `OneOwner`, `EveryRequestEnds` |
| `chat_stream` | one stream, two citations, three deltas, two failing commits | `TypeOK`, `WellFormed`, `StreamIsTraced`, `CompletedAnswersAreWhole` |
| `evaluation` | two cases, two traces of either knowledge base, two requests at a time | `TypeOK`, `CompletedRunIsWhole`, `PinnedResultsAgree` |

Runs that refute a statement of the documents or of a comment:

| Run | Statement | What the code does |
|---|---|---|
| `ingestion_stuck` | `docs/RAG架构.md:481`: any processing state can become RETRY_WAITING | a processing status is never claimed and the lease never read |
| `breaker_probes` | `docs/RAG架构.md:737`: HALF_OPEN recovers or reopens | cancelled probes use up the slots for good |
| `evaluation_unbound` | `docs/RAG评估.md:173`: a case without a trace is marked TRACE_NOT_BOUND | after a case with a trace the whole run fails instead |

Disagreements met while modelling that have no run of their own; each follows
from an action of the model, named in brackets:

* `docs/开发阶段文档.md:103`, claiming prevents double processing: a claim changes nothing that a claim looks
  at, so two sessions process one job (`Claim`, `Claimable`). `JobsSettle` and `ReadyIsSearchable` hold all the same.
* `docs/开发阶段文档.md:314`, every request can be traced: when the deadline ends before the embedding,
  `reasons[-1]` of an empty list raises at `api/retrieval.py:588`, and no trace is written (`EmbedSkipped`).
* `backend/README.md:102` and `docs/开发阶段文档.md:192`, an upload of content that is there returns its document and
  job: the loser of a race is answered 500, because of the rollback (`LoseRace`) or of a temporary file that was
  renamed away (`Replace`).
* `docs/开发阶段文档.md:200`, files are saved atomically: two uploads of one path share the temporary file, and
  the one that renames it may publish what the other has only begun to write; a worker that reads it
  then makes a truncated text READY (`Open`, `Replace`, `Process`).
* A knowledge base that is deleted while a document is uploaded to it still gets the document, and the
  worker processes it (`DeleteBase`, `Process`).
* `build_alias_actions` says that its actions leave the alias pointing at the index: two operators who
  switch to different indices at once can leave it on both, and two who find it on both and keep a different one
  each leave it with no index at all; a run may report success for a switch that another one has undone (`Post`,
  `PostNothing`, with `raced`).
* A switch to an index that was just created makes everything indexed before it unreachable, while its
  jobs stay READY: there is no command that reindexes all documents (`Post`).
* `docs/开发阶段文档.md:199`, heading paths are kept: a document that skips a level (`#` and then `###`, then `##`)
  keeps a heading in the path that no longer encloses the text (`ReadHeading`, which counts list
  entries and not levels).
* `docs/开发阶段文档.md:190`, titles become chunks that can be searched: the number signs that end a title's last word
  are taken for closing signs, so that `# C#` gives the chunk `C`, and the sign is in none (`Kind`, `ReadHeading`).
* `docs/RAG架构.md:442` and `:455`, chunks carry coordinates, for citations: those of a heading's chunk begin before its title, and those of a
  window that begins with white space before its text (`Draft`); those of a later window in a block to which the parser added
  newlines begin behind its text (`Ending`).
* `docs/RAG架构.md:452`, online requests do not see a half-built index: a bulk
  request that fails half-way leaves documents that searches read (`UpsertFails`).
* `docs/RAG架构.md:481` and `:495`, READY means that the number of chunks was compared:
  READY follows the bulk request, and a rebuild with a larger chunk size leaves the
  surplus documents of the former one in the index (`Upsert`, `Publish`).
* `docs/RAG架构.md:735`, timeouts are counted: a call cut off by the deadline is not
  recorded (`Cancel`).
* `docs/RAG架构.md:736-737`, OPEN lasts for the cool-down and probes end it: a call
  admitted before closes it by a late success (`Succeed`), and so does a cached vector in
  the provider's breaker (`Bypass`).
* The comment at `api/retrieval.py:341`, a request that waited in vain continues
  without Redis: it writes the entry (`GiveUp`, then `Store`).
* `docs/RAG架构.md:761`, the trace has the final status: after a wait whose first look-up
  failed the answer says "completed" and the trace "degraded" (`AnswerWaited`).
* `docs/RAG架构.md:744`, degraded results carry their reasons: a hit on a payload that was
  retrieved from one channel is "completed" without reasons (`AnswerHit`).
* `docs/RAG缓存设计.md:172`, new documents make a new key: nothing advances the version in it
  (`api/retrieval.py:259`), which is why `Search` has one key.
* `docs/RAG架构.md:724`, a first token that is late ends in degradation or failure: a
  provider that is silent and then ends without a delta is "completed" (`Silence`, then
  `ProviderEnds`). `docs/RAG架构.md:725`: the idle timeout is read nowhere.
* `docs/RAG架构.md:579`, the final status of a stream: after a disconnection the trace keeps
  "completed" with an empty answer (`Leave`), and counts as a trace to evaluate.
* `docs/开发阶段文档.md:400`, human scores can be seen beside the automatic ones: executing a run
  again replaces the column that has them (`Scored`, `Skipped`).
* `docs/开发阶段文档.md:401`, evaluation keeps to the knowledge base: after a case whose trace has
  no retrieval snapshot the next search for a trace has no such filter (`ScopeAfter`).
* The comment at `api/evaluation.py:95-97`, the resolved bindings are persisted: those found while
  executing are not, as the old and the new value of the column share the dict (`Loop`, which
  changes no binding).
* A case that is scored after it was skipped keeps the message TRACE_NOT_BOUND (`Scored`).

### Bounds

`MaxAttempts` 2 lets a job retry and then run out. `MaxCrashes`, `MaxOperations`,
`MaxCancels` and `MaxFaults` count rare events; each is 1 or 2, which
is enough for the event to meet every state and, for the operator, for one command
to follow another. Two sessions, two requests and three calls are the
smallest numbers with true interference (a third call lets two probes run
besides a late one). `MaxOperations` is 2 where sessions do not overlap and 1 where they do. Three uploads are enough for a third to meet the
file or the row that two others left, two units for a file that is partly written, and two paths for one content under two
extensions. Three operators let one switch between another's look-up and its post while a third repeats, and `MaxRuns` 4 lets one of
them run again. Documents of four lines have a heading beside, below and above another with text between; the nine kinds of line are
blank ones, text with and without an indentation and a space inside, and headings of three levels, one with an empty
title, one with closing signs after a space and one with a sign that ends a word, and two kinds end in a separator
that is no newline; the last line may have no end. There is text of one character and text as long as a window; windows of four characters with
an overlap of one cut a line of five in two, and a paragraph of several lines in more. Lists of three hits over four chunks have
every pattern of common, single and equally ranked hits; `BothBeatsOne` is for lists no longer than `rrf_k` + 1, as beyond them
it fails (the API allows 100 hits with `rrf_k` 60).
Two ordinals and two chunk sizes distinguish none, some and all
documents of a version, and a rebuild that shrinks it. Two citations and three deltas give
every order of adjacent events; two failing commits can hit any two of the stream's three.
Two cases are enough for one to influence the next, two traces (`MaxTraces`) for a later one to
replace an earlier one, and two transactions to overlap; `Online` and `Annotations` list the
kinds of trace and annotation that differ in their effect. In `evaluation` sessions are
symmetric, which is sound for invariants. The proofs lift the bounds
for the theorems listed below. Nothing else is bounded: time in the breaker
is not, nor is the number of requests one after another in `Search`.

`ReadyIsConsistent`, `FailureIsExplained` and `ImplementsLifecycle` are promises
of sessions that do not overlap. With overlap they fail: for example, a reindex
reset that read its row before a worker finished can leave the job READY
with its version PENDING. `ReadyIsSearchable` is what survives. `IndexedHasRow` needs one chunk setting; with two, a rebuild leaves
surplus documents of the former one. Its theorem, and those of the three promises above, have
these restrictions as hypotheses (`Configs = {c}`, `Sessions = {s}`).

`ChunksAdvance` says that a chunk goes on beyond the one before it only for blocks with `GapsAreShort`: `strip`
takes a white space of `MaxChars - Overlap` characters or more from the end of one window and from the beginning of the
next, and both chunks may then be the same few characters. Lines with an indentation inside a
paragraph (`indent` 3 in `MCLine`) let `algorithms` meet such blocks, and without the premise it fails there.

`TextIsWhole` excepts the paths in `clashed`, and the properties of `IndexAliases` the histories that are `raced`: what happens there is
listed above. `PathIsEnclosing` is about documents that skip no level. `NothingIsLost` excepts the number signs that the
pattern for headings takes off both ends of a title, and `OffsetsAreNear` allows for the newlines the parser adds:
both are listed above.

Deadlock is not checked for `Ingestion`, where the system rests once all
jobs are settled, for `Upload`, `IndexAliases` and the algorithms, which come to an end, nor for `ChatStream`, which is over after its terminal event or when the client
has left; it is checked everywhere else.

`PinnedResultsAgree` is about the bindings in the manifest the run was created with. The other
cases are searched for at each execution, and overlapping executions that see different
traces leave one's results with the other's aggregates. `StreamIsTraced` supposes that
no commit failed; `CompletedAnswersAreWhole` and `WellFormed` do not. Whole is an answer that has all the provider sent,
also when its response ended early, without `[DONE]`: the code does not tell, and calls it completed.

### Fairness

* Ingestion: a worker loop claims when it can (`worker.sh` loops for ever), a session
  that has a job goes on (its calls have timeouts), and backoffs elapse. Uploads,
  API calls, operator commands and deaths are never forced.
* Upload: a request that was started goes on, because the event loop, the thread pool and the database get it
  on, and a lock on the key is released by the commit or the rollback of its owner. The deletion, the worker and failures
  are not forced.
* Breaker: time passes, requests keep coming, and a call ends by itself (HTTP
  timeouts). `Recovers` also needs fewer cancellations than probes;
  `breaker_probes` shows what happens otherwise.
* Search: a handler that was started goes on, as its calls of Redis, of the provider and of OpenSearch have timeouts. The
  commit of the trace has none in the code: MySQL is supposed to answer it. No fairness is asked of expiries: a waiter
  gives up by itself.
* `ChatStream`, `Evaluation`, `IndexAliases` and the algorithms assume none: their properties are safety.

## Proofs

TLAPS checks, for all values of the constants that satisfy the modules' named
assumptions:

* `IngestionProofs`: `TypeCorrect` (Spec => []TypeOK) and `ReadyImpliesSearchable`
  (Spec => []ReadyIsSearchable), from `ConstantsAssumption`. `ReadyIsSearchable` is
  not inductive: `IInv` adds that a session past `Chunk` has a setting
  that cuts at least one chunk (`SessionsWellFormed`), and that one about to
  publish has all its chunks in the index (`UpsertIsComplete`). Three facts about
  any step carry the argument: the index never loses a document, only `Publish`
  makes a row READY, and only `Upsert` leads to publishing.
  For one chunk setting, `IndexedAlwaysHasRow` (IndexedHasRow): a document is written only from rows that are there, as a
  session between chunking and publishing has them (`RowsInv`), and with one setting no later attempt
  cuts fewer. For one session, `ReadyStaysConsistent`, `FailureStaysExplained` and `PipelineIsLifecycle`: alone, a session knows
  its job's row (`Matches`), stands where the status says (`Position`) and has in rows and index what it has
  chunked and indexed. `SerialInv` says so; each action is then a step of `JobLifecycle` on one job, or leaves
  status and attempts of all jobs alone.
* `UploadProofs`: `TypeCorrect`, `RecordedIsStoredAlways`, `AnswersNameTheJobAlways`, `TextIsWholeAlways` and
  `UploadRecordsOnce`, from `UploadAssumption`. `IInv` says of the files that an inode was created by a request for the
  path that names it, that under a path without a clash one request at a time writes, into the
  temporary file, just what it has counted, and that the stored file is whole; and of the rows that one
  uncommitted document at a time exists, and none beside a committed one. `UploadRecordsOnce` is the refinement of
  `ContentRegistry`: a step either answers one request, in one of the registry's ways, or changes nothing
  the registry sees (`StepsAnswer`), and an answer is given at the end only (`Unanswered`).
* `IndexAliasesProofs`: `TypeCorrect`, `SwitchIsExactAlways`, `IndexedIsFoundAlways`, `SwitchedIsValidatedAlways` and
  `AliasIsNeverLost`, from `AliasAssumption`. The invariant says what a run's look-ups are worth: unless it was
  outdated by a switch to another index, it has seen every other index that the alias points at, and its
  own only if the alias points there still (`SeenIsCurrent`); then its actions leave its own and nothing else. The second,
  the third and the last theorem except the histories in which a switch was made by an outdated run.
* `CircuitBreakerProofs`: `BreakerTypeCorrect`, `ClosedStaysBelowThreshold` and
  `FailuresOldestFirst` (the deque is ordered by age, a fact the others need), from `BreakerAssumption`. The conjunction of the three is
  inductive; lemmas say what pruning and appending do to an ordered sequence of ages.
  `TripsOnlyOnRecentFailures` is the action property `TripsOnRecentFailures`: because the
  deque is ordered, all that pruning keeps is within the window.
* `SearchProofs`: `SearchTypeCorrect`, `LockAlwaysOwned` and `AtMostOneOwner`, from
  `SearchAssumption` and `NoEntryAssumption`. The invariant relates the lock and the
  tokens: a token in hand means the lock is its owner's while the TTL outlives owners,
  and a token is held only from acquisition to `finally`. A second invariant, `RInv`, follows
  what each request has in hand (`Backed`, `Whole`, `Matched`), and gives
  `ResultsAlwaysBacked`, `CompletedIsWhole` and `AnswersAlwaysMatch`: a status is given at the
  end only, a payload with a channel missing never comes without a reason, and a request
  that waited did not retrieve.
* `ChatStreamProofs`: `StreamTypeCorrect`, `AnswersAlwaysWhole` and `StreamWellFormed`, from
  `ChatAssumption`. `WellFormed` needs to know where the counter is: equal to the number of
  events, except between the last delta and the end, where it is one ahead, and that nothing
  terminal was sent while the stream runs (`SInv`); `AppendKeeps` says what one more event
  does. `CompletedAnswersAreWhole` needs the answer in the trace to be empty until the
  provider's stream has ended (`AInv`). `StreamAlwaysTraced` (StreamIsTraced) needs the generator's counters to be
  what was sent: with each event one count grows by one, and the status and the numbers are in the row before the
  last event is yielded (`CInv`).
* `EvaluationProofs`: `TypeCorrect`, `CompletedStaysWhole` and `PinnedResultsStay`, from `EvaluationAssumption`,
  `AnnotationsAssumption` and `TraceAssumption`. `Loop` is a recursive function over the cases; that it exists and what holds after
  n cases is shown from the least case for which it would not (`LeastNatural`, `SetInduction`, `RecursionExists`):
  a case that was looped over has a result, and a result fits the binding of its case (`LoopInv`). `AgreeInv` says the same
  of the rows and of what each open transaction has loaded and will write, so that a commit may be put over
  whatever was committed since the transaction began, column by column.
* `AlgorithmProofs`, from `ChunkerAssumption`, `LineAssumption` and `FusionAssumption`. For `Parsing`: `TextIsNeverLost` (NothingIsLost),
  `ChunksAlwaysAdvance`, `OffsetsStayNear` and `PathsAlwaysEnclose`. `ParseInv` follows the parser: up to where the open paragraph
  starts, the blocks hold what is written and nothing else, in order (`Ordered`, `Holding`), a title that is empty holding
  nothing; the paragraph is ink without marks; a block is located at its first character or, a title, at its line
  (`Located`); positions and offsets drift apart by a character for each newline that was added between them (`OffsetsDrift`);
  and the headings in force are those that enclose the last line, one of each level. `ChunkInv` follows the chunker: the drafts of
  the block that is cut end before the point the windows have come to (`Reached`), and all ink up to there is in one
  of them. `Strip` needs a least and a greatest element of a set of positions (`MinMax`). For `Fusion`: `FusedAlwaysRanked` and
  `BothAlwaysFirst`. The score is the sum of what the hits read so far contribute (`ScoreIsRead`), a chunk's place in
  the sorted list is the number of better ones (a bijection from the places before it), and
  two contributions outweigh any one because (K + a) * p = (K + e) * q with a at most K + 1 makes 2 * p greater than q.

Only model-checked: liveness (`JobsSettle`, `UploadsEnd`, `Recovers`, `EveryRequestEnds`), which is
outside the prover's reach. Every invariant and action property of a passing run, and both
refinements, are theorems, those of `Ingestion` named above with the restriction under which they hold. The abstract specifications
are proved to be implemented as safety: they state no fairness.

## Not modelled, and the plan

Next, in this order:

1. Composition of `Search` with the breaker of each channel, and an abstract
   single-flight cache that `Search` implements.
2. Bulk requests that OpenSearch applies after the client gave up on them, in `Ingestion`.

Out of scope: authentication (library calls over one row), health probes,
configuration, logging, error formatting and migrations, none of which
keeps state whose order matters; the console, which shows answers as they come, late ones too,
and keeps nothing that reaches the backend; decoding, the replacement of carriage returns before parsing, language detection and the query builders, which are data;
the formulas of the evaluation metrics; two streams with one request id; the release of a lock that
lapsed between GET and DELETE (the code promises nothing past the TTL, and `OneOwner`
says so).
