# Analitrics: a verification project

Analitrics adds conversational analysis of spreadsheets to LibreChat. A user
uploads CSV or Excel files, asks questions in a chat, and an agent answers from
a per-conversation DuckDB database built from those files, with the metadata of
what it built kept in Postgres. This directory holds TLA+ models of that system,
the TLC configurations that check them and proofs checked by TLAPS.

Paths are relative to `src/`; `agent/` stands for
`analitrics-app/scripts/analitrics_agent/` and `patches/` for
`librechat/custom/fork/patches/`.

## 1. Inventory

### Processes

| process | code | concurrency |
| --- | --- | --- |
| LibreChat (vendored fork plus patches) | `librechat/fork`, `patches/`, `librechat/custom/fork/api` | one Node event loop; handlers interleave at every `await` |
| upload wrapper | `analitrics-adapter/src` | stateless proxy in front of the upload route |
| agent server | `analitrics-app/scripts/agent_http_server.py` | `HTTPServer`, not threading: one request at a time, the others wait in the accept queue |
| reconciliation thread | `start_reconciliation_worker`, same process | runs beside the server thread |
| command line | `agent/cli.py` (`make analitrics-agent`) | a second process on the same cache directory and the same Postgres |

### State

* **MongoDB** (LibreChat's): `files` documents, `messages`, `conversations`, and
  `analitrics_agent_runs`, the log of runs.
* **S3 (RustFS)**: the uploaded objects, removed before their documents.
* **Postgres control plane**: sessions (`analysis_catalog_sessions`: cache path,
  processed files), profiles (`..._profiles`: one row per table, with `active`),
  feedback, derived metrics, the last analysis states, one pending clarification
  per conversation, dashboards and their views.
* **Cache directory**: one `<conversation>.duckdb` and, while it is open, one
  `<conversation>.lock` per conversation.
* **LibreChat memory**: generation jobs and the pending-request counter of a user.

### Components, what they do and what makes them correct

| component | operations | hard because | correct when |
| --- | --- | --- | --- |
| file catalog and invalidation | upload, delete, invalidate, resolve, save, reconcile | two threads, lost and late calls, read-then-act | a removed file ends up unusable, a file the user has is not taken away |
| conversation cache | open, reuse, load, save, close, delete chat | lock files, two processes, crash between database and file system | an answer is computed from the files it names; a deleted chat leaves nothing |
| table naming | `table_name_for_file`, `load_workbook` | truncation to 60 characters | two tables never get one name |
| run graph | twelve nodes and routers, one server thread, the stream to its caller | every node may fail, the process may die, tokens leave before the review | what is saved as an answer is a whole one; what the run leaves agrees with its log; the user's text is the reviewed text |
| SQL generation and validation | tools, final statement, strategy check, validate, repair once | an LLM decides; a repair asks again with another text; groups are remembered over questions | consolidated data is not answered from one of several equal tables |
| analysis state, clarification, feedback | save, prune to 8, pending question | what one run leaves changes the next | a settled clarification is not asked again |
| dashboards | create, open, edit by instruction, rebuild when stale | staleness by hash of a catalog that the thread and the command line also change; two functions that call each other | an edit survives; every listed chart can be drawn; a request comes to an end |
| direct controller | create job, forward the stream, save, finish | Node interleavings, job identity is the conversation id | each started request is finished once and its slot returned |
| upload wrapper, OpenID patches | rewrite a field, retry at start | bounded retry | as written |

Hazards, each at its line, are in `PROJECT.json`.

## 2. Plan

Modules, in the order of what matters most to a user of the system:

| order | module | about | state |
| --- | --- | --- | --- |
| 1 | `FileCatalog`, `FileVisibility` | who may see which uploaded file, and the abstract promise about it | checked, refinement proved |
| 2 | `ConversationCache`, `CachePromise` | the DuckDB file, its lock, the record of what is in it, and what all three promise | checked, refinement proved |
| 3 | `DirectController`, `StreamPromise` | questions of a chat, generation jobs, Stop, and what the browsers are promised | checked, refinement proved |
| 4 | `AgentRun`, `ChatTurn`, `ChatPromise` | the graph of nodes and its one server thread, composed with the controller that reads its stream; what both promise together | checked, refinement proved |
| 5 | `Dashboards` | staleness by hash, edits, rebuilds | checked, proved |
| 6 | `SqlGeneration` | tools, strategy, repair, what is remembered of compatible tables | checked, proved |

What was considered after these and left is under "Not modelled".

Abstract specifications: `FileVisibility` is implemented by `FileCatalog`,
`CachePromise` by `ConversationCache`, `StreamPromise` by `DirectController` and
`ChatPromise` by `ChatTurn`. The four refinements are checked and proved.

Composition: `ChatTurn` extends `AgentRun` with the other end of its stream.
`FileCatalog` and `ConversationCache` meet in one request of the server (resolve,
load, save) and are separate: the first is about all conversations of a user and
ignores the cache, the second is about one conversation and takes the files that
a request resolved as given. `DirectController` and `ChatTurn` share the
controller: the first has the jobs, the browsers and the Stop of several
requests and takes what the stream brings as a choice (a whole answer, a part,
nothing), the second has the stream event by event and takes a Stop as one
step. `ResolveAndProfile` and `AnswerFromSql` of `AgentRun` stand for what
`FileCatalog`, `ConversationCache` and `SqlGeneration` have in detail, none of
which touches the state of `AgentRun`.

## 3. Modules, their state and the code

### FileCatalog

One user's files in Mongo/S3, the agent's profile rows, the single request the
server is serving and the reconciliation thread.

| variable | code |
| --- | --- |
| `doc` | the S3 object and the Mongo document: `stored` both, `orphaned` only the document, `removed` neither |
| `del` | the delete route between its start, `invalidateAnalitricsFiles` and `processDeleteRequest` |
| `late` | invalidate calls that the caller gave up on while they waited in the accept queue |
| `rows` | `analysis_catalog_profiles.active`, per conversation and file |
| `server` | the request in `do_POST`: what is left to resolve or load, what was resolved |
| `worker` | `reconcile_deleted_files`: what `active_file_refs` returned and what is condemned |
| `faults` | bound on failures, not in the code |

LibreChat's actions are `Upload`, `BeginDelete`, the four fates of the
invalidation (`InvalidateServed`, `InvalidateLost`, `InvalidateTimesOut` then
`LateInvalidateServed`), `RemoveObject`, `RemoveDocument`, `DeleteFails`. The
server's are `BeginRequest`, `ResolveFile`/`ResolveFails`, `LoadFile`/`LoadFails`,
`SaveConversation`, `EndRequest`, `DeleteConversation`. The thread's are
`WorkerWakes`, `WorkerKeeps`, `WorkerCondemns`, `WorkerInvalidates`,
`WorkerSleeps`, `WorkerFails`. The read of Mongo and the update of Postgres are
two steps of the thread, since the server thread runs between them. `Restart`
loses the request, the scan and the queue.

`FileVisibility` is the promise: a file is pinned only while it exists, becomes
visible only from a pin, and is hidden only when its owner asked. `PromiseKept`
is `FileCatalog` under the mapping `phase`, `pinned`, `visible` given there.

### ConversationCache

One conversation: its chat (`chat`, `asked`, `cleanup`), the row in Postgres
(`session`), the file of that name (`disk`), the contents of each inode
(`tables`), the lock file (`lock`) and what each process does (`run`). The
server and the command line run the same code: `AcquireLock`, `Connect`,
`LoadFile` (with the test for reuse), `SaveConversation`, `Finish`; `LockTimesOut`,
`ConnectRefused` and `Fail` are its error paths. `ServeCleanup`, `UnlinkDb`,
`UnlinkLock` are `delete_conversation`, in that order. Inodes are there because
an unlinked file stays open. `Crash` leaves the lock file and drops the queue.

Resolution, catalog rows and reconciliation are in `FileCatalog`; here a request
has its files, one of the sets of the constant `Question`. Contents do not change
under one file id: LibreChat gives a new upload a new id.

`TableOf` names the table of a file and need not tell files apart: the code cuts
names to sixty characters (`agent/naming.py:18`). The test for reuse takes a
file that is in the record and a table of its name for enough, so that a file may
be answered from what a namesake of it left there; a load replaces what it finds.
The properties say what does hold then: what is answered from is the file or one
of its `Namesakes`.

`CachePromise` has no lock file, inode or connection: a process waits, is inside
and answers, has some of the tables of its files loaded, and the chat has a set
of tables cached and one recorded. A second process enters only a deleted chat, a
cached table is forgotten only with the chat, and an answer needs every table of
its question loaded and, while the chat is open, cached. The mapping reads
`cached` off the inode under the name of the chat and `loaded` off the one that
the process has open: they part when the chat is deleted under a run.

### DirectController

The requests of one chat, numbered generations of its job and what the browser
of each generation hears. `Check`, `ReadAnswer`, `CreateJob`, `InstallJob`,
`InstallFails`, `Announce`, then either `Replay` or `SaveQuestion`, `StreamEnds`,
`SaveAnswer`, `EmitDone`, `Finish`; `Throw`, `EmitError`, `FinishFailed` are the
catch. `Stop`, `SaveStopped`, `PublishStop` are the abort route. The boundaries
between actions are the `await`s.

The vendored job manager is modelled for the deployed configuration: in memory
(`USE_REDIS=false`), completed jobs not kept. Five abstractions: one Stop at a
time; a Stop reaches a job whose runtime is installed, since the button needs the
stream; `updateMetadata` is one step with `InstallJob`; the browser counts as
attached from the return of `createJob` (the controller waits for it, and events
before that are buffered by the manager); progress events, the pending-request
counter and the limit of active chats are left out. Between `EmitDone` and
`Finish` the in-memory store awaits nothing outside the process; the model
allows other handlers there all the same, as any other store would.


The messages are chosen by `Check`: two requests are two questions, or a
question and its retry with the same message id.

`StreamPromise` has no jobs, rows, runtimes or abort controllers: generations
begin one after the other, a browser attaches to the newest, the agent works for
the newest and for none whose browser was told that it is stopped or replaced,
each browser hears one end, and "done" comes only with a message that has an
answer. An end may go to any set of browsers, since the controller's own events
name no generation; that it may not go to a browser of another request is
`OwnTerminal`, which fails. Under the mapping a generation is `live` while its
request reads the stream and was not aborted, and `heard` is what the browser
was told without who told it.

### AgentRun and ChatTurn

The questions of one conversation in the agent, and in the part of the direct
controller that calls it.

| variable | code |
| --- | --- |
| `run` | the question that the server thread is in: the node of the graph, the plan, the answer of the state, what is still to be streamed and where the run goes then |
| `conn` | the connection of each question: `queued` in the accept queue, `open`, `ended` by the server, `reset` or `cut` by a crash |
| `wire` | the SSE events written and not yet read |
| `gone` | connections that the controller has closed |
| `pending` | the clarification of the session row |
| `memory` | `analysis_conversation_states`, oldest first |
| `log` | `analitrics_agent_runs` with status ok |
| `crashes` | a bound, not in the code |
| `chat` | the question in the controller: reading its stream, saved with which text, failed |

Each node of `AnalyticalAgent._build_graph` is an action, or one for each of its
returns (`check_question_scope`: `ScopeLiteral`, `ScopeOut`, `ScopeClarify`,
`ScopeDirect`, `ScopeSql`); `generate_sql`, `validate_sql`, `execute_sql` and
`compose_answer` are one, `AnswerFromSql`. `StreamToken` is a piece of
`_emit_tokens`. `Raise` ends a run in any node. `SaveRun`, `SaveRunFails`,
`SendFinal`, `SendError`, `SendDone` are the end of `AnalyticalAgent.run` and of
`_handle_stream_run`. What a language model decides is a choice, and so is what
it writes, as far as the code goes different ways on it:

* an answer is `first` as composed and streamed, `second` once the critic or a
  note has changed it. From SQL it may also be composed of no text (`empty`:
  `complete_text` gives `content or ""`, `agent/llm_client.py:149`), of which
  `_emit_tokens` sends nothing, and then be `filled` by the critic. The final
  event is all that the controller has of it, and so what is shown;
* the feedback that the planner read in a question is `none`, `full`, or `bare`:
  a proposal without content. `route_after_scope` sends either proposal to the
  last node (`agent/nodes.py:765`), where no state is built of a bare one
  (`agent/analysis_state.py:236`) and none stored
  (`agent/control_plane.py:436`), while the run is logged as any other.
  `Remembers` says which runs leave a state.

The controller's are `Ask` (the fetch), `Read` (`handleAnalitricsStreamEvent`),
`ReadEnd` (the stream is over without a `done`), `FetchFails`, `Abort` (Stop, or
a newer question). `SaveAnswer` decides what is saved: the tokens if there were
any, else the answer of the final event.

`ChatPromise` is what both promise: a question is answered or fails once; the
agent records a question at most once, whatever became of the one who asked, and
not after a crash has cut its answer; what is told is whole and recorded before,
unless the server was lost while it was told.

### Dashboards

The dashboard of a conversation over its catalog.

| variable | code |
| --- | --- |
| `catalog` | what `get_context` reads: the files of the last question, active tables, derived metrics (newest first), feedback, and whether the last answers and the clarification make the conversation ready (`DashboardReadiness`) |
| `dash` | the dashboard row (the hash it is stamped with, its snapshot) and its views |
| `op` | the request being served and what it has read |
| `unsure` | an instruction has read a catalog that its test for staleness did not see; not in the code |
| `asked`, `defined` | bounds |

`Create`, `Open`, `Instruct` are the routes; `Get` and `GetUntested` are
`get_dashboard` with its test for staleness, which takes a failure for "fresh";
`CreateRead` and `CreateWrite` are `create_from_conversation`; `EditRead`, `Plan`,
`Define`, `Store`, `DeleteView` are `apply_instruction`. `get_dashboard` calls
`create_from_conversation`, which calls `get_dashboard`: that is the loop of
`op.pc` through `get`, `create` and `build`. A hash is the record it digests:
files, tables, metrics, feedback.

The request holds the only server thread, so that `SaveFeedback` and
`DeleteConversation`, which are other requests, need an idle server. Two others
write to the same Postgres at any step: the reconciliation thread (`Hide`), and
the command line, whose question commits `save_conversation` (`Question`) and
after it the feedback that the planner applies (`ApplyFeedback`) and what makes
the conversation ready or not (`SaveOutcome`). The server's own questions do the
same while no request is served.

A view stands for the charts over one table. When every table is hidden the
initial charts are over the table of tables, `System`
(`_fallback_rowcount_views`). `get_context` is one step although it is several
selects, so that a question between two of them is taken to be before or after
all.

### SqlGeneration

| variable | code |
| --- | --- |
| `columns` | the profiles of the question: which tables there are and which have the same columns |
| `cached` | the last analysis state has compatible groups in its `semantic_cache` |
| `asked` | the question asks for consolidated data |
| `gen` | the call of `ToolAssistedSqlGenerator.generate`: step, failures, whether compatible tables were looked for and found, the strategy |
| `plan` | the plan of the graph's state: the statement, as the set of tables it reads, and the strategy kept with it |
| `repaired`, `node` | the call is the one of the repair; the node of the graph |

`UseTool`, `FinalSql`, `FinalSqlRefused`, `GiveUp` are the loop of `generate`;
`Accepts` is `_validate_data_strategy`; `Groups` is `find_compatible_tables` with
its two limits; `ValidateSql`, `RepairSql`, `RepairFails`, `ExecuteSql` are the
nodes. The repair calls `generate` with another question, which holds the
statement and the error, and the profiles change from question to question.

## 4. Runs and what they show

Runs that pass:

| run | states | shows |
| --- | --- | --- |
| `file_catalog` | 258,670 | `CondemnedIsRemoved`: the thread acts on a read one step old and is still right. `HiddenOnlyOnRequest`: no deletion hides another file. `PromiseKept`: refinement of `FileVisibility`. `RemovedIsForgotten`: lost, late and overtaken invalidations are all repaired, as long as the active files fit in the limit |
| `cache` | 289,230 | `AnswersFromItsFiles`, `LockExcludes`, `NoLockAtRest`, `RecordedIsCached` with the server, a command line, two files that share a table and two crashes. `PromiseKept`: refinement of `CachePromise`. `OrphansComeFromFaults`: a database file without a row in Postgres, which no cleanup would find, is left by a failed load or a crash only. `ServerComesBack`: a stale lock costs an answer, never the server thread |
| `controller` | 278,101 | `NothingLeftRunning`, `DoneAfterSave`, `LiveRunsAreCurrent` and `BrowserHearsBack` for two requests, as two questions or as one and its retry, and Stops. `PromiseKept`: refinement of `StreamPromise` |
| `agent_run` | 514,902 | `PendingIsOpen`: a clarification is never pending over a question that was answered from the data. `UnansweredIsPending`: and it is pending no more only after a later question that was answered, is being answered or failed. `MemoryKeepsUp`: the states kept are the newest of the log, the runs that leave none set aside. `SavedIsWhole`: a part of an answer is saved only after a crash. `ShownIsComposed`: the text in the chat is the one that was composed and streamed; only what was composed of no text stays empty or is what the critic filled in. `RunsRunOut`: each step of the server's thread brings its question nearer the end. `TurnEnds`: nobody waits for ever. `ChatPromiseKept`: refinement of `ChatPromise` |
| `dashboards` | 1,217,370 | `ViewsCanRun`: a chart reads a table of the snapshot, until an instruction reads a catalog that was not tested: its test for staleness failed, or a question of the command line came between the test and the read. `PlainEditsStay`: an instruction without a metric is not undone by the rebuild that closes it, unless files, tables or feedback were changed under it. `FirstMetricStays`: nor is one that saves the first derived metric. `RoundsRunOut`: the two functions that call each other begin again only for a question, a feedback or a hidden table, and each costs a bounded number of rounds, so that they come to an end: `RequestEnds` |
| `sql_generation` | 143,536 | `ConsolidationKept`: after refusals, a repair and a change of files, consolidated data is not answered from one table of a listed group without a reason. `WholeIfListed`: nor of any group, while all are listed. `StepsRunOut`: each tool, refusal and repair uses up one of a bounded number of steps. `QuestionSettles` |

`LockExcludes` and `RecordedIsCached` are about open chats: deleting a chat
unlinks lock and database under a command-line run. `AnswersFromItsFiles` and
`NoLockAtRest` hold also then.

Runs that find the documents and the code apart; the shortest behaviour TLC
gives is told here:

| run | property | behaviour |
| --- | --- | --- |
| `file_catalog_return` | `InvalidatedStaysInvalidated` | a deletion has switched the profiles off; before it removes the object, a request resolves and loads the file; the document goes; `save_conversation` sets `active = true` again. Reconciliation repairs it, hours later |
| `controller_own` | `OwnTerminal` | a question is replaced while its answer is saved; its `emitDone` goes into the generation of the new one |
| `controller_database` | `DoneIsInDatabase` | Stop between the save of the answer and the end of the job, for instance while the conversation is saved: an empty unfinished answer is saved over the full one that the browser is shown |
| `agent_critic` | `ShownIsLogged` | every token of an answer is read, then the critic replaces the answer in the state: the chat keeps the first text, the log and the memory hold the second |
| `dashboard_edits` | `EditsStay` | the second time a derived metric is saved (the same name again, in the shortest behaviour), it is put after the first one in the context that is hashed, and before it, or in its place, in the one that is read: the dashboard is stale when its own instruction ends, and the rebuild deletes its views |
| `sql_consolidated` | `ConsolidationWhole` | more tables with the same columns than are listed: a statement over the one that is not listed passes as a single table |

`BrowserHearsBack` and `OwnTerminal` belong together: the controller names no
generation when it sends its last event, which is why a replaced request can end
the wrong one, and also why a browser hears the end after the runtime is gone.

How much of what each of these properties claims does hold is proved, for every
value of the constants: by an invariant or action property beside it, or under a
condition on the behaviour that is stated with the theorem (section 7).

| what fails | what holds | theorem |
| --- | --- | --- |
| `InvalidatedStaysInvalidated` | it holds while no document is removed under a request that resolved it and has not saved (`Apart`) | `ApartStays` |
| `OwnTerminal` | it holds while no job is created under another request of the chat (`Serial`) | `SerialOwn` |
| `DoneIsInDatabase` | it holds while nobody stops an answer or sends a message twice (`Once`) | `UndisturbedDone` |
| `ShownIsLogged` | it holds while the critic leaves the answers as they are (`Approves`) | `ApprovedShown` |
| `EditsStay` | an instruction that saves no metric, or the first one, stays unless files, tables or feedback are changed under it | `PlainEditsSafe`, `FirstMetricSafe` |
| `ConsolidationWhole` | it holds while groups and tables fit the lists, so with at most `GroupLimit` tables | `WholeSafe`, `FewTablesSafe` |

Each condition names one race or one decision, which is therefore what it takes:
nothing else that the model has (lost calls, crashes, failures, restarts, late
invalidations) breaks the property without it.

Every property of a passing run has a mutant in `PROJECT.json`: a plausible slip
in one definition (the operators whose comment starts with "Mutant" or "A
plausible bug") under which the same run fails.

## 5. Bounds

The theorems have none of these; they are for what only runs show, and for the
mutants.

* `file_catalog`: two files in one conversation, two faults, `Limit = 2`. Each
  property is about one file and at most one other (the scan order, hiding
  another file); a fault is a lost call, a failed deletion, a worker that dies or
  a restart, and late calls need none. With two files the limit is not exceeded,
  which is the case that `RemovedIsForgotten` needs. `file_catalog_return` needs
  no fault.
* `cache`: three files, two of which share a table, and three questions: one
  file, it with a file of another table, it with its namesake. So a table is
  reused by a later question and replaced by one, within a question too. The
  server and a command line, two crashes (one for each). Two inodes: one that a
  process has open and one that it opens under the name after an unlink; a
  process that connects holds none and the other holds one at most. One
  conversation: every path is named after it.
* `controller`: two requests over two messages, a Stop whenever none is under
  way, `Room = 2`, so that both are accepted. Two generations show every pair of
  predecessor and successor.
* `agent_run`: two questions, since each property relates a question to an
  earlier one or to its own log; `MaxStates = 1`, so that the second answer
  prunes the first; answers of two pieces, so that there is a part, or of none;
  one crash.
* `dashboards`: two tables, one metric that may be defined twice, two questions,
  one feedback; a test may fail at any time. So tables come and go under a
  request, and a question finds and leaves either. `dashboard_edits` needs
  neither a second question nor a failure.
* `sql_generation`: three tables and lists of two, so that a group may be longer
  than its list; two tool steps, so that a refused statement has a second try or
  has none. `columns` starts with any grouping of the tables.

No run uses symmetry. `CHECK_DEADLOCK FALSE` is in the configurations of the
cache (a deleted chat with nothing left to do), the controller (every request
served), the chat turn (every question answered) and SQL generation, whose
liveness specification leaves a user free not to ask. The file catalog and the
dashboards are checked for deadlock.

## 6. Fairness

* `FileCatalog`: weak fairness of the server's steps, since a handler runs to
  its end and its calls have timeouts, and of the thread's, a loop around a
  sleep. Users, uploads, deletions, calls from LibreChat and failures are not fair.
* `ConversationCache`: weak fairness of what the server thread has begun.
  Acquiring is a poll of thirty seconds, so a lock that is never free ends in
  `LockTimesOut`. No fairness for other processes or for new work.
* `DirectController`: weak fairness of each accepted request, since Node resumes
  every awaited call and the fetch ends with the stream or the abort, and of the
  Stop that is under way. Pressing Stop and sending a question are not fair.
* `ChatTurn`: weak fairness of the agent as a whole, which is one thread in a
  loop (`serve_forever`), and of the controller of each question, whose reads
  Node resumes. That a queued question is taken in the end follows from there
  being finitely many before it, not from fairness for each. Asking, stopping
  and crashing are not fair.
* `Dashboards`: weak fairness of the request being served, by the one thread.
  Which way it goes, a failure included, is open; that it is
  not kept rebuilding for ever rests on the bounds of the changes, as proved.
* `SqlGeneration`: weak fairness of the generator and the nodes together: the
  graph runs on. Which tool or statement the model chooses is open; the bound on
  the steps is in the code.

## 7. Proofs

Checked by TLAPS for all values of the constants that satisfy the named
assumptions of the modules (ids differ from the null values, `Rank` orders the
files, bounds are natural numbers, `Request` and the `Table` of the dashboards
are finite). A theorem `Spec /\ [][C]_vars => P` is about the behaviours whose
every step satisfies `C`; each such `C` excludes one race, or one choice of a
user or of a language model, and nothing else.

* `FileCatalog_proofs`. `IInv` is the type invariant, `DeletionHasDocument` (a
  deletion under way still has its document), `Known` (no queued call, row,
  request or scan names a file never uploaded) and `CondemnedIsRemoved`.
  `CondemnedIsRemoved` alone is not inductive: the thread condemns a file when
  it has no document, and only `Known` says that such a file is gone and not
  still to come. Documents only age (`DocumentsOnlyAge`), so a condemned file
  stays removed. `TypeCorrect`, `CondemnedSafe`, `HidingSafe` follow, and
  `Refinement`: `IInv` gives each step its abstract step or stutter. `ApartStays`
  rests on `PinnedExist`: what the request holds on its way to
  `save_conversation` is not removed. A file gets there only through
  `ResolveFile`, which read its document, and leaves this state only by the
  removal that `Apart` excludes; and only `SaveConversation` makes an inactive
  row active (`Reactivates`).
* `ConversationCache_proofs`. `LockInv` is the type invariant, that only a
  deleted chat is unlinked, that the lock of an open chat is named after the
  process inside (`LockOwned`) and that without a crash a lock has a live owner
  (`LockAlive`). `LockExcludes` is not inductive: that two processes are not
  inside follows from whose lock it is. `LockSafe` and `RestSafe` follow.
  `CacheInv` says that a table holds only files of its name, that what a process
  loaded so far is in its database, and that an open chat's processes have the
  file on disk open; `AnswersSafe` and `RecordSafe` follow. Neither assumes that
  table names tell files apart: what another file of the name leaves in a table
  is still a file of that name (`TablesNamed`), which is what the properties say.
  No lock is used in the proof of `AnswersSafe`: DuckDB's own exclusion
  is enough. `Refinement` rests on both invariants, on `OneDb` (a database file is
  open in one process, so that a load changes what no other process reads) and on
  `LoadsItsOwn`, and on no assumption about the names either: it is about tables,
  and a file that takes the table of another takes none away. `LockOwned` lets
  one process at a time in, `OpenedIsOnDisk` makes a load of an open chat one into the file on disk, and
  `OnlyDeletedUnlinked` lets a cleanup forget only for a deleted chat. `OrphansSafe`
  needs the type invariant alone: who works on the file under the name records it
  (`GoesOn`), and a row is deleted by the step that goes on to unlink.
* `DirectController_proofs`. `IInv` adds to the type invariant what a request
  has when it reaches a step (`Requests`), that generations are numbered by the
  requests that created them (`Counted`, an argument about cardinality), that an
  aborted generation is never the running one (`AbortedIsOver`), that a request
  that was not aborted owns the job and its runtime (`Current`), that a running
  job has a request that will end it (`RunningHasRequest`) and that what is told
  as done was saved (`AnswersSaved`). `LiveSafe`, `RestSafe`, `DoneSafe` follow.
  `UndisturbedDone` adds `OnceInv`: messages tell requests apart, so nobody finds
  an answer of another, and past its save the answer in Mongo is the one that a
  request has got. `SerialOwn` adds `SerialInv`: at most one request is being
  served, and it is the one of the current job, so the last event that names no
  generation has only one to go to. `Refinement` adds `Numbered` (a generation belongs
  to one request, and none is newer than the job's) and `Ends` (the browser of the
  newest generation has been told of no Stop and no successor unless its
  controller was aborted): every handler is then one abstract step or a stutter.
* `ChatTurn_proofs`. `IInv` is the type invariant, `Calls` (a question is asked,
  accepted and logged once), `Settled` (past the scope the plan has opened or
  settled the clarification), `PendingIsOpen`, `Ordered` (the states are in the
  order of the log, the newest at the end), `Route` (the state of a run that
  leaves one is in before the run is logged, and a run that goes past the last
  node leaves none), `Streams` and `Saved`, which is `SavedIsWhole` and
  `ShownIsComposed`. `Streams` carries the argument for these: of what a
  controller has read and has still to read, the tokens come first, and with what
  is left to send they are the `Pieces` of the answer, none for one composed of
  no text; once the stream has ended it is an error or the whole of an answer
  that is logged. So a controller that has tokens has composed text, and one that
  has none takes an answer that had none to stream (`Fits`). `PendingSafe`,
  `MemorySafe`, `SavedSafe`, `ShownSafe` follow, and with `Approved` (the log
  holds composed answers as well) `ApprovedShown`. `UnansweredIsPending` is
  inductive with `Unplanned` (a run has no plan before it has its files): the run
  that settles a clarification is the witness until it is logged, and the failed
  question after it. `RunsBounded` proves the measure `RunLeft`, the steps that a
  question has before it at most, and `Refinement`: a question is recorded while
  its connection is open, hence asked and not torn, and by `Calls` once; a saved
  text is in `Good` and recorded, by `SavedIsWhole` in the new state, or torn.
* `Dashboards_proofs`. `IInv` is the type invariant, `Held` (the dashboard that
  a request works on stays while it is served), `Drawable` while not `unsure`
  (charts are over tables of the snapshot, and so are the tables that an
  instruction is about to read or has read) and `Stamped` while the test of the
  request did not fail (an instruction's digest has the metrics of the catalog,
  whatever others do to the rest of it, unless it has two at least). `ViewsSafe`
  follows from `Drawable`: the one step that can break it, a question between
  the test and the read, sets `unsure`. `PlainEditsSafe` and `FirstMetricSafe`
  are action properties, proved from `IInv` on each step: by `Stamped` a digest
  that differs from the stamp differs in files, tables or feedback, since a list
  of one metric has one order. `RoundsBounded` proves the measure `Left` and a
  bound for it: the steps to the end from where the request is, four for every
  table that may be hidden and every feedback that may be saved, which is what
  one more round costs, and for every question that may be asked a round and what
  the tables cost that it gives back.
* `SqlGeneration_proofs`. `IInv` is the type invariant, `WishKept` (the repair
  does not take the wish for consolidated data away) and `PlanChecked` (the
  statement of the plan has passed the check of the last call over the tables
  of this question). `ConsolidationSafe` follows, and `WholeSafe`, as the groups
  listed are all groups when they fit (`GroupsWhole`). `FewTablesSafe` is the
  case that no list can be too short. `StepsBounded` proves the measure `Left`,
  which the steps of the call and of its repair make up.

## 8. Only model-checked

The liveness properties `RemovedIsForgotten`, `ServerComesBack`,
`BrowserHearsBack`, `TurnEnds`, `RequestEnds` and `QuestionSettles`, which are
out of the proof system's reach because they rest on fairness and `ENABLED`.
Of `TurnEnds`, `RequestEnds` and `QuestionSettles` the part that is about the
code is proved: `RunsBounded`, `RoundsBounded` and `StepsBounded` give a natural
number that every step of the thread makes smaller. What TLC adds is that the
thread is never stuck short of its end, and that each waiting question is reached.
The runs that find violations are by nature about one instance. Every safety and
action property of a passing run is proved.

## 9. Not modelled

* The answers of language models, the SQL they write and its parsing, prompts:
  a decision of a model is not a property of the code around it. The graph that
  reacts to them is modelled.
* Table naming and workbook loading: functions of single inputs without state.
  What is wrong with them (below) one input shows.
* Profiling, charts, schema context, text normalisation: formatting of data.
* Tracing, configuration, logging: they keep no state of the system.
* The upload wrapper and the proxy routes: stateless.
* OpenID patches, deployment files, migrations: run once at start, in sequence.
* LibreChat outside the delete routes, the job manager's jobs and the abort
  route: some two thousand files of a vendored fork that the program's own code
  calls at a few places. Its agents, its tools, its web client and its Redis
  stores are not used by the direct controller or not deployed
  (`USE_REDIS=false`).
* How a browser attaches to a stream (`subscribeWithResume`, the early buffer).
  With the in-memory store an attachment is one turn of the event loop, as all
  it awaits is settled, so that the interleavings that the code guards against
  come with Redis only.
* The counter of pending requests: `LIMIT_CONCURRENT_MESSAGES` is not set in the
  deployment shipped. Where it is set, the 429 returns of the chat limits
  (`patches/direct-agent-controller.js:368`, `:379`) come after the increment.

Observed while modelling and not given a run:

* a first load that fails leaves a database file that no session row names
  (`ConversationCache!Fail`); `DELETE /api/convos/all` calls no cleanup
  (`DeleteAllChats`);
* `processed_files` is overwritten by each question with its own files, so the
  record of earlier ones is lost (`ConversationCache!SaveConversation`);
* two files whose table names are cut to the same sixty characters share a
  table, and `session.processed` may name one whose table holds the other
  (`ConversationCache!Namesakes`): the test for reuse looks for names only;
* a question that waited in the accept queue while its chat was deleted is served
  after the cleanup and makes the row and the file anew, which no cleanup takes
  away any more (`ConversationCache!StartAsked` with the chat deleted), against
  `01_MANIFEST.md:351`, where the file goes with the chat;
* a proposal of feedback without content goes to the node that saves it, which
  saves nothing (`AgentRun!Remembers`);
* an answer composed of no text is saved as the answer, empty
  (`AgentRun!AnswerFromSql`);
* with more active files than `Limit` the scan reads the same first ones every
  time (`FirstRefs`);
* the question limit is counted before the question is saved, so two tabs both
  pass the last place (`Check`, `SaveQuestion`);
* a Stop is heard by its browser as an error when the aborted fetch's catch runs
  before `PublishStop` (`Throw`, `EmitError`);
* the subscriber handshake (`patches/direct-agent-controller.js:84`) is satisfied
  by any tab: a second one that attaches first leaves the asking tab without the
  events that came before it;
* the controller never calls `setContentParts`, so that the snapshot of a resumed
  stream is empty: a tab that reconnects lacks what was sent while it was away,
  until the final event replaces the text;
* a repair keeps the `data_strategy` of the statement it replaces
  (`agent/nodes.py:533`);
* an instruction reads the catalog a second time after the test for staleness
  (`agent/dashboards.py:570`) and stamps the dashboard with what it read: tables
  hidden between the two leave charts over them on a dashboard that counts as
  fresh, and a table that a question of the command line adds between the two
  may get a chart that `run_view` refuses (`unsure`; `EditRead`, `Store`).
