# Verification of news-tls-agent

The system turns a news topic into a stored, citable timeline. A language model
interprets the topic, proposes queries, selects articles found in an index and
merges them into events; code decides what of that may become evidence, when the
collection stops, and what is saved. This directory holds TLA+ models of that
code, TLC runs and TLAPS proofs.

## 1. Inventory

| Component | State | Operations | Hard behaviour |
|---|---|---|---|
| Timeline pipeline (`app/pipeline.py`, limits in `core/config.py`) | per request: period, round, selected and rejected articles, chain depth, termination | `generate`: lookup, P1 to P8, search, save | about ten slow external calls per request; answers of any content; early exits; concurrent requests |
| Issue store (`infra/repository.py`) | issues, events, links; articles; article graphs | lookup, save, list, upsert, replace graph, read graph | check-then-act across transactions; lost acknowledgements; multi-statement reads |
| Model adapter (`infra/gemini.py`) | two error counters per call | `generate` with waits for 429 and 503 | retry budgets nested in the pipeline's own retry |
| Event-stream routes (`api/routes/*.py`) | queue and worker thread per request | relay progress, map errors, finish | thread against event loop; client that leaves |
| Web dialogue (`web IssueListView.vue`) | topic, question, attempt number, last request | submit, answer, retry | dialogue state survives failures; budget of questions spans requests |
| Knowledge graph (`app/graph.py`, `infra/entities.py`) | entities and relations per article | build for an issue, correct, save | two builders and the loader on one article |
| Search (`app/search.py`, `infra/qdrant.py`, `core/ranking.py`) | dense vectors and payloads | keyword, vector, hybrid search, rank fusion | index and table may disagree |
| Loading and indexing (`scripts/02_load_mssql.py`, `scripts/03_build_vectors.py`, `infra/embedding.py`) | article table, collection | batches, quota waits, retries, resume | crash between batches; two stores without a transaction |
| Migrations (`db/migrate.py`) | `schema_migrations`, the schema | bootstrap, check, apply, record | crash or second runner between steps; edited files |
| Chat agent (`app/agent.py`, `api/routes/chat.py`, `ChatPanel.vue`) | tag parser; history kept by the panel | send, stream, call tools, parse tags | tags split over chunks; failure behind shown text; history from the client |
| Export (`app/exporting.py`, `infra/pdf.py`, `infra/notion.py`, `ExportMenu.vue`) | PDF per issue, remote pages | export to PDF or Notion | two exports of one file; partial pages |
| MCP (`mcp_server/`, `infra/mcp_client.py`) | a server process per call | call a tool, list tools | time limit against a late success; death of the process |
| Detail view (`IssueDetailView.vue` and its panels) | shown issue, graph, article | load on route change | late answers of earlier requests |
| Wiring, health, command line tools, documentation harness | none to relate | construction, probes, drivers | none |

The pipeline calls the adapter, the search and the store; the routes run it in a
worker thread and relay its progress to the web client, which starts the next
request of the dialogue. The chat agent and the export menu reach the store through
MCP tools. The graph builder and the loader share the article
tables; the loader and the index builder share the source file and article ids. What
makes each correct, at the line where it can go wrong, is listed under `hazards`
in `PROJECT.json`.

## 2. What is modelled

### TimelinePipeline

`TimelinePipeline.tla` models `generate` and `_collect_and_save` completely,
`save_issue` and `find_issue_by_topic` as transactions, and the web dialogue that
issues the requests.

* `run[r]` is request thread `r`: its place in the code (`stage`) and the local
  variables. `issues` is the issue table in id order; one row holds the events
  and their citations, since `save_issue` writes all of it in one transaction.
* One action stands for the code between the answer of one external call and
  the issue of the next: `Reuse`/`Miss` (lookup), `InterpretIntent` (P1),
  `BuildHypotheticalTimeline` (P2), `Search` (P3 with its search),
  `FallbackSearch`, `SelectArticles` and `ReselectArticles` (P4 and its single
  correction), `ExtractRelatedEvents` (P5), `ReviewSufficiency` (P6),
  `GenerateHypotheses` (P7), `MergeTimeline` (P8 with the citation check),
  `SaveIssue`. `CallFails` is any call that raises, `SaveUnacknowledged` a commit
  whose answer is lost, `Restart` the end of the API process.
* The exits of the loop are operators named after their place: `LeaveLoop`,
  `NextRound`, `NothingNew`, `Verdict`.
* `SubmitTopic`, `SubmitClarification` and `RetryGeneration` are the handlers of
  the web page; a run is also the dialogue of one page, and `asked` is the attempt
  number that travels with its requests.
* `before` and `shown` serve the properties: `shown` is the key set of
  `articles_by_id`, `before` remembers what was selected when a round began and is
  read by no action.

Abstractions. Topics are normalised, non-empty names. An article is an id with a
date. A model answer is any value its response model lets through; a search
answers with any admissible set of at most `SearchTopK` ids. Texts, prompts and
logs are left out. The index and the table are taken to agree on an article's
`service_date`; VectorIndex says when they do. `round_selected` is a set; relevance scores are a few ranks. The
non-retryable failures are not told apart from the retryable ones, so the page
may retry more often here than it does.

### IssueCatalogue

`IssueCatalogue.tla` is what clients rely on: a growing catalogue with at most one
issue per topic, each event resting on stored articles, and an answer to each
request that names an issue about the requested topic, or none. `TimelinePipeline`
implements it under `Wanted` and `Reply`; the lost acknowledgement appears there
as `PublishUnheard`.

### LlmCall

`LlmCall.tla` is one model call: the loop of `GeminiTextGenerator` (two error
counters, waits) inside the use case that may call it a second time. The pipeline
does so after a general failure (`_call_llm`), the graph builder to have an output
corrected (`_extract`); everything else is final. The API answers anything at any
time. `rate` and `service` are the counters of the running adapter call, `attempt`
says which one it is, `log` is a history the properties count in. `Invalid` covers
`discard_invalid_relations`: of a second output whose only fault is its relations
the rest is returned. How long a wait is, is left out. In TimelinePipeline a whole
such call is one answer or one failure.

### KnowledgeGraph

`KnowledgeGraph.tla` is `KnowledgeGraphService.build` in any number of request
threads, on the article tables it shares with the loader.

* `build[b]` holds a builder's place and its local variables: the versions of the
  articles in its snapshot (`seen`), the rest of `pending` (`todo`), the rest of
  the representatives to be answered (`left`), the extraction in hand, what its
  open transaction has deleted, and the nodes and edges of the graph read last.
* `db[a]` holds an article's content as a version number, its mark
  `entities_extracted_at`, its committed entity and relation rows, and the holder
  of its update lock.
* Each statement that other sessions may come between is an action: `ReadEvent`
  per event of `get_issue`, `BeginReplace` (lock and deletes), `CommitReplace`
  (inserts, mark, commit), `ReadEntities` and `ReadRelations` of
  `get_article_graph`, `Load` per batch of the loader. `Fail` is whatever raises,
  with the rollback, and the end of a process.
* Reads see committed rows only; two reads of one session may see different ones
  (READ COMMITTED; a session of the code never reads twice in a transaction that
  asks for more).
* `source`, `overlaid` and `loaded` are histories. No action reads them.

Abstractions. `Reps` gives the representative article of each event, which is
determined when an issue is saved unless a load moves dates; supporting articles,
which are read along, play no part. Issues exist and their articles are loaded.
The content of an extraction is a set of entities and relations whose ends are
among them, which LlmCall's outcome "ok" stands for. Cascading deletes do not
occur, since nothing deletes articles.

### ArticleGraphs

`ArticleGraphs.tla` is what the store promises: each article has the rows of one
extraction or none, `Replace` exchanges them and marks the article in one step,
`Load` removes marks and no rows. KnowledgeGraph implements it; the two
transactions' steps before the commit, reads and rollbacks are stutters.

### EventStream and StreamContract

`EventStream.tla` models the routes `POST /issues` and `GET /issues/{id}/graph`
with the reader in `sse.ts`, for any number of requests: a worker thread runs the
use case and reports by `call_soon_threadsafe` (`ready`), the event loop runs its
callbacks in order (`RunCallback`), which fill the `queue` or make the task
`done`; the generator relays (`Relay`) until `Exhausted` and writes the outcome
(`Finish`); the reader parses what is on the `wire` (`Hear`) and gets the end of
the response (`End`). `Break` is a connection that fails or a client that leaves,
`Restart` the end of the process. The 0.1 s timeout of `wait_for` changes nothing
and is a stutter. Two routes with one shape share the model: what they call their
outcomes is `Outcomes`.

`StreamContract.tla` is the promise: stages one by one and without gaps, the
outcome after the last of them, the end after the outcome; or silence once the
connection is broken, while the use case goes on. EventStream implements it.

A connection refused before the request arrives is, for the page, a broken one;
that no use case is started then is not told apart.

### GenerationPage

`GenerationPage.tla` is the page on top of the streams it opens. `page` holds the
refs of `IssueListView.vue`, `request[s]` what stream `s` was opened with.
`SubmitTopic`, `SubmitClarification`, `RetryGeneration` and `EditTopic` are its
handlers, `HearStage` and `HearTerminal` those of the stream, `EndOfStream` and
`ConnectionLost` the `finally`, after the `catch` in the second case. Two streams
of one page may overlap, because the retry button is there with the error event and its
handler does not look at `pending`. `current`, `about`, `received` and `overlapped` are
histories; the last one is set by a retry while a response is still open, and cleared by
a new topic when none is. It separates what the page promises always (the form is
disabled only under an open response, and becomes usable again) from what an early retry
can break for the dialogue it overlaps, but not for those after it. What an outcome
becomes as an event, and what the page makes of that, are `EventOf`, `Reason`, `Retryable`, `PresentedAction`.
TimelinePipeline leaves all of this out: there, a page sends its next request when
the one before is over. Leaving the page is not modelled.

### VectorIndex

`VectorIndex.tla` is the two scripts that carry the source file into the system,
`02_load_mssql.py` into the article table and `03_build_vectors.py` into the
collection of Qdrant, with the rules both share in `raw_ingestion.py`.

* `source` is the file, row by row; `Bad` is a row that `normalize_record`
  excludes. Each row is content of its own, so what a store holds of an article is
  named by its file and row: `payload[i]` is the row of the point, `dense[i]` the
  row its dense vector was made from, `table[i]` the row in `dbo.articles`.
* `bpc` is where the builder is, `bpos`, `batch`, `pending`, `embedded`, `attempt`,
  `seen`, `skipped` and `sparseOnly` are its local variables (`skipped` are the articles
  behind the report's `skipped_dense_count`). Each call to Qdrant or the
  embedding provider is an action that succeeds (`EnsureCollection`, `LookUp`,
  `Embed`, `Upsert`, `Verify`) or fails (`EnsureFails`, `ReadFails`, `EmbedFails`,
  `UpsertFails`); failing uses up an attempt of `_retry`, and a write that fails
  may have been carried out. `EmbedFailsFinally` is the fallback to BM25,
  `QuotaExhausted` the daily limit that ends the run with exit code 3.
* `ReadRow` and `EndOfSource` are the generator chain `iter_valid_articles`,
  `_batches`; `LoadRow`, `LoadEnds` and `CommitLoad` the same for the loader, whose
  batches are of another size and whose transaction is not repeated.
* `KillBuild` and `LoadFails` stop a script anywhere; `NewSource` exchanges the
  file while no script reads it.

Abstractions. One builder and one loader run at a time; they may overlap. A
collection of another shape is a call that fails each time. Of the report's counters
only those are kept that decide between "complete" and "partial" or name the articles
that were skipped; why a row is excluded is left out. Points and articles are never deleted, by neither script.

A resumed build compares ids only. Where an article changed between two files, or stands
in two batches of one, it keeps the row it embedded first while the table keeps the last;
`docs/data/source-and-ingestion.md` prescribes `--force` for changed content.
`IndexAgreesWithTable` says that this is the only difference: index and table may disagree
only on an article that the run has counted as skipped, and on none after `--force` or when
the index was made from one file without duplicates.

### SourceTags and ChatAgent

`SourceTags.tla` is `SourceTagParser`: `Feed` and `Flush` are its methods, `Split` the
loop of `feed` as a recursive function (one turn of it is `SplitBy`), `Held` and `Boundary` the two helpers. A text
is a sequence of symbols; a tag has two of them, so that a chunk may end inside a
tag, between the two newlines before it, and behind it. The second half of the
module says what a whole text means without chunks (`Reading`), and what an
answer means paragraph by paragraph (`ByParagraph`).

`ChatAgent.tla` is one panel with the requests it sends. `panel` holds the refs of
`ChatPanel.vue` and the last answer item, `answer` the request as the route and
`IssueChatAgent.stream` see it, `wire` the events between them. `SendMessage` sends
the history along; `Refuse`, `IssueMissing`, `DataUnavailable` and `StartGraph` are
the ways the route takes it; `Say` is a chunk of the model's text, `CallTool` a tool
call with its result, `ToolRaises` and `AgentFails` what may raise, `Finish` the end
of the graph with the text still held back, the fallback for a model that does not
stream (`LastText`), and `_collect_tool_results`. `Hear`, `EndOfResponse` and
`ConnectionLost` are the panel's handlers, `catch` and `finally` included. `said`,
`sent`, `chunks` and `calls` are histories or bounds.

All messages of an answer go through one parser (`agent.py:95`), so the reference reading
of `AnswerFollowsTags` reads them as one text (`Spoken`): the property says that neither
chunks nor tool calls change what is shown of that text. A tag that opens a message is
none in it unless the message before ends in an empty line, and is shown literally.
`UnmarkedIsGeneral` reads message by message and paragraph by paragraph, and is violated
for this reason too (`chat_unmarked`).

Blanks are left out of the comparison of texts: those behind a tag are dropped when
they come in one chunk with it and shown when they come later. Of payloads, only
articles, exports and the word that the storage is unavailable are told apart. The
waiting indicator and labels are left out.

An answer without any text is remembered as an exchange with an empty content
(`ChatPanel.vue:111`), which `ChatMessage` refuses (`core/models.py:540`): from then on
`Refuse` is the only way the route can take a question of this panel. A refusal ends a
question like any other failure, so `QuestionsEnd` holds all the same and says nothing of
this.

### BriefingExport and IssuePage

`BriefingExport.tla` is one export from the tool call to what it leaves behind. Each
call has a server process of its own (`step`); `Refuse` and `Start` are the checks of
the payload and the use case, `Write`, `Replace` and `RenderFails` the renderer with
its temporary file, `Publish` and `PublishFails` the requests to Notion, which may
carry out what it does not answer. `TimeOut` is the read limit of the session: the
caller is told, the process goes on; `Die` is its end at any moment, `Abandon` that
of a session that is left. `answer` keeps what the caller of `call_tool` was told
first.

`IssuePage.tla` puts the issue page and its export menu on top: `Visit` and
`VisitNothing` are `loadIssue` up to its request, `Loaded` and `LoadFails` the answers
of any load that is still under way, `Leave` another route, `RunExport`, `Hear` and
`ConnectionLost` the menu; `AgentExports` is the same tool called by the chat agent.
Nothing cancels a load, so a late answer puts an earlier issue on the page of a later
address. `late` records that this has happened since the last change of the address;
`AgreesUnlessLate` says that nothing else makes page, menu and exports disagree.

Abstractions. A file is absent, half written or whole, a page the number of requests
that reached it. One file name per issue: it is made of its number and title, which
never change. The chat and graph panels of the page are left out.

### SchemaMigrations

`SchemaMigrations.tla` is `apply_migrations` in any number of processes, which die and
start again, while files are edited. `pc` and `at` are a runner's place, `loaded` the
files as it read them, `ledger` the committed rows of `dbo.schema_migrations`,
`applied` the file whose SQL made the objects of a migration. `Bootstrap` creates
database and ledger in autocommit mode, so two runners or two attempts may each do a
part; `Check` looks outside of a transaction, `Recheck`, `Execute`, `Record` and
`Commit` are one. What an open transaction holds follows from its runner's place
(`ObjectsHeld`, `RowHeld`): others wait for it, as SQL Server makes them wait at READ
COMMITTED, and the `PRIMARY KEY` and the existing objects make the loser fail.

## 3. Runs

| Run | Question | Bounds |
|---|---|---|
| `pipeline_one` | Do evidence, period, exits and questions stay consistent whatever is answered? Is established evidence ever taken back? Does each dialogue settle? | one thread, 4 articles (one never loaded into MS-SQL), two dates in two years, 3 rounds, depth 2, two questions, `top_k` 2 |
| `pipeline_two` | Do two threads implement the catalogue: one issue per topic, results that name it? | 2 threads, 2 topics, 2 articles, one date, one round |
| `llm_call` | Are budgets exact, repetitions justified, successes validated? | the limits of `core/config.py`: 2 and 4 |
| `graph_builds` | Do builders and loader implement the store of whole graphs, with no mixed extractions? Are marks stale only by an overlap? Is anything left unextracted, and does each build end? | 2 builders of an issue with 3 events and 2 representatives, one load per article |
| `graph_torn` | Are the ends of an edge among the nodes read? (violated) | 2 builders, one article |
| `page` | Do thread, loop, generator and reader implement the contract? Is each outcome heard? Does the page become usable again and show each outcome with the right advice? Do form, answers and counts stay one dialogue? | 2 requests, 2 topics, one stage, one question, an outcome for every way route and page treat one |
| `page_early_retry` | And in the dialogue that an early retry overlaps? (violated) | 4 requests, 2 topics, one question |
| `index_build` | Is the report of a build what the index is? Do index and table agree on all that was not skipped? Is a vector ever taken back? Does each build end? | 2 articles; 2 successive files out of 3, with duplicates within and across batches, an excluded row, a vanished article; batches of 2 and of 1; 2 attempts |
| `chat` | Is each symbol shown once, under the right source, however the text is cut? Does the history hold whole exchanges? Does each question end? | 2 exchanges, a first answer of up to 3 chunks, a second of one, 6 kinds of chunks, one tool, one tool call |
| `chat_unmarked` | Is a paragraph shown as taken from an article only if it is tagged so? (violated) | one answer of up to 3 chunks |
| `issue_page` | Does a result once given stay good? Do page, menu and exports speak of one issue? Is the menu freed again? | 2 exports, 2 issues and a number that is none, 2 changes of the address, a Notion page of 2 requests |
| `migrations` | Is the ledger the schema? Is the schema of a successful run that of its files? Does each run end? | 2 runners, 4 starts, bootstrap and 2 migrations, 2 edits |

Three rounds are the least in which a second round that converges, one that does
not, and the round limit are all different; depth 2 lets the depth limit come
before it. With four articles and `top_k` 2 a round can bring up old, new and
rejected articles together. Two years make the question about the period
possible. `MaxMerged` is one event per answer of P8: events are filtered one by
one, and a set of them adds nothing the properties tell apart.

Two builders are enough for every pair of transactions on an article; each serves
one request, and the second one finds an article unmarked, marked, marked and
unmarked again by a load, or being replaced. An extraction is empty or two entities
with a relation, the least that can be mixed or torn. One load makes old content,
and a second one would only make it older. A too short issue, at which a build ends
at once (`Opened`), is not among the instances; the theorems include it.

Two streams show that nothing of one reaches another; a stage and the outcome are the
least that can be swapped, and the theorems hold for any number of streams, stages and
outcomes. Two requests are a question with its answer, another topic or a retry. Four are
what it takes to send an answer that goes wrong (`page_early_retry`). A retry that
overlaps is among the behaviours of `page`; the dialogue after an overlapped one needs a
third request, and is in the theorems only. Of the
ten outcomes, those that route and page treat alike are represented by one.

Two articles and batches of two are the least in which a batch is full, is the rest
of a file, or loses a row to a duplicate; of the two attempts one can fail and the
other be carried out without an answer. Two files are a build and what a changed
file makes of it, any number of runs later.

Three chunks, the last of which may begin with the second half of a tag, are enough for
each way to cut the empty line and the tag behind it, and for a text on both sides of
it. A second exchange is the least in which a history travels: it is what an
answer without text makes the route refuse, and what the fallback may repeat.

Two exports are the least that can meet in one file or follow each other in one menu;
two changes of the address let the answer for the first arrive after the second one.
Two migrations let a runner be ahead of the other in one and behind in the next; with
four starts each runner can die and try again, and an edit can come before, between
and after its reading of the files.

The types of the modules and the inductive invariants are proved instead of run, where
a module has proofs: they are no questions about the code.

Fairness (`FairSpec`): a request thread keeps running, since every external call
has a timeout or raises; a user who was asked answers, unless the page is used for
another topic. Nothing is assumed of the answers. No fairness is assumed for
requests, failures or restarts. In KnowledgeGraph a builder's next step is taken if
it remains possible, which includes that SQL Server grants a free lock; weak
fairness is enough because nobody can take the lock of an article again without
finishing a whole extraction in between, and each builder has bounded requests.

For the streams: threads, the event loop, the generator and the reader keep running,
and a use case returns: an assumption here, which TimelinePipeline and KnowledgeGraph
bear out (`DialoguesSettle`, `BuildsEnd`). Nothing obliges a connection to break or the
process to stop. In GenerationPage the reader notices that the process is gone (the
socket is closed); a connection that dies in silence is excluded, since `fetch` has no time limit and the page would wait for ever.

In ChatAgent model and tools answer or raise, and what is sent is heard; no event has
to be a success. In IssuePage fairness is that of the limit alone: a session that has
waited 30 seconds gives up, a session that is left ends its process (the MCP library
terminates it), and a response arrives. The export itself owes nothing and may hang for
ever, which is why `ExportsEnd` shows that the limit is enough. In SchemaMigrations a
runner takes its next step when the database lets it; waiting for a lock is not such a
step, so `RunnersEnd` rules out that two runners wait for each other.

In VectorIndex a script that runs takes its next step, successful or not; kills and
starts are not obliged to happen. `BuildsEnd` thus needs no call to succeed.

Each property of a passing run has a mutant in `PROJECT.json`: an operator of the
module, named next to the one it replaces, under which TLC finds the property
violated.

## 4. Proofs

### TimelinePipelineProofs

`TimelinePipelineProofs.tla` proves for every number of threads, topics, articles
and dates and every value of the limits:

* `TypeCorrect`, and `Soundness`: the inductive invariant `Inductive`;
* from it `OneIssuePerTopic`, `ResultsRight`, `IssuesGrounded`,
  `EvidenceTraceable`, `NoArticleLost`, `CandidatesFiltered`, `PeriodRespected`,
  `LoopAlwaysHasReason`, `ConvergesExactly`, `QuestionsStayBounded`;
* `EvidenceMonotone`, an action property;
* `RejectedAfterSecondSearch`, which assumes two rounds or more (with one it is false)
  and adds to the invariant that behind P4 something is selected (`Judged`);
* `PipelineImplementsCatalogue`, the refinement.

The assumptions are `DataAssumption` (there is a topic and a date, articles have
dates) and `LimitAssumption` (the limits are positive, which `_positive_int` in
`core/config.py` enforces).

The properties are not inductive by themselves. That no article is lost needs to
know in which stages there are candidates; that the loop has a reason needs the
chain from `round < MaxRounds` after P6 to the next round, and that a round left
early has selected nothing new; `ConvergenceExact` needs that
`previous_selected_ids` and the selection at the start of the round agree also
when a round was left early (`SoundLoop`). The proof follows the code: each
operator that computes the next state of a run has a lemma about types, one about
soundness, one about what is visible from outside and one about growth; the
lemmas about actions combine them; the table needs two lemmas about appending a
row.

### LlmCallProofs

For all positive budgets (`BudgetAssumption`, enforced by `_positive_int`):
`CallSoundness`, `RequestsAreBounded`, `BudgetsAreExact`, `SecondCallJustified`,
`SuccessJustified`. The log does not determine the counters by itself, so the
invariant says that they count the 429 and 503 of the running adapter call
(`Counted`), that both are below their limits while a request may still be sent
(`Running`), and which of them is spent at the end (`Ended`). Appending an answer
changes one count by one or none: the lemmas on `Times`.

### KnowledgeGraphProofs

For any builders, articles, extractions and issues (`GraphAssumption`: relations
have their ends among the entities, "none" is no builder): `GraphInvariant`,
`RowsAlwaysWhole`, `StaleOnlyWhenOverlapped`, `FinishedExtracted`,
`ReplacementsAlone`, and the refinement `StoreImplementsCatalogue`. Four parts
make the properties inductive: where a builder is tells what it has read
(`Placed`), what it still has to extract is current or overlaid (`Current`), no
representative is forgotten (`Covered`), and locks and replacing builders belong
to each other (`Held`). The proof uses that the others keep their parts when an
article that is not theirs changes (`OthersKept`, `OthersHeld`), and that deleting
all there is makes an exchange of an addition (`ReplacedAll`).

### GenerationPageProofs

The streams. For any streams and outcomes (`StreamAssumption`): `StreamTypeCorrect`,
`StreamSoundness`, and from it `StreamsFaithful`, `EndsComplete` and
`StreamsImplementContract`. The invariant says where everything is: a stream is
`Idle`, `Relaying`, `Closing`, `Closed` or `Cut`, and in each phase the reader, the
wire, the queue and the ready list hold consecutive pieces of one sequence, the
stages followed by the completion. Each action moves one item over one boundary,
which is what the lemmas on `Append` and `Tail` of numbered runs are for.

The page. For any streams, topics and limits (`PageAssumption`), with retries at any
moment: `PageSoundness`, `FormDisabledExactly`, `AnswersStayWithTopic`,
`QuestionsNeverOvercounted`, `OutcomeShownExactly`; and `PageUsesStreams`, under which all
theorems on streams hold for the page. The properties need that in a dialogue without an
overlap an open stream is the last one, carries the topic shown and was told of no more
questions than the page has seen (`Current`), and the same of what the page could send
next (`Remembered`). A new topic ends an overlap only when no stream is open, which is
what makes both hold again from there on; in an overlapped dialogue nothing of the kind
is left but `PendingExact`'s first half and that what can be sent again was sent once
(`Started`). That a page at rest shows the outcome of its last request needs, for each
phase of that request, what has been told and shown by then (`Reflected`), and from the
streams that one which ended or was told an outcome was told exactly one.
`page_early_retry` shows that `AnswersStayInDialogue` is false of overlapped dialogues.

### VectorIndexProofs

For any articles, files, batch sizes and numbers of attempts
(`IngestionAssumption`; the positive ones are enforced by the scripts):
`TypeCorrect`, `IngestionSoundness`, and from the invariant `ReportsExact`,
`IndexAndTableAgree` and `DenseIsKept`. The invariant says of a running build what
its place in the file means: each article met so far is stored or still pending, and
without a fallback it has its dense vector (`BuildStores`); of a forced build, that it
skips nothing (`BuildForced`); of any build, that the index and the batch at hand hold the
last row of each article read, except of the skipped ones (`LatestKept` in `BuildLatest`);
of the unforced ones, that what is pending has no dense vector, except for one this very
batch has stored before its answer was lost (`BuildResumed`). The loader has the same of
the table without an exception (`LoadInv`). Below these, the rows of a store are rows of
the articles they are stored under (`RowsOwned`), and a dense vector is of the row its
point is of (`PointsWhole`); this is why two complete runs over a file without duplicates
agree although one of them may have skipped what was there.

### IssuePageProofs

For any calls, issues, sizes of a Notion page and numbers of visits
(`ExportAssumption`, `VisitAssumption`): `Invariance`, `OkResultsHold` and `PageAgrees`.
That an answer "ok" holds needs that the process of its call is over and that no later
step of any other call takes a whole file away (`CallFits`): a file is only ever replaced
by a whole one. That the menu agrees with the page needs that it remembers
something only while the page shows an issue, and only calls that were made, since
those keep their request (`MenuFits`). The exports have lemmas of their own; the page
then uses two facts of them, `ExportInv` and `CallsGoOn`.

### SchemaMigrationsProofs

For any runners, migrations, checksums, starts and edits (`MigrationAssumption`):
`Invariance`, `LedgerAlwaysExact` and `DoneIsCurrent`. The ledger is exact because of
what an open transaction knows: every migration behind its runner is recorded with the
checksum this runner read (`Behind`), nobody has forestalled it in its own
(`Ahead`), and no two transactions hold the same objects or row (`Exclusive`). A step
changes one runner, so the proof states the invariant of one runner (`Fit`) and of two
(`Apart`) as predicates of their values.

### ChatAgentProofs

For any questions, chunks, tools and bounds (`ChatAssumption`: chunks are texts that are
not empty, and bounds are numbers): `ConversationHolds`, `ConversationTyped`,
`AnswersFollowTags` and `HistoryIsWhole`. The module is built from the bottom up.

* Induction. `LeastElement` follows from the library's well-foundedness of the natural
  numbers, and `Induction` and `CompleteInduction` from it, stated for the set of numbers
  for which something holds: that way first-order provers can use them.
* Recursion. A recursive function is the `CHOOSE` of a function that solves its equation,
  so nothing is known of it before one is shown to exist. For `FlattenSeq` it is built
  along the sequence (`FlattensExists`), for `Split` along the length of the buffer:
  `SplitBy` asks for shorter buffers only (`SplitByLocal`), there is a solution below
  each length (`SplitsExist`), and all of them agree (`SplitsAgree`), hence
  `SplitEquation`.
* Texts. What a text reads up to a place (`Read`) grows by a plain piece (`ReadPlain`) or a
  tag with the blanks behind it (`ReadTag`); tags do not overlap (`TagsApart`); where no
  tag can begin any more, more text changes nothing (`ReadOn`).
* The parser. `Follows(w, p, sent)` says that a parser `p` which has sent `sent` has
  been fed `w`: either `w` may still begin with a tag and nothing was sent, or `sent`
  is what `w` reads up to a place behind which the buffer lies, under the source in
  force there, and no tag has begun before that place and goes on behind it. A new parser
  follows the empty text (`NewFollows`), `Feed` keeps it following (`FeedFollows`), and
  what `Flush` adds completes the reading (`FlushFollows`); so however a text is cut into
  chunks, the same is shown of it.
* The conversation. `ConversationInv` has three parts: the types (`Typed`), the parser
  following what a streaming model has said (`Parsing`), and the panel with the wire
  holding all of what was sent, with no event that contradicts the agent's state
  (`Delivered`). `AnswerFollowsTags` is a consequence; `HistoryHoldsExchanges` needs
  that the wire is empty at the end of a response, so that what is shown is what was sent.

### Model-checked only

The liveness properties: TLAPS does not handle fairness. Each safety invariant, action
property and refinement that a passing run checks is a theorem.

Some theorems state properties that no run checks any more because a refinement or a
stronger property implies them on the instances (`OneIssuePerTopic`, `ResultsRight`,
`RequestsAreBounded`, `RowsAlwaysWhole`, `ReplacementsAlone`, `StreamsFaithful`,
`EndsComplete`); they are proved for every value of the constants.

## 5. Findings

Each is a run that TLC ends with a counterexample; the quoted lines are in
`PROJECT.json`.

* `graph_torn`: `get_article_graph` reads nodes and edges in two statements under
  READ COMMITTED; a replacement in between leaves edges without their ends.
* `page_early_retry`: a retry before the end of the failed response frees the form
  under the retried request; a question about one topic can then be answered in the
  name of another.
* `chat_unmarked`: a paragraph without a tag behind an ARTICLE paragraph keeps the source
  "article"; `docs/ai/specification.md:330` has it treated as general.
  The property fails also where a message behind a tool call opens with a tag and the text
  before does not end in an empty line: the tag is shown literally and its paragraph keeps
  the source before; `docs/ai/specification.md:328-329` has the tag removed. (The trace
  TLC prints is the shorter one without a tag. With whole tagged paragraphs for `MCChunks`,
  `{"A:x", "G:x"}`, it is that of two messages.)

Seen while modelling, without a run of their own: the graph builder gives up on the
first general failure of the model (`app/graph.py:144`), which EX-03
(`docs/REQUIREMENTS.md:138`) has retried once; two openings of one graph both extract an
article (`app/graph.py:77`) that `docs/ai/specification.md:61` says is extracted only
once; an answer that completes without text is kept as an empty message, with which the
server refuses every later question of the panel (`ChatPanel.vue:111`, ChatAgent above);
the bootstrap script of an edited `000` file runs before its checksum is refused
(`db/migrate.py:124`).

Two limits of what is checked come from the code as well:
with `TIMELINE_MAX_ROUNDS=1`, which `docs/requirements/timeline.md:61-63` allows, a
topic without selected articles is refused after the first round, so that
`RejectedAllAfterNextSearch` is about two rounds or more; and a retry after a
connection that broke behind a question repeats the old `clarification_count`, so
that `NeverOvercounted` is not an equality and a user may be asked once more.

## 6. Not modelled

* Rank fusion, the choice of a representative and the search queries
  (`core/ranking.py`, `app/search.py`): pure functions without state; the pipeline and
  the graph builder are checked under every answer they could give.
* The read-only tools, lists and routes: they relate no two pieces of state.
* The issue tables row by row: `save_issue` is one transaction, so TimelinePipeline keeps
  an issue as one record.
* KnowledgeGraphPanel, ArticleDetail and the selection of events on the issue page; the
  stream the graph panel reads is EventStream's.
* Two index builders at once, which no document provides for; a silent loss of a
  connection (`fetch` has no time limit, `web/src/api/client.ts:78`); leaving the list
  page during a generation.
* Wiring, health probes, smoke tests, benchmarks and the documentation harness:
  straight-line code without shared state.

## 7. Plan

What is worth adding next, in this order: KnowledgeGraphPanel over EventStream; rank fusion and search against a reference definition.
