---------------------------- MODULE VectorIndex ----------------------------
(***************************************************************************)
(* The two scripts that turn the source file into the article table        *)
(* (scripts/02_load_mssql.py) and the search index                         *)
(* (scripts/03_build_vectors.py, infra/qdrant.py).  Both read the file row *)
(* by row through scripts/raw_ingestion.py and work in batches keyed by    *)
(* article id.  The index builder retries each of its calls and skips      *)
(* articles that have a dense vector unless it is forced; either script    *)
(* can die anywhere, and the file can be exchanged between two runs.       *)
(*                                                                         *)
(* Every row is content of its own: an article's version is the file it    *)
(* comes from and its row there.                                           *)
(***************************************************************************)
EXTENDS Naturals, Sequences, FiniteSets

CONSTANTS
  Ids,            \* article ids
  Bad,            \* a row that iter_valid_articles leaves out
  Sources,        \* the contents the source file may have
  BatchSize,      \* --batch-size of 03_build_vectors
  LoadBatchSize,  \* --batch-size of 02_load_mssql
  MaxAttempts,    \* RetryPolicy.max_attempts
  MaxGen          \* bound: how many source files there are

ASSUME IngestionAssumption ==
  /\ IsFiniteSet(Ids)
  /\ Bad \notin Ids
  /\ Sources \subseteq Seq(Ids \cup {Bad})
  /\ BatchSize \in Nat \ {0}
  /\ LoadBatchSize \in Nat \ {0}
  /\ MaxAttempts \in Nat \ {0}
  /\ MaxGen \in Nat \ {0}

VARIABLES
  source, gen,                                 \* the file, and which one it is
  collection, payload, dense,                  \* the collection of Qdrant
  table,                                       \* dbo.articles
  bpc, mode, bpos, batch, pending, embedded,   \* the run of 03_build_vectors
  attempt, seen, skipped, sparseOnly,
  lpc, lpos, lbatch                            \* the run of 02_load_mssql

\* `skipped` are the articles behind the report's skipped_dense_count.
indexVars == <<collection, payload, dense>>
buildVars ==
  <<bpc, mode, bpos, batch, pending, embedded, attempt, seen, skipped, sparseOnly>>
loadVars == <<lpc, lpos, lbatch>>
vars == <<source, gen, indexVars, table, buildVars, loadVars>>

Modes == {"resume", "force", "sparse"}

\* The ends of a run: exit codes 0, 2 and 3, an exception, a kill.
BuildOver == {"none", "complete", "partial", "quota", "failed", "killed"}
LoadOver == {"none", "done", "failed"}

Versions == [file : Nat, row : Nat]

\* Files and rows are counted from 1.
NoVersion == [file |-> 0, row |-> 0]

\* What is in row p of the present file.
Row(p) == [file |-> gen, row |-> p]

SourceIds == {source[p] : p \in DOMAIN source} \ {Bad}

PointIds == {i \in Ids : payload[i] # NoVersion}

EmptyBatch == [i \in Ids |-> 0]

InBatch(b) == {i \in Ids : b[i] # 0}

TypeOK ==
  /\ source \in Seq(Ids \cup {Bad})
  /\ gen \in 1..MaxGen
  /\ collection \in BOOLEAN
  /\ payload \in [Ids -> Versions]
  /\ dense \in [Ids -> Versions]
  /\ table \in [Ids -> Versions]
  /\ bpc \in BuildOver \cup {"ensure", "read", "batch", "lookup", "embed", "upsert", "verify"}
  /\ mode \in Modes
  /\ bpos \in Nat
  /\ batch \in [Ids -> Nat]
  /\ pending \in SUBSET Ids
  /\ embedded \in BOOLEAN
  /\ attempt \in 1..MaxAttempts
  /\ seen \in SUBSET Ids
  /\ skipped \in SUBSET Ids
  /\ sparseOnly \in Nat
  /\ lpc \in LoadOver \cup {"read", "commit"}
  /\ lpos \in Nat
  /\ lbatch \in [Ids -> Nat]

Init ==
  /\ source \in Sources
  /\ gen = 1
  /\ collection = FALSE
  /\ payload = [i \in Ids |-> NoVersion]
  /\ dense = [i \in Ids |-> NoVersion]
  /\ table = [i \in Ids |-> NoVersion]
  /\ bpc = "none"
  /\ mode = "resume"
  /\ bpos = 0
  /\ batch = EmptyBatch
  /\ pending = {}
  /\ embedded = FALSE
  /\ attempt = 1
  /\ seen = {}
  /\ skipped = {}
  /\ sparseOnly = 0
  /\ lpc = "none"
  /\ lpos = 0
  /\ lbatch = EmptyBatch

-----------------------------------------------------------------------------
(* The index builder.                                                      *)

\* main: with --force, with --sparse-only or with neither, never with both.
StartBuild(m) ==
  /\ bpc \in BuildOver
  /\ bpc' = "ensure"
  /\ mode' = m
  /\ bpos' = 0
  /\ batch' = EmptyBatch
  /\ pending' = {}
  /\ embedded' = FALSE
  /\ attempt' = 1
  /\ seen' = {}
  /\ skipped' = {}
  /\ sparseOnly' = 0
  /\ UNCHANGED <<source, gen, indexVars, table, loadVars>>

\* Mutant of RetryOrRaise: after the last attempt the attempts are counted anew.
RetryForever ==
  /\ bpc' = bpc
  /\ attempt' = IF attempt < MaxAttempts THEN attempt + 1 ELSE 1

\* _retry: the call is repeated until the last attempt, which raises.
RetryOrRaise ==
  IF attempt < MaxAttempts
  THEN bpc' = bpc /\ attempt' = attempt + 1
  ELSE bpc' = "failed" /\ attempt' = attempt

\* _retry returns.
Proceed(stage) ==
  /\ bpc' = stage
  /\ attempt' = 1

EnsureCollection ==
  /\ bpc = "ensure"
  /\ collection' = TRUE
  /\ Proceed("read")
  /\ UNCHANGED <<source, gen, payload, dense, table, loadVars,
                 mode, bpos, batch, pending, embedded, seen, skipped, sparseOnly>>

\* Qdrant is out of reach or the collection has another shape; or the collection
\* is created and the answer is lost.
EnsureFails ==
  /\ bpc = "ensure"
  /\ collection' \in {collection, TRUE}
  /\ RetryOrRaise
  /\ UNCHANGED <<source, gen, payload, dense, table, loadVars,
                 mode, bpos, batch, pending, embedded, seen, skipped, sparseOnly>>

\* Mutant of Batched: the first row of a batch wins.
BatchedFirst(b, p) ==
  [b EXCEPT ![source[p]] = IF b[source[p]] = 0 THEN p ELSE b[source[p]]]

\* _batches: a batch is keyed by id and keeps the last row of each.
Batched(b, p) == [b EXCEPT ![source[p]] = p]

\* iter_valid_articles and _batches: the next row, and whether the batch is full.
ReadRow ==
  /\ bpc = "read"
  /\ bpos < Len(source)
  /\ bpos' = bpos + 1
  /\ IF source[bpos + 1] = Bad
     THEN UNCHANGED <<batch, bpc>>
     ELSE /\ batch' = Batched(batch, bpos + 1)
          /\ bpc' = IF Cardinality(InBatch(batch')) >= BatchSize THEN "batch" ELSE "read"
  /\ UNCHANGED <<source, gen, indexVars, table, loadVars,
                 mode, pending, embedded, attempt, seen, skipped, sparseOnly>>

\* The file ends; what has been collected is the last batch.
EndOfSource ==
  /\ bpc = "read"
  /\ bpos = Len(source)
  /\ bpc' = IF InBatch(batch) = {} THEN "verify" ELSE "batch"
  /\ UNCHANGED <<source, gen, indexVars, table, loadVars,
                 mode, bpos, batch, pending, embedded, attempt, seen, skipped, sparseOnly>>

\* A forced run does not ask what is in the index.
BeginBatch ==
  /\ bpc = "batch"
  /\ seen' = seen \cup InBatch(batch)
  /\ pending' = InBatch(batch)
  /\ bpc' = IF mode = "force" THEN "embed" ELSE "lookup"
  /\ UNCHANGED <<source, gen, indexVars, table, loadVars,
                 mode, bpos, batch, embedded, attempt, skipped, sparseOnly>>

\* Mutant of Missing: what the index has is not looked at.
MissingAll == InBatch(batch)

\* dense_point_ids: the articles of the batch without a dense vector.
Missing == {i \in InBatch(batch) : dense[i] = NoVersion}

LookUp ==
  /\ bpc = "lookup"
  /\ pending' = Missing
  /\ skipped' = skipped \cup (InBatch(batch) \ Missing)
  /\ \/ /\ Missing = {}
        /\ Proceed("read")
        /\ batch' = EmptyBatch
        /\ UNCHANGED <<embedded, sparseOnly>>
     \/ /\ Missing # {}
        /\ mode = "sparse"
        /\ Proceed("upsert")
        /\ embedded' = FALSE
        /\ sparseOnly' = sparseOnly + Cardinality(Missing)
        /\ UNCHANGED batch
     \/ /\ Missing # {}
        /\ mode # "sparse"
        /\ Proceed("embed")
        /\ UNCHANGED <<batch, embedded, sparseOnly>>
  /\ UNCHANGED <<source, gen, indexVars, table, loadVars, mode, bpos, seen>>

\* dense_point_ids or all_point_ids fails.
ReadFails ==
  /\ bpc \in {"lookup", "verify"}
  /\ RetryOrRaise
  /\ UNCHANGED <<source, gen, indexVars, table, loadVars,
                 mode, bpos, batch, pending, embedded, seen, skipped, sparseOnly>>

Embed ==
  /\ bpc = "embed"
  /\ embedded' = TRUE
  /\ Proceed("upsert")
  /\ UNCHANGED <<source, gen, indexVars, table, loadVars,
                 mode, bpos, batch, pending, seen, skipped, sparseOnly>>

EmbedFails ==
  /\ bpc = "embed"
  /\ attempt < MaxAttempts
  /\ RetryOrRaise
  /\ UNCHANGED <<source, gen, indexVars, table, loadVars,
                 mode, bpos, batch, pending, embedded, seen, skipped, sparseOnly>>

\* Mutant of EmbedFailsFinally: the fallback is not counted.
EmbedFailsUncounted ==
  /\ bpc = "embed"
  /\ attempt = MaxAttempts
  /\ embedded' = FALSE
  /\ Proceed("upsert")
  /\ UNCHANGED <<source, gen, indexVars, table, loadVars,
                 mode, bpos, batch, pending, seen, skipped, sparseOnly>>

\* The last attempt fails: the batch is stored for BM25 only.
EmbedFailsFinally ==
  /\ bpc = "embed"
  /\ attempt = MaxAttempts
  /\ embedded' = FALSE
  /\ sparseOnly' = sparseOnly + Cardinality(pending)
  /\ Proceed("upsert")
  /\ UNCHANGED <<source, gen, indexVars, table, loadVars,
                 mode, bpos, batch, pending, seen, skipped>>

\* DailyEmbeddingQuotaExhaustedError: no fallback, no retry.
QuotaExhausted ==
  /\ bpc = "embed"
  /\ bpc' = "quota"
  /\ UNCHANGED <<source, gen, indexVars, table, loadVars,
                 mode, bpos, batch, pending, embedded, attempt, seen, skipped, sparseOnly>>

\* upsert replaces whole points: without a new dense vector there is none.
StorePending ==
  /\ payload' = [i \in Ids |-> IF i \in pending THEN Row(batch[i]) ELSE payload[i]]
  /\ dense' = [i \in Ids |->
       IF i \notin pending THEN dense[i] ELSE IF embedded THEN Row(batch[i]) ELSE NoVersion]

Upsert ==
  /\ bpc = "upsert"
  /\ StorePending
  /\ Proceed("read")
  /\ batch' = EmptyBatch
  /\ pending' = {}
  /\ UNCHANGED <<source, gen, collection, table, loadVars,
                 mode, bpos, embedded, seen, skipped, sparseOnly>>

\* The request fails, or it is carried out and its answer is lost.
UpsertFails ==
  /\ bpc = "upsert"
  /\ StorePending \/ UNCHANGED <<payload, dense>>
  /\ RetryOrRaise
  /\ UNCHANGED <<source, gen, collection, table, loadVars,
                 mode, bpos, batch, pending, embedded, seen, skipped, sparseOnly>>

\* all_point_ids, and the report of the run.
Verify ==
  /\ bpc = "verify"
  /\ bpc' = IF sparseOnly = 0 /\ seen \ PointIds = {} /\ PointIds \ seen = {}
            THEN "complete" ELSE "partial"
  /\ UNCHANGED <<source, gen, indexVars, table, loadVars,
                 mode, bpos, batch, pending, embedded, attempt, seen, skipped, sparseOnly>>

KillBuild ==
  /\ bpc \notin BuildOver
  /\ bpc' = "killed"
  /\ UNCHANGED <<source, gen, indexVars, table, loadVars,
                 mode, bpos, batch, pending, embedded, attempt, seen, skipped, sparseOnly>>

-----------------------------------------------------------------------------
(* The table loader.                                                       *)

StartLoad ==
  /\ lpc \in LoadOver
  /\ lpc' = "read"
  /\ lpos' = 0
  /\ lbatch' = EmptyBatch
  /\ UNCHANGED <<source, gen, indexVars, table, buildVars>>

LoadRow ==
  /\ lpc = "read"
  /\ lpos < Len(source)
  /\ lpos' = lpos + 1
  /\ IF source[lpos + 1] = Bad
     THEN UNCHANGED <<lbatch, lpc>>
     ELSE /\ lbatch' = Batched(lbatch, lpos + 1)
          /\ lpc' = IF Cardinality(InBatch(lbatch')) >= LoadBatchSize THEN "commit" ELSE "read"
  /\ UNCHANGED <<source, gen, indexVars, table, buildVars>>

LoadEnds ==
  /\ lpc = "read"
  /\ lpos = Len(source)
  /\ lpc' = IF InBatch(lbatch) = {} THEN "done" ELSE "commit"
  /\ UNCHANGED <<source, gen, indexVars, table, buildVars, lpos, lbatch>>

\* upsert_articles: one transaction for the batch.
MergeRows ==
  table' = [i \in Ids |-> IF lbatch[i] # 0 THEN Row(lbatch[i]) ELSE table[i]]

CommitLoad ==
  /\ lpc = "commit"
  /\ MergeRows
  /\ lpc' = "read"
  /\ lbatch' = EmptyBatch
  /\ UNCHANGED <<source, gen, indexVars, buildVars, lpos>>

\* The loader retries nothing; a kill ends it as an exception does, and either
\* may come after the transaction was committed.
LoadFails ==
  /\ lpc \notin LoadOver
  /\ lpc' = "failed"
  /\ (lpc = "commit" /\ MergeRows) \/ UNCHANGED table
  /\ UNCHANGED <<source, gen, indexVars, buildVars, lpos, lbatch>>

-----------------------------------------------------------------------------
\* The source file is exchanged while no script reads it; earlier results are
\* about an earlier file.
NewSource(s) ==
  /\ gen < MaxGen
  /\ bpc \in BuildOver
  /\ lpc \in LoadOver
  /\ source' = s
  /\ gen' = gen + 1
  /\ bpc' = "none"
  /\ lpc' = "none"
  /\ UNCHANGED <<indexVars, table, mode, bpos, batch, pending, embedded, attempt, seen,
                 skipped, sparseOnly, lpos, lbatch>>

BuildStep ==
  \/ EnsureCollection \/ EnsureFails
  \/ ReadRow \/ EndOfSource \/ BeginBatch
  \/ LookUp \/ ReadFails
  \/ Embed \/ EmbedFails \/ EmbedFailsFinally \/ QuotaExhausted
  \/ Upsert \/ UpsertFails
  \/ Verify

LoadStep == LoadRow \/ LoadEnds \/ CommitLoad

Next ==
  \/ \E m \in Modes : StartBuild(m)
  \/ BuildStep
  \/ KillBuild
  \/ StartLoad
  \/ LoadStep
  \/ LoadFails
  \/ \E s \in Sources : NewSource(s)

Spec == Init /\ [][Next]_vars

\* A process that runs takes its next step.
FairSpec == Spec /\ WF_vars(BuildStep) /\ WF_vars(LoadStep)

-----------------------------------------------------------------------------
\* The report of a run is what the index is (build_vector_index, lines 303-319,
\* complete): after "complete" the index has exactly the articles of the source,
\* each with a dense vector of the row it was stored from; "partial" has a reason
\* in this run or in an earlier file, and a missing article is never one.
ReportExact ==
  /\ bpc = "complete" =>
       /\ PointIds = SourceIds
       /\ \A i \in SourceIds : dense[i] = payload[i]
  /\ bpc = "partial" => sparseOnly > 0 \/ PointIds \ SourceIds # {}

\* Unless a run is forced, an article that has its dense vector keeps it and what
\* was stored with it, whatever fails, is retried after it was carried out, or is
\* repeated in the file (build_vector_index, lines 241-253).
ResumeKeepsDense ==
  [][\A i \in Ids : mode # "force" /\ dense[i] # NoVersion =>
       dense'[i] = dense[i] /\ payload'[i] = payload[i]]_vars

\* No article is twice in the file, and the index was made from this file alone.
BuiltAfresh ==
  /\ \A p, q \in DOMAIN source : source[p] = source[q] /\ source[p] # Bad => p = q
  /\ \A i \in Ids : payload[i] = NoVersion \/ payload[i].file = gen

\* After a complete load and a complete build, in whatever order and after whatever
\* interruptions, the index filters and ranks an article by the very row the table
\* shows of it.  It may lag behind only in an article that the run counts as skipped:
\* never behind --force, the remedy docs/data/source-and-ingestion.md:223-224 names,
\* and never in an index built afresh (load_raw_articles, build_vector_index 229-300).
IndexAgreesWithTable ==
  bpc = "complete" /\ lpc = "done" =>
    \A i \in SourceIds :
      payload[i] = table[i] \/ (i \in skipped /\ mode # "force" /\ ~ BuiltAfresh)

\* Every run of the builder ends, however its calls fail (_retry).
BuildsEnd == bpc \notin BuildOver ~> bpc \in BuildOver
=============================================================================
