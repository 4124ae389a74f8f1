-------------------------- MODULE VectorIndexProofs --------------------------
(***************************************************************************)
(* What is proved of VectorIndex, for any articles, source files, batch    *)
(* sizes and numbers of attempts.                                          *)
(***************************************************************************)
EXTENDS VectorIndex, FiniteSetTheorems, TLAPS

\* Only rows of the present file carry its number, each for its own article.
RowsOwned(f) ==
  \A i \in Ids :
    /\ f[i].file <= gen
    /\ f[i].file = gen => f[i].row \in DOMAIN source /\ source[f[i].row] = i

\* A batch holds, of the articles in it, the last of the rows read.
BatchRows(b, pos) ==
  \A i \in Ids : b[i] # 0 => b[i] <= pos /\ source[b[i]] = i

\* Unless the article was skipped, what has been read of it is in the batch, or it, or
\* a later row, has been stored.
LatestKept(f, b, pos, X) ==
  \A p \in 1..pos : source[p] # Bad =>
    \/ source[p] \in X
    \/ b[source[p]] >= p
    \/ b[source[p]] = 0 /\ f[source[p]].file = gen /\ f[source[p]].row >= p

AllLatest(f, X) ==
  \A p \in DOMAIN source : source[p] # Bad =>
    \/ source[p] \in X
    \/ f[source[p]].file = gen /\ f[source[p]].row >= p

\* A point's dense vector is of the row that its payload is from.
PointsWhole == \A i \in Ids : dense[i] = NoVersion \/ dense[i] = payload[i]

InHand == {"lookup", "embed", "upsert"}

BuildReads ==
  /\ bpos <= Len(source)
  /\ BatchRows(batch, bpos)
  /\ seen \subseteq SourceIds
  /\ \A p \in 1..bpos : source[p] # Bad => source[p] \in seen \cup InBatch(batch)

BuildPends ==
  /\ bpc \in {"ensure", "verify"} => InBatch(batch) = {}
  /\ bpc = "verify" => bpos = Len(source)
  /\ bpc \in {"batch"} \cup InHand => InBatch(batch) # {}
  /\ bpc \notin InHand => pending = {}
  /\ bpc \in InHand => pending # {} /\ pending \subseteq InBatch(batch) /\ InBatch(batch) \subseteq seen

BuildStores ==
  /\ \A i \in seen \ pending : payload[i] # NoVersion /\ (sparseOnly = 0 => dense[i] # NoVersion)
  /\ bpc = "upsert" /\ ~embedded => sparseOnly > 0

BuildForced == mode = "force" => bpc # "lookup" /\ skipped = {}

BuildLatest ==
  /\ bpc \in InHand => InBatch(batch) \subseteq pending \cup skipped
  /\ LatestKept(payload, batch, bpos, skipped)

BuildResumed ==
  mode # "force" /\ bpc \in {"embed", "upsert"} =>
    \A i \in pending :
      \/ dense[i] = NoVersion
      \/ bpc = "upsert" /\ embedded /\ dense[i] = Row(batch[i]) /\ payload[i] = Row(batch[i])

BuildInv ==
  bpc \notin BuildOver =>
    /\ BuildReads /\ BuildPends /\ BuildStores
    /\ BuildForced /\ BuildLatest /\ BuildResumed

ReportInv ==
  /\ ReportExact
  /\ bpc = "complete" =>
       AllLatest(payload, skipped) /\ (mode = "force" => skipped = {})

LoadInv ==
  /\ lpc \notin LoadOver =>
       /\ lpos <= Len(source)
       /\ BatchRows(lbatch, lpos)
       /\ LatestKept(table, lbatch, lpos, {})
       /\ lpc = "commit" => InBatch(lbatch) # {}
  /\ lpc = "done" => AllLatest(table, {})

Inductive ==
  /\ TypeOK
  /\ RowsOwned(payload)
  /\ RowsOwned(table)
  /\ PointsWhole
  /\ BuildInv
  /\ ReportInv
  /\ LoadInv

-----------------------------------------------------------------------------
(* Facts about the operators.                                              *)

\* A source is a sequence of ids and bad rows.
LEMMA SourceRows ==
  ASSUME TypeOK
  PROVE  /\ Len(source) \in Nat
         /\ DOMAIN source = 1..Len(source)
         /\ \A p \in 1..Len(source) : source[p] \in Ids \cup {Bad}
  BY DEF TypeOK

\* The number of articles of a set is a number, and positive if there is one.
LEMMA CountPositive ==
  ASSUME NEW S \in SUBSET Ids
  PROVE  /\ Cardinality(S) \in Nat
         /\ S # {} => Cardinality(S) > 0
<1>1. IsFiniteSet(S)
  BY IngestionAssumption, FS_Subset
<1>2. Cardinality(S) \in Nat
  BY <1>1, FS_CardinalityType
<1>3. S # {} => Cardinality(S) # 0
  BY <1>1, FS_EmptySet
<1> QED
  BY <1>2, <1>3

\* Taking a row into a batch.
LEMMA BatchedTakes ==
  ASSUME NEW b \in [Ids -> Nat], NEW p \in Nat, source[p] \in Ids
  PROVE  /\ Batched(b, p) \in [Ids -> Nat]
         /\ Batched(b, p)[source[p]] = p
         /\ \A i \in Ids : i # source[p] => Batched(b, p)[i] = b[i]
  BY DEF Batched

\* The next row keeps a batch exact.
LEMMA BatchGrows ==
  ASSUME TypeOK, NEW f \in [Ids -> Versions], NEW b \in [Ids -> Nat], NEW pos \in Nat, NEW X,
         pos < Len(source), source[pos + 1] # Bad, BatchRows(b, pos),
         LatestKept(f, b, pos, X)
  PROVE  /\ BatchRows(Batched(b, pos + 1), pos + 1)
         /\ LatestKept(f, Batched(b, pos + 1), pos + 1, X)
<1> DEFINE n == Batched(b, pos + 1)
<1>1. source[pos + 1] \in Ids
  BY SourceRows
<1>2. /\ n \in [Ids -> Nat]
      /\ n[source[pos + 1]] = pos + 1
      /\ \A i \in Ids : i # source[pos + 1] => n[i] = b[i]
  BY <1>1, BatchedTakes
<1> HIDE DEF n
<1>3. BatchRows(n, pos + 1)
  BY <1>2 DEF BatchRows
<1>4. ASSUME NEW p \in 1..(pos + 1), source[p] # Bad
      PROVE  \/ source[p] \in X
             \/ n[source[p]] >= p
             \/ n[source[p]] = 0 /\ f[source[p]].file = gen /\ f[source[p]].row >= p
  <2>1. CASE source[p] = source[pos + 1]
    BY <2>1, <1>2
  <2>2. CASE source[p] # source[pos + 1]
    <3>1. p \in 1..pos /\ source[p] \in Ids
      BY <2>2, <1>4, SourceRows
    <3> QED
      BY <3>1, <2>2, <1>2, <1>4 DEF LatestKept
  <2> QED
    BY <2>1, <2>2
<1> QED
  BY <1>3, <1>4 DEF LatestKept, n

\* A bad row changes nothing.
LEMMA BadSkipped ==
  ASSUME TypeOK, NEW f \in [Ids -> Versions], NEW b \in [Ids -> Nat], NEW pos \in Nat, NEW X,
         source[pos + 1] = Bad, BatchRows(b, pos), LatestKept(f, b, pos, X)
  PROVE  BatchRows(b, pos + 1) /\ LatestKept(f, b, pos + 1, X)
<1>1. BatchRows(b, pos + 1)
  BY DEF BatchRows
<1>2. \A p \in 1..(pos + 1) : source[p] # Bad => p \in 1..pos
  OBVIOUS
<1> QED
  BY <1>1, <1>2 DEF LatestKept

\* Storing what is not skipped of a batch keeps what is latest.
LEMMA BatchStored ==
  ASSUME TypeOK, NEW f \in [Ids -> Versions], NEW b \in [Ids -> Nat], NEW pos \in Nat, NEW X,
         pos <= Len(source), LatestKept(f, b, pos, X),
         NEW S, InBatch(b) \subseteq S \cup X, S \subseteq InBatch(b),
         NEW g, g = [i \in Ids |-> IF i \in S THEN Row(b[i]) ELSE f[i]]
  PROVE  LatestKept(g, EmptyBatch, pos, X) /\ LatestKept(g, b, pos, X)
<1> SUFFICES ASSUME NEW p \in 1..pos, source[p] # Bad, source[p] \notin X
             PROVE  /\ EmptyBatch[source[p]] = 0
                    /\ g[source[p]].file = gen
                    /\ g[source[p]].row >= p
                    /\ b[source[p]] >= p \/ b[source[p]] = 0
  BY DEF LatestKept
<1>1. source[p] \in Ids
  BY SourceRows
<1>2. \/ b[source[p]] >= p
      \/ b[source[p]] = 0 /\ f[source[p]].file = gen /\ f[source[p]].row >= p
  BY DEF LatestKept
<1>3. b[source[p]] \in Nat
  BY <1>1
<1>4. CASE b[source[p]] >= p
  <2>1. source[p] \in S
    BY <1>1, <1>3, <1>4 DEF InBatch
  <2> QED
    BY <1>1, <1>3, <1>4, <2>1 DEF Row, EmptyBatch
<1>5. CASE b[source[p]] = 0 /\ f[source[p]].file = gen /\ f[source[p]].row >= p
  <2>1. source[p] \notin S
    BY <1>5 DEF InBatch
  <2> QED
    BY <1>1, <1>3, <1>5, <2>1 DEF EmptyBatch
<1> QED
  BY <1>2, <1>4, <1>5

\* When everything has been read and nothing is left in the batch, all is stored.
LEMMA LatestAtEnd ==
  ASSUME TypeOK, NEW f \in [Ids -> Versions], NEW b \in [Ids -> Nat], NEW X,
         LatestKept(f, b, Len(source), X), InBatch(b) = {}
  PROVE  AllLatest(f, X)
<1> SUFFICES ASSUME NEW p \in 1..Len(source), source[p] # Bad, source[p] \notin X
             PROVE  f[source[p]].file = gen /\ f[source[p]].row >= p
  BY SourceRows DEF AllLatest
<1>1. source[p] \in Ids
  BY SourceRows
<1>2. b[source[p]] = 0
  BY <1>1 DEF InBatch
<1> QED
  BY <1>2 DEF LatestKept

\* Rows put where a batch says are rows of their articles.
LEMMA StoredOwned ==
  ASSUME TypeOK, NEW f \in [Ids -> Versions], NEW b \in [Ids -> Nat], NEW pos \in Nat,
         pos <= Len(source), BatchRows(b, pos), RowsOwned(f),
         NEW S \in SUBSET InBatch(b),
         NEW g, g = [i \in Ids |-> IF i \in S THEN Row(b[i]) ELSE f[i]]
  PROVE  g \in [Ids -> Versions] /\ RowsOwned(g)
<1>0. gen \in Nat
  BY IngestionAssumption DEF TypeOK
<1>1. ASSUME NEW i \in Ids
      PROVE  /\ g[i] \in Versions
             /\ g[i].file <= gen
             /\ g[i].file = gen => g[i].row \in DOMAIN source /\ source[g[i].row] = i
  <2>1. CASE i \in S
    <3>1. b[i] \in 1..Len(source) /\ source[b[i]] = i
      BY <2>1, SourceRows DEF BatchRows, InBatch
    <3> QED
      BY <3>1, <2>1, <1>0, SourceRows DEF Row, Versions
  <2>2. CASE i \notin S
    BY <2>2 DEF RowsOwned
  <2> QED
    BY <2>1, <2>2
<1> QED
  BY <1>1 DEF RowsOwned

-----------------------------------------------------------------------------
(* Types.                                                                  *)

LEMMA ProceedTyped ==
  ASSUME NEW stage, Proceed(stage)
  PROVE  attempt' \in 1..MaxAttempts
  BY IngestionAssumption DEF Proceed

LEMMA RetryTyped ==
  ASSUME TypeOK, RetryOrRaise
  PROVE  attempt' \in 1..MaxAttempts /\ bpc' \in {bpc, "failed"}
  BY IngestionAssumption DEF RetryOrRaise, TypeOK

LEMMA StoreTyped ==
  ASSUME TypeOK, StorePending
  PROVE  payload' \in [Ids -> Versions] /\ dense' \in [Ids -> Versions]
<1>1. gen \in Nat
  BY IngestionAssumption DEF TypeOK
<1>2. \A i \in Ids : Row(batch[i]) \in Versions
  BY <1>1 DEF Row, Versions, TypeOK
<1> QED
  BY <1>2 DEF StorePending, TypeOK, NoVersion, Versions

LEMMA MergeTyped ==
  ASSUME TypeOK, MergeRows
  PROVE  table' \in [Ids -> Versions]
<1>1. gen \in Nat
  BY IngestionAssumption DEF TypeOK
<1> QED
  BY <1>1 DEF MergeRows, TypeOK, Row, Versions

LEMMA RowTyped ==
  ASSUME TypeOK, NEW b \in [Ids -> Nat], NEW pos \in Nat, pos < Len(source),
         source[pos + 1] # Bad
  PROVE  Batched(b, pos + 1) \in [Ids -> Nat]
<1>1. source[pos + 1] \in Ids
  BY SourceRows
<1> QED
  BY <1>1, BatchedTakes

LEMMA TypeInit == Init => TypeOK
<1> SUFFICES ASSUME Init PROVE TypeOK
  OBVIOUS
<1>1. gen \in 1..MaxGen /\ attempt \in 1..MaxAttempts
  BY IngestionAssumption DEF Init
<1>2. source \in Seq(Ids \cup {Bad})
  BY IngestionAssumption DEF Init
<1> QED
  BY <1>1, <1>2 DEF Init, TypeOK, NoVersion, Versions, EmptyBatch, Modes, BuildOver, LoadOver

LEMMA TypeStep == TypeOK /\ [Next]_vars => TypeOK'
<1> SUFFICES ASSUME TypeOK, [Next]_vars PROVE TypeOK'
  OBVIOUS
<1> USE DEF indexVars, buildVars, loadVars
<1>1. ASSUME NEW m \in Modes, StartBuild(m) PROVE TypeOK'
  <2>1. 1 \in 1..MaxAttempts
    BY IngestionAssumption
  <2> QED
    BY <1>1, <2>1 DEF StartBuild, TypeOK, EmptyBatch
<1>2. CASE EnsureCollection
  BY <1>2, ProceedTyped DEF EnsureCollection, Proceed, TypeOK
<1>3. CASE EnsureFails
  BY <1>3, RetryTyped DEF EnsureFails, TypeOK, BuildOver
<1>4. CASE ReadRow
  <2>1. CASE source[bpos + 1] = Bad
    BY <1>4, <2>1 DEF ReadRow, TypeOK
  <2>2. CASE source[bpos + 1] # Bad
    <3>0. batch \in [Ids -> Nat] /\ bpos \in Nat
      BY DEF TypeOK
    <3>1. batch' \in [Ids -> Nat]
      BY <1>4, <2>2, <3>0, RowTyped DEF ReadRow
    <3> QED
      BY <1>4, <2>2, <3>1 DEF ReadRow, TypeOK
  <2> QED
    BY <2>1, <2>2
<1>5. CASE EndOfSource
  BY <1>5 DEF EndOfSource, TypeOK
<1>6. CASE BeginBatch
  BY <1>6 DEF BeginBatch, TypeOK, InBatch
<1>7. CASE LookUp
  <2>1. Missing \in SUBSET Ids
    BY DEF Missing, InBatch
  <2>2. sparseOnly' \in Nat
    <3>1. Cardinality(Missing) \in Nat
      BY <2>1, CountPositive
    <3> QED
      BY <1>7, <3>1 DEF LookUp, TypeOK
  <2>3. attempt' \in 1..MaxAttempts
    BY <1>7, ProceedTyped DEF LookUp
  <2>4. /\ batch' \in [Ids -> Nat]
        /\ bpc' \in {"read", "upsert", "embed"}
        /\ embedded' \in BOOLEAN
    <3>1. embedded \in BOOLEAN /\ batch \in [Ids -> Nat] /\ EmptyBatch \in [Ids -> Nat]
      BY DEF TypeOK, EmptyBatch
    <3>2. batch' \in {batch, EmptyBatch} /\ embedded' \in {embedded, FALSE}
      BY <1>7, Zenon DEF LookUp
    <3>3. bpc' \in {"read", "upsert", "embed"}
      BY <1>7, Zenon DEF LookUp, Proceed
    <3> QED
      BY <3>1, <3>2, <3>3
  <2>5. pending' \in SUBSET Ids /\ skipped' \in SUBSET Ids
    BY <1>7, <2>1 DEF LookUp, InBatch, TypeOK
  <2>6. UNCHANGED <<source, gen, indexVars, table, loadVars, mode, bpos, seen>>
    BY <1>7 DEF LookUp
  <2> QED
    BY <2>2, <2>3, <2>4, <2>5, <2>6 DEF TypeOK
<1>8. CASE ReadFails
  BY <1>8, RetryTyped DEF ReadFails, TypeOK, BuildOver
<1>9. CASE Embed
  BY <1>9, ProceedTyped DEF Embed, Proceed, TypeOK
<1>10. CASE EmbedFails
  BY <1>10, RetryTyped DEF EmbedFails, TypeOK, BuildOver
<1>11. CASE EmbedFailsFinally
  <2>1. sparseOnly' \in Nat
    <3>1. Cardinality(pending) \in Nat
      BY CountPositive DEF TypeOK
    <3> QED
      BY <1>11, <3>1 DEF EmbedFailsFinally, TypeOK
  <2> QED
    BY <1>11, <2>1, ProceedTyped DEF EmbedFailsFinally, Proceed, TypeOK
<1>12. CASE QuotaExhausted
  BY <1>12 DEF QuotaExhausted, TypeOK, BuildOver
<1>13. CASE Upsert
  BY <1>13, ProceedTyped, StoreTyped DEF Upsert, Proceed, TypeOK, EmptyBatch
<1>14. CASE UpsertFails
  BY <1>14, RetryTyped, StoreTyped DEF UpsertFails, TypeOK, BuildOver
<1>15. CASE Verify
  BY <1>15 DEF Verify, TypeOK, BuildOver
<1>16. CASE KillBuild
  BY <1>16 DEF KillBuild, TypeOK, BuildOver
<1>17. CASE StartLoad
  BY <1>17 DEF StartLoad, TypeOK, EmptyBatch
<1>18. CASE LoadRow
  <2>1. CASE source[lpos + 1] = Bad
    BY <1>18, <2>1 DEF LoadRow, TypeOK
  <2>2. CASE source[lpos + 1] # Bad
    <3>0. lbatch \in [Ids -> Nat] /\ lpos \in Nat
      BY DEF TypeOK
    <3>1. lbatch' \in [Ids -> Nat]
      BY <1>18, <2>2, <3>0, RowTyped DEF LoadRow
    <3> QED
      BY <1>18, <2>2, <3>1 DEF LoadRow, TypeOK
  <2> QED
    BY <2>1, <2>2
<1>19. CASE LoadEnds
  BY <1>19 DEF LoadEnds, TypeOK, LoadOver
<1>20. CASE CommitLoad
  BY <1>20, MergeTyped DEF CommitLoad, TypeOK, EmptyBatch
<1>21. CASE LoadFails
  BY <1>21, MergeTyped DEF LoadFails, TypeOK, LoadOver
<1>22. ASSUME NEW s \in Sources, NewSource(s) PROVE TypeOK'
  <2>1. gen' \in 1..MaxGen
    BY <1>22, IngestionAssumption DEF NewSource, TypeOK
  <2>2. source' \in Seq(Ids \cup {Bad})
    BY <1>22, IngestionAssumption DEF NewSource
  <2> QED
    BY <1>22, <2>1, <2>2 DEF NewSource, TypeOK, BuildOver, LoadOver
<1>23. CASE UNCHANGED vars
  BY <1>23 DEF vars, TypeOK
<1> QED
  BY <1>1, <1>2, <1>3, <1>4, <1>5, <1>6, <1>7, <1>8, <1>9, <1>10, <1>11, <1>12, <1>13,
     <1>14, <1>15, <1>16, <1>17, <1>18, <1>19, <1>20, <1>21, <1>22, <1>23
     DEF Next, BuildStep, LoadStep

\* The variables keep their types.
THEOREM TypeCorrect == Spec => []TypeOK
  BY TypeInit, TypeStep, PTL DEF Spec

-----------------------------------------------------------------------------
(* The index and the table hold rows of their articles.                    *)

LEMMA PendingStored ==
  ASSUME Inductive, bpc = "upsert", StorePending, UNCHANGED <<source, gen>>
  PROVE  RowsOwned(payload)' /\ PointsWhole'
<1>1. /\ TypeOK /\ bpos \in Nat /\ bpos <= Len(source) /\ BatchRows(batch, bpos)
      /\ pending \in SUBSET InBatch(batch) /\ RowsOwned(payload)
      /\ batch \in [Ids -> Nat] /\ payload \in [Ids -> Versions]
  BY DEF Inductive, BuildInv, BuildReads, BuildPends, BuildOver, InHand, TypeOK
<1>2. payload' = [i \in Ids |-> IF i \in pending THEN Row(batch[i]) ELSE payload[i]]
  BY DEF StorePending
<1>3. RowsOwned(payload')
  BY <1>1, <1>2, StoredOwned
<1>4. PointsWhole'
  BY DEF StorePending, PointsWhole, Inductive
<1> QED
  BY <1>3, <1>4 DEF RowsOwned

LEMMA RowsMerged ==
  ASSUME Inductive, lpc = "commit", MergeRows, UNCHANGED <<source, gen>>
  PROVE  RowsOwned(table)'
<1>1. /\ TypeOK /\ lpos \in Nat /\ lpos <= Len(source) /\ BatchRows(lbatch, lpos)
      /\ RowsOwned(table) /\ lbatch \in [Ids -> Nat] /\ table \in [Ids -> Versions]
  BY DEF Inductive, LoadInv, LoadOver, TypeOK
<1>2. table' = [i \in Ids |-> IF i \in InBatch(lbatch) THEN Row(lbatch[i]) ELSE table[i]]
  BY DEF MergeRows, InBatch
<1>3. RowsOwned(table')
  BY <1>1, <1>2, StoredOwned
<1> QED
  BY <1>3 DEF RowsOwned

\* Rows of earlier files are never taken for rows of the next one.
LEMMA OlderOwned ==
  ASSUME TypeOK, NEW f \in [Ids -> Versions], RowsOwned(f), NEW s \in Sources, NewSource(s),
         f' = f
  PROVE  RowsOwned(f)'
<1>1. gen \in Nat /\ gen' = gen + 1
  BY IngestionAssumption DEF TypeOK, NewSource
<1>2. \A i \in Ids : f[i].file \in Nat /\ f[i].file <= gen
  BY DEF RowsOwned, Versions
<1> QED
  BY <1>1, <1>2 DEF RowsOwned

LEMMA RowsStep ==
  ASSUME Inductive, [Next]_vars
  PROVE  RowsOwned(payload)' /\ RowsOwned(table)' /\ PointsWhole'
<1>0. TypeOK /\ RowsOwned(payload) /\ RowsOwned(table) /\ PointsWhole
  BY DEF Inductive
<1>1. CASE UNCHANGED <<source, gen, payload, dense, table>>
  BY <1>0, <1>1 DEF RowsOwned, PointsWhole
<1>2. CASE Upsert \/ UpsertFails
  <2>1. bpc = "upsert" /\ UNCHANGED <<source, gen, table>>
    BY <1>2 DEF Upsert, UpsertFails
  <2>2. StorePending \/ UNCHANGED <<payload, dense>>
    BY <1>2 DEF Upsert, UpsertFails
  <2>3. RowsOwned(table)'
    BY <2>1, <1>0 DEF RowsOwned
  <2> QED
    BY <2>1, <2>2, <2>3, <1>0, <1>1, PendingStored
<1>3. CASE CommitLoad \/ (LoadFails /\ lpc = "commit" /\ MergeRows)
  <2>1. lpc = "commit" /\ MergeRows /\ UNCHANGED <<source, gen, payload, dense>>
    BY <1>3 DEF CommitLoad, LoadFails, indexVars
  <2>2. RowsOwned(payload)' /\ PointsWhole'
    BY <2>1, <1>0 DEF RowsOwned, PointsWhole
  <2> QED
    BY <2>1, <2>2, RowsMerged
<1>4. ASSUME NEW s \in Sources, NewSource(s)
      PROVE  RowsOwned(payload)' /\ RowsOwned(table)' /\ PointsWhole'
  <2>1. UNCHANGED <<payload, dense, table>>
    BY <1>4 DEF NewSource, indexVars
  <2>2. payload \in [Ids -> Versions] /\ table \in [Ids -> Versions]
    BY <1>0 DEF TypeOK
  <2>3. PointsWhole'
    BY <2>1, <1>0 DEF PointsWhole
  <2>4. RowsOwned(payload)'
    BY <2>1, <2>2, <1>0, <1>4, OlderOwned
  <2>5. RowsOwned(table)'
    BY <2>1, <2>2, <1>0, <1>4, OlderOwned
  <2> QED
    BY <2>3, <2>4, <2>5
<1>5. \/ UNCHANGED <<source, gen, payload, dense, table>>
      \/ Upsert \/ UpsertFails
      \/ CommitLoad \/ (LoadFails /\ lpc = "commit" /\ MergeRows)
      \/ \E s \in Sources : NewSource(s)
  <2> USE DEF indexVars, buildVars, loadVars
  <2>1. CASE BuildStep
    BY <2>1 DEF BuildStep, EnsureCollection, EnsureFails, ReadRow, EndOfSource, BeginBatch,
         LookUp, ReadFails, Embed, EmbedFails, EmbedFailsFinally, QuotaExhausted, Verify
  <2>2. CASE LoadStep
    BY <2>2 DEF LoadStep, LoadRow, LoadEnds
  <2>3. CASE \/ \E m \in Modes : StartBuild(m)
             \/ KillBuild
             \/ StartLoad
             \/ LoadFails
             \/ UNCHANGED vars
    BY <2>3 DEF StartBuild, KillBuild, StartLoad, LoadFails, vars
  <2> QED
    BY <2>1, <2>2, <2>3 DEF Next
<1> QED
  BY <1>1, <1>2, <1>3, <1>4, <1>5

-----------------------------------------------------------------------------
(* The run of the builder.                                                 *)

LEMMA BuildFrame ==
  ASSUME BuildInv, bpc' = bpc \/ bpc' \in BuildOver,
         UNCHANGED <<source, gen, payload, dense, mode, bpos, batch, pending, embedded, seen,
                     skipped, sparseOnly>>
  PROVE  BuildInv'
<1>1. CASE bpc' \in BuildOver
  BY <1>1 DEF BuildInv
<1>2. CASE bpc' = bpc
  BY <1>2 DEF BuildInv, BuildReads, BuildPends, BuildStores, BuildForced, BuildLatest,
     BuildResumed,
     BatchRows, InBatch, SourceIds, LatestKept, Row
<1> QED
  BY <1>1, <1>2

LEMMA BuildStarts ==
  ASSUME Inductive, NEW m \in Modes, StartBuild(m)
  PROVE  BuildInv'
<1>1. /\ bpc' = "ensure" /\ bpos' = 0 /\ batch' = EmptyBatch
      /\ pending' = {} /\ seen' = {} /\ skipped' = {} /\ source' = source
  BY DEF StartBuild
<1>2. \A i \in Ids : batch'[i] = 0
  BY <1>1 DEF EmptyBatch
<1>3. InBatch(batch)' = {}
  BY <1>2 DEF InBatch
<1>4. 1..bpos' = {} /\ bpos' <= Len(source')
  BY <1>1, SourceRows DEF Inductive
<1>5. BuildReads'
  BY <1>1, <1>2, <1>4 DEF BuildReads, BatchRows
<1>6. BuildPends'
  BY <1>1, <1>3 DEF BuildPends, InHand
<1>7. BuildStores' /\ BuildResumed'
  BY <1>1 DEF BuildStores, BuildResumed
<1>8. BuildForced' /\ BuildLatest'
  BY <1>1, <1>4 DEF BuildForced, BuildLatest, LatestKept, InHand
<1> QED
  BY <1>5, <1>6, <1>7, <1>8 DEF BuildInv

LEMMA BuildReadsOn ==
  ASSUME Inductive, EnsureCollection \/ EndOfSource
  PROVE  BuildInv'
<1>0. BuildReads /\ BuildPends /\ BuildStores /\ BuildForced /\ BuildLatest /\ BuildResumed
  BY DEF EnsureCollection, EndOfSource, Inductive, BuildInv, BuildOver
<1>1. /\ UNCHANGED <<source, gen, payload, dense, mode, bpos, batch, pending, embedded, seen,
                     skipped, sparseOnly>>
      /\ bpc \in {"ensure", "read"}
      /\ bpc' \in {"read", "batch", "verify"}
      /\ bpc' = "batch" => InBatch(batch) # {}
      /\ bpc' = "verify" => InBatch(batch) = {} /\ bpos = Len(source)
  BY DEF EnsureCollection, EndOfSource, Proceed, indexVars
<1>2. BuildReads'
  BY <1>0, <1>1 DEF BuildReads, BatchRows, InBatch, SourceIds
<1>3. BuildPends'
  BY <1>0, <1>1 DEF BuildPends, InBatch, InHand
<1>4. BuildStores' /\ BuildResumed'
  BY <1>0, <1>1 DEF BuildStores, BuildResumed
<1>5. BuildForced' /\ BuildLatest'
  BY <1>0, <1>1 DEF BuildForced, BuildLatest, LatestKept, InHand
<1> QED
  BY <1>2, <1>3, <1>4, <1>5 DEF BuildInv

LEMMA BuildReadsRow ==
  ASSUME Inductive, ReadRow
  PROVE  BuildInv'
<1>0. /\ BuildReads /\ BuildPends /\ BuildStores /\ BuildForced /\ BuildLatest
      /\ TypeOK /\ bpos \in Nat /\ bpos < Len(source) /\ bpos' = bpos + 1
      /\ batch \in [Ids -> Nat] /\ payload \in [Ids -> Versions]
      /\ bpc = "read" /\ pending = {}
  BY DEF ReadRow, Inductive, BuildInv, BuildOver, TypeOK, BuildPends, InHand
<1>1. UNCHANGED <<source, gen, payload, dense, mode, pending, embedded, seen, skipped,
                  sparseOnly>>
  BY DEF ReadRow, indexVars
<1>2. bpc' \in {"read", "batch"}
  BY <1>0 DEF ReadRow
<1>10. ASSUME source[bpos + 1] # Bad
      PROVE  /\ source[bpos + 1] \in Ids
             /\ batch' = Batched(batch, bpos + 1)
             /\ batch'[source[bpos + 1]] = bpos + 1
             /\ \A i \in Ids : i # source[bpos + 1] => batch'[i] = batch[i]
  <2>1. bpos + 1 \in Nat /\ bpos + 1 \in 1..Len(source)
    BY <1>0, SourceRows
  <2>2. source[bpos + 1] \in Ids
    BY <1>10, <2>1, <1>0, SourceRows
  <2>3. batch' = Batched(batch, bpos + 1)
    BY <1>10 DEF ReadRow
  <2>4. /\ Batched(batch, bpos + 1)[source[bpos + 1]] = bpos + 1
        /\ \A i \in Ids : i # source[bpos + 1] => Batched(batch, bpos + 1)[i] = batch[i]
    BY <2>1, <2>2, <1>0, BatchedTakes
  <2> QED
    BY <2>2, <2>3, <2>4
<1>3. BatchRows(batch', bpos') /\ LatestKept(payload, batch', bpos', skipped)
  <2>1. CASE source[bpos + 1] = Bad
    <3>1. batch' = batch
      BY <2>1 DEF ReadRow
    <3>2. BatchRows(batch, bpos + 1) /\ LatestKept(payload, batch, bpos + 1, skipped)
      BY <2>1, <1>0, BadSkipped DEF BuildReads, BuildLatest
    <3> QED
      BY <3>1, <3>2, <1>0
  <2>2. CASE source[bpos + 1] # Bad
    <3>1. batch' = Batched(batch, bpos + 1)
      BY <2>2 DEF ReadRow
    <3>2. BatchRows(batch', bpos + 1)
      BY <2>2, <1>10, <1>0 DEF BatchRows, BuildReads
    <3>3. LatestKept(payload, batch', bpos + 1, skipped)
      BY <3>1, <2>2, <1>0, BatchGrows DEF BuildLatest, BuildReads
    <3> QED
      BY <3>2, <3>3, <1>0
  <2> QED
    BY <2>1, <2>2
<1>4. \A i \in Ids : batch[i] # 0 => batch'[i] # 0
  <2>1. CASE source[bpos + 1] = Bad
    BY <2>1 DEF ReadRow
  <2>2. CASE source[bpos + 1] # Bad
    BY <2>2, <1>10, <1>0
  <2> QED
    BY <2>1, <2>2
<1>5. source[bpos + 1] # Bad => source[bpos + 1] \in Ids /\ batch'[source[bpos + 1]] # 0
  BY <1>10, <1>0
<1>6. BuildReads'
  <2>1. \A p \in 1..bpos' : source[p] # Bad => source[p] \in seen \cup InBatch(batch')
    BY <1>0, <1>4, <1>5 DEF BuildReads, InBatch
  <2>2. bpos' <= Len(source)
    BY <1>0, SourceRows
  <2>3. BatchRows(batch, bpos)'
    BY <1>1, <1>3 DEF BatchRows
  <2> QED
    BY <2>1, <2>2, <2>3, <1>0, <1>1 DEF BuildReads, InBatch, SourceIds
<1>7. BuildPends'
  <2>1. bpc' = "batch" => InBatch(batch)' # {}
    <3>1. CASE source[bpos + 1] = Bad
      BY <3>1, <1>0 DEF ReadRow
    <3>2. CASE source[bpos + 1] # Bad
      BY <3>2, <1>5 DEF InBatch
    <3> QED
      BY <3>1, <3>2
  <2> QED
    BY <2>1, <1>0, <1>1, <1>2 DEF BuildPends, InHand
<1>8. BuildStores' /\ BuildResumed'
  BY <1>0, <1>1, <1>2 DEF BuildStores, BuildResumed
<1>9. BuildForced' /\ BuildLatest'
  BY <1>0, <1>1, <1>2, <1>3 DEF BuildForced, BuildLatest, InHand, LatestKept
<1> QED
  BY <1>6, <1>7, <1>8, <1>9 DEF BuildInv

LEMMA BuildBegins ==
  ASSUME Inductive, BeginBatch
  PROVE  BuildInv'
<1>0. /\ BuildReads /\ BuildPends /\ BuildStores /\ BuildForced /\ BuildLatest /\ TypeOK
      /\ bpc = "batch" /\ pending = {} /\ InBatch(batch) # {}
  BY DEF BeginBatch, Inductive, BuildInv, BuildOver, BuildPends, InHand
<1>1. /\ UNCHANGED <<source, gen, payload, dense, mode, bpos, batch, embedded, skipped,
                     sparseOnly>>
      /\ seen' = seen \cup InBatch(batch)
      /\ pending' = InBatch(batch)
      /\ bpc' = IF mode = "force" THEN "embed" ELSE "lookup"
  BY DEF BeginBatch, indexVars
<1>2. InBatch(batch)' = InBatch(batch)
  BY <1>1 DEF InBatch
<1>3. InBatch(batch) \subseteq SourceIds
  <2> SUFFICES ASSUME NEW i \in Ids, batch[i] # 0
               PROVE  i \in SourceIds
    BY DEF InBatch
  <2>1. batch[i] \in 1..Len(source) /\ source[batch[i]] = i
    BY <1>0, SourceRows DEF BuildReads, BatchRows, TypeOK
  <2>2. i # Bad
    BY IngestionAssumption
  <2> QED
    BY <2>1, <2>2, <1>0, SourceRows DEF SourceIds
<1>4. BuildReads'
  BY <1>0, <1>1, <1>2, <1>3 DEF BuildReads, BatchRows, SourceIds
<1>5. BuildPends'
  BY <1>0, <1>1, <1>2 DEF BuildPends, InHand
<1>6. BuildStores'
  BY <1>0, <1>1 DEF BuildStores
<1>7. BuildForced' /\ BuildLatest'
  BY <1>0, <1>1, <1>2 DEF BuildForced, BuildLatest, InHand, LatestKept
<1>8. BuildResumed'
  BY <1>1 DEF BuildResumed
<1> QED
  BY <1>4, <1>5, <1>6, <1>7, <1>8 DEF BuildInv

LEMMA BuildLooksUp ==
  ASSUME Inductive, LookUp
  PROVE  BuildInv'
<1>0. /\ BuildReads /\ BuildPends /\ BuildStores /\ BuildForced /\ BuildLatest
      /\ TypeOK /\ PointsWhole
      /\ bpc = "lookup" /\ pending # {}
      /\ pending \subseteq InBatch(batch) /\ InBatch(batch) \subseteq seen
  BY DEF LookUp, Inductive, BuildInv, BuildOver, BuildPends, InHand
<1>1. /\ UNCHANGED <<source, gen, payload, dense, mode, bpos, seen>>
      /\ pending' = Missing
      /\ skipped' = skipped \cup (InBatch(batch) \ Missing)
  BY DEF LookUp, indexVars
<1>2. mode # "force"
  BY <1>0 DEF BuildForced
<1>3. \/ /\ bpc' = "read" /\ Missing = {} /\ batch' = EmptyBatch
         /\ UNCHANGED <<embedded, sparseOnly>>
      \/ /\ bpc' = "upsert" /\ Missing # {} /\ batch' = batch
         /\ embedded' = FALSE /\ sparseOnly' = sparseOnly + Cardinality(Missing)
      \/ /\ bpc' = "embed" /\ Missing # {} /\ batch' = batch
         /\ UNCHANGED <<embedded, sparseOnly>>
  BY Zenon DEF LookUp, Proceed
<1>4. Missing \in SUBSET Ids /\ Missing \subseteq InBatch(batch)
  BY DEF Missing, InBatch
<1>5. sparseOnly \in Nat /\ sparseOnly' \in Nat /\ sparseOnly' >= sparseOnly
  <2>1. sparseOnly \in Nat
    BY <1>0 DEF TypeOK
  <2>2. Cardinality(Missing) \in Nat
    BY <1>4, CountPositive
  <2>3. sparseOnly' = sparseOnly \/ sparseOnly' = sparseOnly + Cardinality(Missing)
    BY <1>3
  <2> QED
    BY <2>1, <2>2, <2>3
<1>6. Missing # {} /\ sparseOnly' = sparseOnly + Cardinality(Missing) => sparseOnly' > 0
  BY <1>4, <1>5, CountPositive
<1>7. BuildReads'
  <2>1. CASE batch' = batch
    BY <2>1, <1>0, <1>1 DEF BuildReads, BatchRows, InBatch, SourceIds
  <2>2. CASE batch' = EmptyBatch
    <3>1. \A i \in Ids : batch'[i] = 0
      BY <2>2 DEF EmptyBatch
    <3>2. \A p \in 1..bpos : source[p] # Bad => source[p] \in seen
      BY <1>0 DEF BuildReads
    <3> QED
      BY <3>1, <3>2, <1>0, <1>1 DEF BuildReads, BatchRows, SourceIds
  <2> QED
    BY <2>1, <2>2, <1>3
<1>8. BuildPends'
  <2>1. CASE bpc' = "read"
    BY <2>1, <1>1, <1>3 DEF BuildPends, InHand
  <2>2. CASE bpc' \in {"upsert", "embed"}
    <3>1. InBatch(batch)' = InBatch(batch)
      BY <2>2, <1>3 DEF InBatch
    <3> QED
      BY <2>2, <3>1, <1>0, <1>1, <1>3, <1>4 DEF BuildPends, InHand
  <2> QED
    BY <2>1, <2>2, <1>3
<1>9. BuildStores'
  <2>1. ASSUME NEW i \in seen \ Missing
        PROVE  payload[i] # NoVersion /\ (sparseOnly = 0 => dense[i] # NoVersion)
    <3>1. CASE i \in InBatch(batch)
      <4>1. i \in Ids /\ dense[i] # NoVersion
        BY <2>1, <3>1 DEF Missing, InBatch
      <4> QED
        BY <4>1, <1>0 DEF PointsWhole
    <3>2. CASE i \notin InBatch(batch)
      BY <2>1, <3>2, <1>0 DEF BuildStores
    <3> QED
      BY <3>1, <3>2
  <2>2. sparseOnly' = 0 => sparseOnly = 0
    BY <1>5
  <2>3. bpc' = "upsert" => sparseOnly' > 0
    BY <1>3, <1>6
  <2> QED
    BY <2>1, <2>2, <2>3, <1>1 DEF BuildStores
<1>10. BuildForced' /\ BuildResumed'
  BY <1>1, <1>2 DEF BuildForced, BuildResumed, Missing
<1>11. BuildLatest'
  <2>1. InBatch(batch) \subseteq pending' \cup skipped'
    BY <1>1
  <2>2. CASE batch' = batch
    <3>1. InBatch(batch)' = InBatch(batch)
      BY <2>2 DEF InBatch
    <3>2. LatestKept(payload, batch, bpos, skipped)'
      BY <2>2, <1>0, <1>1 DEF BuildLatest, LatestKept
    <3> QED
      BY <2>1, <3>1, <3>2 DEF BuildLatest
  <2>3. CASE bpc' = "read" /\ batch' = EmptyBatch /\ Missing = {}
    <3>1. ASSUME NEW p \in 1..bpos, source[p] # Bad, source[p] \notin skipped'
          PROVE  /\ EmptyBatch[source[p]] = 0
                 /\ payload[source[p]].file = gen /\ payload[source[p]].row >= p
      <4>1. source[p] \in Ids /\ p \in Nat \ {0} /\ batch[source[p]] \in Nat
        BY <3>1, <1>0, SourceRows DEF BuildReads, TypeOK
      <4>2. source[p] \notin InBatch(batch)
        BY <2>3, <3>1, <1>1
      <4>3. batch[source[p]] = 0
        BY <4>1, <4>2 DEF InBatch
      <4>4. source[p] \notin skipped
        BY <3>1, <1>1
      <4> QED
        BY <3>1, <4>1, <4>3, <4>4, <1>0 DEF BuildLatest, LatestKept, EmptyBatch
    <3>2. LatestKept(payload, batch, bpos, skipped)'
      BY <2>3, <3>1, <1>1 DEF LatestKept
    <3> QED
      BY <2>3, <3>2 DEF BuildLatest, InHand
  <2> QED
    BY <2>2, <2>3, <1>3
<1> QED
  BY <1>7, <1>8, <1>9, <1>10, <1>11 DEF BuildInv

LEMMA BuildEmbeds ==
  ASSUME Inductive, Embed \/ EmbedFailsFinally
  PROVE  BuildInv'
<1>0. /\ BuildReads /\ BuildPends /\ BuildStores
      /\ BuildForced /\ BuildLatest /\ BuildResumed /\ TypeOK
      /\ bpc = "embed" /\ pending # {} /\ pending \in SUBSET Ids
  BY DEF Embed, EmbedFailsFinally, Inductive, BuildInv, BuildOver, BuildPends, InHand, TypeOK
<1>1. /\ UNCHANGED <<source, gen, payload, dense, mode, bpos, batch, pending, seen, skipped>>
      /\ bpc' = "upsert"
      /\ \/ embedded' = TRUE /\ sparseOnly' = sparseOnly
         \/ embedded' = FALSE /\ sparseOnly' = sparseOnly + Cardinality(pending)
  BY DEF Embed, EmbedFailsFinally, Proceed, indexVars
<1>2. Cardinality(pending) \in Nat /\ Cardinality(pending) > 0 /\ sparseOnly \in Nat
  BY <1>0, CountPositive DEF TypeOK
<1>3. (sparseOnly' = 0 => sparseOnly = 0) /\ (~embedded' => sparseOnly' > 0)
  BY <1>1, <1>2
<1>4. BuildReads'
  BY <1>0, <1>1 DEF BuildReads, BatchRows, InBatch, SourceIds
<1>5. BuildPends'
  BY <1>0, <1>1 DEF BuildPends, InBatch, InHand
<1>6. BuildStores'
  BY <1>0, <1>1, <1>3 DEF BuildStores
<1>7. BuildForced' /\ BuildLatest'
  BY <1>0, <1>1 DEF BuildForced, BuildLatest, InBatch, InHand, LatestKept
<1>8. BuildResumed'
  BY <1>0, <1>1 DEF BuildResumed, Row
<1> QED
  BY <1>4, <1>5, <1>6, <1>7, <1>8 DEF BuildInv

\* What is stored of the articles at hand.
LEMMA StoredPoints ==
  ASSUME TypeOK, StorePending, pending \subseteq InBatch(batch)
  PROVE  \A i \in Ids :
           /\ i \in pending => /\ payload'[i] = Row(batch[i])
                               /\ payload'[i] # NoVersion
                               /\ dense'[i] = IF embedded THEN Row(batch[i]) ELSE NoVersion
           /\ i \notin pending => payload'[i] = payload[i] /\ dense'[i] = dense[i]
           /\ Row(batch[i]) # NoVersion
<1>1. gen \in Nat /\ gen # 0
  BY IngestionAssumption DEF TypeOK
<1>2. \A i \in Ids : Row(batch[i]) # NoVersion
  BY <1>1 DEF Row, NoVersion
<1> QED
  BY <1>2 DEF StorePending

\* A run stores what it has read and not skipped.
LEMMA LatestStored ==
  ASSUME Inductive, bpc = "upsert", StorePending, UNCHANGED <<source, gen>>
  PROVE  /\ LatestKept(payload', EmptyBatch, bpos, skipped)
         /\ LatestKept(payload', batch, bpos, skipped)
<1>1. /\ TypeOK /\ LatestKept(payload, batch, bpos, skipped)
      /\ pending \subseteq InBatch(batch) /\ InBatch(batch) \subseteq pending \cup skipped
      /\ bpos \in Nat /\ bpos <= Len(source)
      /\ batch \in [Ids -> Nat] /\ payload \in [Ids -> Versions]
  BY DEF Inductive, BuildInv, BuildOver, BuildLatest, BuildReads, BuildPends, InHand, TypeOK
<1>2. payload' = [i \in Ids |-> IF i \in pending THEN Row(batch[i]) ELSE payload[i]]
  BY DEF StorePending
<1> QED
  BY <1>1, <1>2, BatchStored

LEMMA BuildUpserts ==
  ASSUME Inductive, Upsert
  PROVE  BuildInv'
<1>0. /\ BuildReads /\ BuildPends /\ BuildStores /\ BuildForced /\ BuildLatest /\ TypeOK
      /\ bpc = "upsert" /\ pending # {}
      /\ pending \subseteq InBatch(batch) /\ InBatch(batch) \subseteq seen
      /\ ~embedded => sparseOnly > 0
  BY DEF Upsert, Inductive, BuildInv, BuildOver, BuildPends, BuildStores, InHand
<1>1. /\ UNCHANGED <<source, gen, mode, bpos, embedded, seen, skipped, sparseOnly>>
      /\ StorePending /\ batch' = EmptyBatch /\ pending' = {} /\ bpc' = "read"
  BY DEF Upsert, Proceed
<1>2. \A i \in Ids : batch'[i] = 0
  BY <1>1 DEF EmptyBatch
<1>3. BuildReads'
  <2>1. \A p \in 1..bpos : source[p] # Bad => source[p] \in seen
    BY <1>0 DEF BuildReads
  <2> QED
    BY <2>1, <1>2, <1>0, <1>1 DEF BuildReads, BatchRows, SourceIds
<1>4. BuildPends'
  BY <1>1 DEF BuildPends, InHand
<1>5. BuildStores'
  <2>1. ASSUME NEW i \in seen
        PROVE  payload'[i] # NoVersion /\ (sparseOnly = 0 => dense'[i] # NoVersion)
    <3>1. i \in Ids
      BY <1>0 DEF TypeOK
    <3>2. sparseOnly = 0 => embedded
      BY <1>0
    <3>3. CASE i \in pending
      BY <3>1, <3>2, <3>3, <1>0, <1>1, StoredPoints
    <3>4. CASE i \notin pending
      BY <3>1, <3>4, <1>0, <1>1, StoredPoints DEF BuildStores
    <3> QED
      BY <3>3, <3>4
  <2> QED
    BY <2>1, <1>1 DEF BuildStores
<1>6. BuildForced' /\ BuildLatest'
  BY <1>0, <1>1, LatestStored DEF BuildForced, BuildLatest, InHand, LatestKept
<1>7. BuildResumed'
  BY <1>1 DEF BuildResumed
<1> QED
  BY <1>3, <1>4, <1>5, <1>6, <1>7 DEF BuildInv

\* An upsert that took effect although it failed.
LEMMA BuildUpsertsUnanswered ==
  ASSUME Inductive, UpsertFails, StorePending, bpc' = bpc
  PROVE  BuildInv'
<1>0. /\ BuildReads /\ BuildPends /\ BuildStores /\ BuildForced /\ BuildLatest /\ TypeOK
      /\ bpc = "upsert" /\ pending \subseteq InBatch(batch)
      /\ ~embedded => sparseOnly > 0
  BY DEF UpsertFails, Inductive, BuildInv, BuildOver, BuildPends, BuildStores, InHand
<1>1. UNCHANGED <<source, gen, mode, bpos, batch, pending, embedded, seen, skipped,
                  sparseOnly>>
  BY DEF UpsertFails
<1>2. BuildReads'
  BY <1>0, <1>1 DEF BuildReads, BatchRows, InBatch, SourceIds
<1>3. BuildPends'
  BY <1>0, <1>1 DEF BuildPends, InBatch, InHand
<1>4. BuildStores'
  <2>1. ASSUME NEW i \in seen \ pending
        PROVE  payload'[i] # NoVersion /\ (sparseOnly = 0 => dense'[i] # NoVersion)
    <3>1. i \in Ids
      BY <1>0 DEF TypeOK
    <3> QED
      BY <3>1, <1>0, <1>1, StoredPoints DEF BuildStores
  <2> QED
    BY <2>1, <1>0, <1>1 DEF BuildStores
<1>5. BuildForced' /\ BuildLatest'
  BY <1>0, <1>1, LatestStored DEF BuildForced, BuildLatest, InHand, LatestKept, InBatch
<1>6. BuildResumed'
  <2> SUFFICES ASSUME NEW i \in pending
               PROVE  \/ dense'[i] = NoVersion
                      \/ /\ embedded /\ dense'[i] = Row(batch[i])
                         /\ payload'[i] = Row(batch[i])
    BY <1>0, <1>1 DEF BuildResumed, Row
  <2>1. i \in Ids
    BY <1>0 DEF TypeOK
  <2> QED
    BY <2>1, <1>0, StoredPoints
<1> QED
  BY <1>2, <1>3, <1>4, <1>5, <1>6 DEF BuildInv

LEMMA BuildStepInv ==
  ASSUME Inductive, [Next]_vars
  PROVE  BuildInv'
<1> USE DEF indexVars, buildVars, loadVars
<1>0. BuildInv
  BY DEF Inductive
<1>1. CASE \/ EnsureFails \/ ReadFails \/ EmbedFails
           \/ (UpsertFails /\ UNCHANGED <<payload, dense>>)
  <2>1. bpc' = bpc \/ bpc' \in BuildOver
    BY <1>1 DEF EnsureFails, ReadFails, EmbedFails, UpsertFails, RetryOrRaise, BuildOver
  <2>2. UNCHANGED <<source, gen, payload, dense, mode, bpos, batch, pending, embedded, seen,
                    skipped, sparseOnly>>
    BY <1>1 DEF EnsureFails, ReadFails, EmbedFails, UpsertFails
  <2> QED
    BY <2>1, <2>2, <1>0, BuildFrame
<1>2. CASE QuotaExhausted \/ Verify \/ KillBuild
  BY <1>2 DEF QuotaExhausted, Verify, KillBuild, BuildOver, BuildInv
<1>3. CASE StartLoad \/ LoadStep \/ LoadFails \/ UNCHANGED vars
  BY <1>3, <1>0, BuildFrame
     DEF StartLoad, LoadStep, LoadRow, LoadEnds, CommitLoad, LoadFails, vars
<1>4. CASE UpsertFails /\ StorePending
  <2>1. bpc' = bpc \/ bpc' = "failed"
    BY <1>4 DEF UpsertFails, RetryOrRaise
  <2>2. CASE bpc' = "failed"
    BY <2>2 DEF BuildInv, BuildOver
  <2> QED
    BY <2>1, <2>2, <1>4, BuildUpsertsUnanswered
<1>5. CASE \E s \in Sources : NewSource(s)
  BY <1>5 DEF NewSource, BuildInv, BuildOver
<1>6. CASE \E m \in Modes : StartBuild(m)
  BY <1>6, BuildStarts
<1>7. CASE EnsureCollection \/ EndOfSource \/ ReadRow \/ BeginBatch \/ LookUp \/ Embed
           \/ EmbedFailsFinally \/ Upsert
  BY <1>7, BuildReadsOn, BuildReadsRow, BuildBegins, BuildLooksUp, BuildEmbeds, BuildUpserts
<1>8. UpsertFails => StorePending \/ UNCHANGED <<payload, dense>>
  BY DEF UpsertFails
<1> QED
  BY <1>1, <1>2, <1>3, <1>4, <1>5, <1>6, <1>7, <1>8, Zenon DEF Next, BuildStep

-----------------------------------------------------------------------------
(* The run of the loader.                                                  *)

LEMMA LoadFrame ==
  ASSUME LoadInv, UNCHANGED <<source, gen, table, lpc, lpos, lbatch>>
  PROVE  LoadInv'
  BY DEF LoadInv, BatchRows, LatestKept, AllLatest, InBatch

LEMMA LoadReadsRow ==
  ASSUME Inductive, LoadRow
  PROVE  LoadInv'
<1>0. /\ TypeOK /\ lpos \in Nat /\ lpos < Len(source) /\ lpos' = lpos + 1
      /\ lbatch \in [Ids -> Nat] /\ table \in [Ids -> Versions]
      /\ BatchRows(lbatch, lpos) /\ LatestKept(table, lbatch, lpos, {})
      /\ UNCHANGED <<source, gen, table>>
  BY DEF LoadRow, Inductive, LoadInv, LoadOver, TypeOK
<1>1. lpos + 1 <= Len(source)
  BY <1>0, SourceRows
<1>2. CASE source[lpos + 1] = Bad
  <2>1. BatchRows(lbatch, lpos + 1) /\ LatestKept(table, lbatch, lpos + 1, {})
    BY <1>0, <1>2, BadSkipped
  <2>2. lbatch' = lbatch /\ lpc' = "read"
    BY <1>2 DEF LoadRow
  <2> QED
    BY <1>0, <1>1, <2>1, <2>2 DEF LoadInv, BatchRows, LatestKept, LoadOver
<1>3. CASE source[lpos + 1] # Bad
  <2>1. lbatch' = Batched(lbatch, lpos + 1) /\ lpc' \in {"read", "commit"}
    BY <1>3 DEF LoadRow
  <2>2. BatchRows(lbatch', lpos + 1) /\ LatestKept(table, lbatch', lpos + 1, {})
    BY <1>0, <1>3, <2>1, BatchGrows
  <2>3. source[lpos + 1] \in Ids /\ lpos + 1 \in Nat
    BY <1>0, <1>1, <1>3, SourceRows
  <2>4. lbatch'[source[lpos + 1]] = lpos + 1
    BY <1>0, <2>1, <2>3, BatchedTakes
  <2>5. InBatch(lbatch)' # {}
    BY <1>0, <2>3, <2>4 DEF InBatch
  <2> QED
    BY <1>0, <1>1, <2>1, <2>2, <2>5 DEF LoadInv, BatchRows, LatestKept, LoadOver
<1> QED
  BY <1>2, <1>3

LEMMA LoadReachesEnd ==
  ASSUME Inductive, LoadEnds
  PROVE  LoadInv'
<1>0. /\ TypeOK /\ lpos = Len(source) /\ lpc \notin LoadOver
      /\ lbatch \in [Ids -> Nat] /\ table \in [Ids -> Versions]
      /\ lpos <= Len(source) /\ BatchRows(lbatch, lpos) /\ LatestKept(table, lbatch, lpos, {})
      /\ UNCHANGED <<source, gen, table, lpos, lbatch>>
  BY DEF LoadEnds, Inductive, LoadInv, LoadOver, TypeOK, indexVars
<1>1. CASE InBatch(lbatch) = {}
  <2>1. AllLatest(table, {})
    BY <1>0, <1>1, LatestAtEnd
  <2>2. lpc' = "done"
    BY <1>1 DEF LoadEnds
  <2> QED
    BY <1>0, <2>1, <2>2 DEF LoadInv, AllLatest, LoadOver
<1>2. CASE InBatch(lbatch) # {}
  <2>1. lpc' = "commit"
    BY <1>2 DEF LoadEnds
  <2> QED
    BY <1>0, <1>2, <2>1 DEF LoadInv, BatchRows, LatestKept, InBatch
<1> QED
  BY <1>1, <1>2

LEMMA LoadCommits ==
  ASSUME Inductive, CommitLoad
  PROVE  LoadInv'
<1>0. /\ TypeOK /\ lpos \in Nat /\ lpos <= Len(source)
      /\ lbatch \in [Ids -> Nat] /\ table \in [Ids -> Versions]
      /\ LatestKept(table, lbatch, lpos, {})
  BY DEF CommitLoad, Inductive, LoadInv, LoadOver, TypeOK
<1>1. /\ UNCHANGED <<source, gen, lpos>>
      /\ lpc' = "read" /\ lbatch' = EmptyBatch
      /\ table' = [i \in Ids |-> IF i \in InBatch(lbatch) THEN Row(lbatch[i]) ELSE table[i]]
  BY DEF CommitLoad, MergeRows, InBatch
<1>2. LatestKept(table', EmptyBatch, lpos, {})
  BY <1>0, <1>1, BatchStored
<1>3. BatchRows(lbatch, lpos)'
  BY <1>1 DEF BatchRows, EmptyBatch
<1> QED
  BY <1>0, <1>1, <1>2, <1>3 DEF LoadInv, LatestKept, LoadOver

LEMMA LoadStepInv ==
  ASSUME Inductive, [Next]_vars
  PROVE  LoadInv'
<1> USE DEF indexVars, loadVars
<1>0. LoadInv
  BY DEF Inductive
<1>1. CASE UNCHANGED <<source, gen, table, lpc, lpos, lbatch>>
  BY <1>0, <1>1, LoadFrame
<1>2. CASE StartLoad
  <2>1. 1..0 = {} /\ 0 <= Len(source)
    BY SourceRows DEF Inductive
  <2> QED
    BY <1>2, <2>1 DEF StartLoad, LoadInv, BatchRows, LatestKept, EmptyBatch, LoadOver
<1>3. CASE LoadFails
  BY <1>3 DEF LoadFails, LoadInv, LoadOver
<1>4. CASE \E s \in Sources : NewSource(s)
  BY <1>4 DEF NewSource, LoadInv, LoadOver
<1>5. CASE LoadStep
  BY <1>5, LoadReadsRow, LoadReachesEnd, LoadCommits DEF LoadStep
<1>6. CASE BuildStep
  BY <1>6, <1>1 DEF BuildStep, EnsureCollection, EnsureFails, ReadRow, EndOfSource, BeginBatch,
     LookUp, ReadFails, Embed, EmbedFails, EmbedFailsFinally, QuotaExhausted, Upsert,
     UpsertFails, Verify
<1>7. CASE (\E m \in Modes : StartBuild(m)) \/ KillBuild \/ UNCHANGED vars
  BY <1>7, <1>1 DEF StartBuild, KillBuild, vars
<1> QED
  BY <1>2, <1>3, <1>4, <1>5, <1>6, <1>7 DEF Next

-----------------------------------------------------------------------------
(* The reports.                                                            *)

LEMMA Verifies ==
  ASSUME Inductive, Verify
  PROVE  ReportInv'
<1>0. /\ TypeOK /\ PointsWhole /\ BuildReads /\ BuildStores /\ BuildForced /\ BuildLatest
      /\ bpos = Len(source) /\ pending = {} /\ InBatch(batch) = {}
      /\ sparseOnly \in Nat /\ seen \in SUBSET Ids
      /\ payload \in [Ids -> Versions] /\ batch \in [Ids -> Nat]
  BY DEF Verify, Inductive, BuildInv, BuildOver, BuildPends, InHand, TypeOK
<1>1. /\ UNCHANGED <<source, gen, payload, dense, mode, skipped, sparseOnly>>
      /\ bpc' \in {"complete", "partial"}
      /\ bpc' = "complete" <=> sparseOnly = 0 /\ seen \ PointIds = {} /\ PointIds \ seen = {}
  BY DEF Verify, indexVars
<1>2. seen = SourceIds
  <2>1. \A p \in DOMAIN source : source[p] # Bad => source[p] \in seen
    BY <1>0, SourceRows DEF BuildReads
  <2> QED
    BY <2>1, <1>0 DEF BuildReads, SourceIds
<1>3. seen \subseteq PointIds
  BY <1>0 DEF BuildStores, PointIds
<1>4. PointIds' = PointIds /\ SourceIds' = SourceIds
  BY <1>1 DEF PointIds, SourceIds
<1>5. bpc' = "complete" => PointIds = SourceIds /\ \A i \in SourceIds : dense[i] = payload[i]
  <2> SUFFICES ASSUME bpc' = "complete"
               PROVE  PointIds = SourceIds /\ \A i \in SourceIds : dense[i] = payload[i]
    OBVIOUS
  <2>1. PointIds = SourceIds /\ sparseOnly = 0
    BY <1>1, <1>2
  <2> QED
    BY <2>1, <1>0, <1>2 DEF BuildStores, PointsWhole
<1>6. bpc' = "partial" => sparseOnly > 0 \/ PointIds \ SourceIds # {}
  BY <1>0, <1>1, <1>2, <1>3
<1>7. AllLatest(payload, skipped) /\ (mode = "force" => skipped = {})
  BY <1>0, LatestAtEnd DEF BuildForced, BuildLatest
<1>8. ReportExact'
  BY <1>1, <1>4, <1>5, <1>6 DEF ReportExact
<1>9. AllLatest(payload, skipped)' /\ (mode' = "force" => skipped' = {})
  BY <1>1, <1>7 DEF AllLatest
<1> QED
  BY <1>8, <1>9 DEF ReportInv

LEMMA ReportFrame ==
  ASSUME ReportInv, UNCHANGED <<source, gen, payload, dense, mode, skipped, sparseOnly, bpc>>
  PROVE  ReportInv'
  BY DEF ReportInv, ReportExact, PointIds, SourceIds, AllLatest

LEMMA ReportStepInv ==
  ASSUME Inductive, [Next]_vars
  PROVE  ReportInv'
<1> USE DEF indexVars, buildVars
<1>0. ReportInv
  BY DEF Inductive
<1>1. CASE Verify
  BY <1>1, Verifies
<1>2. CASE bpc' \notin {"complete", "partial"}
  BY <1>2 DEF ReportInv, ReportExact
<1>3. CASE UNCHANGED <<source, gen, payload, dense, mode, skipped, sparseOnly, bpc>>
  BY <1>0, <1>3, ReportFrame
<1>4. CASE StartLoad \/ LoadStep \/ LoadFails \/ UNCHANGED vars
  BY <1>4, <1>3 DEF StartLoad, LoadStep, LoadRow, LoadEnds, CommitLoad, LoadFails, vars
<1>5. CASE \/ \E m \in Modes : StartBuild(m)
           \/ \E s \in Sources : NewSource(s)
           \/ KillBuild
  BY <1>5, <1>2 DEF StartBuild, NewSource, KillBuild
<1>6. CASE EnsureFails \/ ReadFails \/ EmbedFails \/ UpsertFails
  BY <1>6, <1>2 DEF EnsureFails, ReadFails, EmbedFails, UpsertFails, RetryOrRaise
<1>7. CASE \/ EnsureCollection \/ ReadRow \/ EndOfSource \/ BeginBatch \/ LookUp \/ Embed
           \/ EmbedFailsFinally \/ QuotaExhausted \/ Upsert
  BY <1>7, <1>2 DEF EnsureCollection, ReadRow, EndOfSource, BeginBatch, LookUp, Embed,
     EmbedFailsFinally, QuotaExhausted, Upsert, Proceed
<1> QED
  BY <1>1, <1>4, <1>5, <1>6, <1>7, Zenon DEF Next, BuildStep

-----------------------------------------------------------------------------
(* The theorems.                                                           *)

LEMMA InductiveInit == Init => Inductive
<1> SUFFICES ASSUME Init PROVE Inductive
  OBVIOUS
<1>1. TypeOK
  BY TypeInit
<1>2. gen = 1 /\ bpc = "none" /\ lpc = "none"
  BY DEF Init
<1>3. /\ payload = [i \in Ids |-> NoVersion]
      /\ dense = [i \in Ids |-> NoVersion]
      /\ table = [i \in Ids |-> NoVersion]
  BY DEF Init
<1>4. RowsOwned(payload) /\ RowsOwned(table)
  BY <1>2, <1>3 DEF RowsOwned, NoVersion
<1>5. PointsWhole
  BY <1>3 DEF PointsWhole
<1>6. BuildInv /\ ReportInv /\ LoadInv
  BY <1>2 DEF BuildInv, BuildOver, ReportInv, ReportExact, LoadInv, LoadOver
<1> QED
  BY <1>1, <1>4, <1>5, <1>6 DEF Inductive

LEMMA InductiveStep == Inductive /\ [Next]_vars => Inductive'
<1> SUFFICES ASSUME Inductive, [Next]_vars PROVE Inductive'
  OBVIOUS
<1>1. TypeOK'
  BY TypeStep DEF Inductive
<1> QED
  BY <1>1, RowsStep, BuildStepInv, LoadStepInv, ReportStepInv DEF Inductive

\* The inductive invariant of both scripts, the index and the table.
THEOREM IngestionSoundness == Spec => []Inductive
  BY InductiveInit, InductiveStep, PTL DEF Spec

\* A run reports exactly what the index is (build_vector_index, lines 303-319).
THEOREM ReportsExact == Spec => []ReportExact
<1>1. Inductive => ReportExact
  BY DEF Inductive, ReportInv
<1> QED
  BY <1>1, IngestionSoundness, PTL

\* Without --force a dense article is left as it is (lines 241-253).
THEOREM DenseIsKept == Spec => ResumeKeepsDense
<1>1. Inductive /\ [Next]_vars =>
        [\A i \in Ids : mode # "force" /\ dense[i] # NoVersion =>
           dense'[i] = dense[i] /\ payload'[i] = payload[i]]_vars
  <2> SUFFICES ASSUME Inductive, [Next]_vars,
                      NEW i \in Ids, mode # "force", dense[i] # NoVersion
               PROVE  dense'[i] = dense[i] /\ payload'[i] = payload[i]
    OBVIOUS
  <2> USE DEF indexVars, buildVars, loadVars
  <2>1. CASE UNCHANGED <<payload, dense>>
    BY <2>1
  <2>2. CASE (Upsert \/ UpsertFails) /\ StorePending
    <3>1. bpc = "upsert"
      BY <2>2 DEF Upsert, UpsertFails
    <3>2. TypeOK /\ pending \subseteq InBatch(batch) /\ BuildResumed
      BY <3>1 DEF Inductive, BuildInv, BuildOver, BuildPends, InHand
    <3>3. CASE i \in pending
      <4>1. embedded /\ dense[i] = Row(batch[i]) /\ payload[i] = Row(batch[i])
        BY <3>1, <3>2, <3>3 DEF BuildResumed
      <4> QED
        BY <4>1, <3>2, <3>3, <2>2, StoredPoints
    <3>4. CASE i \notin pending
      BY <3>2, <3>4, <2>2, StoredPoints
    <3> QED
      BY <3>3, <3>4
  <2>3. CASE BuildStep
    BY <2>1, <2>2, <2>3 DEF BuildStep, EnsureCollection, EnsureFails, ReadRow, EndOfSource,
       BeginBatch, LookUp, ReadFails, Embed, EmbedFails, EmbedFailsFinally, QuotaExhausted,
       Upsert, UpsertFails, Verify
  <2>4. CASE LoadStep \/ LoadFails \/ StartLoad
    BY <2>1, <2>4 DEF LoadStep, LoadRow, LoadEnds, CommitLoad, LoadFails, StartLoad
  <2>5. CASE \/ \E m \in Modes : StartBuild(m)
             \/ KillBuild
             \/ \E s \in Sources : NewSource(s)
             \/ UNCHANGED vars
    BY <2>1, <2>5 DEF StartBuild, KillBuild, NewSource, vars
  <2> QED
    BY <2>3, <2>4, <2>5 DEF Next
<1> QED
  BY <1>1, IngestionSoundness, PTL DEF Spec, ResumeKeepsDense

\* After a complete load and a complete build the index and the table agree, but for
\* articles the build skipped; a forced one skips none, and one made afresh agrees
\* all the same (load_raw_articles, build_vector_index).
THEOREM IndexAndTableAgree == Spec => []IndexAgreesWithTable
<1>1. ASSUME Inductive, bpc = "complete", lpc = "done", NEW i \in SourceIds,
             i \notin skipped \/ BuiltAfresh
      PROVE  payload[i] = table[i]
  <2>0. /\ TypeOK /\ RowsOwned(payload) /\ RowsOwned(table) /\ AllLatest(table, {})
        /\ PointIds = SourceIds /\ AllLatest(payload, skipped)
    BY <1>1 DEF Inductive, LoadInv, ReportInv, ReportExact
  <2>1. i \in Ids /\ payload[i] # NoVersion /\ payload[i] \in Versions /\ table[i] \in Versions
    BY <2>0, <1>1 DEF PointIds, TypeOK
  <2>2. PICK p \in DOMAIN source : source[p] = i /\ source[p] # Bad
    BY <1>1 DEF SourceIds
  <2>3. table[i].file = gen /\ table[i].row \in DOMAIN source /\ source[table[i].row] = i
    BY <2>0, <2>1, <2>2 DEF AllLatest, RowsOwned
  <2>4. payload[i].file = gen
    BY <2>0, <2>1, <2>2, <1>1 DEF AllLatest, BuiltAfresh
  <2>5. payload[i].row \in DOMAIN source /\ source[payload[i].row] = i
    BY <2>0, <2>1, <2>4 DEF RowsOwned
  <2>6. i # Bad
    BY <2>2
  <2>7. payload[i].row = table[i].row
    <3>1. CASE i \notin skipped
      <4>1. table[i].row >= payload[i].row /\ payload[i].row >= table[i].row
        BY <3>1, <2>0, <2>3, <2>5, <2>6 DEF AllLatest
      <4> QED
        BY <4>1, <2>1 DEF Versions
    <3>2. CASE BuiltAfresh
      BY <3>2, <2>3, <2>5, <2>6 DEF BuiltAfresh
    <3> QED
      BY <3>1, <3>2, <1>1
  <2> QED
    BY <2>1, <2>3, <2>4, <2>7 DEF Versions
<1>2. Inductive /\ bpc = "complete" /\ mode = "force" => skipped = {}
  BY DEF Inductive, ReportInv
<1>3. Inductive => IndexAgreesWithTable
  BY <1>1, <1>2 DEF IndexAgreesWithTable
<1> QED
  BY <1>3, IngestionSoundness, PTL
=============================================================================
