------------------------ MODULE KnowledgeGraphProofs ------------------------
(***************************************************************************)
(* Proofs about KnowledgeGraph, for any number of builders, articles,      *)
(* issues, loads and requests.                                             *)
(***************************************************************************)
EXTENDS KnowledgeGraph, TLAPS

-----------------------------------------------------------------------------
(***************************************************************************)
(* Types                                                                   *)
(***************************************************************************)

LEMMA RowsType ==
  ASSUME NEW x \in Extractions \cup {NoRows}, NEW n \in Nat,
         x \in Extractions => x.entities \subseteq Names /\ x.relations \subseteq Names \X Names
  PROVE  RowsOf(x, n) \in Rows
BY GraphAssumption DEF RowsOf, Rows, NoRows, Keys

LEMMA NamesOfExtraction ==
  ASSUME NEW x \in Extractions
  PROVE  x.entities \subseteq Names /\ x.relations \subseteq Names \X Names
<1>1. x.entities \subseteq Names
  BY DEF Names
<1>2. x.relations \subseteq x.entities \X x.entities
  BY GraphAssumption
<1> QED
  BY <1>1, <1>2

\* The rows that an extraction becomes.
LEMMA ExtractionRows ==
  ASSUME NEW x \in Extractions \cup {NoRows}, NEW n \in Nat
  PROVE  RowsOf(x, n) \in Rows
BY RowsType, NamesOfExtraction

LEMMA ReplacedType ==
  ASSUME NEW r \in Rows, NEW g \in Rows, NEW n \in Rows
  PROVE  Replaced(r, g, n) \in Rows
BY DEF Replaced, Rows

\* Records of builders and articles, field by field.
LEMMA BlankType == Blank \in Build
BY DEF Blank, Build, Stages, NoRows, Rows

LEMMA StageType ==
  ASSUME NEW s \in Build, NEW g \in Stages
  PROVE  [s EXCEPT !.stage = g] \in Build
BY DEF Build

LEMMA DraftType ==
  ASSUME NEW s \in Build, NEW x \in Extractions, NEW g \in Stages
  PROVE  [s EXCEPT !.draft = x, !.stage = g] \in Build
BY DEF Build

LEMMA BlankStage ==
  ASSUME NEW g \in Stages, NEW n \in Nat
  PROVE  [Blank EXCEPT !.stage = g, !.count = n] \in Build
BY BlankType DEF Build

LEMMA ReadType ==
  ASSUME NEW s \in Build, NEW n \in Nat
  PROVE  [s EXCEPT !.read = n] \in Build
BY DEF Build

LEMMA SeenType ==
  ASSUME NEW s \in Build, NEW n \in Nat, NEW a \in Articles, NEW v \in Nat,
         NEW t \in Seq(Articles)
  PROVE  [s EXCEPT !.read = n, !.seen = [@ EXCEPT ![a] = v], !.left = Append(s.left, a),
                   !.todo = t, !.loaded = s.loaded \ {a}] \in Build
<1>1. /\ [s.seen EXCEPT ![a] = v] \in [Articles -> Nat]
      /\ Append(s.left, a) \in Seq(Articles)
      /\ s.loaded \ {a} \in SUBSET Articles
  BY DEF Build
<1> QED
  BY <1>1 DEF Build

LEMMA UnlockedType ==
  ASSUME NEW r \in Article
  PROVE  [r EXCEPT !.lock = None] \in Article
BY DEF Article

LEMMA SavedType ==
  ASSUME NEW r \in Article, NEW x \in Rows, NEW v \in Nat
  PROVE  [r EXCEPT !.lock = None, !.rows = x, !.marked = TRUE,
                   !.source = v] \in Article
BY DEF Article

LEMMA LoadedType ==
  ASSUME NEW r \in Article, NEW o \in BOOLEAN
  PROVE  [r EXCEPT !.version = r.version + 1, !.marked = FALSE, !.overlaid = o] \in Article
<1>1. r.version + 1 \in Nat
  BY DEF Article
<1> QED
  BY <1>1 DEF Article

\* What a step of one builder does to the records.
LEMMA BuildTyped ==
  ASSUME TypeOK, NEW b \in Builders, NEW s \in Build, build' = [build EXCEPT ![b] = s],
         UNCHANGED <<db, serial>>
  PROVE  TypeOK'
BY DEF TypeOK

LEMMA FailedType ==
  ASSUME TypeOK, NEW b \in Builders
  PROVE  Failed(b) \in Build
<1>1. build[b].count \in Nat /\ "failed" \in Stages
  BY DEF TypeOK, Build, Stages
<1> QED
  BY <1>1, BlankStage DEF Failed

LEMMA RepsType ==
  ASSUME NEW b \in Builders, NEW i \in 1..Len(Reps[b])
  PROVE  Reps[b][i] \in Articles
<1>1. Reps[b] \in Seq(Articles)
  BY GraphAssumption
<1> QED
  BY <1>1

LEMMA TypeStep ==
  ASSUME TypeOK, Inductive, [Next]_vars
  PROVE  TypeOK'
<1>1. ASSUME NEW b \in Builders, Open(b) PROVE TypeOK'
  <2>1. build[b].count + 1 \in Nat /\ "opening" \in Stages
    BY DEF TypeOK, Build, Stages
  <2>2. [Blank EXCEPT !.stage = "opening", !.count = build[b].count + 1] \in Build
    BY <2>1, BlankStage
  <2> QED
    BY <1>1, <2>2, BuildTyped DEF Open
<1>2. ASSUME NEW b \in Builders, ReadEvent(b) PROVE TypeOK'
  <2>1. PICK s \in Build : s = build[b]
    BY DEF TypeOK
  <2>2. s.read \in Nat /\ s.read < Len(Reps[b]) /\ s.todo \in Seq(Articles)
    BY <1>2, <2>1 DEF ReadEvent, Build
  <2>3. s.read + 1 \in 1..Len(Reps[b])
    BY <2>2, GraphAssumption
  <2>4. PICK a \in Articles : a = Reps[b][s.read + 1]
    BY <2>3, RepsType
  <2>5. db[a] \in Article /\ db[a].version \in Nat
    BY DEF TypeOK, Article
  <2>9. Append(s.todo, a) \in Seq(Articles)
    BY <2>2
  <2>6. PICK t \in Seq(Articles) : t = (IF db[a].marked THEN s.todo ELSE Append(s.todo, a))
    BY <2>2, <2>9
  <2>7. CASE s.seen[a] # 0
    <3>1. build' = [build EXCEPT ![b] = [s EXCEPT !.read = s.read + 1]]
      BY <1>2, <2>1, <2>4, <2>7 DEF ReadEvent
    <3>2. UNCHANGED <<db, serial>>
      BY <1>2 DEF ReadEvent
    <3>3. s.read + 1 \in Nat
      BY <2>2
    <3> QED
      BY <3>1, <3>2, <3>3, ReadType, BuildTyped
  <2>8. CASE s.seen[a] = 0
    <3>1. build' = [build EXCEPT ![b] =
            [s EXCEPT !.read = s.read + 1, !.seen = [@ EXCEPT ![a] = db[a].version],
                      !.left = Append(s.left, a), !.todo = t, !.loaded = s.loaded \ {a}]]
      BY <1>2, <2>1, <2>4, <2>6, <2>8 DEF ReadEvent
    <3>2. UNCHANGED <<db, serial>>
      BY <1>2 DEF ReadEvent
    <3>3. s.read + 1 \in Nat
      BY <2>2
    <3>4. [s EXCEPT !.read = s.read + 1, !.seen = [@ EXCEPT ![a] = db[a].version],
                    !.left = Append(s.left, a), !.todo = t, !.loaded = s.loaded \ {a}] \in Build
      BY <2>5, <3>3, SeenType
    <3> QED
      BY <3>1, <3>2, <3>4, BuildTyped
  <2> QED
    BY <2>7, <2>8
<1>3. ASSUME NEW b \in Builders, Opened(b) PROVE TypeOK'
  <2>1. build[b] \in Build /\ Onward(build[b].todo) \in Stages
    BY DEF TypeOK, Onward, Stages
  <2>2. Failed(b) \in Build
    BY FailedType
  <2>3. [build[b] EXCEPT !.stage = Onward(build[b].todo)] \in Build
    BY <2>1, StageType
  <2>4. PICK s \in Build : build' = [build EXCEPT ![b] = s]
    BY <1>3, <2>2, <2>3 DEF Opened
  <2> QED
    BY <1>3, <2>4, BuildTyped DEF Opened
<1>4. ASSUME NEW b \in Builders, Extract(b) PROVE TypeOK'
  <2>1. PICK x \in Extractions :
          build' = [build EXCEPT ![b].draft = x, ![b].stage = "saving"]
    BY <1>4 DEF Extract
  <2>2. build[b] \in Build /\ "saving" \in Stages
    BY DEF TypeOK, Stages
  <2>3. [build[b] EXCEPT !.draft = x, !.stage = "saving"] \in Build
    BY <2>2, DraftType
  <2>4. build' = [build EXCEPT ![b] = [build[b] EXCEPT !.draft = x, !.stage = "saving"]]
    BY <2>1 DEF TypeOK
  <2> QED
    BY <1>4, <2>3, <2>4, BuildTyped DEF Extract
<1>5. ASSUME NEW b \in Builders, BeginReplace(b) PROVE TypeOK'
  <2> DEFINE a == Head(build[b].todo)
  <2>1. build[b] \in Build /\ build[b].todo # <<>>
    BY <1>5 DEF BeginReplace, TypeOK, Inductive, Placed
  <2>2. a \in Articles
    BY <2>1 DEF Build
  <2>3. db[a] \in Article /\ db[a].rows \in Rows
    BY <2>2 DEF TypeOK, Article
  <2>4. db' \in [Articles -> Article]
    BY <1>5, <2>2, <2>3 DEF BeginReplace, TypeOK, Article
  <2>5. build' \in [Builders -> Build]
    BY <1>5, <2>1, <2>3 DEF BeginReplace, TypeOK, Build, Stages
  <2> QED
    BY <1>5, <2>4, <2>5 DEF BeginReplace, TypeOK
<1>6. ASSUME NEW b \in Builders, CommitReplace(b) PROVE TypeOK'
  <2>1. PICK s \in Build : s = build[b]
    BY DEF TypeOK
  <2>2. s.todo # <<>> /\ serial + 1 \in Nat
    BY <1>6, <2>1 DEF CommitReplace, TypeOK, Inductive, Placed
  <2>9. PICK a \in Articles : a = Head(s.todo) /\ Tail(s.todo) \in Seq(Articles)
    BY <2>2 DEF Build
  <2>3. /\ db[a] \in Article /\ db[a].rows \in Rows /\ s.gone \in Rows
        /\ s.seen[a] \in Nat /\ s.draft \in Extractions \cup {NoRows}
    BY DEF TypeOK, Article, Build
  <2>4. PICK n \in Rows : n = RowsOf(s.draft, serial + 1)
    BY <2>2, <2>3, ExtractionRows
  <2>5. PICK new \in Rows : new = Replaced(db[a].rows, s.gone, n)
    BY <2>3, ReplacedType
  <2>7. PICK q \in Article :
          q = [db[a] EXCEPT !.lock = None, !.rows = new, !.marked = TRUE,
                            !.source = s.seen[a]]
    BY <2>3, SavedType
  <2>11. db' = [db EXCEPT ![a] = q]
    BY <1>6, <2>1, <2>4, <2>5, <2>7, <2>9 DEF CommitReplace
  <2>12. NextPending(s) \in Build
    BY <2>9 DEF NextPending, Onward, Build, Stages, NoRows, Rows
  <2> QED
    BY <1>6, <2>1, <2>2, <2>11, <2>12 DEF CommitReplace, TypeOK
<1>7. ASSUME NEW b \in Builders, ReadEntities(b) PROVE TypeOK'
  <2> DEFINE s == build[b]
  <2>1. s \in Build /\ s.left # <<>>
    BY <1>7 DEF ReadEntities, TypeOK, Inductive, Placed
  <2>2. Head(s.left) \in Articles
    BY <2>1 DEF Build
  <2>3. db[Head(s.left)].rows.entities \in SUBSET Keys
    BY <2>2 DEF TypeOK, Article, Rows
  <2>4. [s EXCEPT !.stage = "edges", !.nodes = db[Head(s.left)].rows.entities,
                  !.edges = {}] \in Build
    BY <2>1, <2>3 DEF Build, Stages
  <2> QED
    BY <1>7, <2>4, BuildTyped DEF ReadEntities
<1>8. ASSUME NEW b \in Builders, ReadRelations(b) PROVE TypeOK'
  <2> DEFINE s == build[b]
  <2>1. s \in Build /\ s.left # <<>>
    BY <1>8 DEF ReadRelations, TypeOK, Inductive, Placed
  <2>2. Head(s.left) \in Articles /\ Tail(s.left) \in Seq(Articles)
    BY <2>1 DEF Build
  <2>3. db[Head(s.left)].rows.relations \in SUBSET (Keys \X Keys)
    BY <2>2 DEF TypeOK, Article, Rows
  <2>4. PICK g \in Stages : g = (IF Tail(s.left) = <<>> THEN "done" ELSE "nodes")
    BY DEF Stages
  <2>5. [s EXCEPT !.stage = g, !.edges = db[Head(s.left)].rows.relations,
                  !.left = Tail(s.left)] \in Build
    BY <2>1, <2>2, <2>3 DEF Build
  <2> QED
    BY <1>8, <2>4, <2>5, BuildTyped DEF ReadRelations
<1>9. ASSUME NEW b \in Builders, Fail(b) PROVE TypeOK'
  <2>1. Failed(b) \in Build
    BY FailedType
  <2>2. \A a \in Articles : Unlocked(a) \in Article
    BY UnlockedType DEF Unlocked, TypeOK
  <2> QED
    BY <1>9, <2>1, <2>2 DEF Fail, TypeOK
<1>10. ASSUME NEW A \in SUBSET Articles, Load(A) PROVE TypeOK'
  <2>1. \A a \in Articles :
          [db[a] EXCEPT !.version = db[a].version + 1, !.marked = FALSE,
                        !.overlaid = Extracting(a) # {}] \in Article
    BY LoadedType DEF TypeOK
  <2>2. \A b \in Builders : [build[b] EXCEPT !.loaded = @ \cup A] \in Build
    BY DEF TypeOK, Build
  <2> QED
    BY <1>10, <2>1, <2>2 DEF Load, TypeOK
<1>11. CASE UNCHANGED vars
  BY <1>11 DEF vars, TypeOK
<1> QED
  BY <1>1, <1>2, <1>3, <1>4, <1>5, <1>6, <1>7, <1>8, <1>9, <1>10, <1>11 DEF Next, Step

-----------------------------------------------------------------------------
(***************************************************************************)
(* The inductive invariant                                                 *)
(***************************************************************************)

\* What holds of each builder.
Kept(b) == Placed(b) /\ Current(b) /\ Covered(b) /\ Held(b)

\* A builder that stands still keeps its place, when no article is unmarked or
\* gets other content.
LEMMA OthersKept ==
  ASSUME TypeOK, Inductive, NEW c \in Builders, build'[c] = build[c],
         \A a \in Articles : /\ db'[a].version = db[a].version
                             /\ db'[a].overlaid = db[a].overlaid
                             /\ db[a].marked => db'[a].marked
  PROVE  Placed(c)' /\ Current(c)' /\ Covered(c)'
<1> USE DEF Inductive
<1>1. build[c].todo \in Seq(Articles) /\ build[c].read \in Nat /\ build[c].read <= Len(Reps[c])
  BY DEF TypeOK, Build, Placed
<1>2. Placed(c)'
  BY DEF Placed
<1>3. Current(c)'
  <2>1. \A i \in DOMAIN build[c].todo : build[c].todo[i] \in Articles
    BY <1>1
  <2> QED
    BY <2>1 DEF Current
<1>4. Covered(c)'
  <2>1. \A i \in 1..build[c].read : Reps[c][i] \in Articles
    BY <1>1, RepsType, GraphAssumption
  <2> QED
    BY <2>1 DEF Covered
<1> QED
  BY <1>2, <1>3, <1>4

\* It keeps its lock, when only articles that it has not locked change hands.
LEMMA OthersHeld ==
  ASSUME TypeOK, Inductive, NEW c \in Builders, build'[c] = build[c],
         \A a \in Articles :
           \/ db'[a].lock = db[a].lock /\ db'[a].rows = db[a].rows
           \/ db[a].lock # c /\ db'[a].lock # c
  PROVE  Held(c)'
<1>1. build[c].stage = "replacing" => Head(build[c].todo) \in Articles
  BY DEF Inductive, Placed, TypeOK, Build
<1> QED
  BY <1>1 DEF Inductive, Held

\* A step of one builder that leaves the database alone.
LEMMA BuilderStep ==
  ASSUME TypeOK, Inductive, NEW b \in Builders, NEW s \in Build,
         build' = [build EXCEPT ![b] = s], UNCHANGED <<db, serial>>,
         build'[b] = s => Kept(b)'
  PROVE  Inductive'
<1>1. \A c \in Builders : Kept(c)'
  <2>1. build'[b] = s
    BY DEF TypeOK
  <2>2. ASSUME NEW c \in Builders, c # b PROVE Kept(c)'
    <3>1. build'[c] = build[c]
      BY <2>2 DEF TypeOK
    <3> QED
      BY <3>1, OthersKept, OthersHeld DEF Kept
  <2> QED
    BY <2>1, <2>2
<1> QED
  BY <1>1 DEF Kept, Inductive, RowsWhole, StaleOnlyByOverlap

LEMMA OpenStep ==
  ASSUME TypeOK, Inductive, NEW b \in Builders, Open(b)
  PROVE  Inductive'
<1> DEFINE s == [Blank EXCEPT !.stage = "opening", !.count = build[b].count + 1]
<1>1. s \in Build
  <2>1. build[b].count + 1 \in Nat /\ "opening" \in Stages
    BY DEF TypeOK, Build, Stages
  <2> QED
    BY <2>1, BlankStage
<1>2. /\ s.stage = "opening" /\ s.read = 0 /\ s.todo = <<>>
      /\ \A a \in Articles : s.seen[a] = 0
  BY DEF Blank
<1>3. build'[b] = s /\ build' = [build EXCEPT ![b] = s] /\ UNCHANGED <<db, serial>>
  BY DEF Open, TypeOK
<1>4. \A a \in Articles : db[a].lock # b
  BY DEF Inductive, Held, Open, Working, Stages
<1> HIDE DEF s
<1>5. Len(Reps[b]) \in Nat
  BY GraphAssumption
<1>6. Placed(b)'
  BY <1>2, <1>3, <1>5 DEF Placed
<1>7. Current(b)' /\ Covered(b)'
  BY <1>2, <1>3 DEF Current, Covered
<1>8. Held(b)'
  BY <1>2, <1>3, <1>4 DEF Held
<1> QED
  BY <1>1, <1>3, <1>6, <1>7, <1>8, BuilderStep DEF Kept

LEMMA AppendNotEmpty ==
  ASSUME NEW q \in Seq(Articles), NEW a \in Articles
  PROVE  Append(q, a) # <<>>
<1>1. Len(Append(q, a)) = Len(q) + 1 /\ Len(q) \in Nat
  OBVIOUS
<1> QED
  BY <1>1

\* The article that is read next is covered, be it new or seen before.
LEMMA ReadEventStep ==
  ASSUME TypeOK, Inductive, NEW b \in Builders, ReadEvent(b)
  PROVE  Inductive'
<1>1. PICK s \in Build : s = build[b]
  BY DEF TypeOK
<1>2. /\ s.stage = "opening" /\ s.read \in Nat /\ s.read < Len(Reps[b])
      /\ s.todo \in Seq(Articles) /\ s.left \in Seq(Articles)
      /\ s.seen \in [Articles -> Nat]
  BY <1>1 DEF ReadEvent, Build
<1>3. Len(Reps[b]) \in Nat
  BY GraphAssumption
<1>11. s.read \in Nat
  BY <1>2
<1>4. s.read + 1 \in 1..Len(Reps[b]) /\ s.read + 1 <= Len(Reps[b]) /\ s.read + 1 # 0
  BY <1>2, <1>3
<1>5. PICK a \in Articles : a = Reps[b][s.read + 1]
  BY <1>4, RepsType
<1>6. UNCHANGED <<db, serial>>
  BY DEF ReadEvent
<1>7. Placed(b) /\ Current(b) /\ Covered(b) /\ Held(b)
  BY DEF Inductive
<1>8. db[a].version \in Nat /\ db[a].version # 0
  BY DEF Inductive, TypeOK, Article
<1>9. CASE s.seen[a] # 0
  <2>1. PICK r \in Build : r = [s EXCEPT !.read = s.read + 1]
    <3>1. s.read + 1 \in Nat
      BY <1>11
    <3> QED
      BY <3>1, ReadType
  <2>2. /\ r.stage = s.stage /\ r.read = s.read + 1 /\ r.seen = s.seen
        /\ r.left = s.left /\ r.todo = s.todo /\ r.loaded = s.loaded
    BY <2>1 DEF Build
  <2>3. build' = [build EXCEPT ![b] = r]
    BY <1>1, <1>5, <1>9, <2>1 DEF ReadEvent
  <2>4. build'[b] = r
    BY <2>3 DEF TypeOK
  <2>5. PICK k \in 1..s.read : Reps[b][k] = a
    BY <1>1, <1>7, <1>9 DEF Placed
  <2>6. s.left # <<>>
    BY <1>1, <1>2, <1>7, <2>5 DEF Placed
  <2>7. Placed(b)'
    <3>1. \A i \in 1..(s.read + 1) : i \in 1..s.read \/ i = s.read + 1
      BY <1>11
    <3>2. \A i \in 1..s.read : i \in 1..(s.read + 1)
      BY <1>11
    <3>3. \A i \in 1..r.read : r.seen[Reps[b][i]] # 0
      BY <1>1, <1>5, <1>7, <1>9, <2>2, <3>1 DEF Placed
    <3>4. \A d \in Articles : r.seen[d] # 0 => \E i \in 1..r.read : Reps[b][i] = d
      BY <1>1, <1>7, <2>2, <3>2 DEF Placed
    <3> QED
      BY <1>2, <1>4, <2>2, <2>4, <2>6, <3>3, <3>4 DEF Placed
  <2>8. Current(b)'
    BY <1>1, <1>6, <1>7, <2>2, <2>4 DEF Current
  <2>9. Covered(b)'
    <3>1. ASSUME NEW i \in 1..r.read
          PROVE  \E m \in 1..s.read : Reps[b][m] = Reps[b][i]
      BY <1>2, <1>5, <2>2, <2>5
    <3> QED
      BY <1>1, <1>6, <1>7, <2>2, <2>4, <3>1 DEF Covered
  <2>10. Held(b)'
    BY <1>1, <1>2, <1>6, <1>7, <2>2, <2>4 DEF Held
  <2> QED
    BY <1>6, <2>3, <2>7, <2>8, <2>9, <2>10, BuilderStep DEF Kept
<1>10. CASE s.seen[a] = 0
  <2>1. Append(s.todo, a) \in Seq(Articles) /\ Append(s.left, a) \in Seq(Articles)
    BY <1>2
  <2>2. PICK t \in Seq(Articles) : t = (IF db[a].marked THEN s.todo ELSE Append(s.todo, a))
    BY <1>2, <2>1
  <2>3. PICK r \in Build :
          r = [s EXCEPT !.read = s.read + 1, !.seen = [@ EXCEPT ![a] = db[a].version],
                        !.left = Append(s.left, a), !.todo = t, !.loaded = s.loaded \ {a}]
    <3>1. s.read + 1 \in Nat
      BY <1>2
    <3> QED
      BY <1>8, <3>1, SeenType
  <2>4. /\ r.stage = s.stage /\ r.read = s.read + 1 /\ r.seen = [s.seen EXCEPT ![a] = db[a].version]
        /\ r.left = Append(s.left, a) /\ r.todo = t /\ r.loaded = s.loaded \ {a}
    BY <2>3 DEF Build
  <2>5. build' = [build EXCEPT ![b] = r]
    BY <1>1, <1>5, <1>10, <2>2, <2>3 DEF ReadEvent
  <2>6. build'[b] = r
    BY <2>5 DEF TypeOK
  <2>7. r.seen[a] = db[a].version /\ \A d \in Articles : d # a => r.seen[d] = s.seen[d]
    BY <1>2, <2>4
  <2>8. /\ \A i \in DOMAIN t : (i \in DOMAIN s.todo /\ t[i] = s.todo[i]) \/ t[i] = a
        /\ \A i \in DOMAIN s.todo : i \in DOMAIN t /\ t[i] = s.todo[i]
        /\ ~ db[a].marked => \E i \in DOMAIN t : t[i] = a
    <3>1. CASE db[a].marked
      BY <2>2, <3>1
    <3>2. CASE ~ db[a].marked
      <4>1. t = Append(s.todo, a) /\ Len(s.todo) \in Nat
        BY <1>2, <2>2, <3>2
      <4>2. DOMAIN t = 1..(Len(s.todo) + 1) /\ DOMAIN s.todo = 1..Len(s.todo)
        BY <1>2, <4>1
      <4>3. t[Len(s.todo) + 1] = a /\ \A i \in 1..Len(s.todo) : t[i] = s.todo[i]
        BY <1>2, <4>1
      <4> QED
        BY <3>2, <4>1, <4>2, <4>3
    <3> QED
      BY <3>1, <3>2
  <2>9. \A i \in 1..(s.read + 1) : i \in 1..s.read \/ i = s.read + 1
    BY <1>11
  <2>10. \A i \in 1..s.read : Reps[b][i] \in Articles /\ Reps[b][i] # a
    <3>1. \A i \in 1..s.read : i \in 1..Len(Reps[b])
      BY <1>2, <1>3
    <3> QED
      BY <1>1, <1>7, <1>10, <3>1, RepsType DEF Placed
  <2>11. Placed(b)'
    <3>1. ASSUME NEW i \in 1..r.read PROVE r.seen[Reps[b][i]] # 0
      <4>1. CASE i \in 1..s.read
        <5>1. s.seen[Reps[b][i]] # 0
          BY <1>1, <1>7, <4>1 DEF Placed
        <5> QED
          BY <2>7, <2>10, <4>1, <5>1
      <4>2. CASE i = s.read + 1
        BY <1>5, <1>8, <2>7, <4>2
      <4> QED
        BY <2>4, <2>9, <4>1, <4>2
    <3>2. \A d \in Articles : r.seen[d] # 0 => \E i \in 1..r.read : Reps[b][i] = d
      <4>1. s.read + 1 \in 1..r.read /\ \A i \in 1..s.read : i \in 1..r.read
        BY <1>2, <2>4
      <4> QED
        BY <1>1, <1>5, <1>7, <2>7, <4>1 DEF Placed
    <3>3. r.left # <<>>
      BY <1>2, <2>4, AppendNotEmpty
    <3> QED
      BY <1>2, <1>4, <2>4, <2>6, <3>1, <3>2, <3>3 DEF Placed
  <2>12. Current(b)'
    <3>1. \A i \in DOMAIN s.todo : s.todo[i] \in Articles
      BY <1>2
    <3>2. ASSUME NEW i \in DOMAIN t
          PROVE  r.seen[t[i]] = db[t[i]].version \/ db[t[i]].overlaid
      <4>1. CASE t[i] = a
        BY <2>7, <4>1
      <4>2. CASE t[i] # a
        <5>1. i \in DOMAIN s.todo /\ t[i] = s.todo[i]
          BY <2>8, <4>2
        <5>2. s.seen[t[i]] = db[t[i]].version \/ db[t[i]].overlaid
          BY <1>1, <1>7, <5>1 DEF Current
        <5> QED
          BY <2>7, <3>1, <4>2, <5>1, <5>2
      <4> QED
        BY <4>1, <4>2
    <3> QED
      BY <1>6, <2>4, <2>6, <3>2 DEF Current
  <2>13. Covered(b)'
    <3>1. ASSUME NEW i \in 1..r.read
          PROVE  \/ db[Reps[b][i]].marked
                 \/ Reps[b][i] \in r.loaded
                 \/ \E j \in DOMAIN t : t[j] = Reps[b][i]
      <4>1. CASE i \in 1..s.read
        BY <1>1, <1>7, <2>4, <2>8, <2>10, <4>1 DEF Covered
      <4>2. CASE i = s.read + 1
        BY <1>5, <2>8, <4>2
      <4> QED
        BY <2>4, <2>9, <4>1, <4>2
    <3> QED
      BY <1>6, <2>4, <2>6, <3>1 DEF Covered
  <2>14. Held(b)'
    BY <1>1, <1>2, <1>6, <1>7, <2>4, <2>6 DEF Held
  <2> QED
    BY <1>6, <2>5, <2>11, <2>12, <2>13, <2>14, BuilderStep DEF Kept
<1> QED
  BY <1>9, <1>10

\* A step of one builder that reads no event, locks nothing, and leaves the
\* rest of pending as it is.
LEMMA PlaceStep ==
  ASSUME TypeOK, Inductive, NEW b \in Builders, NEW r \in Build,
         build' = [build EXCEPT ![b] = r], UNCHANGED <<db, serial>>,
         r.todo = build[b].todo, r.read = build[b].read, r.seen = build[b].seen,
         r.loaded = build[b].loaded,
         r.stage # "replacing", build[b].stage # "replacing",
         build'[b] = r => Placed(b)'
  PROVE  Inductive'
<1>1. build'[b] = r
  BY DEF TypeOK
<1>2. Placed(b) /\ Current(b) /\ Covered(b) /\ Held(b)
  BY DEF Inductive
<1>3. Current(b)'
  BY <1>1, <1>2 DEF Current
<1>4. Covered(b)'
  BY <1>1, <1>2 DEF Covered
<1>5. Held(b)'
  BY <1>1, <1>2 DEF Held
<1> QED
  BY <1>1, <1>3, <1>4, <1>5, BuilderStep DEF Kept

LEMMA FailedFields ==
  ASSUME NEW b \in Builders
  PROVE  /\ Failed(b).stage = "failed" /\ Failed(b).read = 0 /\ Failed(b).todo = <<>>
         /\ \A a \in Articles : Failed(b).seen[a] = 0
BY DEF Failed, Blank

\* A builder that has raised has nothing to keep but its lock, which is gone.
LEMMA FailedKept ==
  ASSUME NEW b \in Builders, build'[b] = Failed(b), \A a \in Articles : db'[a].lock # b
  PROVE  Kept(b)'
<1>1. Len(Reps[b]) \in Nat
  BY GraphAssumption
<1>2. Placed(b)'
  BY <1>1, FailedFields DEF Placed
<1>3. Current(b)' /\ Covered(b)'
  BY FailedFields DEF Current, Covered
<1>4. Held(b)'
  BY FailedFields DEF Held
<1> QED
  BY <1>2, <1>3, <1>4 DEF Kept

LEMMA OpenedStep ==
  ASSUME TypeOK, Inductive, NEW b \in Builders, Opened(b)
  PROVE  Inductive'
<1>1. UNCHANGED <<db, serial>> /\ build[b].stage = "opening" /\ build[b].read = Len(Reps[b])
  BY DEF Opened
<1>2. CASE Len(Reps[b]) <= 1
  <2>1. build' = [build EXCEPT ![b] = Failed(b)]
    BY <1>2 DEF Opened
  <2>2. \A a \in Articles : db'[a].lock # b
    BY <1>1 DEF Inductive, Held
  <2> QED
    BY <1>1, <2>1, <2>2, FailedKept, FailedType, BuilderStep
<1>3. CASE ~ Len(Reps[b]) <= 1
  <2>1. PICK s \in Build : s = build[b]
    BY DEF TypeOK
  <2>2. PICK r \in Build : r = [s EXCEPT !.stage = Onward(s.todo)]
    <3>1. Onward(s.todo) \in Stages
      BY DEF Onward, Stages
    <3> QED
      BY <3>1, StageType
  <2>3. /\ r.stage = Onward(s.todo) /\ r.read = s.read /\ r.seen = s.seen /\ r.left = s.left
        /\ r.todo = s.todo /\ r.loaded = s.loaded
    BY <2>2 DEF Build
  <2>4. build' = [build EXCEPT ![b] = r]
    BY <1>3, <2>1, <2>2 DEF Opened
  <2>5. Len(Reps[b]) \in Nat /\ s.read > 0
    BY <1>1, <1>3, <2>1, GraphAssumption
  <2>6. r.stage # "replacing"
    BY <2>3 DEF Onward
  <2>7. ASSUME build'[b] = r PROVE Placed(b)'
    <3>1. CASE s.todo = <<>>
      BY <1>1, <2>1, <2>3, <2>5, <2>7, <3>1 DEF Inductive, Placed, Onward
    <3>2. CASE s.todo # <<>>
      BY <1>1, <2>1, <2>3, <2>5, <2>7, <3>2 DEF Inductive, Placed, Onward
    <3> QED
      BY <3>1, <3>2
  <2> QED
    BY <1>1, <2>1, <2>3, <2>4, <2>6, <2>7, PlaceStep
<1> QED
  BY <1>2, <1>3

LEMMA ExtractStep ==
  ASSUME TypeOK, Inductive, NEW b \in Builders, Extract(b)
  PROVE  Inductive'
<1>1. UNCHANGED <<db, serial>> /\ build[b].stage = "extracting"
  BY DEF Extract
<1>2. PICK s \in Build : s = build[b]
  BY DEF TypeOK
<1>3. PICK x \in Extractions : build' = [build EXCEPT ![b].draft = x, ![b].stage = "saving"]
  BY DEF Extract
<1>4. PICK r \in Build : r = [s EXCEPT !.draft = x, !.stage = "saving"]
  <2>1. "saving" \in Stages
    BY DEF Stages
  <2> QED
    BY <2>1, DraftType
<1>5. /\ r.stage = "saving" /\ r.read = s.read /\ r.seen = s.seen /\ r.left = s.left
      /\ r.todo = s.todo /\ r.loaded = s.loaded /\ r.draft = x
  BY <1>4 DEF Build
<1>6. build' = [build EXCEPT ![b] = r]
  BY <1>2, <1>3, <1>4 DEF TypeOK
<1>7. ASSUME build'[b] = r PROVE Placed(b)'
  BY <1>1, <1>2, <1>5, <1>7 DEF Inductive, Placed
<1> QED
  BY <1>1, <1>2, <1>5, <1>6, <1>7, PlaceStep

LEMMA ReadEntitiesStep ==
  ASSUME TypeOK, Inductive, NEW b \in Builders, ReadEntities(b)
  PROVE  Inductive'
<1>1. UNCHANGED <<db, serial>> /\ build[b].stage = "nodes"
  BY DEF ReadEntities
<1>2. PICK s \in Build : s = build[b]
  BY DEF TypeOK
<1>3. s.left # <<>>
  BY <1>1, <1>2 DEF Inductive, Placed
<1>4. PICK a \in Articles : a = Head(s.left)
  BY <1>3 DEF Build
<1>5. db[a].rows.entities \in SUBSET Keys
  BY DEF TypeOK, Article, Rows
<1>6. PICK r \in Build :
        r = [s EXCEPT !.stage = "edges", !.nodes = db[a].rows.entities, !.edges = {}]
  BY <1>5 DEF Build, Stages
<1>7. /\ r.stage = "edges" /\ r.read = s.read /\ r.seen = s.seen /\ r.left = s.left
      /\ r.todo = s.todo /\ r.loaded = s.loaded
  BY <1>6 DEF Build
<1>8. build' = [build EXCEPT ![b] = r]
  BY <1>2, <1>4, <1>6 DEF ReadEntities
<1>9. ASSUME build'[b] = r PROVE Placed(b)'
  BY <1>1, <1>2, <1>7, <1>9 DEF Inductive, Placed
<1> QED
  BY <1>1, <1>2, <1>7, <1>8, <1>9, PlaceStep

LEMMA ReadRelationsStep ==
  ASSUME TypeOK, Inductive, NEW b \in Builders, ReadRelations(b)
  PROVE  Inductive'
<1>1. UNCHANGED <<db, serial>> /\ build[b].stage = "edges"
  BY DEF ReadRelations
<1>2. PICK s \in Build : s = build[b]
  BY DEF TypeOK
<1>3. s.left # <<>>
  BY <1>1, <1>2 DEF Inductive, Placed
<1>4. PICK a \in Articles : a = Head(s.left) /\ Tail(s.left) \in Seq(Articles)
  BY <1>3 DEF Build
<1>5. db[a].rows.relations \in SUBSET (Keys \X Keys)
  BY DEF TypeOK, Article, Rows
<1>6. PICK g \in Stages : g = (IF Tail(s.left) = <<>> THEN "done" ELSE "nodes")
  BY DEF Stages
<1>7. PICK r \in Build :
        r = [s EXCEPT !.stage = g, !.edges = db[a].rows.relations, !.left = Tail(s.left)]
  BY <1>4, <1>5 DEF Build
<1>8. /\ r.stage = g /\ r.read = s.read /\ r.seen = s.seen /\ r.left = Tail(s.left)
      /\ r.todo = s.todo /\ r.loaded = s.loaded
  BY <1>7 DEF Build
<1>9. build' = [build EXCEPT ![b] = r]
  BY <1>2, <1>4, <1>6, <1>7 DEF ReadRelations
<1>10. ASSUME build'[b] = r PROVE Placed(b)'
  <2>1. s.todo = <<>> /\ Placed(b)
    BY <1>1, <1>2 DEF Inductive, Placed
  <2>2. CASE Tail(s.left) = <<>>
    <3>1. r.stage = "done"
      BY <1>6, <1>8, <2>2
    <3> QED
      BY <1>1, <1>2, <1>8, <1>10, <2>1, <3>1 DEF Placed
  <2>3. CASE Tail(s.left) # <<>>
    <3>1. r.stage = "nodes" /\ r.left # <<>>
      BY <1>6, <1>8, <2>3
    <3> QED
      BY <1>1, <1>2, <1>8, <1>10, <2>1, <3>1 DEF Placed
  <2> QED
    BY <2>2, <2>3
<1>11. r.stage # "replacing"
  BY <1>6, <1>8
<1> QED
  BY <1>1, <1>2, <1>8, <1>9, <1>10, <1>11, PlaceStep

\* The update lock is taken: nothing else about the articles changes.
LEMMA BeginReplaceStep ==
  ASSUME TypeOK, Inductive, NEW b \in Builders, BeginReplace(b)
  PROVE  Inductive'
<1>1. PICK s \in Build : s = build[b]
  BY DEF TypeOK
<1>2. s.stage = "saving" /\ s.todo # <<>> /\ Placed(b)
  BY <1>1 DEF BeginReplace, Inductive, Placed
<1>3. PICK a \in Articles : a = Head(s.todo)
  BY <1>2 DEF Build
<1>4. db[a].lock = None /\ serial' = serial
  BY <1>1, <1>3 DEF BeginReplace
<1>5. /\ \A d \in Articles \ {a} : db'[d] = db[d]
      /\ db'[a].lock = b
      /\ \A d \in Articles : /\ db'[d].version = db[d].version
                             /\ db'[d].overlaid = db[d].overlaid
                             /\ db'[d].marked = db[d].marked
                             /\ db'[d].rows = db[d].rows
                             /\ db'[d].source = db[d].source
  <2>1. db' = [db EXCEPT ![a] = [db[a] EXCEPT !.lock = b]] /\ db[a] \in Article
    BY <1>1, <1>3 DEF BeginReplace, TypeOK
  <2>2. PICK q : q = [db[a] EXCEPT !.lock = b]
    OBVIOUS
  <2>3. /\ q.lock = b /\ q.version = db[a].version /\ q.overlaid = db[a].overlaid
        /\ q.marked = db[a].marked /\ q.rows = db[a].rows /\ q.source = db[a].source
    BY <2>1, <2>2 DEF Article
  <2> QED
    BY <2>1, <2>2, <2>3 DEF TypeOK
<1>6. PICK r \in Build : r = [s EXCEPT !.stage = "replacing", !.gone = db[a].rows]
  <2>1. db[a].rows \in Rows
    BY DEF TypeOK, Article
  <2> QED
    BY <2>1 DEF Build, Stages
<1>7. /\ r.stage = "replacing" /\ r.read = s.read /\ r.seen = s.seen /\ r.left = s.left
      /\ r.todo = s.todo /\ r.loaded = s.loaded /\ r.draft = s.draft /\ r.gone = db[a].rows
  BY <1>6 DEF Build
<1>8. build'[b] = r /\ \A c \in Builders \ {b} : build'[c] = build[c]
  <2>1. build' = [build EXCEPT ![b] = r]
    BY <1>1, <1>3, <1>6 DEF BeginReplace, TypeOK
  <2> QED
    BY <2>1 DEF TypeOK
<1>9. \A c \in Builders \ {b} : Kept(c)'
  <2>1. \A c \in Builders \ {b} : c # None
    BY GraphAssumption DEF None
  <2> QED
    BY <1>4, <1>5, <1>8, <2>1, OthersKept, OthersHeld DEF Kept
<1>10. Placed(b)'
  BY <1>1, <1>2, <1>7, <1>8 DEF Placed
<1>11. Current(b)'
  <2>1. \A i \in DOMAIN s.todo : s.todo[i] \in Articles
    BY DEF Build
  <2> QED
    BY <1>1, <1>5, <1>7, <1>8, <2>1 DEF Inductive, Current
<1>12. Covered(b)'
  <2>1. \A i \in 1..s.read : Reps[b][i] \in Articles
    BY <1>1, <1>2, RepsType, GraphAssumption DEF Placed, Build
  <2> QED
    BY <1>1, <1>5, <1>7, <1>8, <2>1 DEF Inductive, Covered
<1>13. Held(b)'
  <2>1. \A d \in Articles : db[d].lock # b
    BY <1>1, <1>2 DEF Inductive, Held
  <2> QED
    BY <1>3, <1>5, <1>7, <1>8, <2>1 DEF Held
<1>14. \A c \in Builders : Kept(c)'
  BY <1>9, <1>10, <1>11, <1>12, <1>13 DEF Kept
<1>15. \A d \in Articles : db'[d].version # 0
  BY <1>5 DEF Inductive
<1>16. RowsWhole'
  BY <1>4, <1>5 DEF Inductive, RowsWhole
<1>17. StaleOnlyByOverlap'
  BY <1>5 DEF Inductive, StaleOnlyByOverlap
<1> QED
  BY <1>14, <1>15, <1>16, <1>17 DEF Kept, Inductive

\* A transaction that rolls back only gives its locks up.
LEMMA FailStep ==
  ASSUME TypeOK, Inductive, NEW b \in Builders, Fail(b)
  PROVE  Inductive'
<1>1. serial' = serial
  BY DEF Fail
<1>2. \A d \in Articles :
        /\ db[d].lock # b => db'[d].lock = db[d].lock
        /\ db'[d].lock # b
        /\ db[d].lock = b => db'[d].lock = None
        /\ db'[d].version = db[d].version
        /\ db'[d].overlaid = db[d].overlaid
        /\ db'[d].marked = db[d].marked
        /\ db'[d].rows = db[d].rows
        /\ db'[d].source = db[d].source
  <2>1. ASSUME NEW d \in Articles
        PROVE  /\ Unlocked(d).lock = None /\ Unlocked(d).version = db[d].version
               /\ Unlocked(d).overlaid = db[d].overlaid /\ Unlocked(d).marked = db[d].marked
               /\ Unlocked(d).rows = db[d].rows /\ Unlocked(d).source = db[d].source
    BY DEF Unlocked, TypeOK, Article
  <2>2. None # b
    BY GraphAssumption DEF None
  <2>3. \A d \in Articles : db'[d] = IF db[d].lock = b THEN Unlocked(d) ELSE db[d]
    BY DEF Fail
  <2> QED
    BY <2>1, <2>2, <2>3
<1>3. build'[b] = Failed(b) /\ \A c \in Builders \ {b} : build'[c] = build[c]
  BY DEF Fail, TypeOK
<1>4. Kept(b)'
  BY <1>2, <1>3, FailedKept
<1>5. \A c \in Builders \ {b} : Kept(c)'
  <2>1. \A c \in Builders \ {b} : c # None
    BY GraphAssumption DEF None
  <2> QED
    BY <1>2, <1>3, <2>1, OthersKept, OthersHeld DEF Kept
<1>6. \A d \in Articles : db'[d].version # 0
  BY <1>2 DEF Inductive
<1>7. RowsWhole'
  BY <1>1, <1>2 DEF Inductive, RowsWhole
<1>8. StaleOnlyByOverlap'
  BY <1>2 DEF Inductive, StaleOnlyByOverlap
<1> QED
  BY <1>4, <1>5, <1>6, <1>7, <1>8 DEF Kept, Inductive

LEMMA NoRowsOf ==
  ASSUME NEW n \in Nat
  PROVE  RowsOf(NoRows, n) = NoRows
BY DEF RowsOf, NoRows

\* Deleting all there is leaves nothing but what is inserted.
LEMMA ReplacedAll ==
  ASSUME NEW r, NEW new \in Rows
  PROVE  Replaced(r, r, new) = new
BY DEF Replaced, Rows

\* What a commit does to the article and to its builder.
Committed(b, s, a, r) ==
  /\ s.todo # <<>> /\ a = s.todo[1] /\ a = Head(s.todo)
  /\ db[a].lock = b /\ s.draft \in Extractions
  /\ \A d \in Articles \ {a} : db'[d] = db[d]
  /\ db'[a].lock = None /\ db'[a].marked = TRUE
  /\ db'[a].version = db[a].version /\ db'[a].overlaid = db[a].overlaid
  /\ db'[a].source = s.seen[a]
  /\ db'[a].rows = RowsOf(s.draft, serial + 1)
  /\ r.stage = Onward(Tail(s.todo)) /\ r.todo = Tail(s.todo)
  /\ r.read = s.read /\ r.seen = s.seen /\ r.left = s.left /\ r.loaded = s.loaded
  /\ build' = [build EXCEPT ![b] = r]

LEMMA CommitFacts ==
  ASSUME TypeOK, Inductive, NEW b \in Builders, CommitReplace(b),
         NEW s \in Build, s = build[b]
  PROVE  \E a \in Articles, r \in Build : Committed(b, s, a, r)
<1>1. s.stage = "replacing" /\ s.todo # <<>> /\ s.draft \in Extractions
  BY DEF CommitReplace, Inductive, Placed
<1>2. PICK a \in Articles : a = Head(s.todo) /\ Tail(s.todo) \in Seq(Articles)
  BY <1>1 DEF Build
<1>3. a = s.todo[1]
  BY <1>1, <1>2 DEF Build
<1>4. db[a].lock = b /\ s.gone = db[a].rows
  BY <1>1, <1>2 DEF Inductive, Held
<1>5. PICK new \in Rows : new = RowsOf(s.draft, serial + 1)
  <2>1. serial + 1 \in Nat
    BY DEF TypeOK
  <2> QED
    BY <1>1, <2>1, ExtractionRows
<1>6. Replaced(db[a].rows, s.gone, RowsOf(s.draft, serial + 1)) = new
  BY <1>4, <1>5, ReplacedAll
<1>7. PICK q : q = [db[a] EXCEPT !.lock = None, !.rows = new, !.marked = TRUE,
                                 !.source = s.seen[a]]
  OBVIOUS
<1>8. /\ q.lock = None /\ q.marked = TRUE /\ q.version = db[a].version
      /\ q.overlaid = db[a].overlaid /\ q.source = s.seen[a] /\ q.rows = new
  BY <1>7 DEF TypeOK, Article
<1>9. db' = [db EXCEPT ![a] = q]
  BY <1>2, <1>6, <1>7 DEF CommitReplace
<1>10. PICK r \in Build : r = NextPending(s)
  BY <1>2 DEF NextPending, Onward, Build, Stages, NoRows, Rows
<1>11. /\ r.stage = Onward(Tail(s.todo)) /\ r.todo = Tail(s.todo)
       /\ r.read = s.read /\ r.seen = s.seen /\ r.left = s.left /\ r.loaded = s.loaded
  BY <1>10 DEF NextPending, Build
<1>12. build' = [build EXCEPT ![b] = r]
  BY <1>10 DEF CommitReplace
<1>13. db'[a] = q /\ \A d \in Articles \ {a} : db'[d] = db[d]
  BY <1>9 DEF TypeOK
<1>14. /\ db'[a].lock = None /\ db'[a].marked = TRUE
       /\ db'[a].version = db[a].version /\ db'[a].overlaid = db[a].overlaid
       /\ db'[a].source = s.seen[a]
       /\ db'[a].rows = RowsOf(s.draft, serial + 1)
  BY <1>5, <1>8, <1>13
<1> QED
  BY <1>1, <1>2, <1>3, <1>4, <1>11, <1>12, <1>13, <1>14 DEF Committed

\* A step from one pending article to the next.
LEMMA TailIndices ==
  ASSUME NEW q \in Seq(Articles), q # <<>>
  PROVE  /\ \A i \in DOMAIN Tail(q) : i + 1 \in DOMAIN q /\ Tail(q)[i] = q[i + 1]
         /\ \A i \in DOMAIN q : i = 1 \/ (i - 1 \in DOMAIN Tail(q) /\ Tail(q)[i - 1] = q[i])
         /\ 1 \in DOMAIN q
<1>1. Len(q) \in Nat /\ Len(q) > 0 /\ DOMAIN q = 1..Len(q)
  OBVIOUS
<1>2. Len(Tail(q)) = Len(q) - 1 /\ DOMAIN Tail(q) = 1..(Len(q) - 1)
  BY <1>1
<1>3. \A i \in 1..(Len(q) - 1) : Tail(q)[i] = q[i + 1]
  BY <1>1
<1> QED
  BY <1>1, <1>2, <1>3

LEMMA CommitReplaceStep ==
  ASSUME TypeOK, Inductive, NEW b \in Builders, CommitReplace(b)
  PROVE  Inductive'
<1>1. PICK s \in Build : s = build[b]
  BY DEF TypeOK
<1>17. PICK a \in Articles, r \in Build : Committed(b, s, a, r)
  BY <1>1, CommitFacts
<1>2. /\ s.todo # <<>> /\ a = s.todo[1] /\ a = Head(s.todo)
      /\ db[a].lock = b /\ s.draft \in Extractions
      /\ \A d \in Articles \ {a} : db'[d] = db[d]
      /\ db'[a].lock = None /\ db'[a].marked = TRUE
      /\ db'[a].version = db[a].version /\ db'[a].overlaid = db[a].overlaid
      /\ db'[a].source = s.seen[a]
      /\ db'[a].rows = RowsOf(s.draft, serial + 1)
      /\ r.stage = Onward(Tail(s.todo)) /\ r.todo = Tail(s.todo)
      /\ r.read = s.read /\ r.seen = s.seen /\ r.left = s.left /\ r.loaded = s.loaded
      /\ build' = [build EXCEPT ![b] = r]
  BY <1>17 DEF Committed
<1>3. /\ Placed(b) /\ Current(b) /\ Covered(b) /\ Held(b)
      /\ s.stage = "replacing"
  BY <1>1 DEF Inductive, CommitReplace
<1>4. build'[b] = r /\ \A c \in Builders \ {b} : build'[c] = build[c]
  BY <1>2 DEF TypeOK
<1>5. \A d \in Articles : /\ db'[d].version = db[d].version
                          /\ db'[d].overlaid = db[d].overlaid
                          /\ db[d].marked => db'[d].marked
  BY <1>2
<1>6. \A c \in Builders \ {b} : Kept(c)'
  <2>1. \A c \in Builders \ {b} : c # None
    BY GraphAssumption DEF None
  <2> QED
    BY <1>2, <1>4, <1>5, <2>1, OthersKept, OthersHeld DEF Kept
<1>7. s.todo \in Seq(Articles) /\ s.read \in Nat
  BY DEF Build
<1>15. /\ r.stage = Onward(Tail(s.todo)) /\ r.todo = Tail(s.todo)
       /\ r.read = s.read /\ r.seen = s.seen /\ r.left = s.left /\ r.loaded = s.loaded
       /\ build'[b] = r
  BY <1>2, <1>4
<1>16. s.todo # <<>> /\ a = s.todo[1] /\ db'[a].marked = TRUE
  BY <1>2
<1>8. Placed(b)'
  <2>1. s.left # <<>> /\ s.read = Len(Reps[b])
    BY <1>1, <1>3 DEF Placed
  <2>2. CASE Tail(s.todo) = <<>>
    <3>1. r.stage = "nodes" /\ r.todo = <<>>
      BY <1>15, <2>2 DEF Onward
    <3> QED
      BY <1>1, <1>3, <1>15, <2>1, <3>1 DEF Placed
  <2>3. CASE Tail(s.todo) # <<>>
    <3>1. r.stage = "extracting" /\ r.todo # <<>>
      BY <1>15, <2>3 DEF Onward
    <3> QED
      BY <1>1, <1>3, <1>15, <2>1, <3>1 DEF Placed
  <2> QED
    BY <2>2, <2>3
<1>9. Current(b)'
  <2>1. ASSUME NEW i \in DOMAIN r.todo
        PROVE  r.seen[r.todo[i]] = db'[r.todo[i]].version \/ db'[r.todo[i]].overlaid
    <3>1. i + 1 \in DOMAIN s.todo /\ r.todo[i] = s.todo[i + 1]
      BY <1>2, <1>7, <2>1, TailIndices
    <3>2. s.todo[i + 1] \in Articles
      BY <1>7, <3>1
    <3> QED
      BY <1>1, <1>2, <1>3, <1>5, <3>1, <3>2 DEF Current
  <2> QED
    BY <1>4, <2>1 DEF Current
<1>10. Covered(b)'
  <2>1. ASSUME NEW i \in 1..s.read
        PROVE  \/ db'[Reps[b][i]].marked
               \/ Reps[b][i] \in s.loaded
               \/ \E j \in DOMAIN r.todo : r.todo[j] = Reps[b][i]
    <3>1. Reps[b][i] \in Articles
      <4>1. i \in 1..Len(Reps[b])
        BY <1>1, <1>3, <1>7, GraphAssumption DEF Placed
      <4> QED
        BY <4>1, RepsType
    <3>2. CASE \E j \in DOMAIN s.todo : s.todo[j] = Reps[b][i]
      <4>1. PICK j \in DOMAIN s.todo : s.todo[j] = Reps[b][i]
        BY <3>2
      <4>2. CASE j = 1
        BY <1>16, <4>1, <4>2
      <4>3. CASE j # 1
        <5>1. j - 1 \in DOMAIN r.todo /\ r.todo[j - 1] = s.todo[j]
          BY <1>7, <1>15, <1>16, <4>3, TailIndices
        <5> QED
          BY <4>1, <5>1
      <4> QED
        BY <4>2, <4>3
    <3> QED
      BY <1>1, <1>3, <1>5, <3>1, <3>2 DEF Covered
  <2> QED
    BY <1>15, <2>1 DEF Covered
<1>11. Held(b)'
  <2>1. \A d \in Articles : db[d].lock = b => d = a
    BY <1>1, <1>2, <1>3 DEF Held
  <2>2. None # b
    BY GraphAssumption DEF None
  <2>3. r.stage # "replacing"
    BY <1>2 DEF Onward
  <2> QED
    BY <1>2, <1>4, <2>1, <2>2, <2>3 DEF Held
<1>12. \A d \in Articles : db'[d].version # 0
  BY <1>5 DEF Inductive
<1>13. RowsWhole'
  <2>1. serial \in Nat /\ serial' = serial + 1
    BY DEF CommitReplace, TypeOK
  <2>2. serial + 1 \in 1..serial' /\ \A n \in 1..serial : n \in 1..serial'
    BY <2>1
  <2> QED
    BY <1>2, <2>1, <2>2 DEF Inductive, RowsWhole
<1>14. StaleOnlyByOverlap'
  <2>1. s.seen[a] = db[a].version \/ db[a].overlaid
    BY <1>1, <1>2, <1>3, <1>7, TailIndices DEF Current
  <2> QED
    BY <1>2, <2>1 DEF Inductive, StaleOnlyByOverlap
<1> QED
  BY <1>4, <1>6, <1>8, <1>9, <1>10, <1>11, <1>12, <1>13, <1>14 DEF Kept, Inductive

\* A load takes every mark away; whoever was extracting the content has a reason
\* on record why its graph will be an old one.
LEMMA LoadStep ==
  ASSUME TypeOK, Inductive, NEW A \in SUBSET Articles, Load(A)
  PROVE  Inductive'
<1>1. serial' = serial /\ \A a \in A : db[a].lock = None
  BY DEF Load
<1>2. \A d \in Articles \ A : db'[d] = db[d]
  BY DEF Load
<1>3. \A a \in A : /\ db'[a].lock = db[a].lock /\ db'[a].rows = db[a].rows
                   /\ db'[a].marked = FALSE /\ db'[a].version = db[a].version + 1
                   /\ db'[a].overlaid = (Extracting(a) # {})
  <2>1. ASSUME NEW a \in A
        PROVE  LET q == [db[a] EXCEPT !.version = db[a].version + 1, !.marked = FALSE, !.overlaid = Extracting(a) # {}]
               IN  /\ q.lock = db[a].lock /\ q.rows = db[a].rows
                   /\ q.marked = FALSE /\ q.version = db[a].version + 1
                   /\ q.overlaid = (Extracting(a) # {})
    <3>1. db[a] \in Article
      BY DEF TypeOK
    <3> QED
      BY <3>1 DEF Article
  <2> QED
    BY <2>1 DEF Load
<1>4. ASSUME NEW c \in Builders PROVE Kept(c)'
  <2>1. PICK s \in Build : s = build[c]
    BY DEF TypeOK
  <2>2. PICK r \in Build : r = [s EXCEPT !.loaded = s.loaded \cup A]
    BY DEF Build
  <2>3. /\ r.stage = s.stage /\ r.todo = s.todo /\ r.read = s.read /\ r.seen = s.seen
        /\ r.left = s.left /\ r.loaded = s.loaded \cup A /\ r.draft = s.draft
        /\ r.gone = s.gone
    BY <2>2 DEF Build
  <2>4. build'[c] = r
    BY <2>1, <2>2 DEF Load
  <2>5. Placed(c) /\ Current(c) /\ Covered(c) /\ Held(c)
    BY DEF Inductive
  <2>6. Placed(c)'
    BY <2>1, <2>3, <2>4, <2>5 DEF Placed
  <2>7. Current(c)'
    <3>1. ASSUME NEW i \in DOMAIN s.todo
          PROVE  s.seen[s.todo[i]] = db'[s.todo[i]].version \/ db'[s.todo[i]].overlaid
      <4>1. s.todo[i] \in Articles
        BY DEF Build
      <4>2. CASE s.todo[i] \in A
        <5>1. c \in Extracting(s.todo[i])
          BY <2>1 DEF Extracting
        <5> QED
          BY <1>3, <4>2, <5>1
      <4>3. CASE s.todo[i] \notin A
        BY <1>2, <2>1, <2>5, <4>1, <4>3 DEF Current
      <4> QED
        BY <4>2, <4>3
    <3> QED
      BY <2>3, <2>4, <3>1 DEF Current
  <2>8. Covered(c)'
    <3>1. \A i \in 1..s.read : Reps[c][i] \in Articles
      <4>1. s.read \in Nat /\ s.read <= Len(Reps[c]) /\ Len(Reps[c]) \in Nat
        BY <2>1, <2>5, GraphAssumption DEF Placed, Build
      <4>2. \A i \in 1..s.read : i \in 1..Len(Reps[c])
        BY <4>1
      <4> QED
        BY <4>2, RepsType
    <3> QED
      BY <1>2, <2>1, <2>3, <2>4, <2>5, <3>1 DEF Covered
  <2>9. Held(c)'
    <3>1. s.stage = "replacing" => Head(s.todo) \in Articles
      BY <2>1, <2>5 DEF Placed, Build
    <3>2. \A d \in Articles : db'[d].lock = db[d].lock /\ db'[d].rows = db[d].rows
      BY <1>2, <1>3
    <3> QED
      BY <2>1, <2>3, <2>4, <2>5, <3>1, <3>2 DEF Held
  <2> QED
    BY <2>6, <2>7, <2>8, <2>9 DEF Kept
<1>5. \A d \in Articles : db'[d].version # 0
  <2>1. \A d \in Articles : db[d].version \in Nat /\ db[d].version # 0
    BY DEF TypeOK, Article, Inductive
  <2> QED
    BY <1>2, <1>3, <2>1
<1>6. RowsWhole'
  BY <1>1, <1>2, <1>3 DEF Inductive, RowsWhole
<1>7. StaleOnlyByOverlap'
  BY <1>2, <1>3 DEF Inductive, StaleOnlyByOverlap
<1> QED
  BY <1>4, <1>5, <1>6, <1>7 DEF Kept, Inductive

-----------------------------------------------------------------------------
(***************************************************************************)
(* Theorems                                                                *)
(***************************************************************************)

LEMMA InitFacts ==
  ASSUME Init
  PROVE  TypeOK /\ Inductive
<1>1. \A a \in Articles :
        /\ db[a].version = 1 /\ db[a].marked = FALSE /\ db[a].rows = NoRows
        /\ db[a].lock = None
  BY DEF Init
<1>2. \A b \in Builders : build[b] = Blank
  BY DEF Init
<1>3. Blank.stage = "idle" /\ Blank.read = 0 /\ Blank.todo = <<>>
      /\ \A a \in Articles : Blank.seen[a] = 0
  BY DEF Blank
<1>4. TypeOK
  <2>1. db \in [Articles -> Article]
    BY DEF Init, Article, NoRows, Rows
  <2>2. build \in [Builders -> Build]
    BY BlankType DEF Init
  <2> QED
    BY <2>1, <2>2 DEF Init, TypeOK
<1>5. ASSUME NEW b \in Builders PROVE Placed(b) /\ Current(b) /\ Covered(b) /\ Held(b)
  <2>1. Len(Reps[b]) \in Nat /\ b # None
    BY GraphAssumption DEF None
  <2>2. Placed(b)
    BY <1>2, <1>3, <2>1 DEF Placed
  <2>3. Current(b) /\ Covered(b)
    BY <1>2, <1>3 DEF Current, Covered
  <2>4. Held(b)
    BY <1>1, <1>2, <1>3, <2>1 DEF Held
  <2> QED
    BY <2>2, <2>3, <2>4
<1>6. \A a \in Articles : db[a].version # 0
  BY <1>1
<1>7. RowsWhole /\ StaleOnlyByOverlap
  BY <1>1 DEF RowsWhole, StaleOnlyByOverlap
<1> QED
  BY <1>4, <1>5, <1>6, <1>7 DEF Inductive

LEMMA InductiveStep ==
  ASSUME TypeOK, Inductive, [Next]_vars
  PROVE  Inductive'
<1>1. ASSUME NEW b \in Builders, Open(b) PROVE Inductive'
  BY <1>1, OpenStep
<1>2. ASSUME NEW b \in Builders, ReadEvent(b) PROVE Inductive'
  BY <1>2, ReadEventStep
<1>3. ASSUME NEW b \in Builders, Opened(b) PROVE Inductive'
  BY <1>3, OpenedStep
<1>4. ASSUME NEW b \in Builders, Extract(b) PROVE Inductive'
  BY <1>4, ExtractStep
<1>5. ASSUME NEW b \in Builders, BeginReplace(b) PROVE Inductive'
  BY <1>5, BeginReplaceStep
<1>6. ASSUME NEW b \in Builders, CommitReplace(b) PROVE Inductive'
  BY <1>6, CommitReplaceStep
<1>7. ASSUME NEW b \in Builders, ReadEntities(b) PROVE Inductive'
  BY <1>7, ReadEntitiesStep
<1>8. ASSUME NEW b \in Builders, ReadRelations(b) PROVE Inductive'
  BY <1>8, ReadRelationsStep
<1>9. ASSUME NEW b \in Builders, Fail(b) PROVE Inductive'
  BY <1>9, FailStep
<1>10. ASSUME NEW A \in SUBSET Articles, Load(A) PROVE Inductive'
  BY <1>10, LoadStep
<1>11. CASE UNCHANGED vars
  BY <1>11 DEF vars, Inductive, Placed, Current, Covered, Held, RowsWhole,
               StaleOnlyByOverlap
<1> QED
  BY <1>1, <1>2, <1>3, <1>4, <1>5, <1>6, <1>7, <1>8, <1>9, <1>10, <1>11 DEF Next, Step

\* The variables keep their types, and the inductive invariant holds, whatever
\* the builders (graph.py build), their transactions and the loader do.
THEOREM GraphInvariant == Spec => [](TypeOK /\ Inductive)
<1>1. Init => TypeOK /\ Inductive
  BY InitFacts
<1>2. TypeOK /\ Inductive /\ [Next]_vars => (TypeOK /\ Inductive)'
  BY TypeStep, InductiveStep
<1> QED
  BY <1>1, <1>2, PTL DEF Spec

\* Committed graphs are never a mixture: the update lock of
\* replace_article_graph (repository.py) keeps any number of builders apart.
THEOREM RowsAlwaysWhole == Spec => []RowsWhole
<1>1. TypeOK /\ Inductive => RowsWhole
  BY DEF Inductive
<1> QED
  BY <1>1, GraphInvariant, PTL

\* A mark vouches for the graph of the present content, except where a load
\* overlapped with an extraction (upsert_articles against build).
THEOREM StaleOnlyWhenOverlapped == Spec => []StaleOnlyByOverlap
<1>1. TypeOK /\ Inductive => StaleOnlyByOverlap
  BY DEF Inductive
<1> QED
  BY <1>1, GraphInvariant, PTL

\* A build that has run through (graph.py, end of build) leaves every
\* representative extracted, unless it was loaded meanwhile.
THEOREM FinishedExtracted == Spec => []FinishedMeansExtracted
<1>1. TypeOK /\ Inductive => FinishedMeansExtracted
  <2> SUFFICES ASSUME TypeOK, Inductive, NEW b \in Builders, build[b].stage = "done",
                      NEW i \in DOMAIN Reps[b]
               PROVE  db[Reps[b][i]].marked \/ Reps[b][i] \in build[b].loaded
    BY DEF FinishedMeansExtracted
  <2>1. build[b].todo = <<>> /\ build[b].read = Len(Reps[b])
    BY DEF Inductive, Placed
  <2>2. i \in 1..build[b].read
    <3>1. DOMAIN Reps[b] = 1..Len(Reps[b])
      BY GraphAssumption
    <3> QED
      BY <2>1, <3>1
  <2>3. Covered(b)
    BY DEF Inductive
  <2> QED
    BY <2>1, <2>2, <2>3 DEF Covered
<1> QED
  BY <1>1, GraphInvariant, PTL

\* One transaction at a time works on an article, and it has deleted all there
\* was (repository.py replace_article_graph).
THEOREM ReplacementsAlone == Spec => []ReplacementAlone
<1>1. TypeOK /\ Inductive => ReplacementAlone
  BY DEF Inductive, Held, ReplacementAlone
<1> QED
  BY <1>1, GraphInvariant, PTL

\* What the catalogue sees of an article that keeps its rows and its mark.
LEMMA CatalogueStutters ==
  ASSUME \A a \in Articles : db'[a].rows = db[a].rows /\ db'[a].marked = db[a].marked,
         serial' = serial
  PROVE  UNCHANGED Catalogue!vars
<1>1. [a \in Articles |-> db'[a].rows] = [a \in Articles |-> db[a].rows]
  OBVIOUS
<1>2. {a \in Articles : db'[a].marked} = {a \in Articles : db[a].marked}
  OBVIOUS
<1> QED
  BY <1>1, <1>2 DEF Catalogue!vars

LEMMA CommitReplaces ==
  ASSUME TypeOK, Inductive, NEW b \in Builders, CommitReplace(b)
  PROVE  Catalogue!Next
<1>1. PICK s \in Build : s = build[b]
  BY DEF TypeOK
<1>8. PICK a \in Articles, r \in Build : Committed(b, s, a, r)
  BY <1>1, CommitFacts
<1>2. /\ s.draft \in Extractions
      /\ \A d \in Articles \ {a} : db'[d] = db[d]
      /\ db'[a].marked = TRUE
      /\ db'[a].rows = RowsOf(s.draft, serial + 1)
  BY <1>8 DEF Committed
<1>3. RowsOf(s.draft, serial + 1) = Catalogue!RowsOf(s.draft, serial + 1)
  BY DEF RowsOf, Catalogue!RowsOf
<1>4. [d \in Articles |-> db'[d].rows]
        = [[d \in Articles |-> db[d].rows] EXCEPT ![a] = RowsOf(s.draft, serial + 1)]
  BY <1>2
<1>5. {d \in Articles : db'[d].marked} = {d \in Articles : db[d].marked} \cup {a}
  BY <1>2
<1>6. serial' = serial + 1
  BY DEF CommitReplace
<1>7. Catalogue!Replace(a, s.draft)
  BY <1>3, <1>4, <1>5, <1>6 DEF Catalogue!Replace
<1> QED
  BY <1>2, <1>7 DEF Catalogue!Next

LEMMA LoadLoads ==
  ASSUME TypeOK, NEW A \in SUBSET Articles, Load(A)
  PROVE  Catalogue!Next
<1>1. \A d \in Articles : /\ db'[d].rows = db[d].rows
                          /\ db'[d].marked = (IF d \in A THEN FALSE ELSE db[d].marked)
  <2>1. ASSUME NEW d \in A
        PROVE  LET q == [db[d] EXCEPT !.version = db[d].version + 1, !.marked = FALSE, !.overlaid = Extracting(d) # {}]
               IN  q.rows = db[d].rows /\ q.marked = FALSE
    BY DEF TypeOK, Article
  <2> QED
    BY <2>1 DEF Load
<1>2. [d \in Articles |-> db'[d].rows] = [d \in Articles |-> db[d].rows]
  BY <1>1
<1>3. {d \in Articles : db'[d].marked} = {d \in Articles : db[d].marked} \ A
  BY <1>1
<1>4. serial' = serial
  BY DEF Load
<1>5. Catalogue!Load(A)
  BY <1>2, <1>3, <1>4 DEF Catalogue!Load
<1> QED
  BY <1>5 DEF Catalogue!Next

LEMMA CatalogueStep ==
  ASSUME TypeOK, Inductive, [Next]_vars
  PROVE  [Catalogue!Next]_(Catalogue!vars)
<1>1. ASSUME UNCHANGED <<db, serial>> PROVE UNCHANGED Catalogue!vars
  BY <1>1, CatalogueStutters
<1>2. ASSUME NEW b \in Builders, BeginReplace(b) PROVE UNCHANGED Catalogue!vars
  <2>1. \A d \in Articles : db'[d].rows = db[d].rows /\ db'[d].marked = db[d].marked
    <3> DEFINE a == Head(build[b].todo)
    <3>1. PICK q : q = [db[a] EXCEPT !.lock = b]
      OBVIOUS
    <3>2. a \in Articles => q.rows = db[a].rows /\ q.marked = db[a].marked
      BY <3>1 DEF TypeOK, Article
    <3>3. db' = [db EXCEPT ![a] = q]
      BY <1>2, <3>1 DEF BeginReplace, TypeOK
    <3> QED
      BY <3>2, <3>3 DEF TypeOK
  <2> QED
    BY <1>2, <2>1, CatalogueStutters DEF BeginReplace
<1>3. ASSUME NEW b \in Builders, Fail(b) PROVE UNCHANGED Catalogue!vars
  <2>1. \A d \in Articles : Unlocked(d).rows = db[d].rows /\ Unlocked(d).marked = db[d].marked
    BY DEF Unlocked, TypeOK, Article
  <2>2. \A d \in Articles : db'[d].rows = db[d].rows /\ db'[d].marked = db[d].marked
    BY <1>3, <2>1 DEF Fail
  <2> QED
    BY <1>3, <2>2, CatalogueStutters DEF Fail
<1>4. ASSUME NEW b \in Builders,
             Open(b) \/ ReadEvent(b) \/ Opened(b) \/ Extract(b) \/ ReadEntities(b)
               \/ ReadRelations(b)
      PROVE  UNCHANGED <<db, serial>>
  BY <1>4 DEF Open, ReadEvent, Opened, Extract, ReadEntities, ReadRelations
<1>5. CASE UNCHANGED vars
  BY <1>1, <1>5 DEF vars
<1> QED
  BY <1>1, <1>2, <1>3, <1>4, <1>5, CommitReplaces, LoadLoads DEF Next, Step

\* Builders and loader implement the store of whole graphs: a committed
\* replace_article_graph is one Replace, upsert_articles one Load, and every
\* other step, rollbacks included, is invisible.
THEOREM StoreImplementsCatalogue == Spec => ImplementsCatalogue
<1>1. Init => Catalogue!Init
  BY DEF Init, Catalogue!Init, Catalogue!NoRows, NoRows
<1>2. TypeOK /\ Inductive /\ [Next]_vars => [Catalogue!Next]_(Catalogue!vars)
  BY CatalogueStep
<1> QED
  BY <1>1, <1>2, GraphInvariant, PTL DEF Spec, ImplementsCatalogue, Catalogue!Spec
=============================================================================
