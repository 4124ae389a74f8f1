--------------------------- MODULE KnowledgeGraph ---------------------------
(***************************************************************************)
(* The knowledge graphs of articles: builders (app/graph.py) that extract  *)
(* them when an issue's graph is opened, the transactions of               *)
(* infra/repository.py that replace and read them, and the loader          *)
(* (scripts/02_load_mssql.py) that rewrites the articles underneath.       *)
(*                                                                         *)
(* The database runs at its default level, READ COMMITTED: a statement     *)
(* sees what is committed, two statements of one session may see           *)
(* different states.  A builder is one request thread; it goes on when its *)
(* client leaves, so a second one for the same issue may run beside it.    *)
(***************************************************************************)
EXTENDS Integers, Sequences, FiniteSets

CONSTANTS
  Builders,     \* request threads
  Articles,
  Extractions,  \* [entities, relations] the model can draw from an article
  Reps,         \* builder -> representative articles of its issue's events
  MaxBuilds,    \* bound: requests served by one thread
  MaxVersion    \* bound: loads of one article

ASSUME GraphAssumption ==
  /\ \A x \in Extractions : x.relations \subseteq x.entities \X x.entities
  /\ Reps \in [Builders -> Seq(Articles)]
  /\ "none" \notin Builders
  /\ MaxBuilds \in Nat
  /\ MaxVersion \in Nat \ {0}

None == "none"

Stages == {"idle", "opening", "extracting", "saving", "replacing",
           "nodes", "edges", "done", "failed"}

Working == Stages \ {"idle", "done", "failed"}

VARIABLES
  db,      \* article -> its rows in articles, article_entities, article_relations
  build,   \* builder -> local variables of build and of its transactions
  serial   \* extractions saved so far, for the identity columns

vars == <<db, build, serial>>

\* A key of an entity row: the extraction it came with, and the entity's name.
Names == UNION {x.entities : x \in Extractions}
Keys == Nat \X Names

Rows == [entities : SUBSET Keys, relations : SUBSET (Keys \X Keys)]

NoRows == [entities |-> {}, relations |-> {}]

\* Rows get keys from identity columns; n stands for those of one extraction.
RowsOf(x, n) ==
  [entities  |-> {<<n, e>> : e \in x.entities},
   relations |-> {<<<<n, r[1]>>, <<n, r[2]>>>> : r \in x.relations}]

Article ==
  [version  : Nat,       \* content, by number of the load that wrote it
   marked   : BOOLEAN,   \* entities_extracted_at IS NOT NULL
   rows     : Rows,      \* its entities and relations, committed
   lock     : Builders \cup {None},  \* holder of the UPDLOCK on the row
   source   : Nat,       \* history: content the rows were drawn from, 0: no rows
   overlaid : BOOLEAN]   \* history: loaded while a builder was extracting it

Build ==
  [stage  : Stages,
   read   : Nat,                 \* events read by get_issue
   seen   : [Articles -> Nat],   \* content in the snapshot, 0: not read
   todo   : Seq(Articles),       \* the rest of pending
   left   : Seq(Articles),       \* representatives still to be answered
   draft  : Extractions \cup {NoRows},
   gone   : Rows,                \* rows deleted by the open transaction
   nodes  : SUBSET Keys,         \* entity_rows of the graph read last
   edges  : SUBSET (Keys \X Keys),
   count  : Nat,                 \* requests so far
   loaded : SUBSET Articles]     \* history: loaded since the snapshot was read

TypeOK ==
  /\ db \in [Articles -> Article]
  /\ build \in [Builders -> Build]
  /\ serial \in Nat

Blank ==
  [stage |-> "idle", read |-> 0, seen |-> [a \in Articles |-> 0], todo |-> <<>>,
   left |-> <<>>, draft |-> NoRows, gone |-> NoRows, nodes |-> {}, edges |-> {},
   count |-> 0, loaded |-> {}]

Init ==
  /\ db = [a \in Articles |->
             [version |-> 1, marked |-> FALSE, rows |-> NoRows, lock |-> None,
              source |-> 0, overlaid |-> FALSE]]
  /\ build = [b \in Builders |-> Blank]
  /\ serial = 0

-----------------------------------------------------------------------------
\* GET /issues/{id}/graph reaches build.
Open(b) ==
  /\ build[b].stage \notin Working
  /\ build[b].count < MaxBuilds
  /\ build' = [build EXCEPT ![b] =
                 [Blank EXCEPT !.stage = "opening", !.count = build[b].count + 1]]
  /\ UNCHANGED <<db, serial>>

\* get_issue reads one event with its articles; the first sight of a
\* representative counts (_unique_representatives, pending).
ReadEvent(b) ==
  LET s == build[b]
      a == Reps[b][s.read + 1]
  IN
  /\ s.stage = "opening"
  /\ s.read < Len(Reps[b])
  /\ build' = [build EXCEPT ![b] =
       IF s.seen[a] # 0 THEN [s EXCEPT !.read = s.read + 1]
       ELSE [s EXCEPT !.read = s.read + 1,
                      !.seen = [@ EXCEPT ![a] = db[a].version],
                      !.left = Append(s.left, a),
                      !.todo = IF db[a].marked THEN s.todo ELSE Append(s.todo, a),
                      !.loaded = s.loaded \ {a}]]
  /\ UNCHANGED <<db, serial>>

\* The loop over pending, or what follows it.
Onward(todo) == IF todo = <<>> THEN "nodes" ELSE "extracting"

\* The builder raises: its local variables are gone.
Failed(b) == [Blank EXCEPT !.stage = "failed", !.count = build[b].count]

\* The issue is complete; a graph needs two events.
Opened(b) ==
  /\ build[b].stage = "opening"
  /\ build[b].read = Len(Reps[b])
  /\ build' = [build EXCEPT ![b] =
                 IF Len(Reps[b]) <= 1 THEN Failed(b)
                 ELSE [build[b] EXCEPT !.stage = Onward(build[b].todo)]]
  /\ UNCHANGED <<db, serial>>

\* _extract comes back with a graph for the next pending article.
Extract(b) ==
  /\ build[b].stage = "extracting"
  /\ \E x \in Extractions :
       build' = [build EXCEPT ![b].draft = x, ![b].stage = "saving"]
  /\ UNCHANGED <<db, serial>>

\* Mutant of BeginReplace: the row is read without WITH (UPDLOCK).
BeginReplaceUnlocked(b) ==
  LET a == Head(build[b].todo) IN
  /\ build[b].stage = "saving"
  /\ build' = [build EXCEPT ![b].stage = "replacing", ![b].gone = db[a].rows]
  /\ UNCHANGED <<db, serial>>

\* replace_article_graph up to its deletes: the update lock on the article row
\* is granted when no other transaction has it.
BeginReplace(b) ==
  LET a == Head(build[b].todo) IN
  /\ build[b].stage = "saving"
  /\ db[a].lock = None
  /\ db' = [db EXCEPT ![a].lock = b]
  /\ build' = [build EXCEPT ![b].stage = "replacing", ![b].gone = db[a].rows]
  /\ UNCHANGED serial

\* Rows without those in gone, together with new ones.
Replaced(rows, gone, new) ==
  [entities  |-> (rows.entities \ gone.entities) \cup new.entities,
   relations |-> (rows.relations \ gone.relations) \cup new.relations]

Unlocked(a) == [db[a] EXCEPT !.lock = None]

\* The builder goes on to its next pending article.
NextPending(s) ==
  [s EXCEPT !.stage = Onward(Tail(s.todo)), !.todo = Tail(s.todo),
            !.draft = NoRows, !.gone = NoRows]

\* Mutant of CommitReplace: the article is not marked.
CommitReplaceUnmarked(b) ==
  LET s == build[b]
      a == Head(s.todo)
  IN
  /\ s.stage = "replacing"
  /\ serial' = serial + 1
  /\ db' = [db EXCEPT ![a] = [db[a] EXCEPT
              !.lock = None, !.rows = Replaced(db[a].rows, s.gone, RowsOf(s.draft, serial + 1)),
              !.source = s.seen[a]]]
  /\ build' = [build EXCEPT ![b] = NextPending(s)]

\* Mutant of CommitReplace: the session is not closed.
CommitReplaceLocked(b) ==
  LET s == build[b]
      a == Head(s.todo)
  IN
  /\ s.stage = "replacing"
  /\ serial' = serial + 1
  /\ db' = [db EXCEPT ![a] = [db[a] EXCEPT
              !.rows = Replaced(db[a].rows, s.gone, RowsOf(s.draft, serial + 1)),
              !.marked = TRUE, !.source = s.seen[a]]]
  /\ build' = [build EXCEPT ![b] = NextPending(s)]

\* Its inserts, the mark, and the commit.
CommitReplace(b) ==
  LET s == build[b]
      a == Head(s.todo)
  IN
  /\ s.stage = "replacing"
  /\ serial' = serial + 1
  /\ db' = [db EXCEPT ![a] = [db[a] EXCEPT
              !.lock = None, !.rows = Replaced(db[a].rows, s.gone, RowsOf(s.draft, serial + 1)),
              !.marked = TRUE,
              !.source = s.seen[a]]]
  /\ build' = [build EXCEPT ![b] = NextPending(s)]

\* get_article_graph: the article row and the entities of the next
\* representative.
ReadEntities(b) ==
  LET s == build[b] IN
  /\ s.stage = "nodes"
  /\ build' = [build EXCEPT ![b] =
       [s EXCEPT !.stage = "edges", !.nodes = db[Head(s.left)].rows.entities, !.edges = {}]]
  /\ UNCHANGED <<db, serial>>

\* Its relations, by a statement of their own.
ReadRelations(b) ==
  LET s == build[b] IN
  /\ s.stage = "edges"
  /\ build' = [build EXCEPT ![b] =
       [s EXCEPT !.stage = IF Tail(s.left) = <<>> THEN "done" ELSE "nodes",
                 !.edges = db[Head(s.left)].rows.relations,
                 !.left = Tail(s.left)]]
  /\ UNCHANGED <<db, serial>>

\* An article without content, a model call or a statement that raises, the end
\* of the process: the open transaction rolls back.
Fail(b) ==
  /\ build[b].stage \in Working
  /\ build' = [build EXCEPT ![b] = Failed(b)]
  /\ db' = [a \in Articles |-> IF db[a].lock = b THEN Unlocked(a) ELSE db[a]]
  /\ UNCHANGED serial

\* Builders that have taken a's content up and not yet saved its graph.
Extracting(a) ==
  {b \in Builders : \E i \in DOMAIN build[b].todo : build[b].todo[i] = a}

\* Mutant of Load: entities_extracted_at is left alone.
LoadKeepsMark(A) ==
  /\ \A a \in A : db[a].lock = None /\ db[a].version < MaxVersion
  /\ db' = [a \in Articles |->
       IF a \in A
       THEN [db[a] EXCEPT !.version = db[a].version + 1, !.overlaid = Extracting(a) # {}]
       ELSE db[a]]
  /\ build' = [b \in Builders |-> [build[b] EXCEPT !.loaded = @ \cup A]]
  /\ UNCHANGED serial

\* upsert_articles with one batch: every column is overwritten, and the raw
\* articles bring no entities_extracted_at.  It waits for update locks.
Load(A) ==
  /\ \A a \in A : db[a].lock = None /\ db[a].version < MaxVersion
  /\ db' = [a \in Articles |->
       IF a \in A
       THEN [db[a] EXCEPT !.version = db[a].version + 1, !.marked = FALSE,
                          !.overlaid = Extracting(a) # {}]
       ELSE db[a]]
  /\ build' = [b \in Builders |-> [build[b] EXCEPT !.loaded = @ \cup A]]
  /\ UNCHANGED serial

Step(b) ==
  \/ ReadEvent(b)
  \/ Opened(b)
  \/ Extract(b)
  \/ BeginReplace(b)
  \/ CommitReplace(b)
  \/ ReadEntities(b)
  \/ ReadRelations(b)

Next ==
  \/ \E b \in Builders : Open(b) \/ Step(b) \/ Fail(b)
  \/ \E A \in (SUBSET Articles) \ {{}} : Load(A)

Spec == Init /\ [][Next]_vars

\* A thread keeps running, and the lock queue of the database is served.
Fairness == \A b \in Builders : WF_vars(Step(b))

FairSpec == Spec /\ Fairness

-----------------------------------------------------------------------------
\* The committed rows of an article are those of one extraction, whole: no rows
\* of two builders side by side, no relation without its ends.  The update lock
\* of replace_article_graph (repository.py:213) has to see to it.
RowsWhole ==
  \A a \in Articles :
    \/ db[a].rows = NoRows
    \/ \E x \in Extractions, n \in 1..serial : db[a].rows = RowsOf(x, n)

\* A marked article carries the graph of the content it now has, unless it was
\* loaded while a builder was at work on the content before: then the builder
\* marks the new content with the graph of the old one.
StaleOnlyByOverlap ==
  \A a \in Articles :
    db[a].marked => db[a].source = db[a].version \/ db[a].overlaid

\* When a build has run through, none of its representatives is left for
\* extraction, whatever other builders did, unless it was loaded meanwhile.
FinishedMeansExtracted ==
  \A b \in Builders : build[b].stage = "done" =>
    \A i \in DOMAIN Reps[b] :
      db[Reps[b][i]].marked \/ Reps[b][i] \in build[b].loaded

\* At most one transaction works on the rows of an article, and what it deleted
\* is all there is.
ReplacementAlone ==
  \A b \in Builders : build[b].stage = "replacing" =>
    /\ db[Head(build[b].todo)].lock = b
    /\ build[b].gone = db[Head(build[b].todo)].rows

\* Every build comes to an end; no builder waits for the lock of another forever.
BuildsEnd ==
  \A b \in Builders : build[b].stage \in Working ~> build[b].stage \notin Working

\* backend/tests/integration/test_repository.py: the ends of an edge that
\* get_article_graph returns are among the nodes it returns.
ReadGraphJoined ==
  \A b \in Builders : \A e \in build[b].edges : {e[1], e[2]} \subseteq build[b].nodes

-----------------------------------------------------------------------------
\* The invariant of the proofs.

\* Where a builder is tells what it has read and what is left to do.
Placed(b) ==
  LET s == build[b] IN
  /\ s.stage \in {"extracting", "saving", "replacing"} => s.todo # <<>>
  /\ s.stage \in {"extracting", "saving", "replacing", "nodes", "edges"} => s.left # <<>>
  /\ s.stage \in {"nodes", "edges", "done", "idle", "failed"} => s.todo = <<>>
  /\ s.stage \in {"extracting", "saving", "replacing", "nodes", "edges", "done"} =>
       s.read = Len(Reps[b])
  /\ s.stage = "opening" /\ s.read > 0 => s.left # <<>>
  /\ s.read <= Len(Reps[b])
  /\ \A i \in 1..s.read : s.seen[Reps[b][i]] # 0
  /\ \A a \in Articles : s.seen[a] # 0 => \E i \in 1..s.read : Reps[b][i] = a
  /\ s.stage \in {"saving", "replacing"} => s.draft \in Extractions

\* What a builder still has to extract it has seen as it is now, unless the
\* article was loaded since.
Current(b) ==
  \A i \in DOMAIN build[b].todo :
    LET a == build[b].todo[i] IN build[b].seen[a] = db[a].version \/ db[a].overlaid

\* No representative read so far is forgotten.
Covered(b) ==
  \A i \in 1..build[b].read :
    LET a == Reps[b][i] IN
    \/ db[a].marked
    \/ a \in build[b].loaded
    \/ \E j \in DOMAIN build[b].todo : build[b].todo[j] = a

\* The lock says who is replacing what.
Held(b) ==
  LET s == build[b] IN
  /\ \A a \in Articles : db[a].lock = b => s.stage = "replacing" /\ Head(s.todo) = a
  /\ s.stage = "replacing" => db[Head(s.todo)].lock = b /\ s.gone = db[Head(s.todo)].rows

Inductive ==
  /\ \A b \in Builders : Placed(b) /\ Current(b) /\ Covered(b) /\ Held(b)
  /\ \A a \in Articles : db[a].version # 0
  /\ RowsWhole
  /\ StaleOnlyByOverlap

-----------------------------------------------------------------------------
Catalogue == INSTANCE ArticleGraphs WITH
  graph  <- [a \in Articles |-> db[a].rows],
  marked <- {a \in Articles : db[a].marked},
  serial <- serial

\* Two transactions that lock, delete, insert and mark amount to replacing whole
\* graphs in one step each.
ImplementsCatalogue == Catalogue!Spec
=============================================================================
