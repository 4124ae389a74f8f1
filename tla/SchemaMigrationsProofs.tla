----------------------- MODULE SchemaMigrationsProofs -----------------------
(***************************************************************************)
(* Proofs about SchemaMigrations, for any number of runners, migrations,   *)
(* starts and edits.                                                       *)
(*                                                                         *)
(* The ledger is exact because of what an open transaction knows: nobody   *)
(* else is inside the same migration, and the migrations before it are     *)
(* recorded with the checksums its runner read.                            *)
(***************************************************************************)
EXTENDS SchemaMigrations, TLAPS

Open == {"record", "commit"}

\* Where a runner may be.
Position ==
  \A r \in Runners :
    /\ pc[r] \in InFlight => at[r] \in Versions
    /\ pc[r] = "execute" => at[r] \in Scripts
    /\ pc[r] = "done" => at[r] = Last + 1
    /\ pc[r] = "bootstrap" => at[r] = 0

\* What a runner has behind it.
Behind ==
  \A r \in Runners : pc[r] \in InFlight \cup {"done"} =>
    \A v \in Versions : v < at[r] => ledger[v] = loaded[r][v]

\* What an open transaction has not been forestalled in.
Ahead ==
  \A r \in Runners :
    /\ pc[r] \in Open /\ at[r] \in Scripts => applied[at[r]] = Missing
    /\ pc[r] = "commit" => ledger[at[r]] = Missing

\* No two transactions hold the same objects or the same row.
Exclusive ==
  \A r, s \in Runners : r # s /\ at[r] = at[s] =>
    /\ at[r] \in Scripts => ~(pc[r] \in Open /\ pc[s] \in Open)
    /\ ~(pc[r] = "commit" /\ pc[s] = "commit")

Inv == TypeOK /\ Position /\ Behind /\ Ahead /\ Exclusive /\ LedgerExact

-----------------------------------------------------------------------------
LEMMA InitInv == Init => Inv
BY MigrationAssumption, SMT
   DEF Init, Inv, TypeOK, Position, Behind, Ahead, Exclusive, LedgerExact,
       InFlight, Versions, Scripts, Open

\* A runner's facts about itself, as one predicate of a possible state, and the
\* facts about two runners: a step that changes one runner needs only these.
Fit(p, a, l, led, app) ==
  /\ p \in InFlight => a \in Versions
  /\ p = "execute" => a \in Scripts
  /\ p = "done" => a = Last + 1
  /\ p = "bootstrap" => a = 0
  /\ p \in InFlight \cup {"done"} => \A v \in Versions : v < a => led[v] = l[v]
  /\ p \in Open /\ a \in Scripts => app[a] = Missing
  /\ p = "commit" => led[a] = Missing

Apart(p, a, q, b) ==
  a = b => /\ a \in Scripts => ~(p \in Open /\ q \in Open)
           /\ ~(p = "commit" /\ q = "commit")

LEMMA InvIsFit ==
  Inv <=> /\ TypeOK /\ LedgerExact
          /\ \A r \in Runners : Fit(pc[r], at[r], loaded[r], ledger, applied)
          /\ \A r, s \in Runners : r # s => Apart(pc[r], at[r], pc[s], at[s])
BY Zenon DEF Inv, Position, Behind, Ahead, Exclusive, Fit, Apart

LEMMA InvIsFitNext ==
  Inv' <=> /\ TypeOK' /\ LedgerExact'
           /\ \A r \in Runners : Fit(pc'[r], at'[r], loaded'[r], ledger', applied')
           /\ \A r, s \in Runners : r # s => Apart(pc'[r], at'[r], pc'[s], at'[s])
BY Zenon DEF Inv, Position, Behind, Ahead, Exclusive, Fit, Apart

\* A step of one runner that leaves the committed state alone.
LEMMA OwnStep ==
  ASSUME Inv, NEW r \in Runners, NEW p, NEW a,
         p \in InFlight \cup {"off", "done", "failed"}, a \in 0 .. Last + 1,
         pc' = [pc EXCEPT ![r] = p], at' = [at EXCEPT ![r] = a],
         UNCHANGED <<files, loaded, database, ledger, applied, starts, edits>>,
         Fit(p, a, loaded[r], ledger, applied),
         \A s \in Runners \ {r} : Apart(p, a, pc[s], at[s])
  PROVE  Inv'
<1>1. TypeOK /\ LedgerExact
  BY DEF Inv
<1>2. TypeOK'
  BY <1>1, SMT DEF TypeOK
<1>3. LedgerExact'
  BY <1>1, SMT DEF LedgerExact
<1>4. \A s \in Runners : pc'[s] = (IF s = r THEN p ELSE pc[s])
                       /\ at'[s] = (IF s = r THEN a ELSE at[s])
  BY <1>1, SMT DEF TypeOK
<1>5. \A s \in Runners : Fit(pc'[s], at'[s], loaded'[s], ledger', applied')
  <2> SUFFICES ASSUME NEW s \in Runners
               PROVE  Fit(pc'[s], at'[s], loaded[s], ledger, applied)
    OBVIOUS
  <2>1. CASE s = r
    BY <1>4, <2>1, Zenon
  <2>2. CASE s # r
    BY <1>4, <2>2, InvIsFit, Zenon
  <2> QED
    BY <2>1, <2>2
<1>6. \A s, t \in Runners : s # t => Apart(pc'[s], at'[s], pc'[t], at'[t])
  <2> SUFFICES ASSUME NEW s \in Runners, NEW t \in Runners, s # t
               PROVE  Apart(pc'[s], at'[s], pc'[t], at'[t])
    OBVIOUS
  <2>1. \A u \in Runners \ {r} : Apart(pc[u], at[u], p, a)
    BY SMT DEF Apart
  <2>2. CASE s = r
    <3>1. pc'[s] = p /\ at'[s] = a /\ pc'[t] = pc[t] /\ at'[t] = at[t] /\ t \in Runners \ {r}
      BY <1>4, <2>2, SMT
    <3> QED
      BY <3>1, Zenon
  <2>3. CASE t = r
    <3>1. pc'[t] = p /\ at'[t] = a /\ pc'[s] = pc[s] /\ at'[s] = at[s] /\ s \in Runners \ {r}
      BY <1>4, <2>3, SMT
    <3> QED
      BY <2>1, <3>1, Zenon
  <2>4. CASE s # r /\ t # r
    BY <1>4, <2>4, InvIsFit, Zenon
  <2> QED
    BY <2>2, <2>3, <2>4
<1> QED
  BY <1>2, <1>3, <1>5, <1>6, InvIsFitNext, Zenon

\* A runner that holds nothing is apart from every other.
LEMMA HoldsNothing ==
  ASSUME NEW p, NEW a, NEW q, NEW b, p \notin Open
  PROVE  Apart(p, a, q, b)
BY SMT DEF Apart, Open

-----------------------------------------------------------------------------
LEMMA EditKeeps ==
  ASSUME Inv, NEW v \in Versions, Edit(v)
  PROVE  Inv'
<1>1. TypeOK'
  BY MigrationAssumption, SMT DEF Inv, TypeOK, Edit
<1>2. UNCHANGED <<pc, at, loaded, ledger, applied>>
  BY DEF Edit
<1> QED
  BY <1>1, <1>2, SMT DEF Inv, Position, Behind, Ahead, Exclusive, LedgerExact

LEMMA StartKeeps ==
  ASSUME Inv, NEW r \in Runners, Start(r)
  PROVE  Inv'
<1>1. TypeOK /\ LedgerExact
  BY DEF Inv
<1>2. TypeOK'
  BY <1>1, MigrationAssumption, SMT DEF TypeOK, Start, Go, InFlight
<1>3. LedgerExact'
  BY <1>1, SMT DEF LedgerExact, Start
<1>4. /\ \A s \in Runners \ {r} : pc'[s] = pc[s] /\ at'[s] = at[s] /\ loaded'[s] = loaded[s]
      /\ pc'[r] = "bootstrap" /\ at'[r] = 0
      /\ ledger' = ledger /\ applied' = applied
  BY <1>1, SMT DEF TypeOK, Start, Go
<1>5. Fit(pc'[r], at'[r], loaded'[r], ledger', applied')
  BY <1>4, MigrationAssumption, SMT DEF Fit, InFlight, Versions, Scripts, Open
<1>6. \A s \in Runners : Fit(pc'[s], at'[s], loaded'[s], ledger', applied')
  BY <1>4, <1>5, InvIsFit, Zenon
<1>7. \A s, t \in Runners : s # t => Apart(pc'[s], at'[s], pc'[t], at'[t])
  <2>1. pc'[r] \notin Open
    BY <1>4, SMT DEF Open
  <2>2. \A s \in Runners \ {r} :
          Apart(pc'[r], at'[r], pc'[s], at'[s]) /\ Apart(pc'[s], at'[s], pc'[r], at'[r])
    BY <2>1, SMT DEF Apart, Open
  <2> QED
    BY <1>4, <2>2, InvIsFit, Zenon
<1> QED
  BY <1>2, <1>3, <1>6, <1>7, InvIsFitNext, Zenon

LEMMA BootstrapKeeps ==
  ASSUME Inv, NEW r \in Runners, Bootstrap(r)
  PROVE  Inv'
<1>1. TypeOK /\ Fit(pc[r], at[r], loaded[r], ledger, applied)
  BY InvIsFit
<1>2. CASE database < 2
  <2>1. TypeOK' /\ UNCHANGED <<pc, at, loaded, ledger, applied>>
    BY <1>1, <1>2, SMT DEF TypeOK, Bootstrap
  <2> QED
    BY <2>1, SMT DEF Inv, Position, Behind, Ahead, Exclusive, LedgerExact
<1>3. CASE ~(database < 2)
  <2>1. /\ pc' = [pc EXCEPT ![r] = "recheck"]
        /\ at' = [at EXCEPT ![r] = at[r]]
        /\ UNCHANGED <<files, loaded, database, ledger, applied, starts, edits>>
    BY <1>1, <1>3, SMT DEF TypeOK, Bootstrap, Go
  <2>2. Fit("recheck", at[r], loaded[r], ledger, applied)
    BY <1>1, SMT DEF Bootstrap, Fit, InFlight, Open
  <2>3. \A s \in Runners \ {r} : Apart("recheck", at[r], pc[s], at[s])
    BY HoldsNothing, SMT DEF Open
  <2>4. "recheck" \in InFlight \cup {"off", "done", "failed"} /\ at[r] \in 0 .. Last + 1
    BY <1>1, SMT DEF TypeOK, InFlight
  <2> QED
    BY <2>1, <2>2, <2>3, <2>4, OwnStep
<1> QED
  BY <1>2, <1>3

\* On to the next migration, past one with the record the runner expects.
LEMMA NextMigrationKeeps ==
  ASSUME Inv, NEW r \in Runners, pc[r] \in InFlight, NextMigration(r),
         ledger[at[r]] = loaded[r][at[r]],
         UNCHANGED <<files, loaded, database, ledger, applied, starts, edits>>
  PROVE  Inv'
<1> DEFINE p == IF at[r] = Last THEN "done" ELSE "check"
           a == at[r] + 1
<1>1. TypeOK /\ Fit(pc[r], at[r], loaded[r], ledger, applied)
  BY InvIsFit
<1>2. at[r] \in Versions /\ \A v \in Versions : v < at[r] => ledger[v] = loaded[r][v]
  BY <1>1, SMT DEF Fit, InFlight
<1>3. pc' = [pc EXCEPT ![r] = p] /\ at' = [at EXCEPT ![r] = a]
  BY <1>1, SMT DEF NextMigration, Go, TypeOK
<1>4. /\ p \in InFlight \cup {"off", "done", "failed"} /\ p \notin Open
      /\ a \in 0 .. Last + 1
  BY <1>2, MigrationAssumption, SMT DEF InFlight, Open, Versions
<1>5. Fit(p, a, loaded[r], ledger, applied)
  BY <1>2, MigrationAssumption, SMT DEF Fit, InFlight, Open, Versions
<1>6. \A s \in Runners \ {r} : Apart(p, a, pc[s], at[s])
  BY <1>4, HoldsNothing
<1> HIDE DEF p, a
<1> QED
  BY <1>3, <1>4, <1>5, <1>6, OwnStep

\* A step to somewhere that a runner holds nothing, at the same migration.
LEMMA GoKeeps ==
  ASSUME Inv, NEW r \in Runners, NEW p \in {"recheck", "execute", "failed"},
         pc[r] \in InFlight, p = "execute" => at[r] \in Scripts,
         Go(r, p), UNCHANGED <<files, at, loaded, database, ledger, applied, starts, edits>>
  PROVE  Inv'
<1>1. TypeOK /\ Fit(pc[r], at[r], loaded[r], ledger, applied)
  BY InvIsFit
<1>2. pc' = [pc EXCEPT ![r] = p] /\ at' = [at EXCEPT ![r] = at[r]]
  BY <1>1, SMT DEF Go, TypeOK
<1>3. /\ p \in InFlight \cup {"off", "done", "failed"} /\ p \notin Open
      /\ at[r] \in 0 .. Last + 1
  BY <1>1, SMT DEF InFlight, Open, TypeOK
<1>4. Fit(p, at[r], loaded[r], ledger, applied)
  BY <1>1, SMT DEF Fit, InFlight, Open
<1>5. \A s \in Runners \ {r} : Apart(p, at[r], pc[s], at[s])
  BY <1>3, HoldsNothing
<1> QED
  BY <1>2, <1>3, <1>4, <1>5, OwnStep

LEMMA CheckKeeps ==
  ASSUME Inv, NEW r \in Runners, Check(r)
  PROVE  Inv'
<1>1. pc[r] \in InFlight
  BY SMT DEF Check, InFlight
<1>2. CASE ledger[at[r]] = Missing /\ Go(r, "recheck") /\ UNCHANGED at
  BY <1>1, <1>2, GoKeeps, SMT DEF Check
<1>3. CASE ledger[at[r]] = loaded[r][at[r]] /\ NextMigration(r)
  BY <1>1, <1>3, NextMigrationKeeps DEF Check
<1>4. CASE Go(r, "failed") /\ UNCHANGED at
  BY <1>1, <1>4, GoKeeps, SMT DEF Check
<1> QED
  BY <1>2, <1>3, <1>4 DEF Check, CheckApplied

LEMMA RecheckKeeps ==
  ASSUME Inv, NEW r \in Runners, Recheck(r)
  PROVE  Inv'
<1>1. pc[r] \in InFlight /\ at[r] \in Versions
  BY InvIsFit, SMT DEF Recheck, InFlight, Fit
<1>2. CASE Go(r, "execute") /\ UNCHANGED at /\ at[r] # 0
  <2>1. at[r] \in Scripts
    BY <1>1, <1>2, MigrationAssumption, SMT DEF Versions, Scripts
  <2> QED
    BY <1>1, <1>2, <2>1, GoKeeps, SMT DEF Recheck
<1>3. CASE Go(r, "record") /\ UNCHANGED at /\ at[r] = 0
  <2>1. TypeOK /\ Fit(pc[r], at[r], loaded[r], ledger, applied)
    BY InvIsFit
  <2>2. pc' = [pc EXCEPT ![r] = "record"] /\ at' = [at EXCEPT ![r] = at[r]]
    BY <1>3, <2>1, SMT DEF Go, TypeOK
  <2>3. "record" \in InFlight \cup {"off", "done", "failed"} /\ at[r] \in 0 .. Last + 1
    BY <2>1, SMT DEF InFlight, TypeOK
  <2>4. at[r] \notin Scripts
    BY <1>3, MigrationAssumption, SMT DEF Scripts
  <2>5. Fit("record", at[r], loaded[r], ledger, applied)
    BY <2>1, <2>4, <1>1, SMT DEF Fit, InFlight, Open
  <2>6. \A s \in Runners \ {r} : Apart("record", at[r], pc[s], at[s])
    BY <2>4, SMT DEF Apart
  <2> QED
    BY <2>2, <2>3, <2>5, <2>6, OwnStep DEF Recheck
<1>4. CASE ledger[at[r]] = loaded[r][at[r]] /\ NextMigration(r)
  BY <1>1, <1>4, NextMigrationKeeps DEF Recheck
<1>5. CASE Go(r, "failed") /\ UNCHANGED at
  BY <1>1, <1>5, GoKeeps, SMT DEF Recheck
<1> QED
  BY <1>2, <1>3, <1>4, <1>5 DEF Recheck, CheckApplied

LEMMA ExecuteKeeps ==
  ASSUME Inv, NEW r \in Runners, Execute(r)
  PROVE  Inv'
<1>1. TypeOK /\ Fit(pc[r], at[r], loaded[r], ledger, applied)
  BY InvIsFit
<1>2. pc[r] \in InFlight /\ at[r] \in Scripts
  BY <1>1, SMT DEF Execute, InFlight, Fit
<1>3. CASE applied[at[r]] = Missing /\ Go(r, "record")
  <2>1. pc' = [pc EXCEPT ![r] = "record"] /\ at' = [at EXCEPT ![r] = at[r]]
    BY <1>1, <1>3, SMT DEF Execute, Go, TypeOK
  <2>2. "record" \in InFlight \cup {"off", "done", "failed"} /\ at[r] \in 0 .. Last + 1
    BY <1>1, SMT DEF InFlight, TypeOK
  <2>3. Fit("record", at[r], loaded[r], ledger, applied)
    BY <1>1, <1>2, <1>3, SMT DEF Fit, InFlight, Open
  <2>4. \A s \in Runners \ {r} : at[s] = at[r] => pc[s] \notin Open
    BY SMT DEF Execute, ObjectsHeld, Open
  <2>5. \A s \in Runners \ {r} : Apart("record", at[r], pc[s], at[s])
    BY <2>4, SMT DEF Apart
  <2> QED
    BY <2>1, <2>2, <2>3, <2>5, OwnStep DEF Execute
<1>4. CASE Go(r, "failed")
  BY <1>2, <1>4, GoKeeps, SMT DEF Execute
<1> QED
  BY <1>3, <1>4 DEF Execute

LEMMA RecordKeeps ==
  ASSUME Inv, NEW r \in Runners, Record(r)
  PROVE  Inv'
<1>1. TypeOK /\ Fit(pc[r], at[r], loaded[r], ledger, applied)
  BY InvIsFit
<1>2. pc[r] \in InFlight /\ pc[r] \in Open
  BY SMT DEF Record, InFlight, Open
<1>3. CASE ledger[at[r]] = Missing /\ Go(r, "commit")
  <2>1. pc' = [pc EXCEPT ![r] = "commit"] /\ at' = [at EXCEPT ![r] = at[r]]
    BY <1>1, <1>3, SMT DEF Record, Go, TypeOK
  <2>2. "commit" \in InFlight \cup {"off", "done", "failed"} /\ at[r] \in 0 .. Last + 1
    BY <1>1, SMT DEF InFlight, TypeOK
  <2>3. Fit("commit", at[r], loaded[r], ledger, applied)
    BY <1>1, <1>2, <1>3, SMT DEF Fit, InFlight, Open
  <2>4. \A s \in Runners \ {r} : at[s] = at[r] => pc[s] # "commit"
    BY SMT DEF Record, RowHeld
  <2>5. \A s \in Runners \ {r} : Apart(pc[r], at[r], pc[s], at[s])
    BY InvIsFit
  <2>6. \A s \in Runners \ {r} : Apart("commit", at[r], pc[s], at[s])
    BY <1>2, <2>4, <2>5, SMT DEF Apart, Open
  <2> QED
    BY <2>1, <2>2, <2>3, <2>6, OwnStep DEF Record
<1>4. CASE Go(r, "failed")
  BY <1>2, <1>4, GoKeeps, SMT DEF Record
<1> QED
  BY <1>3, <1>4 DEF Record

LEMMA FailsKeeps ==
  ASSUME Inv, NEW r \in Runners, Fails(r)
  PROVE  Inv'
BY GoKeeps, SMT DEF Fails

LEMMA CommitKeeps ==
  ASSUME Inv, NEW r \in Runners, Commit(r)
  PROVE  Inv'
<1> DEFINE a == at[r]
<1>1. /\ TypeOK /\ LedgerExact
      /\ Fit(pc[r], a, loaded[r], ledger, applied)
  BY InvIsFit
<1>2. /\ pc[r] \in InFlight /\ pc[r] = "commit"
      /\ a \in Versions /\ ledger[a] = Missing
      /\ \A v \in Versions : v < a => ledger[v] = loaded[r][v]
      /\ a \in Scripts => applied[a] = Missing
  BY <1>1, SMT DEF Commit, InFlight, Fit, Open
<1>3. loaded[r][a] \in Checksums /\ loaded[r][a] # Missing
  BY <1>1, <1>2, MigrationAssumption, SMT DEF TypeOK
<1>4. /\ at' = [at EXCEPT ![r] = a + 1]
      /\ pc' = [pc EXCEPT ![r] = IF a = Last THEN "done" ELSE "check"]
      /\ UNCHANGED <<files, loaded, database, starts, edits>>
  BY <1>1, SMT DEF Commit, NextMigration, Go, TypeOK
<1>5. ledger' = [ledger EXCEPT ![a] = loaded[r][a]]
  BY DEF Commit
<1>6. applied' = [v \in Scripts |-> IF v = a THEN loaded[r][v] ELSE applied[v]]
  BY DEF Commit
<1> HIDE DEF a
<1>7. TypeOK'
  <2>1. a + 1 \in 0 .. Last + 1
    BY <1>2, MigrationAssumption, SMT DEF Versions
  <2>2. \A v \in Scripts : loaded[r][v] \in Checksums
    BY <1>1, MigrationAssumption, SMT DEF TypeOK, Versions, Scripts
  <2> QED
    BY <1>1, <1>2, <1>3, <1>4, <1>5, <1>6, <2>1, <2>2, SMT DEF TypeOK, InFlight
<1>8. \A v \in Versions : ledger'[v] = IF v = a THEN loaded[r][a] ELSE ledger[v]
  BY <1>1, <1>5, SMT DEF TypeOK
<1>9. \A v \in Scripts : applied'[v] = IF v = a THEN loaded[r][a] ELSE applied[v]
  BY <1>6, SMT
<1>10. LedgerExact'
  <2>1. \A v \in Scripts : v \in Versions
    BY MigrationAssumption, SMT DEF Scripts, Versions
  <2>2. \A v \in Scripts : ledger'[v] = applied'[v]
    BY <1>1, <1>8, <1>9, <2>1, SMT DEF LedgerExact
  <2>3. ASSUME NEW v \in Versions, NEW w \in Versions, v < w, ledger'[w] # Missing
        PROVE  ledger'[v] # Missing
    <3>1. CASE v = a
      BY <3>1, <1>3, <1>8, SMT
    <3>2. CASE v # a /\ w = a
      <4>1. ledger[v] = loaded[r][v]
        BY <3>2, <2>3, <1>2, SMT
      <4>2. loaded[r][v] # Missing
        BY <1>1, MigrationAssumption, SMT DEF TypeOK
      <4> QED
        BY <3>2, <4>1, <4>2, <1>8, SMT
    <3>3. CASE v # a /\ w # a
      BY <3>3, <2>3, <1>1, <1>8, SMT DEF LedgerExact
    <3> QED
      BY <3>1, <3>2, <3>3
  <2> QED
    BY <2>2, <2>3 DEF LedgerExact
<1>11. /\ pc'[r] = (IF a = Last THEN "done" ELSE "check") /\ at'[r] = a + 1
       /\ \A s \in Runners \ {r} : pc'[s] = pc[s] /\ at'[s] = at[s]
       /\ \A s \in Runners : loaded'[s] = loaded[s]
  BY <1>1, <1>4, SMT DEF TypeOK
<1>12. pc'[r] \notin Open
  BY <1>11, SMT DEF Open
<1>13. Fit(pc'[r], at'[r], loaded'[r], ledger', applied')
  <2>1. \A v \in Versions : v < a + 1 => ledger'[v] = loaded[r][v]
    BY <1>2, <1>8, SMT DEF Versions
  <2> QED
    BY <1>2, <1>11, <1>12, <2>1, MigrationAssumption, SMT DEF Fit, InFlight, Versions, Open
<1>14. ASSUME NEW s \in Runners \ {r}
       PROVE  Fit(pc'[s], at'[s], loaded'[s], ledger', applied')
  <2>1. Fit(pc[s], at[s], loaded[s], ledger, applied) /\ Apart(pc[s], at[s], pc[r], at[r])
    BY <1>14, InvIsFit, Zenon
  <2>2. pc[r] \in Open /\ at[r] = a
    BY <1>2, SMT DEF Open, a
  <2>3. ASSUME pc[s] \in InFlight \cup {"done"}, NEW v \in Versions, v < at[s]
        PROVE  ledger'[v] = loaded[s][v]
    <3>1. ledger[v] = loaded[s][v] /\ loaded[s][v] # Missing
      BY <2>1, <2>3, <1>1, <1>14, MigrationAssumption, SMT DEF Fit, TypeOK
    <3> QED
      BY <3>1, <1>2, <1>8, SMT
  <2>4. pc[s] \in Open /\ at[s] \in Scripts => applied'[at[s]] = Missing
    <3>1. pc[s] \in Open /\ at[s] \in Scripts => at[s] # a /\ applied[at[s]] = Missing
      BY <2>1, <2>2, SMT DEF Fit, Apart
    <3> QED
      BY <3>1, <1>9, SMT
  <2>5. pc[s] = "commit" => ledger'[at[s]] = Missing
    <3>1. pc[s] = "commit" => at[s] # a /\ ledger[at[s]] = Missing /\ at[s] \in Versions
      BY <2>1, <2>2, <1>2, SMT DEF Fit, Apart, InFlight
    <3> QED
      BY <3>1, <1>8, SMT
  <2>6. /\ pc[s] \in InFlight => at[s] \in Versions
        /\ pc[s] = "execute" => at[s] \in Scripts
        /\ pc[s] = "done" => at[s] = Last + 1
        /\ pc[s] = "bootstrap" => at[s] = 0
    BY <2>1 DEF Fit
  <2>7. Fit(pc[s], at[s], loaded[s], ledger', applied')
    BY <2>3, <2>4, <2>5, <2>6, Zenon DEF Fit
  <2> QED
    BY <2>7, <1>11, <1>14, Zenon
<1>15. \A s, t \in Runners : s # t => Apart(pc'[s], at'[s], pc'[t], at'[t])
  <2>1. \A s \in Runners \ {r} :
          Apart(pc'[r], at'[r], pc'[s], at'[s]) /\ Apart(pc'[s], at'[s], pc'[r], at'[r])
    BY <1>12, SMT DEF Apart, Open
  <2> QED
    BY <1>11, <2>1, InvIsFit, Zenon
<1> QED
  BY <1>7, <1>10, <1>13, <1>14, <1>15, InvIsFitNext, Zenon

-----------------------------------------------------------------------------
LEMMA StepKeeps == Inv /\ [Next]_vars => Inv'
<1> SUFFICES ASSUME Inv, [Next]_vars PROVE Inv'
  OBVIOUS
<1>1. CASE UNCHANGED vars
  BY <1>1, SMT DEF vars, Inv, TypeOK, Position, Behind, Ahead, Exclusive, LedgerExact
<1>2. CASE Next
  BY <1>2, EditKeeps, StartKeeps, BootstrapKeeps, CheckKeeps, RecheckKeeps,
     ExecuteKeeps, RecordKeeps, CommitKeeps, FailsKeeps, Zenon DEF Next, Step
<1> QED
  BY <1>1, <1>2

(* The inductive invariant.                                                 *)
THEOREM Invariance == Spec => []Inv
<1>1. Init => Inv
  BY InitInv
<1>2. Inv /\ [Next]_vars => Inv'
  BY StepKeeps
<1> QED
  BY <1>1, <1>2, PTL DEF Spec

(* The ledger and the schema agree, in number order, whatever the runners   *)
(* do together and wherever one dies (migrate.py:153-157).                  *)
THEOREM LedgerAlwaysExact == Spec => []LedgerExact
<1>1. Inv => LedgerExact
  BY DEF Inv
<1> QED
  BY <1>1, Invariance, PTL

(* A run that succeeded leaves the schema of the files it read              *)
(* (migrate.py:92-101).                                                     *)
THEOREM DoneIsCurrent == Spec => []DoneMeansCurrent
<1>1. Inv => DoneMeansCurrent
  <2> SUFFICES ASSUME Inv, NEW r \in Runners, pc[r] = "done", NEW v \in Scripts
               PROVE  applied[v] = loaded[r][v]
    BY DEF DoneMeansCurrent
  <2>1. Fit(pc[r], at[r], loaded[r], ledger, applied) /\ LedgerExact
    BY InvIsFit
  <2>2. v \in Versions /\ v < Last + 1
    BY MigrationAssumption, SMT DEF Scripts, Versions
  <2>3. ledger[v] = loaded[r][v]
    BY <2>1, <2>2, SMT DEF Fit
  <2> QED
    BY <2>1, <2>3 DEF LedgerExact
<1> QED
  BY <1>1, Invariance, PTL
=============================================================================
