--------------------------- MODULE LlmCallProofs ---------------------------
(***************************************************************************)
(* Proofs about LlmCall, for all budgets.                                  *)
(***************************************************************************)
EXTENDS LlmCall, FiniteSetTheorems, TLAPS

Entries == [attempt : 1..2, answer : Answers]

-----------------------------------------------------------------------------
(***************************************************************************)
(* Counting answers                                                        *)
(***************************************************************************)

\* An answer is counted where it belongs and nowhere else.
LEMMA TimesAppend ==
  ASSUME log \in Seq(Entries), NEW n \in 1..2, NEW a \in Answers, NEW e \in Entries,
         log' = Append(log, e)
  PROVE  Times(n, a)' = Times(n, a) + (IF e.attempt = n /\ e.answer = a THEN 1 ELSE 0)
<1> DEFINE old == {i \in DOMAIN log : log[i].attempt = n /\ log[i].answer = a}
           new == {i \in DOMAIN log' : log'[i].attempt = n /\ log'[i].answer = a}
<1>0. Times(n, a) = Cardinality(old) /\ Times(n, a)' = Cardinality(new)
  BY DEF Times
<1>1. /\ Len(log) \in Nat
      /\ DOMAIN log = 1..Len(log)
      /\ DOMAIN log' = 1..(Len(log) + 1)
      /\ \A i \in 1..Len(log) : log'[i] = log[i]
      /\ log'[Len(log) + 1] = e
  OBVIOUS
<1>2. IsFiniteSet(old)
  <2>1. IsFiniteSet(1..Len(log))
    BY <1>1, FS_Interval
  <2>2. old \subseteq 1..Len(log)
    BY <1>1
  <2> QED
    BY <2>1, <2>2, FS_Subset
<1>3. CASE e.attempt = n /\ e.answer = a
  <2>1. new = old \cup {Len(log) + 1}
    BY <1>1, <1>3
  <2>2. Len(log) + 1 \notin old
    BY <1>1
  <2>3. Cardinality(new) = Cardinality(old) + 1
    BY <1>2, <2>1, <2>2, FS_AddElement
  <2> QED
    BY <1>0, <1>3, <2>3
<1>4. CASE ~(e.attempt = n /\ e.answer = a)
  <2>1. new = old
    BY <1>1, <1>4
  <2>2. Cardinality(old) \in Nat
    BY <1>2, FS_CardinalityType
  <2>3. Cardinality(new) = Cardinality(old)
    BY <2>1
  <2>4. Times(n, a) \in Nat /\ Times(n, a)' = Times(n, a)
    BY <1>0, <2>2, <2>3
  <2> QED
    BY <1>4, <2>4
<1> QED
  BY <1>3, <1>4

\* There are no answers of an adapter call that has not begun.
LEMMA TimesNone ==
  ASSUME NEW n, NEW a, \A i \in DOMAIN log : log[i].attempt # n
  PROVE  Times(n, a) = 0
<1>1. {i \in DOMAIN log : log[i].attempt = n /\ log[i].answer = a} = {}
  OBVIOUS
<1> QED
  BY <1>1, FS_EmptySet DEF Times

-----------------------------------------------------------------------------
(***************************************************************************)
(* Types                                                                   *)
(***************************************************************************)

\* Every variable keeps its type, and no counter passes its budget while a
\* request is out.
LEMMA TypeStep ==
  ASSUME TypeOK, Running, [Next]_vars
  PROVE  TypeOK'
<1> USE BudgetAssumption DEF TypeOK, Running
<1>1. ASSUME NEW c \in Callers, Call(c) PROVE TypeOK'
  BY <1>1 DEF Call, Outcomes
<1>2. ASSUME NEW a \in Answers, Gets(a)
      PROVE  log' \in Seq([attempt : 1..2, answer : Answers])
  BY <1>2 DEF Gets
<1>3. CASE Validated
  BY <1>2, <1>3 DEF Validated, Gets, Ends, Answers, Outcomes
<1>4. ASSUME NEW a \in Malformed, Invalid(a) PROVE TypeOK'
  BY <1>2, <1>4 DEF Invalid, Gets, Ends, CallsAgain, Malformed, Answers, Outcomes
<1>5. ASSUME NEW a \in General, Fails(a) PROVE TypeOK'
  BY <1>2, <1>5 DEF Fails, Gets, Ends, CallsAgain, General, Answers, Outcomes
<1>6. CASE ModelMissing
  BY <1>2, <1>6 DEF ModelMissing, Gets, Ends, Answers, Outcomes
<1>7. CASE Limited
  BY <1>2, <1>7 DEF Limited, Gets, Ends, Answers, Outcomes
<1>8. CASE Unavailable
  BY <1>2, <1>8 DEF Unavailable, Gets, Ends, Answers, Outcomes
<1>9. CASE Wakes
  BY <1>9 DEF Wakes
<1>10. CASE UNCHANGED vars
  BY <1>10 DEF vars
<1> QED
  BY <1>1, <1>3, <1>4, <1>5, <1>6, <1>7, <1>8, <1>9, <1>10 DEF Next, Malformed, General

-----------------------------------------------------------------------------
(***************************************************************************)
(* What one answer does                                                    *)
(***************************************************************************)

\* What every answer has in common, whatever follows from it.
LEMMA AnswerRecorded ==
  ASSUME TypeOK, Inductive, NEW a \in Answers, Gets(a)
  PROVE  /\ Len(log') = Len(log) + 1
         /\ log' # <<>>
         /\ Last' = [attempt |-> attempt, answer |-> a]
         /\ \A i \in DOMAIN log' : log'[i].attempt <= attempt
         /\ attempt' = attempt =>
              /\ Times(attempt, "429")' = rate + (IF a = "429" THEN 1 ELSE 0)
              /\ Times(attempt, "503")' = service + (IF a = "503" THEN 1 ELSE 0)
         /\ SecondCallHasReason'
<1>1. PICK e \in Entries : e = [attempt |-> attempt, answer |-> a] /\ log' = Append(log, e)
  BY DEF Gets, TypeOK, Entries
<1>2. log \in Seq(Entries) /\ attempt \in 1..2
  BY DEF TypeOK, Entries
<1>3. /\ Len(log) \in Nat
      /\ Len(log') = Len(log) + 1
      /\ DOMAIN log = 1..Len(log)
      /\ DOMAIN log' = 1..(Len(log) + 1)
      /\ \A i \in 1..Len(log) : log'[i] = log[i]
      /\ log'[Len(log) + 1] = e
      /\ log' # <<>>
  BY <1>1, <1>2
<1>4. Last' = e
  BY <1>3 DEF Last
<1>5. \A i \in DOMAIN log' : log'[i].attempt <= attempt
  BY <1>1, <1>2, <1>3 DEF Inductive, Counted
<1>6. ASSUME attempt' = attempt
      PROVE  /\ Times(attempt, "429")' = rate + (IF a = "429" THEN 1 ELSE 0)
             /\ Times(attempt, "503")' = service + (IF a = "503" THEN 1 ELSE 0)
  <2>1. "429" \in Answers /\ "503" \in Answers
    BY DEF Answers
  <2>2. \A b \in {"429", "503"} :
          Times(attempt, b)' = Times(attempt, b) + (IF a = b THEN 1 ELSE 0)
    BY <1>1, <1>2, <1>6, <2>1, TimesAppend
  <2> QED
    BY <2>2 DEF Inductive, Counted
<1>7. SecondCallHasReason'
  <2> SUFFICES ASSUME NEW i \in 1..(Len(log') - 1),
                      log'[i].attempt # log'[i + 1].attempt
               PROVE  log'[i].answer \in (IF caller' = "pipeline" THEN General ELSE Malformed)
    BY DEF SecondCallHasReason
  <2>1. caller' = caller
    BY DEF Gets
  <2>2. CASE i < Len(log)
    BY <1>3, <2>1, <2>2 DEF Inductive, SecondCallHasReason
  <2>3. CASE i = Len(log)
    <3>1. log[i] = Last /\ log[i] \in Entries
      BY <1>2, <1>3, <2>3 DEF Last
    <3>2. Last.attempt # attempt /\ Last.attempt <= attempt
      BY <1>1, <1>3, <2>3, <3>1 DEF Inductive, Counted
    <3>3. attempt = 2 /\ Last.attempt = 1
      BY <1>2, <3>1, <3>2 DEF Entries
    <3> QED
      BY <1>3, <2>1, <2>3, <3>1, <3>3 DEF Gets, Inductive, Running
  <2>4. i \in 1..Len(log)
    BY <1>3
  <2>5. i < Len(log) \/ i = Len(log)
    <3>1. Len(log) \in Nat
      BY <1>3
    <3> QED
      BY <2>4, <3>1
  <2> QED
    BY <2>2, <2>3, <2>5
<1> QED
  BY <1>1, <1>3, <1>4, <1>5, <1>6, <1>7

-----------------------------------------------------------------------------
(***************************************************************************)
(* The invariant, action by action                                         *)
(***************************************************************************)

\* The adapter repeats the request or ends, within the same adapter call.
LEMMA SameAdapterCall ==
  ASSUME TypeOK, Inductive, NEW a \in Answers, Gets(a), attempt' = attempt,
         rate' = rate + (IF a = "429" THEN 1 ELSE 0),
         service' = service + (IF a = "503" THEN 1 ELSE 0)
  PROVE  /\ Counted'
         /\ SecondCallHasReason'
         /\ RequestsBounded'
<1>1. Counted'
  BY AnswerRecorded DEF Counted, TypeOK
<1>2. RequestsBounded'
  BY AnswerRecorded, BudgetAssumption
  DEF Gets, TypeOK, Inductive, Running, RequestsBounded
<1> QED
  BY <1>1, <1>2, AnswerRecorded

\* A call that ends has an error of a budget exactly when this is spent.
LEMMA EndsRight ==
  ASSUME TypeOK, Inductive, NEW a \in Answers, Gets(a), NEW o \in Outcomes, Ends(o),
         rate' = rate + (IF a = "429" THEN 1 ELSE 0),
         service' = service + (IF a = "503" THEN 1 ELSE 0),
         o = "rate_limit" <=> a = "429",
         o = "service_unavailable" <=> a = "503",
         a = "429" => rate + 1 >= RateLimitAttempts,
         a = "503" => service + 1 >= ServiceAttempts,
         o = "ok" <=> \/ a = "valid"
                      \/ caller = "graph" /\ a = "misdrawn" /\ attempt = 2
  PROVE  Inductive'
<1>1. /\ rate \in Nat /\ service \in Nat
      /\ rate < RateLimitAttempts /\ service < ServiceAttempts
  BY DEF Gets, TypeOK, Inductive, Running
<1>2. Ended'
  BY <1>1, AnswerRecorded, BudgetAssumption DEF Ended, Ends
<1>3. SuccessRestsOnLastAnswer'
  BY AnswerRecorded DEF SuccessRestsOnLastAnswer, Ends, Gets
<1>4. Running'
  BY DEF Running, Ends
<1> QED
  BY <1>2, <1>3, <1>4, SameAdapterCall DEF Inductive, Ends

\* A second adapter call starts with counters at 0 and no answers.
LEMMA CallsAgainRight ==
  ASSUME TypeOK, Inductive, NEW a \in Answers, Gets(a), attempt = 1,
         NEW next \in {"request", "asleep"}, CallsAgain(next),
         a \in (IF caller = "pipeline" THEN General ELSE Malformed)
  PROVE  Inductive'
<1>1. \A i \in DOMAIN log' : log'[i].attempt <= 1 /\ log'[i] \in Entries
  <2>1. log' \in Seq(Entries)
    BY DEF Gets, TypeOK, Entries
  <2> QED
    BY <2>1, AnswerRecorded
<1>2. \A i \in DOMAIN log' : log'[i].attempt # 2
  BY <1>1 DEF Entries
<1>3. Times(2, "429")' = 0 /\ Times(2, "503")' = 0
  BY <1>2, TimesNone, FS_EmptySet DEF Times
<1>4. Counted'
  BY <1>1, <1>3, AnswerRecorded DEF Counted, CallsAgain, Entries
<1>5. Running'
  <2>1. Len(log') <= RateLimitAttempts + ServiceAttempts - 1
    BY AnswerRecorded, BudgetAssumption DEF Gets, TypeOK, Inductive, Running
  <2> QED
    BY <2>1, AnswerRecorded, BudgetAssumption DEF Running, CallsAgain, Gets
<1>6. RequestsBounded'
  BY AnswerRecorded, BudgetAssumption DEF Gets, TypeOK, Inductive, Running, RequestsBounded
<1>7. Ended' /\ SuccessRestsOnLastAnswer'
  BY DEF Ended, SuccessRestsOnLastAnswer, CallsAgain
<1> QED
  BY <1>4, <1>5, <1>6, <1>7, AnswerRecorded DEF Inductive

\* The adapter waits and repeats the request.
LEMMA RepeatsRight ==
  ASSUME TypeOK, Inductive, NEW a \in {"429", "503"}, Gets(a),
         rate' = rate + (IF a = "429" THEN 1 ELSE 0),
         service' = service + (IF a = "503" THEN 1 ELSE 0),
         rate' < RateLimitAttempts, service' < ServiceAttempts,
         stage' = "asleep", UNCHANGED <<attempt, outcome>>
  PROVE  Inductive'
<1>1. a \in Answers
  BY DEF Answers
<1>2. /\ Len(log') = Len(log) + 1
      /\ Last' = [attempt |-> attempt, answer |-> a]
  BY <1>1, AnswerRecorded
<1>3. Running'
  <2>1. /\ Len(log) \in Nat /\ rate \in Nat /\ service \in Nat
        /\ rate' + service' = rate + service + 1
    BY DEF TypeOK
  <2>2. Len(log') <= rate' + service'
                     + (IF attempt = 1 THEN 0 ELSE RateLimitAttempts + ServiceAttempts - 1)
    BY <1>2, <2>1, BudgetAssumption DEF Gets, Inductive, Running
  <2>3. ~(attempt' = 2 /\ Last'.attempt = 1)
    BY <1>2
  <2> QED
    BY <2>2, <2>3 DEF Running
<1>4. Ended' /\ SuccessRestsOnLastAnswer'
  BY DEF Ended, SuccessRestsOnLastAnswer
<1> QED
  BY <1>1, <1>3, <1>4, SameAdapterCall DEF Inductive

\* Every step keeps the invariant.
LEMMA Preserved ==
  ASSUME TypeOK, Inductive, [Next]_vars
  PROVE  Inductive'
<1>1. ASSUME NEW c \in Callers, Call(c) PROVE Inductive'
  <2>1. log' = <<>> /\ Len(log') = 0 /\ DOMAIN log' = {}
    BY <1>1 DEF Call
  <2>2. \A a : Times(1, a)' = 0
    BY <2>1, FS_EmptySet DEF Times
  <2>3. Counted'
    BY <1>1, <2>1, <2>2 DEF Counted, Call
  <2>4. Running' /\ RequestsBounded'
    BY <1>1, <2>1, BudgetAssumption DEF Running, RequestsBounded, Call
  <2>5. SecondCallHasReason'
    BY <2>1 DEF SecondCallHasReason
  <2>6. Ended' /\ SuccessRestsOnLastAnswer'
    BY <1>1 DEF Ended, SuccessRestsOnLastAnswer, Call
  <2> QED
    BY <2>3, <2>4, <2>5, <2>6 DEF Inductive
<1>2. CASE Validated
  <2>1. Gets("valid") /\ Ends("ok") /\ UNCHANGED <<rate, service>>
    BY <1>2 DEF Validated
  <2> QED
    BY <2>1, EndsRight DEF Answers, Outcomes, TypeOK
<1>3. ASSUME NEW a \in Malformed, Invalid(a), a = "misdrawn" => caller = "graph"
      PROVE  Inductive'
  <2>1. a \in Answers /\ Gets(a)
    BY <1>3 DEF Invalid, Malformed, Answers
  <2>2. CASE caller = "graph" /\ attempt = 1
    BY <1>3, <2>1, <2>2, CallsAgainRight DEF Invalid
  <2>3. CASE ~(caller = "graph" /\ attempt = 1)
    <3>1. PICK o \in {"ok", "output_validation"} :
            /\ o = (IF caller = "graph" /\ a = "misdrawn" THEN "ok" ELSE "output_validation")
            /\ Ends(o)
            /\ UNCHANGED <<rate, service>>
      BY <1>3, <2>3 DEF Invalid
    <3>2. o = "ok" <=> caller = "graph" /\ a = "misdrawn" /\ attempt = 2
      BY <2>3, <3>1 DEF TypeOK
    <3> QED
      BY <2>1, <3>1, <3>2, EndsRight DEF Malformed, Outcomes, TypeOK
  <2> QED
    BY <2>2, <2>3
<1>4. ASSUME NEW a \in General, Fails(a) PROVE Inductive'
  <2>1. a \in Answers /\ Gets(a)
    BY <1>4 DEF Fails, General, Answers
  <2>2. CASE caller = "pipeline" /\ attempt = 1
    BY <1>4, <2>1, <2>2, CallsAgainRight DEF Fails
  <2>3. CASE ~(caller = "pipeline" /\ attempt = 1)
    <3>1. Ends("generation") /\ UNCHANGED <<rate, service>>
      BY <1>4, <2>3 DEF Fails
    <3> QED
      BY <2>1, <3>1, EndsRight DEF General, Outcomes, TypeOK
  <2> QED
    BY <2>2, <2>3
<1>5. CASE ModelMissing
  <2>1. Gets("404") /\ Ends("model_configuration") /\ UNCHANGED <<rate, service>>
    BY <1>5 DEF ModelMissing
  <2> QED
    BY <2>1, EndsRight DEF Answers, Outcomes, TypeOK
<1>6. CASE Limited
  <2>1. Gets("429") /\ rate' = rate + 1 /\ service' = service /\ service \in Nat /\ rate \in Nat
    BY <1>6 DEF Limited, TypeOK
  <2>2. CASE rate + 1 >= RateLimitAttempts
    <3>1. Ends("rate_limit")
      BY <1>6, <2>2 DEF Limited
    <3> QED
      BY <2>1, <2>2, <3>1, EndsRight DEF Answers, Outcomes
  <2>3. CASE ~(rate + 1 >= RateLimitAttempts)
    <3>1. stage' = "asleep" /\ UNCHANGED <<attempt, outcome>>
      BY <1>6, <2>3 DEF Limited
    <3>2. rate' < RateLimitAttempts /\ service' < ServiceAttempts
      BY <2>1, <2>3, BudgetAssumption DEF Gets, Inductive, Running
    <3> QED
      BY <2>1, <3>1, <3>2, RepeatsRight
  <2> QED
    BY <2>2, <2>3
<1>7. CASE Unavailable
  <2>1. Gets("503") /\ service' = service + 1 /\ rate' = rate /\ service \in Nat /\ rate \in Nat
    BY <1>7 DEF Unavailable, TypeOK
  <2>2. CASE service + 1 >= ServiceAttempts
    <3>1. Ends("service_unavailable")
      BY <1>7, <2>2 DEF Unavailable
    <3> QED
      BY <2>1, <2>2, <3>1, EndsRight DEF Answers, Outcomes
  <2>3. CASE ~(service + 1 >= ServiceAttempts)
    <3>1. stage' = "asleep" /\ UNCHANGED <<attempt, outcome>>
      BY <1>7, <2>3 DEF Unavailable
    <3>2. rate' < RateLimitAttempts /\ service' < ServiceAttempts
      BY <2>1, <2>3, BudgetAssumption DEF Gets, Inductive, Running
    <3> QED
      BY <2>1, <3>1, <3>2, RepeatsRight
  <2> QED
    BY <2>2, <2>3
<1>8. ASSUME UNCHANGED <<caller, attempt, rate, service, outcome, log>>,
             stage' = stage \/ (stage = "asleep" /\ stage' = "request")
      PROVE  Inductive'
  BY <1>8 DEF Inductive, Running, Counted, Ended, RequestsBounded, SecondCallHasReason,
              SuccessRestsOnLastAnswer, Times, Last
<1>9. CASE Wakes
  BY <1>8, <1>9 DEF Wakes
<1>10. CASE UNCHANGED vars
  BY <1>8, <1>10 DEF vars
<1> QED
  BY <1>1, <1>2, <1>3, <1>4, <1>5, <1>6, <1>7, <1>9, <1>10 DEF Next, Malformed, General

LEMMA Initial ==
  ASSUME Init
  PROVE  TypeOK /\ Inductive
<1>1. log = <<>> /\ Len(log) = 0 /\ DOMAIN log = {}
  BY DEF Init
<1>2. Times(1, "429") = 0 /\ Times(1, "503") = 0
  BY <1>1, FS_EmptySet DEF Times
<1>3. TypeOK
  BY BudgetAssumption DEF Init, TypeOK
<1>4. Counted
  BY <1>1, <1>2 DEF Init, Counted
<1>5. RequestsBounded /\ SecondCallHasReason
  BY <1>1, BudgetAssumption DEF RequestsBounded, SecondCallHasReason
<1>6. Running /\ Ended /\ SuccessRestsOnLastAnswer
  BY DEF Init, Running, Ended, SuccessRestsOnLastAnswer
<1> QED
  BY <1>3, <1>4, <1>5, <1>6 DEF Inductive

-----------------------------------------------------------------------------
(***************************************************************************)
(* Theorems                                                                *)
(***************************************************************************)

\* Types and the invariant hold in every behaviour of the nested retry loops of
\* infra/gemini.py under app/pipeline.py and app/graph.py.
THEOREM CallSoundness == Spec => [](TypeOK /\ Inductive)
<1>1. Init => TypeOK /\ Inductive
  BY Initial
<1>2. TypeOK /\ Inductive /\ [Next]_vars => TypeOK' /\ Inductive'
  BY TypeStep, Preserved DEF Inductive
<1> QED
  BY <1>1, <1>2, PTL DEF Spec

\* A model call costs at most twice the sum of the budgets less one, whatever
\* the API answers: _generate_content is never repeated without end.
THEOREM RequestsAreBounded == Spec => []RequestsBounded
<1>1. Inductive => RequestsBounded
  BY DEF Inductive
<1> QED
  BY <1>1, CallSoundness, PTL

\* The errors for 429 and 503 leave the adapter exactly when their own budget
\* is spent, however the two kinds of answers alternate.
THEOREM BudgetsAreExact == Spec => []BudgetsSpentExactly
<1>1. Inductive => BudgetsSpentExactly
  BY DEF Inductive, Ended, Counted, BudgetsSpentExactly
<1> QED
  BY <1>1, CallSoundness, PTL

\* A second adapter call always has the one reason its use case allows.
THEOREM SecondCallJustified == Spec => []SecondCallHasReason
<1>1. Inductive => SecondCallHasReason
  BY DEF Inductive
<1> QED
  BY <1>1, CallSoundness, PTL

\* What a use case takes for an output is the last answer, validated.
THEOREM SuccessJustified == Spec => []SuccessRestsOnLastAnswer
<1>1. Inductive => SuccessRestsOnLastAnswer
  BY DEF Inductive
<1> QED
  BY <1>1, CallSoundness, PTL
=============================================================================
