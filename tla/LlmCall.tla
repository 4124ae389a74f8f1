------------------------------ MODULE LlmCall ------------------------------
(***************************************************************************)
(* One call of the language model, from the use case that needs an answer  *)
(* (TimelinePipeline._call_llm or KnowledgeGraphService._extract) through  *)
(* the adapter (infra/gemini.py) to the requests sent to the API.          *)
(*                                                                         *)
(* Two loops are nested.  The adapter repeats a request after 429 and 503  *)
(* within budgets that start anew with each of its calls; the use case     *)
(* calls the adapter a second time for reasons of its own: the pipeline    *)
(* after a general failure, the graph builder to have an output corrected. *)
(***************************************************************************)
EXTENDS Integers, Sequences, FiniteSets

CONSTANTS
  RateLimitAttempts,  \* GEMINI rate_limit_max_attempts
  ServiceAttempts     \* GEMINI service_unavailable_max_attempts

ASSUME BudgetAssumption ==
  /\ RateLimitAttempts \in Nat \ {0}
  /\ ServiceAttempts \in Nat \ {0}

None == "none"

Callers == {"pipeline", "graph"}

\* What a request comes back with.  A misdrawn output is wrong in nothing but
\* relations whose ends are not among its entities; garbled is any other output
\* that does not validate; broken is another API error or a network failure.
Answers == {"valid", "misdrawn", "garbled", "empty", "broken", "404", "429", "503"}

\* The exceptions of core/errors.py that leave the use case, and its return.
Outcomes == {"ok", "model_configuration", "output_validation", "rate_limit",
             "service_unavailable", "generation"}

VARIABLES
  stage,    \* where the thread is
  caller,   \* the use case
  attempt,  \* which call of the adapter this is: 1 or 2
  rate,     \* rate_limit_attempts
  service,  \* service_attempts
  outcome,
  log       \* history: each answer and the adapter call it was given to

vars == <<stage, caller, attempt, rate, service, outcome, log>>

TypeOK ==
  /\ stage \in {"idle", "request", "asleep", "over"}
  /\ caller \in Callers
  /\ attempt \in 1..2
  /\ rate \in 0..RateLimitAttempts
  /\ service \in 0..ServiceAttempts
  /\ outcome \in Outcomes \cup {None}
  /\ log \in Seq([attempt : 1..2, answer : Answers])

Init ==
  /\ stage = "idle"
  /\ caller \in Callers
  /\ attempt = 1
  /\ rate = 0
  /\ service = 0
  /\ outcome = None
  /\ log = <<>>

-----------------------------------------------------------------------------
\* The use case calls generate for the first time.
Call(c) ==
  /\ stage \in {"idle", "over"}
  /\ stage' = "request"
  /\ caller' = c
  /\ attempt' = 1
  /\ rate' = 0
  /\ service' = 0
  /\ outcome' = None
  /\ log' = <<>>

Gets(a) ==
  /\ stage = "request"
  /\ log' = Append(log, [attempt |-> attempt, answer |-> a])
  /\ caller' = caller

\* The call is over, by return or by raise.
Ends(o) ==
  /\ stage' = "over"
  /\ outcome' = o
  /\ attempt' = attempt

\* The use case calls the adapter a second time: its counters start at 0.
CallsAgain(next) ==
  /\ stage' = next
  /\ attempt' = 2
  /\ rate' = 0
  /\ service' = 0
  /\ outcome' = outcome

\* generate: a parsed or validated output, whichever call it is.
Validated ==
  /\ Gets("valid")
  /\ Ends("ok")
  /\ UNCHANGED <<rate, service>>

\* Mutant of Invalid: the pipeline has outputs corrected, too.
InvalidAlwaysCorrected(a) ==
  /\ Gets(a)
  /\ IF attempt = 1
     THEN CallsAgain("request")
     ELSE /\ Ends(IF caller = "graph" /\ a = "misdrawn" THEN "ok" ELSE "output_validation")
          /\ UNCHANGED <<rate, service>>

\* Mutant of Invalid: what cannot be repaired is kept.
InvalidKept(a) ==
  /\ Gets(a)
  /\ IF caller = "graph" /\ attempt = 1
     THEN CallsAgain("request")
     ELSE /\ Ends(IF caller = "graph" THEN "ok" ELSE "output_validation")
          /\ UNCHANGED <<rate, service>>

\* An output that does not validate ends the pipeline's call.  The graph builder
\* asks once for a correction; of a second misdrawn graph it drops the relations.
Invalid(a) ==
  /\ Gets(a)
  /\ IF caller = "graph" /\ attempt = 1
     THEN CallsAgain("request")
     ELSE /\ Ends(IF caller = "graph" /\ a = "misdrawn" THEN "ok" ELSE "output_validation")
          /\ UNCHANGED <<rate, service>>

\* An empty response, another API error, a network failure: the pipeline calls
\* the adapter again after a second, the graph builder does not.
Fails(a) ==
  /\ Gets(a)
  /\ IF caller = "pipeline" /\ attempt = 1
     THEN CallsAgain("asleep")
     ELSE Ends("generation") /\ UNCHANGED <<rate, service>>

ModelMissing ==
  /\ Gets("404")
  /\ Ends("model_configuration")
  /\ UNCHANGED <<rate, service>>

\* Mutant of Limited: one budget for both errors.
LimitedByAll ==
  /\ Gets("429")
  /\ rate' = rate + 1
  /\ service' = service
  /\ IF rate + service + 1 >= RateLimitAttempts
     THEN Ends("rate_limit")
     ELSE stage' = "asleep" /\ UNCHANGED <<attempt, outcome>>

\* 429: wait for Retry-After until the budget of this adapter call is spent.
Limited ==
  /\ Gets("429")
  /\ rate' = rate + 1
  /\ service' = service
  /\ IF rate + 1 >= RateLimitAttempts
     THEN Ends("rate_limit")
     ELSE stage' = "asleep" /\ UNCHANGED <<attempt, outcome>>

\* 503: wait 1, 2, 4, ... seconds until the budget of this adapter call is spent.
Unavailable ==
  /\ Gets("503")
  /\ service' = service + 1
  /\ rate' = rate
  /\ IF service + 1 >= ServiceAttempts
     THEN Ends("service_unavailable")
     ELSE stage' = "asleep" /\ UNCHANGED <<attempt, outcome>>

\* The wait is over: _retry_wait of the adapter or the sleep of the pipeline.
Wakes ==
  /\ stage = "asleep"
  /\ stage' = "request"
  /\ UNCHANGED <<caller, attempt, rate, service, outcome, log>>

Next ==
  \/ \E c \in Callers : Call(c)
  \/ Validated
  \/ Invalid("garbled")
  \/ caller = "graph" /\ Invalid("misdrawn")
  \/ \E a \in {"empty", "broken"} : Fails(a)
  \/ ModelMissing
  \/ Limited
  \/ Unavailable
  \/ Wakes

Spec == Init /\ [][Next]_vars

-----------------------------------------------------------------------------
Times(n, a) ==
  Cardinality({i \in DOMAIN log : log[i].attempt = n /\ log[i].answer = a})

Last == log[Len(log)]

Malformed == {"garbled", "misdrawn"}
General == {"empty", "broken"}

\* Whatever the API answers, a call of the model costs a bounded number of
\* requests: each of the at most two adapter calls stops before both its budgets
\* are spent (gemini.py _generate_content under pipeline.py _call_llm and
\* graph.py _extract).  As every answer adds to the log, a call also ends.
RequestsBounded == Len(log) <= 2 * (RateLimitAttempts + ServiceAttempts - 1)

\* The two budgets are independent: a call fails with the rate-limit error
\* exactly when the last adapter call saw its full number of 429, with the
\* service error exactly for its full number of 503, however they alternate.
BudgetsSpentExactly ==
  stage = "over" =>
    /\ outcome = "rate_limit" <=> Times(attempt, "429") = RateLimitAttempts
    /\ outcome = "service_unavailable" <=> Times(attempt, "503") = ServiceAttempts

\* A second adapter call has one reason only: a general failure of the
\* pipeline's first one, a malformed output of the graph builder's first one.
\* Spent budgets, a missing model and the pipeline's malformed outputs are final.
SecondCallHasReason ==
  \A i \in 1..(Len(log) - 1) :
    log[i].attempt # log[i + 1].attempt =>
      log[i].answer \in (IF caller = "pipeline" THEN General ELSE Malformed)

\* What is returned as a success was validated: it is the last answer, valid as
\* it came, or a corrected graph whose only fault was its relations.
SuccessRestsOnLastAnswer ==
  stage = "over" =>
    (outcome = "ok" <=>
       \/ Last.answer = "valid"
       \/ caller = "graph" /\ Last.answer = "misdrawn" /\ Last.attempt = 2)

-----------------------------------------------------------------------------
\* The invariant of the proofs: the counters are the numbers of the answers that
\* made the current adapter call repeat its request, and while a request is out
\* there is no other answer of this adapter call.
Running ==
  stage \in {"request", "asleep"} =>
    /\ rate < RateLimitAttempts
    /\ service < ServiceAttempts
    /\ Len(log) <= rate + service
                     + (IF attempt = 1 THEN 0 ELSE RateLimitAttempts + ServiceAttempts - 1)
    /\ attempt = 2 /\ Last.attempt = 1 =>
         Last.answer \in (IF caller = "pipeline" THEN General ELSE Malformed)

Counted ==
  /\ \A i \in DOMAIN log : log[i].attempt <= attempt
  /\ attempt = 2 => log # <<>>
  /\ Times(attempt, "429") = rate
  /\ Times(attempt, "503") = service

Ended ==
  stage = "over" =>
    /\ log # <<>>
    /\ outcome = "rate_limit" <=> rate = RateLimitAttempts
    /\ outcome = "service_unavailable" <=> service = ServiceAttempts

Inductive ==
  /\ Running
  /\ Counted
  /\ Ended
  /\ RequestsBounded
  /\ SecondCallHasReason
  /\ SuccessRestsOnLastAnswer
=============================================================================
