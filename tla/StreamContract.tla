--------------------------- MODULE StreamContract ---------------------------
(***************************************************************************)
(* What the reader of a Server-Sent-Event stream relies on: it hears the   *)
(* stages of the use case one by one, none missing, then the outcome, then *)
(* the end; or the connection breaks and it hears nothing more.  The use   *)
(* case itself does not depend on whether anybody listens.                 *)
(***************************************************************************)
EXTENDS Naturals, Sequences

CONSTANTS
  Streams,
  Outcomes      \* what a use case may come to

VARIABLES
  emitted,      \* stream -> stages the use case has reported so far
  worker,       \* stream -> "idle", "running", "returned" or "killed"
  result,       \* stream -> outcome, once returned
  heard,        \* stream -> events handed to the reader's handlers
  link          \* stream -> "none", "open", "ended" or "broken"

vars == <<emitted, worker, result, heard, link>>

Nothing == "nothing"

\* An event of the stream: the n-th stage, or the outcome.
Stage(n) == [event |-> "stage", at |-> n, outcome |-> Nothing]
Terminal(o) == [event |-> "terminal", at |-> 0, outcome |-> o]

Stages(n) == [i \in 1..n |-> Stage(i)]

Init ==
  /\ emitted = [s \in Streams |-> 0]
  /\ worker = [s \in Streams |-> "idle"]
  /\ result = [s \in Streams |-> Nothing]
  /\ heard = [s \in Streams |-> <<>>]
  /\ link = [s \in Streams |-> "none"]

Open(s) ==
  /\ link[s] = "none"
  /\ link' = [link EXCEPT ![s] = "open"]
  /\ worker' = [worker EXCEPT ![s] = "running"]
  /\ UNCHANGED <<emitted, result, heard>>

Emit(s) ==
  /\ worker[s] = "running"
  /\ emitted' = [emitted EXCEPT ![s] = emitted[s] + 1]
  /\ UNCHANGED <<worker, result, heard, link>>

Return(s) ==
  /\ worker[s] = "running"
  /\ worker' = [worker EXCEPT ![s] = "returned"]
  /\ \E o \in Outcomes : result' = [result EXCEPT ![s] = o]
  /\ UNCHANGED <<emitted, heard, link>>

\* The next stage, which has been reported.
HearStage(s) ==
  /\ link[s] = "open"
  /\ heard[s] = Stages(Len(heard[s]))
  /\ Len(heard[s]) < emitted[s]
  /\ heard' = [heard EXCEPT ![s] = Append(heard[s], Stage(Len(heard[s]) + 1))]
  /\ UNCHANGED <<emitted, worker, result, link>>

\* The outcome, after all that was reported.
HearOutcome(s) ==
  /\ link[s] = "open"
  /\ worker[s] = "returned"
  /\ heard[s] = Stages(emitted[s])
  /\ heard' = [heard EXCEPT ![s] = Append(heard[s], Terminal(result[s]))]
  /\ UNCHANGED <<emitted, worker, result, link>>

\* The end of the stream comes after the outcome only.
End(s) ==
  /\ link[s] = "open"
  /\ worker[s] = "returned"
  /\ heard[s] = Append(Stages(emitted[s]), Terminal(result[s]))
  /\ link' = [link EXCEPT ![s] = "ended"]
  /\ UNCHANGED <<emitted, worker, result, heard>>

Break(s) ==
  /\ link[s] = "open"
  /\ link' = [link EXCEPT ![s] = "broken"]
  /\ UNCHANGED <<emitted, worker, result, heard>>

\* The process stops: use cases end without a result.
Restart ==
  /\ worker' = [s \in Streams |->
                  IF worker[s] = "running" THEN "killed" ELSE worker[s]]
  /\ UNCHANGED <<emitted, result, heard, link>>

Next ==
  \/ \E s \in Streams :
       \/ Open(s) \/ Emit(s) \/ Return(s)
       \/ HearStage(s) \/ HearOutcome(s) \/ End(s) \/ Break(s)
  \/ Restart

Spec == Init /\ [][Next]_vars
=============================================================================
