---------------------------- MODULE EventStream ----------------------------
(***************************************************************************)
(* The streaming routes POST /issues and GET /issues/{id}/graph, which run *)
(* a use case in a worker thread and relay its progress, and the reader of *)
(* the web client (web/src/api/sse.ts).  Per request:                      *)
(*                                                                         *)
(*   worker thread --call_soon_threadsafe--> ready list of the event loop  *)
(*     --put_nowait--> asyncio.Queue --generator--> wire --> reader        *)
(*                                                                         *)
(* The thread's result takes the first leg, too: it is a callback that     *)
(* makes the task done.  The generator polls queue and task; both are only *)
(* touched by the loop.  The loop runs its callbacks in the order in which *)
(* they were scheduled.                                                    *)
(***************************************************************************)
EXTENDS Naturals, Sequences

CONSTANTS
  Streams,      \* requests, each opened once
  Outcomes,     \* what generate or build returns or raises
  MaxStages     \* bound: progress reports of one use case

ASSUME StreamAssumption == MaxStages \in Nat

VARIABLES
  emitted, worker, result, heard, link,  \* as in StreamContract
  ready,      \* stream -> callbacks scheduled on the loop, oldest first
  queue,      \* stream -> progress_queue: stages by number
  done,       \* stream -> task.done()
  generator,  \* stream -> "idle", "relaying", "closed" or "stopped"
  wire        \* stream -> events written and not yet read

streamVars ==
  <<emitted, worker, result, heard, link, ready, queue, done, generator, wire>>

\* What a reader may rely on.
Contract == INSTANCE StreamContract

Nothing == Contract!Nothing
Stage(n) == Contract!Stage(n)
Terminal(o) == Contract!Terminal(o)
Stages(n) == Contract!Stages(n)

\* The callback by which the thread's end reaches the task; others are put_nowait(n).
Completion == 0

Events ==
  [event : {"stage", "terminal"}, at : Nat, outcome : Outcomes \cup {Nothing}]

TypeOK ==
  /\ emitted \in [Streams -> Nat]
  /\ worker \in [Streams -> {"idle", "running", "returned", "killed"}]
  /\ result \in [Streams -> Outcomes \cup {Nothing}]
  /\ heard \in [Streams -> Seq(Events)]
  /\ link \in [Streams -> {"none", "open", "ended", "broken"}]
  /\ ready \in [Streams -> Seq(Nat)]
  /\ queue \in [Streams -> Seq(Nat)]
  /\ done \in [Streams -> BOOLEAN]
  /\ generator \in [Streams -> {"idle", "relaying", "closed", "stopped"}]
  /\ wire \in [Streams -> Seq(Events)]

StreamInit ==
  /\ Contract!Init
  /\ ready = [s \in Streams |-> <<>>]
  /\ queue = [s \in Streams |-> <<>>]
  /\ done = [s \in Streams |-> FALSE]
  /\ generator = [s \in Streams |-> "idle"]
  /\ wire = [s \in Streams |-> <<>>]

-----------------------------------------------------------------------------
(* The server.                                                             *)

\* The request arrives: the generator starts the task and its thread.
Open(s) ==
  /\ link[s] = "none"
  /\ link' = [link EXCEPT ![s] = "open"]
  /\ worker' = [worker EXCEPT ![s] = "running"]
  /\ generator' = [generator EXCEPT ![s] = "relaying"]
  /\ UNCHANGED <<emitted, result, heard, ready, queue, done, wire>>

\* loop.call_soon_threadsafe, from the worker thread.
Report(s, c) == ready' = [ready EXCEPT ![s] = Append(ready[s], c)]

\* receive_progress
Emit(s) ==
  /\ worker[s] = "running"
  /\ emitted[s] < MaxStages
  /\ emitted' = [emitted EXCEPT ![s] = emitted[s] + 1]
  /\ Report(s, emitted[s] + 1)
  /\ UNCHANGED <<worker, result, heard, link, queue, done, generator, wire>>

\* Mutant of Return: the end of the thread is not reported to the loop.
ReturnUnreported(s, o) ==
  /\ worker[s] = "running"
  /\ worker' = [worker EXCEPT ![s] = "returned"]
  /\ result' = [result EXCEPT ![s] = o]
  /\ UNCHANGED <<emitted, heard, link, ready, queue, done, generator, wire>>

\* The use case returns or raises; nobody needs to be listening any more.
Return(s, o) ==
  /\ worker[s] = "running"
  /\ worker' = [worker EXCEPT ![s] = "returned"]
  /\ result' = [result EXCEPT ![s] = o]
  /\ Report(s, Completion)
  /\ UNCHANGED <<emitted, heard, link, queue, done, generator, wire>>

\* The loop runs the callback scheduled first.
RunCallback(s) ==
  /\ ready[s] # <<>>
  /\ ready' = [ready EXCEPT ![s] = Tail(ready[s])]
  /\ IF Head(ready[s]) = Completion
       THEN /\ done' = [done EXCEPT ![s] = TRUE]
            /\ UNCHANGED queue
       ELSE /\ queue' = [queue EXCEPT ![s] = Append(queue[s], Head(ready[s]))]
            /\ UNCHANGED done
  /\ UNCHANGED <<emitted, worker, result, heard, link, generator, wire>>

\* Mutant of Exhausted: the queue is not looked at once the task is done.
ExhaustedWhenDone(s) == done[s]

\* not (not task.done() or not progress_queue.empty())
Exhausted(s) == done[s] /\ queue[s] = <<>>

\* One turn of the loop that gets an item in time; a timeout changes nothing.
Relay(s) ==
  /\ generator[s] = "relaying"
  /\ ~ Exhausted(s)
  /\ queue[s] # <<>>
  /\ wire' = [wire EXCEPT ![s] = Append(wire[s], Stage(Head(queue[s])))]
  /\ queue' = [queue EXCEPT ![s] = Tail(queue[s])]
  /\ UNCHANGED <<emitted, worker, result, heard, link, ready, done, generator>>

\* After the loop: the outcome as one event, and the end of the generator.
Finish(s) ==
  /\ generator[s] = "relaying"
  /\ Exhausted(s)
  /\ wire' = [wire EXCEPT ![s] = Append(wire[s], Terminal(result[s]))]
  /\ generator' = [generator EXCEPT ![s] = "closed"]
  /\ UNCHANGED <<emitted, worker, result, heard, link, ready, queue, done>>

\* The process stops, with threads, loop and generators.
Restart ==
  /\ \E s \in Streams : worker[s] = "running" \/ generator[s] = "relaying"
  /\ worker' = [s \in Streams |->
                  IF worker[s] = "running" THEN "killed" ELSE worker[s]]
  /\ generator' = [s \in Streams |->
                     IF generator[s] = "relaying" THEN "stopped" ELSE generator[s]]
  /\ ready' = [s \in Streams |-> <<>>]
  /\ queue' = [s \in Streams |-> <<>>]
  /\ UNCHANGED <<emitted, result, heard, link, done, wire>>

-----------------------------------------------------------------------------
(* The connection and its reader.                                          *)

\* The next complete block is parsed and handed to its handler.
Hear(s) ==
  /\ link[s] = "open"
  /\ wire[s] # <<>>
  /\ heard' = [heard EXCEPT ![s] = Append(heard[s], Head(wire[s]))]
  /\ wire' = [wire EXCEPT ![s] = Tail(wire[s])]
  /\ UNCHANGED <<emitted, worker, result, link, ready, queue, done, generator>>

\* The reader gets the regular end of the response.
End(s) ==
  /\ link[s] = "open"
  /\ generator[s] = "closed"
  /\ wire[s] = <<>>
  /\ link' = [link EXCEPT ![s] = "ended"]
  /\ UNCHANGED <<emitted, worker, result, heard, ready, queue, done, generator, wire>>

\* The connection fails or the client leaves; the generator is cancelled, its
\* thread goes on.
Break(s) ==
  /\ link[s] = "open"
  /\ link' = [link EXCEPT ![s] = "broken"]
  /\ generator' = [generator EXCEPT ![s] = IF @ = "relaying" THEN "stopped" ELSE @]
  /\ wire' = [wire EXCEPT ![s] = <<>>]
  /\ UNCHANGED <<emitted, worker, result, heard, ready, queue, done>>

-----------------------------------------------------------------------------

\* What the server does by itself.
ServerStep(s) == Emit(s) \/ RunCallback(s) \/ Relay(s) \/ Finish(s)

StreamNext ==
  \/ \E s \in Streams :
       \/ Open(s) \/ ServerStep(s) \/ Hear(s) \/ End(s) \/ Break(s)
       \/ \E o \in Outcomes : Return(s, o)
  \/ Restart

StreamSpec == StreamInit /\ [][StreamNext]_streamVars

\* Threads, the loop, the generator and the reader keep running; a use case
\* comes to an end (TimelinePipeline!DialoguesSettle, KnowledgeGraph!BuildsEnd).
FairStream(s) ==
  /\ WF_streamVars(\E o \in Outcomes : Return(s, o))
  /\ WF_streamVars(RunCallback(s))
  /\ WF_streamVars(Relay(s))
  /\ WF_streamVars(Finish(s))
  /\ WF_streamVars(Hear(s))
  /\ WF_streamVars(End(s))

FairStreamSpec == StreamSpec /\ \A s \in Streams : FairStream(s)

-----------------------------------------------------------------------------
(* Properties.                                                             *)

\* A reader hears the stages in the order of their making and without a gap, then
\* at most one outcome, which is the use case's and comes after all its stages
\* (routes/issues.py 99-185, sse.ts 24-56).
HeardFaithfully ==
  \A s \in Streams :
    \E n \in 0..emitted[s] :
      \/ heard[s] = Stages(n)
      \/ /\ n = emitted[s]
         /\ worker[s] = "returned"
         /\ heard[s] = Append(Stages(n), Terminal(result[s]))

\* A regular end never comes without an outcome: each return of the generator
\* (routes/issues.py 106-185) is preceded by a terminal event.
EndsWithOutcome ==
  \A s \in Streams :
    link[s] = "ended" => heard[s] = Append(Stages(emitted[s]), Terminal(result[s]))

\* Each step of the routes is one the contract allows.  In particular the use case goes
\* its way whether anybody listens or not: a client that leaves cancels the generator and
\* neither stops the thread nor changes its result (routes/issues.py 92-104).
ImplementsContract == Contract!Spec

\* A client that stays hears the outcome of a use case that returned, unless the
\* connection breaks or the process stops.
OutcomeHeard ==
  \A s \in Streams :
    link[s] = "open" /\ worker[s] = "returned"
      ~> link[s] \in {"ended", "broken"} \/ generator[s] = "stopped"
=============================================================================
