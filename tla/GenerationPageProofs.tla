------------------------- MODULE GenerationPageProofs -------------------------
(***************************************************************************)
(* Proofs about the streams and the page that opens them, for any number   *)
(* of streams, outcomes, stages, topics and questions.                     *)
(*                                                                         *)
(* The streams, from here on as EventStream has them: what a reader hears  *)
(* is faithful and complete, and the routes implement the contract.  At    *)
(* any time the stages reported so far lie one behind the other in what    *)
(* was heard, the wire, the queue and the loop's ready list, and the       *)
(* thread's completion behind all of them.                                 *)
(*                                                                         *)
(* The page: its dialogue stays together, and what it shows is the outcome *)
(* of the last request, as long as the user waits for the end of a         *)
(* response before retrying.                                               *)
(***************************************************************************)
EXTENDS GenerationPage, TLAPS

-----------------------------------------------------------------------------
(* The inductive invariant: a stream is in one of five phases.             *)

\* On the wire, in the queue, on the ready list: the stages from k + 1 on.
OnWire(s, k, n) == \A i \in 1..n : wire[s][i] = Stage(k + i)
InQueue(s, k) == \A i \in 1..Len(queue[s]) : queue[s][i] = k + i
InReady(s, k, n) == \A i \in 1..n : ready[s][i] = k + i

\* All is heard up to here, and nothing but stages.
Heard(s) == heard[s] = Stages(Len(heard[s]))

Idle(s) ==
  /\ link[s] = "none" /\ generator[s] = "idle" /\ worker[s] = "idle"
  /\ emitted[s] = 0 /\ done[s] = FALSE
  /\ heard[s] = <<>> /\ wire[s] = <<>> /\ queue[s] = <<>> /\ ready[s] = <<>>

\* Stages heard or written; those heard, written or queued.
Written(s) == Len(heard[s]) + Len(wire[s])
Queued(s) == Written(s) + Len(queue[s])

Relaying(s) ==
  /\ link[s] = "open" /\ generator[s] = "relaying"
  /\ Heard(s)
  /\ OnWire(s, Len(heard[s]), Len(wire[s]))
  /\ InQueue(s, Written(s))
  /\ \/ /\ worker[s] = "running" /\ done[s] = FALSE
        /\ InReady(s, Queued(s), Len(ready[s]))
        /\ Queued(s) + Len(ready[s]) = emitted[s]
     \/ /\ worker[s] = "returned" /\ done[s] = FALSE
        /\ ready[s] # <<>>
        /\ InReady(s, Queued(s), Len(ready[s]) - 1)
        /\ ready[s][Len(ready[s])] = Completion
        /\ Queued(s) + Len(ready[s]) - 1 = emitted[s]
     \/ /\ worker[s] = "returned" /\ done[s] = TRUE
        /\ ready[s] = <<>>
        /\ Queued(s) = emitted[s]

\* The outcome is written and not yet heard.
Closing(s) ==
  /\ link[s] = "open" /\ generator[s] = "closed" /\ worker[s] = "returned"
  /\ Heard(s)
  /\ wire[s] # <<>>
  /\ OnWire(s, Len(heard[s]), Len(wire[s]) - 1)
  /\ wire[s][Len(wire[s])] = Terminal(result[s])
  /\ Written(s) - 1 = emitted[s]

Complete(s) ==
  /\ worker[s] = "returned"
  /\ wire[s] = <<>>
  /\ heard[s] = Append(Stages(emitted[s]), Terminal(result[s]))

Closed(s) ==
  /\ link[s] \in {"open", "ended"} /\ generator[s] = "closed"
  /\ Complete(s)

\* Nothing is written any more, perhaps with stages still on the wire.
Cut(s) ==
  /\ \/ link[s] = "open" /\ generator[s] = "stopped" /\ worker[s] # "running"
     \/ link[s] = "broken" /\ generator[s] \in {"closed", "stopped"}
  /\ worker[s] # "idle"
  /\ \/ /\ Heard(s)
        /\ OnWire(s, Len(heard[s]), Len(wire[s]))
        /\ Written(s) <= emitted[s]
     \/ link[s] = "broken" /\ Complete(s)

Sound(s) == Idle(s) \/ Relaying(s) \/ Closing(s) \/ Closed(s) \/ Cut(s)

StreamInv == TypeOK /\ \A s \in Streams : Sound(s)

-----------------------------------------------------------------------------
(* Sequences and events.                                                   *)

\* Sums of lengths, for leaves that Zenon closes by equalities.
LEMMA Sums ==
  ASSUME NEW m \in Nat, NEW n \in Nat
  PROVE  /\ m + n \in Nat
         /\ m + 0 = m
         /\ (m + n) + 1 = m + (n + 1)
         /\ (m + 1) + n = (m + n) + 1
         /\ (n # 0 => (m + 1) + (n - 1) = m + n)
         /\ (m + 1) - 1 = m
         /\ (m + (n + 1)) - 1 = m + n
  OBVIOUS

LEMMA AppendFacts ==
  ASSUME NEW S, NEW q \in Seq(S), NEW x \in S
  PROVE  /\ Append(q, x) \in Seq(S)
         /\ Len(Append(q, x)) = Len(q) + 1
         /\ Append(q, x)[Len(q) + 1] = x
         /\ \A i \in 1..Len(q) : Append(q, x)[i] = q[i]
         /\ Append(q, x) # <<>>
  OBVIOUS

LEMMA EmptyWhenZero ==
  ASSUME NEW S, NEW q \in Seq(S), Len(q) = 0
  PROVE  q = <<>>
  OBVIOUS

LEMMA TailFacts ==
  ASSUME NEW S, NEW q \in Seq(S), q # <<>>
  PROVE  /\ Tail(q) \in Seq(S)
         /\ Head(q) \in S
         /\ Head(q) = q[1]
         /\ Len(q) \in Nat \ {0}
         /\ Len(Tail(q)) = Len(q) - 1
         /\ \A i \in 1..(Len(q) - 1) : Tail(q)[i] = q[i + 1]
  OBVIOUS

\* A run of consecutive numbers, grown and shortened.
LEMMA RunGrows ==
  ASSUME NEW q \in Seq(Nat), NEW k \in Nat, \A i \in 1..Len(q) : q[i] = k + i,
         NEW x \in Nat, x = k + Len(q) + 1
  PROVE  /\ Len(Append(q, x)) = Len(q) + 1
         /\ \A i \in 1..(Len(q) + 1) : Append(q, x)[i] = k + i
<1>1. Len(q) \in Nat
  OBVIOUS
<1>2. /\ Append(q, x)[Len(q) + 1] = x
      /\ \A i \in 1..Len(q) : Append(q, x)[i] = q[i]
      /\ Len(Append(q, x)) = Len(q) + 1
  BY <1>1, AppendFacts
<1>3. ASSUME NEW i \in 1..(Len(q) + 1)
      PROVE  Append(q, x)[i] = k + i
  <2>1. CASE i = Len(q) + 1
    BY <1>1, <1>2, <2>1
  <2>2. CASE i \in 1..Len(q)
    BY <1>2, <2>2
  <2> QED
    BY <1>1, <2>1, <2>2
<1> QED
  BY <1>2, <1>3

LEMMA RunShrinks ==
  ASSUME NEW q \in Seq(Nat), q # <<>>, NEW k \in Nat,
         NEW n \in 1..Len(q), \A i \in 1..n : q[i] = k + i
  PROVE  /\ Head(q) = k + 1
         /\ \A i \in 1..(n - 1) : Tail(q)[i] = (k + 1) + i
<1>1. /\ Len(q) \in Nat \ {0} /\ Head(q) = q[1]
      /\ \A i \in 1..(Len(q) - 1) : Tail(q)[i] = q[i + 1]
  BY TailFacts
<1>2. Head(q) = k + 1
  BY <1>1
<1>3. ASSUME NEW i \in 1..(n - 1)
      PROVE  Tail(q)[i] = (k + 1) + i
  <2>1. i \in 1..(Len(q) - 1) /\ i + 1 \in 1..n
    BY <1>1
  <2>2. Tail(q)[i] = q[i + 1] /\ q[i + 1] = k + (i + 1)
    BY <1>1, <2>1
  <2> QED
    BY <2>2
<1> QED
  BY <1>2, <1>3

LEMMA EventTypes ==
  /\ \A n \in Nat : Stage(n) \in Events
  /\ \A o \in Outcomes \cup {Nothing} : Terminal(o) \in Events
  /\ \A n, o : Stage(n) # Terminal(o)
  BY DEF Events, Stage, Terminal, Nothing, Contract!Stage, Contract!Terminal,
         Contract!Nothing

LEMMA StagesFacts ==
  ASSUME NEW n \in Nat
  PROVE  /\ Stages(n) \in Seq(Events)
         /\ Len(Stages(n)) = n
         /\ Append(Stages(n), Stage(n + 1)) = Stages(n + 1)
<1>1. Stages(n) = [i \in 1..n |-> Stage(i)]
  BY DEF Stages, Stage, Contract!Stages
<1>2. Stages(n + 1) = [i \in 1..(n + 1) |-> Stage(i)]
  BY DEF Stages, Stage, Contract!Stages
<1>3. \A i \in 1..(n + 1) : Stage(i) \in Events
  BY EventTypes
<1>4. Stages(n) \in Seq(Events) /\ Len(Stages(n)) = n
  BY <1>1, <1>3
<1>5. Stages(n + 1) \in Seq(Events) /\ Len(Stages(n + 1)) = n + 1
  BY <1>2, <1>3
<1>6. /\ Append(Stages(n), Stage(n + 1)) \in Seq(Events)
      /\ Len(Append(Stages(n), Stage(n + 1))) = n + 1
      /\ Append(Stages(n), Stage(n + 1))[n + 1] = Stage(n + 1)
      /\ \A i \in 1..n : Append(Stages(n), Stage(n + 1))[i] = Stages(n)[i]
  BY <1>3, <1>4, AppendFacts
<1>7. \A i \in 1..(n + 1) : Append(Stages(n), Stage(n + 1))[i] = Stages(n + 1)[i]
  BY <1>1, <1>2, <1>6
<1> QED
  BY <1>4, <1>5, <1>6, <1>7

\* The sequences of one stream, and their lengths.
LEMMA StreamTypes ==
  ASSUME TypeOK, NEW s \in Streams
  PROVE  /\ heard[s] \in Seq(Events) /\ Len(heard[s]) \in Nat
         /\ wire[s] \in Seq(Events) /\ Len(wire[s]) \in Nat
         /\ queue[s] \in Seq(Nat) /\ Len(queue[s]) \in Nat
         /\ ready[s] \in Seq(Nat) /\ Len(ready[s]) \in Nat
         /\ emitted[s] \in Nat
         /\ result[s] \in Outcomes \cup {Nothing}
         /\ Written(s) \in Nat /\ Queued(s) \in Nat
<1>1. /\ heard[s] \in Seq(Events) /\ wire[s] \in Seq(Events)
      /\ queue[s] \in Seq(Nat) /\ ready[s] \in Seq(Nat)
      /\ emitted[s] \in Nat
      /\ result[s] \in Outcomes \cup {Nothing}
  BY DEF TypeOK
<1>2. /\ Len(heard[s]) \in Nat /\ Len(wire[s]) \in Nat
      /\ Len(queue[s]) \in Nat /\ Len(ready[s]) \in Nat
  BY <1>1
<1>3. Written(s) \in Nat
  BY <1>2, Sums, Zenon DEF Written
<1>4. Queued(s) \in Nat
  BY <1>2, <1>3, Sums, Zenon DEF Queued
<1> QED
  BY <1>1, <1>2, <1>3, <1>4

\* A stream no variable of which changes stays as it is.
Same(s) ==
  /\ emitted'[s] = emitted[s] /\ worker'[s] = worker[s] /\ result'[s] = result[s]
  /\ heard'[s] = heard[s] /\ link'[s] = link[s] /\ ready'[s] = ready[s]
  /\ queue'[s] = queue[s] /\ done'[s] = done[s] /\ generator'[s] = generator[s]
  /\ wire'[s] = wire[s]

LEMMA SameSound ==
  ASSUME NEW s \in Streams, Same(s), Sound(s)
  PROVE  Sound(s)'
<1>1. /\ Heard(s) => Heard(s)'
      /\ Written(s)' = Written(s)
      /\ Queued(s)' = Queued(s)
      /\ Complete(s) => Complete(s)'
      /\ \A k, n : OnWire(s, k, n) => OnWire(s, k, n)'
      /\ \A k : InQueue(s, k) => InQueue(s, k)'
      /\ \A k, n : InReady(s, k, n) => InReady(s, k, n)'
  BY DEF Same, Heard, Written, Queued, Complete, OnWire, InQueue, InReady
<1>2. CASE Idle(s)
  BY <1>2 DEF Same, Sound, Idle
<1>3. CASE Relaying(s)
  BY <1>1, <1>3 DEF Same, Sound, Relaying
<1>4. CASE Closing(s)
  BY <1>1, <1>4 DEF Same, Sound, Closing
<1>5. CASE Closed(s)
  BY <1>1, <1>5 DEF Same, Sound, Closed
<1>6. CASE Cut(s)
  BY <1>1, <1>6 DEF Same, Sound, Cut
<1> QED
  BY <1>2, <1>3, <1>4, <1>5, <1>6 DEF Sound

-----------------------------------------------------------------------------
(* Types.                                                                  *)

LEMMA TypeInit == StreamInit => TypeOK
  BY DEF StreamInit, Contract!Init, TypeOK, Nothing

LEMMA TypeOpen ==
  ASSUME TypeOK, NEW s \in Streams, Open(s)
  PROVE  TypeOK'
  BY DEF TypeOK, Open

LEMMA TypeEmit ==
  ASSUME TypeOK, NEW s \in Streams, Emit(s)
  PROVE  TypeOK'
<1>1. emitted[s] \in Nat /\ emitted[s] + 1 \in Nat /\ ready[s] \in Seq(Nat)
  BY DEF TypeOK
<1>2. Append(ready[s], emitted[s] + 1) \in Seq(Nat)
  BY <1>1, AppendFacts
<1> QED
  BY <1>1, <1>2 DEF TypeOK, Emit, Report

LEMMA TypeReturn ==
  ASSUME TypeOK, NEW s \in Streams, NEW o \in Outcomes, Return(s, o)
  PROVE  TypeOK'
<1>1. ready[s] \in Seq(Nat) /\ Completion \in Nat
  BY DEF TypeOK, Completion
<1>2. Append(ready[s], Completion) \in Seq(Nat)
  BY <1>1, AppendFacts
<1> QED
  BY <1>2 DEF TypeOK, Return, Report

LEMMA TypeRunCallback ==
  ASSUME TypeOK, NEW s \in Streams, RunCallback(s)
  PROVE  TypeOK'
<1>1. ready[s] \in Seq(Nat) /\ ready[s] # <<>> /\ queue[s] \in Seq(Nat)
  BY DEF TypeOK, RunCallback
<1>2. Tail(ready[s]) \in Seq(Nat) /\ Head(ready[s]) \in Nat
  BY <1>1, TailFacts
<1>3. Append(queue[s], Head(ready[s])) \in Seq(Nat)
  BY <1>1, <1>2, AppendFacts
<1>4. CASE Head(ready[s]) = Completion
  BY <1>2, <1>4 DEF TypeOK, RunCallback
<1>5. CASE Head(ready[s]) # Completion
  BY <1>2, <1>3, <1>5 DEF TypeOK, RunCallback
<1> QED
  BY <1>4, <1>5

LEMMA TypeRelay ==
  ASSUME TypeOK, NEW s \in Streams, Relay(s)
  PROVE  TypeOK'
<1>1. queue[s] \in Seq(Nat) /\ queue[s] # <<>> /\ wire[s] \in Seq(Events)
  BY DEF TypeOK, Relay
<1>2. Tail(queue[s]) \in Seq(Nat) /\ Stage(Head(queue[s])) \in Events
  BY <1>1, TailFacts, EventTypes
<1>3. Append(wire[s], Stage(Head(queue[s]))) \in Seq(Events)
  BY <1>1, <1>2, AppendFacts
<1> QED
  BY <1>2, <1>3 DEF TypeOK, Relay

LEMMA TypeFinish ==
  ASSUME TypeOK, NEW s \in Streams, Finish(s)
  PROVE  TypeOK'
<1>1. wire[s] \in Seq(Events) /\ Terminal(result[s]) \in Events
  BY EventTypes DEF TypeOK
<1>2. Append(wire[s], Terminal(result[s])) \in Seq(Events)
  BY <1>1, AppendFacts
<1> QED
  BY <1>2 DEF TypeOK, Finish

LEMMA TypeRestart ==
  ASSUME TypeOK, Restart
  PROVE  TypeOK'
  BY DEF TypeOK, Restart

LEMMA TypeHear ==
  ASSUME TypeOK, NEW s \in Streams, Hear(s)
  PROVE  TypeOK'
<1>1. wire[s] \in Seq(Events) /\ wire[s] # <<>> /\ heard[s] \in Seq(Events)
  BY DEF TypeOK, Hear
<1>2. Tail(wire[s]) \in Seq(Events) /\ Head(wire[s]) \in Events
  BY <1>1, TailFacts
<1>3. Append(heard[s], Head(wire[s])) \in Seq(Events)
  BY <1>1, <1>2, AppendFacts
<1> QED
  BY <1>2, <1>3 DEF TypeOK, Hear

LEMMA TypeEnd ==
  ASSUME TypeOK, NEW s \in Streams, End(s)
  PROVE  TypeOK'
  BY DEF TypeOK, End

LEMMA TypeBreak ==
  ASSUME TypeOK, NEW s \in Streams, Break(s)
  PROVE  TypeOK'
  BY DEF TypeOK, Break

LEMMA TypeNext == TypeOK /\ [StreamNext]_streamVars => TypeOK'
<1> SUFFICES ASSUME TypeOK, [StreamNext]_streamVars
             PROVE  TypeOK'
  OBVIOUS
<1>1. CASE UNCHANGED streamVars
  BY <1>1 DEF TypeOK, streamVars
<1>2. CASE StreamNext
  BY <1>2, TypeOpen, TypeEmit, TypeReturn, TypeRunCallback, TypeRelay,
     TypeFinish, TypeRestart, TypeHear, TypeEnd, TypeBreak
     DEF StreamNext, ServerStep
<1> QED
  BY <1>1, <1>2

\* Queues hold stages, the wire and the reader events, of every request
\* (routes/issues.py 82-104).
THEOREM StreamTypeCorrect == StreamSpec => []TypeOK
  BY TypeInit, TypeNext, PTL DEF StreamSpec

-----------------------------------------------------------------------------
(* Each action keeps its stream in a phase, or takes it to the next one.   *)

LEMMA SoundInit == StreamInit => \A s \in Streams : Sound(s)
<1> SUFFICES ASSUME StreamInit, NEW s \in Streams
             PROVE  Idle(s)
  BY DEF Sound
<1> QED
  BY DEF StreamInit, Contract!Init, Idle

LEMMA SoundOpen ==
  ASSUME TypeOK, NEW s \in Streams, Sound(s), Open(s)
  PROVE  Sound(s)'
<1>1. Idle(s)
  BY DEF Open, Sound, Idle, Relaying, Closing, Closed, Cut
<1>2. /\ link'[s] = "open" /\ generator'[s] = "relaying" /\ worker'[s] = "running"
      /\ emitted'[s] = 0 /\ done'[s] = FALSE
      /\ heard'[s] = <<>> /\ wire'[s] = <<>> /\ queue'[s] = <<>> /\ ready'[s] = <<>>
  BY <1>1 DEF Open, Idle, TypeOK
<1>3. <<>> = Stages(0)
  BY DEF Stages, Contract!Stages
<1>4. /\ Heard(s)' /\ Written(s)' = 0 /\ Queued(s)' = 0
      /\ OnWire(s, Len(heard[s]), Len(wire[s]))'
      /\ InQueue(s, Written(s))' /\ InReady(s, Queued(s), Len(ready[s]))'
  BY <1>2, <1>3 DEF Heard, Written, Queued, OnWire, InQueue, InReady
<1>5. Relaying(s)'
  BY <1>2, <1>4 DEF Relaying
<1> QED
  BY <1>5 DEF Sound

LEMMA SoundEmit ==
  ASSUME TypeOK, NEW s \in Streams, Sound(s), Emit(s)
  PROVE  Sound(s)'
<1>1. /\ emitted'[s] = emitted[s] + 1
      /\ ready'[s] = Append(ready[s], emitted[s] + 1)
      /\ worker'[s] = worker[s] /\ heard'[s] = heard[s] /\ link'[s] = link[s]
      /\ queue'[s] = queue[s] /\ done'[s] = done[s] /\ result'[s] = result[s]
      /\ generator'[s] = generator[s] /\ wire'[s] = wire[s]
      /\ worker[s] = "running"
  BY DEF Emit, Report, TypeOK
<1>2. /\ Heard(s)' <=> Heard(s)
      /\ Written(s)' = Written(s) /\ Queued(s)' = Queued(s)
      /\ OnWire(s, Len(heard[s]), Len(wire[s]))' <=> OnWire(s, Len(heard[s]), Len(wire[s]))
      /\ InQueue(s, Written(s))' <=> InQueue(s, Written(s))
  BY <1>1 DEF Heard, Written, Queued, OnWire, InQueue
<1>3. CASE Relaying(s)
  <2>1. /\ InReady(s, Queued(s), Len(ready[s]))
        /\ Queued(s) + Len(ready[s]) = emitted[s]
        /\ done[s] = FALSE
    BY <1>1, <1>3 DEF Relaying
  <2>2. /\ ready[s] \in Seq(Nat) /\ Len(ready[s]) \in Nat /\ emitted[s] \in Nat
        /\ emitted[s] + 1 \in Nat /\ Queued(s) \in Nat
    BY StreamTypes
  <2>3. /\ Len(ready'[s]) = Len(ready[s]) + 1
        /\ ready'[s][Len(ready[s]) + 1] = emitted[s] + 1
        /\ \A i \in 1..Len(ready[s]) : ready'[s][i] = ready[s][i]
    BY <1>1, <2>2, AppendFacts
  <2>4. \A i \in 1..(Len(ready[s]) + 1) : ready'[s][i] = Queued(s) + i
    <3>1. \A i \in 1..Len(ready[s]) : ready[s][i] = Queued(s) + i
      BY <2>1 DEF InReady
    <3>2. emitted[s] + 1 = Queued(s) + Len(ready[s]) + 1
      BY <2>1
    <3> QED
      BY <1>1, <2>2, <3>1, <3>2, RunGrows
  <2>5. InReady(s, Queued(s), Len(ready[s]))'
    BY <1>2, <2>3, <2>4 DEF InReady
  <2>6. Queued(s)' + Len(ready'[s]) = emitted'[s]
    BY <1>1, <1>2, <2>1, <2>2, <2>3
  <2> QED
    BY <1>1, <1>2, <1>3, <2>1, <2>5, <2>6 DEF Relaying, Sound
<1>4. CASE Cut(s)
  <2>1. ~ Complete(s) /\ Heard(s) /\ OnWire(s, Len(heard[s]), Len(wire[s]))
        /\ Written(s) <= emitted[s]
    BY <1>1, <1>4 DEF Cut, Complete
  <2>2. Written(s)' <= emitted'[s]
    BY <1>1, <1>2, <2>1, StreamTypes
  <2> QED
    BY <1>1, <1>2, <1>4, <2>1, <2>2 DEF Cut, Sound
<1> QED
  BY <1>1, <1>3, <1>4 DEF Sound, Idle, Closing, Closed, Complete

LEMMA SoundReturn ==
  ASSUME TypeOK, NEW s \in Streams, NEW o \in Outcomes, Sound(s), Return(s, o)
  PROVE  Sound(s)'
<1>1. /\ ready'[s] = Append(ready[s], Completion)
      /\ worker'[s] = "returned" /\ heard'[s] = heard[s] /\ link'[s] = link[s]
      /\ queue'[s] = queue[s] /\ done'[s] = done[s] /\ emitted'[s] = emitted[s]
      /\ generator'[s] = generator[s] /\ wire'[s] = wire[s]
      /\ worker[s] = "running"
  BY DEF Return, Report, TypeOK
<1>2. /\ Heard(s)' <=> Heard(s)
      /\ Written(s)' = Written(s) /\ Queued(s)' = Queued(s)
      /\ OnWire(s, Len(heard[s]), Len(wire[s]))' <=> OnWire(s, Len(heard[s]), Len(wire[s]))
      /\ InQueue(s, Written(s))' <=> InQueue(s, Written(s))
  BY <1>1 DEF Heard, Written, Queued, OnWire, InQueue
<1>3. CASE Relaying(s)
  <2>1. /\ InReady(s, Queued(s), Len(ready[s]))
        /\ Queued(s) + Len(ready[s]) = emitted[s]
        /\ done[s] = FALSE
    BY <1>1, <1>3 DEF Relaying
  <2>2. /\ ready[s] \in Seq(Nat) /\ Len(ready[s]) \in Nat /\ emitted[s] \in Nat
        /\ Completion \in Nat /\ Queued(s) \in Nat
    BY StreamTypes DEF Completion
  <2>3. /\ Len(ready'[s]) = Len(ready[s]) + 1
        /\ ready'[s][Len(ready[s]) + 1] = Completion
        /\ \A i \in 1..Len(ready[s]) : ready'[s][i] = ready[s][i]
        /\ ready'[s] # <<>>
    BY <1>1, <2>2, AppendFacts, SMTT(30)
  <2>4. Len(ready'[s]) - 1 = Len(ready[s])
    BY <2>2, <2>3
  <2>5. InReady(s, Queued(s), Len(ready[s]) - 1)'
    BY <1>2, <2>1, <2>3, <2>4 DEF InReady
  <2>6. Queued(s)' + Len(ready'[s]) - 1 = emitted'[s]
    BY <1>1, <1>2, <2>1, <2>2, <2>3
  <2>7. ready'[s][Len(ready'[s])] = Completion
    BY <2>3
  <2> QED
    BY <1>1, <1>2, <1>3, <2>1, <2>3, <2>5, <2>6, <2>7 DEF Relaying, Sound
<1>4. CASE Cut(s)
  <2>1. ~ Complete(s) /\ Heard(s) /\ OnWire(s, Len(heard[s]), Len(wire[s]))
        /\ Written(s) <= emitted[s]
    BY <1>1, <1>4 DEF Cut, Complete
  <2> QED
    BY <1>1, <1>2, <1>4, <2>1 DEF Cut, Sound
<1> QED
  BY <1>1, <1>3, <1>4 DEF Sound, Idle, Closing, Closed, Complete

LEMMA SoundRunCallback ==
  ASSUME TypeOK, NEW s \in Streams, Sound(s), RunCallback(s)
  PROVE  Sound(s)'
<1> DEFINE r == ready[s]
<1>1. /\ ready'[s] = Tail(r) /\ r # <<>>
      /\ worker'[s] = worker[s] /\ heard'[s] = heard[s] /\ link'[s] = link[s]
      /\ emitted'[s] = emitted[s] /\ result'[s] = result[s]
      /\ generator'[s] = generator[s] /\ wire'[s] = wire[s]
  BY DEF RunCallback, TypeOK
<1>2. /\ Heard(s)' <=> Heard(s)
      /\ Written(s)' = Written(s)
      /\ Complete(s)' <=> Complete(s)
      /\ OnWire(s, Len(heard[s]), Len(wire[s]))' <=> OnWire(s, Len(heard[s]), Len(wire[s]))
      /\ OnWire(s, Len(heard[s]), Len(wire[s]) - 1)'
           <=> OnWire(s, Len(heard[s]), Len(wire[s]) - 1)
  BY <1>1 DEF Heard, Written, OnWire, Complete
<1>3. CASE Relaying(s)
  <2>1. /\ r \in Seq(Nat) /\ queue[s] \in Seq(Nat) /\ Len(queue[s]) \in Nat
        /\ Queued(s) \in Nat /\ Written(s) \in Nat /\ emitted[s] \in Nat
    BY StreamTypes
  <2>2. /\ Len(r) \in Nat \ {0} /\ Len(Tail(r)) = Len(r) - 1 /\ Head(r) = r[1]
        /\ Tail(r) \in Seq(Nat)
        /\ \A i \in 1..(Len(r) - 1) : Tail(r)[i] = r[i + 1]
    BY <1>1, <2>1, TailFacts
  <2>3. \A i \in 1..Len(queue[s]) : queue[s][i] = Written(s) + i
    BY <1>3 DEF Relaying, InQueue
  <2>4. ASSUME NEW n \in 1..Len(r), InReady(s, Queued(s), n)
        PROVE  /\ done'[s] = done[s]
               /\ InQueue(s, Written(s))'
               /\ Queued(s)' = Queued(s) + 1
               /\ \A i \in 1..(n - 1) : ready'[s][i] = (Queued(s) + 1) + i
    <3>1. /\ Head(r) = Queued(s) + 1
          /\ \A i \in 1..(n - 1) : Tail(r)[i] = (Queued(s) + 1) + i
      BY <1>1, <2>1, <2>4, RunShrinks DEF InReady
    <3>2. Head(r) # Completion /\ Head(r) \in Nat
      BY <2>1, <3>1 DEF Completion
    <3>3. /\ queue'[s] = Append(queue[s], Queued(s) + 1)
          /\ done'[s] = done[s]
      BY <3>1, <3>2 DEF RunCallback, TypeOK
    <3>4. Queued(s) + 1 = Written(s) + Len(queue[s]) + 1 /\ Queued(s) + 1 \in Nat
      BY <2>1 DEF Queued
    <3>5. /\ Len(Append(queue[s], Queued(s) + 1)) = Len(queue[s]) + 1
          /\ \A i \in 1..(Len(queue[s]) + 1) :
               Append(queue[s], Queued(s) + 1)[i] = Written(s) + i
      BY <2>1, <2>3, <3>4, RunGrows
    <3>6. Len(queue'[s]) = Len(queue[s]) + 1
      BY <3>3, <3>5
    <3>7. InQueue(s, Written(s))'
      BY <1>2, <3>3, <3>5, <3>6 DEF InQueue
    <3>8. Queued(s)' = Queued(s) + 1
      <4>1. Queued(s)' = Written(s) + (Len(queue[s]) + 1)
        BY <1>2, <3>6 DEF Queued
      <4>2. Written(s) \in Nat /\ Len(queue[s]) \in Nat
        BY <2>1
      <4> QED
        BY <4>1, <4>2 DEF Queued
    <3> QED
      BY <1>1, <3>1, <3>3, <3>7, <3>8
  <2>5. CASE worker[s] = "running"
    <3>1. /\ InReady(s, Queued(s), Len(r)) /\ Queued(s) + Len(r) = emitted[s]
          /\ done[s] = FALSE
      BY <1>3, <2>5 DEF Relaying
    <3>2. Len(r) \in 1..Len(r)
      BY <2>2
    <3>3. /\ done'[s] = FALSE /\ InQueue(s, Written(s))'
          /\ Queued(s)' = Queued(s) + 1
          /\ \A i \in 1..(Len(r) - 1) : ready'[s][i] = (Queued(s) + 1) + i
      BY <2>4, <3>1, <3>2
    <3>4. InReady(s, Queued(s), Len(ready[s]))'
      BY <1>1, <2>2, <3>3 DEF InReady
    <3>5. Queued(s)' + Len(ready'[s]) = emitted'[s]
      <4>1. Queued(s) \in Nat /\ Len(r) \in Nat
        BY <2>1, <2>2
      <4>2. Len(ready'[s]) = Len(r) - 1
        BY <1>1, <2>2
      <4> QED
        BY <1>1, <3>1, <3>3, <4>1, <4>2
    <3> QED
      BY <1>1, <1>2, <1>3, <2>5, <3>3, <3>4, <3>5 DEF Relaying, Sound
  <2>6. CASE worker[s] = "returned" /\ done[s] = FALSE
    <3>1. /\ InReady(s, Queued(s), Len(r) - 1) /\ r[Len(r)] = Completion
          /\ Queued(s) + Len(r) - 1 = emitted[s]
      BY <1>3, <2>6 DEF Relaying
    <3>2. CASE Len(r) = 1
      <4>1. Head(r) = Completion
        BY <2>2, <3>1, <3>2
      <4>. Len(Tail(r)) = 0
        BY <2>2, <3>2
      <4>. Tail(r) = <<>>
        BY <2>2, EmptyWhenZero
      <4>2. done'[s] = TRUE /\ queue'[s] = queue[s] /\ ready'[s] = <<>>
        BY <1>1, <4>1 DEF RunCallback, TypeOK
      <4>3. /\ InQueue(s, Written(s))' /\ Queued(s)' = Queued(s)
            /\ Queued(s)' = emitted'[s]
        BY <1>1, <1>2, <2>1, <2>3, <3>1, <3>2, <4>2 DEF InQueue, Queued
      <4> QED
        BY <1>1, <1>2, <1>3, <2>6, <4>2, <4>3 DEF Relaying, Sound
    <3>3. CASE Len(r) # 1
      <4>1. Len(r) \in Nat \ {0} /\ Queued(s) \in Nat
        BY <2>1, <2>2
      <4>2. /\ Len(r) - 1 \in 1..Len(r) /\ Len(r) - 1 \in 1..(Len(r) - 1)
            /\ (Len(r) - 1) + 1 = Len(r) /\ Len(r) - 1 # 0
        <5>1. \A n \in Nat \ {0, 1} :
                /\ n - 1 \in 1..n /\ n - 1 \in 1..(n - 1)
                /\ (n - 1) + 1 = n /\ n - 1 # 0
          OBVIOUS
        <5> QED
          BY <3>3, <4>1, <5>1, Zenon
      <4>3. /\ done'[s] = FALSE /\ InQueue(s, Written(s))'
            /\ Queued(s)' = Queued(s) + 1
            /\ \A i \in 1..((Len(r) - 1) - 1) : ready'[s][i] = (Queued(s) + 1) + i
        BY <2>4, <2>6, <3>1, <4>2
      <4>4. Len(ready'[s]) = Len(r) - 1
        BY <1>1, <2>2
      <4>5. InReady(s, Queued(s), Len(ready[s]) - 1)'
        BY <4>3, <4>4 DEF InReady
      <4>6. Queued(s)' + Len(ready'[s]) - 1 = emitted'[s]
        <5>1. \A m \in Nat, n \in Nat \ {0} : (m + 1) + (n - 1) - 1 = m + n - 1
          OBVIOUS
        <5> QED
          BY <1>1, <3>1, <4>1, <4>3, <4>4, <5>1, Zenon
      <4>7. ready'[s][Len(ready'[s])] = Completion
        BY <1>1, <2>2, <3>1, <4>2, <4>4
      <4>8. ready'[s] # <<>>
        BY <4>2, <4>4
      <4> QED
        BY <1>1, <1>2, <1>3, <2>6, <4>3, <4>5, <4>6, <4>7, <4>8 DEF Relaying, Sound
    <3> QED
      BY <3>2, <3>3
  <2> QED
    BY <1>1, <1>3, <2>5, <2>6 DEF Relaying
<1>4. CASE Closing(s)
  BY <1>1, <1>2, <1>4 DEF Closing, Sound
<1>5. CASE Closed(s)
  BY <1>1, <1>2, <1>5 DEF Closed, Sound
<1>6. CASE Cut(s)
  BY <1>1, <1>2, <1>6 DEF Cut, Sound
<1> QED
  BY <1>1, <1>3, <1>4, <1>5, <1>6 DEF Sound, Idle

LEMMA SoundRelay ==
  ASSUME TypeOK, NEW s \in Streams, Sound(s), Relay(s)
  PROVE  Sound(s)'
<1> DEFINE q == queue[s]
           n == Len(wire[s])
<1>1. /\ wire'[s] = Append(wire[s], Stage(Head(q))) /\ q # <<>>
      /\ queue'[s] = Tail(q)
      /\ worker'[s] = worker[s] /\ heard'[s] = heard[s] /\ link'[s] = link[s]
      /\ emitted'[s] = emitted[s] /\ result'[s] = result[s]
      /\ generator'[s] = generator[s] /\ ready'[s] = ready[s] /\ done'[s] = done[s]
      /\ generator[s] = "relaying"
  BY DEF Relay, TypeOK
<1>2. Relaying(s)
  BY <1>1 DEF Sound, Idle, Closing, Closed, Cut
<1>3. /\ q \in Seq(Nat) /\ Len(q) \in Nat /\ wire[s] \in Seq(Events) /\ n \in Nat
      /\ Written(s) \in Nat /\ Queued(s) \in Nat /\ Len(heard[s]) \in Nat
  BY StreamTypes
<1>4. /\ \A i \in 1..Len(q) : q[i] = Written(s) + i
      /\ \A i \in 1..n : wire[s][i] = Stage(Len(heard[s]) + i)
  BY <1>2 DEF Relaying, InQueue, OnWire
<1>5. Len(q) \in 1..Len(q) /\ Len(Tail(q)) = Len(q) - 1 /\ Head(q) \in Nat
  BY <1>1, <1>3, TailFacts
<1>6. /\ Head(q) = Written(s) + 1
      /\ \A i \in 1..(Len(q) - 1) : Tail(q)[i] = (Written(s) + 1) + i
  BY <1>1, <1>3, <1>4, <1>5, RunShrinks
<1>7. /\ Len(wire'[s]) = n + 1
      /\ wire'[s][n + 1] = Stage(Head(q))
      /\ \A i \in 1..n : wire'[s][i] = wire[s][i]
  BY <1>1, <1>3, <1>5, EventTypes, AppendFacts
<1>. Len(heard[s]) \in Nat /\ n \in Nat /\ Len(q) \in Nat
  BY <1>3
<1>8. Head(q) = Len(heard[s]) + (n + 1)
  BY <1>6, Sums, Zenon DEF Written
<1>9. \A i \in 1..(n + 1) : wire'[s][i] = Stage(Len(heard[s]) + i)
  <2> TAKE i \in 1..(n + 1)
  <2>1. CASE i = n + 1
    BY <1>7, <1>8, <2>1
  <2>2. CASE i \in 1..n
    BY <1>4, <1>7, <2>2
  <2> QED
    BY <2>1, <2>2
<1>10. /\ OnWire(s, Len(heard[s]), Len(wire[s]))'
       /\ Written(s)' = Written(s) + 1
  <2>1. OnWire(s, Len(heard[s]), Len(wire[s]))'
    BY <1>1, <1>7, <1>9 DEF OnWire
  <2>2. Written(s)' = Len(heard[s]) + (n + 1)
    BY <1>1, <1>7 DEF Written
  <2>3. Written(s)' = Written(s) + 1
    BY <2>2, Sums, Zenon DEF Written
  <2> QED
    BY <2>1, <2>3
<1>11. /\ InQueue(s, Written(s))'
       /\ Queued(s)' = Queued(s)
  <2>1. Len(queue'[s]) = Len(q) - 1
    BY <1>1, <1>5
  <2>2. InQueue(s, Written(s))'
    BY <1>1, <1>6, <1>10, <2>1 DEF InQueue
  <2>3. Queued(s)' = (Written(s) + 1) + (Len(q) - 1)
    BY <1>10, <2>1 DEF Queued
  <2>4. Written(s) \in Nat
    BY <1>3
  <2> QED
    BY <2>2, <2>3, <2>4 DEF Queued
<1>12. /\ Heard(s)'
       /\ \A m : InReady(s, Queued(s), m)' <=> InReady(s, Queued(s), m)
  BY <1>1, <1>2, <1>11 DEF Relaying, Heard, InReady
<1> QED
  BY <1>1, <1>2, <1>10, <1>11, <1>12 DEF Relaying, Sound

LEMMA SoundFinish ==
  ASSUME TypeOK, NEW s \in Streams, Sound(s), Finish(s)
  PROVE  Sound(s)'
<1> DEFINE n == Len(wire[s])
<1>1. /\ wire'[s] = Append(wire[s], Terminal(result[s]))
      /\ generator'[s] = "closed"
      /\ worker'[s] = worker[s] /\ heard'[s] = heard[s] /\ link'[s] = link[s]
      /\ emitted'[s] = emitted[s] /\ result'[s] = result[s]
      /\ generator[s] = "relaying" /\ done[s] = TRUE /\ queue[s] = <<>>
  BY DEF Finish, Exhausted, TypeOK
<1>2. /\ link[s] = "open" /\ worker[s] = "returned" /\ Heard(s)
      /\ OnWire(s, Len(heard[s]), n) /\ Queued(s) = emitted[s]
  BY <1>1 DEF Sound, Idle, Closing, Closed, Cut, Relaying
<1>3. /\ wire[s] \in Seq(Events) /\ n \in Nat /\ Len(heard[s]) \in Nat
      /\ emitted[s] \in Nat /\ Terminal(result[s]) \in Events
  BY StreamTypes, EventTypes
<1>4. /\ Len(wire'[s]) = n + 1 /\ wire'[s][n + 1] = Terminal(result[s])
      /\ \A i \in 1..n : wire'[s][i] = wire[s][i]
      /\ wire'[s] # <<>>
  BY <1>1, <1>3, AppendFacts
<1>5. Len(wire'[s]) - 1 = n /\ Written(s)' - 1 = emitted'[s]
  <2>1. n \in Nat /\ Len(heard[s]) \in Nat
    BY <1>3
  <2>2. Len(queue[s]) = 0
    BY <1>1
  <2>3. emitted[s] = Len(heard[s]) + n
    BY <1>2, <2>1, <2>2, Sums, Zenon DEF Written, Queued
  <2>4. Written(s)' = Len(heard[s]) + (n + 1)
    BY <1>1, <1>4 DEF Written
  <2>5. Written(s)' - 1 = emitted'[s]
    <3>1. (Len(heard[s]) + (n + 1)) - 1 = Len(heard[s]) + n
      BY <2>1, Sums
    <3> QED
      BY <1>1, <2>3, <2>4, <3>1, Zenon
  <2>6. Len(wire'[s]) - 1 = n
    BY <1>4, <2>1, Sums, Zenon
  <2> QED
    BY <2>5, <2>6
<1>6. Heard(s)' /\ OnWire(s, Len(heard[s]), Len(wire[s]) - 1)'
  BY <1>1, <1>2, <1>4, <1>5 DEF Heard, OnWire
<1>7. wire'[s][Len(wire'[s])] = Terminal(result'[s])
  BY <1>1, <1>4
<1> QED
  BY <1>1, <1>2, <1>4, <1>5, <1>6, <1>7 DEF Closing, Sound

LEMMA RelayingBound ==
  ASSUME TypeOK, NEW s \in Streams, Relaying(s)
  PROVE  Written(s) <= emitted[s]
<1>1. /\ Written(s) \in Nat /\ Queued(s) \in Nat /\ emitted[s] \in Nat
      /\ Len(queue[s]) \in Nat /\ Len(ready[s]) \in Nat
  BY StreamTypes
<1>2. Queued(s) <= emitted[s]
  <2>1. ready[s] # <<>> => Len(ready[s]) # 0
    BY StreamTypes, EmptyWhenZero
  <2>2. \/ Queued(s) + Len(ready[s]) = emitted[s]
        \/ (Len(ready[s]) # 0 /\ Queued(s) + Len(ready[s]) - 1 = emitted[s])
        \/ Queued(s) = emitted[s]
    BY <2>1 DEF Relaying
  <2>3. CASE Queued(s) + Len(ready[s]) = emitted[s]
    <3>1. \A m, n, e \in Nat : m + n = e => m <= e
      OBVIOUS
    <3> QED
      BY <1>1, <2>3, <3>1, Zenon
  <2>4. CASE Len(ready[s]) # 0 /\ Queued(s) + Len(ready[s]) - 1 = emitted[s]
    <3>1. \A m, n, e \in Nat : n # 0 /\ m + n - 1 = e => m <= e
      OBVIOUS
    <3> QED
      BY <1>1, <2>4, <3>1, Zenon
  <2>5. CASE Queued(s) = emitted[s]
    BY <1>1, <2>5
  <2> QED
    BY <2>2, <2>3, <2>4, <2>5
<1>3. \A m, n, e \in Nat : m + n <= e => m <= e
  OBVIOUS
<1> QED
  BY <1>1, <1>2, <1>3, Zenon DEF Queued

LEMMA SoundRestart ==
  ASSUME TypeOK, Restart, NEW s \in Streams, Sound(s)
  PROVE  Sound(s)'
<1>1. /\ worker'[s] = IF worker[s] = "running" THEN "killed" ELSE worker[s]
      /\ generator'[s] = IF generator[s] = "relaying" THEN "stopped" ELSE generator[s]
      /\ ready'[s] = <<>> /\ queue'[s] = <<>>
      /\ heard'[s] = heard[s] /\ link'[s] = link[s] /\ emitted'[s] = emitted[s]
      /\ result'[s] = result[s] /\ done'[s] = done[s] /\ wire'[s] = wire[s]
  BY DEF Restart
<1>2. /\ Heard(s)' <=> Heard(s)
      /\ Written(s)' = Written(s)
      /\ Complete(s) => Complete(s)'
      /\ OnWire(s, Len(heard[s]), Len(wire[s]))' <=> OnWire(s, Len(heard[s]), Len(wire[s]))
      /\ OnWire(s, Len(heard[s]), Len(wire[s]) - 1)'
           <=> OnWire(s, Len(heard[s]), Len(wire[s]) - 1)
  BY <1>1 DEF Heard, Written, OnWire, Complete
<1>3. CASE Idle(s)
  BY <1>1, <1>3 DEF Idle, Sound
<1>4. CASE Relaying(s)
  <2>1. Written(s) <= emitted[s]
    BY <1>4, RelayingBound
  <2> QED
    BY <1>1, <1>2, <1>4, <2>1 DEF Relaying, Cut, Sound
<1>5. CASE Closing(s)
  BY <1>1, <1>2, <1>5 DEF Closing, Sound
<1>6. CASE Closed(s)
  BY <1>1, <1>2, <1>6 DEF Closed, Sound
<1>7. CASE Cut(s)
  BY <1>1, <1>2, <1>7 DEF Cut, Sound
<1> QED
  BY <1>3, <1>4, <1>5, <1>6, <1>7 DEF Sound

\* What the next event on the wire is, and what remains behind it.
LEMMA NextStage ==
  ASSUME TypeOK, NEW s \in Streams, Hear(s), NEW n \in 1..Len(wire[s]),
         Heard(s), OnWire(s, Len(heard[s]), n)
  PROVE  /\ Head(wire[s]) = Stage(Len(heard[s]) + 1)
         /\ Heard(s)'
         /\ Len(heard'[s]) = Len(heard[s]) + 1
         /\ Len(wire'[s]) = Len(wire[s]) - 1
         /\ Written(s)' = Written(s)
         /\ \A i \in 1..(n - 1) : wire'[s][i] = Stage(Len(heard'[s]) + i)
<1> DEFINE h == Len(heard[s])
           w == wire[s]
<1>1. /\ h \in Nat /\ Len(w) \in Nat /\ w \in Seq(Events) /\ w # <<>>
      /\ heard'[s] = Append(heard[s], Head(w)) /\ wire'[s] = Tail(w)
      /\ heard[s] \in Seq(Events)
  BY StreamTypes DEF Hear, TypeOK
<1>2. /\ Head(w) = w[1] /\ Len(Tail(w)) = Len(w) - 1 /\ Len(w) \in Nat \ {0}
      /\ \A i \in 1..(Len(w) - 1) : Tail(w)[i] = w[i + 1]
      /\ Head(w) \in Events
  BY <1>1, TailFacts
<1>3. \A i \in 1..n : w[i] = Stage(h + i)
  BY DEF OnWire
<1>4. Head(w) = Stage(h + 1)
  <2>1. 1 \in 1..n
    BY <1>1
  <2> QED
    BY <1>2, <1>3, <2>1
<1>5. Len(heard'[s]) = h + 1
  BY <1>1, <1>2, AppendFacts
<1>6. heard'[s] = Stages(h + 1)
  <2>1. heard[s] = Stages(h)
    BY DEF Heard
  <2> QED
    BY <1>1, <1>4, <2>1, StagesFacts
<1>7. Written(s)' = Written(s)
  <2>1. Written(s)' = (h + 1) + (Len(w) - 1)
    BY <1>1, <1>2, <1>5 DEF Written
  <2>2. (h + 1) + (Len(w) - 1) = h + Len(w)
    BY <1>1, <1>2, Sums
  <2> QED
    BY <2>1, <2>2, Zenon DEF Written
<1>8. ASSUME NEW i \in 1..(n - 1)
      PROVE  wire'[s][i] = Stage(Len(heard'[s]) + i)
  <2>1. i \in 1..(Len(w) - 1) /\ i + 1 \in 1..n /\ i \in Nat
    BY <1>1
  <2>2. wire'[s][i] = Stage(h + (i + 1))
    BY <1>1, <1>2, <1>3, <2>1
  <2>3. h + (i + 1) = (h + 1) + i
    <3>1. \A m, j \in Nat : m + (j + 1) = (m + 1) + j
      OBVIOUS
    <3> QED
      BY <1>1, <2>1, <3>1, Zenon
  <2> QED
    BY <1>5, <2>2, <2>3, Zenon
<1> QED
  BY <1>1, <1>2, <1>4, <1>5, <1>6, <1>7, <1>8 DEF Heard

\* The outcome is the last event on the wire.
LEMMA LastEvent ==
  ASSUME TypeOK, NEW s \in Streams, Hear(s), Closing(s), Len(wire[s]) = 1
  PROVE  /\ Head(wire[s]) = Terminal(result[s])
         /\ heard[s] = Stages(emitted[s])
         /\ heard'[s] = Append(Stages(emitted[s]), Terminal(result[s]))
         /\ wire'[s] = <<>>
<1>1. /\ Len(heard[s]) \in Nat /\ wire[s] \in Seq(Events) /\ wire[s] # <<>>
      /\ heard'[s] = Append(heard[s], Head(wire[s])) /\ wire'[s] = Tail(wire[s])
  BY StreamTypes DEF Hear, TypeOK
<1>2. /\ Head(wire[s]) = wire[s][1] /\ Len(Tail(wire[s])) = Len(wire[s]) - 1
      /\ Tail(wire[s]) \in Seq(Events)
  BY <1>1, TailFacts
<1>3. Head(wire[s]) = Terminal(result[s])
  BY <1>2 DEF Closing
<1>4. emitted[s] = Len(heard[s])
  <2>1. Written(s) - 1 = emitted[s] /\ Written(s) = Len(heard[s]) + 1
    BY DEF Closing, Written
  <2>2. (Len(heard[s]) + 1) - 1 = Len(heard[s])
    BY <1>1, Sums
  <2> QED
    BY <2>1, <2>2, Zenon
<1>5. heard[s] = Stages(emitted[s])
  BY <1>4 DEF Closing, Heard
<1>6. Tail(wire[s]) = <<>>
  <2>1. Len(Tail(wire[s])) = 0
    BY <1>2
  <2> QED
    BY <1>2, <2>1, EmptyWhenZero
<1> QED
  BY <1>1, <1>3, <1>5, <1>6

LEMMA SoundHear ==
  ASSUME TypeOK, NEW s \in Streams, Sound(s), Hear(s)
  PROVE  Sound(s)'
<1>1. /\ wire[s] # <<>> /\ link[s] = "open" /\ wire'[s] = Tail(wire[s])
      /\ worker'[s] = worker[s] /\ link'[s] = link[s]
      /\ queue'[s] = queue[s] /\ done'[s] = done[s] /\ emitted'[s] = emitted[s]
      /\ generator'[s] = generator[s] /\ ready'[s] = ready[s] /\ result'[s] = result[s]
  BY DEF Hear, TypeOK
<1>2. wire[s] \in Seq(Events) /\ Len(wire[s]) \in Nat \ {0}
  BY <1>1, StreamTypes, TailFacts
<1>3. Len(wire[s]) \in 1..Len(wire[s])
  BY <1>2
<1>4. CASE Relaying(s) \/ (Cut(s) /\ ~ Complete(s))
  <2>1. Heard(s) /\ OnWire(s, Len(heard[s]), Len(wire[s]))
    BY <1>4 DEF Relaying, Cut
  <2>2. /\ Heard(s)' /\ Written(s)' = Written(s)
        /\ Len(wire'[s]) = Len(wire[s]) - 1
        /\ \A i \in 1..(Len(wire[s]) - 1) : wire'[s][i] = Stage(Len(heard'[s]) + i)
    BY <1>3, <2>1, NextStage
  <2>3. OnWire(s, Len(heard[s]), Len(wire[s]))'
    BY <2>2 DEF OnWire
  <2>4. /\ Queued(s)' = Queued(s)
        /\ InQueue(s, Written(s))' <=> InQueue(s, Written(s))
        /\ InReady(s, Queued(s), Len(ready[s]))' <=> InReady(s, Queued(s), Len(ready[s]))
        /\ InReady(s, Queued(s), Len(ready[s]) - 1)'
             <=> InReady(s, Queued(s), Len(ready[s]) - 1)
    BY <1>1, <2>2 DEF Queued, InQueue, InReady
  <2>5. CASE Relaying(s)
    BY <1>1, <2>2, <2>3, <2>4, <2>5 DEF Relaying, Sound
  <2>6. CASE Cut(s) /\ ~ Complete(s)
    BY <1>1, <2>2, <2>3, <2>6 DEF Cut, Sound
  <2> QED
    BY <1>4, <2>5, <2>6
<1>5. CASE Closing(s) /\ Len(wire[s]) # 1
  <2>1. Len(wire[s]) - 1 \in 1..Len(wire[s]) /\ Len(wire[s]) - 1 # 0
        /\ Len(wire[s]) - 1 \in 1..(Len(wire[s]) - 1)
        /\ (Len(wire[s]) - 1) + 1 = Len(wire[s])
    <3>1. \A n \in Nat \ {0, 1} :
            /\ n - 1 \in 1..n /\ n - 1 # 0 /\ n - 1 \in 1..(n - 1)
            /\ (n - 1) + 1 = n
      OBVIOUS
    <3> QED
      BY <1>2, <1>5, <3>1, Zenon
  <2>2. /\ Heard(s)' /\ Written(s)' = Written(s)
        /\ Len(wire'[s]) = Len(wire[s]) - 1
        /\ \A i \in 1..((Len(wire[s]) - 1) - 1) :
             wire'[s][i] = Stage(Len(heard'[s]) + i)
    BY <1>5, <2>1, NextStage DEF Closing
  <2>3. OnWire(s, Len(heard[s]), Len(wire[s]) - 1)'
    BY <2>2 DEF OnWire
  <2>4. \A i \in 1..(Len(wire[s]) - 1) : wire'[s][i] = wire[s][i + 1]
    BY <1>1, <1>2, TailFacts
  <2>5. wire'[s][Len(wire'[s])] = Terminal(result'[s])
    BY <1>1, <1>5, <2>1, <2>2, <2>4 DEF Closing
  <2>6. wire'[s] # <<>>
    BY <2>1, <2>2
  <2> QED
    BY <1>1, <1>5, <2>2, <2>3, <2>5, <2>6 DEF Closing, Sound
<1>6. CASE Closing(s) /\ Len(wire[s]) = 1
  <2>1. /\ heard'[s] = Append(Stages(emitted[s]), Terminal(result[s]))
        /\ wire'[s] = <<>>
    BY <1>6, LastEvent
  <2> QED
    BY <1>1, <1>6, <2>1 DEF Closing, Complete, Closed, Sound
<1> QED
  BY <1>1, <1>4, <1>5, <1>6 DEF Sound, Idle, Closed, Complete

LEMMA SoundEnd ==
  ASSUME TypeOK, NEW s \in Streams, Sound(s), End(s)
  PROVE  Sound(s)' /\ Closed(s)
<1>1. Closed(s)
  BY DEF End, Sound, Idle, Relaying, Closing, Cut
<1>2. /\ link'[s] = "ended" /\ generator'[s] = generator[s] /\ worker'[s] = worker[s]
      /\ wire'[s] = wire[s] /\ heard'[s] = heard[s] /\ emitted'[s] = emitted[s]
      /\ result'[s] = result[s]
  BY DEF End, TypeOK
<1> QED
  BY <1>1, <1>2 DEF Closed, Complete, Sound

LEMMA SoundBreak ==
  ASSUME TypeOK, NEW s \in Streams, Sound(s), Break(s)
  PROVE  Sound(s)'
<1>1. /\ link[s] = "open" /\ link'[s] = "broken" /\ wire'[s] = <<>>
      /\ generator'[s] = IF generator[s] = "relaying" THEN "stopped" ELSE generator[s]
      /\ worker'[s] = worker[s] /\ heard'[s] = heard[s] /\ emitted'[s] = emitted[s]
      /\ result'[s] = result[s]
  BY DEF Break, TypeOK
<1>2. /\ Heard(s)' <=> Heard(s)
      /\ OnWire(s, Len(heard[s]), Len(wire[s]))'
  BY <1>1 DEF Heard, OnWire
<1>3. /\ Written(s)' = Len(heard[s]) /\ Len(heard[s]) \in Nat
      /\ Len(wire[s]) \in Nat /\ emitted[s] \in Nat /\ Written(s) \in Nat
  <2>1. Written(s)' = Len(heard[s]) + 0
    BY <1>1 DEF Written
  <2>2. Len(heard[s]) \in Nat
    BY StreamTypes
  <2> QED
    BY <2>1, <2>2, StreamTypes
<1>4. CASE Closed(s)
  BY <1>1, <1>4 DEF Closed, Complete, Cut, Sound
<1>5. CASE Closing(s)
  <2>1. Written(s)' <= emitted'[s]
    <3>1. Len(wire[s]) # 0
      BY <1>5, StreamTypes, EmptyWhenZero DEF Closing
    <3>2. \A m, e \in Nat, n \in Nat \ {0} : (m + n) - 1 = e => m <= e
      OBVIOUS
    <3>3. (Len(heard[s]) + Len(wire[s])) - 1 = emitted[s]
      BY <1>5 DEF Closing, Written
    <3> QED
      BY <1>1, <1>3, <3>1, <3>2, <3>3
  <2> QED
    BY <1>1, <1>2, <1>5, <2>1 DEF Closing, Cut, Sound
<1>6. CASE Relaying(s) \/ Cut(s)
  <2>1. Sound(s)' \/ (Relaying(s) /\ Written(s) <= emitted[s])
                  \/ (Cut(s) /\ Heard(s) /\ Written(s) <= emitted[s])
    <3>1. CASE Relaying(s)
      BY <3>1, RelayingBound
    <3>2. CASE Cut(s)
      BY <1>1, <3>2 DEF Cut, Complete
    <3> QED
      BY <1>6, <3>1, <3>2
  <2>2. CASE (Relaying(s) \/ Cut(s)) /\ Heard(s) /\ Written(s) <= emitted[s]
    <3>1. \A m, n, e \in Nat : m + n <= e => m <= e
      OBVIOUS
    <3>2. Written(s)' <= emitted'[s]
      BY <1>1, <1>3, <2>2, <3>1 DEF Written
    <3>3. worker'[s] # "idle" /\ generator'[s] \in {"closed", "stopped"}
      BY <1>1, <2>2 DEF Relaying, Cut
    <3> QED
      BY <1>1, <1>2, <2>2, <3>2, <3>3 DEF Cut, Sound
  <2> QED
    BY <2>1, <2>2 DEF Relaying
<1> QED
  BY <1>1, <1>4, <1>5, <1>6 DEF Sound, Idle

-----------------------------------------------------------------------------
(* The invariant.                                                          *)

\* An action of one stream leaves the others alone.
LEMMA OthersSame ==
  ASSUME NEW s \in Streams, TypeOK,
         \/ Open(s) \/ ServerStep(s) \/ Hear(s) \/ End(s) \/ Break(s)
         \/ \E o \in Outcomes : Return(s, o)
  PROVE  \A t \in Streams \ {s} : Same(t)
<1> SUFFICES ASSUME NEW t \in Streams \ {s}
             PROVE  Same(t)
  OBVIOUS
<1>1. CASE Open(s) \/ End(s) \/ Break(s)
  BY <1>1 DEF Open, End, Break, Same, TypeOK
<1>2. CASE Emit(s) \/ \E o \in Outcomes : Return(s, o)
  BY <1>2 DEF Emit, Return, Report, Same, TypeOK
<1>3. CASE RunCallback(s)
  BY <1>3 DEF RunCallback, Same, TypeOK
<1>4. CASE Relay(s) \/ Finish(s) \/ Hear(s)
  BY <1>4 DEF Relay, Finish, Hear, Same, TypeOK
<1> QED
  BY <1>1, <1>2, <1>3, <1>4 DEF ServerStep

LEMMA InvInit == StreamInit => StreamInv
  BY TypeInit, SoundInit DEF StreamInv

LEMMA InvNext == StreamInv /\ [StreamNext]_streamVars => StreamInv'
<1> SUFFICES ASSUME StreamInv, [StreamNext]_streamVars
             PROVE  StreamInv'
  OBVIOUS
<1>1. TypeOK /\ TypeOK' /\ \A s \in Streams : Sound(s)
  BY TypeNext DEF StreamInv
<1>2. CASE UNCHANGED streamVars
  <2>1. \A s \in Streams : Same(s)
    BY <1>2 DEF streamVars, Same
  <2> QED
    BY <1>1, <2>1, SameSound DEF StreamInv
<1>3. CASE Restart
  BY <1>1, <1>3, SoundRestart DEF StreamInv
<1>4. ASSUME NEW s \in Streams,
             \/ Open(s) \/ ServerStep(s) \/ Hear(s) \/ End(s) \/ Break(s)
             \/ \E o \in Outcomes : Return(s, o)
      PROVE  StreamInv'
  <2>1. Sound(s)'
    BY <1>1, <1>4, SoundOpen, SoundEmit, SoundReturn, SoundRunCallback, SoundRelay,
       SoundFinish, SoundHear, SoundEnd, SoundBreak DEF ServerStep
  <2>2. \A t \in Streams \ {s} : Same(t)
    BY <1>1, <1>4, OthersSame
  <2>3. \A t \in Streams \ {s} : Sound(t)'
    BY <1>1, <2>2, SameSound
  <2> QED
    BY <1>1, <2>1, <2>3 DEF StreamInv
<1> QED
  BY <1>2, <1>3, <1>4 DEF StreamNext

THEOREM StreamSoundness == StreamSpec => []StreamInv
  BY InvInit, InvNext, PTL DEF StreamSpec

-----------------------------------------------------------------------------
(* What a reader hears.                                                    *)

LEMMA SoundHeard ==
  ASSUME TypeOK, NEW s \in Streams, Sound(s)
  PROVE  \E n \in 0..emitted[s] :
           \/ heard[s] = Stages(n)
           \/ /\ n = emitted[s]
              /\ worker[s] = "returned"
              /\ heard[s] = Append(Stages(n), Terminal(result[s]))
<1>1. /\ Len(heard[s]) \in Nat /\ Len(wire[s]) \in Nat /\ emitted[s] \in Nat
      /\ Written(s) = Len(heard[s]) + Len(wire[s])
  BY StreamTypes DEF Written
<1>2. emitted[s] \in 0..emitted[s] /\ 0 \in 0..emitted[s]
  BY <1>1
<1>3. CASE Idle(s)
  <2>1. <<>> = Stages(0)
    BY DEF Stages, Contract!Stages
  <2> QED
    BY <1>2, <1>3, <2>1 DEF Idle
<1>4. CASE Complete(s)
  BY <1>2, <1>4 DEF Complete
<1>5. CASE Heard(s) /\ Written(s) <= emitted[s]
  <2>1. \A m, n, e \in Nat : m + n <= e => m \in 0..e
    OBVIOUS
  <2>2. Len(heard[s]) \in 0..emitted[s]
    BY <1>1, <1>5, <2>1
  <2> QED
    BY <1>5, <2>2 DEF Heard
<1>6. CASE Closing(s)
  <2>1. Len(wire[s]) # 0
    BY <1>6, StreamTypes, EmptyWhenZero DEF Closing
  <2>2. \A m, e \in Nat, n \in Nat \ {0} : (m + n) - 1 = e => m \in 0..e
    OBVIOUS
  <2>3. (Len(heard[s]) + Len(wire[s])) - 1 = emitted[s]
    BY <1>6 DEF Closing, Written
  <2>4. Len(heard[s]) \in 0..emitted[s]
    BY <1>1, <2>1, <2>2, <2>3
  <2> QED
    BY <1>6, <2>4 DEF Closing, Heard
<1>7. Relaying(s) => Heard(s) /\ Written(s) <= emitted[s]
  BY RelayingBound DEF Relaying
<1> QED
  BY <1>3, <1>4, <1>5, <1>6, <1>7 DEF Sound, Closed, Cut

\* Stages in order and without a gap, then at most the one outcome of the use case
\* (routes/issues.py 99-185, routes/graph.py 56-105, sse.ts 24-56).
THEOREM StreamsFaithful == StreamSpec => []HeardFaithfully
<1>1. StreamInv => HeardFaithfully
  BY SoundHeard DEF StreamInv, HeardFaithfully
<1> QED
  BY <1>1, StreamSoundness, PTL

\* No regular end without the outcome (the returns in routes/issues.py 106-185).
THEOREM EndsComplete == StreamSpec => []EndsWithOutcome
<1>1. StreamInv => EndsWithOutcome
  BY DEF StreamInv, EndsWithOutcome, Sound, Idle, Relaying, Closing, Closed, Cut,
         Complete
<1> QED
  BY <1>1, StreamSoundness, PTL

-----------------------------------------------------------------------------
(* The refinement.                                                         *)

LEMMA HearImplements ==
  ASSUME TypeOK, NEW s \in Streams, Sound(s), Hear(s)
  PROVE  Contract!HearStage(s) \/ Contract!HearOutcome(s)
<1>1. /\ link[s] = "open" /\ wire[s] # <<>>
      /\ heard' = [heard EXCEPT ![s] = Append(heard[s], Head(wire[s]))]
      /\ UNCHANGED <<emitted, worker, result, link>>
  BY DEF Hear
<1>2. /\ wire[s] \in Seq(Events) /\ Len(wire[s]) \in Nat \ {0}
      /\ Len(heard[s]) \in Nat /\ emitted[s] \in Nat
  BY <1>1, StreamTypes, TailFacts
<1>3. ASSUME NEW n \in 1..Len(wire[s]), Heard(s), OnWire(s, Len(heard[s]), n),
             Len(heard[s]) < emitted[s]
      PROVE  Contract!HearStage(s)
  <2>1. Head(wire[s]) = Stage(Len(heard[s]) + 1)
    BY <1>3, NextStage
  <2> QED
    BY <1>1, <1>3, <2>1 DEF Contract!HearStage, Heard, Stage, Stages
<1>4. CASE Closing(s) /\ Len(wire[s]) = 1
  <2>1. /\ Head(wire[s]) = Terminal(result[s])
        /\ heard[s] = Stages(emitted[s])
    BY <1>4, LastEvent
  <2> QED
    BY <1>1, <1>4, <2>1 DEF Contract!HearOutcome, Closing, Terminal, Stages
<1>5. CASE Closing(s) /\ Len(wire[s]) # 1
  <2>1. \A m, e \in Nat, n \in Nat \ {0, 1} :
          /\ n - 1 \in 1..n
          /\ (m + n) - 1 = e => m < e
    OBVIOUS
  <2>2. (Len(heard[s]) + Len(wire[s])) - 1 = emitted[s]
    BY <1>5 DEF Closing, Written
  <2>3. Len(wire[s]) - 1 \in 1..Len(wire[s]) /\ Len(heard[s]) < emitted[s]
    BY <1>2, <1>5, <2>1, <2>2
  <2> QED
    BY <1>3, <1>5, <2>3 DEF Closing
<1>6. CASE Relaying(s) \/ (Cut(s) /\ ~ Complete(s))
  <2>1. /\ Heard(s) /\ OnWire(s, Len(heard[s]), Len(wire[s]))
        /\ Written(s) <= emitted[s]
    BY <1>6, RelayingBound DEF Relaying, Cut
  <2>2. \A m, e \in Nat, n \in Nat \ {0} : n \in 1..n /\ (m + n <= e => m < e)
    OBVIOUS
  <2>3. Len(wire[s]) \in 1..Len(wire[s]) /\ Len(heard[s]) < emitted[s]
    BY <1>2, <2>1, <2>2 DEF Written
  <2> QED
    BY <1>3, <2>1, <2>3
<1> QED
  BY <1>1, <1>4, <1>5, <1>6 DEF Sound, Idle, Closed, Complete

LEMMA StepImplements ==
  ASSUME StreamInv, [StreamNext]_streamVars
  PROVE  [Contract!Next]_(Contract!vars)
<1>1. CASE UNCHANGED streamVars
  BY <1>1 DEF streamVars, Contract!vars
<1>2. CASE Restart
  BY <1>2 DEF Restart, Contract!Restart, Contract!Next
<1>3. ASSUME NEW s \in Streams,
             \/ Open(s) \/ ServerStep(s) \/ Hear(s) \/ End(s) \/ Break(s)
             \/ \E o \in Outcomes : Return(s, o)
      PROVE  [Contract!Next]_(Contract!vars)
  <2>1. CASE Open(s)
    BY <2>1 DEF Open, Contract!Open, Contract!Next
  <2>2. CASE Emit(s)
    BY <2>2 DEF Emit, Contract!Emit, Contract!Next
  <2>3. CASE RunCallback(s) \/ Relay(s) \/ Finish(s)
    BY <2>3 DEF RunCallback, Relay, Finish, Contract!vars
  <2>4. CASE \E o \in Outcomes : Return(s, o)
    BY <2>4 DEF Return, Contract!Return, Contract!Next
  <2>5. CASE Hear(s)
    <3>1. TypeOK /\ Sound(s)
      BY DEF StreamInv
    <3>2. Contract!HearStage(s) \/ Contract!HearOutcome(s)
      BY <2>5, <3>1, HearImplements
    <3> QED
      BY <3>2 DEF Contract!Next
  <2>6. CASE End(s)
    <3>1. Closed(s)
      BY <2>6, SoundEnd DEF StreamInv
    <3> QED
      BY <2>6, <3>1 DEF End, Contract!End, Contract!Next, Closed, Complete, Stages, Terminal
  <2>7. CASE Break(s)
    BY <2>7 DEF Break, Contract!Break, Contract!Next
  <2> QED
    BY <1>3, <2>1, <2>2, <2>3, <2>4, <2>5, <2>6, <2>7 DEF ServerStep
<1> QED
  BY <1>1, <1>2, <1>3 DEF StreamNext

\* The routes, the connection and the reader do nothing the contract of the stream
\* does not allow (routes/issues.py 77-185, routes/graph.py 42-106, sse.ts 24-56).
THEOREM StreamsImplementContract == StreamSpec => ImplementsContract
<1>1. StreamInit => Contract!Init
  BY DEF StreamInit
<1>2. StreamInv /\ [StreamNext]_streamVars => [Contract!Next]_(Contract!vars)
  BY StepImplements
<1> QED
  BY <1>1, <1>2, StreamSoundness, PTL DEF StreamSpec, ImplementsContract, Contract!Spec

-----------------------------------------------------------------------------
(***************************************************************************)
(* The dialogue of the page.  One lemma per kind of page step: opening a   *)
(* stream, hearing from it, losing it; all others leave the page alone.    *)
(***************************************************************************)

\* The part of the invariant about page and requests.
Dialogue ==
  /\ PendingExact /\ Started
  /\ ~ page.overlapped => Current /\ Remembered
  /\ AnswersStayInDialogue /\ NeverOvercounted

PageTyped ==
  /\ page \in Page
  /\ request \in [Streams -> Request \cup {NoRequest}]

LEMMA InductiveParts == Inductive <=> TypeOK /\ PageTyped /\ Dialogue
  BY DEF Inductive, PageTypeOK, PageTyped, Dialogue

\* What a request becomes in the dialogue of a page.
LEMMA OfFacts ==
  ASSUME NEW p \in Page, NEW q \in Request
  PROVE  /\ Of(p, q) \in Request
         /\ Of(p, q).topic = q.topic /\ Of(p, q).about = q.about
         /\ Of(p, q).answered = q.answered
         /\ Of(p, q).count = q.count /\ Of(p, q).received = q.received
         /\ Of(p, q).overlapped = p.overlapped
  BY DEF Of, Request, Page

\* A response under way makes the form wait, unless a retry has overlapped it.
LEMMA NobodyOpen ==
  ASSUME Dialogue, ~ page.pending, ~ page.overlapped
  PROVE  ~ Busy
  BY DEF Dialogue, PendingExact

\* Opening a stream, for whatever the handler puts on the page: in a dialogue that is
\* not overlapped, nobody else is open and the request fits.
LEMMA Opening ==
  ASSUME TypeOK, PageTyped, Dialogue,
         NEW s \in Streams, NEW p \in Page, NEW q \in Request,
         RunGeneration(s, p, q),
         p.topic \in Topics,
         q.received = p.received,
         ~ p.overlapped =>
           /\ ~ Busy
           /\ q.topic = p.topic
           /\ q.answered => q.topic = q.about
           /\ q.count <= q.received
           /\ p.attempt <= p.received
  PROVE  PageTyped' /\ Dialogue'
<1> DEFINE o == Of(p, q)
           r == [p EXCEPT !.pending = TRUE, !.progress = TRUE, !.failed = FALSE,
                       !.action = "none", !.question = FALSE, !.last = o, !.current = s]
<1>a. /\ o \in Request
      /\ o.topic = q.topic /\ o.about = q.about /\ o.answered = q.answered
      /\ o.count = q.count /\ o.received = q.received /\ o.overlapped = p.overlapped
  BY OfFacts
<1>b. /\ page' = r
      /\ request' = [request EXCEPT ![s] = o]
  BY DEF RunGeneration
<1> HIDE DEF o
<1>0. /\ r \in Page
      /\ r.pending = TRUE /\ r.action = "none" /\ r.question = FALSE
      /\ r.last = o /\ r.current = s
      /\ r.topic = p.topic /\ r.attempt = p.attempt /\ r.received = p.received
      /\ r.overlapped = p.overlapped
  BY <1>a DEF Page
<1> HIDE DEF r
<1>1. /\ page' \in Page
      /\ page'.pending = TRUE /\ page'.action = "none" /\ page'.question = FALSE
      /\ page'.last = o /\ page'.current = s
      /\ page'.topic = p.topic /\ page'.attempt = p.attempt
      /\ page'.received = p.received /\ page'.overlapped = p.overlapped
  BY <1>b, <1>0
<1>2. /\ request' \in [Streams -> Request \cup {NoRequest}]
      /\ request'[s] = o
      /\ \A t \in Streams : t # s => request'[t] = request[t]
  BY <1>a, <1>b DEF PageTyped
<1>3. /\ link'[s] = "open"
      /\ \A t \in Streams : t # s => link'[t] = link[t]
  BY DEF RunGeneration, Open, TypeOK
<1>4. ~ p.overlapped => \A t \in Streams : link[t] # "open"
  BY DEF Busy
<1>5. q.received <= p.received
  BY DEF Request, Page
<1>6. PendingExact'
  BY <1>1, <1>3 DEF PendingExact
<1>7. Started'
  BY <1>1, <1>a DEF Started, Request
<1>8. ~ page'.overlapped => Current'
  BY <1>a, <1>1, <1>2, <1>3, <1>4, <1>5 DEF Current
<1>9. ~ page'.overlapped => Remembered'
  BY <1>a, <1>1 DEF Remembered
<1>10. AnswersStayInDialogue'
  BY <1>a, <1>2 DEF AnswersStayInDialogue, Dialogue
<1>11. NeverOvercounted'
  BY <1>a, <1>2 DEF NeverOvercounted, Dialogue
<1> QED
  BY <1>1, <1>2, <1>6, <1>7, <1>8, <1>9, <1>10, <1>11 DEF PageTyped, Dialogue

\* A new topic; it ends an overlapped dialogue if nobody is open any more.
LEMMA Submitting ==
  ASSUME TypeOK, PageTyped, Dialogue, NEW s \in Streams, NEW t \in Topics,
         SubmitTopic(s, t)
  PROVE  PageTyped' /\ Dialogue'
<1> DEFINE b == page.overlapped /\ Busy
           p == [page EXCEPT !.topic = t, !.attempt = 0, !.received = 0,
                             !.overlapped = b]
           q == [NoRequest EXCEPT !.topic = t]
<1>1. b \in BOOLEAN /\ (~ b => ~ page.overlapped \/ ~ Busy)
  OBVIOUS
<1> HIDE DEF b
<1>2. /\ p \in Page /\ p.topic = t /\ p.attempt = 0 /\ p.received = 0
      /\ p.overlapped = b
  BY <1>1 DEF PageTyped, Page
<1>3. /\ q \in Request /\ q.topic = t /\ q.answered = FALSE
      /\ q.count = 0 /\ q.received = 0
  BY DEF NoRequest, Request
<1>4. ~ page.pending /\ RunGeneration(s, p, q)
  BY DEF SubmitTopic, b
<1>5. ~ p.overlapped => ~ Busy
  BY <1>1, <1>2, <1>4, NobodyOpen
<1> HIDE DEF p, q
<1> QED
  BY <1>2, <1>3, <1>4, <1>5, Opening

\* An answer.
LEMMA Answering ==
  ASSUME TypeOK, PageTyped, Dialogue, NEW s \in Streams, SubmitClarification(s)
  PROVE  PageTyped' /\ Dialogue'
<1> DEFINE q == [topic |-> page.topic, count |-> page.attempt, answered |-> TRUE,
                 about |-> page.about, received |-> page.received,
                 overlapped |-> page.overlapped]
<1>1. page \in Page /\ page.topic \in Topics
  BY DEF SubmitClarification, PageTyped, Dialogue, Started
<1>2. /\ q \in Request /\ q.topic = page.topic /\ q.about = page.about
      /\ q.count = page.attempt /\ q.received = page.received
  BY <1>1 DEF Page, Request
<1>3. ~ page.pending /\ RunGeneration(s, page, q)
  BY DEF SubmitClarification
<1>4. ~ page.overlapped =>
        ~ Busy /\ page.about = page.topic /\ page.attempt <= page.received
  BY <1>3, NobodyOpen DEF SubmitClarification, Dialogue, Remembered
<1> HIDE DEF q
<1> QED
  BY <1>1, <1>2, <1>3, <1>4, Opening

\* The last request again; it makes a dialogue overlapped if a response is open.
LEMMA Retrying ==
  ASSUME TypeOK, PageTyped, Dialogue, NEW s \in Streams, RetryGeneration(s)
  PROVE  PageTyped' /\ Dialogue'
<1> DEFINE p == [page EXCEPT !.overlapped = @ \/ Busy]
           q == [page.last EXCEPT !.received = page.received]
<1>1. Busy \in BOOLEAN
  BY DEF Busy
<1>2. page \in Page /\ page.last \in Request /\ page.topic \in Topics
  BY DEF RetryGeneration, PageTyped, Dialogue, Started
<1>3. /\ p \in Page
      /\ p.topic = page.topic /\ p.attempt = page.attempt /\ p.received = page.received
      /\ p.overlapped = (page.overlapped \/ Busy)
  BY <1>1, <1>2 DEF Page
<1>4. /\ q \in Request /\ q.topic = page.last.topic /\ q.about = page.last.about
      /\ q.answered = page.last.answered
      /\ q.count = page.last.count /\ q.received = page.received
  BY <1>2 DEF Page, Request
<1>5. RunGeneration(s, p, q)
  BY DEF RetryGeneration
<1>6. ~ p.overlapped =>
        /\ ~ Busy
        /\ page.last.topic = page.topic
        /\ page.last.answered => page.last.topic = page.last.about
        /\ page.last.count <= page.received
        /\ page.attempt <= page.received
  BY <1>3 DEF Dialogue, Remembered
<1> HIDE DEF p, q
<1> QED
  BY <1>2, <1>3, <1>4, <1>5, <1>6, Opening

-----------------------------------------------------------------------------
(* What comes from a stream.                                               *)

LEMMA SamePage ==
  ASSUME PageTyped, Dialogue, UNCHANGED <<link, page, request>>
  PROVE  PageTyped' /\ Dialogue'
  BY DEF PageTyped, Dialogue, PendingExact, Busy, Started, Current, Remembered,
         AnswersStayInDialogue, NeverOvercounted

\* A change of the page that keeps what the dialogue rests on.
LEMMA Shown ==
  ASSUME PageTyped, Dialogue, UNCHANGED <<link, request>>, page' \in Page,
         page'.pending = page.pending, page'.current = page.current,
         page'.topic = page.topic, page'.last = page.last,
         page'.received = page.received, page'.attempt = page.attempt,
         page'.question = page.question, page'.about = page.about,
         page'.overlapped = page.overlapped,
         page'.action = "retry" => page.action = "retry" \/ Busy
  PROVE  PageTyped' /\ Dialogue'
<1>1. PendingExact' /\ Started'
  BY DEF Dialogue, PendingExact, Started, Busy
<1>2. ~ page'.overlapped => Current' /\ Remembered'
  BY DEF Dialogue, Current, Remembered
<1>3. AnswersStayInDialogue' /\ NeverOvercounted'
  BY DEF Dialogue, AnswersStayInDialogue, NeverOvercounted
<1> QED
  BY <1>1, <1>2, <1>3 DEF PageTyped, Dialogue

LEMMA Actions == \A o : PresentedAction(o) \in {"retry", "edit_topic", "none"}
  BY DEF PresentedAction

LEMMA HearingStage ==
  ASSUME TypeOK, PageTyped, Dialogue, NEW s \in Streams, HearStage(s)
  PROVE  PageTyped' /\ Dialogue'
<1>1. UNCHANGED <<link, request>>
  BY DEF HearStage, Hear
<1>2. CASE page' = page
  BY <1>1, <1>2, SamePage
<1>3. CASE page' = [page EXCEPT !.progress = TRUE]
  <2>1. /\ page' \in Page
        /\ page'.pending = page.pending /\ page'.current = page.current
        /\ page'.topic = page.topic /\ page'.last = page.last
        /\ page'.received = page.received /\ page'.attempt = page.attempt
        /\ page'.question = page.question /\ page'.about = page.about
        /\ page'.overlapped = page.overlapped
        /\ page'.action = page.action
    BY <1>3 DEF PageTyped, Page
  <2> QED
    BY <1>1, <2>1, Shown
<1> QED
  BY <1>2, <1>3 DEF HearStage

\* A question about the topic of the dialogue.
LEMMA HearingQuestion ==
  ASSUME PageTyped, Dialogue, NEW s \in Streams, link[s] = "open",
         UNCHANGED <<link, request>>, page' = Clarified(s)
  PROVE  PageTyped' /\ Dialogue'
<1>1. /\ page \in Page /\ page.last \in Request /\ page.topic \in Topics
      /\ request[s] \in Request \cup {NoRequest}
  BY DEF PageTyped, Dialogue, Started
<1>2. /\ request[s].count \in Nat /\ request[s].topic \in Topics \cup {NoTopic}
      /\ page.received \in Nat
  BY <1>1 DEF Page, Request, NoRequest
<1>3. page.received + 1 \in Nat /\ Attempt(s) \in Nat
  BY <1>2 DEF Attempt
<1>4. /\ page' \in Page
      /\ page'.pending = page.pending /\ page'.current = page.current
      /\ page'.topic = page.topic /\ page'.last = page.last
      /\ page'.action = page.action /\ page'.overlapped = page.overlapped
      /\ page'.received = page.received + 1 /\ page'.attempt = Attempt(s)
      /\ page'.about = request[s].topic
  BY <1>1, <1>2, <1>3 DEF Clarified, Page
<1>5. PendingExact' /\ Started'
  BY <1>1, <1>4 DEF Dialogue, PendingExact, Started, Busy
<1>6. ASSUME ~ page.overlapped
      PROVE  Current' /\ Remembered'
  <2>1. /\ request[s] \in Request /\ request[s].topic = page.topic
        /\ request[s].received <= page.received
        /\ request[s].count <= request[s].received
    BY <1>6 DEF Dialogue, Current, NeverOvercounted
  <2>2. request[s].received \in Nat
    BY <2>1 DEF Request
  <2>3. /\ Attempt(s) <= page.received + 1
        /\ \A n \in Nat : n <= page.received => n <= page.received + 1
    BY <1>2, <2>1, <2>2 DEF Attempt
  <2>4. Current'
    <3> SUFFICES ASSUME NEW t \in Streams, link[t] = "open"
                 PROVE  /\ t = page'.current
                        /\ request[t] \in Request
                        /\ request[t].topic = page'.topic
                        /\ request[t].received <= page'.received
                        /\ ~ request[t].overlapped
      BY DEF Current
    <3>1. /\ t = page.current /\ request[t] \in Request
          /\ request[t].topic = page.topic /\ request[t].received <= page.received
          /\ ~ request[t].overlapped
      BY <1>6 DEF Dialogue, Current
    <3>2. request[t].received \in Nat
      BY <3>1 DEF Request
    <3> QED
      BY <1>4, <2>3, <3>1, <3>2
  <2>5. Remembered'
    <3>1. /\ page.last.topic = page.topic
          /\ page.last.answered => page.last.topic = page.last.about
          /\ page.last.count <= page.received
      BY <1>6 DEF Dialogue, Remembered
    <3>2. page.last.count \in Nat
      BY <1>1 DEF Request
    <3>3. page'.last.count <= page'.received /\ page'.attempt <= page'.received
      BY <1>4, <2>3, <3>1, <3>2
    <3> QED
      BY <1>4, <2>1, <3>1, <3>3 DEF Remembered
  <2> QED
    BY <2>4, <2>5
<1>7. AnswersStayInDialogue' /\ NeverOvercounted'
  BY DEF Dialogue, AnswersStayInDialogue, NeverOvercounted
<1> QED
  BY <1>4, <1>5, <1>6, <1>7 DEF PageTyped, Dialogue

LEMMA FailedPage ==
  ASSUME page \in Page, NEW a \in {"retry", "edit_topic", "none"},
         NEW p, p = Failed(a)
  PROVE  /\ p \in Page
         /\ p.pending = page.pending /\ p.current = page.current
         /\ p.topic = page.topic /\ p.last = page.last
         /\ p.received = page.received /\ p.attempt = page.attempt
         /\ p.question = page.question /\ p.about = page.about
         /\ p.overlapped = page.overlapped
         /\ p.action = a
  BY DEF Failed, Page

LEMMA HearingTerminal ==
  ASSUME TypeOK, PageTyped, Dialogue, NEW s \in Streams, HearTerminal(s)
  PROVE  PageTyped' /\ Dialogue'
<1>1. UNCHANGED <<link, request>> /\ link[s] = "open" /\ Busy
  BY DEF HearTerminal, Hear, Busy
<1>2. PICK o : \/ page' = page
               \/ page' = Clarified(s)
               \/ page' = [page EXCEPT !.arrived = TRUE]
               \/ page' = Failed(PresentedAction(o))
  BY DEF HearTerminal
<1>3. CASE page' = page
  BY <1>1, <1>3, SamePage
<1>4. CASE page' = Clarified(s)
  BY <1>1, <1>4, HearingQuestion
<1>5. CASE page' = [page EXCEPT !.arrived = TRUE]
  <2>1. /\ page' \in Page
        /\ page'.pending = page.pending /\ page'.current = page.current
        /\ page'.topic = page.topic /\ page'.last = page.last
        /\ page'.received = page.received /\ page'.attempt = page.attempt
        /\ page'.question = page.question /\ page'.about = page.about
        /\ page'.overlapped = page.overlapped
        /\ page'.action = page.action
    BY <1>5 DEF PageTyped, Page
  <2> QED
    BY <1>1, <2>1, Shown
<1>6. CASE page' = Failed(PresentedAction(o))
  <2>1. /\ page' \in Page
        /\ page'.pending = page.pending /\ page'.current = page.current
        /\ page'.topic = page.topic /\ page'.last = page.last
        /\ page'.received = page.received /\ page'.attempt = page.attempt
        /\ page'.question = page.question /\ page'.about = page.about
        /\ page'.overlapped = page.overlapped
    BY <1>6, FailedPage, Actions DEF PageTyped
  <2> QED
    BY <1>1, <2>1, Shown
<1> QED
  BY <1>2, <1>3, <1>4, <1>5, <1>6

\* The end of a stream, after whatever the page shows of it.
LEMMA ClosingStream ==
  ASSUME TypeOK, PageTyped, Dialogue, NEW s \in Streams, link[s] = "open",
         NEW e \in {"ended", "broken"}, link' = [link EXCEPT ![s] = e],
         UNCHANGED request,
         NEW p \in Page, page' = Settled(p),
         p.topic = page.topic, p.last = page.last, p.received = page.received,
         p.attempt = page.attempt, p.question = page.question,
         p.about = page.about, p.overlapped = page.overlapped
  PROVE  PageTyped' /\ Dialogue'
<1>1. /\ page' \in Page /\ page'.pending = FALSE
      /\ page'.topic = p.topic /\ page'.last = p.last /\ page'.received = p.received
      /\ page'.attempt = p.attempt /\ page'.question = p.question
      /\ page'.about = p.about /\ page'.overlapped = p.overlapped
  BY DEF Settled, Page
<1>2. ~ page.overlapped => \A t \in Streams : link'[t] # "open"
  <2>1. ~ page.overlapped => \A t \in Streams : link[t] = "open" => t = s
    BY DEF Dialogue, Current
  <2>2. \A t \in Streams : link'[t] = IF t = s THEN e ELSE link[t]
    BY DEF TypeOK
  <2> QED
    BY <2>1, <2>2
<1>3. PendingExact'
  BY <1>1, <1>2 DEF PendingExact, Busy
<1>4. Started'
  BY <1>1 DEF Dialogue, Started
<1>5. ~ page'.overlapped => Current'
  BY <1>1, <1>2 DEF Current
<1>6. ~ page'.overlapped => Remembered'
  BY <1>1 DEF Dialogue, Remembered
<1>7. AnswersStayInDialogue' /\ NeverOvercounted'
  BY DEF Dialogue, AnswersStayInDialogue, NeverOvercounted
<1> QED
  BY <1>1, <1>3, <1>4, <1>5, <1>6, <1>7 DEF PageTyped, Dialogue

LEMMA Ending ==
  ASSUME TypeOK, PageTyped, Dialogue, NEW s \in Streams, EndOfStream(s)
  PROVE  PageTyped' /\ Dialogue'
<1>1. /\ link[s] = "open" /\ link' = [link EXCEPT ![s] = "ended"]
      /\ page \in Page /\ page' = Settled(page) /\ UNCHANGED request
  BY DEF EndOfStream, End, PageTyped
<1> QED
  BY <1>1, ClosingStream

LEMMA Losing ==
  ASSUME TypeOK, PageTyped, Dialogue, NEW s \in Streams, ConnectionLost(s)
  PROVE  PageTyped' /\ Dialogue'
<1> DEFINE p == IF page.arrived THEN page ELSE Failed("retry")
<1>1. /\ link[s] = "open" /\ link' = [link EXCEPT ![s] = "broken"]
      /\ page' = Settled(p) /\ UNCHANGED request
  BY DEF ConnectionLost, Break
<1>2. /\ p \in Page
      /\ p.topic = page.topic /\ p.last = page.last /\ p.received = page.received
      /\ p.attempt = page.attempt /\ p.question = page.question
      /\ p.about = page.about /\ p.overlapped = page.overlapped
  BY FailedPage DEF PageTyped
<1> HIDE DEF p
<1> QED
  BY <1>1, <1>2, ClosingStream

LEMMA Editing ==
  ASSUME PageTyped, Dialogue, EditTopic
  PROVE  PageTyped' /\ Dialogue'
<1>1. /\ UNCHANGED <<link, request>>
      /\ page' \in Page
      /\ page'.pending = page.pending /\ page'.current = page.current
      /\ page'.topic = page.topic /\ page'.last = page.last
      /\ page'.received = page.received /\ page'.attempt = page.attempt
      /\ page'.question = page.question /\ page'.about = page.about
      /\ page'.overlapped = page.overlapped
      /\ page'.action = "none"
  BY DEF EditTopic, streamVars, PageTyped, Page
<1> QED
  BY <1>1, Shown

-----------------------------------------------------------------------------

\* Page steps are steps of the streams.
LEMMA StepsOfStreams == [Next]_vars => [StreamNext]_streamVars
<1> SUFFICES ASSUME [Next]_vars
             PROVE  [StreamNext]_streamVars
  OBVIOUS
<1>1. ASSUME NEW s \in Streams, UserStep(s)
      PROVE  Open(s)
  <2>1. ASSUME NEW p, NEW q, RunGeneration(s, p, q)
        PROVE  Open(s)
    BY <2>1 DEF RunGeneration
  <2>2. \E p, q : RunGeneration(s, p, q)
    BY <1>1, Zenon DEF UserStep, SubmitTopic, SubmitClarification, RetryGeneration
  <2> QED
    BY <2>1, <2>2
<1>2. ASSUME NEW s \in Streams, Delivery(s)
      PROVE  Hear(s) \/ End(s)
  BY <1>2 DEF Delivery, HearStage, HearTerminal, EndOfStream
<1> QED
  BY <1>1, <1>2 DEF Next, vars, Behind, ConnectionLost, PipelineEnds, EditTopic,
                    StreamNext

LEMMA DialogueInit == Init => PageTyped /\ Dialogue
<1> SUFFICES ASSUME Init
             PROVE  PageTyped /\ Dialogue
  OBVIOUS
<1>1. PageTyped
  BY DEF Init, PageTyped, Page, Request, NoRequest
<1>2. \A s \in Streams : link[s] # "open"
  <2>1. link = [s \in Streams |-> "none"]
    BY Zenon DEF Init, StreamInit, Contract!Init
  <2> QED
    BY <2>1, Zenon
<1>3. PendingExact /\ Current /\ Started
  BY <1>2 DEF Init, StreamInit, Contract!Init, PendingExact, Busy, Current, Started
<1>4. Remembered
  BY DEF Init, Remembered, NoRequest
<1>5. AnswersStayInDialogue /\ NeverOvercounted
  BY DEF Init, AnswersStayInDialogue, NeverOvercounted, NoRequest
<1> QED
  BY <1>1, <1>3, <1>4, <1>5 DEF Dialogue

LEMMA DialogueNext ==
  TypeOK /\ PageTyped /\ Dialogue /\ [Next]_vars => PageTyped' /\ Dialogue'
<1> SUFFICES ASSUME TypeOK, PageTyped, Dialogue, [Next]_vars
             PROVE  PageTyped' /\ Dialogue'
  OBVIOUS
<1>1. CASE UNCHANGED vars
  BY <1>1, SamePage DEF vars, streamVars
<1>2. ASSUME NEW s \in Streams, UserStep(s)
      PROVE  PageTyped' /\ Dialogue'
  BY <1>2, Submitting, Answering, Retrying DEF UserStep
<1>3. ASSUME NEW s \in Streams, Delivery(s)
      PROVE  PageTyped' /\ Dialogue'
  BY <1>3, HearingStage, HearingTerminal, Ending DEF Delivery
<1>4. ASSUME NEW s \in Streams, Behind(s)
      PROVE  PageTyped' /\ Dialogue'
  BY <1>4, SamePage DEF Behind, ServerStep, Emit, RunCallback, Relay, Finish
<1>5. ASSUME NEW s \in Streams, NEW o \in Outcomes, PipelineEnds(s, o)
      PROVE  PageTyped' /\ Dialogue'
  BY <1>5, SamePage DEF PipelineEnds, Return
<1>6. CASE Restart /\ UNCHANGED <<page, request>>
  BY <1>6, SamePage DEF Restart
<1> QED
  BY <1>1, <1>2, <1>3, <1>4, <1>5, <1>6, Losing, Editing DEF Next

\* Page, requests and streams keep the inductive invariant, early retries included: what
\* can be sent was sent, and streams and what the page remembers belong to one dialogue
\* until a retry overlaps it (IssueListView.vue 51-116).
THEOREM PageSoundness == Spec => []Inductive
<1>1. Init => Inductive
  BY TypeInit, DialogueInit, InductiveParts DEF Init
<1>2. Inductive /\ [Next]_vars => Inductive'
  <2>1. Inductive' <=> TypeOK' /\ PageTyped' /\ Dialogue'
    BY DEF Inductive, PageTypeOK, PageTyped, Dialogue
  <2> QED
    BY <2>1, TypeNext, DialogueNext, StepsOfStreams, InductiveParts
<1> QED
  BY <1>1, <1>2, PTL DEF Spec

\* The form is disabled only while the response to the last request may come, and
\* always while one may that no retry has overlapped (IssueListView.vue 51-87).
THEOREM FormDisabledExactly == Spec => []PendingExact
<1>1. Inductive => PendingExact
  BY DEF Inductive
<1> QED
  BY <1>1, PageSoundness, PTL

\* In a dialogue that no retry has overlapped, also behind one that was, answers go out
\* with the topic they are about (IssueListView.vue 98-106).
THEOREM AnswersStayWithTopic == Spec => []AnswersStayInDialogue
<1>1. Inductive => AnswersStayInDialogue
  BY DEF Inductive
<1> QED
  BY <1>1, PageSoundness, PTL

\* No request of such a dialogue counts questions nobody has seen
\* (IssueListView.vue 70, 89-110).
THEOREM QuestionsNeverOvercounted == Spec => []NeverOvercounted
<1>1. Inductive => NeverOvercounted
  BY DEF Inductive
<1> QED
  BY <1>1, PageSoundness, PTL

\* What is proved of the streams holds under the page, too.
THEOREM PageUsesStreams == Spec => StreamSpec
  BY StepsOfStreams, PTL DEF Spec, StreamSpec, Init

-----------------------------------------------------------------------------
(***************************************************************************)
(* What the page shows of a stream.                                        *)
(***************************************************************************)

\* Of a stream of which only stages were heard, nobody was told the outcome.
LEMMA StagesTellNothing ==
  ASSUME TypeOK, NEW s \in Streams, Heard(s)
  PROVE  ~ Told(s)
<1> DEFINE h == Len(heard[s])
<1>1. h \in Nat /\ (heard[s] # <<>> => h \in 1..h)
  BY StreamTypes, EmptyWhenZero
<1>2. heard[s] # <<>> => heard[s][h] = Stage(h)
  <2>1. \A i \in 1..h : Stages(h)[i] = Stage(i)
    BY <1>1 DEF Stages, Stage, Contract!Stages
  <2>2. heard[s] = Stages(h)
    BY DEF Heard
  <2> QED
    BY <1>1, <2>1, <2>2
<1>3. Stage(h).event = "stage"
  BY DEF Stage, Contract!Stage
<1> QED
  BY <1>2, <1>3 DEF Told

\* Of a complete one, somebody was.
LEMMA CompleteTells ==
  ASSUME TypeOK, NEW s \in Streams, Complete(s)
  PROVE  Told(s)
<1>1. /\ emitted[s] \in Nat /\ Terminal(result[s]) \in Events
      /\ Stages(emitted[s]) \in Seq(Events)
  BY EventTypes, StagesFacts DEF TypeOK
<1>2. /\ heard[s] # <<>>
      /\ heard[s][Len(heard[s])] = Terminal(result[s])
  BY <1>1, AppendFacts DEF Complete
<1>3. Terminal(result[s]).event = "terminal"
  BY DEF Terminal, Contract!Terminal
<1> QED
  BY <1>2, <1>3 DEF Told

\* Nothing is heard behind the outcome, and the outcome heard is that of the use case.
LEMMA HearingTells ==
  ASSUME TypeOK, NEW s \in Streams, Sound(s), Hear(s)
  PROVE  /\ ~ Told(s)
         /\ Head(wire[s]).event = "stage" => ~ Told(s)'
         /\ Head(wire[s]).event = "terminal" =>
              Told(s)' /\ Head(wire[s]) = Terminal(result[s])
<1>1. /\ link[s] = "open" /\ wire[s] # <<>>
      /\ heard[s] \in Seq(Events) /\ wire[s] \in Seq(Events)
      /\ heard'[s] = Append(heard[s], Head(wire[s]))
  BY DEF Hear, TypeOK
<1>2. /\ Head(wire[s]) = wire[s][1] /\ Head(wire[s]) \in Events
      /\ Len(wire[s]) \in Nat \ {0}
  BY <1>1, TailFacts
<1>3. /\ heard'[s] # <<>>
      /\ heard'[s][Len(heard'[s])] = Head(wire[s])
  BY <1>1, <1>2, AppendFacts
<1>4. Told(s)' <=> Head(wire[s]).event = "terminal"
  BY <1>3 DEF Told
<1>5. Heard(s)
  BY <1>1 DEF Sound, Idle, Relaying, Closing, Closed, Cut, Complete
<1>6. /\ \A n : Stage(n).event = "stage"
      /\ \A o : Terminal(o).event = "terminal"
      /\ "stage" # "terminal"
  BY DEF Stage, Terminal, Contract!Stage, Contract!Terminal
<1>7. Head(wire[s]).event = "terminal" => Head(wire[s]) = Terminal(result[s])
  <2>1. CASE OnWire(s, Len(heard[s]), Len(wire[s]))
    <3>1. Head(wire[s]) = Stage(Len(heard[s]) + 1)
      BY <1>2, <2>1 DEF OnWire
    <3> QED
      BY <3>1, <1>6
  <2>2. CASE Closing(s)
    <3>1. CASE Len(wire[s]) = 1
      <4>1. wire[s][Len(wire[s])] = Terminal(result[s])
        BY <2>2 DEF Closing
      <4> QED
        BY <1>2, <3>1, <4>1
    <3>2. CASE Len(wire[s]) # 1
      <4> \A n \in Nat \ {0} : n # 1 => 1 \in 1..(n - 1)
        OBVIOUS
      <4>1. 1 \in 1..(Len(wire[s]) - 1)
        BY <1>2, <3>2
      <4>2. Head(wire[s]) = Stage(Len(heard[s]) + 1)
        BY <1>2, <2>2, <4>1 DEF Closing, OnWire
      <4> QED
        BY <4>2, <1>6
    <3> QED
      BY <3>1, <3>2
  <2> QED
    BY <1>1, <2>1, <2>2 DEF Sound, Idle, Relaying, Closed, Cut, Complete
<1> QED
  BY <1>4, <1>5, <1>6, <1>7, StagesTellNothing

\* A stream at its regular end has told its outcome.
LEMMA EndsTold ==
  ASSUME TypeOK, NEW s \in Streams, Sound(s),
         link[s] = "ended" \/ End(s) \/ Told(s)
  PROVE  Told(s) /\ worker[s] = "returned"
<1>1. CASE Complete(s)
  BY <1>1, CompleteTells DEF Complete
<1>2. CASE Heard(s) \/ Idle(s)
  <2>1. heard[s] = <<>> => ~ Told(s)
    BY DEF Told
  <2>2. ~ Told(s)
    BY <1>2, <2>1, StagesTellNothing DEF Idle
  <2>3. link[s] = "ended" \/ End(s)
    BY <2>2
  <2> QED
    BY <1>1, <2>3 DEF End, Sound, Idle, Relaying, Closing, Closed, Cut
<1> QED
  BY <1>1, <1>2 DEF Sound, Relaying, Closing, Closed, Cut

-----------------------------------------------------------------------------
(* Each step of the page.                                                  *)

LEMMA SameReflected ==
  ASSUME Reflected, UNCHANGED <<page, request, heard, link, result>>
  PROVE  Reflected'
  BY DEF Reflected, Told, ShowsOutcome, ShowsBreak, Attempt

\* The end of a use case is no news of what was told before.
LEMMA ReturnReflected ==
  ASSUME TypeOK, PageTyped, Reflected, \A t \in Streams : Sound(t),
         NEW s \in Streams, NEW o, PipelineEnds(s, o)
  PROVE  Reflected'
<1> DEFINE c == page.current
<1> SUFFICES ASSUME c # NoTopic, ~ page.arrived, ~ page.overlapped
             PROVE  Reflected'
  BY DEF PipelineEnds, Reflected
<1>1. /\ UNCHANGED <<page, request, heard, link>>
      /\ worker[s] = "running"
      /\ \A t \in Streams : t # s => result'[t] = result[t]
  BY DEF PipelineEnds, Return, TypeOK
<1>2. c \in Streams
  BY DEF PageTyped, Page
<1>3. Told(c) \/ link[c] = "ended" => result'[c] = result[c]
  BY <1>1, <1>2, EndsTold
<1> QED
  BY <1>1, <1>3 DEF Reflected, Told, ShowsOutcome, ShowsBreak, Attempt

\* A new stream has told nothing, and what was shown before is gone.
LEMMA OpeningReflected ==
  ASSUME TypeOK, NEW s \in Streams, Sound(s), NEW p \in Page, NEW q,
         RunGeneration(s, p, q)
  PROVE  Reflected'
<1>1. /\ page'.failed = FALSE /\ page'.current = s
  BY DEF RunGeneration, Page
<1>2. /\ link[s] = "none" /\ link'[s] = "open" /\ heard' = heard
  BY DEF RunGeneration, Open, TypeOK
<1>3. heard[s] = <<>>
  BY <1>2 DEF Sound, Idle, Relaying, Closing, Closed, Cut
<1> QED
  BY <1>1, <1>2, <1>3 DEF Reflected, Told

LEMMA UserReflected ==
  ASSUME TypeOK, PageTyped, Dialogue, NEW s \in Streams, Sound(s), UserStep(s)
  PROVE  Reflected'
<1>1. page \in Page
  BY DEF PageTyped
<1>2. ASSUME NEW t \in Topics, SubmitTopic(s, t) PROVE Reflected'
  <2> DEFINE b == page.overlapped /\ Busy
             p == [page EXCEPT !.topic = t, !.attempt = 0, !.received = 0,
                               !.overlapped = b]
  <2>1. b \in BOOLEAN
    OBVIOUS
  <2> HIDE DEF b
  <2>2. p \in Page
    BY <1>1, <2>1 DEF Page
  <2>3. \E q : RunGeneration(s, p, q)
    BY <1>2 DEF SubmitTopic, b
  <2> HIDE DEF p
  <2> QED
    BY <2>2, <2>3, OpeningReflected
<1>3. CASE SubmitClarification(s)
  <2>1. \E q : RunGeneration(s, page, q)
    BY <1>3, Zenon DEF SubmitClarification
  <2> QED
    BY <1>1, <2>1, OpeningReflected
<1>4. CASE RetryGeneration(s)
  <2> DEFINE b == page.overlapped \/ Busy
             p == [page EXCEPT !.overlapped = b]
  <2>1. b \in BOOLEAN
    OBVIOUS
  <2> HIDE DEF b
  <2>2. p \in Page
    BY <1>1, <2>1 DEF Page
  <2>3. \E q : RunGeneration(s, p, q)
    BY <1>4 DEF RetryGeneration, b
  <2> HIDE DEF p
  <2> QED
    BY <2>2, <2>3, OpeningReflected
<1> QED
  BY <1>2, <1>3, <1>4 DEF UserStep

\* What is heard comes from the stream shown.
LEMMA StageReflected ==
  ASSUME TypeOK, PageTyped, Dialogue, Reflected, NEW s \in Streams, Sound(s),
         HearStage(s)
  PROVE  Reflected'
<1>1. Hear(s) /\ link[s] = "open" /\ UNCHANGED <<link, result>>
  BY DEF HearStage, Hear
<1>2. ~ page.overlapped => s = page.current
  BY <1>1 DEF Dialogue, Current
<1>3. ~ Told(s) /\ ~ Told(s)'
  BY <1>1, HearingTells DEF HearStage
<1>4. /\ page'.current = page.current /\ page'.arrived = page.arrived
      /\ page'.failed = page.failed /\ page'.overlapped = page.overlapped
  BY DEF HearStage, PageTyped, Page
<1> QED
  BY <1>1, <1>2, <1>3, <1>4 DEF Reflected

\* The advice shown is the one that fits the outcome.
LEMMA AdviceShown ==
  ASSUME NEW o \in Failures
  PROVE  PresentedAction(o) = Advice(o)
  BY DEF PresentedAction, Advice, Reason, Retryable, Failures

LEMMA TerminalReflected ==
  ASSUME TypeOK, PageTyped, Dialogue, Reflected, NEW s \in Streams, Sound(s),
         HearTerminal(s)
  PROVE  Reflected'
<1> DEFINE o == result[s]
<1>1. Hear(s) /\ link[s] = "open" /\ UNCHANGED <<link, result, request>>
  BY DEF HearTerminal, Hear
<1>2. page \in Page /\ (~ page.overlapped => s = page.current)
  BY <1>1 DEF Dialogue, Current, PageTyped
<1>3. ~ Told(s) /\ Told(s)' /\ Head(wire[s]) = Terminal(o)
  BY <1>1, HearingTells DEF HearTerminal
<1>4. Head(wire[s]).outcome = o
  BY <1>3 DEF Terminal, Contract!Terminal
<1>5. \E x : /\ x = Head(wire[s]).outcome
            /\ page' = IF page.arrived THEN page
                       ELSE CASE EventOf(x) = "clarify" -> Clarified(s)
                              [] EventOf(x) = "done" -> [page EXCEPT !.arrived = TRUE]
                              [] OTHER -> Failed(PresentedAction(x))
  BY DEF HearTerminal
<1>6. CASE page.arrived
  BY <1>5, <1>6 DEF Reflected
<1>7. CASE ~ page.arrived /\ o = "done"
  <2>1. page' = [page EXCEPT !.arrived = TRUE]
    BY <1>4, <1>5, <1>7 DEF EventOf
  <2>2. page'.arrived
    BY <1>2, <2>1 DEF Page
  <2> QED
    BY <2>2 DEF Reflected
<1>8. CASE ~ page.arrived /\ o = "needs_clarification"
  <2>1. page' = Clarified(s)
    BY <1>4, <1>5, <1>8 DEF EventOf
  <2>2. /\ page'.current = page.current /\ page'.failed = page.failed
        /\ page'.question = TRUE /\ page'.attempt = Attempt(s)
        /\ page'.progress = FALSE /\ page'.overlapped = page.overlapped
    BY <1>2, <2>1 DEF Clarified, Page
  <2>3. s # NoTopic /\ ~ page.overlapped => ~ page.failed
    BY <1>1, <1>2, <1>3, <1>8 DEF Reflected
  <2> QED
    BY <1>1, <1>2, <1>8, <2>2, <2>3 DEF Reflected, ShowsOutcome, Attempt, Failures
<1>9. CASE ~ page.arrived /\ o \notin {"done", "needs_clarification"}
  <2>1. page' = Failed(PresentedAction(o))
    BY <1>4, <1>5, <1>9 DEF EventOf
  <2>2. /\ page'.current = page.current /\ page'.failed = TRUE
        /\ page'.action = PresentedAction(o) /\ page'.progress = FALSE
        /\ page'.overlapped = page.overlapped
    BY <1>2, <2>1 DEF Failed, Page
  <2>3. ShowsOutcome(s)'
    BY <1>1, <1>9, <2>2, AdviceShown DEF ShowsOutcome
  <2> QED
    BY <1>1, <1>2, <1>3, <2>2, <2>3 DEF Reflected
<1> QED
  BY <1>6, <1>7, <1>8, <1>9

LEMMA EndReflected ==
  ASSUME TypeOK, PageTyped, Dialogue, Reflected, NEW s \in Streams, Sound(s),
         EndOfStream(s)
  PROVE  Reflected'
<1>1. /\ End(s) /\ link[s] = "open" /\ link'[s] = "ended"
      /\ UNCHANGED <<heard, result, request>>
  BY DEF EndOfStream, End, TypeOK
<1>2. ~ page.overlapped => s = page.current
  BY <1>1 DEF Dialogue, Current
<1>3. Told(s)
  BY <1>1, EndsTold
<1>4. /\ page'.current = page.current /\ page'.arrived = page.arrived
      /\ page'.failed = page.failed /\ page'.progress = page.progress
      /\ page'.action = page.action /\ page'.question = page.question
      /\ page'.attempt = page.attempt /\ page'.overlapped = page.overlapped
  BY DEF EndOfStream, Settled, PageTyped, Page
<1> QED
  BY <1>1, <1>2, <1>3, <1>4 DEF Reflected, ShowsOutcome, Attempt

LEMMA LossReflected ==
  ASSUME TypeOK, PageTyped, Dialogue, NEW s \in Streams, ConnectionLost(s)
  PROVE  Reflected'
<1>1. link[s] = "open" /\ link'[s] = "broken"
  BY DEF ConnectionLost, Break, TypeOK
<1>2. ~ page.overlapped => s = page.current
  BY <1>1 DEF Dialogue, Current
<1>3. CASE page.arrived
  <2>1. page'.arrived
    BY <1>3 DEF ConnectionLost, Settled, PageTyped, Page
  <2> QED
    BY <2>1 DEF Reflected
<1>4. CASE ~ page.arrived
  <2>1. /\ page'.current = page.current /\ page'.failed = TRUE
        /\ page'.action = "retry" /\ page'.progress = FALSE
        /\ page'.overlapped = page.overlapped
    BY <1>4 DEF ConnectionLost, Settled, Failed, PageTyped, Page
  <2> QED
    BY <1>1, <1>2, <2>1 DEF Reflected, ShowsBreak
<1> QED
  BY <1>3, <1>4

\* The error that asks for another topic may be put away.
LEMMA EditReflected ==
  ASSUME PageTyped, Reflected, EditTopic
  PROVE  Reflected'
<1>1. /\ UNCHANGED <<heard, link, result, request>>
      /\ page.action = "edit_topic" /\ page'.failed = FALSE
      /\ page'.current = page.current /\ page'.arrived = page.arrived
      /\ page'.progress = page.progress /\ page'.question = page.question
      /\ page'.attempt = page.attempt /\ page'.overlapped = page.overlapped
  BY DEF EditTopic, streamVars, PageTyped, Page
<1> QED
  BY <1>1 DEF Reflected, Told, ShowsOutcome, ShowsBreak, Attempt

LEMMA ReflectedNext ==
  TypeOK /\ PageTyped /\ Dialogue /\ Reflected /\ (\A s \in Streams : Sound(s))
    /\ [Next]_vars => Reflected'
<1> SUFFICES ASSUME TypeOK, PageTyped, Dialogue, Reflected,
                    \A s \in Streams : Sound(s), [Next]_vars
             PROVE  Reflected'
  OBVIOUS
<1>1. CASE UNCHANGED vars
  BY <1>1, SameReflected DEF vars, streamVars
<1>2. ASSUME NEW s \in Streams, UserStep(s) PROVE Reflected'
  BY <1>2, UserReflected
<1>3. ASSUME NEW s \in Streams, Delivery(s) PROVE Reflected'
  BY <1>3, StageReflected, TerminalReflected, EndReflected DEF Delivery
<1>4. ASSUME NEW s \in Streams, Behind(s) PROVE Reflected'
  BY <1>4, SameReflected DEF Behind, ServerStep, Emit, RunCallback, Relay, Finish
<1>5. ASSUME NEW s \in Streams, NEW o \in Outcomes, PipelineEnds(s, o)
      PROVE  Reflected'
  BY <1>5, ReturnReflected
<1>6. ASSUME NEW s \in Streams, ConnectionLost(s) PROVE Reflected'
  BY <1>6, LossReflected
<1>7. CASE Restart /\ UNCHANGED <<page, request>>
  BY <1>7, SameReflected DEF Restart
<1> QED
  BY <1>1, <1>2, <1>3, <1>4, <1>5, <1>6, <1>7, EditReflected DEF Next

\* When nothing is under way in a dialogue that is not overlapped, the page shows what
\* became of the last request, with the advice that fits its outcome
\* (IssueListView.vue 51-116, streamErrors.ts 10-34).
THEOREM OutcomeShownExactly == Spec => []PageShowsOutcome
<1>1. Init => Reflected
  BY DEF Init, Reflected
<1>2. Inductive /\ StreamInv /\ Reflected /\ [Next]_vars => Reflected'
  BY ReflectedNext, InductiveParts DEF StreamInv
<1>3. Inductive /\ Reflected => PageShowsOutcome
  <2> SUFFICES ASSUME Inductive, Reflected,
                      page.current # NoTopic, ~ page.pending, ~ page.arrived,
                      ~ page.overlapped
               PROVE  /\ ~ page.progress
                      /\ link[page.current] = "broken" => ShowsBreak
                      /\ link[page.current] = "ended" => ShowsOutcome(page.current)
    BY DEF PageShowsOutcome
  <2>1. page.current \in Streams
    BY DEF Inductive, PageTypeOK, Page
  <2>2. link[page.current] # "open"
    BY <2>1 DEF Inductive, PendingExact, Busy
  <2> QED
    BY <2>2 DEF Reflected
<1> QED
  BY <1>1, <1>2, <1>3, PageSoundness, PageUsesStreams, StreamSoundness, PTL DEF Spec
=============================================================================
