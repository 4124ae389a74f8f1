--------------------------- MODULE ChatAgentProofs ---------------------------
(***************************************************************************)
(* Proofs about the conversation, for any questions, chunks and tools and  *)
(* any number of exchanges, chunks and calls: what is shown of an answer   *)
(* is what its text reads, and a history holds whole exchanges.            *)
(*                                                                         *)
(* From the bottom up: induction over the natural numbers, sequences and   *)
(* FlattenSeq; tags in a text and what the places before a place read;     *)
(* the equation of Split, which a function defined by recursion satisfies  *)
(* only once such a function is shown to exist; the parser, which keeps in *)
(* step with the text it was fed (Follows); the conversation, whose        *)
(* inductive invariant is ConversationInv.                                 *)
(***************************************************************************)
EXTENDS ChatAgent, Integers, WellFoundedInduction, TLAPS

-----------------------------------------------------------------------------
(* Natural numbers.                                                        *)

\* A set of numbers that is not empty has a least element.
LEMMA LeastElement ==
  ASSUME NEW T \in SUBSET Nat, T # {}
  PROVE  \E n \in T : \A m \in T : n <= m
<1>1. PICK x \in T : \A y \in T : ~ (<<y, x>> \in OpToRel(<, Nat))
  BY NatLessThanWellFounded, WFMin
<1>2. \A y \in T : ~ (y < x)
  BY <1>1 DEF OpToRel
<1> QED
  BY <1>2

\* Induction, stated for the set of numbers a formula holds of: the library states it
\* for an operator, which no first-order prover can instantiate.
LEMMA Induction ==
  ASSUME NEW S, 0 \in S, \A n \in Nat : n \in S => n + 1 \in S
  PROVE  Nat \subseteq S
<1> DEFINE T == {n \in Nat : n \notin S}
<1> SUFFICES ASSUME T # {} PROVE FALSE
  OBVIOUS
<1>1. PICK n \in T : \A m \in T : n <= m
  BY LeastElement
<1>2. n # 0 /\ n - 1 \in Nat /\ n - 1 \notin T
  BY <1>1
<1> QED
  BY <1>1, <1>2

\* The same, with all smaller numbers at hand.
LEMMA CompleteInduction ==
  ASSUME NEW S, \A n \in Nat : (\A k \in Nat : k < n => k \in S) => n \in S
  PROVE  Nat \subseteq S
<1> DEFINE T == {n \in Nat : n \notin S}
<1> SUFFICES ASSUME T # {} PROVE FALSE
  OBVIOUS
<1>1. PICK n \in T : \A m \in T : n <= m
  BY LeastElement
<1>2. \A k \in Nat : k < n => k \in S
  BY <1>1
<1> QED
  BY <1>1, <1>2

\* Min and Max of sets of numbers.
LEMMA MinFacts ==
  ASSUME NEW T \in SUBSET Nat, T # {}
  PROVE  Min(T) \in T /\ \A n \in T : Min(T) <= n
<1>1. \E n \in T : \A m \in T : n <= m
  BY LeastElement
<1> QED
  BY <1>1 DEF Min

LEMMA MaxFacts ==
  ASSUME NEW T \in SUBSET Nat, T # {}, NEW b \in Nat, \A n \in T : n <= b
  PROVE  Max(T) \in T /\ \A n \in T : n <= Max(T)
<1> DEFINE Up == {n \in Nat : \A m \in T : m <= n}
<1>1. PICK n \in Up : \A m \in Up : n <= m
  <2>1. b \in Up
    OBVIOUS
  <2> QED
    BY <2>1, LeastElement
<1>2. n \in T
  <2> SUFFICES ASSUME n \notin T PROVE FALSE
    OBVIOUS
  <2>1. PICK k \in T : TRUE
    OBVIOUS
  <2>2. n \in Nat /\ k \in Nat /\ k <= n /\ k # n
    BY <1>1, <2>1
  <2>3. n - 1 \in Nat /\ \A m \in T : m <= n - 1
    BY <1>1, <2>2
  <2> QED
    BY <1>1, <2>3
<1>3. \E x \in T : \A y \in T : x >= y
  BY <1>1, <1>2
<1> QED
  BY <1>3 DEF Max

-----------------------------------------------------------------------------
(* Sequences.                                                              *)

\* Sequences longer by one element.
LEMMA AppendFacts ==
  ASSUME NEW S, NEW q \in Seq(S), NEW x \in S
  PROVE  /\ Append(q, x) \in Seq(S)
         /\ Len(Append(q, x)) = Len(q) + 1
         /\ Append(q, x)[Len(q) + 1] = x
         /\ \A i \in 1..Len(q) : Append(q, x)[i] = q[i]
         /\ Append(q, x) # <<>>
  OBVIOUS

\* A sequence that is not empty is an Append.
LEMMA LastOf ==
  ASSUME NEW S, NEW q \in Seq(S), q # <<>>
  PROVE  \E r \in Seq(S), x \in S : q = Append(r, x) /\ Len(q) = Len(r) + 1
<1> DEFINE n == Len(q)
           r == [i \in 1..(n - 1) |-> q[i]]
<1>1. n \in Nat \ {0}
  OBVIOUS
<1>2. r \in Seq(S) /\ Len(r) = n - 1 /\ q[n] \in S
  BY <1>1
<1>3. \A i \in 1..n : Append(r, q[n])[i] = q[i]
  BY <1>1, <1>2
<1>4. Append(r, q[n]) \in Seq(S) /\ Len(Append(r, q[n])) = n
  BY <1>1, <1>2
<1>5. q = Append(r, q[n])
  BY <1>3, <1>4
<1>6. Len(q) = Len(r) + 1
  BY <1>1, <1>2
<1> HIDE DEF r
<1> QED
  BY <1>2, <1>5, <1>6

\* Two sequences in one.
LEMMA ConcatFacts ==
  ASSUME NEW S, NEW q \in Seq(S), NEW r \in Seq(S)
  PROVE  /\ q \o r \in Seq(S)
         /\ Len(q \o r) = Len(q) + Len(r)
         /\ \A i \in 1..Len(q) : (q \o r)[i] = q[i]
         /\ \A i \in 1..Len(r) : (q \o r)[Len(q) + i] = r[i]
         /\ q \o <<>> = q /\ <<>> \o q = q
  OBVIOUS

LEMMA ConcatAssoc ==
  ASSUME NEW S, NEW q \in Seq(S), NEW r \in Seq(S), NEW t \in Seq(S)
  PROVE  (q \o r) \o t = q \o (r \o t)
  OBVIOUS

LEMMA ConcatAppend ==
  ASSUME NEW S, NEW q \in Seq(S), NEW r \in Seq(S), NEW x \in S
  PROVE  q \o Append(r, x) = Append(q \o r, x)
  OBVIOUS

-----------------------------------------------------------------------------
(***************************************************************************)
(* FlattenSeq.  Its definition is a recursive function, that is, the       *)
(* CHOOSE of one that solves its equation: first such functions exist.     *)
(***************************************************************************)

\* The provers reason about it best while they do not see what it joins.
Join(a, b) == a \o b

Flattens(f, q, n) ==
  f = [i \in 1..n |-> IF i = 1 THEN q[i] ELSE Join(f[i - 1], q[i])]

AgreeUpTo(q, r, n) == \A i \in 1..n : q[i] = r[i]

\* The equation of such a function, at a place.
LEMMA FlattensAt ==
  ASSUME NEW f, NEW q, NEW n, Flattens(f, q, n), NEW i, i \in 1..n
  PROVE  /\ i = 1 => f[i] = q[i]
         /\ i # 1 => f[i] = Join(f[i - 1], q[i])
<1>1. f[i] = IF i = 1 THEN q[i] ELSE Join(f[i - 1], q[i])
  BY DEF Flattens
<1> QED
  BY <1>1

\* There is one for each sequence.
LEMMA FlattensExists ==
  ASSUME NEW q
  PROVE  \A n \in Nat : \E f : Flattens(f, q, n)
<1> DEFINE S == {n \in Nat : \E f : Flattens(f, q, n)}
<1>1. 0 \in S
  <2>1. Flattens([i \in 1..0 |-> q], q, 0)
    BY DEF Flattens
  <2> QED
    BY <2>1
<1>2. ASSUME NEW n \in Nat, n \in S
      PROVE  n + 1 \in S
  <2>1. PICK f : Flattens(f, q, n)
    BY <1>2
  <2> DEFINE g == [i \in 1..(n + 1) |->
                     IF i = n + 1 THEN (IF i = 1 THEN q[i] ELSE Join(f[i - 1], q[i]))
                     ELSE f[i]]
             h == [i \in 1..(n + 1) |-> IF i = 1 THEN q[i] ELSE Join(g[i - 1], q[i])]
  <2>2. ASSUME NEW i \in 1..(n + 1) PROVE g[i] = h[i]
    <3>1. CASE i = 1 /\ n = 0
      BY <3>1
    <3>2. CASE i = 1 /\ n # 0
      <4>1. g[1] = f[1] /\ f[1] = q[1]
        BY <2>1, <3>2, FlattensAt
      <4> QED
        BY <3>2, <4>1
    <3>3. CASE i # 1
      <4>1. i - 1 \in 1..n /\ i - 1 # n + 1
        BY <3>3
      <4>2. g[i - 1] = f[i - 1]
        BY <4>1
      <4>3. g[i] = Join(f[i - 1], q[i])
        <5>1. CASE i = n + 1
          BY <3>3, <5>1
        <5>2. CASE i # n + 1
          <6>1. i \in 1..n /\ g[i] = f[i]
            BY <5>2
          <6>2. f[i] = Join(f[i - 1], q[i])
            BY <2>1, <3>3, <6>1, FlattensAt
          <6> QED
            BY <6>1, <6>2
        <5> QED
          BY <5>1, <5>2
      <4> QED
        BY <3>3, <4>2, <4>3
    <3> QED
      BY <3>1, <3>2, <3>3
  <2>3. g = h
    BY <2>2
  <2>4. Flattens(g, q, n + 1)
    BY <2>3 DEF Flattens
  <2> QED
    BY <2>4
<1> QED
  BY <1>1, <1>2, Induction

\* FlattenSeq is what any of them says of the whole sequence.
LEMMA FlattenedBy ==
  ASSUME NEW q, Len(q) \in Nat \ {0}
  PROVE  \E f : Flattens(f, q, Len(q)) /\ FlattenSeq(q) = f[Len(q)]
<1>1. \E f : Flattens(f, q, Len(q))
  BY FlattensExists
<1> QED
  BY <1>1, Zenon DEF FlattenSeq, Flattens, Join

LEMMA FlattenEmpty == FlattenSeq(<<>>) = <<>>
  BY DEF FlattenSeq

\* Both functions agree on what they both flatten.
LEMMA FlattensAgree ==
  ASSUME NEW q, NEW r, NEW n \in Nat, NEW m \in Nat, n <= m, AgreeUpTo(q, r, n),
         NEW f, Flattens(f, q, n), NEW g, Flattens(g, r, m)
  PROVE  AgreeUpTo(f, g, n)
<1> DEFINE S == {k \in Nat : k \in 1..n => f[k] = g[k]}
<1>1. 0 \in S
  OBVIOUS
<1>2. ASSUME NEW k \in Nat, k \in S
      PROVE  k + 1 \in S
  <2> SUFFICES ASSUME k + 1 \in 1..n PROVE f[k + 1] = g[k + 1]
    OBVIOUS
  <2> k + 1 \in 1..m
    OBVIOUS
  <2>1. CASE k = 0
    BY <2>1, FlattensAt DEF AgreeUpTo
  <2>2. CASE k # 0
    <3>1. f[k] = g[k]
      BY <1>2, <2>2
    <3>2. f[k + 1] = Join(f[k], q[k + 1]) /\ g[k + 1] = Join(g[k], r[k + 1])
      <4> k + 1 # 1 /\ (k + 1) - 1 = k
        BY <2>2
      <4>1. f[k + 1] = Join(f[(k + 1) - 1], q[k + 1])
        BY FlattensAt
      <4>2. g[k + 1] = Join(g[(k + 1) - 1], r[k + 1])
        BY FlattensAt
      <4> QED
        BY <4>1, <4>2
    <3> QED
      BY <3>1, <3>2 DEF AgreeUpTo
  <2> QED
    BY <2>1, <2>2
<1> HIDE DEF S
<1>3. Nat \subseteq S
  BY <1>1, <1>2, Induction
<1> QED
  BY <1>3 DEF S, AgreeUpTo

\* A piece more.
LEMMA FlattenAppend ==
  ASSUME NEW S, NEW q \in Seq(Seq(S)), NEW x \in Seq(S)
  PROVE  FlattenSeq(Append(q, x)) = FlattenSeq(q) \o x
<1> DEFINE r == Append(q, x)
           n == Len(q)
<1>1. /\ n \in Nat /\ Len(r) = n + 1 /\ r[n + 1] = x
      /\ \A i \in 1..n : r[i] = q[i]
  BY AppendFacts
<1> HIDE DEF r, n
<1>2. PICK g : Flattens(g, r, n + 1) /\ FlattenSeq(r) = g[n + 1]
  BY <1>1, FlattenedBy
<1>3. CASE n = 0
  <2>1. FlattenSeq(r) = x
    BY <1>1, <1>2, <1>3 DEF Flattens
  <2>2. q = <<>>
    BY <1>3 DEF n
  <2> QED
    BY <2>1, <2>2, FlattenEmpty, ConcatFacts DEF r
<1>4. CASE n # 0
  <2>1. PICK f : Flattens(f, q, n) /\ FlattenSeq(q) = f[n]
    BY <1>1, <1>4, FlattenedBy DEF n
  <2>2. f[n] = g[n]
    <3>1. n <= n + 1 /\ n \in 1..n /\ n + 1 \in Nat /\ AgreeUpTo(q, r, n)
      BY <1>1, <1>4 DEF AgreeUpTo
    <3>2. AgreeUpTo(f, g, n)
      BY <1>1, <1>2, <2>1, <3>1, FlattensAgree
    <3> QED
      BY <3>1, <3>2 DEF AgreeUpTo
  <2>3. g[n + 1] = Join(g[n], x)
    <3>1. n + 1 \in 1..(n + 1) /\ n + 1 # 1 /\ (n + 1) - 1 = n
      BY <1>1, <1>4
    <3>2. g[n + 1] = Join(g[(n + 1) - 1], r[n + 1])
      BY <1>2, <3>1, FlattensAt
    <3> QED
      BY <1>1, <3>1, <3>2
  <2>4. FlattenSeq(r) = Join(FlattenSeq(q), x)
    BY <1>2, <2>1, <2>2, <2>3
  <2> QED
    BY <2>4, Zenon DEF r, Join
<1> QED
  BY <1>3, <1>4

\* What is joined is of the kind of its pieces.
LEMMA FlattenType ==
  ASSUME NEW S, NEW q \in Seq(Seq(S))
  PROVE  FlattenSeq(q) \in Seq(S)
<1> DEFINE P == {n \in Nat : \A r \in Seq(Seq(S)) : Len(r) = n => FlattenSeq(r) \in Seq(S)}
<1>1. 0 \in P
  <2>1. \A r \in Seq(Seq(S)) : Len(r) = 0 => r = <<>>
    OBVIOUS
  <2> QED
    BY <2>1, FlattenEmpty
<1>2. ASSUME NEW n \in Nat, n \in P
      PROVE  n + 1 \in P
  <2> SUFFICES ASSUME NEW r \in Seq(Seq(S)), Len(r) = n + 1
               PROVE  FlattenSeq(r) \in Seq(S)
    OBVIOUS
  <2>1. r # <<>>
    OBVIOUS
  <2>2. PICK t \in Seq(Seq(S)), x \in Seq(S) : r = Append(t, x) /\ Len(r) = Len(t) + 1
    BY <2>1, LastOf
  <2>3. Len(t) = n
    BY <2>2
  <2>4. FlattenSeq(t) \in Seq(S)
    BY <1>2, <2>3
  <2>5. FlattenSeq(r) = FlattenSeq(t) \o x
    BY <2>2, FlattenAppend
  <2> QED
    BY <2>2, <2>4, <2>5, ConcatFacts
<1>3. Len(q) \in Nat
  OBVIOUS
<1> HIDE DEF P
<1>4. Nat \subseteq P
  BY <1>1, <1>2, Induction
<1> QED
  BY <1>3, <1>4 DEF P

\* Joining sequences of pieces joins what they make.
LEMMA FlattenConcat ==
  ASSUME NEW S, NEW q \in Seq(Seq(S)), NEW r \in Seq(Seq(S))
  PROVE  FlattenSeq(q \o r) = FlattenSeq(q) \o FlattenSeq(r)
<1> DEFINE P == {n \in Nat : \A t \in Seq(Seq(S)) :
                   Len(t) = n => FlattenSeq(q \o t) = FlattenSeq(q) \o FlattenSeq(t)}
<1>1. 0 \in P
  <2>1. \A t \in Seq(Seq(S)) : Len(t) = 0 => t = <<>>
    OBVIOUS
  <2>2. q \o <<>> = q /\ FlattenSeq(q) \o <<>> = FlattenSeq(q)
    BY FlattenType, ConcatFacts
  <2> QED
    BY <2>1, <2>2, FlattenEmpty
<1>2. ASSUME NEW n \in Nat, n \in P
      PROVE  n + 1 \in P
  <2> SUFFICES ASSUME NEW t \in Seq(Seq(S)), Len(t) = n + 1
               PROVE  FlattenSeq(q \o t) = FlattenSeq(q) \o FlattenSeq(t)
    OBVIOUS
  <2>1. t # <<>>
    OBVIOUS
  <2>2. PICK u \in Seq(Seq(S)), x \in Seq(S) : t = Append(u, x) /\ Len(t) = Len(u) + 1
    BY <2>1, LastOf
  <2>3. Len(u) = n
    BY <2>2
  <2>4. FlattenSeq(q \o u) = FlattenSeq(q) \o FlattenSeq(u)
    BY <1>2, <2>3
  <2>5. q \o t = Append(q \o u, x) /\ q \o u \in Seq(Seq(S))
    BY <2>2, ConcatAppend, ConcatFacts
  <2>6. FlattenSeq(q \o t) = FlattenSeq(q \o u) \o x
    BY <2>5, FlattenAppend
  <2>7. FlattenSeq(t) = FlattenSeq(u) \o x
    BY <2>2, FlattenAppend
  <2>8. FlattenSeq(q) \in Seq(S) /\ FlattenSeq(u) \in Seq(S)
    BY FlattenType
  <2>9. (FlattenSeq(q) \o FlattenSeq(u)) \o x = FlattenSeq(q) \o (FlattenSeq(u) \o x)
    BY <2>2, <2>8, ConcatAssoc, SMTT(30)
  <2> QED
    BY <2>4, <2>6, <2>7, <2>9
<1>3. Len(r) \in Nat
  OBVIOUS
<1> HIDE DEF P
<1>4. Nat \subseteq P
  BY <1>1, <1>2, Induction
<1> QED
  BY <1>3, <1>4 DEF P

LEMMA FlattenOne ==
  ASSUME NEW S, NEW x \in Seq(S)
  PROVE  FlattenSeq(<<x>>) = x
<1>1. <<x>> = Append(<<>>, x) /\ <<>> \in Seq(Seq(S))
  OBVIOUS
<1>2. FlattenSeq(Append(<<>>, x)) = FlattenSeq(<<>>) \o x
  BY <1>1, FlattenAppend
<1>3. <<>> \o x = x
  BY ConcatFacts
<1> QED
  BY <1>1, <1>2, <1>3, FlattenEmpty

-----------------------------------------------------------------------------
(***************************************************************************)
(* Texts, and where tags are in them.  A tag is four symbols with its      *)
(* empty line, so each fact can be said of a place and those behind it.    *)
(***************************************************************************)

\* What is left of a text.
LEMMA DropFacts ==
  ASSUME NEW S, NEW q \in Seq(S), NEW n \in 0..Len(q)
  PROVE  /\ Drop(q, n) \in Seq(S)
         /\ Len(Drop(q, n)) = Len(q) - n
         /\ \A i \in 1..(Len(q) - n) : Drop(q, n)[i] = q[n + i]
  BY DEF Drop

LEMMA SubSeqFacts ==
  ASSUME NEW S, NEW q \in Seq(S), NEW m \in Nat \ {0}, NEW n \in Nat, n <= Len(q), m <= n + 1
  PROVE  /\ SubSeq(q, m, n) \in Seq(S)
         /\ Len(SubSeq(q, m, n)) = n + 1 - m
         /\ \A i \in 1..(n + 1 - m) : SubSeq(q, m, n)[i] = q[m + i - 1]
  OBVIOUS

\* Sequences that agree at every place are the same.
LEMMA SameSequence ==
  ASSUME NEW S, NEW q \in Seq(S), NEW r \in Seq(S), Len(q) = Len(r), AgreeUpTo(q, r, Len(q))
  PROVE  q = r
  BY DEF AgreeUpTo

\* A prefix, by its places.
LEMMA PrefixFacts ==
  ASSUME NEW S, NEW q \in Seq(S), NEW r \in Seq(S)
  PROVE  IsPrefix(q, r) <=> Len(q) <= Len(r) /\ \A i \in 1..Len(q) : q[i] = r[i]
<1>1. CASE Len(q) <= Len(r)
  <2>1. SubSeq(q, 1, Len(q)) \in Seq(S) /\ SubSeq(r, 1, Len(q)) \in Seq(S)
    BY <1>1
  <2>2. /\ Len(SubSeq(q, 1, Len(q))) = Len(q)
        /\ Len(SubSeq(r, 1, Len(q))) = Len(q)
        /\ \A i \in 1..Len(q) : /\ SubSeq(q, 1, Len(q))[i] = q[i]
                                /\ SubSeq(r, 1, Len(q))[i] = r[i]
    BY <1>1
  <2>3. (\A i \in 1..Len(q) : q[i] = r[i]) => SubSeq(q, 1, Len(q)) = SubSeq(r, 1, Len(q))
    BY <2>1, <2>2
  <2> QED
    BY <1>1, <2>2, <2>3 DEF IsPrefix
<1>2. CASE ~ (Len(q) <= Len(r))
  BY <1>2 DEF IsPrefix
<1> QED
  BY <1>1, <1>2

LEMMA ConcatPrefix ==
  ASSUME NEW S, NEW q \in Seq(S), NEW r \in Seq(S)
  PROVE  IsPrefix(q, q \o r)
<1>1. q \o r \in Seq(S) /\ Len(q) <= Len(q \o r) /\ \A i \in 1..Len(q) : (q \o r)[i] = q[i]
  BY ConcatFacts
<1> QED
  BY <1>1, PrefixFacts

LEMMA DropWhole ==
  ASSUME NEW S, NEW q \in Seq(S)
  PROVE  Drop(q, 0) = q /\ Drop(q, Len(q)) = <<>>
<1>1. Drop(q, 0) \in Seq(S) /\ Len(Drop(q, 0)) = Len(q) /\ \A i \in 1..Len(q) : Drop(q, 0)[i] = q[i]
  BY DropFacts
<1>2. Drop(q, Len(q)) \in Seq(S) /\ Len(Drop(q, Len(q))) = 0
  BY DropFacts
<1> QED
  BY <1>1, <1>2, SameSequence DEF AgreeUpTo

LEMMA DropDrop ==
  ASSUME NEW S, NEW q \in Seq(S), NEW m \in 0..Len(q), NEW n \in 0..(Len(q) - m)
  PROVE  Drop(Drop(q, m), n) = Drop(q, m + n)
<1> DEFINE r == Drop(q, m)
<1>1. r \in Seq(S) /\ Len(r) = Len(q) - m /\ \A i \in 1..(Len(q) - m) : r[i] = q[m + i]
  BY DropFacts
<1> HIDE DEF r
<1>2. /\ Drop(r, n) \in Seq(S)
      /\ Len(Drop(r, n)) = Len(q) - m - n
      /\ \A i \in 1..(Len(q) - m - n) : Drop(r, n)[i] = q[m + n + i]
  <2>1. r \in Seq(S) /\ n \in 0..Len(r)
    BY <1>1
  <2>2. /\ Drop(r, n) \in Seq(S)
        /\ Len(Drop(r, n)) = Len(r) - n
        /\ \A i \in 1..(Len(r) - n) : Drop(r, n)[i] = r[n + i]
    BY <2>1 DEF Drop
  <2>3. \A i \in 1..(Len(q) - m - n) : n + i \in 1..(Len(q) - m) /\ m + (n + i) = m + n + i
    OBVIOUS
  <2> QED
    BY <1>1, <2>2, <2>3
<1>3. /\ Drop(q, m + n) \in Seq(S)
      /\ Len(Drop(q, m + n)) = Len(q) - m - n
      /\ \A i \in 1..(Len(q) - m - n) : Drop(q, m + n)[i] = q[m + n + i]
  <2>1. m + n \in 0..Len(q)
    OBVIOUS
  <2> QED
    BY <2>1 DEF Drop
<1>4. Drop(r, n) = Drop(q, m + n)
  BY <1>2, <1>3, SameSequence DEF AgreeUpTo
<1> QED
  BY <1>4 DEF r

LEMMA DropConcat ==
  ASSUME NEW S, NEW q \in Seq(S), NEW r \in Seq(S), NEW n \in 0..Len(q)
  PROVE  Drop(q \o r, n) = Drop(q, n) \o r
<1> DEFINE t == q \o r
           d == Drop(q, n)
<1>1. /\ t \in Seq(S) /\ Len(t) = Len(q) + Len(r)
      /\ \A i \in 1..Len(q) : t[i] = q[i]
      /\ \A i \in 1..Len(r) : t[Len(q) + i] = r[i]
  BY ConcatFacts
<1>2. /\ d \in Seq(S) /\ Len(d) = Len(q) - n
      /\ \A i \in 1..(Len(q) - n) : d[i] = q[n + i]
  BY DropFacts
<1> HIDE DEF t, d
<1>3. n \in 0..Len(t)
  BY <1>1
<1>4. /\ Drop(t, n) \in Seq(S) /\ Len(Drop(t, n)) = Len(t) - n
      /\ \A i \in 1..(Len(t) - n) : Drop(t, n)[i] = t[n + i]
  BY <1>1, <1>3, DropFacts
<1>5. /\ d \o r \in Seq(S) /\ Len(d \o r) = Len(d) + Len(r)
      /\ \A i \in 1..Len(d) : (d \o r)[i] = d[i]
      /\ \A i \in 1..Len(r) : (d \o r)[Len(d) + i] = r[i]
  <2>1. d \in Seq(S)
    BY <1>2
  <2> QED
    BY <2>1
<1>6. ASSUME NEW i \in 1..(Len(t) - n) PROVE Drop(t, n)[i] = (d \o r)[i]
  <2>1. CASE i <= Len(d)
    BY <1>1, <1>2, <1>4, <1>5, <2>1
  <2>2. CASE ~ (i <= Len(d))
    <3>1. i - Len(d) \in 1..Len(r) /\ n + i = Len(q) + (i - Len(d)) /\ i = Len(d) + (i - Len(d))
      BY <1>1, <1>2, <2>2
    <3>2. t[Len(q) + (i - Len(d))] = r[i - Len(d)]
      BY <1>1, <3>1
    <3>3. (d \o r)[Len(d) + (i - Len(d))] = r[i - Len(d)]
      BY <1>5, <3>1
    <3> QED
      BY <1>4, <3>1, <3>2, <3>3
  <2> QED
    BY <1>2, <2>1, <2>2
<1>7. Drop(t, n) = d \o r
  <2>1. Len(Drop(t, n)) = Len(d \o r) /\ AgreeUpTo(Drop(t, n), d \o r, Len(Drop(t, n)))
    BY <1>1, <1>2, <1>4, <1>5, <1>6 DEF AgreeUpTo
  <2> QED
    BY <1>4, <1>5, <2>1, SameSequence
<1> QED
  BY <1>7 DEF t, d

\* A text is stripped of symbols of the set only, and of all it begins with.
LEMMA StripLeftFacts ==
  ASSUME NEW S, NEW q \in Seq(S), NEW W
  PROVE  \E k \in 0..Len(q) : /\ StripLeft(q, W) = Drop(q, k)
                              /\ \A i \in 1..k : q[i] \in W
                              /\ k < Len(q) => q[k + 1] \notin W
<1> DEFINE T == {n \in 0..Len(q) : \A i \in 1..n : q[i] \in W}
<1>1. Len(q) \in Nat /\ 0 \in T
  OBVIOUS
<1>2. T \in SUBSET Nat /\ T # {} /\ \A n \in T : n <= Len(q)
  BY <1>1
<1>3. Max(T) \in T /\ \A n \in T : n <= Max(T)
  BY <1>1, <1>2, MaxFacts
<1>4. Max(T) < Len(q) => q[Max(T) + 1] \notin W
  <2> SUFFICES ASSUME Max(T) < Len(q), q[Max(T) + 1] \in W PROVE FALSE
    OBVIOUS
  <2>1. PICK k \in 0..Len(q) : k = Max(T) /\ \A i \in 1..k : q[i] \in W
    BY <1>3
  <2>2. k + 1 \in T
    <3>1. \A i \in 1..(k + 1) : i \in 1..k \/ i = k + 1
      OBVIOUS
    <3>2. \A i \in 1..(k + 1) : q[i] \in W
      BY <2>1, <3>1
    <3>3. k + 1 \in 0..Len(q)
      BY <1>1, <2>1
    <3> QED
      BY <3>2, <3>3
  <2> QED
    BY <1>3, <2>1, <2>2
<1>5. StripLeft(q, W) = Drop(q, Max(T))
  BY DEF StripLeft
<1>6. Max(T) \in 0..Len(q) /\ \A i \in 1..Max(T) : q[i] \in W
  BY <1>3
<1> HIDE DEF T
<1> QED
  BY <1>4, <1>5, <1>6

-----------------------------------------------------------------------------
(* Tags.                                                                   *)

\* The tags, by their symbols.
LEMMA MarkerFacts ==
  ASSUME NEW s \in Sources
  PROVE  /\ Marker[s] \in Texts /\ Len(Marker[s]) = 2
         /\ Marker[s][1] \in {"A", "G"} /\ Marker[s][2] = ":"
         /\ \A t \in Sources : Marker[s][1] = Marker[t][1] => s = t
<1>1. CASE s = "article"
  BY <1>1 DEF Marker, Texts, Symbols, Sources
<1>2. CASE s = "general"
  BY <1>2 DEF Marker, Texts, Symbols, Sources
<1> QED
  BY <1>1, <1>2 DEF Sources

\* The boundaries, by their symbols.
LEMMA BoundaryFacts ==
  ASSUME NEW s \in Sources
  PROVE  /\ Boundary[s] \in Texts /\ Len(Boundary[s]) = 4
         /\ Boundary[s][1] = Newline /\ Boundary[s][2] = Newline
         /\ Boundary[s][3] = Marker[s][1] /\ Boundary[s][4] = ":"
<1> DEFINE line == <<Newline, Newline>>
           tag == Marker[s]
<1>1. line \in Seq(Symbols) /\ Len(line) = 2 /\ line[1] = Newline /\ line[2] = Newline
  BY DEF Symbols
<1>2. tag \in Seq(Symbols) /\ Len(tag) = 2 /\ tag[2] = ":"
  BY MarkerFacts DEF Texts
<1>3. Boundary[s] = line \o tag
  BY DEF Boundary
<1> HIDE DEF line, tag
<1>4. /\ line \o tag \in Seq(Symbols) /\ Len(line \o tag) = Len(line) + Len(tag)
      /\ \A i \in 1..Len(line) : (line \o tag)[i] = line[i]
      /\ \A i \in 1..Len(tag) : (line \o tag)[Len(line) + i] = tag[i]
  <2>1. line \in Seq(Symbols) /\ tag \in Seq(Symbols)
    BY <1>1, <1>2
  <2> QED
    BY <2>1
<1>5. /\ (line \o tag)[1] = line[1] /\ (line \o tag)[2] = line[2]
      /\ (line \o tag)[2 + 1] = tag[1] /\ (line \o tag)[2 + 2] = tag[2]
  <2>1. 1 \in 1..2 /\ 2 \in 1..2
    OBVIOUS
  <2> QED
    BY <1>1, <1>2, <1>4, <2>1
<1>6. Boundary[s][3] = tag[1] /\ Boundary[s][4] = tag[2]
  <2>1. 2 + 1 = 3 /\ 2 + 2 = 4
    OBVIOUS
  <2> HIDE DEF Boundary
  <2> QED
    BY <1>1, <1>2, <1>3, <1>5, <2>1
<1> QED
  BY <1>1, <1>2, <1>3, <1>4, <1>5, <1>6 DEF Texts, tag

\* A tag of s stands at j, as far as the text goes.
Fits(u, j, s) ==
  /\ u[j] = Newline
  /\ j + 1 <= Len(u) => u[j + 1] = Newline
  /\ j + 2 <= Len(u) => u[j + 2] = Marker[s][1]
  /\ j + 3 <= Len(u) => u[j + 3] = ":"

LEMMA TextLen ==
  ASSUME NEW u \in Texts
  PROVE  u \in Seq(Symbols) /\ Len(u) \in Nat /\ DOMAIN u = 1..Len(u)
  BY DEF Texts

\* What is at j and behind it is the beginning of a boundary.
LEMMA EndFits ==
  ASSUME NEW u \in Texts, NEW j \in 1..Len(u), NEW s \in Sources,
         j + 3 >= Len(u), Fits(u, j, s)
  PROVE  IsPrefix(Drop(u, j - 1), Boundary[s])
<1> DEFINE d == Drop(u, j - 1)
           b == Boundary[s]
<1>1. j - 1 \in 0..Len(u) /\ u \in Seq(Symbols) /\ Len(u) \in Nat
  BY TextLen
<1>2. /\ d \in Seq(Symbols) /\ Len(d) = Len(u) - (j - 1)
      /\ \A i \in 1..(Len(u) - (j - 1)) : d[i] = u[(j - 1) + i]
  BY <1>1, DropFacts
<1>3. /\ b \in Seq(Symbols) /\ Len(b) = 4
      /\ b[1] = Newline /\ b[2] = Newline /\ b[3] = Marker[s][1] /\ b[4] = ":"
  BY BoundaryFacts DEF Texts
<1> HIDE DEF d, b
<1>4. ASSUME NEW i \in 1..Len(d) PROVE d[i] = b[i]
  <2>1. i \in {1, 2, 3, 4} /\ d[i] = u[j + i - 1] /\ j + i - 1 <= Len(u)
    BY <1>1, <1>2
  <2>2. CASE i = 1
    BY <1>3, <2>1, <2>2 DEF Fits
  <2>3. CASE i = 2
    BY <1>3, <2>1, <2>3 DEF Fits
  <2>4. CASE i = 3
    BY <1>3, <2>1, <2>4 DEF Fits
  <2>5. CASE i = 4
    BY <1>3, <2>1, <2>5 DEF Fits
  <2> QED
    BY <2>1, <2>2, <2>3, <2>4, <2>5
<1>5. Len(d) <= Len(b)
  BY <1>1, <1>2, <1>3
<1>6. IsPrefix(d, b)
  BY <1>2, <1>3, <1>4, <1>5, PrefixFacts
<1> QED
  BY <1>6 DEF d, b

\* A tag of a source is at a place exactly if its four symbols are there.
LEMMA TagAtFacts ==
  ASSUME NEW u \in Texts, NEW j \in 1..Len(u), NEW s \in Sources
  PROVE  TagAt(u, j, s) <=> j + 3 <= Len(u) /\ Fits(u, j, s)
<1> DEFINE d == Drop(u, j - 1)
           b == Boundary[s]
<1>1. j - 1 \in 0..Len(u) /\ u \in Seq(Symbols) /\ Len(u) \in Nat
  BY TextLen
<1>2. /\ d \in Seq(Symbols) /\ Len(d) = Len(u) - (j - 1)
      /\ \A i \in 1..(Len(u) - (j - 1)) : d[i] = u[(j - 1) + i]
  BY <1>1, DropFacts
<1>3. /\ b \in Seq(Symbols) /\ Len(b) = 4
      /\ b[1] = Newline /\ b[2] = Newline /\ b[3] = Marker[s][1] /\ b[4] = ":"
  BY BoundaryFacts DEF Texts
<1>4. TagAt(u, j, s) <=> IsPrefix(b, d)
  BY DEF TagAt
<1> HIDE DEF d, b
<1>5. IsPrefix(b, d) <=> 4 <= Len(d) /\ \A i \in 1..4 : b[i] = d[i]
  <2>1. IsPrefix(b, d) <=> Len(b) <= Len(d) /\ \A i \in 1..Len(b) : b[i] = d[i]
    <3>1. b \in Seq(Symbols) /\ d \in Seq(Symbols)
      BY <1>2, <1>3
    <3> QED
      BY <3>1, PrefixFacts
  <2> QED
    BY <1>3, <2>1
<1>6. 4 <= Len(d) <=> j + 3 <= Len(u)
  BY <1>1, <1>2
<1>7. ASSUME j + 3 <= Len(u) PROVE (\A i \in 1..4 : b[i] = d[i]) <=> Fits(u, j, s)
  <2>1. d[1] = u[j] /\ d[2] = u[j + 1] /\ d[3] = u[j + 2] /\ d[4] = u[j + 3]
    <3>1. 1 \in 1..(Len(u) - (j - 1)) /\ (j - 1) + 1 = j
      BY <1>1, <1>7
    <3>2. 2 \in 1..(Len(u) - (j - 1)) /\ (j - 1) + 2 = j + 1
      BY <1>1, <1>7
    <3>3. 3 \in 1..(Len(u) - (j - 1)) /\ (j - 1) + 3 = j + 2
      BY <1>1, <1>7
    <3>4. 4 \in 1..(Len(u) - (j - 1)) /\ (j - 1) + 4 = j + 3
      BY <1>1, <1>7
    <3> QED
      BY <1>2, <3>1, <3>2, <3>3, <3>4
  <2>2. j + 1 <= Len(u) /\ j + 2 <= Len(u)
    BY <1>1, <1>7
  <2>3. (\A i \in 1..4 : b[i] = d[i])
          <=> b[1] = d[1] /\ b[2] = d[2] /\ b[3] = d[3] /\ b[4] = d[4]
    <3>1. 1..4 = {1, 2, 3, 4}
      OBVIOUS
    <3> QED
      BY <3>1
  <2> QED
    BY <1>3, <1>7, <2>1, <2>2, <2>3 DEF Fits
<1> QED
  BY <1>4, <1>5, <1>6, <1>7

\* No place has the tags of two sources.
LEMMA OneSource ==
  ASSUME NEW u \in Texts, NEW j \in 1..Len(u), j + 3 <= Len(u), NEW s \in Sources,
         NEW t \in Sources, Fits(u, j, s), Fits(u, j, t)
  PROVE  s = t
<1>1. j + 2 <= Len(u)
  BY TextLen
<1> QED
  BY <1>1, MarkerFacts DEF Fits

\* Two tags do not share a symbol.
LEMMA TagsApart ==
  ASSUME NEW u \in Texts, NEW j \in 1..Len(u), j + 3 <= Len(u), NEW s \in Sources,
         NEW t \in Sources, Fits(u, j, s), NEW i \in (j + 1)..(j + 3)
  PROVE  ~ Fits(u, i, t)
<1>1. u[j] = Newline /\ u[j + 1] = Newline /\ u[j + 2] = Marker[s][1] /\ u[j + 3] = ":"
  BY TextLen DEF Fits
<1>2. Marker[s][1] # Newline /\ ":" # Newline
  BY MarkerFacts DEF Newline
<1>3. i = j + 1 \/ i = j + 2 \/ i = j + 3
  OBVIOUS
<1>4. CASE i = j + 1
  <2>1. i + 1 = j + 2 /\ i + 1 <= Len(u)
    BY <1>4, TextLen
  <2> QED
    BY <1>1, <1>2, <2>1 DEF Fits
<1>5. CASE i = j + 2
  BY <1>1, <1>2, <1>5 DEF Fits
<1>6. CASE i = j + 3
  BY <1>1, <1>2, <1>6 DEF Fits
<1> QED
  BY <1>3, <1>4, <1>5, <1>6

\* All that may become a tag is held back.
LEMMA HeldFacts ==
  ASSUME NEW u \in Texts
  PROVE  /\ Held(u) \in 0..Len(u)
         /\ \A j \in 1..Len(u), s \in Sources :
              Fits(u, j, s) /\ j + 3 >= Len(u) => Len(u) + 1 - j <= Held(u)
<1> DEFINE T == {0} \cup {n \in 1..Len(u) :
                            \E s \in Sources : IsPrefix(Drop(u, Len(u) - n), Boundary[s])}
<1>1. T \in SUBSET Nat /\ T # {} /\ Len(u) \in Nat /\ \A n \in T : n <= Len(u)
  BY TextLen
<1>2. Max(T) \in T /\ \A n \in T : n <= Max(T)
  BY <1>1, MaxFacts
<1>3. Held(u) = Max(T)
  BY DEF Held
<1>4. ASSUME NEW j \in 1..Len(u), NEW s \in Sources, Fits(u, j, s), j + 3 >= Len(u)
      PROVE  Len(u) + 1 - j \in T
  <2>1. IsPrefix(Drop(u, j - 1), Boundary[s])
    BY <1>4, EndFits
  <2>2. Len(u) - (Len(u) + 1 - j) = j - 1 /\ Len(u) + 1 - j \in 1..Len(u)
    BY <1>1
  <2> QED
    BY <2>1, <2>2
<1>5. Max(T) \in 0..Len(u)
  BY <1>1, <1>2
<1> HIDE DEF T
<1> QED
  BY <1>2, <1>3, <1>4, <1>5

-----------------------------------------------------------------------------
(* What is read of a text up to a place.                                   *)

Cells == [symbol : Symbols, source : Sources]

Read(u, m) == FlattenSeq([i \in 1..m |-> Seen(u, i)])

\* No tag begins at a, or behind it up to b.
TagFree(u, a, b) == \A j \in a..b, s \in Sources : ~ TagAt(u, j, s)

\* m is not in a tag.
Whole(u, m) == \A j \in 1..m, s \in Sources : TagAt(u, j, s) => j + 3 <= m

\* m is not in anything that may become a tag.
Clear(u, m) == \A j \in 1..m, s \in Sources : Fits(u, j, s) => j + 3 <= m

LEMMA ClearIsWhole ==
  ASSUME NEW u \in Texts, NEW m \in 0..Len(u), Clear(u, m)
  PROVE  Whole(u, m)
<1>1. \A j \in 1..m : j \in 1..Len(u)
  BY TextLen
<1> QED
  BY <1>1, TagAtFacts DEF Clear, Whole

LEMMA CellType ==
  ASSUME NEW x \in Symbols, NEW s \in Sources
  PROVE  Cell(x, s) \in Seq(Cells) /\ (x = Blank => Cell(x, s) = <<>>)
<1>1. [symbol |-> x, source |-> s] \in Cells
  BY DEF Cells
<1> QED
  BY <1>1 DEF Cell

\* The source of a place is that of the last tag up to it.
LEMMA SourceAtFacts ==
  ASSUME NEW u \in Texts, NEW i \in 0..Len(u)
  PROVE  \/ TagFree(u, 1, i) /\ SourceAt(u, i) = "general"
         \/ \E j \in 1..i : \E s \in Sources :
              TagAt(u, j, s) /\ TagFree(u, j + 1, i) /\ SourceAt(u, i) = s
<1> DEFINE tags == {j \in 1..i : \E s \in Sources : TagAt(u, j, s)}
<1>1. SourceAt(u, i) = IF tags = {} THEN "general"
                       ELSE CHOOSE s \in Sources : TagAt(u, Max(tags), s)
  BY DEF SourceAt
<1>2. CASE tags = {}
  BY <1>1, <1>2 DEF TagFree
<1>3. CASE tags # {}
  <2>1. i \in Nat /\ tags \in SUBSET Nat /\ \A n \in tags : n <= i
    BY TextLen
  <2>2. Max(tags) \in tags /\ \A n \in tags : n <= Max(tags)
    BY <1>3, <2>1, MaxFacts
  <2>3. PICK j \in 1..i : j = Max(tags) /\ \E s \in Sources : TagAt(u, j, s)
    BY <2>2
  <2>4. TagFree(u, j + 1, i)
    <3>1. \A k \in (j + 1)..i : k \in 1..i /\ ~ (k <= j)
      BY <2>1
    <3> QED
      BY <2>2, <2>3, <3>1 DEF TagFree
  <2> HIDE DEF tags
  <2>5. PICK s \in Sources : s = (CHOOSE t \in Sources : TagAt(u, j, t)) /\ TagAt(u, j, s)
    BY <2>3
  <2>6. SourceAt(u, i) = s
    BY <1>1, <1>3, <2>3, <2>5
  <2> QED
    BY <2>4, <2>5, <2>6
<1> QED
  BY <1>2, <1>3

LEMMA SourceAtType ==
  ASSUME NEW u \in Texts, NEW i \in 0..Len(u)
  PROVE  SourceAt(u, i) \in Sources
  BY SourceAtFacts DEF Sources

LEMMA SourceOfLastTag ==
  ASSUME NEW u \in Texts, NEW i \in 0..Len(u), NEW j \in 1..i, NEW s \in Sources,
         TagAt(u, j, s), TagFree(u, j + 1, i)
  PROVE  SourceAt(u, i) = s
<1>1. i \in Nat /\ Len(u) \in Nat /\ j \in 1..Len(u)
  BY TextLen
<1>2. PICK k \in 1..i : \E t \in Sources :
        TagAt(u, k, t) /\ TagFree(u, k + 1, i) /\ SourceAt(u, i) = t
  BY SourceAtFacts DEF TagFree
<1>3. PICK t \in Sources : TagAt(u, k, t) /\ TagFree(u, k + 1, i) /\ SourceAt(u, i) = t
  BY <1>2
<1>4. k = j
  <2>1. ~ (k \in (j + 1)..i) /\ ~ (j \in (k + 1)..i)
    BY <1>3 DEF TagFree
  <2> QED
    BY <1>1, <2>1
<1> QED
  BY <1>1, <1>3, <1>4, TagAtFacts, OneSource

LEMMA SourceWithoutTag ==
  ASSUME NEW u \in Texts, NEW i \in 0..Len(u), TagFree(u, 1, i)
  PROVE  SourceAt(u, i) = "general"
  BY SourceAtFacts DEF TagFree

\* Without a tag in between, a place has the source of the one before.
LEMMA SourceStays ==
  ASSUME NEW u \in Texts, NEW m \in 0..Len(u), NEW e \in m..Len(u), TagFree(u, m + 1, e)
  PROVE  SourceAt(u, e) = SourceAt(u, m)
<1>1. m \in Nat /\ e \in Nat /\ m <= e /\ e \in 0..Len(u)
  BY TextLen
<1>2. CASE TagFree(u, 1, m)
  <2>1. TagFree(u, 1, e)
    <3>1. \A j \in 1..e : j \in 1..m \/ j \in (m + 1)..e
      BY <1>1
    <3> QED
      BY <1>2, <3>1 DEF TagFree
  <2> QED
    BY <1>1, <1>2, <2>1, SourceWithoutTag
<1>3. CASE ~ TagFree(u, 1, m)
  <2>1. PICK j \in 1..m : \E s \in Sources :
          TagAt(u, j, s) /\ TagFree(u, j + 1, m) /\ SourceAt(u, m) = s
    BY <1>3, SourceAtFacts
  <2>2. TagFree(u, j + 1, e)
    <3>1. \A k \in (j + 1)..e : k \in (j + 1)..m \/ k \in (m + 1)..e
      BY <1>1
    <3> QED
      BY <2>1, <3>1 DEF TagFree
  <2>3. j \in 1..e
    BY <1>1
  <2> QED
    BY <1>1, <2>1, <2>2, <2>3, SourceOfLastTag
<1> QED
  BY <1>2, <1>3

LEMMA SeenType ==
  ASSUME NEW u \in Texts, NEW i \in 1..Len(u)
  PROVE  Seen(u, i) \in Seq(Cells)
<1>1. u[i] \in Symbols /\ i \in 0..Len(u)
  BY TextLen
<1>2. Cell(u[i], SourceAt(u, i)) \in Seq(Cells)
  BY <1>1, SourceAtType, CellType
<1> QED
  BY <1>2 DEF Seen

LEMMA SeensType ==
  ASSUME NEW u \in Texts, NEW m \in 0..Len(u)
  PROVE  /\ [i \in 1..m |-> Seen(u, i)] \in Seq(Seq(Cells))
         /\ Len([i \in 1..m |-> Seen(u, i)]) = m
<1>1. m \in Nat /\ \A i \in 1..m : i \in 1..Len(u)
  BY TextLen
<1>2. \A i \in 1..m : Seen(u, i) \in Seq(Cells)
  BY <1>1, SeenType
<1> QED
  BY <1>1, <1>2

\* What is read is shown.
LEMMA ReadType ==
  ASSUME NEW u \in Texts, NEW m \in 0..Len(u)
  PROVE  Read(u, m) \in Seq(Cells)
  BY SeensType, FlattenType DEF Read

\* One place more is read.
LEMMA ReadNext ==
  ASSUME NEW u \in Texts, NEW m \in 0..Len(u), m + 1 <= Len(u)
  PROVE  Read(u, m + 1) = Read(u, m) \o Seen(u, m + 1)
<1> DEFINE q == [i \in 1..m |-> Seen(u, i)]
           r == [i \in 1..(m + 1) |-> Seen(u, i)]
<1>1. m \in Nat /\ m + 1 \in 1..Len(u) /\ m + 1 \in 0..Len(u)
  BY TextLen
<1>2. q \in Seq(Seq(Cells)) /\ Len(q) = m /\ \A i \in 1..m : q[i] = Seen(u, i)
  BY SeensType
<1>3. r \in Seq(Seq(Cells)) /\ Len(r) = m + 1 /\ \A i \in 1..(m + 1) : r[i] = Seen(u, i)
  BY <1>1, SeensType
<1>4. Seen(u, m + 1) \in Seq(Cells)
  BY <1>1, SeenType
<1> HIDE DEF q, r
<1>5. /\ Append(q, Seen(u, m + 1)) \in Seq(Seq(Cells))
      /\ Len(Append(q, Seen(u, m + 1))) = m + 1
      /\ \A i \in 1..(m + 1) : Append(q, Seen(u, m + 1))[i] = Seen(u, i)
  BY <1>1, <1>2, <1>4
<1>6. r = Append(q, Seen(u, m + 1))
  BY <1>3, <1>5, SameSequence DEF AgreeUpTo
<1>7. FlattenSeq(r) = FlattenSeq(q) \o Seen(u, m + 1)
  BY <1>2, <1>4, <1>6, FlattenAppend
<1> QED
  BY <1>7 DEF q, r, Read

LEMMA ReadNone == \A u : Read(u, 0) = <<>>
<1> TAKE u
<1>1. [i \in 1..0 |-> Seen(u, i)] = <<>>
  OBVIOUS
<1> QED
  BY <1>1, FlattenEmpty DEF Read

\* Places of which nothing is shown.
LEMMA ReadNothing ==
  ASSUME NEW u \in Texts, NEW m \in 0..Len(u), NEW e \in m..Len(u),
         \A i \in (m + 1)..e : Seen(u, i) = <<>>
  PROVE  Read(u, e) = Read(u, m)
<1> DEFINE P == {n \in Nat : m + n <= e => Read(u, m + n) = Read(u, m)}
<1>1. m \in Nat /\ e \in Nat /\ Len(u) \in Nat /\ e <= Len(u) /\ m <= e
  BY TextLen
<1>2. 0 \in P
  BY <1>1
<1>3. ASSUME NEW n \in Nat, n \in P
      PROVE  n + 1 \in P
  <2> SUFFICES ASSUME m + (n + 1) <= e PROVE Read(u, m + (n + 1)) = Read(u, m)
    OBVIOUS
  <2>1. m + n \in 0..Len(u) /\ (m + n) + 1 <= Len(u) /\ (m + n) + 1 = m + (n + 1)
    BY <1>1
  <2>2. Read(u, (m + n) + 1) = Read(u, m + n) \o Seen(u, (m + n) + 1)
    BY <2>1, ReadNext
  <2>3. (m + n) + 1 \in (m + 1)..e
    BY <1>1, <2>1
  <2>4. Seen(u, (m + n) + 1) = <<>>
    BY <2>3
  <2>5. Read(u, m + n) \in Seq(Cells) /\ Read(u, m + n) = Read(u, m)
    BY <1>1, <1>3, <2>1, ReadType
  <2>6. Read(u, m + n) \o <<>> = Read(u, m + n)
    BY <2>5
  <2> QED
    BY <2>1, <2>2, <2>4, <2>5, <2>6
<1> HIDE DEF P
<1>4. Nat \subseteq P
  BY <1>2, <1>3, Induction
<1>5. e - m \in P /\ m + (e - m) = e
  BY <1>1, <1>4
<1> QED
  BY <1>5 DEF P

LEMMA ShownOfType ==
  ASSUME NEW w \in Texts, NEW s \in Sources
  PROVE  /\ [i \in DOMAIN w |-> Cell(w[i], s)] \in Seq(Seq(Cells))
         /\ Len([i \in DOMAIN w |-> Cell(w[i], s)]) = Len(w)
         /\ ShownOf(w, s) \in Seq(Cells)
<1> DEFINE q == [i \in 1..Len(w) |-> Cell(w[i], s)]
<1>1. Len(w) \in Nat /\ DOMAIN w = 1..Len(w) /\ \A i \in 1..Len(w) : w[i] \in Symbols
  BY TextLen
<1>2. \A i \in 1..Len(w) : Cell(w[i], s) \in Seq(Cells)
  BY <1>1, CellType
<1>3. q \in Seq(Seq(Cells)) /\ Len(q) = Len(w)
  BY <1>1, <1>2
<1>4. FlattenSeq(q) \in Seq(Cells)
  BY <1>3, FlattenType
<1> QED
  BY <1>1, <1>3, <1>4 DEF ShownOf

\* Places up to the next tag are shown with the source reached.
LEMMA ReadPlain ==
  ASSUME NEW u \in Texts, NEW m \in 2..Len(u), NEW e \in m..Len(u),
         Whole(u, m), TagFree(u, m + 1, e)
  PROVE  Read(u, e) = Read(u, m) \o ShownOf(SubSeq(u, m + 1, e), SourceAt(u, m))
<1> DEFINE w == SubSeq(u, m + 1, e)
           s == SourceAt(u, m)
           q == [i \in 1..m |-> Seen(u, i)]
           r == [i \in 1..e |-> Seen(u, i)]
           t == [i \in DOMAIN w |-> Cell(w[i], s)]
<1>1. /\ m \in Nat /\ e \in Nat /\ Len(u) \in Nat /\ 2 <= m /\ m <= e /\ e <= Len(u)
      /\ m \in 0..Len(u) /\ e \in 0..Len(u) /\ u \in Seq(Symbols)
  BY TextLen
<1>2. /\ w \in Texts /\ Len(w) = e - m
      /\ \A i \in 1..(e - m) : w[i] = u[m + i]
  <2>1. m + 1 \in Nat \ {0} /\ m + 1 <= e + 1 /\ e + 1 - (m + 1) = e - m
    BY <1>1
  <2>2. /\ w \in Seq(Symbols) /\ Len(w) = e + 1 - (m + 1)
        /\ \A i \in 1..(e + 1 - (m + 1)) : w[i] = u[m + 1 + i - 1]
    BY <1>1, <2>1, SubSeqFacts
  <2> QED
    BY <1>1, <2>1, <2>2 DEF Texts
<1>3. s \in Sources
  BY <1>1, SourceAtType
<1>4. q \in Seq(Seq(Cells)) /\ Len(q) = m /\ \A i \in 1..m : q[i] = Seen(u, i)
  BY <1>1, SeensType
<1>5. r \in Seq(Seq(Cells)) /\ Len(r) = e /\ \A i \in 1..e : r[i] = Seen(u, i)
  BY <1>1, SeensType
<1> HIDE DEF s, q, r
<1>6. t \in Seq(Seq(Cells)) /\ Len(t) = e - m /\ \A i \in 1..(e - m) : t[i] = Cell(u[m + i], s)
  <2> HIDE DEF w
  <2>1. DOMAIN w = 1..(e - m)
    BY <1>2, TextLen
  <2> QED
    BY <1>2, <1>3, <2>1, ShownOfType
<1>7. ASSUME NEW i \in (m + 1)..e PROVE Seen(u, i) = Cell(u[i], s)
  <2>1. ~ Tagged(u, i)
    <3>1. ASSUME NEW j \in 1..i, i <= j + 3, NEW x \in Sources, TagAt(u, j, x) PROVE FALSE
      <4>1. j \in 1..m \/ j \in (m + 1)..e
        BY <1>1
      <4>2. CASE j \in 1..m
        <5>1. j + 3 <= m
          BY <3>1, <4>2 DEF Whole
        <5> QED
          BY <1>1, <3>1, <5>1
      <4>3. CASE j \in (m + 1)..e
        BY <3>1, <4>3 DEF TagFree
      <4> QED
        BY <4>1, <4>2, <4>3
    <3> QED
      BY <3>1 DEF Tagged
  <2>2. SourceAt(u, i) = s
    <3>1. TagFree(u, m + 1, i) /\ i \in m..Len(u)
      <4>1. \A j \in (m + 1)..i : j \in (m + 1)..e
        BY <1>1
      <4> QED
        BY <1>1, <4>1 DEF TagFree
    <3> QED
      BY <1>1, <3>1, SourceStays DEF s
  <2>3. ~ (i <= 2)
    BY <1>1
  <2> QED
    BY <2>1, <2>2, <2>3 DEF Seen
<1> HIDE DEF t, w
<1>8. /\ q \o t \in Seq(Seq(Cells)) /\ Len(q \o t) = e
      /\ \A i \in 1..m : (q \o t)[i] = q[i]
      /\ \A i \in 1..(e - m) : (q \o t)[m + i] = t[i]
  <2> DEFINE X == Seq(Cells)
  <2>1. q \in Seq(X) /\ t \in Seq(X)
    BY <1>4, <1>6
  <2> HIDE DEF X
  <2>2. /\ q \o t \in Seq(X) /\ Len(q \o t) = Len(q) + Len(t)
        /\ \A i \in 1..Len(q) : (q \o t)[i] = q[i]
        /\ \A i \in 1..Len(t) : (q \o t)[Len(q) + i] = t[i]
    BY <2>1
  <2>3. Len(q) = m /\ Len(t) = e - m /\ m + (e - m) = e
    BY <1>1, <1>4, <1>6
  <2>4. Len(q \o t) = e
    BY <2>2, <2>3
  <2> QED
    BY <2>2, <2>3, <2>4 DEF X
<1>9. \A i \in 1..e : (q \o t)[i] = r[i]
  <2> TAKE i \in 1..e
  <2>1. CASE i <= m
    BY <1>1, <1>4, <1>5, <1>8, <2>1
  <2>2. CASE ~ (i <= m)
    <3>1. i \in (m + 1)..e /\ i - m \in 1..(e - m) /\ m + (i - m) = i
      BY <1>1, <2>2
    <3>2. (q \o t)[m + (i - m)] = t[i - m] /\ t[i - m] = Cell(u[m + (i - m)], s)
      BY <1>6, <1>8, <3>1
    <3>3. r[i] = Cell(u[i], s)
      BY <1>5, <1>7, <3>1
    <3> QED
      BY <3>1, <3>2, <3>3
  <2> QED
    BY <2>1, <2>2
<1>10. r = q \o t
  BY <1>5, <1>8, <1>9, SameSequence DEF AgreeUpTo
<1>11. FlattenSeq(r) = FlattenSeq(q) \o FlattenSeq(t)
  BY <1>4, <1>6, <1>10, FlattenConcat
<1> QED
  BY <1>11 DEF q, r, s, t, w, Read, ShownOf

Blanks(u, a, b) == \A i \in a..b : u[i] = Blank

\* A tag and the blanks behind it show nothing, and give its source.
LEMMA ReadTag ==
  ASSUME NEW u \in Texts, NEW m \in 0..Len(u), NEW j \in (m + 1)..Len(u), NEW s \in Sources,
         Clear(u, m), TagFree(u, m + 1, j - 1), TagAt(u, j, s),
         NEW e \in (j + 3)..Len(u), Blanks(u, j + 4, e)
  PROVE  /\ Read(u, e) = Read(u, j - 1)
         /\ SourceAt(u, e) = s
         /\ Clear(u, e)
<1>1. /\ m \in Nat /\ j \in Nat /\ e \in Nat /\ Len(u) \in Nat
      /\ m < j /\ j + 3 <= e /\ e <= Len(u) /\ e \in 0..Len(u)
      /\ j \in 1..Len(u) /\ j - 1 \in 0..Len(u) /\ e \in (j - 1)..Len(u)
  BY TextLen
<1>2. j + 3 <= Len(u) /\ Fits(u, j, s)
  BY <1>1, TagAtFacts
<1>3. ASSUME NEW i \in (j + 1)..e, NEW t \in Sources PROVE ~ Fits(u, i, t)
  <2>1. CASE i \in (j + 1)..(j + 3)
    BY <1>1, <1>2, <2>1, TagsApart
  <2>2. CASE ~ (i \in (j + 1)..(j + 3))
    <3>1. i \in (j + 4)..e
      BY <1>1, <2>2
    <3>2. u[i] = Blank /\ Blank # Newline
      BY <3>1 DEF Blanks, Blank, Newline
    <3> QED
      BY <3>2 DEF Fits
  <2> QED
    BY <2>1, <2>2
<1>4. TagFree(u, j + 1, e)
  <2>1. \A i \in (j + 1)..e : i \in 1..Len(u)
    BY <1>1
  <2> QED
    BY <1>3, <2>1, TagAtFacts DEF TagFree
<1>5. SourceAt(u, e) = s
  <2>1. j \in 1..e
    BY <1>1
  <2> QED
    BY <1>1, <1>4, <2>1, SourceOfLastTag
<1>6. Clear(u, e)
  <2> SUFFICES ASSUME NEW i \in 1..e, NEW t \in Sources, Fits(u, i, t)
               PROVE  i + 3 <= e
    BY DEF Clear
  <2>1. i \in 1..m \/ i \in (m + 1)..(j - 1) \/ i = j \/ i \in (j + 1)..e
    BY <1>1
  <2>2. CASE i \in 1..m
    <3>1. i + 3 <= m
      BY <2>2 DEF Clear
    <3> QED
      BY <1>1, <3>1
  <2>3. CASE i \in (m + 1)..(j - 1)
    <3>1. ~ TagAt(u, i, t)
      BY <2>3 DEF TagFree
    <3>2. i \in 1..Len(u) /\ i + 3 <= Len(u)
      BY <1>1, <2>3
    <3> QED
      BY <3>1, <3>2, TagAtFacts
  <2>4. CASE i = j
    BY <1>1, <2>4
  <2>5. CASE i \in (j + 1)..e
    BY <1>3, <2>5
  <2> QED
    BY <2>1, <2>2, <2>3, <2>4, <2>5
<1>7. ASSUME NEW i \in j..e PROVE Seen(u, i) = <<>>
  <2>1. CASE i <= j + 3
    <3>1. Tagged(u, i)
      <4>1. j \in 1..i
        BY <1>1
      <4> QED
        BY <2>1, <4>1 DEF Tagged
    <3> QED
      BY <3>1 DEF Seen
  <2>2. CASE ~ (i <= j + 3)
    <3>1. i \in (j + 4)..e /\ i \in 0..Len(u)
      BY <1>1, <2>2
    <3>2. u[i] = Blank /\ Blank \in Symbols /\ SourceAt(u, i) \in Sources
      BY <3>1, SourceAtType DEF Symbols, Blanks
    <3>3. Cell(u[i], SourceAt(u, i)) = <<>>
      BY <3>2, CellType
    <3> QED
      BY <3>3 DEF Seen
  <2> QED
    BY <2>1, <2>2
<1>8. Read(u, e) = Read(u, j - 1)
  <2>1. (j - 1) + 1 = j
    BY <1>1
  <2>2. \A i \in ((j - 1) + 1)..e : Seen(u, i) = <<>>
    BY <1>7, <2>1
  <2> QED
    BY <1>1, <2>2, ReadNothing
<1> QED
  BY <1>5, <1>6, <1>8

\* What has been read stays read when the text goes on.
LEMMA ReadOn ==
  ASSUME NEW u \in Texts, NEW c \in Texts, NEW m \in 0..Len(u), Clear(u, m)
  PROVE  /\ Read(u \o c, m) = Read(u, m)
         /\ SourceAt(u \o c, m) = SourceAt(u, m)
         /\ Clear(u \o c, m)
         /\ u \o c \in Texts /\ m \in 0..Len(u \o c)
<1> DEFINE v == u \o c
<1>1. /\ v \in Texts /\ Len(v) = Len(u) + Len(c) /\ Len(u) \in Nat /\ Len(c) \in Nat
      /\ \A i \in 1..Len(u) : v[i] = u[i]
  BY DEF Texts
<1>2. m \in Nat /\ m <= Len(u) /\ m \in 0..Len(v)
  BY <1>1
<1> HIDE DEF v
<1>3. ASSUME NEW j \in 1..m, NEW s \in Sources, Fits(v, j, s)
      PROVE  j + 3 <= m /\ Fits(u, j, s)
  <2>1. /\ j \in Nat /\ 1 <= j /\ j <= Len(u) /\ (j + 1 <= Len(u) => j + 1 <= Len(v))
        /\ (j + 2 <= Len(u) => j + 2 <= Len(v)) /\ (j + 3 <= Len(u) => j + 3 <= Len(v))
    BY <1>1, <1>2
  <2>2. /\ v[j] = u[j]
        /\ j + 1 <= Len(u) => v[j + 1] = u[j + 1]
        /\ j + 2 <= Len(u) => v[j + 2] = u[j + 2]
        /\ j + 3 <= Len(u) => v[j + 3] = u[j + 3]
    BY <1>1, <2>1
  <2>3. Fits(u, j, s)
    BY <1>3, <2>1, <2>2 DEF Fits
  <2> QED
    BY <2>3 DEF Clear
<1>4. Clear(v, m)
  BY <1>3 DEF Clear
<1>5. ASSUME NEW j \in 1..m, NEW s \in Sources PROVE TagAt(v, j, s) <=> TagAt(u, j, s)
  <2>1. j \in 1..Len(u) /\ j \in 1..Len(v)
    BY <1>1, <1>2
  <2>2. CASE j + 3 <= m
    <3>1. j + 3 <= Len(u) /\ j + 3 <= Len(v)
      BY <1>1, <1>2, <2>2
    <3>2. v[j] = u[j] /\ v[j + 1] = u[j + 1] /\ v[j + 2] = u[j + 2] /\ v[j + 3] = u[j + 3]
      BY <1>1, <2>1, <3>1
    <3>3. Fits(v, j, s) <=> Fits(u, j, s)
      BY <1>1, <2>1, <3>1, <3>2 DEF Fits
    <3> QED
      BY <1>1, <2>1, <3>1, <3>3, TagAtFacts
  <2>3. CASE ~ (j + 3 <= m)
    <3>1. ~ Fits(v, j, s) /\ ~ Fits(u, j, s)
      BY <1>3, <2>3 DEF Clear
    <3> QED
      BY <1>1, <2>1, <3>1, TagAtFacts
  <2> QED
    BY <2>2, <2>3
<1>6. ASSUME NEW i \in 0..m PROVE SourceAt(v, i) = SourceAt(u, i)
  <2>1. i \in 0..Len(u) /\ i \in 0..Len(v) /\ \A j \in 1..i : j \in 1..m
    BY <1>1, <1>2
  <2>2. CASE TagFree(u, 1, i)
    <3>1. TagFree(v, 1, i)
      BY <1>5, <2>1, <2>2 DEF TagFree
    <3> QED
      BY <1>1, <2>1, <2>2, <3>1, SourceWithoutTag
  <2>3. CASE ~ TagFree(u, 1, i)
    <3>1. PICK j \in 1..i : \E s \in Sources :
            TagAt(u, j, s) /\ TagFree(u, j + 1, i) /\ SourceAt(u, i) = s
      BY <2>1, <2>3, SourceAtFacts
    <3>2. PICK s \in Sources : TagAt(u, j, s) /\ TagFree(u, j + 1, i) /\ SourceAt(u, i) = s
      BY <3>1
    <3>3. TagAt(v, j, s)
      BY <1>5, <2>1, <3>2
    <3>4. TagFree(v, j + 1, i)
      <4>1. \A k \in (j + 1)..i : k \in 1..m
        BY <1>2
      <4> QED
        BY <1>5, <3>2, <4>1 DEF TagFree
    <3>5. SourceAt(v, i) = s
      BY <1>1, <2>1, <3>3, <3>4, SourceOfLastTag
    <3> QED
      BY <3>2, <3>5
  <2> QED
    BY <2>2, <2>3
<1>7. ASSUME NEW i \in 1..m PROVE Seen(v, i) = Seen(u, i)
  <2>1. \A j \in 1..i : j \in 1..m
    BY <1>2
  <2>2. Tagged(v, i) <=> Tagged(u, i)
    BY <1>5, <2>1 DEF Tagged
  <2>3. v[i] = u[i] /\ SourceAt(v, i) = SourceAt(u, i)
    BY <1>1, <1>2, <1>6
  <2> QED
    BY <2>2, <2>3 DEF Seen
<1>8. Read(v, m) = Read(u, m)
  <2>1. [i \in 1..m |-> Seen(v, i)] = [i \in 1..m |-> Seen(u, i)]
    BY <1>7
  <2> QED
    BY <2>1 DEF Read
<1>9. SourceAt(v, m) = SourceAt(u, m)
  BY <1>2, <1>6
<1> QED
  BY <1>1, <1>2, <1>4, <1>8, <1>9 DEF v

-----------------------------------------------------------------------------
(***************************************************************************)
(* feed's loop.  Every round behind a tag has a shorter buffer, so there   *)
(* is a function that solves the equation of Split, and Split solves it.   *)
(***************************************************************************)

LEMMA ParserFields ==
  ASSUME NEW p \in Parsers
  PROVE  /\ p.buffer \in Texts /\ p.source \in Sources \cup {NoSource}
         /\ p = [buffer |-> p.buffer, source |-> p.source]
         /\ p.source # NoSource => p.source \in Sources
  BY DEF Parsers

\* Split at a text without a tag.
LEMMA SplitWithoutTag ==
  ASSUME NEW p \in Parsers, p.source # NoSource, TagFree(p.buffer, 1, Len(p.buffer))
  PROVE  \A f : SplitBy(p, f) =
                [out    |-> Token(p.source, SubSeq(p.buffer, 1, Len(p.buffer) - Held(p.buffer))),
                 parser |-> [p EXCEPT !.buffer =
                                        Drop(@, Len(p.buffer) - Held(p.buffer))]]
<1>1. DOMAIN p.buffer = 1..Len(p.buffer)
  BY ParserFields, TextLen
<1>2. {s \in Sources : Occurrences(Boundary[s], p.buffer) # {}} = {}
  BY <1>1 DEF TagFree, TagAt, Occurrences
<1> QED
  BY <1>2, Zenon DEF SplitBy

\* The first tag: where it is, of which source, and how many blanks follow.
FirstTag(w, j, s, k) ==
  /\ TagAt(w, j, s)
  /\ TagFree(w, 1, j - 1)
  /\ j + 3 + k <= Len(w)
  /\ Blanks(w, j + 4, j + 3 + k)

\* Split at a text with a tag.
LEMMA SplitAtTag ==
  ASSUME NEW p \in Parsers, p.source # NoSource, ~ TagFree(p.buffer, 1, Len(p.buffer))
  PROVE  \E j \in 1..Len(p.buffer) : \E s \in Sources : \E k \in Nat :
           /\ FirstTag(p.buffer, j, s, k)
           /\ \A f : SplitBy(p, f) =
                [f[[source |-> s, buffer |-> Drop(p.buffer, j + 3 + k)]]
                   EXCEPT !.out = Token(p.source, SubSeq(p.buffer, 1, j - 1)) \o @]
<1> DEFINE w == p.buffer
           places(s) == Occurrences(Boundary[s], w)
           first(s) == Min(places(s))
           found == {s \in Sources : places(s) # {}}
           best == CHOOSE s \in found : \A t \in found : first(s) <= first(t)
<1>1. w \in Texts /\ w \in Seq(Symbols) /\ Len(w) \in Nat /\ DOMAIN w = 1..Len(w)
  BY ParserFields, TextLen
<1>2. \A s \in Sources : places(s) = {j \in 1..Len(w) : TagAt(w, j, s)}
  BY <1>1 DEF Occurrences, TagAt
<1>3. found # {}
  BY <1>2 DEF TagFree
<1>4. \A s \in found : /\ first(s) \in 1..Len(w) /\ TagAt(w, first(s), s)
                       /\ \A j \in 1..Len(w) : TagAt(w, j, s) => first(s) <= j
  <2> TAKE s \in found
  <2>1. places(s) # {} /\ places(s) \in SUBSET Nat /\ s \in Sources
    BY <1>2
  <2>2. first(s) \in places(s) /\ \A j \in places(s) : first(s) <= j
    BY <2>1, MinFacts
  <2> HIDE DEF places, first
  <2> QED
    BY <1>2, <2>1, <2>2
<1> HIDE DEF places, first
<1>5. best \in found /\ \A t \in found : first(best) <= first(t)
  <2>1. \E s \in found : \A t \in found : first(s) <= first(t)
    <3>1. PICK s \in found : TRUE
      BY <1>3
    <3>2. CASE \A t \in found : first(s) <= first(t)
      BY <3>2
    <3>3. CASE ~ \A t \in found : first(s) <= first(t)
      <4>1. PICK t \in found : ~ (first(s) <= first(t))
        BY <3>3
      <4>2. first(s) \in Nat /\ first(t) \in Nat /\ first(t) <= first(s)
        BY <1>4, <4>1
      <4>3. \A x \in found : x = s \/ x = t
        <5>1. s # t
          BY <4>1, <4>2
        <5> QED
          BY <5>1 DEF Sources
      <4> QED
        BY <4>2, <4>3
    <3> QED
      BY <3>2, <3>3
  <2> QED
    BY <2>1
<1> DEFINE j == first(best)
           behind == Drop(w, j - 1 + Len(Boundary[best]))
<1>6. /\ j \in 1..Len(w) /\ best \in Sources /\ TagAt(w, j, best)
      /\ j + 3 <= Len(w) /\ TagFree(w, 1, j - 1)
  <2>1. j \in 1..Len(w) /\ best \in Sources /\ TagAt(w, j, best)
    BY <1>4, <1>5
  <2>2. j + 3 <= Len(w)
    BY <1>1, <2>1, TagAtFacts
  <2>3. ASSUME NEW i \in 1..(j - 1), NEW t \in Sources, TagAt(w, i, t) PROVE FALSE
    <3>1. i \in 1..Len(w) /\ i < j
      BY <1>1, <2>1
    <3>2. t \in found /\ first(t) <= i
      BY <1>2, <1>4, <2>3, <3>1
    <3>3. first(t) \in Nat /\ j <= first(t)
      BY <1>4, <1>5, <3>2
    <3> QED
      BY <2>1, <3>1, <3>2, <3>3
  <2> QED
    BY <2>1, <2>2, <2>3 DEF TagFree
<1>7. \A f : SplitBy(p, f) =
        [f[[source |-> best, buffer |-> StripLeft(behind, {Blank})]]
           EXCEPT !.out = Token(p.source, SubSeq(w, 1, j - 1)) \o @]
  BY <1>3, Zenon DEF SplitBy, first, places
<1>8. behind = Drop(w, j + 3) /\ j + 3 \in 0..Len(w)
  <2> HIDE DEF j, best
  <2>1. Len(Boundary[best]) = 4 /\ j \in Int
    BY <1>6, BoundaryFacts
  <2>2. j - 1 + Len(Boundary[best]) = j + 3
    BY <2>1
  <2> QED
    BY <1>6, <2>2
<1> HIDE DEF w, j, best
<1>9. /\ Drop(w, j + 3) \in Seq(Symbols) /\ Len(Drop(w, j + 3)) = Len(w) - (j + 3)
      /\ \A i \in 1..(Len(w) - (j + 3)) : Drop(w, j + 3)[i] = w[j + 3 + i]
  BY <1>1, <1>8, DropFacts
<1>10. PICK k \in 0..(Len(w) - (j + 3)) :
         /\ StripLeft(behind, {Blank}) = Drop(behind, k)
         /\ \A i \in 1..k : behind[i] = Blank
  <2>1. PICK b \in Seq(Symbols) : b = behind /\ Len(b) = Len(w) - (j + 3)
    BY <1>8, <1>9
  <2>2. \E k \in 0..Len(b) : /\ StripLeft(b, {Blank}) = Drop(b, k)
                              /\ \A i \in 1..k : b[i] \in {Blank}
    BY <2>1, StripLeftFacts
  <2> QED
    BY <2>1, <2>2
<1>11. Drop(behind, k) = Drop(w, j + 3 + k)
  BY <1>1, <1>8, DropDrop
<1>12. FirstTag(w, j, best, k)
  <2>1. j + 3 + k <= Len(w) /\ k \in Nat
    BY <1>1, <1>6, <1>10
  <2>2. ASSUME NEW i \in (j + 4)..(j + 3 + k) PROVE w[i] = Blank
    <3>1. i - (j + 3) \in 1..k /\ i - (j + 3) \in 1..(Len(w) - (j + 3)) /\ j + 3 + (i - (j + 3)) = i
      BY <1>1, <1>6, <2>1
    <3>2. behind[i - (j + 3)] = Blank /\ behind[i - (j + 3)] = w[j + 3 + (i - (j + 3))]
      BY <1>8, <1>9, <1>10, <3>1
    <3> QED
      BY <3>1, <3>2
  <2> QED
    BY <1>6, <2>1, <2>2 DEF FirstTag, Blanks
<1>13. \A f : SplitBy(p, f) =
         [f[[source |-> best, buffer |-> Drop(w, j + 3 + k)]]
            EXCEPT !.out = Token(p.source, SubSeq(w, 1, j - 1)) \o @]
  BY <1>7, <1>10, <1>11, Zenon
<1> HIDE DEF behind
<1>14. k \in Nat
  OBVIOUS
<1> QED
  BY <1>6, <1>12, <1>13, <1>14, Zenon DEF w

Small(n) == {p \in Parsers : Len(p.buffer) < n}

\* A round looks at shorter buffers only.
LEMMA SplitByLocal ==
  ASSUME NEW p \in Parsers, NEW f, NEW g, \A q \in Small(Len(p.buffer)) : f[q] = g[q]
  PROVE  SplitBy(p, f) = SplitBy(p, g)
<1>1. CASE p.source = NoSource
  BY <1>1, Zenon DEF SplitBy
<1>2. CASE p.source # NoSource /\ TagFree(p.buffer, 1, Len(p.buffer))
  <2>1. PICK r : \A h : SplitBy(p, h) = r
    BY <1>2, SplitWithoutTag
  <2> QED
    BY <2>1
<1>3. CASE p.source # NoSource /\ ~ TagFree(p.buffer, 1, Len(p.buffer))
  <2>1. PICK j \in 1..Len(p.buffer), s \in Sources, k \in Nat :
          /\ FirstTag(p.buffer, j, s, k)
          /\ \A h : SplitBy(p, h) =
               [h[[source |-> s, buffer |-> Drop(p.buffer, j + 3 + k)]]
                  EXCEPT !.out = Token(p.source, SubSeq(p.buffer, 1, j - 1)) \o @]
    BY <1>3, SplitAtTag
  <2> DEFINE q == [source |-> s, buffer |-> Drop(p.buffer, j + 3 + k)]
  <2>2. q \in Small(Len(p.buffer))
    <3>1. p.buffer \in Seq(Symbols) /\ Len(p.buffer) \in Nat
      BY ParserFields, TextLen
    <3>2. j + 3 + k \in 0..Len(p.buffer)
      BY <2>1, <3>1 DEF FirstTag
    <3>3. /\ Drop(p.buffer, j + 3 + k) \in Seq(Symbols)
          /\ Len(Drop(p.buffer, j + 3 + k)) = Len(p.buffer) - (j + 3 + k)
      BY <3>1, <3>2, DropFacts
    <3>4. Len(p.buffer) - (j + 3 + k) < Len(p.buffer)
      BY <3>1
    <3>5. q \in Parsers
      BY <3>3 DEF Parsers, Texts
    <3> QED
      BY <3>3, <3>4, <3>5 DEF Small
  <2>3. f[q] = g[q]
    BY <2>2
  <2>4. \A h : SplitBy(p, h) =
          [h[q] EXCEPT !.out = Token(p.source, SubSeq(p.buffer, 1, j - 1)) \o @]
    BY <2>1, Zenon
  <2> HIDE DEF q
  <2> QED
    BY <2>3, <2>4, Zenon
<1> QED
  BY <1>1, <1>2, <1>3

SplitsUpTo(f, n) == f = [p \in Small(n) |-> SplitBy(p, f)]

\* The equation, below a length.
LEMMA SplitsAt ==
  ASSUME NEW f, NEW n, SplitsUpTo(f, n), NEW p \in Small(n)
  PROVE  f[p] = SplitBy(p, f)
  BY DEF SplitsUpTo

\* For each length there is a function that solves the equation below it.
LEMMA SplitsExist == \A n \in Nat : \E f : SplitsUpTo(f, n)
<1> DEFINE P == {n \in Nat : \E f : SplitsUpTo(f, n)}
<1>1. 0 \in P
  <2>1. Small(0) = {}
    BY ParserFields, TextLen DEF Small
  <2>2. SplitsUpTo([p \in {} |-> p], 0)
    BY <2>1 DEF SplitsUpTo
  <2> QED
    BY <2>2
<1>2. ASSUME NEW n \in Nat, n \in P
      PROVE  n + 1 \in P
  <2>1. PICK f : SplitsUpTo(f, n)
    BY <1>2
  <2> DEFINE g == [p \in Small(n + 1) |-> IF p \in Small(n) THEN f[p] ELSE SplitBy(p, f)]
  <2>2. ASSUME NEW p \in Small(n + 1) PROVE g[p] = SplitBy(p, g)
    <3>1. p \in Parsers /\ Len(p.buffer) \in Nat /\ Len(p.buffer) <= n
      BY ParserFields, TextLen DEF Small
    <3>2. \A q \in Small(Len(p.buffer)) : q \in Small(n) /\ q \in Small(n + 1)
      BY <3>1, ParserFields, TextLen DEF Small
    <3>3. \A q \in Small(Len(p.buffer)) : f[q] = g[q]
      BY <3>2
    <3>4. g[p] = SplitBy(p, f)
      BY <2>1, SplitsAt
    <3> HIDE DEF g
    <3>5. SplitBy(p, f) = SplitBy(p, g)
      BY <3>1, <3>3, SplitByLocal
    <3> QED
      BY <3>4, <3>5
  <2>3. g = [p \in Small(n + 1) |-> SplitBy(p, g)]
    <3> DEFINE h == [p \in Small(n + 1) |-> SplitBy(p, g)]
    <3>1. \A p \in Small(n + 1) : g[p] = h[p]
      BY <2>2
    <3> QED
      BY <3>1
  <2> HIDE DEF g
  <2> QED
    BY <2>3 DEF SplitsUpTo
<1> HIDE DEF P
<1>3. Nat \subseteq P
  BY <1>1, <1>2, Induction
<1> QED
  BY <1>3 DEF P

\* Any two agree where both are defined.
LEMMA SplitsAgree ==
  ASSUME NEW n \in Nat, NEW m \in Nat, NEW f, SplitsUpTo(f, n), NEW g, SplitsUpTo(g, m),
         NEW p \in Parsers, p \in Small(n), p \in Small(m)
  PROVE  f[p] = g[p]
<1> DEFINE P == {k \in Nat : \A q \in Small(n) \cap Small(m) :
                               Len(q.buffer) = k => f[q] = g[q]}
<1>1. ASSUME NEW k \in Nat, \A i \in Nat : i < k => i \in P
      PROVE  k \in P
  <2> SUFFICES ASSUME NEW q \in Small(n) \cap Small(m), Len(q.buffer) = k
               PROVE  f[q] = g[q]
    OBVIOUS
  <2>1. q \in Parsers /\ k < n /\ k < m
    BY DEF Small
  <2>2. ASSUME NEW r \in Small(Len(q.buffer)) PROVE f[r] = g[r]
    <3>1. r \in Parsers /\ Len(r.buffer) \in Nat /\ Len(r.buffer) < k
      BY ParserFields, TextLen DEF Small
    <3>2. r \in Small(n) \cap Small(m)
      BY <2>1, <3>1 DEF Small
    <3> QED
      BY <1>1, <3>1, <3>2
  <2>3. SplitBy(q, f) = SplitBy(q, g)
    BY <2>1, <2>2, SplitByLocal
  <2> QED
    BY <2>3, SplitsAt
<1> HIDE DEF P
<1>2. Nat \subseteq P
  BY <1>1, CompleteInduction
<1>3. Len(p.buffer) \in Nat
  BY ParserFields, TextLen
<1> QED
  BY <1>2, <1>3 DEF P

\* Hence Split solves its equation everywhere.
LEMMA SplitEquation == \A p \in Parsers : Split[p] = SplitBy(p, Split)
<1> DEFINE upto(n) == CHOOSE f : SplitsUpTo(f, n)
           F == [p \in Parsers |-> upto(Len(p.buffer) + 1)[p]]
           G == [p \in Parsers |-> SplitBy(p, F)]
<1>1. \A n \in Nat : SplitsUpTo(upto(n), n)
  BY SplitsExist
<1> HIDE DEF upto
<1>2. ASSUME NEW p \in Parsers PROVE F[p] = SplitBy(p, F)
  <2> DEFINE n == Len(p.buffer) + 1
             f == upto(n)
  <2>1. Len(p.buffer) \in Nat /\ n \in Nat /\ p \in Small(n)
    BY ParserFields, TextLen DEF Small
  <2>2. SplitsUpTo(f, n) /\ F[p] = f[p]
    BY <1>1, <2>1
  <2>3. ASSUME NEW q \in Small(Len(p.buffer)) PROVE F[q] = f[q]
    <3>1. /\ q \in Parsers /\ Len(q.buffer) \in Nat /\ Len(q.buffer) + 1 \in Nat
          /\ q \in Small(n) /\ q \in Small(Len(q.buffer) + 1)
      BY <2>1, ParserFields, TextLen DEF Small
    <3>2. SplitsUpTo(upto(Len(q.buffer) + 1), Len(q.buffer) + 1)
      BY <1>1, <3>1
    <3>3. F[q] = upto(Len(q.buffer) + 1)[q]
      BY <3>1
    <3> HIDE DEF f, n, F
    <3> QED
      BY <2>1, <2>2, <3>1, <3>2, <3>3, SplitsAgree
  <2> HIDE DEF f, n, F
  <2>4. SplitBy(p, F) = SplitBy(p, f)
    BY <2>3, SplitByLocal
  <2>5. f[p] = SplitBy(p, f)
    BY <2>1, <2>2, SplitsAt
  <2> QED
    BY <2>2, <2>4, <2>5
<1>3. F = G
  <2>1. \A p \in Parsers : F[p] = G[p]
    BY <1>2
  <2> QED
    BY <2>1
<1>4. \E h : h = [p \in Parsers |-> SplitBy(p, h)]
  <2>1. F = [p \in Parsers |-> SplitBy(p, F)]
    BY <1>3
  <2> HIDE DEF F
  <2> QED
    BY <2>1
<1>5. Split = [p \in Parsers |-> SplitBy(p, Split)]
  BY <1>4, Zenon DEF Split
<1> QED
  BY <1>5

-----------------------------------------------------------------------------
(* What tokens show.                                                       *)

ChatTokens == [source : Sources, text : Texts]

LEMMA TokenType ==
  ASSUME NEW s \in Sources, NEW w \in Texts
  PROVE  /\ Token(s, w) \in Tokens
         /\ Token(s, w) = <<>> <=> w = <<>>
         /\ w # <<>> => Token(s, w) = <<[source |-> s, text |-> w]>>
<1>1. [source |-> s, text |-> w] \in ChatTokens
  BY DEF ChatTokens
<1>2. <<[source |-> s, text |-> w]>> \in Seq(ChatTokens) /\ <<>> \in Seq(ChatTokens)
  BY <1>1
<1> QED
  BY <1>2 DEF Token, Tokens, ChatTokens

\* What a token shows, and that it is shown.
LEMMA ShownPieces ==
  ASSUME NEW q \in Tokens
  PROVE  /\ [k \in DOMAIN q |-> ShownOf(q[k].text, q[k].source)] \in Seq(Seq(Cells))
         /\ Len([k \in DOMAIN q |-> ShownOf(q[k].text, q[k].source)]) = Len(q)
         /\ Shown(q) \in Seq(Cells)
<1> DEFINE r == [k \in 1..Len(q) |-> ShownOf(q[k].text, q[k].source)]
<1>1. Len(q) \in Nat /\ DOMAIN q = 1..Len(q) /\ \A k \in 1..Len(q) : q[k] \in ChatTokens
  <2>1. q \in Seq(ChatTokens)
    BY DEF Tokens, ChatTokens
  <2> QED
    BY <2>1
<1>2. \A k \in 1..Len(q) : q[k].text \in Texts /\ q[k].source \in Sources
  BY <1>1 DEF ChatTokens
<1>3. \A k \in 1..Len(q) : ShownOf(q[k].text, q[k].source) \in Seq(Cells)
  BY <1>2, ShownOfType
<1>4. r \in Seq(Seq(Cells)) /\ Len(r) = Len(q)
  BY <1>1, <1>3
<1>5. FlattenSeq(r) \in Seq(Cells)
  BY <1>4, FlattenType
<1> QED
  BY <1>1, <1>4, <1>5 DEF Shown

\* Tokens show what each shows, one behind the other.
LEMMA ShownConcat ==
  ASSUME NEW q \in Tokens, NEW r \in Tokens
  PROVE  Shown(q \o r) = Shown(q) \o Shown(r) /\ q \o r \in Tokens
<1> DEFINE X == Seq(Cells)
           t == q \o r
           sq == [k \in DOMAIN q |-> ShownOf(q[k].text, q[k].source)]
           sr == [k \in DOMAIN r |-> ShownOf(r[k].text, r[k].source)]
           st == [k \in DOMAIN t |-> ShownOf(t[k].text, t[k].source)]
<1>1. /\ t \in Tokens /\ Len(t) = Len(q) + Len(r) /\ Len(q) \in Nat /\ Len(r) \in Nat
      /\ \A i \in 1..Len(q) : t[i] = q[i]
      /\ \A i \in 1..Len(r) : t[Len(q) + i] = r[i]
      /\ DOMAIN q = 1..Len(q) /\ DOMAIN r = 1..Len(r) /\ DOMAIN t = 1..Len(t)
  BY DEF Tokens
<1> HIDE DEF t
<1>2. sq \in Seq(X) /\ Len(sq) = Len(q)
      /\ \A k \in 1..Len(q) : sq[k] = ShownOf(q[k].text, q[k].source)
  BY <1>1, ShownPieces
<1>3. sr \in Seq(X) /\ Len(sr) = Len(r)
      /\ \A k \in 1..Len(r) : sr[k] = ShownOf(r[k].text, r[k].source)
  BY <1>1, ShownPieces
<1>4. st \in Seq(X) /\ Len(st) = Len(t)
      /\ \A k \in 1..Len(t) : st[k] = ShownOf(t[k].text, t[k].source)
  BY <1>1, ShownPieces
<1> HIDE DEF sq, sr, st, X
<1>5. /\ sq \o sr \in Seq(X) /\ Len(sq \o sr) = Len(sq) + Len(sr)
      /\ \A i \in 1..Len(sq) : (sq \o sr)[i] = sq[i]
      /\ \A i \in 1..Len(sr) : (sq \o sr)[Len(sq) + i] = sr[i]
  <2>1. sq \in Seq(X) /\ sr \in Seq(X)
    BY <1>2, <1>3
  <2> QED
    BY <2>1
<1>6. ASSUME NEW k \in 1..Len(t) PROVE st[k] = (sq \o sr)[k]
  <2>1. CASE k <= Len(q)
    BY <1>1, <1>2, <1>4, <1>5, <2>1
  <2>2. CASE ~ (k <= Len(q))
    <3>1. k - Len(q) \in 1..Len(r) /\ Len(q) + (k - Len(q)) = k
      BY <1>1, <2>2
    <3>2. t[Len(q) + (k - Len(q))] = r[k - Len(q)]
      BY <1>1, <3>1
    <3>3. (sq \o sr)[Len(q) + (k - Len(q))] = sr[k - Len(q)]
      BY <1>2, <1>3, <1>5, <3>1
    <3>4. t[k] = r[k - Len(q)] /\ (sq \o sr)[k] = sr[k - Len(q)]
      BY <3>1, <3>2, <3>3
    <3> QED
      BY <1>3, <1>4, <3>1, <3>4
  <2> QED
    BY <1>1, <2>1, <2>2
<1>7. st = sq \o sr
  <2>1. Len(st) = Len(sq \o sr) /\ AgreeUpTo(st, sq \o sr, Len(st))
    BY <1>1, <1>2, <1>3, <1>4, <1>5, <1>6 DEF AgreeUpTo
  <2> QED
    BY <1>4, <1>5, <2>1, SameSequence
<1>8. FlattenSeq(sq \o sr) = FlattenSeq(sq) \o FlattenSeq(sr)
  BY <1>2, <1>3, FlattenConcat DEF X
<1>9. Shown(t) = FlattenSeq(st) /\ Shown(q) = FlattenSeq(sq) /\ Shown(r) = FlattenSeq(sr)
  BY DEF Shown, st, sq, sr
<1>10. Shown(t) = Shown(q) \o Shown(r)
  BY <1>7, <1>8, <1>9
<1> QED
  BY <1>1, <1>10 DEF t

LEMMA ShownNone == Shown(<<>>) = <<>> /\ <<>> \in Tokens
<1>1. [k \in DOMAIN <<>> |-> ShownOf((<<>>)[k].text, (<<>>)[k].source)] = <<>>
  OBVIOUS
<1> QED
  BY <1>1, FlattenEmpty DEF Shown, Tokens

LEMMA ShownOfNone == \A s : ShownOf(<<>>, s) = <<>>
<1> TAKE s
<1>1. [i \in DOMAIN <<>> |-> Cell((<<>>)[i], s)] = <<>>
  OBVIOUS
<1> QED
  BY <1>1, FlattenEmpty DEF ShownOf

\* A token that would be empty is not sent and would show nothing.
LEMMA ShownToken ==
  ASSUME NEW s \in Sources, NEW w \in Texts
  PROVE  Shown(Token(s, w)) = ShownOf(w, s)
<1>1. CASE w = <<>>
  BY <1>1, TokenType, ShownNone, ShownOfNone
<1>2. CASE w # <<>>
  <2> DEFINE x == [source |-> s, text |-> w]
             q == <<x>>
  <2>1. Token(s, w) = q
    BY <1>2, TokenType
  <2>2. [k \in DOMAIN q |-> ShownOf(q[k].text, q[k].source)] = <<ShownOf(w, s)>>
    <3>1. DOMAIN q = 1..1 /\ q[1].text = w /\ q[1].source = s
      OBVIOUS
    <3> HIDE DEF q
    <3>2. \A k \in 1..1 : ShownOf(q[k].text, q[k].source) = ShownOf(w, s)
      BY <3>1
    <3>3. [k \in 1..1 |-> ShownOf(q[k].text, q[k].source)] = [k \in 1..1 |-> ShownOf(w, s)]
      BY <3>2
    <3>4. [k \in 1..1 |-> ShownOf(w, s)] = <<ShownOf(w, s)>>
      OBVIOUS
    <3> QED
      BY <3>1, <3>3, <3>4
  <2> HIDE DEF q
  <2>3. Shown(q) = FlattenSeq(<<ShownOf(w, s)>>)
    BY <2>2 DEF Shown
  <2>4. FlattenSeq(<<ShownOf(w, s)>>) = ShownOf(w, s)
    BY ShownOfType, FlattenOne
  <2> QED
    BY <2>1, <2>3, <2>4
<1> QED
  BY <1>1, <1>2

LEMMA SendToken ==
  ASSUME NEW q \in Tokens, NEW s \in Sources, NEW w \in Texts
  PROVE  /\ q \o Token(s, w) \in Tokens
         /\ Shown(q \o Token(s, w)) = Shown(q) \o ShownOf(w, s)
  BY TokenType, ShownConcat, ShownToken

-----------------------------------------------------------------------------
(* Tags in what is left of a text.                                         *)

\* A tag in the rest of a text is one of the text, and the other way round.
LEMMA DropFits ==
  ASSUME NEW u \in Texts, NEW m \in 0..Len(u), NEW j \in 1..(Len(u) - m), NEW s \in Sources
  PROVE  /\ Fits(Drop(u, m), j, s) <=> Fits(u, m + j, s)
         /\ TagAt(Drop(u, m), j, s) <=> TagAt(u, m + j, s)
<1> DEFINE w == Drop(u, m)
<1>1. /\ u \in Seq(Symbols) /\ Len(u) \in Nat /\ m \in Nat /\ j \in Nat
      /\ m <= Len(u) /\ 1 <= j /\ m + j <= Len(u) /\ m + j \in 1..Len(u)
  BY TextLen
<1>2. /\ w \in Texts /\ Len(w) = Len(u) - m
      /\ \A i \in 1..(Len(u) - m) : w[i] = u[m + i]
  BY <1>1, DropFacts DEF Texts
<1> HIDE DEF w
<1>3. /\ w[j] = u[m + j]
      /\ j + 1 <= Len(w) => w[j + 1] = u[m + (j + 1)]
      /\ j + 2 <= Len(w) => w[j + 2] = u[m + (j + 2)]
      /\ j + 3 <= Len(w) => w[j + 3] = u[m + (j + 3)]
  BY <1>1, <1>2
<1>4. /\ m + (j + 1) = (m + j) + 1 /\ m + (j + 2) = (m + j) + 2 /\ m + (j + 3) = (m + j) + 3
      /\ j + 1 <= Len(w) <=> (m + j) + 1 <= Len(u)
      /\ j + 2 <= Len(w) <=> (m + j) + 2 <= Len(u)
      /\ j + 3 <= Len(w) <=> (m + j) + 3 <= Len(u)
  BY <1>1, <1>2
<1>5. Fits(w, j, s) <=> Fits(u, m + j, s)
  BY <1>3, <1>4 DEF Fits
<1>6. j \in 1..Len(w)
  BY <1>1, <1>2
<1>7. TagAt(w, j, s) <=> TagAt(u, m + j, s)
  BY <1>1, <1>2, <1>4, <1>5, <1>6, TagAtFacts
<1> QED
  BY <1>5, <1>7 DEF w

LEMMA DropTagFree ==
  ASSUME NEW u \in Texts, NEW m \in 0..Len(u), NEW n \in 0..(Len(u) - m)
  PROVE  TagFree(Drop(u, m), 1, n) <=> TagFree(u, m + 1, m + n)
<1>1. m \in Nat /\ n \in Nat /\ Len(u) \in Nat /\ n <= Len(u) - m
  BY TextLen
<1>2. \A j \in 1..n, s \in Sources : TagAt(Drop(u, m), j, s) <=> TagAt(u, m + j, s)
  BY <1>1, DropFits
<1>3. \A j \in 1..n : m + j \in (m + 1)..(m + n)
  BY <1>1
<1>4. \A i \in (m + 1)..(m + n) : i - m \in 1..n /\ m + (i - m) = i
  BY <1>1
<1>5. ASSUME TagFree(Drop(u, m), 1, n), NEW i \in (m + 1)..(m + n), NEW s \in Sources
      PROVE  ~ TagAt(u, i, s)
  <2>1. ~ TagAt(Drop(u, m), i - m, s)
    BY <1>4, <1>5 DEF TagFree
  <2>2. ~ TagAt(u, m + (i - m), s)
    BY <1>2, <1>4, <2>1
  <2> QED
    BY <1>4, <2>2
<1>6. ASSUME TagFree(u, m + 1, m + n), NEW j \in 1..n, NEW s \in Sources
      PROVE  ~ TagAt(Drop(u, m), j, s)
  BY <1>2, <1>3, <1>6 DEF TagFree
<1> QED
  BY <1>5, <1>6 DEF TagFree

LEMMA DropSub ==
  ASSUME NEW u \in Texts, NEW m \in 0..Len(u), NEW n \in 0..(Len(u) - m)
  PROVE  SubSeq(Drop(u, m), 1, n) = SubSeq(u, m + 1, m + n) /\ SubSeq(u, m + 1, m + n) \in Texts
<1> DEFINE w == Drop(u, m)
<1>1. u \in Seq(Symbols) /\ Len(u) \in Nat /\ m \in Nat /\ n \in Nat /\ m + n <= Len(u)
  BY TextLen
<1>2. /\ w \in Seq(Symbols) /\ Len(w) = Len(u) - m
      /\ \A i \in 1..(Len(u) - m) : w[i] = u[m + i]
  BY <1>1, DropFacts
<1> HIDE DEF w
<1> DEFINE a == SubSeq(w, 1, n)
           b == SubSeq(u, m + 1, m + n)
<1>3. a \in Seq(Symbols) /\ Len(a) = n /\ \A i \in 1..n : a[i] = w[i]
  BY <1>1, <1>2
<1>4. b \in Seq(Symbols) /\ Len(b) = n /\ \A i \in 1..n : b[i] = u[m + i]
  BY <1>1, SMTT(30)
<1> HIDE DEF a, b
<1>5. \A i \in 1..n : a[i] = b[i]
  BY <1>1, <1>2, <1>3, <1>4
<1>6. a = b
  BY <1>3, <1>4, <1>5, SameSequence DEF AgreeUpTo
<1> QED
  BY <1>4, <1>6 DEF a, b, w, Texts

-----------------------------------------------------------------------------
(* feed and flush show what is read.                                       *)

\* The parser p, which has sent the tokens, has read u up to m and keeps the rest.
Reached(u, m, p, sent) ==
  /\ p.buffer = Drop(u, m)
  /\ p.source = SourceAt(u, m)
  /\ Clear(u, m)
  /\ Shown(sent) = Read(u, m)

\* ... and found every tag of it.
Parsed(u, p, sent) ==
  \E m \in 2..Len(u) : Reached(u, m, p, sent) /\ TagFree(u, m + 1, Len(u))

Splits == [out : Tokens, parser : Parsers]

\* A round that finds no tag shows all but what may become one.
LEMMA SplitPlain ==
  ASSUME NEW p \in Parsers, NEW u \in Texts, NEW m \in 2..Len(u), NEW sent \in Tokens,
         Reached(u, m, p, sent), TagFree(p.buffer, 1, Len(p.buffer))
  PROVE  /\ Split[p] \in Splits
         /\ Parsed(u, Split[p].parser, sent \o Split[p].out)
<1> DEFINE w == p.buffer
           n == Len(w) - Held(w)
           e == m + n
           s == p.source
           x == SubSeq(w, 1, n)
           q == [p EXCEPT !.buffer = Drop(w, n)]
<1>1. /\ u \in Seq(Symbols) /\ Len(u) \in Nat /\ m \in Nat /\ m \in 0..Len(u) /\ 2 <= m
      /\ w \in Texts /\ Len(w) \in Nat
  BY ParserFields, TextLen
<1>2. w = Drop(u, m) /\ Len(w) = Len(u) - m
  BY <1>1, DropFacts DEF Reached
<1>3. Held(w) \in 0..Len(w) /\ n \in 0..Len(w) /\ n \in 0..(Len(u) - m)
  BY <1>1, <1>2, HeldFacts
<1>4. s \in Sources /\ s = SourceAt(u, m) /\ s # NoSource
  <2>1. SourceAt(u, m) \in Sources /\ NoSource \notin Sources
    BY <1>1, SourceAtType DEF Sources, NoSource
  <2> QED
    BY <2>1 DEF Reached
<1>5. e \in Nat /\ e \in m..Len(u) /\ e \in 0..Len(u) /\ e \in 2..Len(u) /\ e = Len(u) - Held(w)
  BY <1>1, <1>2, <1>3
<1>6. TagFree(u, m + 1, Len(u)) /\ TagFree(u, m + 1, e) /\ TagFree(u, e + 1, Len(u))
  <2>1. Len(u) - m \in 0..(Len(u) - m) /\ m + (Len(u) - m) = Len(u)
    BY <1>1
  <2>2. TagFree(w, 1, Len(u) - m)
    BY <1>2
  <2>3. TagFree(u, m + 1, Len(u))
    BY <1>1, <1>2, <2>1, <2>2, DropTagFree
  <2>4. /\ \A j \in (m + 1)..e : j \in (m + 1)..Len(u)
        /\ \A j \in (e + 1)..Len(u) : j \in (m + 1)..Len(u)
    BY <1>1, <1>5
  <2> QED
    BY <2>3, <2>4 DEF TagFree
<1>7. x = SubSeq(u, m + 1, e) /\ x \in Texts
  BY <1>1, <1>2, <1>3, DropSub, ZenonT(30)
<1>8. Drop(w, n) = Drop(u, e) /\ Drop(w, n) \in Texts
  <2>1. Drop(w, n) = Drop(u, e)
    BY <1>1, <1>2, <1>3, DropDrop
  <2> QED
    BY <1>1, <1>3, <2>1, DropFacts DEF Texts
<1>9. Split[p] = [out |-> Token(s, x), parser |-> q]
  BY <1>4, SplitEquation, SplitWithoutTag
<1>10. Split[p].out = Token(s, x) /\ Split[p].parser = q
  BY <1>9
<1>11. q \in Parsers /\ q.buffer = Drop(w, n) /\ q.source = s
  BY <1>4, <1>8, ParserFields DEF Parsers
<1>12. Split[p] \in Splits
  BY <1>4, <1>7, <1>9, <1>11, TokenType DEF Splits
<1> HIDE DEF q, e, n, w, x, s
<1>13. Clear(u, e)
  <2> SUFFICES ASSUME NEW j \in 1..e, NEW t \in Sources, Fits(u, j, t), ~ (j + 3 <= e)
               PROVE  FALSE
    BY DEF Clear
  <2>1. CASE j \in 1..m
    <3>1. j + 3 <= m
      BY <2>1 DEF Reached, Clear
    <3> QED
      BY <1>1, <1>5, <3>1
  <2>2. CASE ~ (j \in 1..m)
    <3>1. j - m \in 1..(Len(u) - m) /\ m + (j - m) = j /\ j \in (m + 1)..Len(u) /\ j \in 1..Len(u)
      BY <1>1, <1>5, <2>2
    <3>2. Fits(w, j - m, t)
      <4>1. Fits(Drop(u, m), j - m, t) <=> Fits(u, m + (j - m), t)
        BY <1>1, <3>1, DropFits
      <4> QED
        BY <1>2, <3>1, <4>1
    <3>3. ~ (j + 3 <= Len(u))
      BY <1>6, <3>1, TagAtFacts DEF TagFree
    <3>4. j - m \in 1..Len(w) /\ (j - m) + 3 >= Len(w)
      BY <1>1, <1>2, <3>1, <3>3
    <3>5. Len(w) + 1 - (j - m) <= Held(w)
      BY <1>1, <3>2, <3>4, HeldFacts
    <3> QED
      BY <1>1, <1>2, <1>3, <1>5, <3>1, <3>5
  <2> QED
    BY <2>1, <2>2
<1>14. SourceAt(u, e) = s
  BY <1>1, <1>4, <1>5, <1>6, SourceStays
<1>15. Read(u, e) = Read(u, m) \o ShownOf(x, s)
  <2>1. Whole(u, m)
    BY <1>1, ClearIsWhole DEF Reached
  <2> QED
    BY <1>4, <1>5, <1>6, <1>7, <2>1, ReadPlain
<1>16. Shown(sent \o Token(s, x)) = Read(u, e)
  <2>1. Shown(sent \o Token(s, x)) = Shown(sent) \o ShownOf(x, s)
    BY <1>4, <1>7, SendToken
  <2>2. Shown(sent) = Read(u, m)
    BY DEF Reached
  <2> QED
    BY <1>15, <2>1, <2>2
<1>17. Reached(u, e, q, sent \o Token(s, x))
  BY <1>8, <1>11, <1>13, <1>14, <1>16 DEF Reached
<1> QED
  BY <1>5, <1>6, <1>10, <1>12, <1>17 DEF Parsed

\* Splitting p sends out and then what splitting q sends.
Behind(p, out, q) == Split[p] = [Split[q] EXCEPT !.out = out \o @]

\* A round that finds one shows what is before it and goes on behind it.
LEMMA SplitTag ==
  ASSUME NEW p \in Parsers, NEW u \in Texts, NEW m \in 2..Len(u), NEW sent \in Tokens,
         Reached(u, m, p, sent), ~ TagFree(p.buffer, 1, Len(p.buffer))
  PROVE  \E q \in Small(Len(p.buffer)) : \E out \in Tokens : \E e \in 2..Len(u) :
           /\ sent \o out \in Tokens
           /\ Reached(u, e, q, sent \o out)
           /\ Behind(p, out, q)
<1> DEFINE w == p.buffer
           s == p.source
<1>1. /\ u \in Seq(Symbols) /\ Len(u) \in Nat /\ m \in Nat /\ m \in 0..Len(u) /\ 2 <= m
      /\ w \in Texts /\ Len(w) \in Nat /\ w \in Seq(Symbols)
  BY ParserFields, TextLen
<1>2. w = Drop(u, m) /\ Len(w) = Len(u) - m
  BY <1>1, DropFacts DEF Reached
<1>3. s \in Sources /\ s = SourceAt(u, m) /\ s # NoSource
  <2>1. SourceAt(u, m) \in Sources /\ NoSource \notin Sources
    BY <1>1, SourceAtType DEF Sources, NoSource
  <2> QED
    BY <2>1 DEF Reached
<1>4. PICK j \in 1..Len(w), t \in Sources, k \in Nat :
        /\ FirstTag(w, j, t, k)
        /\ \A f : SplitBy(p, f) =
             [f[[source |-> t, buffer |-> Drop(w, j + 3 + k)]]
                EXCEPT !.out = Token(s, SubSeq(w, 1, j - 1)) \o @]
  BY <1>3, SplitAtTag
<1> DEFINE q == [source |-> t, buffer |-> Drop(w, j + 3 + k)]
           x == SubSeq(w, 1, j - 1)
           out == Token(s, x)
           i == m + j
           e == m + (j + 3 + k)
<1>5. Split[p] = [Split[q] EXCEPT !.out = out \o @]
  BY <1>4, SplitEquation, Zenon
<1>6. /\ j \in Nat /\ 1 <= j /\ j + 3 + k <= Len(w)
      /\ j + 3 + k \in 0..Len(w) /\ j + 3 + k \in 0..(Len(u) - m)
      /\ j - 1 \in 0..(Len(u) - m) /\ j \in 1..(Len(u) - m)
  BY <1>1, <1>2, <1>4 DEF FirstTag
<1>7. /\ i \in Nat /\ e \in Nat /\ m + (j - 1) = i - 1 /\ i + 3 <= e /\ e <= Len(u)
      /\ i \in (m + 1)..Len(u) /\ e \in (i + 3)..Len(u) /\ e \in 2..Len(u)
      /\ i - 1 \in m..Len(u) /\ e = i + 3 + k
  BY <1>1, <1>6
<1>8. x = SubSeq(u, m + 1, i - 1) /\ x \in Texts
  BY <1>1, <1>2, <1>6, <1>7, DropSub, ZenonT(30)
<1>9. /\ q.buffer = Drop(u, e) /\ q.source = t /\ q \in Parsers
      /\ Len(q.buffer) = Len(w) - (j + 3 + k)
  <2>1. Drop(w, j + 3 + k) = Drop(u, e)
    BY <1>1, <1>2, <1>6, DropDrop
  <2>2. /\ Drop(w, j + 3 + k) \in Seq(Symbols)
        /\ Len(Drop(w, j + 3 + k)) = Len(w) - (j + 3 + k)
    BY <1>1, <1>6, DropFacts
  <2> QED
    BY <2>1, <2>2 DEF Parsers, Texts
<1>10. q \in Small(Len(w))
  <2>1. Len(q.buffer) < Len(w)
    BY <1>1, <1>6, <1>9
  <2> QED
    BY <1>9, <2>1 DEF Small
<1>11. out \in Tokens /\ sent \o out \in Tokens
  BY <1>3, <1>8, TokenType, SendToken
<1> HIDE DEF q, e, i, w, x, s, out
<1>12. TagFree(u, m + 1, i - 1)
  <2>1. TagFree(w, 1, j - 1)
    BY <1>4 DEF FirstTag
  <2> QED
    BY <1>1, <1>2, <1>6, <1>7, <2>1, DropTagFree
<1>13. TagAt(u, i, t)
  <2>1. TagAt(w, j, t)
    BY <1>4 DEF FirstTag
  <2> QED
    BY <1>1, <1>2, <1>6, <2>1, DropFits DEF i
<1>14. ASSUME NEW l \in (i + 4)..e PROVE u[l] = Blank
  <2>1. l - m \in (j + 4)..(j + 3 + k) /\ l - m \in 1..(Len(u) - m) /\ m + (l - m) = l
    BY <1>1, <1>6, <1>7 DEF i
  <2>2. w[l - m] = Blank
    BY <1>4, <2>1 DEF FirstTag, Blanks
  <2>3. w[l - m] = u[m + (l - m)]
    BY <1>1, <1>2, <2>1, DropFacts
  <2> QED
    BY <2>1, <2>2, <2>3
<1>15. Read(u, e) = Read(u, i - 1) /\ SourceAt(u, e) = t /\ Clear(u, e)
  <2>1. Clear(u, m)
    BY DEF Reached
  <2>2. Blanks(u, i + 4, e)
    BY <1>14 DEF Blanks
  <2> QED
    BY <1>1, <1>7, <1>12, <1>13, <2>1, <2>2, ReadTag
<1>16. Read(u, i - 1) = Read(u, m) \o ShownOf(x, s)
  <2>1. Whole(u, m)
    BY <1>1, ClearIsWhole DEF Reached
  <2> QED
    BY <1>3, <1>7, <1>8, <1>12, <2>1, ReadPlain
<1>17. Shown(sent \o out) = Shown(sent) \o ShownOf(x, s)
  BY <1>3, <1>8, SendToken DEF out
<1>18. Shown(sent \o out) = Read(u, e)
  <2>1. Shown(sent) = Read(u, m)
    BY DEF Reached
  <2> QED
    BY <1>15, <1>16, <1>17, <2>1
<1>19. Reached(u, e, q, sent \o out)
  BY <1>9, <1>15, <1>18 DEF Reached
<1> QED
  BY <1>5, <1>7, <1>10, <1>11, <1>19 DEF w, Behind

LEMMA TokensAssoc ==
  ASSUME NEW q \in Tokens, NEW r \in Tokens, NEW t \in Tokens
  PROVE  (q \o r) \o t = q \o (r \o t)
<1>1. q \in Seq(ChatTokens) /\ r \in Seq(ChatTokens) /\ t \in Seq(ChatTokens)
  BY DEF Tokens, ChatTokens
<1> QED
  BY <1>1, ConcatAssoc

\* From any place reached, Split goes on to the end of the text: by induction over the
\* length of the buffer.
LEMMA SplitReads ==
  ASSUME NEW p \in Parsers, NEW u \in Texts, NEW m \in 2..Len(u), NEW sent \in Tokens,
         Reached(u, m, p, sent)
  PROVE  /\ Split[p] \in Splits
         /\ Parsed(u, Split[p].parser, sent \o Split[p].out)
<1> DEFINE Good(q, out) == /\ Split[q] \in Splits
                           /\ Parsed(u, Split[q].parser, out \o Split[q].out)
           P == {n \in Nat : \A q \in Parsers, l \in 2..Len(u), out \in Tokens :
                   Len(q.buffer) = n /\ Reached(u, l, q, out) => Good(q, out)}
<1>1. ASSUME NEW n \in Nat, \A k \in Nat : k < n => k \in P
      PROVE  n \in P
  <2> SUFFICES ASSUME NEW q \in Parsers, NEW l \in 2..Len(u), NEW out \in Tokens,
                      Len(q.buffer) = n, Reached(u, l, q, out)
               PROVE  Good(q, out)
    OBVIOUS
  <2>1. CASE TagFree(q.buffer, 1, Len(q.buffer))
    BY <2>1, SplitPlain
  <2>2. CASE ~ TagFree(q.buffer, 1, Len(q.buffer))
    <3>1. PICK r \in Small(Len(q.buffer)), new \in Tokens, e \in 2..Len(u) :
            /\ out \o new \in Tokens
            /\ Reached(u, e, r, out \o new)
            /\ Behind(q, new, r)
      <4>1. \E r \in Small(Len(q.buffer)) : \E new \in Tokens : \E e \in 2..Len(u) :
              /\ out \o new \in Tokens
              /\ Reached(u, e, r, out \o new)
              /\ Behind(q, new, r)
        BY <2>2, SplitTag
      <4> QED
        BY <4>1
    <3>2. r \in Parsers /\ Len(r.buffer) \in Nat /\ Len(r.buffer) < n
      BY ParserFields, TextLen DEF Small
    <3>3. Good(r, out \o new)
      BY <1>1, <3>1, <3>2
    <3>4. Split[r] \in Splits /\ Split[r].out \in Tokens /\ Split[r].parser \in Parsers
      BY <3>3 DEF Splits
    <3>5. /\ Split[q].out = new \o Split[r].out
          /\ Split[q].parser = Split[r].parser
          /\ Split[q] = [out |-> new \o Split[r].out, parser |-> Split[r].parser]
      BY <3>1, <3>4 DEF Splits, Behind
    <3>6. new \o Split[r].out \in Tokens
      BY <3>4, ShownConcat
    <3>7. (out \o new) \o Split[r].out = out \o (new \o Split[r].out)
      BY <3>4, TokensAssoc
    <3> QED
      BY <3>3, <3>4, <3>5, <3>6, <3>7 DEF Splits
  <2> QED
    BY <2>1, <2>2
<1> HIDE DEF P
<1>2. Nat \subseteq P
  BY <1>1, CompleteInduction
<1>3. Len(p.buffer) \in Nat
  BY ParserFields, TextLen
<1> QED
  BY <1>2, <1>3 DEF P

\* The text without its first blanks and empty lines; and whether that may still become
\* a tag.
Lead(w) == StripLeft(w, Whitespace)

Undecided(w) == \E s \in Sources : IsStrictPrefix(Lead(w), Marker[s])

Pad(w) == <<Newline, Newline>> \o w

LEMMA PaddedIs ==
  \A w : Padded(w) = IF Undecided(w) THEN Pad(w) ELSE Pad(Lead(w))
  BY DEF Padded, Body, Undecided, Lead, Pad

\* The two newlines before a text.
LEMMA PadFacts ==
  ASSUME NEW w \in Texts
  PROVE  /\ Pad(w) \in Texts /\ Len(Pad(w)) = Len(w) + 2 /\ Len(w) \in Nat
         /\ Pad(w)[1] = Newline /\ Pad(w)[2] = Newline
         /\ \A i \in 1..Len(w) : Pad(w)[2 + i] = w[i]
         /\ Drop(Pad(w), 2) = w
<1> DEFINE line == <<Newline, Newline>>
           u == line \o w
<1>1. line \in Seq(Symbols) /\ Len(line) = 2 /\ line[1] = Newline /\ line[2] = Newline
  BY DEF Symbols
<1>2. w \in Seq(Symbols) /\ Len(w) \in Nat
  BY TextLen
<1> HIDE DEF line
<1>3. /\ u \in Seq(Symbols) /\ Len(u) = Len(line) + Len(w)
      /\ \A i \in 1..Len(line) : u[i] = line[i]
      /\ \A i \in 1..Len(w) : u[Len(line) + i] = w[i]
  <2>1. line \in Seq(Symbols) /\ w \in Seq(Symbols)
    BY <1>1, <1>2
  <2> QED
    BY <2>1
<1> HIDE DEF u
<1>4. /\ Len(u) = Len(w) + 2 /\ u[1] = Newline /\ u[2] = Newline
      /\ \A i \in 1..Len(w) : u[2 + i] = w[i]
  BY <1>1, <1>2, <1>3
<1>5. 2 \in 0..Len(u) /\ Len(u) - 2 = Len(w)
  BY <1>2, <1>4
<1>6. /\ Drop(u, 2) \in Seq(Symbols) /\ Len(Drop(u, 2)) = Len(u) - 2
      /\ \A i \in 1..(Len(u) - 2) : Drop(u, 2)[i] = u[2 + i]
  BY <1>3, <1>5, DropFacts
<1>7. Drop(u, 2) = w
  BY <1>2, <1>4, <1>5, <1>6, SameSequence DEF AgreeUpTo
<1>8. Pad(w) = u
  BY DEF Pad, u, line
<1> QED
  BY <1>2, <1>3, <1>4, <1>7, <1>8 DEF Texts

LEMMA PadConcat ==
  ASSUME NEW w \in Texts, NEW c \in Texts
  PROVE  Pad(w \o c) = Pad(w) \o c
<1>1. <<Newline, Newline>> \in Seq(Symbols) /\ w \in Seq(Symbols) /\ c \in Seq(Symbols)
  BY TextLen DEF Symbols
<1> QED
  BY <1>1, ConcatAssoc DEF Pad

\* A text without the blanks and newlines it begins with.
LEMMA LeadFacts ==
  ASSUME NEW w \in Texts
  PROVE  /\ Lead(w) \in Texts
         /\ \E k \in 0..Len(w) : /\ Lead(w) = Drop(w, k)
                                 /\ \A i \in 1..k : w[i] \in Whitespace
                                 /\ k < Len(w) => w[k + 1] \notin Whitespace
<1>1. w \in Seq(Symbols)
  BY TextLen
<1>2. \E k \in 0..Len(w) : /\ StripLeft(w, Whitespace) = Drop(w, k)
                           /\ \A i \in 1..k : w[i] \in Whitespace
                           /\ k < Len(w) => w[k + 1] \notin Whitespace
  BY <1>1, StripLeftFacts
<1> QED
  BY <1>1, <1>2, DropFacts DEF Lead, Texts

\* A lead that is not empty does not begin with a blank, and grows with the text.
LEMMA LeadGrows ==
  ASSUME NEW w \in Texts, Lead(w) # <<>>
  PROVE  /\ Lead(w)[1] \notin Whitespace
         /\ \A c \in Texts : Lead(w \o c) = Lead(w) \o c
<1>1. PICK k \in 0..Len(w) : /\ Lead(w) = Drop(w, k)
                             /\ \A i \in 1..k : w[i] \in Whitespace
                             /\ k < Len(w) => w[k + 1] \notin Whitespace
  BY LeadFacts
<1>2. w \in Seq(Symbols) /\ Len(w) \in Nat /\ k \in Nat /\ k <= Len(w)
  BY TextLen
<1>3. k < Len(w)
  BY <1>1, <1>2, DropWhole
<1>4. Lead(w)[1] = w[k + 1]
  <2>1. 1 \in 1..(Len(w) - k)
    BY <1>2, <1>3
  <2>2. Drop(w, k)[1] = w[k + 1]
    BY <1>2, <2>1, DropFacts
  <2> QED
    BY <1>1, <2>2
<1>5. ASSUME NEW c \in Texts PROVE Lead(w \o c) = Lead(w) \o c
  <2> DEFINE v == w \o c
  <2>1. /\ v \in Texts /\ Len(v) = Len(w) + Len(c) /\ Len(c) \in Nat
        /\ \A i \in 1..Len(w) : v[i] = w[i]
    BY DEF Texts
  <2> HIDE DEF v
  <2>2. PICK n \in 0..Len(v) : /\ Lead(v) = Drop(v, n)
                               /\ \A i \in 1..n : v[i] \in Whitespace
                               /\ n < Len(v) => v[n + 1] \notin Whitespace
    BY <2>1, LeadFacts
  <2>3. n <= k
    <3> SUFFICES ASSUME k < n PROVE FALSE
      BY <1>2, <2>1
    <3>1. k + 1 \in 1..n /\ k + 1 \in 1..Len(w)
      BY <1>2, <1>3, <2>1
    <3> QED
      BY <1>1, <1>3, <2>1, <2>2, <3>1
  <2>4. k <= n
    <3> SUFFICES ASSUME n < k PROVE FALSE
      BY <1>2, <2>1
    <3>1. n + 1 \in 1..k /\ n + 1 \in 1..Len(w) /\ n < Len(v)
      BY <1>2, <2>1
    <3> QED
      BY <1>1, <2>1, <2>2, <3>1
  <2>5. n = k
    BY <1>2, <2>1, <2>3, <2>4
  <2>6. c \in Seq(Symbols)
    BY TextLen
  <2>7. Drop(v, k) = Drop(w, k) \o c
    BY <1>2, <2>6, DropConcat DEF v
  <2> QED
    BY <1>1, <2>2, <2>5, <2>7 DEF v
<1> QED
  BY <1>1, <1>3, <1>4, <1>5

LEMMA StrictPrefixFacts ==
  ASSUME NEW w \in Texts, NEW s \in Sources
  PROVE  /\ IsPrefix(w, Marker[s]) <=> \/ Len(w) = 0
                                       \/ Len(w) = 1 /\ w[1] = Marker[s][1]
                                       \/ w = Marker[s]
         /\ IsPrefix(Marker[s], w) <=> Len(w) >= 2 /\ w[1] = Marker[s][1] /\ w[2] = ":"
         /\ IsStrictPrefix(w, Marker[s]) <=> \/ Len(w) = 0
                                             \/ Len(w) = 1 /\ w[1] = Marker[s][1]
<1> DEFINE x == Marker[s]
<1>1. w \in Seq(Symbols) /\ x \in Seq(Symbols) /\ Len(x) = 2 /\ x[2] = ":" /\ Len(w) \in Nat
  BY MarkerFacts, TextLen DEF Texts
<1> HIDE DEF x
<1>0. \A q, r \in Seq(Symbols) :
        IsPrefix(q, r) <=> Len(q) <= Len(r) /\ \A i \in 1..Len(q) : q[i] = r[i]
  BY PrefixFacts, Zenon
<1>2. IsPrefix(w, x) <=> Len(w) <= Len(x) /\ \A i \in 1..Len(w) : w[i] = x[i]
  BY <1>1, <1>0, Zenon
<1>3. IsPrefix(x, w) <=> Len(x) <= Len(w) /\ \A i \in 1..Len(x) : x[i] = w[i]
  BY <1>1, <1>0, Zenon
<1>4. Len(w) = 0 \/ Len(w) = 1 \/ Len(w) = 2 \/ Len(w) > 2
  <2>1. \A n \in Nat : n = 0 \/ n = 1 \/ n = 2 \/ n > 2
    OBVIOUS
  <2>2. Len(w) \in Nat
    BY <1>1
  <2> HIDE DEF x
  <2> QED
    BY <2>1, <2>2
<1>5. CASE Len(w) = 0
  BY <1>1, <1>2, <1>3, <1>5 DEF IsStrictPrefix, x
<1>6. CASE Len(w) = 1
  <2>1. 1..Len(w) = {1}
    BY <1>6
  <2>2. Len(w) # Len(x)
    BY <1>1, <1>6
  <2>3. w # x
    BY <2>2
  <2> QED
    BY <1>1, <1>2, <1>3, <1>6, <2>1, <2>3 DEF IsStrictPrefix, x
<1>7. CASE Len(w) = 2
  <2>1. 1..2 = {1, 2}
    OBVIOUS
  <2>2. (\A i \in 1..Len(w) : w[i] = x[i]) <=> w = x
    BY <1>1, <1>7, SameSequence DEF AgreeUpTo
  <2>3. (\A i \in 1..Len(x) : x[i] = w[i]) <=> x[1] = w[1] /\ x[2] = w[2]
    BY <1>1, <2>1
  <2> QED
    BY <1>1, <1>2, <1>3, <1>7, <2>2, <2>3 DEF IsStrictPrefix, x
<1>8. CASE Len(w) > 2
  <2>1. 1..2 = {1, 2}
    OBVIOUS
  <2>2. Len(w) # Len(x)
    <3>1. \A n \in Nat : n > 2 => n # 2
      OBVIOUS
    <3>2. Len(w) \in Nat /\ Len(x) = 2
      BY <1>1
    <3> QED
      BY <1>8, <3>1, <3>2
  <2>4. w # x
    BY <2>2
  <2>3. (\A i \in 1..Len(x) : x[i] = w[i]) <=> x[1] = w[1] /\ x[2] = w[2]
    BY <1>1, <2>1
  <2> QED
    BY <1>1, <1>2, <1>3, <1>8, <2>3, <2>4 DEF IsStrictPrefix, x
<1> QED
  BY <1>4, <1>5, <1>6, <1>7, <1>8

\* A text that is decided stays so.
LEMMA DecidedGrows ==
  ASSUME NEW w \in Texts, NEW c \in Texts, ~ Undecided(w)
  PROVE  /\ Lead(w) # <<>>
         /\ ~ Undecided(w \o c)
         /\ Padded(w \o c) = Padded(w) \o c
<1>1. Lead(w) # <<>>
  <2>1. <<>> \in Texts /\ Len(<<>>) = 0 /\ "general" \in Sources
    BY DEF Texts, Sources
  <2>2. IsStrictPrefix(<<>>, Marker["general"])
    BY <2>1, StrictPrefixFacts
  <2> QED
    BY <2>1, <2>2 DEF Undecided
<1>2. Lead(w) \in Texts /\ Lead(w \o c) = Lead(w) \o c
  BY <1>1, LeadFacts, LeadGrows
<1> DEFINE l == Lead(w)
<1>3. /\ l \o c \in Texts /\ Len(l \o c) = Len(l) + Len(c) /\ Len(c) \in Nat /\ Len(l) \in Nat
      /\ l # <<>> /\ Len(l) >= 1 /\ (l \o c)[1] = l[1]
  <2> HIDE DEF l
  <2>1. l \in Seq(Symbols) /\ c \in Seq(Symbols) /\ l # <<>>
    BY <1>1, <1>2, TextLen DEF l
  <2> QED
    BY <2>1 DEF Texts
<1>4. ~ Undecided(w \o c)
  <2> SUFFICES ASSUME NEW s \in Sources, IsStrictPrefix(l \o c, Marker[s]) PROVE FALSE
    BY <1>2 DEF Undecided
  <2> HIDE DEF l
  <2>1. Len(l \o c) = 0 \/ (Len(l \o c) = 1 /\ (l \o c)[1] = Marker[s][1])
    BY <1>3, StrictPrefixFacts
  <2>2. Len(l) = 1 /\ l[1] = Marker[s][1]
    BY <1>3, <2>1
  <2>3. IsStrictPrefix(l, Marker[s])
    BY <1>2, <2>2, StrictPrefixFacts DEF l
  <2> QED
    BY <2>3 DEF Undecided, l
<1> QED
  BY <1>1, <1>2, <1>4, PaddedIs, PadConcat

\* The text said so far is w: the parser waits for its first tag, or it is parsed.
Follows(w, p, sent) ==
  IF p.source = NoSource THEN Undecided(w) /\ p.buffer = w /\ sent = <<>>
  ELSE ~ Undecided(w) /\ Parsed(Padded(w), p, sent)

\* A new parser follows the empty text.
LEMMA NewFollows == NewParser \in Parsers /\ Follows(<<>>, NewParser, <<>>)
<1>1. <<>> \in Texts /\ Len(<<>>) = 0 /\ "general" \in Sources
  BY DEF Texts, Sources
<1>2. Lead(<<>>) = <<>>
  <2>1. PICK k \in 0..Len(<<>>) : Lead(<<>>) = Drop(<<>>, k)
    BY <1>1, LeadFacts
  <2>2. k = 0 /\ <<>> \in Seq(Symbols)
    BY <1>1
  <2> QED
    BY <2>1, <2>2, DropWhole
<1>3. Undecided(<<>>)
  BY <1>1, <1>2, StrictPrefixFacts DEF Undecided
<1> QED
  BY <1>1, <1>3 DEF NewParser, Parsers, Follows

\* What is before the text is not shown.
LEMMA ReadFrom ==
  ASSUME NEW w \in Texts
  PROVE  Read(Pad(w), 2) = <<>>
<1>1. Pad(w) \in Texts /\ Len(Pad(w)) = Len(w) + 2 /\ Len(w) \in Nat
  BY PadFacts
<1>2. 0 \in 0..Len(Pad(w)) /\ 2 \in 0..Len(Pad(w))
  BY <1>1
<1>3. \A i \in (0 + 1)..2 : Seen(Pad(w), i) = <<>>
  BY DEF Seen
<1>4. Read(Pad(w), 2) = Read(Pad(w), 0)
  BY <1>1, <1>2, <1>3, ReadNothing
<1> QED
  BY <1>4, ReadNone

\* The first tag of a text is one behind the line put before it.
LEMMA StartTagged ==
  ASSUME NEW w \in Texts, NEW s \in Sources, IsPrefix(Marker[s], w),
         NEW k \in Nat, k + 2 <= Len(w), Blanks(w, 3, k + 2),
         NEW p \in Parsers, p = [source |-> s, buffer |-> Drop(w, k + 2)]
  PROVE  Reached(Pad(w), k + 4, p, <<>>) /\ k + 4 \in 2..Len(Pad(w))
<1> DEFINE u == Pad(w)
<1>1. /\ u \in Texts /\ Len(u) = Len(w) + 2 /\ Len(w) \in Nat
      /\ u[1] = Newline /\ u[2] = Newline /\ \A i \in 1..Len(w) : u[2 + i] = w[i]
      /\ Drop(u, 2) = w
  BY PadFacts
<1>2. Len(w) >= 2 /\ w[1] = Marker[s][1] /\ w[2] = ":"
  BY StrictPrefixFacts
<1> HIDE DEF u
<1>3. u[3] = Marker[s][1] /\ u[4] = ":"
  <2>1. 1 \in 1..Len(w) /\ 2 \in 1..Len(w) /\ 2 + 1 = 3 /\ 2 + 2 = 4
    BY <1>1, <1>2
  <2>2. u[2 + 1] = w[1] /\ u[2 + 2] = w[2]
    BY <1>1, <2>1
  <2> QED
    BY <1>2, <2>1, <2>2
<1>4. Fits(u, 1, s)
  BY <1>1, <1>3 DEF Fits
<1>5. 1 \in 1..Len(u) /\ 1 + 3 <= Len(u)
  BY <1>1, <1>2
<1>6. TagAt(u, 1, s)
  BY <1>1, <1>4, <1>5, TagAtFacts
<1>7. Clear(u, 0) /\ TagFree(u, 0 + 1, 1 - 1)
  BY DEF Clear, TagFree
<1>8. /\ 0 \in 0..Len(u) /\ 1 \in (0 + 1)..Len(u) /\ k + 4 \in (1 + 3)..Len(u)
      /\ k + 4 \in 2..Len(u)
  BY <1>1, <1>5
<1>9. ASSUME NEW i \in (1 + 4)..(k + 4) PROVE u[i] = Blank
  <2>1. i - 2 \in 1..Len(w) /\ i - 2 \in 3..(k + 2) /\ 2 + (i - 2) = i
    BY <1>1
  <2>2. u[2 + (i - 2)] = w[i - 2]
    BY <1>1, <2>1
  <2> QED
    BY <2>1, <2>2 DEF Blanks
<1>10. Read(u, k + 4) = Read(u, 1 - 1) /\ SourceAt(u, k + 4) = s /\ Clear(u, k + 4)
  <2>1. Blanks(u, 1 + 4, k + 4)
    BY <1>9 DEF Blanks
  <2> QED
    BY <1>1, <1>6, <1>7, <1>8, <2>1, ReadTag
<1>11. Read(u, k + 4) = Shown(<<>>)
  BY <1>10, ReadNone, ShownNone
<1>12. p.buffer = Drop(u, k + 4)
  <2>1. u \in Seq(Symbols) /\ 2 \in 0..Len(u) /\ k + 2 \in 0..(Len(u) - 2)
    BY <1>1, TextLen
  <2>2. Drop(Drop(u, 2), k + 2) = Drop(u, 2 + (k + 2))
    BY <2>1, DropDrop
  <2>3. 2 + (k + 2) = k + 4
    OBVIOUS
  <2> QED
    BY <1>1, <2>2, <2>3
<1>13. p.source = SourceAt(u, k + 4)
  BY <1>10
<1>14. Reached(u, k + 4, p, <<>>)
  BY <1>10, <1>11, <1>12, <1>13 DEF Reached
<1> QED
  BY <1>8, <1>14 DEF u

\* A text that begins with no tag is general.
LEMMA StartPlain ==
  ASSUME NEW w \in Texts, Len(w) >= 1, w[1] \notin Whitespace,
         \A s \in Sources : ~ IsPrefix(Marker[s], w) /\ ~ IsPrefix(w, Marker[s]),
         NEW p \in Parsers, p = [source |-> "general", buffer |-> w]
  PROVE  Reached(Pad(w), 2, p, <<>>) /\ 2 \in 2..Len(Pad(w))
<1> DEFINE u == Pad(w)
<1>1. /\ u \in Texts /\ Len(u) = Len(w) + 2 /\ Len(w) \in Nat
      /\ u[1] = Newline /\ u[2] = Newline /\ \A i \in 1..Len(w) : u[2 + i] = w[i]
      /\ Drop(u, 2) = w
  BY PadFacts
<1> HIDE DEF u
<1>2. u[3] = w[1] /\ (Len(w) >= 2 => u[4] = w[2])
  <2>1. 1 \in 1..Len(w) /\ 2 + 1 = 3 /\ 2 + 2 = 4
    BY <1>1
  <2>2. u[2 + 1] = w[1]
    BY <1>1, <2>1
  <2>3. Len(w) >= 2 => u[2 + 2] = w[2]
    BY <1>1
  <2> QED
    BY <2>1, <2>2, <2>3
<1>3. ASSUME NEW s \in Sources PROVE ~ Fits(u, 1, s) /\ ~ Fits(u, 2, s)
  <2>1. ~ Fits(u, 2, s)
    <3>1. u[3] # Newline /\ 2 + 1 = 3 /\ 3 <= Len(u)
      BY <1>1, <1>2 DEF Whitespace
    <3> QED
      BY <3>1 DEF Fits
  <2>2. ~ Fits(u, 1, s)
    <3> SUFFICES ASSUME Fits(u, 1, s) PROVE FALSE
      OBVIOUS
    <3>1. 3 <= Len(u) /\ 1 + 2 = 3 /\ 1 + 3 = 4 /\ (Len(w) >= 2 => 4 <= Len(u))
      BY <1>1
    <3>2. w[1] = Marker[s][1]
      BY <1>2, <3>1 DEF Fits
    <3>3. CASE Len(w) >= 2
      <4>1. w[2] = ":"
        BY <1>2, <3>1, <3>3 DEF Fits
      <4>2. IsPrefix(Marker[s], w)
        BY <3>2, <3>3, <4>1, StrictPrefixFacts
      <4> QED
        BY <4>2
    <3>4. CASE ~ (Len(w) >= 2)
      <4>1. Len(w) = 1
        <5>1. \A n \in Nat : n >= 1 /\ ~ (n >= 2) => n = 1
          OBVIOUS
        <5> QED
          BY <1>1, <3>4, <5>1
      <4>2. IsPrefix(w, Marker[s])
        BY <3>2, <4>1, StrictPrefixFacts
      <4> QED
        BY <4>2
    <3> QED
      BY <3>3, <3>4
  <2> QED
    BY <2>1, <2>2
<1>4. \A j \in 1..2 : j = 1 \/ j = 2
  OBVIOUS
<1>5. Clear(u, 2)
  BY <1>3, <1>4 DEF Clear
<1>6. 2 \in 0..Len(u) /\ 2 \in 2..Len(u) /\ \A j \in 1..2 : j \in 1..Len(u)
  BY <1>1
<1>7. TagFree(u, 1, 2)
  BY <1>1, <1>3, <1>4, <1>6, TagAtFacts DEF TagFree
<1>8. SourceAt(u, 2) = "general"
  BY <1>1, <1>6, <1>7, SourceWithoutTag
<1>9. Shown(<<>>) = Read(u, 2)
  BY ReadFrom, ShownNone DEF u
<1>10. p.source = "general" /\ p.buffer = w
  OBVIOUS
<1>11. Reached(u, 2, p, <<>>)
  BY <1>1, <1>5, <1>8, <1>9, <1>10 DEF Reached
<1> QED
  BY <1>6, <1>11 DEF u

\* What Split makes of a text whose source is known follows that text.
LEMMA SplitAgain ==
  ASSUME NEW p \in Parsers, NEW w \in Texts, NEW m, NEW sent \in Tokens, ~ Undecided(w),
         m \in 2..Len(Padded(w)), Padded(w) \in Texts, Reached(Padded(w), m, p, sent)
  PROVE  Split[p] \in Splits /\ Follows(w, Split[p].parser, sent \o Split[p].out)
<1>1. Split[p] \in Splits /\ Parsed(Padded(w), Split[p].parser, sent \o Split[p].out)
  BY SplitReads
<1>2. Split[p].parser.source # NoSource
  <2>1. PICK n \in 2..Len(Padded(w)) : Split[p].parser.source = SourceAt(Padded(w), n)
    BY <1>1 DEF Parsed, Reached
  <2>2. n \in 0..Len(Padded(w))
    BY TextLen
  <2>3. SourceAt(Padded(w), n) \in Sources
    BY <2>2, SourceAtType
  <2> QED
    BY <2>1, <2>3 DEF Sources, NoSource
<1> QED
  BY <1>1, <1>2 DEF Follows

\* The first chunks, as long as no source is known.
LEMMA StartFollows ==
  ASSUME NEW w \in Texts, NEW p \in Parsers, p.source = NoSource, p.buffer = w
  PROVE  Split[Started(p)] \in Splits /\ Follows(w, Split[Started(p)].parser, Split[Started(p)].out)
<1> DEFINE l == Lead(w)
           tags == {s \in Sources : IsPrefix(Marker[s], l)}
<1>1. l \in Texts /\ l \in Seq(Symbols) /\ Len(l) \in Nat
  BY LeadFacts, TextLen
<1>2. ASSUME NEW q \in Parsers, NEW m, m \in 2..Len(Pad(l)), ~ Undecided(w),
             Reached(Pad(l), m, q, <<>>), Started(p) = q
      PROVE  Split[Started(p)] \in Splits /\ Follows(w, Split[Started(p)].parser, Split[Started(p)].out)
  <2>1. Padded(w) = Pad(l) /\ Pad(l) \in Texts
    BY <1>1, <1>2, PaddedIs, PadFacts
  <2>2. <<>> \in Tokens
    BY ShownNone
  <2>3. Split[q] \in Splits /\ Follows(w, Split[q].parser, <<>> \o Split[q].out)
    BY <1>2, <2>1, <2>2, SplitAgain
  <2>4. Split[q].out \in Seq(ChatTokens)
    BY <2>3 DEF Splits, Tokens, ChatTokens
  <2>5. <<>> \o Split[q].out = Split[q].out
    BY <2>4
  <2> QED
    BY <1>2, <2>3, <2>5
<1>3. CASE tags # {}
  <2> DEFINE s == CHOOSE s \in tags : TRUE
             d == Drop(l, Len(Marker[s]))
  <2>1. s \in Sources /\ IsPrefix(Marker[s], l)
    BY <1>3
  <2>2. Started(p) = [source |-> s, buffer |-> StripLeft(d, {Blank})]
    BY <1>3 DEF Started, Lead
  <2> HIDE DEF s
  <2>3. Len(Marker[s]) = 2 /\ Len(l) >= 2 /\ 2 \in 0..Len(l)
    BY <1>1, <2>1, MarkerFacts, StrictPrefixFacts
  <2>4. /\ d = Drop(l, 2) /\ d \in Seq(Symbols) /\ Len(d) = Len(l) - 2
        /\ \A i \in 1..(Len(l) - 2) : d[i] = l[2 + i]
    BY <1>1, <2>3, DropFacts
  <2> HIDE DEF d, l, tags
  <2>5. PICK k \in 0..Len(d) : /\ StripLeft(d, {Blank}) = Drop(d, k)
                               /\ \A i \in 1..k : d[i] \in {Blank}
    BY <2>4, StripLeftFacts
  <2>6. k \in Nat /\ k + 2 <= Len(l) /\ k \in 0..(Len(l) - 2) /\ k + 2 \in 0..Len(l) /\ 2 + k = k + 2
    BY <1>1, <2>3, <2>4
  <2>7. StripLeft(d, {Blank}) = Drop(l, k + 2)
    BY <1>1, <2>3, <2>4, <2>5, <2>6, DropDrop
  <2>8. Blanks(l, 3, k + 2)
    <3>1. ASSUME NEW i \in 3..(k + 2) PROVE l[i] = Blank
      <4>1. i - 2 \in 1..k /\ i - 2 \in 1..(Len(l) - 2) /\ 2 + (i - 2) = i
        BY <2>6
      <4>2. d[i - 2] = Blank /\ d[i - 2] = l[2 + (i - 2)]
        BY <2>4, <2>5, <4>1
      <4> QED
        BY <4>1, <4>2
    <3> QED
      BY <3>1 DEF Blanks
  <2> DEFINE q == [source |-> s, buffer |-> Drop(l, k + 2)]
  <2>9. q \in Parsers
    <3>1. Drop(l, k + 2) \in Seq(Symbols)
      BY <1>1, <2>6, DropFacts
    <3> QED
      BY <2>1, <3>1 DEF Parsers, Texts
  <2>10. Reached(Pad(l), k + 4, q, <<>>) /\ k + 4 \in 2..Len(Pad(l))
    BY <1>1, <2>1, <2>6, <2>8, <2>9, StartTagged
  <2>11. ~ Undecided(w)
    <3>1. \A t \in Sources : ~ IsStrictPrefix(l, Marker[t])
      BY <1>1, <2>3, StrictPrefixFacts
    <3> QED
      BY <3>1 DEF Undecided, l
  <2>12. Started(p) = q
    BY <2>2, <2>7
  <2> QED
    BY <1>2, <2>9, <2>10, <2>11, <2>12
<1>4. CASE tags = {} /\ \E s \in Sources : IsPrefix(l, Marker[s])
  <2>1. Started(p) = p
    BY <1>4 DEF Started, Lead
  <2>2. Undecided(w)
    <3>1. PICK s \in Sources : IsPrefix(l, Marker[s])
      BY <1>4
    <3>2. l # Marker[s]
      <4>1. Marker[s] \in Texts /\ IsPrefix(Marker[s], Marker[s])
        BY MarkerFacts, PrefixFacts DEF Texts
      <4> QED
        BY <1>4, <4>1
    <3> QED
      BY <3>1, <3>2 DEF Undecided, IsStrictPrefix
  <2>3. Split[p] = [out |-> <<>>, parser |-> p]
    <3>1. SplitBy(p, Split) = [out |-> <<>>, parser |-> p]
      BY Zenon DEF SplitBy
    <3> QED
      BY <3>1, SplitEquation
  <2>4. Split[p] \in Splits /\ Split[p].parser = p /\ Split[p].out = <<>>
    BY <2>3, ShownNone DEF Splits
  <2> QED
    BY <2>1, <2>2, <2>4 DEF Follows
<1>5. CASE tags = {} /\ ~ \E s \in Sources : IsPrefix(l, Marker[s])
  <2>1. Started(p) = [source |-> "general", buffer |-> l]
    BY <1>5 DEF Started, Lead
  <2>2. ~ Undecided(w)
    BY <1>5 DEF Undecided, IsStrictPrefix
  <2>3. l # <<>> /\ l[1] \notin Whitespace
    BY <2>2, DecidedGrows, LeadGrows
  <2>4. Len(l) >= 1
    BY <1>1, <2>3
  <2> DEFINE q == [source |-> "general", buffer |-> l]
  <2>5. q \in Parsers
    BY <1>1 DEF Parsers, Sources
  <2>6. \A s \in Sources : ~ IsPrefix(Marker[s], l) /\ ~ IsPrefix(l, Marker[s])
    BY <1>5
  <2>7. Reached(Pad(l), 2, q, <<>>) /\ 2 \in 2..Len(Pad(l))
    BY <1>1, <2>3, <2>4, <2>5, <2>6, StartPlain
  <2> QED
    BY <1>2, <2>1, <2>2, <2>5, <2>7
<1> QED
  BY <1>3, <1>4, <1>5

\* Another chunk.
LEMMA FeedFollows ==
  ASSUME NEW w \in Texts, NEW c \in Texts, NEW p \in Parsers, NEW sent \in Tokens,
         Follows(w, p, sent)
  PROVE  /\ Feed(p, c) \in Splits
         /\ Follows(w \o c, Feed(p, c).parser, sent \o Feed(p, c).out)
<1> DEFINE q == [p EXCEPT !.buffer = @ \o c]
<1>1. w \in Seq(Symbols) /\ c \in Seq(Symbols) /\ w \o c \in Texts
  BY TextLen DEF Texts
<1>2. p.buffer \in Texts
  BY ParserFields
<1>3. q \in Parsers /\ q.source = p.source /\ q.buffer = p.buffer \o c
  <2>1. p.buffer \in Seq(Symbols)
    BY <1>2, TextLen
  <2>2. p.buffer \o c \in Texts
    BY <1>1, <2>1 DEF Texts
  <2> QED
    BY <2>2 DEF Parsers
<1>4. CASE p.source = NoSource
  <2>1. sent = <<>> /\ q.buffer = w \o c
    BY <1>3, <1>4 DEF Follows
  <2>2. Feed(p, c) = Split[Started(q)]
    BY <1>4 DEF Feed
  <2> HIDE DEF q
  <2>3. /\ Split[Started(q)] \in Splits
        /\ Follows(w \o c, Split[Started(q)].parser, Split[Started(q)].out)
    BY <1>1, <1>3, <1>4, <2>1, StartFollows
  <2>4. Split[Started(q)].out \in Seq(ChatTokens)
    BY <2>3 DEF Splits, Tokens, ChatTokens
  <2>5. <<>> \o Split[Started(q)].out = Split[Started(q)].out
    BY <2>4
  <2> QED
    BY <2>1, <2>2, <2>3, <2>5
<1>5. CASE p.source # NoSource
  <2> DEFINE u == Padded(w)
  <2>1. Feed(p, c) = Split[q]
    BY <1>5 DEF Feed
  <2>2. ~ Undecided(w)
    BY <1>5 DEF Follows
  <2>3. PICK m \in 2..Len(u) : Reached(u, m, p, sent)
    BY <1>5 DEF Follows, Parsed
  <2>4. u \in Texts
    <3>1. Lead(w) \in Texts
      BY LeadFacts
    <3> QED
      BY <2>2, <3>1, PaddedIs, PadFacts
  <2>5. ~ Undecided(w \o c) /\ Padded(w \o c) = u \o c
    BY <2>2, DecidedGrows
  <2> HIDE DEF u, q
  <2>6. m \in 0..Len(u) /\ u \in Seq(Symbols)
    BY <2>4, TextLen
  <2>7. /\ Read(u \o c, m) = Read(u, m) /\ SourceAt(u \o c, m) = SourceAt(u, m)
        /\ Clear(u \o c, m) /\ u \o c \in Texts /\ m \in 0..Len(u \o c)
    BY <2>3, <2>4, <2>6, ReadOn DEF Reached
  <2>8. Drop(u \o c, m) = Drop(u, m) \o c
    BY <1>1, <2>6, DropConcat
  <2>9. Reached(u \o c, m, q, sent)
    BY <1>3, <2>3, <2>7, <2>8 DEF Reached
  <2>10. m \in 2..Len(u \o c)
    <3>1. Len(u \o c) \in Nat
      BY <2>7, TextLen
    <3> QED
      BY <2>7, <3>1
  <2>11. Split[q] \in Splits /\ Follows(w \o c, Split[q].parser, sent \o Split[q].out)
    BY <1>1, <1>3, <2>5, <2>7, <2>9, <2>10, SplitAgain
  <2> QED
    BY <2>1, <2>11
<1> QED
  BY <1>4, <1>5

\* A reading reads every place.
LEMMA ReadingIsRead ==
  ASSUME NEW w, Padded(w) \in Texts
  PROVE  Reading(w) = Read(Padded(w), Len(Padded(w)))
<1>1. DOMAIN Padded(w) = 1..Len(Padded(w))
  BY TextLen
<1> QED
  BY <1>1 DEF Reading, Read

\* A text that never became a tag holds none.
LEMMA UndecidedHasNoTag ==
  ASSUME NEW w \in Texts, Undecided(w)
  PROVE  TagFree(Pad(w), 1, Len(Pad(w)))
<1> DEFINE u == Pad(w)
<1>1. /\ u \in Texts /\ Len(u) = Len(w) + 2 /\ Len(w) \in Nat
      /\ u[1] = Newline /\ u[2] = Newline /\ \A i \in 1..Len(w) : u[2 + i] = w[i]
  BY PadFacts
<1> HIDE DEF u
<1>2. w \in Seq(Symbols)
  BY TextLen
<1>3. PICK k \in 0..Len(w) : Lead(w) = Drop(w, k) /\ \A i \in 1..k : w[i] \in Whitespace
  BY LeadFacts
<1>4. PICK t \in Sources : IsStrictPrefix(Lead(w), Marker[t])
  BY DEF Undecided
<1>5. /\ Len(Lead(w)) = Len(w) - k
      /\ \A i \in 1..(Len(w) - k) : Lead(w)[i] = w[k + i]
  BY <1>2, <1>3, DropFacts
<1>6. Len(Lead(w)) = 0 \/ (Len(Lead(w)) = 1 /\ Lead(w)[1] = Marker[t][1])
  BY <1>4, LeadFacts, StrictPrefixFacts
<1>7. ASSUME NEW i \in 1..Len(w) PROVE w[i] # ":"
  <2>1. CASE i <= k
    <3>1. i \in 1..k
      BY <2>1
    <3>2. w[i] \in Whitespace
      BY <1>3, <3>1
    <3> QED
      BY <3>2 DEF Whitespace, Newline, Blank
  <2>2. CASE ~ (i <= k)
    <3>1. i - k \in 1..(Len(w) - k) /\ k + (i - k) = i /\ Len(Lead(w)) = 1 /\ i - k = 1
      BY <1>1, <1>5, <1>6, <2>2
    <3>2. w[i] = Marker[t][1]
      BY <1>5, <1>6, <3>1
    <3> QED
      BY <3>2, MarkerFacts
  <2> QED
    BY <2>1, <2>2
<1>8. ASSUME NEW j \in 1..Len(u), NEW s \in Sources, TagAt(u, j, s) PROVE FALSE
  <2>1. j + 3 <= Len(u) /\ Fits(u, j, s)
    BY <1>1, <1>8, TagAtFacts
  <2>2. u[j + 3] = ":"
    BY <2>1 DEF Fits
  <2>3. j + 1 \in 1..Len(w) /\ 2 + (j + 1) = j + 3
    BY <1>1, <2>1
  <2>4. u[2 + (j + 1)] = w[j + 1]
    BY <1>1, <2>3
  <2> QED
    BY <1>7, <2>2, <2>3, <2>4
<1>9. TagFree(u, 1, Len(u))
  BY <1>8 DEF TagFree
<1> QED
  BY <1>9 DEF u

\* At the end of a text everything has been shown.
LEMMA FlushFollows ==
  ASSUME NEW w \in Texts, NEW p \in Parsers, NEW sent \in Tokens, Follows(w, p, sent)
  PROVE  Flush(p) \in Tokens /\ Shown(sent \o Flush(p)) = Reading(w)
<1>1. w \in Seq(Symbols) /\ Len(w) \in Nat /\ p.buffer \in Texts
  BY ParserFields, TextLen
<1>2. CASE p.source = NoSource
  <2> DEFINE u == Pad(w)
  <2>1. Undecided(w) /\ p.buffer = w /\ sent = <<>>
    BY <1>2 DEF Follows
  <2>2. Padded(w) = u /\ u \in Texts /\ Len(u) = Len(w) + 2 /\ Drop(u, 2) = w
    BY <2>1, PaddedIs, PadFacts
  <2>3. TagFree(u, 1, Len(u))
    BY <2>1, UndecidedHasNoTag
  <2>4. Read(u, 2) = <<>>
    BY ReadFrom
  <2> HIDE DEF u
  <2>5. 2 \in 2..Len(u) /\ Len(u) \in 2..Len(u) /\ 2 \in 0..Len(u)
    BY <1>1, <2>2
  <2>6. Whole(u, 2) /\ TagFree(u, 2 + 1, Len(u)) /\ TagFree(u, 1, 2)
    <3>1. /\ \A j \in 1..2 : j \in 1..Len(u)
          /\ \A j \in (2 + 1)..Len(u) : j \in 1..Len(u)
      BY <1>1, <2>2
    <3> QED
      BY <2>3, <3>1 DEF TagFree, Whole
  <2>7. SourceAt(u, 2) = "general" /\ "general" \in Sources
    BY <2>2, <2>5, <2>6, SourceWithoutTag DEF Sources
  <2>8. SubSeq(u, 2 + 1, Len(u)) = w
    BY <2>2 DEF Drop
  <2>9. Read(u, Len(u)) = Read(u, 2) \o ShownOf(w, "general")
    BY <2>2, <2>5, <2>6, <2>7, <2>8, ReadPlain
  <2>10. ShownOf(w, "general") \in Seq(Cells)
    BY <2>7, ShownOfType
  <2>11. <<>> \o ShownOf(w, "general") = ShownOf(w, "general")
    BY <2>10
  <2>12. Reading(w) = ShownOf(w, "general")
    BY <2>2, <2>4, <2>9, <2>11, ReadingIsRead
  <2>13. Flush(p) = Token("general", w)
    BY <1>2, <2>1 DEF Flush
  <2>14. Flush(p) \in Tokens /\ Shown(Flush(p)) = ShownOf(w, "general")
    BY <2>7, <2>13, TokenType, ShownToken
  <2>15. <<>> \o Flush(p) = Flush(p)
    <3>1. Flush(p) \in Seq(ChatTokens)
      BY <2>14 DEF Tokens, ChatTokens
    <3> QED
      BY <3>1
  <2> QED
    BY <2>1, <2>12, <2>14, <2>15
<1>3. CASE p.source # NoSource
  <2> DEFINE u == Padded(w)
  <2>1. ~ Undecided(w)
    BY <1>3 DEF Follows
  <2>2. PICK m \in 2..Len(u) : Reached(u, m, p, sent) /\ TagFree(u, m + 1, Len(u))
    BY <1>3 DEF Follows, Parsed
  <2>3. u \in Texts
    <3>1. Lead(w) \in Texts
      BY LeadFacts
    <3> QED
      BY <2>1, <3>1, PaddedIs, PadFacts
  <2>4. Reading(w) = Read(u, Len(u))
    BY <2>3, ReadingIsRead
  <2> HIDE DEF u
  <2>5. Len(u) \in Nat /\ m \in 0..Len(u) /\ Len(u) \in m..Len(u)
    BY <2>3, TextLen
  <2>6. Whole(u, m)
    BY <2>2, <2>3, <2>5, ClearIsWhole DEF Reached
  <2>7. SourceAt(u, m) = p.source /\ p.source \in Sources
    BY <2>2, <2>3, <2>5, SourceAtType DEF Reached
  <2>8. SubSeq(u, m + 1, Len(u)) = p.buffer
    BY <2>2 DEF Reached, Drop
  <2>9. Read(u, Len(u)) = Read(u, m) \o ShownOf(p.buffer, p.source)
    BY <2>2, <2>3, <2>5, <2>6, <2>7, <2>8, ReadPlain
  <2>10. Flush(p) = Token(p.source, p.buffer)
    BY <1>3 DEF Flush
  <2>11. Flush(p) \in Tokens /\ Shown(sent \o Flush(p)) = Shown(sent) \o ShownOf(p.buffer, p.source)
    BY <1>1, <2>7, <2>10, TokenType, SendToken
  <2>12. Shown(sent) = Read(u, m)
    BY <2>2 DEF Reached
  <2> QED
    BY <2>4, <2>9, <2>11, <2>12
<1> QED
  BY <1>2, <1>3

\* Nothing that was shown is taken back.
LEMMA ShownIsPrefix ==
  ASSUME NEW w \in Texts, NEW p \in Parsers, NEW sent \in Tokens, Follows(w, p, sent)
  PROVE  IsPrefix(Shown(sent), Reading(w))
<1>1. Flush(p) \in Tokens /\ Shown(sent \o Flush(p)) = Reading(w)
  BY FlushFollows
<1>2. Shown(sent \o Flush(p)) = Shown(sent) \o Shown(Flush(p))
  BY <1>1, ShownConcat
<1>3. Shown(sent) \in Seq(Cells) /\ Shown(Flush(p)) \in Seq(Cells)
  BY <1>1, ShownPieces
<1>4. IsPrefix(Shown(sent), Shown(sent) \o Shown(Flush(p)))
  BY <1>3, ConcatPrefix
<1> QED
  BY <1>1, <1>2, <1>4

-----------------------------------------------------------------------------
(***************************************************************************)
(* The conversation.  Typed, Parsing and Delivered are its inductive       *)
(* invariant: what the parser has sent is what it has read of the text,    *)
(* and what the panel shows and the wire carries is what was sent.         *)
(***************************************************************************)

Typed ==
  /\ TypeOK
  /\ answer.phase # "idle" => panel.question \in Questions

\* The parser follows what a streaming model has said; another is not heard before
\* its end.
Parsing ==
  /\ answer.phase = "received" =>
       answer.parser = NewParser /\ answer.sent = <<>> /\ ~ answer.streamed
  /\ answer.phase = "talking" =>
       /\ answer.said # <<>>
       /\ answer.streams => Follows(FlattenSeq(answer.said), answer.parser, answer.sent)
       /\ ~ answer.streamed => answer.sent = <<>>
       /\ answer.streamed => answer.streams
  /\ answer.phase = "done" => Shown(answer.sent) = Reading(Spoken(answer))

EventText(event) == IF event.event = "token" THEN event.token.text ELSE <<>>

WireText(events) == FlattenSeq([k \in DOMAIN events |-> EventText(events[k])])

On(kind) == {k \in DOMAIN wire : wire[k].event = kind}

\* No event overtakes or contradicts another.
Delivered ==
  /\ answer.phase \in {"idle", "received"} => wire = <<>>
  /\ answer.phase # "idle" =>
       panel.pending /\ TextOf(panel.segments) \o WireText(wire) = TextOf(answer.sent)
  /\ answer.phase \in {"received", "talking"} =>
       /\ On("done") = {} /\ On("error") = {} /\ panel.error = "none"
       /\ ~ panel.done
  /\ answer.phase = "failed" => On("done") = {} /\ ~ panel.done
  /\ answer.phase = "done" =>
       /\ On("error") = {} /\ panel.error = "none"
       /\ "unavailable" \notin answer.results
       /\ \A k \in On("done") : wire[k].results = answer.results
       /\ panel.done => panel.results = answer.results

ConversationInv == Typed /\ Parsing /\ Delivered

\* A sequence is a concatenation if it agrees with both parts.
LEMMA Glue ==
  ASSUME NEW S, NEW q \in Seq(S), NEW r \in Seq(S), NEW t \in Seq(S),
         Len(t) = Len(q) + Len(r), AgreeUpTo(q, t, Len(q)),
         \A i \in 1..Len(r) : t[Len(q) + i] = r[i]
  PROVE  t = q \o r
<1>1. /\ q \o r \in Seq(S) /\ Len(q \o r) = Len(q) + Len(r)
      /\ \A i \in 1..Len(q) : (q \o r)[i] = q[i]
      /\ \A i \in 1..Len(r) : (q \o r)[Len(q) + i] = r[i]
  OBVIOUS
<1>2. Len(q) \in Nat /\ Len(r) \in Nat /\ Len(t) \in Nat
  OBVIOUS
<1>3. ASSUME NEW k \in 1..Len(t) PROVE t[k] = (q \o r)[k]
  <2>1. CASE k <= Len(q)
    BY <1>1, <1>2, <2>1 DEF AgreeUpTo
  <2>2. CASE ~ (k <= Len(q))
    <3>1. k - Len(q) \in 1..Len(r) /\ Len(q) + (k - Len(q)) = k
      BY <1>2, <2>2
    <3>2. t[Len(q) + (k - Len(q))] = r[k - Len(q)]
      BY <3>1
    <3>3. (q \o r)[Len(q) + (k - Len(q))] = r[k - Len(q)]
      BY <1>1, <3>1
    <3> QED
      BY <3>1, <3>2, <3>3
  <2> QED
    BY <2>1, <2>2
<1>4. AgreeUpTo(t, q \o r, Len(t))
  BY <1>3 DEF AgreeUpTo
<1> QED
  BY <1>1, <1>4, SameSequence

\* The first piece comes first.
LEMMA FlattenHead ==
  ASSUME NEW S, NEW q \in Seq(Seq(S)), q # <<>>
  PROVE  FlattenSeq(q) = q[1] \o FlattenSeq(Tail(q))
<1> DEFINE X == Seq(S)
<1>1. q \in Seq(X) /\ q # <<>>
  OBVIOUS
<1> HIDE DEF X
<1>2. /\ Len(q) \in Nat \ {0} /\ q[1] \in X /\ Tail(q) \in Seq(X) /\ Len(Tail(q)) = Len(q) - 1
      /\ \A i \in 1..(Len(q) - 1) : Tail(q)[i] = q[1 + i]
      /\ <<q[1]>> \in Seq(X) /\ Len(<<q[1]>>) = 1 /\ (<<q[1]>>)[1] = q[1]
  BY <1>1
<1> DEFINE h == <<q[1]>>
           r == Tail(q)
<1> HIDE DEF h, r
<1>3. /\ h \in Seq(X) /\ r \in Seq(X) /\ Len(h) = 1 /\ h[1] = q[1] /\ Len(q) = Len(h) + Len(r)
      /\ \A i \in 1..Len(r) : q[Len(h) + i] = r[i]
  BY <1>2 DEF h, r
<1>4. AgreeUpTo(h, q, Len(h))
  BY <1>3 DEF AgreeUpTo
<1>5. q = h \o r
  BY <1>1, <1>3, <1>4, Glue
<1>6. FlattenSeq(h \o r) = FlattenSeq(h) \o FlattenSeq(r)
  BY <1>3, FlattenConcat DEF X
<1>7. FlattenSeq(h) = q[1]
  BY <1>2, FlattenOne DEF h, X
<1> QED
  BY <1>5, <1>6, <1>7 DEF r

TextsOf(tokens) == [k \in DOMAIN tokens |-> tokens[k].text]

\* The text of tokens, piece by piece.
LEMMA TextOfType ==
  ASSUME NEW q \in Tokens
  PROVE  /\ TextsOf(q) \in Seq(Texts) /\ Len(TextsOf(q)) = Len(q)
         /\ \A k \in 1..Len(q) : TextsOf(q)[k] = q[k].text
         /\ TextOf(q) = FlattenSeq(TextsOf(q)) /\ TextOf(q) \in Texts
<1>1. q \in Seq(ChatTokens)
  BY DEF Tokens, ChatTokens
<1>2. Len(q) \in Nat /\ DOMAIN q = 1..Len(q) /\ \A k \in 1..Len(q) : q[k] \in ChatTokens
  BY <1>1
<1>3. \A k \in 1..Len(q) : q[k].text \in Texts
  BY <1>2 DEF ChatTokens
<1>4. /\ TextsOf(q) \in Seq(Texts) /\ Len(TextsOf(q)) = Len(q)
      /\ \A k \in 1..Len(q) : TextsOf(q)[k] = q[k].text
  <2> DEFINE r == [k \in 1..Len(q) |-> q[k].text]
  <2>1. r \in Seq(Texts) /\ Len(r) = Len(q)
    BY <1>2, <1>3
  <2>2. TextsOf(q) = r
    BY <1>2 DEF TextsOf
  <2> QED
    BY <2>1, <2>2
<1>5. FlattenSeq(TextsOf(q)) \in Texts
  BY <1>4, FlattenType DEF Texts
<1>6. TextOf(q) = FlattenSeq(TextsOf(q))
  BY DEF TextOf, TextsOf
<1> QED
  BY <1>4, <1>5, <1>6

\* The facts on FlattenSeq, for texts.
LEMMA FlattenTexts ==
  ASSUME NEW q \in Seq(Texts), NEW r \in Seq(Texts), NEW w \in Texts
  PROVE  /\ FlattenSeq(q) \in Texts
         /\ FlattenSeq(q \o r) = FlattenSeq(q) \o FlattenSeq(r)
         /\ FlattenSeq(Append(q, w)) = FlattenSeq(q) \o w
         /\ q # <<>> => FlattenSeq(q) = q[1] \o FlattenSeq(Tail(q))
         /\ FlattenSeq(<<w>>) = w
<1>1. q \in Seq(Seq(Symbols)) /\ r \in Seq(Seq(Symbols)) /\ w \in Seq(Symbols)
  BY DEF Texts
<1>2. FlattenSeq(q) \in Texts
  BY <1>1, FlattenType DEF Texts
<1>3. FlattenSeq(q \o r) = FlattenSeq(q) \o FlattenSeq(r)
  BY <1>1, FlattenConcat
<1>4. FlattenSeq(Append(q, w)) = FlattenSeq(q) \o w
  BY <1>1, FlattenAppend
<1>5. q # <<>> => FlattenSeq(q) = q[1] \o FlattenSeq(Tail(q))
  BY <1>1, FlattenHead
<1>6. FlattenSeq(<<w>>) = w
  BY <1>1, FlattenOne
<1> QED
  BY <1>2, <1>3, <1>4, <1>5, <1>6

LEMMA TextsConcat ==
  ASSUME NEW v \in Texts, NEW w \in Texts, NEW x \in Texts
  PROVE  /\ v \o w \in Texts /\ (v \o w) \o x = v \o (w \o x)
         /\ v \o <<>> = v /\ <<>> \o v = v /\ <<>> \in Texts
<1>1. v \in Seq(Symbols) /\ w \in Seq(Symbols) /\ x \in Seq(Symbols)
  BY TextLen
<1>2. (v \o w) \o x = v \o (w \o x)
  BY <1>1, ConcatAssoc
<1> QED
  BY <1>1, <1>2 DEF Texts

\* Tokens have the text of each, one behind the other.
LEMMA TextOfConcat ==
  ASSUME NEW q \in Tokens, NEW r \in Tokens
  PROVE  q \o r \in Tokens /\ TextOf(q \o r) = TextOf(q) \o TextOf(r)
<1> DEFINE t == q \o r
<1>1. q \in Seq(ChatTokens) /\ r \in Seq(ChatTokens)
  BY DEF Tokens, ChatTokens
<1>2. /\ t \in Seq(ChatTokens) /\ Len(t) = Len(q) + Len(r) /\ Len(q) \in Nat /\ Len(r) \in Nat
      /\ \A i \in 1..Len(q) : t[i] = q[i]
      /\ \A i \in 1..Len(r) : t[Len(q) + i] = r[i]
  BY <1>1
<1> HIDE DEF t
<1>3. t \in Tokens
  BY <1>2 DEF Tokens, ChatTokens
<1>4. /\ TextsOf(q) \in Seq(Texts) /\ TextsOf(r) \in Seq(Texts) /\ TextsOf(t) \in Seq(Texts)
      /\ Len(TextsOf(t)) = Len(TextsOf(q)) + Len(TextsOf(r))
      /\ Len(TextsOf(q)) = Len(q) /\ Len(TextsOf(r)) = Len(r)
  BY <1>2, <1>3, TextOfType
<1>5. AgreeUpTo(TextsOf(q), TextsOf(t), Len(q))
  <2>1. \A i \in 1..Len(q) : i \in 1..Len(t)
    BY <1>2
  <2>2. \A i \in 1..Len(q) : TextsOf(q)[i] = q[i].text /\ TextsOf(t)[i] = t[i].text
    BY <1>3, <2>1, TextOfType
  <2> QED
    BY <1>2, <2>2 DEF AgreeUpTo
<1>6. \A i \in 1..Len(r) : TextsOf(t)[Len(q) + i] = TextsOf(r)[i]
  <2>1. \A i \in 1..Len(r) : Len(q) + i \in 1..Len(t)
    BY <1>2
  <2>2. \A i \in 1..Len(r) : /\ TextsOf(r)[i] = r[i].text
                             /\ TextsOf(t)[Len(q) + i] = t[Len(q) + i].text
    BY <1>3, <2>1, TextOfType
  <2> QED
    BY <1>2, <2>2
<1>7. TextsOf(t) = TextsOf(q) \o TextsOf(r)
  <2> DEFINE a == TextsOf(q)
             b == TextsOf(r)
             d == TextsOf(t)
  <2>1. /\ a \in Seq(Texts) /\ b \in Seq(Texts) /\ d \in Seq(Texts)
        /\ Len(d) = Len(a) + Len(b) /\ AgreeUpTo(a, d, Len(a))
        /\ \A i \in 1..Len(b) : d[Len(a) + i] = b[i]
    BY <1>4, <1>5, <1>6
  <2> HIDE DEF a, b, d
  <2>2. d = a \o b
    BY <2>1, Glue
  <2> QED
    BY <2>2 DEF a, b, d
<1>8. FlattenSeq(TextsOf(q) \o TextsOf(r)) = FlattenSeq(TextsOf(q)) \o FlattenSeq(TextsOf(r))
  <2> DEFINE a == TextsOf(q)
             b == TextsOf(r)
  <2>1. a \in Seq(Seq(Symbols)) /\ b \in Seq(Seq(Symbols))
    BY <1>4 DEF Texts
  <2> HIDE DEF a, b
  <2>2. FlattenSeq(a \o b) = FlattenSeq(a) \o FlattenSeq(b)
    BY <2>1, FlattenConcat
  <2> QED
    BY <2>2 DEF a, b
<1>9. TextOf(t) = TextOf(q) \o TextOf(r)
  BY <1>3, <1>7, <1>8, TextOfType
<1> QED
  BY <1>3, <1>9 DEF t

LEMMA TextOfNone == TextOf(<<>>) = <<>>
<1>1. [k \in DOMAIN <<>> |-> (<<>>)[k].text] = <<>>
  OBVIOUS
<1> QED
  BY <1>1, FlattenEmpty DEF TextOf

\* A token more.
LEMMA TextOfAppend ==
  ASSUME NEW q \in Tokens, NEW x \in ChatTokens
  PROVE  Append(q, x) \in Tokens /\ TextOf(Append(q, x)) = TextOf(q) \o x.text
<1>1. q \in Seq(ChatTokens)
  BY DEF Tokens, ChatTokens
<1> DEFINE t == Append(q, x)
<1>2. /\ t \in Seq(ChatTokens) /\ Len(t) = Len(q) + 1 /\ Len(q) \in Nat /\ t[Len(q) + 1] = x
      /\ \A i \in 1..Len(q) : t[i] = q[i]
  BY <1>1
<1> HIDE DEF t
<1>3. t \in Tokens /\ x.text \in Texts
  BY <1>2 DEF Tokens, ChatTokens
<1>4. /\ TextsOf(q) \in Seq(Texts) /\ TextsOf(t) \in Seq(Texts)
      /\ Len(TextsOf(q)) = Len(q) /\ Len(TextsOf(t)) = Len(t)
      /\ \A k \in 1..Len(q) : TextsOf(q)[k] = q[k].text
      /\ \A k \in 1..Len(t) : TextsOf(t)[k] = t[k].text
  BY <1>3, TextOfType
<1>5. /\ Append(TextsOf(q), x.text) \in Seq(Texts)
      /\ Len(Append(TextsOf(q), x.text)) = Len(t)
      /\ \A k \in 1..Len(t) : Append(TextsOf(q), x.text)[k] = TextsOf(t)[k]
  <2> DEFINE b == TextsOf(q)
             y == x.text
  <2>1. b \in Seq(Texts) /\ y \in Texts
    BY <1>3, <1>4
  <2>2. /\ Append(b, y) \in Seq(Texts) /\ Len(Append(b, y)) = Len(b) + 1
        /\ Append(b, y)[Len(b) + 1] = y /\ \A i \in 1..Len(b) : Append(b, y)[i] = b[i]
    BY <2>1, AppendFacts
  <2>3. \A k \in 1..Len(t) : k \in 1..Len(q) \/ k = Len(q) + 1
    BY <1>2
  <2> QED
    BY <1>2, <1>4, <2>2, <2>3
<1>6. TextsOf(t) = Append(TextsOf(q), x.text)
  BY <1>4, <1>5, SameSequence DEF AgreeUpTo
<1>7. FlattenSeq(Append(TextsOf(q), x.text)) = FlattenSeq(TextsOf(q)) \o x.text
  BY <1>3, <1>4, FlattenTexts
<1>8. TextOf(t) = TextOf(q) \o x.text
  BY <1>3, <1>6, <1>7, TextOfType
<1> QED
  BY <1>3, <1>8 DEF t

EventTexts(events) == [k \in DOMAIN events |-> EventText(events[k])]

\* The text on the wire, event by event.
LEMMA WireTextType ==
  ASSUME NEW q \in Seq(Events)
  PROVE  /\ EventTexts(q) \in Seq(Texts) /\ Len(EventTexts(q)) = Len(q)
         /\ \A k \in 1..Len(q) : EventTexts(q)[k] = EventText(q[k])
         /\ WireText(q) = FlattenSeq(EventTexts(q)) /\ WireText(q) \in Texts
<1>1. Len(q) \in Nat /\ DOMAIN q = 1..Len(q) /\ \A k \in 1..Len(q) : q[k] \in Events
  OBVIOUS
<1>2. \A e \in Events : EventText(e) \in Texts
  BY DEF Events, EventText, Texts
<1>3. /\ EventTexts(q) \in Seq(Texts) /\ Len(EventTexts(q)) = Len(q)
      /\ \A k \in 1..Len(q) : EventTexts(q)[k] = EventText(q[k])
  <2> DEFINE r == [k \in 1..Len(q) |-> EventText(q[k])]
  <2>1. r \in Seq(Texts) /\ Len(r) = Len(q)
    BY <1>1, <1>2
  <2>2. EventTexts(q) = r
    BY <1>1 DEF EventTexts
  <2> QED
    BY <2>1, <2>2
<1>4. FlattenSeq(EventTexts(q)) \in Texts
  BY <1>3, FlattenType DEF Texts
<1>5. WireText(q) = FlattenSeq(EventTexts(q))
  BY DEF WireText, EventTexts
<1> QED
  BY <1>3, <1>4, <1>5

\* What is sent later comes later.
LEMMA WireTextConcat ==
  ASSUME NEW q \in Seq(Events), NEW r \in Seq(Events)
  PROVE  q \o r \in Seq(Events) /\ WireText(q \o r) = WireText(q) \o WireText(r)
<1> DEFINE t == q \o r
<1>1. /\ t \in Seq(Events) /\ Len(t) = Len(q) + Len(r) /\ Len(q) \in Nat /\ Len(r) \in Nat
      /\ \A i \in 1..Len(q) : t[i] = q[i]
      /\ \A i \in 1..Len(r) : t[Len(q) + i] = r[i]
  OBVIOUS
<1> HIDE DEF t
<1> DEFINE a == EventTexts(q)
           b == EventTexts(r)
           d == EventTexts(t)
<1>2. /\ a \in Seq(Texts) /\ Len(a) = Len(q) /\ \A k \in 1..Len(q) : a[k] = EventText(q[k])
      /\ WireText(q) = FlattenSeq(a)
  BY WireTextType
<1>3. /\ b \in Seq(Texts) /\ Len(b) = Len(r) /\ \A k \in 1..Len(r) : b[k] = EventText(r[k])
      /\ WireText(r) = FlattenSeq(b)
  BY WireTextType
<1>4. /\ d \in Seq(Texts) /\ Len(d) = Len(t) /\ \A k \in 1..Len(t) : d[k] = EventText(t[k])
      /\ WireText(t) = FlattenSeq(d)
  BY <1>1, WireTextType
<1> HIDE DEF a, b, d
<1>5. AgreeUpTo(a, d, Len(a))
  <2>1. \A i \in 1..Len(q) : i \in 1..Len(t)
    BY <1>1
  <2> QED
    BY <1>1, <1>2, <1>4, <2>1 DEF AgreeUpTo
<1>6. \A i \in 1..Len(b) : d[Len(a) + i] = b[i]
  <2>1. \A i \in 1..Len(r) : Len(q) + i \in 1..Len(t)
    BY <1>1
  <2> QED
    BY <1>1, <1>2, <1>3, <1>4, <2>1
<1>7. d = a \o b
  <2>1. /\ a \in Seq(Texts) /\ b \in Seq(Texts) /\ d \in Seq(Texts)
        /\ Len(d) = Len(a) + Len(b)
    BY <1>1, <1>2, <1>3, <1>4
  <2> QED
    BY <1>5, <1>6, <2>1, Glue
<1>8. FlattenSeq(a \o b) = FlattenSeq(a) \o FlattenSeq(b)
  <2>1. a \in Seq(Seq(Symbols)) /\ b \in Seq(Seq(Symbols))
    BY <1>2, <1>3 DEF Texts
  <2> QED
    BY <2>1, FlattenConcat
<1>9. WireText(t) = WireText(q) \o WireText(r)
  BY <1>2, <1>3, <1>4, <1>7, <1>8
<1> QED
  BY <1>1, <1>9 DEF t

LEMMA WireTextNone == WireText(<<>>) = <<>> /\ <<>> \in Seq(Events)
<1>1. [k \in DOMAIN <<>> |-> EventText((<<>>)[k])] = <<>>
  OBVIOUS
<1> QED
  BY <1>1, FlattenEmpty DEF WireText

LEMMA WireTextOne ==
  ASSUME NEW e \in Events
  PROVE  WireText(<<e>>) = EventText(e) /\ <<e>> \in Seq(Events)
<1> DEFINE q == <<e>>
           d == EventTexts(q)
           x == EventText(e)
<1>1. q \in Seq(Events) /\ Len(q) = 1 /\ q[1] = e
  OBVIOUS
<1> HIDE DEF q
<1>2. /\ d \in Seq(Texts) /\ Len(d) = Len(q) /\ \A k \in 1..Len(q) : d[k] = EventText(q[k])
      /\ WireText(q) = FlattenSeq(d)
  BY <1>1, WireTextType
<1>3. x \in Texts
  BY DEF Events, EventText, Texts
<1> HIDE DEF d, x
<1>4. d[1] = x /\ Len(d) = 1
  BY <1>1, <1>2 DEF x
<1>5. <<x>> \in Seq(Texts) /\ Len(<<x>>) = 1 /\ (<<x>>)[1] = x
  BY <1>3
<1>6. d = <<x>>
  <2> DEFINE y == <<x>>
  <2> HIDE DEF y
  <2>1. d \in Seq(Texts) /\ y \in Seq(Texts) /\ Len(d) = 1 /\ Len(y) = 1 /\ d[1] = y[1]
    BY <1>2, <1>4, <1>5 DEF y
  <2>2. AgreeUpTo(d, y, Len(d))
    BY <2>1 DEF AgreeUpTo
  <2>3. d = y
    BY <2>1, <2>2, SameSequence
  <2> QED
    BY <2>3 DEF y
<1>7. WireText(q) = x
  BY <1>2, <1>3, <1>6, FlattenOne DEF Texts
<1> QED
  BY <1>1, <1>7 DEF q, x

\* What is heard is the first of what is sent.
LEMMA WireTextHead ==
  ASSUME NEW q \in Seq(Events), q # <<>>
  PROVE  /\ Head(q) \in Events /\ Tail(q) \in Seq(Events)
         /\ WireText(q) = EventText(Head(q)) \o WireText(Tail(q))
         /\ 1 \in DOMAIN q /\ Head(q) = q[1]
         /\ \A k \in DOMAIN Tail(q) : k + 1 \in DOMAIN q /\ Tail(q)[k] = q[k + 1]
<1> DEFINE h == <<Head(q)>>
           r == Tail(q)
<1>1. /\ Len(q) \in Nat \ {0} /\ Head(q) = q[1] /\ Head(q) \in Events /\ r \in Seq(Events)
      /\ Len(r) = Len(q) - 1 /\ \A i \in 1..(Len(q) - 1) : r[i] = q[i + 1]
      /\ DOMAIN q = 1..Len(q) /\ DOMAIN r = 1..(Len(q) - 1)
  OBVIOUS
<1>2. h \in Seq(Events) /\ Len(h) = 1 /\ h[1] = q[1]
  BY <1>1
<1>3. WireText(h) = EventText(Head(q))
  BY <1>1, WireTextOne
<1> HIDE DEF h, r
<1>4. AgreeUpTo(h, q, Len(h)) /\ Len(q) = Len(h) + Len(r) /\ \A i \in 1..Len(r) : q[Len(h) + i] = r[i]
  BY <1>1, <1>2 DEF AgreeUpTo
<1>5. q = h \o r
  BY <1>1, <1>2, <1>4, Glue
<1>6. WireText(h \o r) = WireText(h) \o WireText(r)
  BY <1>1, <1>2, WireTextConcat
<1>7. 1 \in DOMAIN q /\ \A k \in DOMAIN r : k + 1 \in DOMAIN q /\ r[k] = q[k + 1]
  BY <1>1
<1> QED
  BY <1>1, <1>3, <1>5, <1>6, <1>7 DEF r

\* Tokens travel with their text, and as nothing else.
LEMMA TokenEventsFacts ==
  ASSUME NEW q \in Tokens
  PROVE  /\ TokenEvents(q) \in Seq(Events)
         /\ WireText(TokenEvents(q)) = TextOf(q)
         /\ \A k \in DOMAIN TokenEvents(q) : TokenEvents(q)[k].event = "token"
<1> DEFINE r == TokenEvents(q)
<1>1. q \in Seq(ChatTokens)
  BY DEF Tokens, ChatTokens
<1>2. Len(q) \in Nat /\ DOMAIN q = 1..Len(q) /\ \A k \in 1..Len(q) : q[k] \in ChatTokens
  BY <1>1
<1>3. r = [k \in 1..Len(q) |-> [event |-> "token", token |-> q[k]]]
  BY <1>2 DEF TokenEvents
<1>4. \A x \in ChatTokens : [event |-> "token", token |-> x] \in Events
  BY DEF ChatTokens, Events
<1>5. r \in Seq(Events)
  BY <1>2, <1>3, <1>4
<1>6. DOMAIN r = 1..Len(q) /\ \A k \in 1..Len(q) : r[k] = [event |-> "token", token |-> q[k]]
  BY <1>3
<1> HIDE DEF r
<1>7. \A k \in 1..Len(q) : EventText(r[k]) = q[k].text
  BY <1>6 DEF EventText
<1>8. EventTexts(r) = TextsOf(q)
  BY <1>2, <1>6, <1>7 DEF EventTexts, TextsOf
<1>9. WireText(r) = TextOf(q)
  BY <1>5, <1>8, WireTextType, TextOfType
<1>10. \A k \in DOMAIN r : r[k].event = "token"
  BY <1>6
<1> QED
  BY <1>5, <1>9, <1>10 DEF r

-----------------------------------------------------------------------------
(* What the model says.                                                    *)

\* The message goes on.
LEMMA SaidMore ==
  ASSUME NEW q \in Seq(Texts), q # <<>>, NEW c \in Texts
  PROVE  /\ [q EXCEPT ![Len(q)] = @ \o c] \in Seq(Texts)
         /\ [q EXCEPT ![Len(q)] = @ \o c] # <<>>
         /\ FlattenSeq([q EXCEPT ![Len(q)] = @ \o c]) = FlattenSeq(q) \o c
<1> DEFINE t == [q EXCEPT ![Len(q)] = @ \o c]
<1>1. PICK r \in Seq(Texts), x \in Texts : q = Append(r, x) /\ Len(q) = Len(r) + 1
  BY LastOf
<1>2. /\ Len(r) \in Nat /\ Len(q) \in Nat /\ DOMAIN q = 1..Len(q) /\ q[Len(q)] = x
      /\ \A i \in 1..Len(r) : q[i] = r[i]
  BY <1>1, AppendFacts
<1>3. PICK y \in Texts : y = x \o c
  BY TextsConcat
<1> DEFINE u == Append(r, y)
<1>4. /\ u \in Seq(Texts) /\ Len(u) = Len(r) + 1 /\ u[Len(r) + 1] = y
      /\ \A i \in 1..Len(r) : u[i] = r[i]
      /\ u # <<>>
  BY AppendFacts
<1>5. PICK n \in Nat : n = Len(q) /\ n = Len(r) + 1
  BY <1>1, <1>2
<1>6. t = [i \in 1..n |-> IF i = n THEN y ELSE q[i]]
  BY <1>2, <1>3, <1>5
<1> HIDE DEF t, u
<1>7. t \in Seq(Texts) /\ Len(t) = n /\ \A i \in 1..n : t[i] = u[i]
  <2>1. \A i \in 1..n : i # n => i \in 1..Len(r)
    BY <1>2, <1>5
  <2>2. \A i \in 1..n : (IF i = n THEN y ELSE q[i]) = u[i]
    BY <1>2, <1>4, <1>5, <2>1
  <2>3. \A i \in 1..n : u[i] \in Texts
    BY <1>4, <1>5
  <2>4. t = [i \in 1..n |-> u[i]]
    BY <1>6, <2>2
  <2> QED
    BY <2>3, <2>4
<1>8. t = u
  BY <1>4, <1>5, <1>7, SameSequence DEF AgreeUpTo
<1>9. FlattenSeq(q) = FlattenSeq(r) \o x /\ FlattenSeq(u) = FlattenSeq(r) \o y
  BY <1>1, FlattenTexts DEF u
<1>10. PICK f \in Texts : f = FlattenSeq(r)
  BY FlattenTexts
<1>11. (f \o x) \o c = f \o (x \o c)
  <2>1. f \in Seq(Symbols) /\ x \in Seq(Symbols) /\ c \in Seq(Symbols)
    BY TextLen
  <2> QED
    BY <2>1, ConcatAssoc
<1>12. FlattenSeq(t) = FlattenSeq(q) \o c
  BY <1>3, <1>8, <1>9, <1>10, <1>11
<1> QED
  BY <1>4, <1>7, <1>8, <1>12 DEF t

\* The fallback is a text.
LEMMA LastTextType ==
  ASSUME NEW given \in Seq(Exchange), NEW said \in Seq(Texts)
  PROVE  LastText(given, said) \in Texts
<1> DEFINE g == [k \in DOMAIN given |-> given[k].text]
           texts == g \o said
           spoken == {k \in DOMAIN texts : texts[k] # <<>>}
<1>1. g \in Seq(Texts)
  <2>1. /\ Len(given) \in Nat /\ DOMAIN given = 1..Len(given)
        /\ \A k \in 1..Len(given) : given[k] \in Exchange
    OBVIOUS
  <2>2. \A k \in 1..Len(given) : given[k].text \in Texts
    BY <2>1 DEF Exchange
  <2>3. [k \in 1..Len(given) |-> given[k].text] \in Seq(Texts)
    BY <2>1, <2>2
  <2> QED
    BY <2>1, <2>3
<1> HIDE DEF g
<1>2. texts \in Seq(Texts)
  BY <1>1
<1>3. LastText(given, said) = IF spoken = {} THEN <<>> ELSE texts[Max(spoken)]
  BY DEF LastText, g
<1> HIDE DEF texts
<1>4. Len(texts) \in Nat /\ DOMAIN texts = 1..Len(texts)
  BY <1>2
<1>5. spoken \in SUBSET Nat /\ \A n \in spoken : n <= Len(texts)
  BY <1>4
<1>6. spoken # {} => Max(spoken) \in spoken
  BY <1>4, <1>5, MaxFacts
<1>7. spoken # {} => texts[Max(spoken)] \in Texts
  BY <1>2, <1>4, <1>6
<1>8. <<>> \in Texts
  BY DEF Texts
<1> QED
  BY <1>3, <1>7, <1>8

-----------------------------------------------------------------------------
(* Every step keeps the types.                                             *)

\* The steps, one by one.
LEMMA NextCases ==
  ASSUME Next
  PROVE  \/ \E q \in Questions : Type(q)
         \/ SendMessage
         \/ Refuse \/ IssueMissing \/ DataUnavailable \/ StartGraph
         \/ \E c \in Chunks : Say(c)
         \/ \E t \in Tools, brought \in SUBSET Results : CallTool(t, brought)
         \/ ToolRaises \/ AgentFails \/ Finish
         \/ Hear \/ EndOfResponse \/ ConnectionLost
  BY DEF Next, Server

LEMMA NoAnswerTyped == NoAnswer \in Answer
<1>1. <<>> \in Seq(Exchange) /\ <<>> \in Seq(Texts) /\ <<>> \in Tokens
  BY ShownNone
<1> QED
  BY <1>1, NewFollows DEF NoAnswer, Answer

LEMMA PanelFields ==
  ASSUME NEW p \in Panel
  PROVE  /\ p.input \in Questions \cup {NoQuestion} /\ p.question \in Questions \cup {NoQuestion}
         /\ p.pending \in BOOLEAN /\ p.done \in BOOLEAN /\ p.results \in SUBSET Results
         /\ p.segments \in Tokens /\ p.error \in Failures \cup {"none"}
         /\ p.history \in Seq(Exchange)
  BY DEF Panel

LEMMA AnswerFields ==
  ASSUME NEW a \in Answer
  PROVE  /\ a.phase \in {"idle", "received", "talking", "done", "failed"}
         /\ a.given \in Seq(Exchange) /\ a.streams \in BOOLEAN /\ a.parser \in Parsers
         /\ a.streamed \in BOOLEAN /\ a.emitted \in SUBSET Tools
         /\ a.results \in SUBSET Results /\ a.calls \in Nat /\ a.chunks \in Nat
         /\ a.said \in Seq(Texts) /\ a.sent \in Tokens
  BY DEF Answer

LEMMA SettledTyped ==
  ASSUME NEW p \in Panel
  PROVE  /\ Settled(p) \in Panel
         /\ Settled(p).history = p.history /\ Settled(p).question = p.question
  BY DEF Panel, Settled

LEMMA ErrorEvent ==
  ASSUME NEW reason \in Failures
  PROVE  [event |-> "error", reason |-> reason] \in Events
  BY DEF Events

LEMMA WireGrows ==
  ASSUME NEW q \in Seq(Events), NEW e \in Events
  PROVE  /\ q \o <<e>> \in Seq(Events) /\ q \o <<>> \in Seq(Events)
         /\ Append(q, e) \in Seq(Events) /\ Append(q, e) = q \o <<e>> /\ q \o <<>> = q
  OBVIOUS

\* What Closing sends.
LEMMA ClosingTyped ==
  ASSUME NEW a \in Answer, NEW w \in Texts,
         a.streamed => Follows(w, a.parser, a.sent), ~ a.streamed => a.sent = <<>>
  PROVE  /\ Closing(a) \in Tokens /\ a.sent \o Closing(a) \in Tokens
         /\ Shown(a.sent \o Closing(a)) =
              Reading(IF a.streamed THEN w ELSE LastText(a.given, a.said))
<1> USE AnswerFields
<1>1. CASE a.streamed
  <2>1. Closing(a) = Flush(a.parser)
    BY <1>1 DEF Closing
  <2>2. Flush(a.parser) \in Tokens /\ Shown(a.sent \o Flush(a.parser)) = Reading(w)
    BY <1>1, FlushFollows
  <2> QED
    BY <1>1, <2>1, <2>2, ShownConcat
<1>2. CASE ~ a.streamed
  <2> DEFINE x == LastText(a.given, a.said)
             fed == Feed(NewParser, x)
  <2>1. x \in Texts /\ <<>> \in Texts /\ <<>> \in Tokens
    BY LastTextType, ShownNone, TextsConcat
  <2> HIDE DEF x
  <2>2. fed \in Splits /\ Follows(<<>> \o x, fed.parser, <<>> \o fed.out)
    BY <2>1, NewFollows, FeedFollows
  <2> HIDE DEF fed
  <2>3. fed.out \in Tokens /\ fed.parser \in Parsers
    BY <2>2 DEF Splits
  <2>4. <<>> \o x = x /\ <<>> \o fed.out = fed.out
    <3>1. x \in Seq(Symbols) /\ fed.out \in Seq(ChatTokens)
      BY <2>1, <2>3 DEF Texts, Tokens, ChatTokens
    <3> QED
      BY <3>1
  <2>5. Flush(fed.parser) \in Tokens /\ Shown(fed.out \o Flush(fed.parser)) = Reading(x)
    BY <2>1, <2>2, <2>3, <2>4, FlushFollows
  <2>6. Closing(a) = fed.out \o Flush(fed.parser)
    BY <1>2 DEF Closing, fed, x
  <2>7. Closing(a) \in Tokens /\ a.sent = <<>>
    BY <1>2, <2>3, <2>5, <2>6, ShownConcat
  <2>8. <<>> \o Closing(a) = Closing(a)
    <3>1. Closing(a) \in Seq(ChatTokens)
      BY <2>7 DEF Tokens, ChatTokens
    <3> QED
      BY <3>1
  <2> QED
    BY <1>2, <2>5, <2>6, <2>7, <2>8 DEF x
<1> QED
  BY <1>1, <1>2

-----------------------------------------------------------------------------
(* Every step keeps the invariant.                                         *)

\* What is sent arrives behind what is on the wire already.
LEMMA Arrives ==
  ASSUME TypeOK, NEW events \in Seq(Events), NEW tokens \in Tokens,
         WireText(events) = TextOf(tokens), wire' = wire \o events,
         panel' = panel, answer'.sent = answer.sent \o tokens,
         TextOf(panel.segments) \o WireText(wire) = TextOf(answer.sent)
  PROVE  /\ wire' \in Seq(Events) /\ answer'.sent \in Tokens
         /\ TextOf(panel'.segments) \o WireText(wire') = TextOf(answer'.sent)
         /\ \A k \in DOMAIN wire' : \/ k \in DOMAIN wire /\ wire'[k] = wire[k]
                                    \/ \E j \in DOMAIN events : wire'[k] = events[j]
<1>1. wire \in Seq(Events) /\ panel.segments \in Tokens /\ answer.sent \in Tokens
  BY PanelFields, AnswerFields DEF TypeOK
<1>2. wire' \in Seq(Events) /\ WireText(wire') = WireText(wire) \o WireText(events)
  BY <1>1, WireTextConcat
<1>3. answer'.sent \in Tokens /\ TextOf(answer'.sent) = TextOf(answer.sent) \o TextOf(tokens)
  BY <1>1, TextOfConcat
<1>4. PICK v \in Texts, w \in Texts, x \in Texts :
        v = TextOf(panel.segments) /\ w = WireText(wire) /\ x = TextOf(tokens)
  BY <1>1, TextOfType, WireTextType
<1>5. (v \o w) \o x = v \o (w \o x)
  BY SMTT(30) DEF Texts
<1>6. TextOf(panel'.segments) \o WireText(wire') = TextOf(answer'.sent)
  BY <1>2, <1>3, <1>4, <1>5
<1>7. \A k \in DOMAIN wire' : \/ k \in DOMAIN wire /\ wire'[k] = wire[k]
                              \/ \E j \in DOMAIN events : wire'[k] = events[j]
  <2>1. PICK q \in Seq(Events), r \in Seq(Events), t \in Seq(Events) :
          q = wire /\ r = events /\ t = wire' /\ t = q \o r
    BY <1>1, <1>2
  <2>2. /\ Len(t) = Len(q) + Len(r) /\ Len(q) \in Nat /\ Len(r) \in Nat
        /\ \A i \in 1..Len(q) : t[i] = q[i]
        /\ \A i \in 1..Len(r) : t[Len(q) + i] = r[i]
        /\ DOMAIN t = 1..Len(t) /\ DOMAIN q = 1..Len(q) /\ DOMAIN r = 1..Len(r)
    BY <2>1
  <2>3. ASSUME NEW k \in 1..Len(t), k \notin 1..Len(q)
        PROVE  \E j \in 1..Len(r) : t[k] = r[j]
    <3>1. k - Len(q) \in 1..Len(r) /\ Len(q) + (k - Len(q)) = k
      BY <2>2, <2>3
    <3>2. t[Len(q) + (k - Len(q))] = r[k - Len(q)]
      BY <2>2, <3>1
    <3> QED
      BY <3>1, <3>2
  <2>4. \A k \in DOMAIN t : (k \in DOMAIN q /\ t[k] = q[k]) \/ \E j \in DOMAIN r : t[k] = r[j]
    BY <2>2, <2>3
  <2> QED
    BY <2>1, <2>4
<1> QED
  BY <1>2, <1>3, <1>6, <1>7

\* Nothing is on the way any more.
LEMMA Idle ==
  ASSUME panel' \in Panel, answer' = NoAnswer, wire' = <<>>
  PROVE  ConversationInv'
<1>1. answer' \in Answer /\ wire' \in Seq(Events) /\ answer'.phase = "idle"
  BY NoAnswerTyped, WireTextNone DEF NoAnswer
<1>2. Typed'
  BY <1>1 DEF Typed, TypeOK
<1>3. Parsing'
  BY <1>1 DEF Parsing
<1>4. Delivered'
  BY <1>1 DEF Delivered
<1> QED
  BY <1>2, <1>3, <1>4 DEF ConversationInv

\* A failure that is caught leaves a panel.
LEMMA CaughtTyped ==
  ASSUME TypeOK, NEW reason \in Failures
  PROVE  Caught(reason) \in Panel
<1>1. [panel EXCEPT !.error = reason] \in Panel
  BY DEF TypeOK, Panel
<1> QED
  BY <1>1, SettledTyped DEF Caught

\* The request ends without an answer.
LEMMA EndedEarly ==
  ASSUME ConversationInv, Refuse \/ IssueMissing \/ ConnectionLost
  PROVE  ConversationInv'
<1>1. TypeOK /\ (answer.phase = "received" => wire = <<>>)
  BY DEF ConversationInv, Typed, Delivered
<1>2. PICK reason \in Failures : panel' = Caught(reason)
  BY DEF Refuse, IssueMissing, ConnectionLost, Failures
<1>3. answer' = NoAnswer /\ wire' = <<>>
  BY <1>1 DEF Refuse, IssueMissing, ConnectionLost
<1> QED
  BY <1>1, <1>2, <1>3, CaughtTyped, Idle

\* A question is typed.
LEMMA Typing ==
  ASSUME ConversationInv, NEW q \in Questions, Type(q)
  PROVE  ConversationInv'
<1>1. /\ panel' = [panel EXCEPT !.input = q] /\ answer' = answer /\ wire' = wire
      /\ panel \in Panel
  BY DEF Type, ConversationInv, Typed, TypeOK
<1>2. /\ panel' \in Panel /\ panel'.question = panel.question /\ panel'.pending = panel.pending
      /\ panel'.segments = panel.segments /\ panel'.error = panel.error
      /\ panel'.done = panel.done /\ panel'.results = panel.results
  BY <1>1 DEF Panel
<1>3. Typed'
  BY <1>1, <1>2 DEF ConversationInv, Typed, TypeOK
<1>4. Parsing'
  BY <1>1 DEF ConversationInv, Parsing
<1>5. Delivered'
  BY <1>1, <1>2 DEF ConversationInv, Delivered, On
<1> QED
  BY <1>3, <1>4, <1>5 DEF ConversationInv

\* A question is sent.
LEMMA Sending ==
  ASSUME ConversationInv, SendMessage
  PROVE  ConversationInv'
<1>1. /\ panel \in Panel /\ answer \in Answer /\ wire \in Seq(Events)
      /\ answer.phase # "idle" => panel.pending
      /\ answer.phase = "idle" => wire = <<>>
  BY DEF ConversationInv, Typed, TypeOK, Delivered
<1>2. answer.phase = "idle" /\ wire = <<>> /\ wire' = <<>>
  BY <1>1 DEF SendMessage
<1>3. <<>> \in Tokens /\ panel.history \in Seq(Exchange)
  BY <1>1, ShownNone DEF Panel
<1>4. /\ panel' \in Panel /\ panel'.question \in Questions /\ panel'.pending
      /\ panel'.segments = <<>> /\ panel'.error = "none" /\ ~ panel'.done
  BY <1>1, <1>3 DEF SendMessage, Panel, NoQuestion
<1>5. /\ answer' \in Answer /\ answer'.phase = "received" /\ answer'.parser = NewParser
      /\ answer'.sent = <<>> /\ ~ answer'.streamed
  <2>1. answer' = [NoAnswer EXCEPT !.phase = "received", !.given = panel.history]
    BY DEF SendMessage
  <2> QED
    BY <2>1, <1>3, NoAnswerTyped DEF Answer, NoAnswer
<1>6. Typed'
  BY <1>1, <1>2, <1>4, <1>5 DEF Typed, TypeOK
<1>7. Parsing'
  BY <1>5 DEF Parsing
<1>8. TextOf(panel'.segments) \o WireText(wire') = TextOf(answer'.sent)
  <2>1. <<>> \o <<>> = <<>>
    OBVIOUS
  <2> QED
    BY <1>2, <1>4, <1>5, <2>1, TextOfNone, WireTextNone
<1>9. \A kind : On(kind)' = {}
  BY <1>2 DEF On
<1>10. Delivered'
  BY <1>2, <1>4, <1>5, <1>8, <1>9 DEF Delivered
<1> QED
  BY <1>6, <1>7, <1>10 DEF ConversationInv

\* What the invariant says while an answer is under way.
LEMMA UnderWay ==
  ASSUME ConversationInv, answer.phase # "idle"
  PROVE  /\ TypeOK /\ panel \in Panel /\ answer \in Answer /\ wire \in Seq(Events)
         /\ panel.question \in Questions /\ panel.pending
         /\ TextOf(panel.segments) \o WireText(wire) = TextOf(answer.sent)
  BY DEF ConversationInv, Typed, TypeOK, Delivered

\* Nothing is sent, or nothing that is a token.
LEMMA NoTokens ==
  /\ <<>> \in Seq(Events) /\ <<>> \in Tokens /\ WireText(<<>>) = TextOf(<<>>)
  /\ \A e \in Events : e.event # "token" =>
       <<e>> \in Seq(Events) /\ WireText(<<e>>) = TextOf(<<>>)
  /\ \A q \in Tokens : q \o <<>> = q
<1>1. <<>> \in Seq(Events) /\ <<>> \in Tokens /\ WireText(<<>>) = TextOf(<<>>)
  BY WireTextNone, TextOfNone, ShownNone
<1>2. ASSUME NEW e \in Events, e.event # "token"
      PROVE  <<e>> \in Seq(Events) /\ WireText(<<e>>) = TextOf(<<>>)
  <2>1. <<e>> \in Seq(Events) /\ WireText(<<e>>) = EventText(e)
    BY WireTextOne
  <2>2. EventText(e) = <<>>
    BY <1>2 DEF EventText
  <2> QED
    BY <2>1, <2>2, TextOfNone
<1>3. \A q \in Tokens : q \o <<>> = q
  BY DEF Tokens
<1> QED
  BY <1>1, <1>2, <1>3

\* An answer fails.
LEMMA Failing ==
  ASSUME ConversationInv, answer.phase \in {"received", "talking"},
         NEW reason \in Failures, Fail(answer, reason)
  PROVE  ConversationInv'
<1> DEFINE e == [event |-> "error", reason |-> reason]
<1>1. e \in Events /\ e.event = "error"
  BY ErrorEvent
<1>2. /\ answer' = [answer EXCEPT !.phase = "failed"] /\ wire' = wire \o <<e>> /\ panel' = panel
  BY DEF Fail, Yield
<1> HIDE DEF e
<1>3. /\ TypeOK /\ panel \in Panel /\ answer \in Answer /\ panel.question \in Questions
      /\ panel.pending /\ TextOf(panel.segments) \o WireText(wire) = TextOf(answer.sent)
  BY UnderWay
<1>4. On("done") = {} /\ ~ panel.done
  BY DEF ConversationInv, Delivered
<1>5. answer' \in Answer /\ answer'.phase = "failed" /\ answer'.sent = answer.sent
  BY <1>2, <1>3 DEF Answer
<1>6. <<e>> \in Seq(Events) /\ WireText(<<e>>) = TextOf(<<>>) /\ <<>> \in Tokens
      /\ answer'.sent = answer.sent \o <<>>
  BY <1>1, <1>3, <1>5, NoTokens, AnswerFields
<1>7. /\ wire' \in Seq(Events)
      /\ TextOf(panel'.segments) \o WireText(wire') = TextOf(answer'.sent)
      /\ \A k \in DOMAIN wire' : \/ k \in DOMAIN wire /\ wire'[k] = wire[k]
                                 \/ \E j \in DOMAIN <<e>> : wire'[k] = (<<e>>)[j]
  BY <1>2, <1>3, <1>6, Arrives
<1>8. \A j \in DOMAIN <<e>> : (<<e>>)[j].event = "error"
  BY <1>1
<1>9. On("done")' = {}
  BY <1>4, <1>7, <1>8 DEF On
<1>10. Typed'
  BY <1>2, <1>3, <1>5, <1>7 DEF Typed, TypeOK
<1>11. Parsing'
  BY <1>5 DEF Parsing
<1>12. Delivered'
  BY <1>2, <1>3, <1>4, <1>5, <1>7, <1>9 DEF Delivered
<1> QED
  BY <1>10, <1>11, <1>12 DEF ConversationInv

\* The steps by which it may.
LEMMA FailingSteps ==
  ASSUME ConversationInv, DataUnavailable \/ ToolRaises \/ AgentFails
  PROVE  ConversationInv'
<1>1. answer.phase \in {"received", "talking"}
  BY DEF DataUnavailable, ToolRaises, AgentFails
<1>2. \E reason \in Failures : Fail(answer, reason)
  BY DEF DataUnavailable, ToolRaises, AgentFails, Failures
<1> QED
  BY <1>1, <1>2, Failing

\* A step of the server while it talks, before and after.
Talks ==
  /\ answer'.phase = "talking" /\ answer' \in Answer /\ panel' = panel
  /\ \E events \in Seq(Events), tokens \in Tokens :
       /\ WireText(events) = TextOf(tokens) /\ wire' = wire \o events
       /\ answer'.sent = answer.sent \o tokens
       /\ \A j \in DOMAIN events : events[j].event \in {"token", "tool"}

\* A step of the server while it talks: types and what is on the way.
LEMMA Talking ==
  ASSUME ConversationInv, answer.phase \in {"received", "talking"}, Talks
  PROVE  Typed' /\ Delivered'
<1>1. /\ TypeOK /\ panel \in Panel /\ answer \in Answer /\ panel.question \in Questions
      /\ panel.pending /\ TextOf(panel.segments) \o WireText(wire) = TextOf(answer.sent)
  BY UnderWay
<1>2. /\ On("done") = {} /\ On("error") = {} /\ panel.error = "none" /\ ~ panel.done
  BY DEF ConversationInv, Delivered
<1>3. PICK events \in Seq(Events), tokens \in Tokens :
        /\ WireText(events) = TextOf(tokens) /\ wire' = wire \o events
        /\ answer'.sent = answer.sent \o tokens
        /\ \A j \in DOMAIN events : events[j].event \in {"token", "tool"}
  BY DEF Talks
<1>4. /\ wire' \in Seq(Events)
      /\ TextOf(panel'.segments) \o WireText(wire') = TextOf(answer'.sent)
      /\ \A k \in DOMAIN wire' : \/ k \in DOMAIN wire /\ wire'[k] = wire[k]
                                 \/ \E j \in DOMAIN events : wire'[k] = events[j]
  BY <1>1, <1>3, Arrives DEF Talks
<1>5. On("done")' = {} /\ On("error")' = {}
  BY <1>2, <1>3, <1>4, ZenonT(30) DEF On
<1>6. Typed'
  BY <1>1, <1>4 DEF Typed, TypeOK, Talks
<1>7. Delivered'
  BY <1>1, <1>2, <1>4, <1>5 DEF Delivered, Talks
<1> QED
  BY <1>6, <1>7

\* The graph starts.
LEMMA Starting ==
  ASSUME ConversationInv, StartGraph
  PROVE  ConversationInv'
<1>1. PICK streams \in BOOLEAN :
        /\ answer.phase = "received"
        /\ answer' = [answer EXCEPT !.phase = "talking", !.streams = streams, !.said = <<(<<>>)>>]
        /\ wire' = wire \o <<>> /\ panel' = panel
  BY DEF StartGraph, Yield
<1>2. answer \in Answer
  BY <1>1, UnderWay
<1>3. /\ answer.parser = NewParser /\ answer.sent = <<>> /\ ~ answer.streamed
  BY <1>1 DEF ConversationInv, Parsing
<1>4. <<(<<>>)>> \in Seq(Texts) /\ <<(<<>>)>> # <<>> /\ FlattenSeq(<<(<<>>)>>) = <<>>
  <2>1. <<>> \in Texts /\ <<>> \in Seq(Texts)
    BY DEF Texts
  <2>2. FlattenSeq(<<(<<>>)>>) = <<>>
    BY <2>1, FlattenTexts
  <2>3. \A x \in Texts : <<x>> \in Seq(Texts) /\ <<x>> # <<>>
    OBVIOUS
  <2> QED
    BY <2>1, <2>2, <2>3
<1> DEFINE said == <<(<<>>)>>
<1> HIDE DEF said
<1>5. /\ answer' \in Answer /\ answer'.phase = "talking" /\ answer'.said = said
      /\ answer'.parser = NewParser /\ answer'.sent = <<>> /\ ~ answer'.streamed
  BY <1>1, <1>2, <1>3, <1>4 DEF Answer, said
<1>6. Talks
  <2>1. answer'.sent = answer.sent \o <<>>
    BY <1>2, <1>3, <1>5, NoTokens, AnswerFields
  <2>2. \A j \in DOMAIN <<>> : (<<>>)[j].event \in {"token", "tool"}
    OBVIOUS
  <2> QED
    BY <1>1, <1>5, <2>1, <2>2, NoTokens DEF Talks
<1>7. Typed' /\ Delivered'
  BY <1>1, <1>6, Talking
<1>8. Parsing'
  BY <1>4, <1>5, NewFollows DEF Parsing, said
<1> QED
  BY <1>7, <1>8 DEF ConversationInv

\* The current message goes on.
LEMMA SayingTyped ==
  ASSUME NEW a \in Answer, a.said # <<>>, NEW c \in Texts
  PROVE  /\ [a EXCEPT !.said[Len(a.said)] = @ \o c, !.chunks = @ + 1] \in Answer
         /\ [a EXCEPT !.said[Len(a.said)] = @ \o c, !.chunks = @ + 1].said # <<>>
         /\ FlattenSeq([a EXCEPT !.said[Len(a.said)] = @ \o c, !.chunks = @ + 1].said)
              = FlattenSeq(a.said) \o c
<1> DEFINE t == [a.said EXCEPT ![Len(a.said)] = @ \o c]
           b == [a EXCEPT !.said[Len(a.said)] = @ \o c, !.chunks = @ + 1]
<1>1. a.said \in Seq(Texts) /\ a.chunks \in Nat
  BY AnswerFields
<1>2. t \in Seq(Texts) /\ t # <<>> /\ FlattenSeq(t) = FlattenSeq(a.said) \o c
  BY <1>1, SaidMore
<1>3. b = [a EXCEPT !.said = t, !.chunks = @ + 1]
  BY DEF Answer
<1> HIDE DEF t
<1>4. [a EXCEPT !.said = t, !.chunks = @ + 1] \in Answer
  <2>1. PICK n \in Nat : n = a.chunks + 1
    BY <1>1
  <2>2. [a EXCEPT !.said = t, !.chunks = n] \in Answer
    BY <1>2 DEF Answer
  <2> QED
    BY <2>1, <2>2
<1>5. [a EXCEPT !.said = t, !.chunks = @ + 1].said = t
  BY DEF Answer
<1> QED
  BY <1>2, <1>3, <1>4, <1>5

\* The model says more.
LEMMA Saying ==
  ASSUME ConversationInv, NEW c \in Chunks, Say(c)
  PROVE  ConversationInv'
<1> DEFINE a == [answer EXCEPT !.said[Len(answer.said)] = @ \o c, !.chunks = @ + 1]
           fed == Feed(answer.parser, c)
           w == FlattenSeq(answer.said)
<1>1. answer.phase = "talking" /\ c \in Texts /\ answer \in Answer
  BY UnderWay, ChatAssumption DEF Say
<1>2. /\ answer.said # <<>> /\ (answer.streams => Follows(w, answer.parser, answer.sent))
      /\ (~ answer.streamed => answer.sent = <<>>)
      /\ (answer.streamed => answer.streams)
  BY <1>1 DEF ConversationInv, Parsing
<1>3. a \in Answer /\ a.said # <<>> /\ FlattenSeq(a.said) = w \o c
  BY <1>1, <1>2, SayingTyped
<1>4. /\ a.phase = "talking" /\ a.parser = answer.parser /\ a.sent = answer.sent
      /\ a.streams = answer.streams /\ a.streamed = answer.streamed
  BY <1>1 DEF Answer
<1>5. w \in Texts
  BY <1>1, FlattenTexts, AnswerFields
<1>6. CASE answer.streams
  <2>1. /\ answer' = [a EXCEPT !.streamed = TRUE, !.parser = fed.parser, !.sent = @ \o fed.out]
        /\ wire' = wire \o TokenEvents(fed.out) /\ panel' = panel
    BY <1>6 DEF Say, Yield
  <2>2. fed \in Splits /\ Follows(w \o c, fed.parser, answer.sent \o fed.out)
    BY <1>1, <1>2, <1>5, <1>6, FeedFollows, AnswerFields
  <2> HIDE DEF a, fed, w
  <2>3. fed.out \in Tokens /\ fed.parser \in Parsers
    BY <2>2 DEF Splits
  <2>4. answer.sent \o fed.out \in Tokens
    BY <1>1, <2>3, AnswerFields, TextOfConcat
  <2>5. /\ answer' \in Answer /\ answer'.phase = "talking" /\ answer'.said = a.said
        /\ answer'.parser = fed.parser /\ answer'.sent = answer.sent \o fed.out
        /\ answer'.streams /\ answer'.streamed
    BY <1>3, <1>4, <1>6, <2>1, <2>3, <2>4 DEF Answer
  <2>6. Talks
    BY <2>1, <2>3, <2>5, TokenEventsFacts, ZenonT(30) DEF Talks
  <2>7. Typed' /\ Delivered'
    BY <1>1, <2>6, Talking
  <2>8. Parsing'
    BY <1>3, <2>2, <2>5 DEF Parsing
  <2> QED
    BY <2>7, <2>8 DEF ConversationInv
<1>7. CASE ~ answer.streams
  <2>1. answer' = a /\ wire' = wire \o <<>> /\ panel' = panel
    BY <1>7 DEF Say, Yield
  <2> HIDE DEF a, w
  <2>2. Talks
    <3>1. answer'.sent = answer.sent \o <<>>
      BY <1>1, <1>4, <2>1, NoTokens, AnswerFields
    <3>2. \A j \in DOMAIN <<>> : (<<>>)[j].event \in {"token", "tool"}
      OBVIOUS
    <3> QED
      BY <1>3, <1>4, <2>1, <3>1, <3>2, NoTokens DEF Talks
  <2>3. Typed' /\ Delivered'
    BY <1>1, <2>2, Talking
  <2>4. Parsing'
    BY <1>2, <1>3, <1>4, <1>7, <2>1 DEF Parsing
  <2> QED
    BY <2>3, <2>4 DEF ConversationInv
<1> QED
  BY <1>6, <1>7

\* A message that is begun adds nothing to what was said.
LEMMA SaidAgain ==
  ASSUME NEW q \in Seq(Texts)
  PROVE  /\ Append(q, <<>>) \in Seq(Texts) /\ Append(q, <<>>) # <<>>
         /\ FlattenSeq(Append(q, <<>>)) = FlattenSeq(q)
<1>1. <<>> \in Texts
  BY DEF Texts
<1>2. PICK e \in Texts : e = <<>>
  BY <1>1
<1>3. Append(q, e) \in Seq(Texts) /\ Append(q, e) # <<>>
  BY AppendFacts
<1>4. FlattenSeq(Append(q, e)) = FlattenSeq(q) \o e /\ FlattenSeq(q) \in Texts
  BY FlattenTexts
<1>5. FlattenSeq(q) \o <<>> = FlattenSeq(q)
  BY <1>4, TextsConcat
<1> QED
  BY <1>2, <1>3, <1>4, <1>5

\* The model calls a tool.
LEMMA Calling ==
  ASSUME ConversationInv, NEW t \in Tools, NEW brought \in SUBSET Results, CallTool(t, brought)
  PROVE  ConversationInv'
<1> DEFINE events == IF t \in answer.emitted THEN <<>> ELSE <<[event |-> "tool", name |-> t]>>
           said == Append(answer.said, <<>>)
<1>1. /\ answer.phase = "talking" /\ panel' = panel /\ wire' = wire \o events
      /\ answer' = [answer EXCEPT !.calls = @ + 1, !.emitted = @ \cup {t},
                                  !.results = @ \cup brought, !.said = said]
  BY DEF CallTool, Yield
<1>2. answer \in Answer
  BY <1>1, UnderWay
<1>3. said \in Seq(Texts) /\ said # <<>> /\ FlattenSeq(said) = FlattenSeq(answer.said)
  BY <1>2, AnswerFields, SaidAgain
<1>4. /\ events \in Seq(Events) /\ WireText(events) = TextOf(<<>>)
      /\ \A j \in DOMAIN events : events[j].event \in {"token", "tool"}
  <2> DEFINE e == [event |-> "tool", name |-> t]
  <2>1. e \in Events /\ e.event = "tool"
    BY DEF Events
  <2> HIDE DEF e
  <2>2. \A j \in DOMAIN <<>> : (<<>>)[j].event \in {"token", "tool"}
    OBVIOUS
  <2>3. \A j \in DOMAIN <<e>> : (<<e>>)[j].event \in {"token", "tool"}
    BY <2>1
  <2>4. events = <<>> \/ events = <<e>>
    BY DEF e
  <2> HIDE DEF events
  <2> QED
    BY <2>1, <2>2, <2>3, <2>4, NoTokens
<1> HIDE DEF events, said
<1>5. /\ answer' \in Answer /\ answer'.phase = "talking" /\ answer'.said = said
      /\ answer'.parser = answer.parser /\ answer'.sent = answer.sent
      /\ answer'.streams = answer.streams /\ answer'.streamed = answer.streamed
  <2>1. PICK n \in Nat, E \in SUBSET Tools, R \in SUBSET Results :
          n = answer.calls + 1 /\ E = answer.emitted \cup {t} /\ R = answer.results \cup brought
    <3>1. /\ answer.calls + 1 \in Nat /\ answer.emitted \cup {t} \in SUBSET Tools
          /\ answer.results \cup brought \in SUBSET Results
      BY <1>2, AnswerFields
    <3> QED
      BY <3>1
  <2>2. answer' = [answer EXCEPT !.calls = n, !.emitted = E, !.results = R, !.said = said]
    BY <1>1, <2>1
  <2> QED
    BY <1>1, <1>2, <1>3, <2>2 DEF Answer
<1>6. Talks
  <2>1. answer'.sent = answer.sent \o <<>>
    BY <1>2, <1>5, NoTokens, AnswerFields
  <2> QED
    BY <1>1, <1>4, <1>5, <2>1, NoTokens DEF Talks
<1>7. Typed' /\ Delivered'
  BY <1>1, <1>6, Talking
<1>8. Parsing'
  BY <1>1, <1>3, <1>5 DEF ConversationInv, Parsing
<1> QED
  BY <1>7, <1>8 DEF ConversationInv

\* The answer ends, as it was completed or without the storage.
LEMMA Finishing ==
  ASSUME ConversationInv, Finish
  PROVE  ConversationInv'
<1> DEFINE tokens == Closing(answer)
           lost == "unavailable" \in answer.results
           e == IF lost THEN [event |-> "error", reason |-> "data_unavailable"]
                ELSE [event |-> "done", results |-> answer.results]
           w == FlattenSeq(answer.said)
<1>1. /\ answer.phase = "talking" /\ panel' = panel
      /\ answer' = [answer EXCEPT !.phase = IF lost THEN "failed" ELSE "done",
                                  !.sent = @ \o tokens]
      /\ wire' = wire \o Append(TokenEvents(tokens), e)
  BY DEF Finish, Yield
<1>2. /\ TypeOK /\ panel \in Panel /\ answer \in Answer /\ panel.question \in Questions
      /\ panel.pending /\ TextOf(panel.segments) \o WireText(wire) = TextOf(answer.sent)
  BY <1>1, UnderWay
<1>3. /\ answer.streams => Follows(w, answer.parser, answer.sent)
      /\ ~ answer.streamed => answer.sent = <<>>
      /\ answer.streamed => answer.streams
      /\ On("done") = {} /\ On("error") = {} /\ panel.error = "none" /\ ~ panel.done
  BY <1>1 DEF ConversationInv, Parsing, Delivered
<1>4. w \in Texts
  <2>1. answer.said \in Seq(Seq(Symbols))
    BY <1>2, AnswerFields DEF Texts
  <2> QED
    BY <2>1, FlattenType DEF Texts
<1> HIDE DEF w
<1>5. /\ tokens \in Tokens /\ answer.sent \o tokens \in Tokens
      /\ Shown(answer.sent \o tokens) =
           Reading(IF answer.streamed THEN w ELSE LastText(answer.given, answer.said))
  BY <1>2, <1>3, <1>4, ClosingTyped
<1>6. /\ e \in Events
      /\ lost => e.event = "error"
      /\ ~ lost => e.event = "done" /\ e.results = answer.results
  BY <1>2, AnswerFields DEF Events, Failures
<1> HIDE DEF tokens, e, lost
<1>7. /\ answer' \in Answer /\ answer'.phase = (IF lost THEN "failed" ELSE "done")
      /\ answer'.sent = answer.sent \o tokens /\ answer'.said = answer.said
      /\ answer'.streamed = answer.streamed /\ answer'.given = answer.given
      /\ answer'.results = answer.results
  BY <1>1, <1>2, <1>5 DEF Answer
<1> DEFINE events == Append(TokenEvents(tokens), e)
<1>8. /\ events \in Seq(Events) /\ WireText(events) = TextOf(tokens)
      /\ \A j \in DOMAIN events : events[j].event = "token" \/ events[j] = e
  <2>1. PICK q \in Seq(Events) : q = TokenEvents(tokens)
    BY <1>5, TokenEventsFacts
  <2>2. WireText(q) = TextOf(tokens) /\ \A j \in DOMAIN q : q[j].event = "token"
    BY <1>5, <2>1, TokenEventsFacts
  <2>3. e.event # "token"
    BY <1>6
  <2>4. <<e>> \in Seq(Events) /\ WireText(<<e>>) = <<>>
    BY <1>6, <2>3, NoTokens, TextOfNone
  <2>5. WireText(q \o <<e>>) = WireText(q)
    <3>1. WireText(q \o <<e>>) = WireText(q) \o <<>>
      BY <2>4, WireTextConcat
    <3>2. WireText(q) \in Texts
      BY WireTextType
    <3> QED
      BY <3>1, <3>2 DEF Texts
  <2>6. Append(q, e) = q \o <<e>> /\ Append(q, e) \in Seq(Events)
    BY <1>6, WireGrows
  <2>7. \A j \in DOMAIN Append(q, e) : \/ j \in DOMAIN q /\ Append(q, e)[j] = q[j]
                                       \/ Append(q, e)[j] = e
    BY <1>6
  <2> QED
    BY <2>1, <2>2, <2>5, <2>6, <2>7
<1> HIDE DEF events
<1>9. /\ wire' \in Seq(Events)
      /\ TextOf(panel'.segments) \o WireText(wire') = TextOf(answer'.sent)
      /\ \A k \in DOMAIN wire' : \/ k \in DOMAIN wire /\ wire'[k] = wire[k]
                                 \/ \E j \in DOMAIN events : wire'[k] = events[j]
  BY <1>1, <1>2, <1>5, <1>7, <1>8, Arrives DEF events
<1>10. \A k \in DOMAIN wire' :
         \/ wire'[k].event \notin {"done", "error"}
         \/ wire'[k] = e
  <2>1. \A k \in DOMAIN wire : wire[k].event \notin {"done", "error"}
    BY <1>3 DEF On
  <2> QED
    BY <1>8, <1>9, <2>1
<1>11. Typed'
  BY <1>1, <1>2, <1>7, <1>9 DEF Typed, TypeOK
<1>12. Parsing'
  BY <1>5, <1>7 DEF Parsing, Spoken, w
<1>13. CASE lost
  <2>1. On("done")' = {}
    BY <1>6, <1>10, <1>13 DEF On
  <2> QED
    BY <1>1, <1>2, <1>3, <1>7, <1>9, <1>11, <1>12, <1>13, <2>1 DEF Delivered, ConversationInv
<1>14. CASE ~ lost
  <2>1. On("error")' = {} /\ \A k \in On("done")' : wire'[k].results = answer'.results
    BY <1>6, <1>7, <1>10, <1>14 DEF On
  <2>2. answer'.phase = "done" /\ "unavailable" \notin answer'.results
    BY <1>7, <1>14 DEF lost
  <2>3. Delivered'
    BY <1>1, <1>2, <1>3, <1>9, <2>1, <2>2 DEF Delivered
  <2> QED
    BY <1>11, <1>12, <2>3 DEF ConversationInv
<1> QED
  BY <1>13, <1>14

\* A token joins what is shown, or its last piece.
LEMMA TokenJoins ==
  ASSUME NEW p \in Panel, NEW x \in ChatTokens
  PROVE  \E q \in Tokens : /\ WithToken(p, x) = [p EXCEPT !.segments = q]
                           /\ TextOf(q) = TextOf(p.segments) \o x.text
<1>1. p.segments \in Tokens /\ p.segments \in Seq(ChatTokens)
  BY PanelFields DEF Tokens, ChatTokens
<1> DEFINE s == p.segments
           n == Len(s)
           joined == [s EXCEPT ![n].text = @ \o x.text]
<1>2. CASE s # <<>> /\ Last(s).source = x.source
  <2>1. PICK r \in Seq(ChatTokens), y \in ChatTokens : s = Append(r, y) /\ Len(s) = Len(r) + 1
    BY <1>1, <1>2, LastOf
  <2>2. /\ n \in Nat /\ n = Len(r) + 1 /\ DOMAIN s = 1..n /\ s[n] = y
        /\ \A i \in 1..Len(r) : s[i] = r[i] /\ Len(r) \in Nat
    BY <2>1, AppendFacts
  <2>3. y.text \in Texts /\ x.text \in Texts /\ y.source \in Sources
    BY DEF ChatTokens
  <2>4. PICK z \in Texts : z = y.text \o x.text
    BY <2>3, TextsConcat
  <2>5. PICK u \in ChatTokens : u = [y EXCEPT !.text = z] /\ u.text = z
    <3>1. [y EXCEPT !.text = z] \in ChatTokens /\ [y EXCEPT !.text = z].text = z
      BY DEF ChatTokens
    <3> QED
      BY <3>1
  <2>6. joined = [i \in 1..n |-> IF i = n THEN u ELSE s[i]]
    BY <2>2, <2>4, <2>5
  <2> DEFINE t == Append(r, u)
  <2>7. /\ t \in Seq(ChatTokens) /\ Len(t) = Len(r) + 1 /\ t[Len(r) + 1] = u
        /\ \A i \in 1..Len(r) : t[i] = r[i]
    BY AppendFacts
  <2>8. \A i \in 1..n : i # n => i \in 1..Len(r)
    BY <2>2
  <2> HIDE DEF t
  <2>9. \A i \in 1..n : (IF i = n THEN u ELSE s[i]) = t[i]
    BY <2>2, <2>7, <2>8
  <2>10. joined = [i \in 1..n |-> t[i]]
    BY <2>6, <2>9
  <2>11. joined = t
    <3>1. t = [i \in 1..Len(t) |-> t[i]]
      BY <2>7
    <3> QED
      BY <2>2, <2>7, <2>10, <3>1
  <2>12. r \in Tokens
    BY DEF Tokens, ChatTokens
  <2>13. /\ t \in Tokens /\ TextOf(t) = TextOf(r) \o z /\ TextOf(s) = TextOf(r) \o y.text
         /\ TextOf(r) \in Texts
    BY <2>1, <2>5, <2>12, TextOfAppend, TextOfType DEF t
  <2>14. TextOf(t) = TextOf(s) \o x.text
    <3>1. PICK v \in Texts : v = TextOf(r)
      BY <2>13
    <3>2. PICK y1 \in Texts, x1 \in Texts : y1 = y.text /\ x1 = x.text
      BY <2>3
    <3>3. (v \o y1) \o x1 = v \o (y1 \o x1)
      BY SMTT(30) DEF Texts
    <3> QED
      BY <2>4, <2>13, <3>1, <3>2, <3>3
  <2>15. WithToken(p, x) = [p EXCEPT !.segments = joined]
    BY <1>2 DEF WithToken
  <2> QED
    BY <2>11, <2>13, <2>14, <2>15
<1>3. CASE ~ (s # <<>> /\ Last(s).source = x.source)
  <2>1. WithToken(p, x) = [p EXCEPT !.segments = Append(@, x)]
    BY <1>3 DEF WithToken
  <2>2. Append(s, x) \in Tokens /\ TextOf(Append(s, x)) = TextOf(s) \o x.text
    BY <1>1, TextOfAppend
  <2> QED
    BY <2>1, <2>2
<1> QED
  BY <1>2, <1>3

\* The panel hears an event.
LEMMA Hearing ==
  ASSUME ConversationInv, Hear
  PROVE  ConversationInv'
<1>1. /\ wire # <<>> /\ panel' = Heard(Head(wire)) /\ wire' = Tail(wire) /\ answer' = answer
  BY DEF Hear
<1>2. answer.phase \notin {"idle", "received"}
  BY <1>1 DEF ConversationInv, Delivered
<1>3. /\ TypeOK /\ panel \in Panel /\ answer \in Answer /\ wire \in Seq(Events)
      /\ panel.question \in Questions
      /\ panel.pending /\ TextOf(panel.segments) \o WireText(wire) = TextOf(answer.sent)
  BY <1>2, UnderWay
<1>4. PICK e \in Events : e = Head(wire)
  BY <1>1, <1>3, WireTextHead
<1>5. /\ wire' \in Seq(Events) /\ WireText(wire) = EventText(e) \o WireText(wire')
      /\ 1 \in DOMAIN wire /\ e = wire[1]
      /\ \A k \in DOMAIN wire' : k + 1 \in DOMAIN wire /\ wire'[k] = wire[k + 1]
  BY <1>1, <1>3, <1>4, WireTextHead
<1>6. PICK v \in Texts, w \in Texts : v = TextOf(panel.segments) /\ w = WireText(wire')
  BY <1>3, <1>5, PanelFields, TextOfType, WireTextType
<1>7. /\ \A kind : On(kind) = {} => On(kind)' = {} /\ e.event # kind
      /\ \A k \in On("done")' : k + 1 \in On("done") /\ wire'[k] = wire[k + 1]
      /\ e.event = "done" => 1 \in On("done")
  BY <1>5 DEF On
<1>8. /\ answer.phase = "talking" =>
           On("done") = {} /\ On("error") = {} /\ panel.error = "none" /\ ~ panel.done
      /\ answer.phase = "failed" => On("done") = {} /\ ~ panel.done
      /\ answer.phase = "done" =>
           /\ On("error") = {} /\ panel.error = "none" /\ "unavailable" \notin answer.results
           /\ \A k \in On("done") : wire[k].results = answer.results
           /\ panel.done => panel.results = answer.results
  BY DEF ConversationInv, Delivered
<1>9. Parsing'
  BY <1>1 DEF ConversationInv, Parsing
<1>10. ASSUME panel' \in Panel, panel'.question = panel.question, panel'.pending,
              TextOf(panel'.segments) = v \o EventText(e),
              panel'.done => panel.done \/ e.event = "done",
              e.event # "done" => panel'.results = panel.results,
              e.event = "done" => panel'.results = e.results,
              e.event # "error" => panel'.error = panel.error
       PROVE  ConversationInv'
  <2>1. PICK x \in Texts : x = EventText(e)
    <3>1. EventText(e) \in Texts
      BY DEF Events, EventText, Texts
    <3> QED
      BY <3>1
  <2>2. (v \o x) \o w = v \o (x \o w)
    BY DEF Texts
  <2>3. TextOf(panel'.segments) \o WireText(wire') = TextOf(answer'.sent)
    BY <1>1, <1>3, <1>5, <1>6, <1>10, <2>1, <2>2
  <2>4. Typed'
    BY <1>1, <1>3, <1>5, <1>10 DEF Typed, TypeOK
  <2>5. answer.phase \in {"talking", "failed"} => On("done")' = {} /\ ~ panel'.done
    BY <1>7, <1>8, <1>10
  <2>6. answer.phase \in {"talking", "done"} => On("error")' = {} /\ panel'.error = "none"
    BY <1>7, <1>8, <1>10
  <2>7. answer.phase = "done" =>
          /\ \A k \in On("done")' : wire'[k].results = answer.results
          /\ panel'.done => panel'.results = answer.results
    BY <1>5, <1>7, <1>8, <1>10
  <2>8. Delivered'
    BY <1>1, <1>2, <1>8, <1>10, <2>3, <2>5, <2>6, <2>7 DEF Delivered
  <2> QED
    BY <1>9, <2>4, <2>8 DEF ConversationInv
<1>11. v \o <<>> = v
  BY DEF Texts
<1>12. CASE e.event = "tool"
  <2>1. panel' = panel /\ EventText(e) = <<>>
    BY <1>1, <1>4, <1>12 DEF Heard, EventText
  <2> QED
    BY <1>3, <1>6, <1>10, <1>11, <1>12, <2>1
<1>13. CASE e.event = "token"
  <2>1. panel' = WithToken(panel, e.token) /\ EventText(e) = e.token.text /\ e.token \in ChatTokens
    BY <1>1, <1>4, <1>13 DEF Heard, EventText, Events, ChatTokens
  <2>2. PICK q \in Tokens : /\ panel' = [panel EXCEPT !.segments = q]
                            /\ TextOf(q) = v \o EventText(e)
    BY <1>3, <1>6, <2>1, TokenJoins
  <2>3. /\ panel' \in Panel /\ panel'.question = panel.question /\ panel'.pending = panel.pending
        /\ panel'.segments = q /\ panel'.done = panel.done /\ panel'.results = panel.results
        /\ panel'.error = panel.error
    BY <1>3, <2>2 DEF Panel
  <2> QED
    BY <1>3, <1>10, <1>13, <2>2, <2>3
<1>14. CASE e.event = "done"
  <2>1. /\ panel' = [panel EXCEPT !.done = TRUE, !.results = e.results]
        /\ EventText(e) = <<>> /\ e.results \in SUBSET Results
    BY <1>1, <1>4, <1>14 DEF Heard, EventText, Events
  <2>2. /\ panel' \in Panel /\ panel'.question = panel.question /\ panel'.pending = panel.pending
        /\ panel'.segments = panel.segments /\ panel'.done /\ panel'.results = e.results
        /\ panel'.error = panel.error
    BY <1>3, <2>1 DEF Panel
  <2> QED
    BY <1>3, <1>6, <1>10, <1>11, <1>14, <2>1, <2>2
<1>15. CASE e.event = "error"
  <2>1. /\ panel' = [panel EXCEPT !.error = e.reason]
        /\ EventText(e) = <<>> /\ e.reason \in Failures
    BY <1>1, <1>4, <1>15 DEF Heard, EventText, Events
  <2>2. /\ panel' \in Panel /\ panel'.question = panel.question /\ panel'.pending = panel.pending
        /\ panel'.segments = panel.segments /\ panel'.done = panel.done
        /\ panel'.results = panel.results
    BY <1>3, <2>1 DEF Panel
  <2> QED
    BY <1>3, <1>6, <1>10, <1>11, <1>15, <2>1, <2>2
<1>16. e.event \in {"tool", "token", "done", "error"}
  BY DEF Events
<1> QED
  BY <1>12, <1>13, <1>14, <1>15, <1>16

\* What was shown is what was sent, once nothing is on the way.
LEMMA Ending ==
  ASSUME ConversationInv, EndOfResponse
  PROVE  /\ ConversationInv'
         /\ panel'.history # panel.history =>
              /\ answer.phase = "done" /\ panel.error = "none"
              /\ "unavailable" \notin answer.results
              /\ panel.results = answer.results
              /\ panel'.history =
                   Append(panel.history,
                          [question |-> panel.question, text |-> TextOf(answer.sent)])
<1>1. /\ answer.phase \in {"done", "failed"} /\ wire = <<>> /\ wire' = <<>>
      /\ panel' = Settled(Remembered(panel)) /\ answer' = NoAnswer
  BY DEF EndOfResponse
<1>2. /\ panel \in Panel /\ panel.question \in Questions
      /\ TextOf(panel.segments) \o WireText(wire) = TextOf(answer.sent)
  BY <1>1, UnderWay
<1>3. TextOf(panel.segments) \in Texts
  BY <1>2, PanelFields, TextOfType
<1>4. TextOf(panel.segments) = TextOf(answer.sent)
  BY <1>1, <1>2, <1>3, WireTextNone DEF Texts
<1> DEFINE x == [question |-> panel.question, text |-> TextOf(panel.segments)]
<1>5. x \in Exchange
  BY <1>2, <1>3 DEF Exchange
<1>6. PICK h \in Seq(Exchange) : h = Append(panel.history, x)
  <2>1. Append(panel.history, x) \in Seq(Exchange)
    BY <1>2, <1>5, PanelFields, AppendFacts
  <2> QED
    BY <2>1
<1>7. CASE panel.done /\ panel.error = "none"
  <2>1. Remembered(panel) = [panel EXCEPT !.history = h]
    BY <1>6, <1>7 DEF Remembered
  <2>2. [panel EXCEPT !.history = h] \in Panel /\ [panel EXCEPT !.history = h].history = h
    BY <1>2 DEF Panel
  <2>3. panel' \in Panel /\ panel'.history = h
    BY <1>1, <2>1, <2>2, SettledTyped
  <2>4. answer.phase = "done" /\ "unavailable" \notin answer.results
        /\ panel.results = answer.results
    BY <1>1, <1>7 DEF ConversationInv, Delivered
  <2> QED
    BY <1>1, <1>4, <1>6, <1>7, <2>3, <2>4, Idle
<1>8. CASE ~ (panel.done /\ panel.error = "none")
  <2>1. Remembered(panel) = panel
    BY <1>8 DEF Remembered
  <2> QED
    BY <1>1, <1>2, <2>1, SettledTyped, Idle
<1> QED
  BY <1>7, <1>8

\* The invariant holds in the beginning.
LEMMA ConversationStarts ==
  ASSUME Init
  PROVE  ConversationInv
<1>1. <<>> \in Tokens /\ <<>> \in Seq(Exchange) /\ <<>> \in Seq(Events)
  BY ShownNone
<1>2. panel \in Panel
  BY <1>1 DEF Init, Panel
<1>3. answer \in Answer /\ answer.phase = "idle" /\ wire = <<>>
  BY NoAnswerTyped DEF Init, NoAnswer
<1> QED
  BY <1>1, <1>2, <1>3 DEF ConversationInv, Typed, TypeOK, Parsing, Delivered

\* Every step keeps it.
LEMMA ConversationGoesOn ==
  ASSUME ConversationInv, [Next]_vars
  PROVE  ConversationInv'
<1>1. ASSUME Next PROVE ConversationInv'
  BY <1>1, NextCases, Typing, Sending, EndedEarly, FailingSteps, Starting, Saying, Calling,
     Finishing, Hearing, Ending
<1>2. ASSUME UNCHANGED vars PROVE ConversationInv'
  <2>1. panel' = panel /\ answer' = answer /\ wire' = wire
    BY <1>2 DEF vars
  <2> QED
    BY <2>1 DEF ConversationInv, Typed, TypeOK, Parsing, Delivered, On
<1> QED
  BY <1>1, <1>2

\* A history grows at the end of a response only.
LEMMA HistoryStays ==
  ASSUME ConversationInv, [Next]_vars, panel'.history # panel.history
  PROVE  EndOfResponse
<1>1. panel \in Panel
  BY DEF ConversationInv, Typed, TypeOK
<1>2. Next
  BY DEF vars
<1>3. ASSUME NEW q \in Questions, Type(q) PROVE panel'.history = panel.history
  BY <1>1, <1>3 DEF Type, Panel
<1>4. ASSUME SendMessage PROVE panel'.history = panel.history
  BY <1>1, <1>4 DEF SendMessage, Panel
<1>5. ASSUME Refuse \/ IssueMissing \/ ConnectionLost PROVE panel'.history = panel.history
  <2>1. PICK reason \in Failures : panel' = Caught(reason)
    BY <1>5 DEF Refuse, IssueMissing, ConnectionLost, Failures
  <2>2. [panel EXCEPT !.error = reason] \in Panel
        /\ [panel EXCEPT !.error = reason].history = panel.history
    BY <1>1 DEF Panel
  <2> QED
    BY <2>1, <2>2, SettledTyped DEF Caught
<1>6. ASSUME DataUnavailable \/ ToolRaises \/ AgentFails \/ StartGraph \/ Finish
      PROVE  panel' = panel
  BY <1>6 DEF DataUnavailable, ToolRaises, AgentFails, StartGraph, Finish, Fail, Yield
<1>7. ASSUME NEW c \in Chunks, Say(c) PROVE panel' = panel
  BY <1>7 DEF Say, Yield
<1>8. ASSUME NEW t \in Tools, NEW brought \in SUBSET Results, CallTool(t, brought)
      PROVE  panel' = panel
  BY <1>8 DEF CallTool, Yield
<1>9. ASSUME Hear PROVE panel'.history = panel.history
  <2>1. /\ wire # <<>> /\ wire \in Seq(Events) /\ panel' = Heard(Head(wire))
    BY <1>9 DEF Hear, ConversationInv, Typed, TypeOK
  <2>2. PICK e \in Events : e = Head(wire)
    BY <2>1, WireTextHead
  <2>3. CASE e.event = "token"
    <3>1. panel' = WithToken(panel, e.token) /\ e.token \in ChatTokens
      BY <2>1, <2>2, <2>3 DEF Heard, Events, ChatTokens
    <3>2. \E q \in Tokens : panel' = [panel EXCEPT !.segments = q]
      BY <1>1, <3>1, TokenJoins
    <3> QED
      BY <1>1, <3>2 DEF Panel
  <2>4. CASE e.event \in {"tool", "done", "error"}
    BY <1>1, <2>1, <2>2, <2>4 DEF Heard, Panel
  <2> QED
    BY <2>3, <2>4 DEF Events
<1> QED
  BY <1>2, <1>3, <1>4, <1>5, <1>6, <1>7, <1>8, <1>9, NextCases

-----------------------------------------------------------------------------
(* The theorems.                                                           *)

\* In every conversation the parser keeps in step with what the model said, and what is
\* shown together with what is on the way is what the agent sent (agent.py 121-225,
\* ChatPanel.vue 72-139).
THEOREM ConversationHolds == Spec => []ConversationInv
<1>1. Init => ConversationInv
  BY ConversationStarts
<1>2. ConversationInv /\ [Next]_vars => ConversationInv'
  BY ConversationGoesOn
<1> QED
  BY <1>1, <1>2, PTL DEF Spec

\* The panel, the request and the events between them have their types at any time.
THEOREM ConversationTyped == Spec => []TypeOK
<1>1. ConversationInv => TypeOK
  BY DEF ConversationInv, Typed
<1> QED
  BY <1>1, ConversationHolds, PTL

\* However the model's text is cut into chunks, what is shown of an answer under way is
\* the beginning of what its whole text reads, and all of it in the end: under the source
\* of the last tag, without a part of a tag, and nothing taken back (agent.py 149-225).
THEOREM AnswersFollowTags == Spec => []AnswerFollowsTags
<1>1. ConversationInv => AnswerFollowsTags
  <2>1. SUFFICES ASSUME ConversationInv, answer.phase = "talking"
                 PROVE  IsPrefix(Shown(answer.sent), Reading(Spoken(answer)))
    BY DEF AnswerFollowsTags, ConversationInv, Parsing
  <2>2. /\ answer \in Answer /\ answer.said \in Seq(Texts) /\ answer.parser \in Parsers
        /\ answer.sent \in Tokens /\ answer.given \in Seq(Exchange)
    BY <2>1, AnswerFields DEF ConversationInv, Typed, TypeOK
  <2>3. /\ answer.streams => Follows(FlattenSeq(answer.said), answer.parser, answer.sent)
        /\ ~ answer.streamed => answer.sent = <<>>
        /\ answer.streamed => answer.streams
    BY <2>1 DEF ConversationInv, Parsing
  <2>4. CASE answer.streamed
    <3>1. FlattenSeq(answer.said) \in Texts
      <4>1. answer.said \in Seq(Seq(Symbols))
        BY <2>2 DEF Texts
      <4> QED
        BY <4>1, FlattenType DEF Texts
    <3>2. IsPrefix(Shown(answer.sent), Reading(FlattenSeq(answer.said)))
      BY <2>2, <2>3, <2>4, <3>1, ShownIsPrefix
    <3> QED
      BY <2>4, <3>2 DEF Spoken
  <2>5. CASE ~ answer.streamed
    <3> DEFINE x == LastText(answer.given, answer.said)
    <3>1. x \in Texts
      BY <2>2, LastTextType
    <3> HIDE DEF x
    <3>2. Closing(answer) \in Tokens /\ Shown(answer.sent \o Closing(answer)) = Reading(x)
      <4>1. PICK w \in Texts : w = x
        BY <3>1
      <4> QED
        BY <2>2, <2>3, <2>5, <4>1, ClosingTyped DEF x
    <3>3. Shown(answer.sent \o Closing(answer)) = Shown(answer.sent) \o Shown(Closing(answer))
      BY <2>2, <3>2, ShownConcat
    <3>4. Shown(answer.sent) \in Seq(Cells) /\ Shown(Closing(answer)) \in Seq(Cells)
      BY <2>2, <3>2, ShownPieces
    <3>5. IsPrefix(Shown(answer.sent), Shown(answer.sent) \o Shown(Closing(answer)))
      BY <3>4, ConcatPrefix
    <3> QED
      BY <2>5, <3>2, <3>3, <3>5 DEF Spoken, x
  <2> QED
    BY <2>4, <2>5
<1> QED
  BY <1>1, ConversationHolds, PTL

\* A history grows by whole exchanges: the last question with all of the text the agent
\* sent for it, and only if that answer was completed (ChatPanel.vue 106-125,
\* agent.py 139).
THEOREM HistoryIsWhole == Spec => HistoryHoldsExchanges
<1>1. ConversationInv /\ [Next]_vars =>
        [panel'.history # panel.history =>
           /\ answer.phase = "done" /\ panel.error = "none"
           /\ "unavailable" \notin answer.results
           /\ panel.results = answer.results
           /\ panel'.history =
                Append(panel.history,
                       [question |-> panel.question, text |-> TextOf(answer.sent)])]_vars
  BY HistoryStays, Ending
<1> QED
  BY <1>1, ConversationHolds, PTL DEF Spec, HistoryHoldsExchanges
=============================================================================
