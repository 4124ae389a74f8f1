----------------------------- MODULE SourceTags -----------------------------
(***************************************************************************)
(* The source tags of a chat answer: SourceTagParser of app/agent.py,      *)
(* which takes the model's text in any chunks and hands it on in pieces    *)
(* with their source.                                                      *)
(*                                                                         *)
(* A text is a sequence of symbols.  A tag is two symbols long, so that a  *)
(* chunk may end inside it; "x" stands for every letter of the answer.     *)
(***************************************************************************)
EXTENDS Naturals, Sequences, SequencesExt

Sources == {"article", "general"}

Letter == "x"
Newline == "n"
Blank == " "
Symbols == {"A", "G", ":", Letter, Newline, Blank}

Texts == Seq(Symbols)

\* _MARKERS
Marker == [article |-> <<"A", ":">>, general |-> <<"G", ":">>]

\* A tag behind an empty line changes the source in the middle of a text.
Boundary == [s \in Sources |-> <<Newline, Newline>> \o Marker[s]]

NoSource == "none"

\* _buffer and _source
Parsers == [buffer : Texts, source : Sources \cup {NoSource}]

NewParser == [buffer |-> <<>>, source |-> NoSource]

Tokens == Seq([source : Sources, text : Texts])

Token(s, text) == IF text = <<>> THEN <<>> ELSE <<[source |-> s, text |-> text]>>

-----------------------------------------------------------------------------

Drop(text, n) == SubSeq(text, n + 1, Len(text))

\* str.lstrip: the text without its first symbols from S.
StripLeft(text, S) ==
  Drop(text, Max({n \in 0..Len(text) : \A i \in 1..n : text[i] \in S}))

Whitespace == {Newline, Blank}

\* Where a piece occurs in a text.
Occurrences(piece, text) ==
  {i \in DOMAIN text : IsPrefix(piece, Drop(text, i - 1))}

\* Mutant of Held: a tag that is split over chunks is not waited for.
HeldNothing(text) == 0

\* _partial_boundary_suffix: how much of the end may become a boundary.
Held(text) ==
  Max({0} \cup {n \in 1..Len(text) :
                  \E s \in Sources : IsPrefix(Drop(text, Len(text) - n), Boundary[s])})

\* The source of a text whose first paragraph is not known yet: none, as long as
\* it may still begin with a tag.
Started(p) ==
  LET text == StripLeft(p.buffer, Whitespace)
      tags == {s \in Sources : IsPrefix(Marker[s], text)}
  IN  IF tags # {}
      THEN LET s == CHOOSE s \in tags : TRUE
           IN  [source |-> s,
                buffer |-> StripLeft(Drop(text, Len(Marker[s])), {Blank})]
      ELSE IF \E s \in Sources : IsPrefix(text, Marker[s]) THEN p
      ELSE [source |-> "general", buffer |-> text]

\* What feed has emitted and keeps, once the source is known: up to the first
\* boundary, and again behind it, which is split by split.
SplitBy(p, split) ==
  LET found == {s \in Sources : Occurrences(Boundary[s], p.buffer) # {}}
      first(s) == Min(Occurrences(Boundary[s], p.buffer))
      n == Len(p.buffer) - Held(p.buffer)
  IN  IF p.source = NoSource THEN [out |-> <<>>, parser |-> p]
      ELSE IF found = {}
      THEN [out    |-> Token(p.source, SubSeq(p.buffer, 1, n)),
            parser |-> [p EXCEPT !.buffer = Drop(@, n)]]
      ELSE LET s == CHOOSE s \in found : \A t \in found : first(s) <= first(t)
               behind == Drop(p.buffer, first(s) - 1 + Len(Boundary[s]))
               rest == split[[source |-> s, buffer |-> StripLeft(behind, {Blank})]]
           IN  [rest EXCEPT !.out = Token(p.source, SubSeq(p.buffer, 1, first(s) - 1)) \o @]

Split[p \in Parsers] == SplitBy(p, Split)

Feed(p, text) ==
  LET q == [p EXCEPT !.buffer = @ \o text]
  IN  Split[IF p.source = NoSource THEN Started(q) ELSE q]

\* The rest of the text, at its end.
Flush(p) == Token(IF p.source = NoSource THEN "general" ELSE p.source, p.buffer)

-----------------------------------------------------------------------------
(* The same, said of the whole text at once.                               *)

\* A text that is nothing but the beginning of a tag is shown as it is.
Body(text) ==
  LET lead == StripLeft(text, Whitespace)
  IN  IF \E s \in Sources : IsStrictPrefix(lead, Marker[s]) THEN text ELSE lead

\* An empty line before it, as if one always ended what was before.
Padded(text) == <<Newline, Newline>> \o Body(text)

\* A symbol as it is shown.
Cell(symbol, source) == IF symbol = Blank THEN <<>> ELSE <<[symbol |-> symbol, source |-> source]>>

\* A tag of the source s at the place i.
TagAt(text, i, s) == IsPrefix(Boundary[s], Drop(text, i - 1))

\* The source at a place: that of the last tag up to it, "general" where there is none.
SourceAt(text, i) ==
  LET tags == {j \in 1..i : \E s \in Sources : TagAt(text, j, s)}
  IN  IF tags = {} THEN "general" ELSE CHOOSE s \in Sources : TagAt(text, Max(tags), s)

Tagged(text, i) == \E j \in 1..i : i <= j + 3 /\ \E s \in Sources : TagAt(text, j, s)

\* What is shown of a place: nothing of a tag, or of the line that was put before.
\* Blanks are left out: those behind a tag are dropped if they come in the same chunk.
Seen(padded, i) ==
  IF i <= 2 \/ Tagged(padded, i) THEN <<>> ELSE Cell(padded[i], SourceAt(padded, i))

\* The symbols that are shown, each with its source.
Reading(text) == FlattenSeq([i \in DOMAIN Padded(text) |-> Seen(Padded(text), i)])

\* The source of every letter, paragraph by paragraph: an empty line ends the one
\* before and its tag with it.
ByParagraph(text) ==
  LET padded == Padded(text)
      breaks == Occurrences(<<Newline, Newline>>, padded)
      start(i) == Max({b \in breaks : b <= i})
      letters == SelectSeq([i \in DOMAIN padded |-> i], LAMBDA i : padded[i] = Letter)
  IN  [k \in DOMAIN letters |->
         IF IsPrefix(Boundary["article"], Drop(padded, start(letters[k]) - 1))
         THEN "article" ELSE "general"]

\* What a text shows under a source, and what tokens show.
ShownOf(text, s) == FlattenSeq([i \in DOMAIN text |-> Cell(text[i], s)])

Shown(tokens) ==
  FlattenSeq([k \in DOMAIN tokens |-> ShownOf(tokens[k].text, tokens[k].source)])
=============================================================================
