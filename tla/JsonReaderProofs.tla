-------------------------- MODULE JsonReaderProofs --------------------------
(***************************************************************************)
(* Proofs about JsonReader, for any documents, any sizes of the buffer and *)
(* any place where the pipe breaks: type correctness; that the tokens nest *)
(* as the dump needs it; that parsing in chunks is parsing at once; and    *)
(* that nothing is dumped before all has been read.                        *)
(***************************************************************************)
EXTENDS JsonReader, FiniteSetTheorems, WellFoundedInduction, TLAPS

-----------------------------------------------------------------------------
(* Positions *)

\* Every set of natural numbers that is not empty has a least element: of the ranges
\* 0..n one is in no other.
LEMMA LeastNumber ==
    ASSUME NEW S \in SUBSET Nat, S # {}
    PROVE  \E n \in S : \A m \in S : n <= m
<1> DEFINE Ranges == {0..n : n \in S}
<1>1. \A n \in Nat : 0..n \in FiniteSubsetsOf(Nat)
  <2> TAKE n \in Nat
  <2>1. IsFiniteSet(0..n)
    BY FS_Interval
  <2> QED
    BY <2>1 DEF FiniteSubsetsOf
<1>2. Ranges \subseteq FiniteSubsetsOf(Nat) /\ Ranges # {}
  BY <1>1
<1>3. PICK x \in Ranges : \A y \in Ranges : <<y, x>> \notin StrictSubsetOrdering(Nat)
  BY <1>2, FS_StrictSubsetOrderingWellFounded, WFMin
<1>4. PICK n \in S : x = 0..n
  BY <1>3
<1>5. ASSUME NEW m \in S, m < n
      PROVE  FALSE
  <2>1. 0..m \in Ranges /\ 0..m \subseteq Nat /\ 0..n \subseteq Nat
    BY <1>5
  <2>2. 0..m \subseteq 0..n /\ n \in 0..n /\ n \notin 0..m
    BY <1>4, <1>5
  <2>3. <<0..m, 0..n>> \in StrictSubsetOrdering(Nat)
    BY <2>1, <2>2 DEF StrictSubsetOrdering
  <2> QED
    BY <1>3, <1>4, <2>1, <2>3
<1> QED
  BY <1>4, <1>5

\* What holds at a and is handed on holds everywhere up to b.
LEMMA FromTo ==
    ASSUME NEW a \in Nat, NEW b \in Nat, NEW S, a \in S,
           \A i \in a..(b - 1) : i \in S => i + 1 \in S
    PROVE  \A i \in a..b : i \in S
<1> SUFFICES ASSUME NEW k \in a..b, k \notin S
             PROVE  FALSE
  OBVIOUS
<1> DEFINE T == {i \in a..b : i \notin S}
<1>1. T \in SUBSET Nat /\ T # {}
  OBVIOUS
<1>2. PICK i \in T : \A j \in T : i <= j
  BY <1>1, LeastNumber
<1>3. i # a /\ i - 1 \in a..(b - 1) /\ i - 1 \notin T
  BY <1>2
<1> QED
  BY <1>3

LEMMA EarliestIs ==
    ASSUME NEW S \in SUBSET Nat, S # {}
    PROVE  Earliest(S) \in S /\ \A j \in S : Earliest(S) <= j
<1>1. \E i \in S : \A j \in S : i <= j
  BY LeastNumber
<1> QED
  BY <1>1 DEF Earliest

LEMMA InnermostIs ==
    ASSUME NEW n \in Nat, NEW S \in SUBSET (1..n), S # {}
    PROVE  Innermost(S) \in S /\ \A j \in S : j <= Innermost(S)
<1> DEFINE T == {n - i : i \in S}
<1>1. T \in SUBSET Nat /\ T # {}
  <2>1. \A i \in S : n - i \in Nat
    OBVIOUS
  <2> QED
    BY <2>1
<1>2. PICK k \in T : \A j \in T : k <= j
  BY <1>1, LeastNumber
<1>3. PICK i \in S : k = n - i
  BY <1>2
<1>4. \A j \in S : j <= i
  BY <1>2, <1>3
<1>5. \E m \in S : \A j \in S : j <= m
  BY <1>4
<1> QED
  BY <1>5 DEF Innermost
-----------------------------------------------------------------------------
(* What a symbol does to the parser *)

ParserType == [pos : Nat \ {0}, toksuper : Nat, tokens : Seq(TokenType)]

\* A parser that has a symbol to look at, and does not use more tokens than it has.
Ready(p, text, len, room) ==
    /\ text \in Seq(STRING) /\ len \in 0..Len(text) /\ room \in Nat
    /\ p \in ParserType /\ p.pos <= len
    /\ p.toksuper <= Len(p.tokens) /\ Len(p.tokens) <= room

\* It stays as it is;
Stays(p, o) == o.r \in {"nomem", "part", "inval"} /\ o.parser = p

\* it fills a token, which lies in what it goes over or is open;
Adds(p, o, room, token, next) ==
    /\ o.r = "more" /\ Len(p.tokens) < room
    /\ o.parser = [pos |-> next, toksuper |-> o.parser.toksuper,
                   tokens |-> Append(Counted(p), token)]
    /\ o.parser.toksuper \in 0..(Len(p.tokens) + 1)
    /\ next > p.pos
    /\ token \in TokenType /\ p.pos <= token.start /\ token.start < next
    /\ token.end < next
    /\ token.end = 0 => token.type \in {"object", "array"}

\* it closes the innermost of the open ones;
Closes(p, o) ==
    LET i == Innermost(Opened(p)) IN
    /\ o.r = "more" /\ i \in Opened(p)
    /\ o.parser = [pos |-> p.pos + 1, toksuper |-> o.parser.toksuper,
                   tokens |-> [p.tokens EXCEPT ![i].end = p.pos]]
    /\ o.parser.toksuper \in 0..Len(p.tokens)

\* or it goes on to the next symbol.
Moves(p, o) ==
    /\ o.r = "more"
    /\ o.parser = [pos |-> p.pos + 1, toksuper |-> o.parser.toksuper, tokens |-> p.tokens]
    /\ o.parser.toksuper \in 0..Len(p.tokens)

LEMMA OpenedIs ==
    ASSUME NEW p \in ParserType
    PROVE  /\ Opened(p) \in SUBSET (1..Len(p.tokens))
           /\ Innermost(Opened(p)) \in 0..Len(p.tokens)
           /\ Innermost(Opened(p)) # 0 =>
                 /\ Innermost(Opened(p)) \in Opened(p)
                 /\ \A j \in Opened(p) : j <= Innermost(Opened(p))
           /\ \A i : Innermost(Opened(p) \ {i}) \in 0..Len(p.tokens)
<1>1. p.tokens \in Seq(TokenType) /\ Len(p.tokens) \in Nat
  BY DEF ParserType
<1>2. Opened(p) \in SUBSET (1..Len(p.tokens))
  BY <1>1 DEF Opened
<1>3. \A S \in SUBSET (1..Len(p.tokens)) :
         /\ Innermost(S) \in 0..Len(p.tokens)
         /\ Innermost(S) # 0 => Innermost(S) \in S /\ \A j \in S : j <= Innermost(S)
  <2> TAKE S \in SUBSET (1..Len(p.tokens))
  <2>1. CASE S = {}
    BY <2>1, <1>1 DEF Innermost
  <2>2. CASE S # {}
    <3>1. Innermost(S) \in S /\ \A j \in S : j <= Innermost(S)
      BY <2>2, <1>1, InnermostIs
    <3>2. Innermost(S) \in 1..Len(p.tokens)
      BY <3>1
    <3> QED
      BY <3>1, <3>2
  <2> QED
    BY <2>1, <2>2
<1>4. \A i : Opened(p) \ {i} \in SUBSET (1..Len(p.tokens))
  BY <1>2
<1> QED
  BY <1>2, <1>3, <1>4

LEMMA FillAdds ==
    ASSUME NEW p \in ParserType, NEW room \in Nat, p.toksuper <= Len(p.tokens),
           Len(p.tokens) <= room, NEW token \in TokenType, NEW next \in Nat,
           next > p.pos, p.pos <= token.start, token.start < next, token.end < next,
           token.end = 0 => token.type \in {"object", "array"}
    PROVE  LET o == Fill(p, token, next, room) IN Stays(p, o) \/ Adds(p, o, room, token, next)
<1> DEFINE o == Fill(p, token, next, room)
<1>1. Len(p.tokens) \in Nat /\ p.toksuper \in Nat
  BY DEF ParserType
<1>2. CASE Len(p.tokens) = room
  BY <1>2 DEF Fill, Outcome, Stays
<1>3. CASE Len(p.tokens) # room
  <2>1. o.r = "more" /\ o.parser = [p EXCEPT !.pos = next, !.tokens = Append(Counted(p), token)]
    BY <1>3 DEF Fill, Outcome
  <2>2. o.parser = [pos |-> next, toksuper |-> p.toksuper, tokens |-> Append(Counted(p), token)]
    BY <2>1 DEF ParserType
  <2> QED
    BY <1>1, <1>3, <2>1, <2>2 DEF Adds
<1> QED
  BY <1>2, <1>3

\* Where the end of a string or a primitive is.
LEMMA EndsAre ==
    ASSUME NEW text, NEW len \in Nat, NEW from \in 1..(len + 1)
    PROVE  /\ ClosingQuote(text, len, from) # 0 =>
                 /\ ClosingQuote(text, len, from) \in from..len
                 /\ text[ClosingQuote(text, len, from)] = Quote
                 /\ ~Escaped(text, from, ClosingQuote(text, len, from))
                 /\ \A i \in from..(ClosingQuote(text, len, from) - 1) :
                       text[i] = Quote => Escaped(text, from, i)
           /\ PrimitiveEnd(text, len, from) \in (from - 1)..len
           /\ \A i \in from..PrimitiveEnd(text, len, from) : text[i] \notin Delimiters
           /\ PrimitiveEnd(text, len, from) < len =>
                 text[PrimitiveEnd(text, len, from) + 1] \in Delimiters
<1> DEFINE S == {i \in from..len : text[i] = Quote /\ ~Escaped(text, from, i)}
           D == {i \in from..len : text[i] \in Delimiters}
           q == ClosingQuote(text, len, from)
           e == PrimitiveEnd(text, len, from)
<1>1. S \in SUBSET Nat /\ D \in SUBSET Nat /\ 0 \notin D
  OBVIOUS
<1>2. q = Earliest(S)
  BY DEF ClosingQuote
<1>3. e = IF Earliest(D) = 0 THEN len ELSE Earliest(D) - 1
  BY DEF PrimitiveEnd
<1>4. \A i : /\ i \in S <=> i \in from..len /\ text[i] = Quote /\ ~Escaped(text, from, i)
             /\ i \in D <=> i \in from..len /\ text[i] \in Delimiters
  OBVIOUS
<1> HIDE DEF S, D, q, e
<1>5. ASSUME q # 0
      PROVE  /\ q \in from..len /\ text[q] = Quote /\ ~Escaped(text, from, q)
             /\ \A i \in from..(q - 1) : text[i] = Quote => Escaped(text, from, i)
  <2>1. S # {}
    BY <1>2, <1>5 DEF Earliest
  <2>2. q \in S /\ \A j \in S : q <= j
    BY <1>1, <1>2, <2>1, EarliestIs
  <2>3. q \in from..len /\ text[q] = Quote /\ ~Escaped(text, from, q)
    BY <1>4, <2>2
  <2>4. ASSUME NEW i \in from..(q - 1), text[i] = Quote, ~Escaped(text, from, i)
        PROVE  FALSE
    <3>1. i \in from..len /\ i < q
      BY <2>3
    <3>2. i \in S
      BY <1>4, <2>4, <3>1
    <3> QED
      BY <2>2, <2>3, <3>1, <3>2
  <2> QED
    BY <2>3, <2>4
<1>6. /\ e \in (from - 1)..len
      /\ \A i \in from..e : text[i] \notin Delimiters
      /\ e < len => text[e + 1] \in Delimiters
  <2>1. CASE D = {}
    <3>1. e = len
      BY <1>3, <2>1 DEF Earliest
    <3> QED
      BY <1>4, <2>1, <3>1
  <2>2. CASE D # {}
    <3>1. Earliest(D) \in D /\ \A j \in D : Earliest(D) <= j
      BY <1>1, <2>2, EarliestIs
    <3>2. e = Earliest(D) - 1 /\ e + 1 \in D /\ e + 1 \in from..len
      BY <1>1, <1>3, <1>4, <3>1
    <3>3. ASSUME NEW i \in from..e, text[i] \in Delimiters
          PROVE  FALSE
      <4>1. i \in D /\ i <= e
        BY <1>4, <3>2, <3>3
      <4>2. Earliest(D) <= i
        BY <3>1, <4>1
      <4>3. Earliest(D) \in Nat /\ i \in Nat
        BY <1>1, <3>1, <4>1
      <4> QED
        BY <3>2, <4>1, <4>2, <4>3
    <3> QED
      BY <1>4, <3>2, <3>3
  <2> QED
    BY <2>1, <2>2
<1> QED
  BY <1>5, <1>6 DEF q, e

\* Which symbol does which.
LEMMA SymbolKinds ==
    ASSUME NEW p, NEW text, NEW len, NEW room, Ready(p, text, len, room)
    PROVE  LET o == Symbol(p, text, len, room)
               c == text[p.pos]
               q == ClosingQuote(text, len, p.pos + 1)
               e == PrimitiveEnd(text, len, p.pos)
           IN  \/ Stays(p, o)
               \/ /\ c \in {"{", "["}
                  /\ \E token : Adds(p, o, room, token, p.pos + 1) /\ token.end = 0
               \/ c \in {"}", "]"} /\ Closes(p, o)
               \/ /\ c = Quote /\ q \in (p.pos + 1)..len
                  /\ \E token : Adds(p, o, room, token, q + 1) /\ token.end # 0
               \/ c \in {":", ","} \cup Whitespace /\ Moves(p, o)
               \/ /\ InPrimitive(c) /\ e \in p.pos..len
                  /\ \E token : Adds(p, o, room, token, e + 1) /\ token.end # 0
<1> DEFINE o == Symbol(p, text, len, room)
           c == text[p.pos]
<1>0. /\ p \in ParserType /\ p.pos \in Nat /\ p.pos > 0 /\ p.pos <= len
      /\ len \in Nat /\ room \in Nat
      /\ Len(p.tokens) \in Nat /\ p.toksuper \in Nat /\ p.toksuper <= Len(p.tokens)
      /\ Len(p.tokens) <= room
  BY DEF Ready, ParserType
<1>1. CASE c \in {"{", "["}
  <2> DEFINE token == Token(TypeOf(c), p.pos, 0)
             f == Fill(p, token, p.pos + 1, room)
  <2>1. o = IF f.r = "nomem" THEN f ELSE [f EXCEPT !.parser.toksuper = Len(f.parser.tokens)]
    BY <1>1 DEF Symbol, Open, Quote, Newline, Whitespace
  <2>2. token \in TokenType /\ token.start = p.pos /\ token.end = 0
        /\ token.type \in {"object", "array"}
    BY <1>0 DEF TokenType, Token, TypeOf
  <2> HIDE DEF token
  <2>3. Stays(p, f) \/ Adds(p, f, room, token, p.pos + 1)
    BY <1>0, <2>2, FillAdds
  <2>4. CASE Len(p.tokens) = room
    BY <2>1, <2>4 DEF Stays, Fill, Outcome
  <2>5. CASE Len(p.tokens) # room
    <3> DEFINE ts == Append(Counted(p), token)
    <3>1. f = [parser |-> [p EXCEPT !.pos = p.pos + 1, !.tokens = ts], r |-> "more"]
      BY <2>5 DEF Fill, Outcome
    <3>2. Len(ts) = Len(p.tokens) + 1
      BY <1>0 DEF Counted, ParserType
    <3> HIDE DEF ts, f
    <3>3. f = [parser |-> [pos |-> p.pos + 1, toksuper |-> p.toksuper, tokens |-> ts],
               r |-> "more"]
      <4>1. f.parser = [p EXCEPT !.pos = p.pos + 1, !.tokens = ts]
        BY <3>1
      <4>2. f.parser = [pos |-> p.pos + 1, toksuper |-> p.toksuper, tokens |-> ts]
        BY <1>0, <4>1 DEF ParserType
      <4> QED
        BY <3>1, <4>2
    <3>4. o.r = "more"
          /\ o.parser = [pos |-> p.pos + 1, toksuper |-> Len(p.tokens) + 1, tokens |-> ts]
      BY <2>1, <3>2, <3>3
    <3> USE DEF ts
    <3>5. Adds(p, o, room, token, p.pos + 1)
      BY <1>0, <2>2, <2>5, <3>4 DEF Adds
    <3> QED
      BY <1>1, <2>2, <3>5
  <2> QED
    BY <2>4, <2>5
<1>2. CASE c \in {"}", "]"}
  <2>1. o = Close(p, c)
    BY <1>2 DEF Symbol, Quote, Newline, Whitespace
  <2> DEFINE i == Innermost(Opened(p))
  <2>2. CASE i = 0 \/ (i # 0 /\ p.tokens[i].type # TypeOf(c))
    <3>1. o = Outcome(p, "inval")
      BY <2>1, <2>2 DEF Close
    <3>2. Stays(p, o)
      BY <3>1 DEF Outcome, Stays
    <3> QED
      BY <3>2
  <2>3. CASE ~(i = 0 \/ (i # 0 /\ p.tokens[i].type # TypeOf(c)))
    <3>1. o = Outcome([p EXCEPT !.pos = @ + 1,
                                !.toksuper = Innermost(Opened(p) \ {i}),
                                !.tokens[i].end = p.pos], "more")
      BY <2>1, <2>3 DEF Close
    <3> DEFINE below == Innermost(Opened(p) \ {i})
    <3>2. o.r = "more"
          /\ o.parser = [pos |-> p.pos + 1, toksuper |-> below,
                         tokens |-> [p.tokens EXCEPT ![i].end = p.pos]]
      <4>1. o.r = "more"
            /\ o.parser = [p EXCEPT !.pos = @ + 1, !.toksuper = below,
                                    !.tokens[i].end = p.pos]
        BY <3>1 DEF Outcome
      <4> HIDE DEF below, i
      <4> QED
        BY <1>0, <4>1 DEF ParserType
    <3>3. i \in Opened(p) /\ below \in 0..Len(p.tokens)
      BY <1>0, <2>3, OpenedIs
    <3> HIDE DEF below
    <3>4. Closes(p, o)
      BY <3>2, <3>3 DEF Closes
    <3> QED
      BY <1>2, <3>4
  <2> QED
    BY <2>2, <2>3
<1>3. CASE c = Quote
  <2>1. o = ParseString(p, text, len, room)
    BY <1>3 DEF Symbol, Quote, Newline, Whitespace
  <2> DEFINE e == ClosingQuote(text, len, p.pos + 1)
             token == Token("string", p.pos + 1, e - 1)
  <2>2. CASE e = 0
    BY <2>1, <2>2 DEF ParseString, Outcome, Stays
  <2>3. CASE e # 0
    <3>1. e \in (p.pos + 1)..len
      <4>1. p.pos + 1 \in 1..(len + 1)
        BY <1>0
      <4> QED
        BY <1>0, <2>3, <4>1, EndsAre
    <3>2. token \in TokenType /\ token.start = p.pos + 1 /\ token.end = e - 1 /\ token.end # 0
      BY <1>0, <3>1 DEF TokenType, Token
    <3>3. o = Fill(p, token, e + 1, room)
      BY <2>1, <2>3 DEF ParseString
    <3> HIDE DEF token
    <3>4. Stays(p, o) \/ Adds(p, o, room, token, e + 1)
      BY <1>0, <3>1, <3>2, <3>3, FillAdds
    <3> QED
      BY <1>3, <3>1, <3>2, <3>4
  <2> QED
    BY <2>2, <2>3
<1>4. CASE c \in {":", ","} \cup Whitespace
  <2>1. CASE c = ":"
    <3>1. o = Outcome([p EXCEPT !.pos = @ + 1, !.toksuper = Len(p.tokens)], "more")
      BY <2>1 DEF Symbol, Quote, Newline, Whitespace
    <3>2. o.r = "more" /\ o.parser = [p EXCEPT !.pos = p.pos + 1, !.toksuper = Len(p.tokens)]
      BY <3>1 DEF Outcome
    <3> HIDE DEF o
    <3>3. o.parser = [pos |-> p.pos + 1, toksuper |-> Len(p.tokens), tokens |-> p.tokens]
      BY <1>0, <3>2 DEF ParserType
    <3>4. Moves(p, o)
      BY <1>0, <3>2, <3>3 DEF Moves
    <3> QED
      BY <2>1, <3>4 DEF o
  <2>2. CASE c = ","
    <3> DEFINE up == Innermost(Opened(p))
               below == IF /\ up # 0 /\ p.toksuper # 0
                           /\ p.tokens[p.toksuper].type \in {"string", "primitive"}
                        THEN up ELSE p.toksuper
    <3>1. o = Outcome([p EXCEPT !.pos = @ + 1, !.toksuper = below], "more")
      BY <2>2 DEF Symbol, Quote, Newline, Whitespace, Separate
    <3>2. below \in 0..Len(p.tokens)
      BY <1>0, OpenedIs
    <3>3. o.r = "more" /\ o.parser = [p EXCEPT !.pos = p.pos + 1, !.toksuper = below]
      BY <3>1 DEF Outcome
    <3> HIDE DEF below, o
    <3>4. o.parser = [pos |-> p.pos + 1, toksuper |-> below, tokens |-> p.tokens]
      BY <1>0, <3>3 DEF ParserType
    <3>5. Moves(p, o)
      BY <3>2, <3>3, <3>4 DEF Moves
    <3> QED
      BY <2>2, <3>5 DEF o
  <2>3. CASE c \in Whitespace
    <3>1. o = Outcome([p EXCEPT !.pos = @ + 1], "more")
      BY <2>3 DEF Symbol, Quote, Newline, Whitespace
    <3> QED
      <4>1. Moves(p, o)
        BY <1>0, <3>1 DEF Outcome, Moves, ParserType
      <4> QED
        BY <2>3, <4>1
  <2> QED
    BY <1>4, <2>1, <2>2, <2>3
<1>5. CASE c \notin {"{", "[", "}", "]", Quote, ":", ","} \cup Whitespace
  <2>1. o = ParsePrimitive(p, text, len, room)
    BY <1>5 DEF Symbol
  <2> DEFINE e == PrimitiveEnd(text, len, p.pos)
             token == Token("primitive", p.pos, e)
  <2>2. c \notin Delimiters
    BY <1>5 DEF Delimiters, Whitespace
  <2>3. e \in p.pos..len
    <3>1. e \in (p.pos - 1)..len /\ (e < len => text[e + 1] \in Delimiters)
      <4>1. p.pos \in 1..(len + 1)
        BY <1>0
      <4> QED
        BY <1>0, <4>1, EndsAre
    <3> QED
      BY <1>0, <2>2, <3>1
  <2>4. token \in TokenType /\ token.start = p.pos /\ token.end = e /\ token.end # 0
    BY <1>0, <2>3 DEF TokenType, Token
  <2>5. o = Fill(p, token, e + 1, room)
    BY <2>1 DEF ParsePrimitive
  <2> HIDE DEF token
  <2>6. Stays(p, o) \/ Adds(p, o, room, token, e + 1)
    BY <1>0, <2>3, <2>4, <2>5, FillAdds
  <2>7. InPrimitive(c)
    BY <1>5 DEF InPrimitive, Delimiters, Brackets, Whitespace
  <2> QED
    BY <2>3, <2>4, <2>6, <2>7
<1> QED
  BY <1>1, <1>2, <1>3, <1>4, <1>5

LEMMA SymbolShape ==
    ASSUME NEW p, NEW text, NEW len, NEW room, Ready(p, text, len, room)
    PROVE  LET o == Symbol(p, text, len, room)
           IN  \/ Stays(p, o)
               \/ \E token, next : Adds(p, o, room, token, next) /\ next \in Nat /\ next <= len + 1
               \/ Closes(p, o)
               \/ Moves(p, o)
<1> DEFINE o == Symbol(p, text, len, room)
           q == ClosingQuote(text, len, p.pos + 1)
           e == PrimitiveEnd(text, len, p.pos)
<1>1. p.pos \in Nat /\ len \in Nat /\ p.pos <= len
  BY DEF Ready, ParserType
<1>2. \/ Stays(p, o)
      \/ \E token : Adds(p, o, room, token, p.pos + 1)
      \/ Closes(p, o)
      \/ q \in (p.pos + 1)..len /\ \E token : Adds(p, o, room, token, q + 1)
      \/ Moves(p, o)
      \/ e \in p.pos..len /\ \E token : Adds(p, o, room, token, e + 1)
  BY SymbolKinds
<1> HIDE DEF o, q, e
<1>3. ASSUME NEW next \in 1..(len + 1), \E token : Adds(p, o, room, token, next)
      PROVE  \E token, n : Adds(p, o, room, token, n) /\ n \in Nat /\ n <= len + 1
  BY <1>1, <1>3
<1>4. CASE \E token : Adds(p, o, room, token, p.pos + 1)
  BY <1>1, <1>3, <1>4 DEF o
<1>5. CASE q \in (p.pos + 1)..len /\ \E token : Adds(p, o, room, token, q + 1)
  BY <1>1, <1>3, <1>5 DEF o
<1>6. CASE e \in p.pos..len /\ \E token : Adds(p, o, room, token, e + 1)
  BY <1>1, <1>3, <1>6 DEF o
<1> QED
  BY <1>2, <1>4, <1>5, <1>6 DEF o

-----------------------------------------------------------------------------
(* Types and nesting *)

LEMMA TokensAre ==
    ASSUME NEW p \in ParserType
    PROVE  /\ Len(p.tokens) \in Nat /\ DOMAIN p.tokens = 1..Len(p.tokens)
           /\ \A i \in 1..Len(p.tokens) : /\ p.tokens[i] \in TokenType
                                          /\ p.tokens[i].start \in Nat
                                          /\ p.tokens[i].end \in Nat
<1>1. p.tokens \in Seq(TokenType)
  BY DEF ParserType
<1>2. \A i \in 1..Len(p.tokens) : p.tokens[i] \in TokenType
  BY <1>1
<1>3. \A t \in TokenType : t.start \in Nat /\ t.end \in Nat
  BY DEF TokenType
<1> QED
  BY <1>1, <1>2, <1>3

LEMMA CountedIs ==
    ASSUME NEW p \in ParserType, p.toksuper <= Len(p.tokens)
    PROVE  /\ Counted(p) \in Seq(TokenType) /\ Len(Counted(p)) = Len(p.tokens)
           /\ \A i \in 1..Len(p.tokens) :
                 /\ Counted(p)[i].type = p.tokens[i].type
                 /\ Counted(p)[i].start = p.tokens[i].start
                 /\ Counted(p)[i].end = p.tokens[i].end
<1>1. p.tokens \in Seq(TokenType) /\ p.toksuper \in Nat /\ Len(p.tokens) \in Nat
  BY DEF ParserType
<1>2. CASE p.toksuper = 0
  BY <1>1, <1>2 DEF Counted
<1>3. CASE p.toksuper # 0
  <2> DEFINE k == p.toksuper
             old == p.tokens[k]
             new == [old EXCEPT !.size = @ + 1]
  <2>1. k \in 1..Len(p.tokens)
    BY <1>1, <1>3
  <2>2. old \in TokenType
    BY <1>1, <2>1
  <2>3. /\ new \in TokenType /\ new.type = old.type /\ new.start = old.start
        /\ new.end = old.end
    BY <2>2 DEF TokenType
  <2>4. Counted(p) = [p.tokens EXCEPT ![k] = new]
    BY <1>3 DEF Counted
  <2> HIDE DEF new
  <2> QED
    BY <1>1, <2>1, <2>3, <2>4
<1> QED
  BY <1>2, <1>3

\* The parser of a state fits what has been read.
Fits(p, len, room) ==
    /\ p \in ParserType /\ p.pos \in 1..(len + 1)
    /\ p.toksuper <= Len(p.tokens) /\ Len(p.tokens) <= room

\* The tokens nest, and they lie before what comes next.
Nests(p) ==
    /\ \A i, j \in DOMAIN p.tokens : i < j =>
          LET a == p.tokens[i]
              b == p.tokens[j]
          IN  \/ b.start > a.end /\ a.end # 0
              \/ a.start < b.start /\ b.end < a.end /\ b.end # 0
              \/ a.start < b.start /\ a.end = 0
    /\ \A i \in Opened(p) : p.tokens[i].type \in {"object", "array"}
    /\ \A i \in DOMAIN p.tokens : p.tokens[i].start < p.pos /\ p.tokens[i].end < p.pos

LEMMA AddNests ==
    ASSUME NEW p, NEW text, NEW len, NEW room, Ready(p, text, len, room),
           NEW o, NEW token, NEW next, Adds(p, o, room, token, next), next <= len + 1,
           next \in Nat
    PROVE  Fits(o.parser, len, room) /\ (Nests(p) => Nests(o.parser))
<1> DEFINE n == Len(p.tokens)
           ts == Counted(p)
           q == o.parser
<1>0. /\ p \in ParserType /\ p.pos \in Nat /\ p.pos > 0 /\ p.pos <= len
      /\ len \in Nat /\ room \in Nat /\ n \in Nat
      /\ p.toksuper \in Nat /\ p.toksuper <= n /\ p.tokens \in Seq(TokenType)
  BY DEF Ready, ParserType
<1>1. /\ ts \in Seq(TokenType) /\ Len(ts) = n
      /\ \A i \in 1..n : /\ ts[i].type = p.tokens[i].type
                         /\ ts[i].start = p.tokens[i].start
                         /\ ts[i].end = p.tokens[i].end
  BY <1>0, CountedIs
<1> HIDE DEF ts
<1>2. /\ n < room /\ q = [pos |-> next, toksuper |-> q.toksuper, tokens |-> Append(ts, token)]
      /\ q.toksuper \in 0..(n + 1) /\ next > p.pos /\ token \in TokenType
      /\ p.pos <= token.start /\ token.start < next /\ token.end < next
      /\ (token.end = 0 => token.type \in {"object", "array"})
  BY DEF Adds, ts
<1> HIDE DEF q
<1>3. /\ q.tokens = Append(ts, token) /\ q.pos = next
      /\ Len(q.tokens) = n + 1 /\ q.tokens \in Seq(TokenType)
      /\ DOMAIN q.tokens = 1..(n + 1) /\ q.tokens[n + 1] = token
      /\ \A i \in 1..n : q.tokens[i] = ts[i]
  <2>1. q.tokens = Append(ts, token) /\ q.pos = next
    BY <1>2
  <2> QED
    BY <1>0, <1>1, <1>2, <2>1
<1>4. Fits(q, len, room)
  <2>1. q.pos \in Nat \ {0} /\ q.toksuper \in Nat /\ q.tokens \in Seq(TokenType)
    BY <1>0, <1>2, <1>3
  <2>2. q = [pos |-> q.pos, toksuper |-> q.toksuper, tokens |-> q.tokens]
    BY <1>2
  <2>3. q \in ParserType
    BY <2>1, <2>2 DEF ParserType
  <2> QED
    BY <1>0, <1>2, <1>3, <2>3 DEF Fits
<1>5. ASSUME Nests(p)
      PROVE  Nests(q)
  <2>1. /\ DOMAIN p.tokens = 1..n
        /\ \A i \in 1..n : p.tokens[i].start \in Nat /\ p.tokens[i].end \in Nat
    BY <1>0, TokensAre
  <2>2. \A i \in 1..n : /\ q.tokens[i].type = p.tokens[i].type
                        /\ q.tokens[i].start = p.tokens[i].start
                        /\ q.tokens[i].end = p.tokens[i].end
    BY <1>1, <1>3
  <2>3. \A i \in 1..n : p.tokens[i].start < p.pos /\ p.tokens[i].end < p.pos
    BY <1>5, <2>1 DEF Nests
  <2>4. ASSUME NEW i \in 1..(n + 1), NEW j \in 1..(n + 1), i < j
        PROVE  LET a == q.tokens[i]
                   b == q.tokens[j]
               IN  \/ b.start > a.end /\ a.end # 0
                   \/ a.start < b.start /\ b.end < a.end /\ b.end # 0
                   \/ a.start < b.start /\ a.end = 0
    <3>1. i \in 1..n
      BY <1>0, <2>4
    <3>2. CASE j \in 1..n
      BY <1>5, <2>1, <2>2, <2>4, <3>1, <3>2 DEF Nests
    <3>3. CASE j = n + 1
      <4>1. q.tokens[j] = token /\ token.start \in Nat /\ token.start >= p.pos
        BY <1>2, <1>3, <3>3 DEF TokenType
      <4>2. /\ q.tokens[i].start \in Nat /\ q.tokens[i].end \in Nat
            /\ q.tokens[i].start < p.pos /\ q.tokens[i].end < p.pos
        BY <2>1, <2>2, <2>3, <3>1
      <4> QED
        BY <1>0, <4>1, <4>2
    <3> QED
      BY <1>0, <2>4, <3>2, <3>3
  <2>5. ASSUME NEW i \in Opened(q)
        PROVE  q.tokens[i].type \in {"object", "array"}
    <3>1. i \in 1..(n + 1) /\ q.tokens[i].end = 0
      BY <1>3 DEF Opened
    <3>2. CASE i = n + 1
      BY <1>2, <1>3, <3>1, <3>2
    <3>3. CASE i \in 1..n
      <4>1. i \in Opened(p)
        BY <2>1, <2>2, <3>1, <3>3 DEF Opened
      <4> QED
        BY <1>5, <2>2, <3>3, <4>1 DEF Nests
    <3> QED
      BY <1>0, <3>1, <3>2, <3>3
  <2>6. ASSUME NEW i \in 1..(n + 1)
        PROVE  q.tokens[i].start < q.pos /\ q.tokens[i].end < q.pos
    <3>1. CASE i = n + 1
      BY <1>2, <1>3, <3>1
    <3>2. CASE i \in 1..n
      <4>1. /\ q.tokens[i].start \in Nat /\ q.tokens[i].end \in Nat
            /\ q.tokens[i].start < p.pos /\ q.tokens[i].end < p.pos
        BY <2>1, <2>2, <2>3, <3>2
      <4>2. q.pos \in Nat /\ p.pos < q.pos
        BY <1>2, <1>3
      <4> QED
        BY <1>0, <4>1, <4>2
    <3> QED
      BY <1>0, <3>1, <3>2
  <2> QED
    BY <1>3, <2>4, <2>5, <2>6 DEF Nests
<1> QED
  BY <1>4, <1>5 DEF q

LEMMA CloseNests ==
    ASSUME NEW p, NEW text, NEW len, NEW room, Ready(p, text, len, room),
           NEW o, Closes(p, o)
    PROVE  Fits(o.parser, len, room) /\ (Nests(p) => Nests(o.parser))
<1> DEFINE n == Len(p.tokens)
           k == Innermost(Opened(p))
           q == o.parser
           new == [p.tokens[k] EXCEPT !.end = p.pos]
<1>0. /\ p \in ParserType /\ p.pos \in Nat /\ p.pos > 0 /\ p.pos <= len
      /\ len \in Nat /\ room \in Nat /\ n \in Nat /\ n <= room
      /\ p.toksuper \in Nat /\ p.toksuper <= n /\ p.tokens \in Seq(TokenType)
  BY DEF Ready, ParserType
<1>1. k \in Opened(p) /\ k \in 1..n /\ p.tokens[k].end = 0
      /\ \A j \in Opened(p) : j <= k
  <2>1. k \in Opened(p)
    BY DEF Closes
  <2>2. k \in 1..n /\ p.tokens[k].end = 0
    BY <1>0, <2>1 DEF Opened
  <2> QED
    BY <1>0, <2>1, <2>2, OpenedIs
<1>2. /\ q = [pos |-> p.pos + 1, toksuper |-> q.toksuper,
              tokens |-> [p.tokens EXCEPT ![k].end = p.pos]]
      /\ q.toksuper \in 0..n
  BY DEF Closes
<1> HIDE DEF k, q
<1>3. p.tokens[k] \in TokenType
  BY <1>0, <1>1
<1>4. /\ new \in TokenType /\ new.type = p.tokens[k].type
      /\ new.start = p.tokens[k].start /\ new.end = p.pos
  BY <1>0, <1>3 DEF TokenType
<1>5. q.tokens = [p.tokens EXCEPT ![k] = new] /\ q.pos = p.pos + 1
  BY <1>2
<1> HIDE DEF new
<1>6. /\ q.tokens \in Seq(TokenType) /\ Len(q.tokens) = n /\ DOMAIN q.tokens = 1..n
      /\ q.tokens[k] = new
      /\ \A i \in 1..n : i # k => q.tokens[i] = p.tokens[i]
  BY <1>0, <1>1, <1>4, <1>5
<1>7. Fits(q, len, room)
  <2>1. q \in ParserType
    BY <1>0, <1>2, <1>6 DEF ParserType
  <2> QED
    BY <1>0, <1>2, <1>5, <1>6, <2>1 DEF Fits
<1>8. ASSUME Nests(p)
      PROVE  Nests(q)
  <2>1. /\ DOMAIN p.tokens = 1..n
        /\ \A i \in 1..n : p.tokens[i].start \in Nat /\ p.tokens[i].end \in Nat
    BY <1>0, TokensAre
  <2>2. \A i \in 1..n : p.tokens[i].start < p.pos /\ p.tokens[i].end < p.pos
    BY <1>8, <2>1 DEF Nests
  <2>3. \A i, j \in 1..n : i < j =>
          LET a == p.tokens[i]
              b == p.tokens[j]
          IN  \/ b.start > a.end /\ a.end # 0
              \/ a.start < b.start /\ b.end < a.end /\ b.end # 0
              \/ a.start < b.start /\ a.end = 0
    BY <1>8, <2>1 DEF Nests
  <2>4. \A i \in 1..n : k < i => p.tokens[i].end # 0
    BY <1>0, <1>1, <2>1 DEF Opened
  <2>5. ASSUME NEW i \in 1..n, NEW j \in 1..n, i < j
        PROVE  LET a == q.tokens[i]
                   b == q.tokens[j]
               IN  \/ b.start > a.end /\ a.end # 0
                   \/ a.start < b.start /\ b.end < a.end /\ b.end # 0
                   \/ a.start < b.start /\ a.end = 0
    <3>1. CASE i = k
      <4>1. j # k /\ k < j
        BY <1>0, <2>5, <3>1
      <4>2. p.tokens[k].start < p.tokens[j].start
        BY <1>1, <2>3, <2>5, <3>1
      <4>3. p.tokens[j].end # 0 /\ p.tokens[j].end < p.pos
        BY <2>2, <2>4, <4>1
      <4> QED
        BY <1>4, <1>6, <3>1, <4>1, <4>2, <4>3
    <3>2. CASE j = k
      <4>1. i # k
        BY <1>0, <2>5, <3>2
      <4> QED
        BY <1>1, <1>4, <1>6, <2>3, <2>5, <3>2, <4>1
    <3>3. CASE i # k /\ j # k
      BY <1>6, <2>3, <2>5, <3>3
    <3> QED
      BY <3>1, <3>2, <3>3
  <2>6. ASSUME NEW i \in Opened(q)
        PROVE  q.tokens[i].type \in {"object", "array"}
    <3>1. i \in 1..n /\ q.tokens[i].end = 0
      BY <1>6 DEF Opened
    <3>2. i # k
      BY <1>0, <1>4, <1>6, <3>1
    <3>3. i \in Opened(p)
      BY <1>6, <2>1, <3>1, <3>2 DEF Opened
    <3> QED
      BY <1>6, <1>8, <3>1, <3>2, <3>3 DEF Nests
  <2>7. ASSUME NEW i \in 1..n
        PROVE  q.tokens[i].start < q.pos /\ q.tokens[i].end < q.pos
    <3>1. CASE i = k
      BY <1>0, <1>4, <1>5, <1>6, <2>1, <2>2, <3>1
    <3>2. CASE i # k
      BY <1>0, <1>5, <1>6, <2>1, <2>2, <3>2
    <3> QED
      BY <3>1, <3>2
  <2> QED
    BY <1>6, <2>5, <2>6, <2>7 DEF Nests
<1> QED
  BY <1>7, <1>8 DEF q

\* Whatever the symbol, the parser fits and its tokens nest.
LEMMA SymbolNests ==
    ASSUME NEW p, NEW text, NEW len, NEW room, Ready(p, text, len, room)
    PROVE  LET o == Symbol(p, text, len, room)
           IN  /\ o.r \in {"more", "nomem", "part", "inval"}
               /\ Fits(o.parser, len, room)
               /\ Nests(p) => Nests(o.parser)
<1> DEFINE o == Symbol(p, text, len, room)
<1>0. /\ p \in ParserType /\ p.pos \in Nat /\ p.pos > 0 /\ p.pos <= len
      /\ len \in Nat /\ room \in Nat /\ Len(p.tokens) \in Nat
      /\ p.toksuper \in Nat /\ p.toksuper <= Len(p.tokens) /\ Len(p.tokens) <= room
  BY DEF Ready, ParserType
<1>1. \/ Stays(p, o)
      \/ \E token, next : Adds(p, o, room, token, next) /\ next \in Nat /\ next <= len + 1
      \/ Closes(p, o)
      \/ Moves(p, o)
  BY SymbolShape
<1> HIDE DEF o
<1> SUFFICES /\ o.r \in {"more", "nomem", "part", "inval"}
             /\ Fits(o.parser, len, room)
             /\ Nests(p) => Nests(o.parser)
  BY DEF o
<1>2. CASE Stays(p, o)
  <2>1. o.parser = p /\ o.r \in {"nomem", "part", "inval"}
    BY <1>2 DEF Stays
  <2>2. Fits(p, len, room)
    BY <1>0 DEF Fits
  <2> QED
    BY <2>1, <2>2
<1>3. CASE \E token, next : Adds(p, o, room, token, next) /\ next \in Nat /\ next <= len + 1
  <2>1. PICK token, next : Adds(p, o, room, token, next) /\ next \in Nat /\ next <= len + 1
    BY <1>3
  <2>2. o.r = "more"
    BY <2>1 DEF Adds
  <2>3. Fits(o.parser, len, room) /\ (Nests(p) => Nests(o.parser))
    BY <2>1, AddNests
  <2> QED
    BY <2>2, <2>3
<1>4. CASE Closes(p, o)
  <2>1. o.r = "more"
    BY <1>4 DEF Closes
  <2>2. Fits(o.parser, len, room) /\ (Nests(p) => Nests(o.parser))
    BY <1>4, CloseNests
  <2> QED
    BY <2>1, <2>2
<1>5. CASE Moves(p, o)
  <2> DEFINE q == o.parser
  <2>1. /\ q = [pos |-> p.pos + 1, toksuper |-> q.toksuper, tokens |-> p.tokens]
        /\ q.toksuper \in 0..Len(p.tokens) /\ o.r = "more"
    BY <1>5 DEF Moves
  <2> HIDE DEF q
  <2>2. q.pos = p.pos + 1 /\ q.tokens = p.tokens /\ q \in ParserType
    BY <1>0, <2>1 DEF ParserType
  <2>3. Fits(q, len, room)
    BY <1>0, <2>1, <2>2 DEF Fits
  <2>4. ASSUME Nests(p)
        PROVE  Nests(q)
    <3>1. \A i \in DOMAIN p.tokens : p.tokens[i].start \in Nat /\ p.tokens[i].end \in Nat
      BY <1>0, TokensAre
    <3>2. Opened(q) = Opened(p)
      BY <2>2 DEF Opened
    <3> QED
      BY <1>0, <2>2, <2>4, <3>1, <3>2 DEF Nests
  <2> QED
    BY <2>1, <2>3, <2>4 DEF q
<1> QED
  BY <1>1, <1>2, <1>3, <1>4, <1>5

-----------------------------------------------------------------------------
(* The invariant of the reader *)

Before == \A i \in DOMAIN parser.tokens :
             parser.tokens[i].start < parser.pos /\ parser.tokens[i].end < parser.pos

\* The tokens lie before what is parsed next: what is filled then comes after them, or
\* within those that are open.
ReaderInv == JsonTypeOK /\ TokensNest /\ Before

LEMMA NestsIs ==
    Nests(parser) /\ (pc = "dump" => Opened(parser) = {}) <=> TokensNest /\ Before
BY DEF Nests, TokensNest, Before

LEMMA ReaderStart == ReaderInit => ReaderInv
<1> SUFFICES ASSUME ReaderInit
             PROVE  ReaderInv
  OBVIOUS
<1>1. sent \in Seq(STRING) /\ Len(sent) \in Nat
  BY ReaderAssumption DEF ReaderInit
<1>2. parser = [pos |-> 1, toksuper |-> 0, tokens |-> << >>]
  BY DEF ReaderInit, Start
<1>3. JsonTypeOK
  <2>1. parser \in [pos : 1..1, toksuper : Nat, tokens : Seq(TokenType)]
    BY <1>2
  <2>2. /\ jslen = 0 /\ tokcount \in Nat /\ parser.toksuper = 0
        /\ Len(parser.tokens) = 0
    BY <1>2, ReaderAssumption DEF ReaderInit
  <2>3. jslen \in 0..arriving /\ parser \in [pos : 1..(jslen + 1), toksuper : Nat,
                                            tokens : Seq(TokenType)]
    BY <1>1, <2>1, <2>2 DEF ReaderInit
  <2>4. parser.toksuper <= Len(parser.tokens) /\ Len(parser.tokens) <= tokcount
    BY <2>2
  <2>5. /\ sent \in Texts /\ arriving \in 0..Len(sent) /\ buf \in 1..MaxBuf
        /\ eofExpected \in BOOLEAN /\ cut \in BOOLEAN /\ pc = "read" /\ status = "running"
    BY DEF ReaderInit
  <2> QED
    BY <2>2, <2>3, <2>4, <2>5 DEF JsonTypeOK
<1>4. TokensNest /\ Before
  <2>1. DOMAIN parser.tokens = {} /\ Opened(parser) = {}
    BY <1>2 DEF Opened
  <2> QED
    BY <2>1 DEF TokensNest, Before
<1> QED
  BY <1>3, <1>4 DEF ReaderInv

LEMMA ReaderFits ==
    ASSUME ReaderInv
    PROVE  /\ sent \in Seq(STRING) /\ Len(sent) \in Nat /\ arriving \in 0..Len(sent)
           /\ jslen \in 0..arriving /\ buf \in Nat \ {0} /\ tokcount \in Nat
           /\ Fits(parser, jslen, tokcount)
<1> USE DEF ReaderInv
<1>1. sent \in Seq(STRING) /\ Len(sent) \in Nat
  BY ReaderAssumption DEF JsonTypeOK
<1>2. /\ arriving \in 0..Len(sent) /\ jslen \in 0..arriving /\ buf \in Nat \ {0}
      /\ tokcount \in Nat
  BY <1>1, ReaderAssumption DEF JsonTypeOK
<1>3. parser \in [pos : 1..(jslen + 1), toksuper : Nat, tokens : Seq(TokenType)]
  BY DEF JsonTypeOK
<1>4. parser \in ParserType /\ parser.pos \in 1..(jslen + 1)
  BY <1>1, <1>2, <1>3 DEF ParserType
<1> QED
  BY <1>1, <1>2, <1>4 DEF Fits, JsonTypeOK

LEMMA ReaderKeeps == ReaderInv /\ [ReaderNext]_readerVars => ReaderInv'
<1> SUFFICES ASSUME ReaderInv, [ReaderNext]_readerVars
             PROVE  ReaderInv'
  OBVIOUS
<1> USE DEF ReaderInv
<1>0. /\ sent \in Seq(STRING) /\ Len(sent) \in Nat /\ arriving \in 0..Len(sent)
      /\ jslen \in 0..arriving /\ buf \in Nat \ {0} /\ tokcount \in Nat
      /\ Fits(parser, jslen, tokcount)
  BY ReaderFits
<1>1. ASSUME UNCHANGED <<sent, parser>>, pc' = "dump" => Opened(parser) = {}
      PROVE  TokensNest' /\ Before'
  BY <1>1 DEF TokensNest, Before, Opened
<1>2. CASE Read
  <2>1. jslen' \in jslen..arriving
    BY <1>0, <1>2 DEF Read
  <2>2. JsonTypeOK'
    <3>1. parser \in [pos : 1..(jslen' + 1), toksuper : Nat, tokens : Seq(TokenType)]
      BY <1>0, <2>1 DEF JsonTypeOK
    <3> QED
      BY <1>0, <1>2, <2>1, <3>1 DEF Read, JsonTypeOK
  <2> QED
    BY <1>1, <1>2, <2>2 DEF Read
<1>3. CASE Eof
  BY <1>1, <1>3 DEF Eof, JsonTypeOK
<1>4. CASE Scan
  <2> DEFINE o == Symbol(parser, sent, jslen, tokcount)
  <2>1. Ready(parser, sent, jslen, tokcount)
    BY <1>0, <1>4 DEF Scan, Ready, Fits
  <2>2. /\ o.r \in {"more", "nomem", "part", "inval"}
        /\ Fits(o.parser, jslen, tokcount)
        /\ Nests(parser) => Nests(o.parser)
    BY <2>1, SymbolNests
  <2>3. /\ parser' = o.parser
        /\ pc' = CASE o.r = "more" -> "parse" [] o.r = "nomem" -> "grow"
                   [] o.r \in {"part", "inval"} -> "read"
        /\ cut' = (cut \/ CutsPrimitive(o))
        /\ UNCHANGED <<sent, arriving, jslen, buf, tokcount, eofExpected, status>>
    BY <1>4 DEF Scan
  <2> HIDE DEF o
  <2>4. pc' \in {"parse", "grow", "read"}
    BY <2>2, <2>3
  <2>5. cut' \in BOOLEAN
    BY <2>3 DEF CutsPrimitive
  <2>6. JsonTypeOK'
    <3>1. parser' \in [pos : 1..(jslen' + 1), toksuper : Nat, tokens : Seq(TokenType)]
      BY <2>2, <2>3 DEF Fits, ParserType
    <3>2. parser'.toksuper <= Len(parser'.tokens) /\ Len(parser'.tokens) <= tokcount'
      BY <2>2, <2>3 DEF Fits
    <3> QED
      BY <2>3, <2>4, <2>5, <3>1, <3>2 DEF JsonTypeOK
  <2>7. Nests(parser)
    BY NestsIs
  <2>8. Nests(parser')
    BY <2>2, <2>3, <2>7
  <2>9. TokensNest' /\ Before'
    BY <2>4, <2>8 DEF Nests, TokensNest, Before
  <2> QED
    BY <2>6, <2>9
<1>5. CASE Return
  <2>1. JsonTypeOK'
    BY <1>5 DEF Return, JsonTypeOK
  <2> QED
    BY <1>1, <1>5, <2>1 DEF Return
<1>6. CASE Grow
  <2>1. JsonTypeOK'
    <3>1. tokcount' \in Nat /\ tokcount <= tokcount' /\ Len(parser.tokens) \in Nat
      BY <1>0, <1>6, TokensAre DEF Grow, Fits
    <3> QED
      BY <1>0, <1>6, <3>1 DEF Grow, JsonTypeOK
  <2> QED
    BY <1>1, <1>6, <2>1 DEF Grow
<1>7. CASE Dump
  <2>1. JsonTypeOK'
    BY <1>7 DEF Dump, JsonTypeOK
  <2> QED
    BY <1>1, <1>7, <2>1 DEF Dump
<1>8. CASE UNCHANGED readerVars
  <2>1. JsonTypeOK'
    BY <1>8 DEF readerVars, JsonTypeOK
  <2> QED
    BY <1>1, <1>8, <2>1 DEF readerVars, TokensNest
<1> QED
  BY <1>2, <1>3, <1>4, <1>5, <1>6, <1>7, <1>8 DEF ReaderNext

\* The reader's variables have their types: the parser is never beyond what was read,
\* and never has more tokens than there is room for (main, jsmn_alloc_token).
THEOREM ReaderTypeCorrect == ReaderSpec => []JsonTypeOK
<1>1. ReaderInv => JsonTypeOK
  BY DEF ReaderInv
<1> QED
  BY <1>1, ReaderStart, ReaderKeeps, PTL DEF ReaderSpec

\* The tokens nest, whatever the chunks, and what is dumped is closed (jsmn_parse).
THEOREM NestingHolds == ReaderSpec => []TokensNest
<1>1. ReaderInv => TokensNest
  BY DEF ReaderInv
<1> QED
  BY <1>1, ReaderStart, ReaderKeeps, PTL DEF ReaderSpec

-----------------------------------------------------------------------------
(* Chunks *)

\* OnePass has its own jsmn, which is the same.
LEMMA SameOperators ==
    ASSUME NEW q, NEW t, NEW l, NEW r
    PROVE  Pass!Symbol(q, t, l, r) = Symbol(q, t, l, r)
<1>1. \A S : Pass!Innermost(S) = Innermost(S) /\ Pass!Earliest(S) = Earliest(S)
  BY DEF Innermost, Earliest, Pass!Innermost, Pass!Earliest
<1>2. Pass!Opened(q) = Opened(q)
  BY DEF Opened, Pass!Opened
<1>3. \A a, b, c : Pass!Token(a, b, c) = Token(a, b, c)
  BY DEF Token, Pass!Token
<1>4. \A a, b : Pass!Outcome(a, b) = Outcome(a, b)
  BY DEF Outcome, Pass!Outcome
<1>5. \A a : Pass!TypeOf(a) = TypeOf(a)
  BY DEF TypeOf, Pass!TypeOf
<1>6. Pass!Counted(q) = Counted(q)
  BY DEF Counted, Pass!Counted
<1>7. \A token, next : Pass!Fill(q, token, next, r) = Fill(q, token, next, r)
  BY <1>4, <1>6 DEF Fill, Pass!Fill
<1>8. \A c : Pass!Open(q, c, r) = Open(q, c, r)
  BY <1>3, <1>5, <1>7 DEF Open, Pass!Open
<1>9. \A c : Pass!Close(q, c) = Close(q, c)
  <2> TAKE c
  <2> DEFINE i == Innermost(Opened(q))
             below == Innermost(Opened(q) \ {i})
  <2>1. Pass!Innermost(Pass!Opened(q)) = i /\ Pass!Innermost(Pass!Opened(q) \ {i}) = below
    BY <1>1, <1>2
  <2> DEFINE new == [q EXCEPT !.pos = @ + 1, !.toksuper = below, !.tokens[i].end = q.pos]
  <2>2. Close(q, c) = IF i = 0 \/ (i # 0 /\ q.tokens[i].type # TypeOf(c))
                      THEN Outcome(q, "inval") ELSE Outcome(new, "more")
    BY DEF Close
  <2>3. Pass!Close(q, c) = IF i = 0 \/ (i # 0 /\ q.tokens[i].type # Pass!TypeOf(c))
                           THEN Pass!Outcome(q, "inval") ELSE Pass!Outcome(new, "more")
    <3> DEFINE j == Pass!Innermost(Pass!Opened(q))
               low == Pass!Innermost(Pass!Opened(q) \ {j})
    <3>1. Pass!Close(q, c) =
             IF j = 0 \/ (j # 0 /\ q.tokens[j].type # Pass!TypeOf(c))
             THEN Pass!Outcome(q, "inval")
             ELSE Pass!Outcome([q EXCEPT !.pos = @ + 1, !.toksuper = low,
                                         !.tokens[j].end = q.pos], "more")
      BY DEF Pass!Close
    <3>2. j = i /\ low = below
      BY <2>1
    <3> HIDE DEF i, below, j, low
    <3> QED
      BY <3>1, <3>2
  <2> HIDE DEF new, i
  <2> QED
    BY <1>4, <1>5, <2>2, <2>3
<1>10. Pass!Separate(q) = Separate(q)
  BY <1>1, <1>2, <1>4 DEF Separate, Pass!Separate
<1>11. \A from, i : Pass!Escaped(t, from, i) <=> Escaped(t, from, i)
  BY DEF Escaped, Pass!Escaped, Escape, Pass!Escape
<1>12. \A from : Pass!ClosingQuote(t, l, from) = ClosingQuote(t, l, from)
  BY <1>1, <1>11 DEF ClosingQuote, Pass!ClosingQuote, Quote, Pass!Quote
<1>13. \A from : Pass!PrimitiveEnd(t, l, from) = PrimitiveEnd(t, l, from)
  BY <1>1 DEF PrimitiveEnd, Pass!PrimitiveEnd, Delimiters, Pass!Delimiters, Newline, Whitespace, Pass!Newline, Pass!Whitespace
<1>14. Pass!ParseString(q, t, l, r) = ParseString(q, t, l, r)
  BY <1>3, <1>4, <1>7, <1>12 DEF ParseString, Pass!ParseString
<1>15. Pass!ParsePrimitive(q, t, l, r) = ParsePrimitive(q, t, l, r)
  BY <1>3, <1>7, <1>13 DEF ParsePrimitive, Pass!ParsePrimitive
<1> QED
  BY <1>4, <1>8, <1>9, <1>10, <1>14, <1>15
     DEF Symbol, Pass!Symbol, Quote, Pass!Quote, Newline, Whitespace, Pass!Newline, Pass!Whitespace

LEMMA SameEnds ==
    ASSUME NEW text, NEW len \in Nat, NEW whole \in Nat, len <= whole,
           NEW from \in 1..(len + 1)
    PROVE  /\ ClosingQuote(text, len, from) # 0 =>
                 ClosingQuote(text, whole, from) = ClosingQuote(text, len, from)
           /\ \/ PrimitiveEnd(text, len, from) < len
              \/ len = whole
              \/ text[len + 1] \in Delimiters
              => PrimitiveEnd(text, whole, from) = PrimitiveEnd(text, len, from)
<1> DEFINE q == ClosingQuote(text, len, from)
           w == ClosingQuote(text, whole, from)
           e == PrimitiveEnd(text, len, from)
           f == PrimitiveEnd(text, whole, from)
           A == {i \in from..whole : text[i] = Quote /\ ~Escaped(text, from, i)}
<1>0. from \in 1..(whole + 1)
  OBVIOUS
<1>1. ASSUME q # 0
      PROVE  w = q
  <2>1. /\ q \in from..len /\ text[q] = Quote /\ ~Escaped(text, from, q)
        /\ \A i \in from..(q - 1) : text[i] = Quote => Escaped(text, from, i)
    BY <1>1, EndsAre
  <2>2. w # 0
    <3>1. q \in A
      BY <2>1
    <3>2. A \in SUBSET Nat /\ 0 \notin A /\ A # {}
      BY <3>1
    <3> HIDE DEF A
    <3>3. Earliest(A) \in A
      BY <3>2, EarliestIs
    <3>4. w = Earliest(A)
      BY DEF ClosingQuote, A
    <3> QED
      BY <3>2, <3>3, <3>4
  <2>3. /\ w \in from..whole /\ text[w] = Quote /\ ~Escaped(text, from, w)
        /\ \A i \in from..(w - 1) : text[i] = Quote => Escaped(text, from, i)
    BY <1>0, <2>2, EndsAre
  <2> HIDE DEF q, w
  <2>4. ~(w < q)
    <3>1. w < q => w \in from..(q - 1)
      BY <2>1, <2>3
    <3> QED
      BY <2>1, <2>3, <3>1
  <2>5. ~(q < w)
    <3>1. q < w => q \in from..(w - 1)
      BY <2>1, <2>3
    <3> QED
      BY <2>1, <2>3, <3>1
  <2> QED
    BY <2>1, <2>3, <2>4, <2>5
<1>2. ASSUME e < len \/ len = whole \/ text[len + 1] \in Delimiters
      PROVE  f = e
  <2>1. /\ e \in (from - 1)..len
        /\ \A i \in from..e : text[i] \notin Delimiters
        /\ e < len => text[e + 1] \in Delimiters
    BY EndsAre
  <2>2. /\ f \in (from - 1)..whole
        /\ \A i \in from..f : text[i] \notin Delimiters
        /\ f < whole => text[f + 1] \in Delimiters
    BY <1>0, EndsAre
  <2>3. e = whole \/ text[e + 1] \in Delimiters
    BY <1>2, <2>1
  <2> HIDE DEF e, f
  <2>4. ~(f < e)
    <3>1. f < e => f + 1 \in from..e /\ f < whole
      BY <2>1, <2>2
    <3> QED
      BY <2>1, <2>2, <3>1
  <2>5. ~(e < f)
    <3>1. e < f => e + 1 \in from..f /\ e # whole
      BY <2>1, <2>2
    <3> QED
      BY <2>2, <2>3, <3>1
  <2> QED
    BY <2>1, <2>2, <2>4, <2>5
<1> QED
  BY <1>1, <1>2

LEMMA SameSymbol ==
    ASSUME NEW p, NEW text, NEW len, NEW room, Ready(p, text, len, room),
           Symbol(p, text, len, room).r = "more",
           \/ ~InPrimitive(text[p.pos])
           \/ Symbol(p, text, len, room).parser.pos # len + 1
           \/ len = Len(text)
           \/ text[len + 1] \in Delimiters
    PROVE  Symbol(p, text, Len(text), Len(p.tokens) + 1) = Symbol(p, text, len, room)
<1> DEFINE o == Symbol(p, text, len, room)
           w == Symbol(p, text, Len(text), Len(p.tokens) + 1)
           c == text[p.pos]
<1>0. /\ p \in ParserType /\ p.pos \in Nat /\ p.pos > 0 /\ p.pos <= len
      /\ len \in Nat /\ Len(text) \in Nat /\ len <= Len(text) /\ Len(p.tokens) \in Nat
  BY DEF Ready, ParserType
<1>1. \A token, next : Fill(p, token, next, room).r = "more" =>
         Fill(p, token, next, Len(p.tokens) + 1) = Fill(p, token, next, room)
  BY <1>0 DEF Fill, Outcome
<1>2. CASE c \in {"{", "["}
  <2>1. o = Open(p, c, room) /\ w = Open(p, c, Len(p.tokens) + 1)
    BY <1>2 DEF Symbol, Quote, Newline, Whitespace
  <2> DEFINE token == Token(TypeOf(c), p.pos, 0)
  <2>2. Fill(p, token, p.pos + 1, room).r = "more"
    <3>1. Fill(p, token, p.pos + 1, room).r \in {"more", "nomem"}
      BY DEF Fill, Outcome
    <3> QED
      BY <2>1, <3>1 DEF Open
  <2> QED
    BY <1>1, <2>1, <2>2 DEF Open
<1>3. CASE c = Quote
  <2> DEFINE e == ClosingQuote(text, len, p.pos + 1)
  <2>1. /\ o = ParseString(p, text, len, room)
        /\ w = ParseString(p, text, Len(text), Len(p.tokens) + 1)
    BY <1>3 DEF Symbol, Quote, Newline, Whitespace
  <2>2. e # 0
    BY <2>1 DEF ParseString, Outcome
  <2>3. ClosingQuote(text, Len(text), p.pos + 1) = e
    <3>1. p.pos + 1 \in 1..(len + 1)
      BY <1>0
    <3> QED
      BY <1>0, <2>2, <3>1, SameEnds
  <2> HIDE DEF e, o, w
  <2>4. o = Fill(p, Token("string", p.pos + 1, e - 1), e + 1, room)
    BY <2>1, <2>2 DEF ParseString, e
  <2>5. w = Fill(p, Token("string", p.pos + 1, e - 1), e + 1, Len(p.tokens) + 1)
    BY <2>1, <2>2, <2>3 DEF ParseString
  <2>6. o.r = "more"
    BY DEF o
  <2>7. w = o
    BY <1>1, <2>4, <2>5, <2>6
  <2> QED
    BY <2>7 DEF o, w
<1>4. CASE c \in {"}", "]", ":", ","} \cup Whitespace
  BY <1>4 DEF Symbol, Quote, Newline, Whitespace
<1>5. CASE c \notin {"{", "[", "}", "]", Quote, ":", ","} \cup Whitespace
  <2> DEFINE e == PrimitiveEnd(text, len, p.pos)
  <2>1. /\ o = ParsePrimitive(p, text, len, room)
        /\ w = ParsePrimitive(p, text, Len(text), Len(p.tokens) + 1)
    BY <1>5 DEF Symbol
  <2>2. InPrimitive(c)
    BY <1>5 DEF InPrimitive, Delimiters, Brackets, Whitespace
  <2>3. p.pos \in 1..(len + 1)
    BY <1>0
  <2>4. e \in (p.pos - 1)..len
    BY <1>0, <2>3, EndsAre
  <2> DEFINE token == Token("primitive", p.pos, e)
  <2>5. o = Fill(p, token, e + 1, room)
    BY <2>1 DEF ParsePrimitive
  <2>6. o.parser.pos = e + 1
    <3>1. Len(p.tokens) # room
      BY <2>5 DEF Fill, Outcome
    <3>2. o.parser = [p EXCEPT !.pos = e + 1, !.tokens = Append(Counted(p), token)]
      BY <2>5, <3>1 DEF Fill, Outcome
    <3> HIDE DEF o, e, token
    <3>3. o.parser = [pos |-> e + 1, toksuper |-> p.toksuper,
                      tokens |-> Append(Counted(p), token)]
      BY <1>0, <3>2 DEF ParserType
    <3> QED
      BY <3>3
  <2>7. e < len \/ len = Len(text) \/ text[len + 1] \in Delimiters
    <3>1. o.parser.pos # len + 1 \/ len = Len(text) \/ text[len + 1] \in Delimiters
      BY <2>2
    <3> HIDE DEF o, e
    <3> QED
      BY <1>0, <2>4, <2>6, <3>1
  <2>8. PrimitiveEnd(text, Len(text), p.pos) = e
    <3> HIDE DEF o
    <3> QED
      BY <1>0, <2>3, <2>7, SameEnds
  <2>9. w = Fill(p, token, e + 1, Len(p.tokens) + 1)
    BY <2>1, <2>8 DEF ParsePrimitive
  <2> HIDE DEF o, w, token
  <2>10. o.r = "more"
    BY DEF o
  <2>11. w = o
    BY <1>1, <2>5, <2>9, <2>10
  <2> QED
    BY <2>11 DEF o, w
<1> QED
  BY <1>2, <1>3, <1>4, <1>5

\* With chunks of any sizes, and an array that grows whenever it is full, jsmn takes
\* the steps it takes over the whole text, until a chunk ends within a primitive (main).
THEOREM PassImplemented == ReaderSpec => ParsesTheWhole
<1>1. ReaderInit => Pass!PassInit
  BY DEF ReaderInit, Start, Pass!PassInit, Pass!Start
<1>2. ReaderInv /\ [ReaderNext]_readerVars => [cut' \/ Pass!PassNext]_<<sent, parser>>
  <2> SUFFICES ASSUME ReaderInv, [ReaderNext]_readerVars
               PROVE  cut' \/ Pass!PassNext \/ UNCHANGED <<sent, parser>>
    OBVIOUS
  <2>1. CASE Scan
    <3> DEFINE o == Symbol(parser, sent, jslen, tokcount)
               w == Symbol(parser, sent, Len(sent), Len(parser.tokens) + 1)
    <3>1. Ready(parser, sent, jslen, tokcount)
      BY <2>1, ReaderFits DEF Scan, Ready, Fits
    <3>2. parser' = o.parser /\ sent' = sent /\ cut' = (cut \/ CutsPrimitive(o))
      BY <2>1 DEF Scan
    <3>3. CASE o.r # "more"
      <4>1. \/ Stays(parser, o)
            \/ \E token, next : Adds(parser, o, tokcount, token, next) /\ next \in Nat
                                /\ next <= jslen + 1
            \/ Closes(parser, o)
            \/ Moves(parser, o)
        BY <3>1, SymbolShape
      <4> HIDE DEF o
      <4>2. Stays(parser, o)
        BY <3>3, <4>1 DEF Adds, Closes, Moves
      <4> QED
        BY <3>2, <4>2 DEF Stays
    <3>4. CASE o.r = "more" /\ ~CutsPrimitive(o)
      <4>1. w = o
        <5>1. \/ ~InPrimitive(sent[parser.pos]) \/ o.parser.pos # jslen + 1
              \/ ~(jslen < Len(sent)) \/ sent[jslen + 1] \in Delimiters
          BY <3>4 DEF CutsPrimitive
        <5>2. jslen = Len(sent) \/ jslen < Len(sent)
          BY <3>1 DEF Ready
        <5> QED
          BY <3>1, <3>4, <5>1, <5>2, SameSymbol
      <4>2. Pass!Symbol(parser, sent, Len(sent), Len(parser.tokens) + 1) = w
        BY SameOperators
      <4>3. parser.pos <= Len(sent)
        BY <3>1 DEF Ready, ParserType
      <4> HIDE DEF o, w
      <4>4. Pass!PassNext
        BY <3>2, <3>4, <4>1, <4>2, <4>3 DEF Pass!PassNext
      <4> QED
        BY <4>4
    <3>5. CASE o.r = "more" /\ CutsPrimitive(o)
      BY <3>2, <3>5
    <3> QED
      BY <3>3, <3>4, <3>5
  <2>2. CASE Read \/ Eof \/ Return \/ Grow \/ Dump \/ UNCHANGED readerVars
    BY <2>2 DEF Read, Eof, Return, Grow, Dump, readerVars
  <2> QED
    BY <2>1, <2>2 DEF ReaderNext
<1> QED
  BY <1>1, <1>2, ReaderStart, ReaderKeeps, PTL DEF ReaderSpec, ParsesTheWhole

-----------------------------------------------------------------------------
(* Where a position is: within a string, and how deep *)

State == [mode : {"out", "string", "escape"}, depth : Int]

LEMMA AfterString ==
    ASSUME NEW state \in State, NEW c, state.mode \in {"string", "escape"}
    PROVE  /\ state.mode = "escape" =>
                 After(state, c) = [mode |-> "string", depth |-> state.depth]
           /\ state.mode = "string" /\ c = Quote =>
                 After(state, c) = [mode |-> "out", depth |-> state.depth]
           /\ state.mode = "string" /\ c = Escape =>
                 After(state, c) = [mode |-> "escape", depth |-> state.depth]
           /\ state.mode = "string" /\ c # Quote /\ c # Escape =>
                 After(state, c) = [mode |-> "string", depth |-> state.depth]
<1>1. state = [mode |-> state.mode, depth |-> state.depth]
  BY DEF State
<1>2. ASSUME NEW new
      PROVE  [state EXCEPT !.mode = new] = [mode |-> new, depth |-> state.depth]
  BY <1>1
<1>3. ASSUME state.mode = "escape"
      PROVE  After(state, c) = [mode |-> "string", depth |-> state.depth]
  <2>1. After(state, c) = [state EXCEPT !.mode = "string"]
    BY <1>3 DEF After
  <2> QED
    BY <1>2, <2>1
<1>4. ASSUME state.mode = "string", c = Quote
      PROVE  After(state, c) = [mode |-> "out", depth |-> state.depth]
  <2>1. After(state, c) = [state EXCEPT !.mode = "out"]
    BY <1>4 DEF After, Quote, Escape
  <2> QED
    BY <1>2, <2>1
<1>5. ASSUME state.mode = "string", c = Escape
      PROVE  After(state, c) = [mode |-> "escape", depth |-> state.depth]
  <2>1. After(state, c) = [state EXCEPT !.mode = "escape"]
    BY <1>5 DEF After, Quote, Escape
  <2> QED
    BY <1>2, <2>1
<1>6. ASSUME state.mode = "string", c # Quote, c # Escape
      PROVE  After(state, c) = [mode |-> "string", depth |-> state.depth]
  <2>1. After(state, c) = [state EXCEPT !.mode = "string"]
    BY <1>6 DEF After
  <2> QED
    BY <1>2, <2>1
<1> QED
  BY <1>3, <1>4, <1>5, <1>6

LEMMA AfterOut ==
    ASSUME NEW state \in State, NEW c, state.mode = "out"
    PROVE  /\ c = Quote => After(state, c) = [mode |-> "string", depth |-> state.depth]
           /\ c \in {"{", "["} =>
                 After(state, c) = [mode |-> "out", depth |-> state.depth + 1]
           /\ c \in {"}", "]"} =>
                 After(state, c) = [mode |-> "out", depth |-> state.depth - 1]
           /\ c \notin Brackets /\ c # Quote => After(state, c) = state
<1> DEFINE step == CASE c \in {"{", "["} -> 1
                     [] c \in {"}", "]"} -> -1
                     [] OTHER -> 0
<1>1. state = [mode |-> "out", depth |-> state.depth] /\ state.depth \in Int
  BY DEF State
<1>2. After(state, c) = [mode |-> IF c = Quote THEN "string" ELSE "out",
                         depth |-> state.depth + step]
  BY DEF After
<1>3. /\ c \in {"{", "["} => step = 1
      /\ c \in {"}", "]"} => step = -1
      /\ c \notin Brackets => step = 0
  BY DEF Brackets
<1> HIDE DEF step
<1>4. c = Quote => c \notin Brackets
  BY DEF Quote, Brackets
<1>5. c \in {"{", "[", "}", "]"} <=> c \in Brackets
  BY DEF Brackets
<1>6. ASSUME c = Quote
      PROVE  After(state, c) = [mode |-> "string", depth |-> state.depth]
  <2>1. step = 0
    BY <1>3, <1>4, <1>6
  <2>2. After(state, c) = [mode |-> "string", depth |-> state.depth + 0]
    BY <1>2, <1>6, <2>1
  <2>3. state.depth + 0 = state.depth
    BY <1>1
  <2> QED
    BY <2>2, <2>3
<1>7. ASSUME c \in {"{", "["}
      PROVE  After(state, c) = [mode |-> "out", depth |-> state.depth + 1]
  BY <1>2, <1>3, <1>4, <1>5, <1>7
<1>8. ASSUME c \in {"}", "]"}
      PROVE  After(state, c) = [mode |-> "out", depth |-> state.depth - 1]
  <2>1. After(state, c) = [mode |-> "out", depth |-> state.depth + (-1)]
    BY <1>2, <1>3, <1>4, <1>5, <1>8
  <2>2. state.depth + (-1) = state.depth - 1
    BY <1>1
  <2> QED
    BY <2>1, <2>2
<1>9. ASSUME c \notin Brackets, c # Quote
      PROVE  After(state, c) = state
  <2>1. After(state, c) = [mode |-> "out", depth |-> state.depth + 0]
    BY <1>2, <1>3, <1>9
  <2>2. state.depth + 0 = state.depth
    BY <1>1
  <2> QED
    BY <1>1, <2>1, <2>2
<1> QED
  BY <1>6, <1>7, <1>8, <1>9

LEMMA AfterType ==
    ASSUME NEW state \in State, NEW c
    PROVE  After(state, c) \in State
<1>1. state.mode \in {"out", "string", "escape"} /\ state.depth \in Int
  BY DEF State
<1>2. CASE state.mode \in {"string", "escape"}
  <2>1. PICK new \in {"out", "string", "escape"} :
           After(state, c) = [mode |-> new, depth |-> state.depth]
    BY <1>2, AfterString
  <2> QED
    BY <1>1, <2>1 DEF State
<1>3. CASE state.mode = "out"
  <2>1. PICK new \in {"out", "string"}, deep \in Int :
           After(state, c) = [mode |-> new, depth |-> deep]
    <3>1. CASE c = Quote
      BY <1>1, <1>3, <3>1, AfterOut
    <3>2. CASE c \in {"{", "["}
      <4>1. After(state, c) = [mode |-> "out", depth |-> state.depth + 1]
        BY <1>3, <3>2, AfterOut
      <4>2. state.depth + 1 \in Int
        BY <1>1
      <4> QED
        BY <4>1, <4>2
    <3>3. CASE c \in {"}", "]"}
      <4>1. After(state, c) = [mode |-> "out", depth |-> state.depth - 1]
        BY <1>3, <3>3, AfterOut
      <4>2. state.depth - 1 \in Int
        BY <1>1
      <4> QED
        BY <4>1, <4>2
    <3>4. CASE c \notin Brackets /\ c # Quote
      <4>1. After(state, c) = state
        BY <1>3, <3>4, AfterOut
      <4> QED
        BY <1>1, <1>3, <4>1 DEF State
    <3> QED
      BY <3>1, <3>2, <3>3, <3>4 DEF Brackets
  <2> QED
    BY <2>1 DEF State
<1> QED
  BY <1>1, <1>2, <1>3

\* The states of a text exist: those of its first k symbols can be continued.
LEMMA WithinIs ==
    ASSUME NEW text, Len(text) \in Nat
    PROVE  /\ Within(text) \in [0..Len(text) -> State]
           /\ Within(text)[0] = [mode |-> "out", depth |-> 0]
           /\ \A i \in 1..Len(text) : Within(text)[i] = After(Within(text)[i - 1], text[i])
<1> DEFINE n == Len(text)
           first == [mode |-> "out", depth |-> 0]
           Is(f, k) == /\ f \in [0..k -> State] /\ f[0] = first
                       /\ \A i \in 1..k : f[i] = After(f[i - 1], text[i])
           S == {k \in 0..n : \E f : Is(f, k)}
<1>1. first \in State
  BY DEF State
<1> HIDE DEF first
<1>2. 0 \in S
  <2> DEFINE f == [i \in 0..0 |-> first]
  <2>1. f \in [0..0 -> State] /\ f[0] = first /\ 1..0 = {}
    BY <1>1
  <2> HIDE DEF f
  <2>2. Is(f, 0)
    BY <2>1
  <2> HIDE DEF Is
  <2> QED
    BY <2>2
<1>3. ASSUME NEW k \in 0..(n - 1), k \in S
      PROVE  k + 1 \in S
  <2>1. PICK f : Is(f, k)
    BY <1>3
  <2> DEFINE g == [i \in 0..(k + 1) |-> IF i <= k THEN f[i] ELSE After(f[k], text[k + 1])]
  <2>2. After(f[k], text[k + 1]) \in State
    <3>1. f[k] \in State
      BY <2>1
    <3> QED
      BY <3>1, AfterType
  <2>3. g \in [0..(k + 1) -> State]
    BY <2>1, <2>2
  <2>4. g[0] = first
    BY <2>1
  <2>5. ASSUME NEW i \in 1..(k + 1)
        PROVE  g[i] = After(g[i - 1], text[i])
    <3>1. CASE i <= k
      <4>1. f[i] = After(f[i - 1], text[i])
        BY <2>1, <3>1
      <4>2. g[i] = f[i] /\ g[i - 1] = f[i - 1]
        BY <3>1
      <4> QED
        BY <4>1, <4>2
    <3>2. CASE i = k + 1
      <4>1. g[i] = After(f[k], text[k + 1]) /\ g[i - 1] = f[k]
        BY <3>2
      <4> QED
        BY <3>2, <4>1
    <3> QED
      BY <3>1, <3>2
  <2> HIDE DEF g
  <2>6. Is(g, k + 1)
    BY <2>3, <2>4, <2>5
  <2> QED
    BY <2>6
<1>4. n \in S
  <2> HIDE DEF S
  <2>1. \A k \in 0..n : k \in S
    BY <1>2, <1>3, FromTo
  <2> QED
    BY <2>1
<1>5. PICK f : Is(f, n)
  BY <1>4
<1>6. f = [i \in 0..Len(text) |-> IF i = 0 THEN [mode |-> "out", depth |-> 0]
                                  ELSE After(f[i - 1], text[i])]
  BY <1>5 DEF first
<1>7. Within(text) = CHOOSE at : at = [i \in 0..Len(text) |->
                                          IF i = 0 THEN [mode |-> "out", depth |-> 0]
                                          ELSE After(at[i - 1], text[i])]
  BY DEF Within
<1> DEFINE w == Within(text)
<1>8. w = [i \in 0..Len(text) |-> IF i = 0 THEN [mode |-> "out", depth |-> 0]
                                  ELSE After(w[i - 1], text[i])]
  BY <1>6, <1>7
<1> HIDE DEF w
<1>9. DOMAIN w = 0..n /\ w[0] = first /\ \A i \in 1..n : w[i] = After(w[i - 1], text[i])
  BY <1>8 DEF first
<1> DEFINE T == {i \in 0..n : w[i] \in State}
<1>10. 0 \in T
  BY <1>1, <1>9
<1>11. ASSUME NEW i \in 0..(n - 1), i \in T
       PROVE  i + 1 \in T
  <2>1. w[i + 1] = After(w[i], text[i + 1])
    BY <1>9
  <2>2. w[i] \in State
    BY <1>11
  <2>3. w[i + 1] \in State
    BY <2>1, <2>2, AfterType
  <2> QED
    BY <2>3
<1>12. \A i \in 0..n : i \in T
  <2> HIDE DEF T
  <2> QED
    BY <1>10, <1>11, FromTo
<1>13. w \in [0..n -> State]
  BY <1>8, <1>9, <1>12
<1> QED
  BY <1>9, <1>13 DEF w, first

\* A backslash that is not escaped itself escapes the next symbol.
LEMMA EscapedStep ==
    ASSUME NEW text, NEW from \in Nat, NEW i \in Nat, from <= i
    PROVE  /\ ~Escaped(text, from, from)
           /\ Escaped(text, from, i + 1) <=> text[i] = Escape /\ ~Escaped(text, from, i)
<1> DEFINE Run(k, j) == /\ \A m \in k..(j - 1) : text[m] = Escape
                        /\ k = from \/ text[k - 1] # Escape
<1>1. \A j \in Nat : Escaped(text, from, j) <=>
         \E k \in from..(j - 1) : Run(k, j) /\ (j - k) % 2 = 1
  BY DEF Escaped
<1>2. ~Escaped(text, from, from)
  BY <1>1
<1>3. ASSUME Escaped(text, from, i + 1)
      PROVE  text[i] = Escape /\ ~Escaped(text, from, i)
  <2>1. PICK k \in from..((i + 1) - 1) : Run(k, i + 1) /\ ((i + 1) - k) % 2 = 1
    BY <1>1, <1>3
  <2>2. text[i] = Escape
    BY <2>1
  <2>3. ASSUME Escaped(text, from, i)
        PROVE  FALSE
    <3>1. PICK j \in from..(i - 1) : Run(j, i) /\ (i - j) % 2 = 1
      BY <1>1, <2>3
    <3>2. j = k
      <4>1. ~(k < j)
        BY <2>1, <3>1
      <4>2. ~(j < k)
        BY <2>1, <3>1
      <4> QED
        BY <4>1, <4>2
    <3> QED
      BY <2>1, <3>1, <3>2
  <2> QED
    BY <2>2, <2>3
<1>4. ASSUME text[i] = Escape, ~Escaped(text, from, i)
      PROVE  Escaped(text, from, i + 1)
  <2> DEFINE S == {k \in from..i : \A m \in k..i : text[m] = Escape}
  <2>1. i \in S /\ S \in SUBSET Nat
    BY <1>4
  <2>2. PICK k \in S : \A j \in S : k <= j
    BY <2>1, LeastNumber
  <2>3. Run(k, i + 1)
    <3>1. ASSUME k # from, text[k - 1] = Escape
          PROVE  FALSE
      <4>1. k - 1 \in S
        BY <2>2, <3>1
      <4> QED
        BY <2>2, <4>1
    <3> QED
      BY <2>2, <3>1
  <2>4. CASE ((i + 1) - k) % 2 = 1
    BY <1>1, <2>2, <2>3, <2>4
  <2>5. CASE ((i + 1) - k) % 2 # 1
    <3>1. (i - k) % 2 = 1 /\ k # i
      BY <2>2, <2>5
    <3>2. Run(k, i) /\ k \in from..(i - 1)
      BY <2>2, <2>3, <3>1
    <3> QED
      BY <1>1, <1>4, <3>1, <3>2
  <2> QED
    BY <2>4, <2>5
<1> QED
  BY <1>2, <1>3, <1>4

\* A string ends at the first quote that is not escaped: after it one is out again.
LEMMA StringEnds ==
    ASSUME NEW text, NEW len \in Nat, Len(text) \in Nat, len <= Len(text),
           NEW pos \in 1..len, Within(text)[pos - 1].mode = "out", text[pos] = Quote,
           ClosingQuote(text, len, pos + 1) # 0
    PROVE  Within(text)[ClosingQuote(text, len, pos + 1)] = Within(text)[pos - 1]
<1> DEFINE w == Within(text)
           e == ClosingQuote(text, len, pos + 1)
           d == w[pos - 1].depth
           In(i) == [mode |-> IF Escaped(text, pos + 1, i + 1) THEN "escape" ELSE "string",
                     depth |-> d]
           S == {i \in pos..(e - 1) : w[i] = In(i)}
<1>1. /\ w \in [0..Len(text) -> State]
      /\ \A i \in 1..Len(text) : w[i] = After(w[i - 1], text[i])
  BY WithinIs
<1>2. /\ e \in (pos + 1)..len /\ text[e] = Quote /\ ~Escaped(text, pos + 1, e)
      /\ \A i \in (pos + 1)..(e - 1) : text[i] = Quote => Escaped(text, pos + 1, i)
  <2>1. pos + 1 \in 1..(len + 1)
    OBVIOUS
  <2> QED
    BY <2>1, EndsAre
<1>3. w[pos - 1] \in State /\ w[pos - 1] = [mode |-> "out", depth |-> d] /\ d \in Int
  <2>1. w[pos - 1] \in State
    BY <1>1
  <2> QED
    BY <2>1 DEF State
<1> HIDE DEF w, e, d
<1>4. pos \in S
  <2>1. w[pos] = After(w[pos - 1], Quote)
    BY <1>1
  <2>2. w[pos] = [mode |-> "string", depth |-> d]
    <3>1. w[pos - 1] \in State /\ w[pos - 1].mode = "out" /\ w[pos - 1].depth = d
      BY <1>3
    <3> QED
      BY <2>1, <3>1, AfterOut
  <2>3. ~Escaped(text, pos + 1, pos + 1)
    BY EscapedStep
  <2> QED
    BY <1>2, <2>2, <2>3
<1>5. ASSUME NEW i \in pos..((e - 1) - 1), i \in S
      PROVE  i + 1 \in S
  <2> DEFINE c == text[i + 1]
  <2>1. w[i + 1] = After(w[i], c) /\ w[i] \in State
    <3>1. i \in 0..Len(text) /\ i + 1 \in 1..Len(text) /\ (i + 1) - 1 = i
      BY <1>2
    <3> QED
      BY <1>1, <3>1
  <2>2. w[i] = In(i)
    BY <1>5
  <2>3. Escaped(text, pos + 1, i + 2) <=> c = Escape /\ ~Escaped(text, pos + 1, i + 1)
    <3>1. pos + 1 \in Nat /\ i + 1 \in Nat /\ pos + 1 <= i + 1 /\ (i + 1) + 1 = i + 2
      OBVIOUS
    <3> QED
      BY <3>1, EscapedStep
  <2>4. c = Quote => Escaped(text, pos + 1, i + 1)
    <3>1. i + 1 \in (pos + 1)..(e - 1)
      BY <1>2
    <3> QED
      BY <1>2, <3>1
  <2> HIDE DEF c
  <2>5. w[i + 1] = [mode |-> IF Escaped(text, pos + 1, i + 2) THEN "escape" ELSE "string",
                    depth |-> d]
    <3>1. CASE Escaped(text, pos + 1, i + 1)
      <4>1. w[i].mode = "escape" /\ w[i].depth = d
        BY <2>2, <3>1
      <4>2. w[i + 1] = [mode |-> "string", depth |-> d]
        BY <2>1, <4>1, AfterString
      <4> QED
        BY <2>3, <3>1, <4>2
    <3>2. CASE ~Escaped(text, pos + 1, i + 1)
      <4>1. w[i].mode = "string" /\ w[i].depth = d
        BY <2>2, <3>2
      <4>2. CASE c = Escape
        <5>1. w[i + 1] = [mode |-> "escape", depth |-> d]
          BY <2>1, <4>1, <4>2, AfterString
        <5> QED
          BY <2>3, <3>2, <4>2, <5>1
      <4>3. CASE c # Escape
        <5>1. w[i + 1] = [mode |-> "string", depth |-> d]
          BY <2>1, <2>4, <3>2, <4>1, <4>3, AfterString
        <5> QED
          BY <2>3, <4>3, <5>1
      <4> QED
        BY <4>2, <4>3
    <3> QED
      BY <3>1, <3>2
  <2>6. (i + 1) + 1 = i + 2 /\ i + 1 \in pos..(e - 1)
    BY <1>2
  <2> QED
    BY <2>5, <2>6
<1>6. e - 1 \in S
  <2> HIDE DEF S
  <2>1. \A i \in pos..(e - 1) : i \in S
    <3>1. pos \in Nat /\ e - 1 \in Nat
      BY <1>2
    <3> QED
      BY <1>4, <1>5, <3>1, FromTo
  <2> QED
    BY <1>2, <2>1
<1>7. w[e - 1] = [mode |-> "string", depth |-> d]
  <2>1. (e - 1) + 1 = e
    BY <1>2
  <2> QED
    BY <1>2, <1>6, <2>1
<1>8. w[e] = After(w[e - 1], Quote) /\ w[e - 1] \in State
  BY <1>1, <1>2
<1>9. w[e] = [mode |-> "out", depth |-> d]
  <2>1. w[e - 1].mode = "string" /\ w[e - 1].depth = d
    BY <1>7
  <2> QED
    BY <1>8, <2>1, AfterString
<1>10. w[e] = w[pos - 1]
  BY <1>3, <1>9
<1> QED
  BY <1>10 DEF w, e

\* A primitive of a document goes over neither quotes nor brackets.
LEMMA PrimitiveEnds ==
    ASSUME NEW text, NEW len \in Nat, Len(text) \in Nat, len <= Len(text), IsDocument(text),
           NEW pos \in 1..len, Within(text)[pos - 1].mode = "out", InPrimitive(text[pos]),
           PrimitiveEnd(text, len, pos) >= pos
    PROVE  Within(text)[PrimitiveEnd(text, len, pos)] = Within(text)[pos - 1]
<1> DEFINE w == Within(text)
           e == PrimitiveEnd(text, len, pos)
           n == Len(text)
           S == {i \in pos..e : w[i] = w[pos - 1] /\ InPrimitive(text[i])}
<1>1. /\ w \in [0..n -> State]
      /\ \A i \in 1..n : w[i] = After(w[i - 1], text[i])
  BY WithinIs
<1>2. e \in pos..len /\ \A i \in pos..e : text[i] \notin Delimiters
  <2>1. pos \in 1..(len + 1)
    OBVIOUS
  <2> QED
    BY <2>1, EndsAre
<1>3. /\ text[n] = Newline
      /\ \A i \in 1..(n - 1) :
            w[i - 1].mode = "out" /\ InPrimitive(text[i])
              => InPrimitive(text[i + 1]) \/ text[i + 1] \in Delimiters
  BY DEF IsDocument
<1>4. \A c : InPrimitive(c) => c \notin Brackets \cup {Quote} /\ c # Newline
  BY DEF InPrimitive, Delimiters, Whitespace
<1>5. w[pos - 1].mode = "out" /\ w[pos - 1] \in State
  BY <1>1
<1> HIDE DEF w, e
<1>6. pos \in S
  <2>1. w[pos] = After(w[pos - 1], text[pos])
    BY <1>1
  <2>2. w[pos] = w[pos - 1]
    BY <1>4, <1>5, <2>1, AfterOut
  <2> QED
    BY <1>2, <2>2
<1>7. ASSUME NEW i \in pos..(e - 1), i \in S
      PROVE  i + 1 \in S
  <2>1. w[i] = w[pos - 1] /\ InPrimitive(text[i])
    BY <1>7
  <2>2. i \in 1..(n - 1) /\ i + 1 \in pos..e
    BY <1>2
  <2>3. w[i - 1].mode = "out"
    <3>1. CASE i = pos
      BY <1>5, <3>1
    <3>2. CASE i # pos
      <4>1. w[i] = After(w[i - 1], text[i]) /\ w[i - 1] \in State
        BY <1>1, <2>2
      <4>2. w[i - 1].mode \in {"out", "string", "escape"}
        BY <4>1 DEF State
      <4>3. w[i - 1].mode # "escape" /\ w[i - 1].mode # "string"
        <5>1. w[i].mode = "out"
          BY <1>5, <2>1
        <5>2. text[i] # Quote
          BY <1>4, <2>1
        <5>3. CASE w[i - 1].mode = "escape"
          BY <4>1, <5>1, <5>3, AfterString
        <5>4. CASE w[i - 1].mode = "string" /\ text[i] = Escape
          BY <4>1, <5>1, <5>4, AfterString
        <5>5. CASE w[i - 1].mode = "string" /\ text[i] # Escape
          BY <4>1, <5>1, <5>2, <5>5, AfterString
        <5> QED
          BY <5>3, <5>4, <5>5
      <4> QED
        BY <4>2, <4>3
    <3> QED
      BY <3>1, <3>2
  <2>4. InPrimitive(text[i + 1])
    BY <1>2, <1>3, <2>1, <2>2, <2>3
  <2>5. w[i + 1] = After(w[i], text[i + 1])
    BY <1>1, <2>2
  <2>6. w[i + 1] = w[pos - 1]
    <3>1. w[i] \in State /\ w[i].mode = "out"
      BY <1>5, <2>1
    <3>2. text[i + 1] \notin Brackets /\ text[i + 1] # Quote
      BY <1>4, <2>4
    <3> QED
      BY <2>1, <2>5, <3>1, <3>2, AfterOut
  <2> QED
    BY <2>2, <2>4, <2>6
<1>8. w[e] = w[pos - 1]
  <2>1. \A i \in pos..e : i \in S
    <3> HIDE DEF S
    <3>1. pos \in Nat /\ e \in Nat
      BY <1>2
    <3> QED
      BY <1>6, <1>7, <3>1, FromTo
  <2> QED
    BY <1>2, <2>1
<1> QED
  BY <1>8 DEF w, e

-----------------------------------------------------------------------------
(* Nothing is dumped too early *)

\* The parser is outside of strings, as deep as it has open tokens.
Matches(p, text) ==
    Within(text)[p.pos - 1] = [mode |-> "out", depth |-> Cardinality(Opened(p))]

LEMMA OpenedAdds ==
    ASSUME NEW p, NEW text, NEW len, NEW room, Ready(p, text, len, room),
           NEW o, NEW token, NEW next, Adds(p, o, room, token, next)
    PROVE  /\ o.parser.pos = next
           /\ token.end = 0 =>
                 Cardinality(Opened(o.parser)) = Cardinality(Opened(p)) + 1
           /\ token.end # 0 => Opened(o.parser) = Opened(p)
<1> DEFINE n == Len(p.tokens)
           ts == Counted(p)
           q == o.parser
<1>0. p \in ParserType /\ p.toksuper <= n /\ n \in Nat
  BY DEF Ready, ParserType
<1>1. /\ ts \in Seq(TokenType) /\ Len(ts) = n
      /\ \A i \in 1..n : ts[i].end = p.tokens[i].end
  BY <1>0, CountedIs
<1> HIDE DEF ts
<1>2. q = [pos |-> next, toksuper |-> q.toksuper, tokens |-> Append(ts, token)]
      /\ token \in TokenType
  BY DEF Adds, ts
<1> HIDE DEF q
<1>3. q.pos = next /\ q.tokens = Append(ts, token)
  BY <1>2
<1>4. /\ DOMAIN q.tokens = 1..(n + 1) /\ q.tokens[n + 1] = token
      /\ \A i \in 1..n : q.tokens[i].end = p.tokens[i].end
  BY <1>0, <1>1, <1>2, <1>3
<1>5. DOMAIN p.tokens = 1..n
  BY <1>0, TokensAre
<1>6. IsFiniteSet(Opened(p)) /\ n + 1 \notin Opened(p)
  <2>1. Opened(p) \in SUBSET (1..n) /\ IsFiniteSet(1..n)
    BY <1>0, OpenedIs, FS_Interval
  <2> QED
    BY <1>0, <2>1, FS_Subset
<1>7. ASSUME token.end = 0
      PROVE  Cardinality(Opened(q)) = Cardinality(Opened(p)) + 1
  <2>1. Opened(q) = Opened(p) \cup {n + 1}
    BY <1>0, <1>4, <1>5, <1>7 DEF Opened
  <2> QED
    BY <1>6, <2>1, FS_AddElement
<1>8. ASSUME token.end # 0
      PROVE  Opened(q) = Opened(p)
  BY <1>0, <1>4, <1>5, <1>8 DEF Opened
<1> QED
  BY <1>3, <1>7, <1>8 DEF q

LEMMA OpenedCloses ==
    ASSUME NEW p, NEW text, NEW len, NEW room, Ready(p, text, len, room),
           NEW o, Closes(p, o)
    PROVE  /\ o.parser.pos = p.pos + 1
           /\ Cardinality(Opened(o.parser)) = Cardinality(Opened(p)) - 1
<1> DEFINE n == Len(p.tokens)
           k == Innermost(Opened(p))
           q == o.parser
           new == [p.tokens[k] EXCEPT !.end = p.pos]
<1>0. p \in ParserType /\ p.pos \in Nat \ {0} /\ n \in Nat
  BY DEF Ready, ParserType
<1>1. k \in Opened(p) /\ k \in 1..n
  <2>1. k \in Opened(p)
    BY DEF Closes
  <2> QED
    BY <1>0, <2>1, TokensAre DEF Opened
<1>2. q = [pos |-> p.pos + 1, toksuper |-> q.toksuper,
           tokens |-> [p.tokens EXCEPT ![k].end = p.pos]]
  BY DEF Closes
<1> HIDE DEF k, q
<1>3. q.pos = p.pos + 1 /\ q.tokens = [p.tokens EXCEPT ![k] = new]
  BY <1>2
<1>4. new.end = p.pos
  <2>1. p.tokens[k] \in TokenType
    BY <1>0, <1>1, TokensAre
  <2> QED
    BY <2>1 DEF TokenType
<1> HIDE DEF new
<1>5. DOMAIN p.tokens = 1..n
  BY <1>0, TokensAre
<1>6. Opened(q) = Opened(p) \ {k}
  BY <1>0, <1>1, <1>3, <1>4, <1>5 DEF Opened
<1>7. IsFiniteSet(Opened(p))
  <2>1. Opened(p) \in SUBSET (1..n)
    BY <1>0, OpenedIs
  <2>2. IsFiniteSet(1..n)
    BY <1>0, FS_Interval
  <2> QED
    BY <2>1, <2>2, FS_Subset
<1> QED
  BY <1>1, <1>3, <1>6, <1>7, FS_RemoveElement DEF q

LEMMA SymbolMatches ==
    ASSUME NEW p, NEW text, NEW len, NEW room, Ready(p, text, len, room),
           IsDocument(text), Matches(p, text)
    PROVE  Matches(Symbol(p, text, len, room).parser, text)
<1> DEFINE o == Symbol(p, text, len, room)
           c == text[p.pos]
           w == Within(text)
           depth == Cardinality(Opened(p))
           e == ClosingQuote(text, len, p.pos + 1)
           f == PrimitiveEnd(text, len, p.pos)
<1>0. /\ p.pos \in 1..len /\ len \in Nat /\ Len(text) \in Nat /\ len <= Len(text)
      /\ p.pos - 1 \in 0..Len(text) /\ p.pos \in 1..Len(text)
  BY DEF Ready, ParserType
<1>1. w[p.pos] = After(w[p.pos - 1], c) /\ w[p.pos - 1] \in State
  BY <1>0, WithinIs
<1>2. w[p.pos - 1].mode = "out" /\ w[p.pos - 1].depth = depth
      /\ w[p.pos - 1] = [mode |-> "out", depth |-> depth]
  BY DEF Matches
<1>3. \/ Stays(p, o)
      \/ c \in {"{", "["} /\ \E token : Adds(p, o, room, token, p.pos + 1) /\ token.end = 0
      \/ c \in {"}", "]"} /\ Closes(p, o)
      \/ /\ c = Quote /\ e \in (p.pos + 1)..len
         /\ \E token : Adds(p, o, room, token, e + 1) /\ token.end # 0
      \/ c \in {":", ","} \cup Whitespace /\ Moves(p, o)
      \/ /\ InPrimitive(c) /\ f \in p.pos..len
         /\ \E token : Adds(p, o, room, token, f + 1) /\ token.end # 0
  BY SymbolKinds
<1> SUFFICES w[o.parser.pos - 1] = [mode |-> "out", depth |-> Cardinality(Opened(o.parser))]
  BY DEF Matches
<1> HIDE DEF o, c, w, depth, e, f
<1>4. \A k \in Nat : (k + 1) - 1 = k
  OBVIOUS
<1>5. CASE Stays(p, o)
  BY <1>2, <1>5 DEF Stays, depth
<1>6. CASE c \in {"{", "["} /\ \E token : Adds(p, o, room, token, p.pos + 1) /\ token.end = 0
  <2>1. PICK token : Adds(p, o, room, token, p.pos + 1) /\ token.end = 0
    BY <1>6
  <2>2. o.parser.pos = p.pos + 1 /\ Cardinality(Opened(o.parser)) = depth + 1
    BY <2>1, OpenedAdds DEF depth
  <2>3. w[p.pos] = [mode |-> "out", depth |-> depth + 1]
    BY <1>1, <1>2, <1>6, AfterOut
  <2> QED
    BY <1>0, <1>4, <2>2, <2>3
<1>7. CASE c \in {"}", "]"} /\ Closes(p, o)
  <2>1. o.parser.pos = p.pos + 1 /\ Cardinality(Opened(o.parser)) = depth - 1
    BY <1>7, OpenedCloses DEF depth
  <2>2. w[p.pos] = [mode |-> "out", depth |-> depth - 1]
    BY <1>1, <1>2, <1>7, AfterOut
  <2> QED
    BY <1>0, <1>4, <2>1, <2>2
<1>8. CASE /\ c = Quote /\ e \in (p.pos + 1)..len
           /\ \E token : Adds(p, o, room, token, e + 1) /\ token.end # 0
  <2>1. PICK token : Adds(p, o, room, token, e + 1) /\ token.end # 0
    BY <1>8
  <2>2. o.parser.pos = e + 1 /\ Cardinality(Opened(o.parser)) = depth
    BY <2>1, OpenedAdds DEF depth
  <2>3. w[e] = w[p.pos - 1]
    <3>1. ClosingQuote(text, len, p.pos + 1) # 0 /\ text[p.pos] = Quote
          /\ Within(text)[p.pos - 1].mode = "out"
      BY <1>0, <1>2, <1>8 DEF e, c, w
    <3> QED
      BY <1>0, <3>1, StringEnds DEF e, w
  <2> QED
    BY <1>0, <1>2, <1>4, <1>8, <2>2, <2>3
<1>9. CASE c \in {":", ","} \cup Whitespace /\ Moves(p, o)
  <2> DEFINE q == o.parser
  <2>1. q.pos = p.pos + 1 /\ q.tokens = p.tokens
    <3>1. q = [pos |-> p.pos + 1, toksuper |-> q.toksuper, tokens |-> p.tokens]
      BY <1>9 DEF Moves
    <3> HIDE DEF q
    <3> QED
      BY <3>1
  <2>2. Cardinality(Opened(o.parser)) = depth
    BY <2>1 DEF Opened, depth
  <2>3. c \notin Brackets /\ c # Quote
    BY <1>9 DEF Brackets, Quote, Newline, Whitespace
  <2>4. w[p.pos] = w[p.pos - 1]
    BY <1>1, <1>2, <2>3, AfterOut
  <2> QED
    BY <1>0, <1>2, <1>4, <2>1, <2>2, <2>4
<1>10. CASE /\ InPrimitive(c) /\ f \in p.pos..len
            /\ \E token : Adds(p, o, room, token, f + 1) /\ token.end # 0
  <2>1. PICK token : Adds(p, o, room, token, f + 1) /\ token.end # 0
    BY <1>10
  <2>2. o.parser.pos = f + 1 /\ Cardinality(Opened(o.parser)) = depth
    BY <2>1, OpenedAdds DEF depth
  <2>3. w[f] = w[p.pos - 1]
    <3>1. PrimitiveEnd(text, len, p.pos) >= p.pos /\ InPrimitive(text[p.pos])
          /\ Within(text)[p.pos - 1].mode = "out"
      BY <1>0, <1>2, <1>10 DEF f, c, w
    <3> QED
      BY <1>0, <3>1, PrimitiveEnds DEF f, w
  <2> QED
    BY <1>0, <1>2, <1>4, <1>10, <2>2, <2>3
<1> QED
  BY <1>3, <1>5, <1>6, <1>7, <1>8, <1>9, <1>10

\* The parser matches the text, so that it has nothing open only before the document and
\* behind it; and something has been read whenever jsmn is called.
WholeInv ==
    /\ ReaderInv
    /\ Matches(parser, sent)
    /\ pc \in {"parse", "grow", "dump"} => jslen >= 1
    /\ WholeOrNothing

LEMMA WholeStart == ReaderInit => WholeInv
<1> SUFFICES ASSUME ReaderInit
             PROVE  WholeInv
  OBVIOUS
<1>1. ReaderInv
  BY ReaderStart
<1>2. parser = [pos |-> 1, toksuper |-> 0, tokens |-> << >>]
  BY DEF ReaderInit, Start
<1>3. Opened(parser) = {} /\ parser.pos - 1 = 0
  BY <1>2 DEF Opened
<1>4. Cardinality(Opened(parser)) = 0
  BY <1>3, FS_EmptySet
<1>5. Within(sent)[0] = [mode |-> "out", depth |-> 0]
  BY <1>1, ReaderFits, WithinIs
<1>6. Matches(parser, sent)
  BY <1>3, <1>4, <1>5 DEF Matches
<1> QED
  BY <1>1, <1>6 DEF WholeInv, WholeOrNothing, ReaderInit

LEMMA WholeKeeps == WholeInv /\ [ReaderNext]_readerVars => WholeInv'
<1> SUFFICES ASSUME WholeInv, [ReaderNext]_readerVars
             PROVE  WholeInv'
  OBVIOUS
<1>1. ReaderInv /\ ReaderInv'
  BY ReaderKeeps DEF WholeInv
<1>2. /\ Len(sent) \in Nat /\ arriving \in 0..Len(sent) /\ jslen \in 0..arriving
      /\ buf \in Nat \ {0} /\ Fits(parser, jslen, tokcount)
  BY <1>1, ReaderFits
<1>3. IsDocument(sent)
  BY <1>1, ReaderAssumption DEF ReaderInv, JsonTypeOK
<1>4. /\ Matches(parser, sent)
      /\ pc \in {"parse", "grow", "dump"} => jslen >= 1
      /\ pc = "dump" \/ eofExpected \/ status = "0" => jslen >= Len(sent) - 1
  BY DEF WholeInv, WholeOrNothing
<1>5. ASSUME UNCHANGED <<sent, parser>>
      PROVE  Matches(parser, sent)'
  BY <1>4, <1>5 DEF Matches, Opened
<1>6. CASE Read
  <2>1. jslen' \in Nat /\ jslen' > jslen
    BY <1>2, <1>6 DEF Read
  <2>2. pc' = "parse" /\ UNCHANGED <<sent, parser, eofExpected, status>>
    BY <1>6 DEF Read
  <2>3. jslen' >= 1 /\ (jslen >= Len(sent) - 1 => jslen' >= Len(sent) - 1)
    BY <1>2, <2>1
  <2>4. WholeOrNothing'
    BY <1>4, <2>2, <2>3 DEF WholeOrNothing
  <2> QED
    BY <1>1, <1>5, <2>2, <2>3, <2>4 DEF WholeInv
<1>7. CASE Eof
  <2>1. WholeOrNothing'
    BY <1>4, <1>7 DEF Eof, WholeOrNothing
  <2>2. pc' = "exit" /\ UNCHANGED <<sent, parser>>
    BY <1>7 DEF Eof
  <2> QED
    BY <1>1, <1>5, <2>1, <2>2 DEF WholeInv
<1>8. CASE Scan
  <2> DEFINE o == Symbol(parser, sent, jslen, tokcount)
  <2>1. Ready(parser, sent, jslen, tokcount)
    BY <1>1, <1>8, ReaderFits DEF Scan, Ready, Fits
  <2>2. Matches(o.parser, sent)
    BY <1>3, <1>4, <2>1, SymbolMatches
  <2>3. o.r \in {"more", "nomem", "part", "inval"}
    BY <2>1, SymbolNests
  <2>4. /\ parser' = o.parser
        /\ pc' = CASE o.r = "more" -> "parse" [] o.r = "nomem" -> "grow"
                   [] o.r \in {"part", "inval"} -> "read"
        /\ UNCHANGED <<sent, jslen, eofExpected, status>> /\ pc = "parse"
    BY <1>8 DEF Scan
  <2> HIDE DEF o
  <2>5. pc' \in {"parse", "grow", "read"}
    BY <2>3, <2>4
  <2>6. Matches(parser, sent)'
    BY <2>2, <2>4 DEF Matches, Opened
  <2>7. WholeOrNothing' /\ jslen' >= 1
    BY <1>4, <2>4, <2>5 DEF WholeOrNothing
  <2> QED
    BY <1>1, <2>6, <2>7 DEF WholeInv
<1>9. CASE Return
  <2>1. /\ pc = "parse" /\ parser.pos > jslen
        /\ pc' = IF Opened(parser) = {} THEN "dump" ELSE "read"
        /\ UNCHANGED <<sent, parser, jslen, eofExpected, status>>
    BY <1>9 DEF Return
  <2>2. ASSUME Opened(parser) = {}
        PROVE  jslen >= Len(sent) - 1
    <3>1. parser.pos - 1 = jslen
      BY <1>2, <2>1 DEF Fits
    <3>2. Within(sent)[jslen].depth = 0
      BY <1>4, <2>2, <3>1, FS_EmptySet DEF Matches
    <3>3. \A i \in 1..(Len(sent) - 2) : Within(sent)[i].depth > 0
      BY <1>3 DEF IsDocument
    <3>4. jslen \notin 1..(Len(sent) - 2)
      BY <3>2, <3>3
    <3> QED
      BY <1>2, <1>4, <2>1, <3>4
  <2>3. WholeOrNothing'
    BY <1>4, <2>1, <2>2 DEF WholeOrNothing
  <2>4. jslen' >= 1
    BY <1>4, <2>1
  <2> QED
    BY <1>1, <1>5, <2>1, <2>3, <2>4 DEF WholeInv
<1>10. CASE Grow
  <2>1. WholeOrNothing' /\ jslen' >= 1 /\ UNCHANGED <<sent, parser>>
    BY <1>4, <1>10 DEF Grow, WholeOrNothing
  <2> QED
    BY <1>1, <1>5, <2>1 DEF WholeInv
<1>11. CASE Dump
  <2>1. WholeOrNothing' /\ jslen' >= 1 /\ UNCHANGED <<sent, parser>>
    BY <1>4, <1>11 DEF Dump, WholeOrNothing
  <2> QED
    BY <1>1, <1>5, <2>1 DEF WholeInv
<1>12. CASE UNCHANGED readerVars
  <2>1. UNCHANGED <<sent, parser, jslen, eofExpected, status, pc>>
    BY <1>12 DEF readerVars
  <2>2. WholeOrNothing'
    BY <1>4, <2>1 DEF WholeOrNothing
  <2> QED
    BY <1>1, <1>4, <1>5, <2>1, <2>2 DEF WholeInv
<1> QED
  BY <1>6, <1>7, <1>8, <1>9, <1>10, <1>11, <1>12 DEF ReaderNext

\* Nothing is dumped and no success is reported before the document is there as a
\* whole (main).
THEOREM WholeOrNothingHolds == ReaderSpec => []WholeOrNothing
<1>1. WholeInv => WholeOrNothing
  BY DEF WholeInv
<1> QED
  BY <1>1, WholeStart, WholeKeeps, PTL DEF ReaderSpec
=============================================================================
