-------------------------------- MODULE Jsmn --------------------------------
(***************************************************************************)
(* jsmn, the tokenizer of jsondump, compiled without JSMN_STRICT and       *)
(* JSMN_PARENT_LINKS: what one turn of the loop of jsmn_parse does to the  *)
(* parser p, where the first len symbols of text have been read and there  *)
(* is room for so many tokens.  Positions and tokens are counted from 1,   *)
(* an open token has end 0, and no superior token is token 0.  Texts are   *)
(* JSON: escapes it does not have, and primitives beyond ASCII, which jsmn *)
(* refuses, do not occur.                                                  *)
(***************************************************************************)
EXTENDS Integers, Sequences

Quote   == "\""
Escape  == "\\"
Newline == "\n"
Whitespace == {" ", "\t", "\r", Newline}
Delimiters == {":", ",", "]", "}"} \cup Whitespace
Brackets == {"{", "[", "}", "]"}

Start == [pos |-> 1, toksuper |-> 0, tokens |-> <<>>]

\* What becomes of the parser, and what jsmn_parse would return if it ends here.
Outcome(p, r) == [parser |-> p, r |-> r]

Token(type, start, end) == [type |-> type, start |-> start, end |-> end, size |-> 0]

Opened(p)    == {i \in DOMAIN p.tokens : p.tokens[i].end = 0}
Innermost(S) == IF S = {} THEN 0 ELSE CHOOSE i \in S : \A j \in S : j <= i
Earliest(S)  == IF S = {} THEN 0 ELSE CHOOSE i \in S : \A j \in S : i <= j

\* The superior token counts what comes below it.
Counted(p) ==
    IF p.toksuper = 0 THEN p.tokens
    ELSE [p.tokens EXCEPT ![p.toksuper].size = @ + 1]

\* Mutant: the parser moves on although there was no room.
FillAnyway(p, token, next, room) ==
    IF Len(p.tokens) = room THEN Outcome([p EXCEPT !.pos = next], "nomem")
    ELSE Outcome([p EXCEPT !.pos = next, !.tokens = Append(Counted(p), token)], "more")

\* A token is filled and counted by its superior; without room the parser stays.
Fill(p, token, next, room) ==
    IF Len(p.tokens) = room THEN Outcome(p, "nomem")
    ELSE Outcome([p EXCEPT !.pos = next, !.tokens = Append(Counted(p), token)], "more")

TypeOf(c) == IF c \in {"{", "}"} THEN "object" ELSE "array"

Open(p, c, room) ==
    LET o == Fill(p, Token(TypeOf(c), p.pos, 0), p.pos + 1, room)
    IN  IF o.r = "nomem" THEN o ELSE [o EXCEPT !.parser.toksuper = Len(o.parser.tokens)]

\* Mutant: the bracket closes the token that was opened first.
CloseFirst(p, c) ==
    LET i == Earliest(Opened(p)) IN
    IF i = 0 \/ (i # 0 /\ p.tokens[i].type # TypeOf(c)) THEN Outcome(p, "inval")
    ELSE Outcome([p EXCEPT !.pos = @ + 1,
                           !.toksuper = Innermost(Opened(p) \ {i}),
                           !.tokens[i].end = p.pos], "more")

Close(p, c) ==
    LET i == Innermost(Opened(p)) IN
    IF i = 0 \/ (i # 0 /\ p.tokens[i].type # TypeOf(c)) THEN Outcome(p, "inval")
    ELSE Outcome([p EXCEPT !.pos = @ + 1,
                           !.toksuper = Innermost(Opened(p) \ {i}),
                           !.tokens[i].end = p.pos], "more")

\* A comma ends the value of a key, so the object takes over again.
Separate(p) ==
    LET up == Innermost(Opened(p)) IN
    Outcome([p EXCEPT
               !.pos = @ + 1,
               !.toksuper = IF up # 0 /\ @ # 0 /\ p.tokens[@].type \in {"string", "primitive"}
                            THEN up ELSE @], "more")

\* In a string that begins at from, the symbol i has an odd run of backslashes before it.
Escaped(text, from, i) ==
    \E k \in from..(i - 1) :
        /\ \A m \in k..(i - 1) : text[m] = Escape
        /\ k = from \/ text[k - 1] # Escape
        /\ (i - k) % 2 = 1

\* The quote that ends a string, 0 if it has not arrived.
ClosingQuote(text, len, from) ==
    Earliest({i \in from..len : text[i] = Quote /\ ~Escaped(text, from, i)})

\* Mutant: a string that has not ended is as long as what has arrived of it.
ParseStringPart(p, text, len, room) ==
    LET e == ClosingQuote(text, len, p.pos + 1) IN
    IF e = 0 THEN Fill(p, Token("string", p.pos + 1, len), len + 1, room)
    ELSE Fill(p, Token("string", p.pos + 1, e - 1), e + 1, room)

\* A string is kept whole: until its end has arrived, the parser stays before it.
ParseString(p, text, len, room) ==
    LET e == ClosingQuote(text, len, p.pos + 1) IN
    IF e = 0 THEN Outcome(p, "part")
    ELSE Fill(p, Token("string", p.pos + 1, e - 1), e + 1, room)

\* Mutant: the delimiter belongs to the primitive.
WithDelimiter(text, len, from) ==
    LET d == Earliest({i \in from..len : text[i] \in Delimiters})
    IN  IF d = 0 THEN len + 1 ELSE d

\* A primitive ends before a delimiter, or where nothing more has arrived.
PrimitiveEnd(text, len, from) ==
    LET d == Earliest({i \in from..len : text[i] \in Delimiters})
    IN  IF d = 0 THEN len ELSE d - 1

ParsePrimitive(p, text, len, room) ==
    LET e == PrimitiveEnd(text, len, p.pos)
    IN  Fill(p, Token("primitive", p.pos, e), e + 1, room)

InPrimitive(c) == c \notin Delimiters \cup Brackets \cup {Quote}

Symbol(p, text, len, room) ==
    LET c == text[p.pos] IN
    CASE c \in {"{", "["} -> Open(p, c, room)
      [] c \in {"}", "]"} -> Close(p, c)
      [] c = Quote -> ParseString(p, text, len, room)
      [] c = ":" -> Outcome([p EXCEPT !.pos = @ + 1, !.toksuper = Len(p.tokens)], "more")
      [] c = "," -> Separate(p)
      [] c \in Whitespace -> Outcome([p EXCEPT !.pos = @ + 1], "more")
      [] OTHER -> ParsePrimitive(p, text, len, room)
=============================================================================
