----------------------------- MODULE JsonReader -----------------------------
(***************************************************************************)
(* The main loop of jsondump: the answer of curl is read in chunks, and    *)
(* after each jsmn goes on where it stopped; where the array of tokens is  *)
(* too small it is enlarged; where nothing is left open the document is    *)
(* dumped, and then the input may end.  Dump stands for the dump itself.   *)
(***************************************************************************)
EXTENDS Jsmn

CONSTANTS
    Texts,      \* what may be sent: a document and a newline
    MaxBuf,     \* bound: sizes of the buffer; 300000 in the code
    FirstCount  \* tokens allocated at first; 12800 in the code

-----------------------------------------------------------------------------
(* What a document is, for a reader that has to know when it is complete: one
   object or array, closed by its last symbol. *)

\* Between symbols a text is within a string or not, perhaps behind a backslash, and
\* so many brackets deep.
After(state, c) ==
    CASE state.mode = "escape" -> [state EXCEPT !.mode = "string"]
      [] state.mode = "string" -> [state EXCEPT !.mode = CASE c = Quote -> "out"
                                                           [] c = Escape -> "escape"
                                                           [] OTHER -> "string"]
      [] state.mode = "out" ->
            [mode |-> IF c = Quote THEN "string" ELSE "out",
             depth |-> state.depth + (CASE c \in {"{", "["} -> 1
                                        [] c \in {"}", "]"} -> -1
                                        [] OTHER -> 0)]

Within(text) ==
    LET at[i \in 0..Len(text)] ==
            IF i = 0 THEN [mode |-> "out", depth |-> 0] ELSE After(at[i - 1], text[i])
    IN  at

\* The brackets close with the last symbol but the newline, and what begins as a number
\* or a word goes on as one until a delimiter.
IsDocument(text) ==
    LET n == Len(text)
        at == Within(text)
    IN  /\ n > 2 /\ text[n] = Newline
        /\ at[n - 1] = [mode |-> "out", depth |-> 0]
        /\ \A i \in 1..(n - 2) : at[i].depth > 0
        /\ \A i \in 1..(n - 1) :
              at[i - 1].mode = "out" /\ InPrimitive(text[i])
                => InPrimitive(text[i + 1]) \/ text[i + 1] \in Delimiters

ASSUME ReaderAssumption ==
    /\ MaxBuf \in Nat \ {0} /\ FirstCount \in Nat \ {0}
    /\ \A text \in Texts : text \in Seq(STRING) /\ IsDocument(text)

VARIABLES
    sent,       \* the text
    arriving,   \* how much of it arrives before the pipe is closed
    jslen,      \* how much of it has been read
    buf,        \* sizeof(buf)
    parser,     \* jsmn_parser: pos, toksuper and the tokens that are filled
    tokcount,   \* for how many there is room
    eofExpected,
    pc, status, \* where main is, its exit status
    cut         \* history: a chunk ended in the middle of a primitive

readerVars == <<sent, arriving, jslen, buf, parser, tokcount, eofExpected, pc, status, cut>>

-----------------------------------------------------------------------------
(* main *)

ReaderInit ==
    /\ sent \in Texts
    /\ arriving \in 0..Len(sent)
    /\ jslen = 0
    /\ buf \in 1..MaxBuf
    /\ parser = Start
    /\ tokcount = FirstCount
    /\ eofExpected = FALSE
    /\ pc = "read" /\ status = "running"
    /\ cut = FALSE

\* fread is short at the end of the input only.
Read ==
    /\ pc = "read" /\ jslen < arriving
    /\ jslen' = IF arriving - jslen < buf THEN arriving ELSE jslen + buf
    /\ pc' = "parse"
    /\ UNCHANGED <<sent, arriving, buf, parser, tokcount, eofExpected, status, cut>>

\* The end of the input is expected after a dump.
Eof ==
    /\ pc = "read" /\ jslen = arriving
    /\ status' = IF eofExpected THEN "0" ELSE "2"
    /\ pc' = "exit"
    /\ UNCHANGED <<sent, arriving, jslen, buf, parser, tokcount, eofExpected, cut>>

\* The primitive at pos ends with the chunk, but not in the text.
CutsPrimitive(o) ==
    /\ InPrimitive(sent[parser.pos]) /\ o.r = "more" /\ o.parser.pos = jslen + 1
    /\ jslen < Len(sent) /\ sent[jslen + 1] \notin Delimiters

\* A turn of the loop of jsmn_parse; on an error other than too few tokens main reads on.
Scan ==
    /\ pc = "parse" /\ parser.pos <= jslen
    /\ LET o == Symbol(parser, sent, jslen, tokcount) IN
          /\ parser' = o.parser
          /\ pc' = CASE o.r = "more" -> "parse" [] o.r = "nomem" -> "grow"
                     [] o.r \in {"part", "inval"} -> "read"
          /\ cut' = (cut \/ CutsPrimitive(o))
    /\ UNCHANGED <<sent, arriving, jslen, buf, tokcount, eofExpected, status>>

\* Mutant: nobody looks for tokens that are still open.
ReturnAtOnce ==
    /\ pc = "parse" /\ parser.pos > jslen
    /\ pc' = "dump"
    /\ UNCHANGED <<sent, arriving, jslen, buf, parser, tokcount, eofExpected, status, cut>>

\* jsmn_parse ends with all that was read: a token that is open needs more.
Return ==
    /\ pc = "parse" /\ parser.pos > jslen
    /\ pc' = IF Opened(parser) = {} THEN "dump" ELSE "read"
    /\ UNCHANGED <<sent, arriving, jslen, buf, parser, tokcount, eofExpected, status, cut>>

\* Mutant: the array is reallocated with the size it has.
GrowNot ==
    /\ pc = "grow"
    /\ pc' = "parse"
    /\ UNCHANGED <<sent, arriving, jslen, buf, parser, tokcount, eofExpected, status, cut>>

Grow ==
    /\ pc = "grow"
    /\ tokcount' = 2 * tokcount
    /\ pc' = "parse"
    /\ UNCHANGED <<sent, arriving, jslen, buf, parser, eofExpected, status, cut>>

Dump ==
    /\ pc = "dump"
    /\ eofExpected' = TRUE
    /\ pc' = "read"
    /\ UNCHANGED <<sent, arriving, jslen, buf, parser, tokcount, status, cut>>

ReaderNext == Read \/ Eof \/ Scan \/ Return \/ Grow \/ Dump

ReaderSpec == ReaderInit /\ [][ReaderNext]_readerVars

-----------------------------------------------------------------------------
(* Properties *)

TokenType ==
    [type : {"object", "array", "string", "primitive"},
     start : Nat \ {0}, end : Nat, size : Nat]

JsonTypeOK ==
    /\ sent \in Texts /\ arriving \in 0..Len(sent) /\ jslen \in 0..arriving
    /\ buf \in 1..MaxBuf
    /\ parser \in [pos : 1..(jslen + 1), toksuper : Nat, tokens : Seq(TokenType)]
    /\ parser.toksuper <= Len(parser.tokens)
    /\ tokcount \in Nat /\ Len(parser.tokens) <= tokcount
    /\ eofExpected \in BOOLEAN /\ cut \in BOOLEAN
    /\ pc \in {"read", "parse", "grow", "dump", "exit"}
    /\ status \in {"running", "0", "2"}

\* The tokens are the tree that dump_tcl walks, however the text was cut into chunks:
\* they are in the order of the text, each lies before the next, or contains it with
\* a bracket to spare; only what is open has no end, and what is dumped has one.
TokensNest ==
    /\ \A i, j \in DOMAIN parser.tokens : i < j =>
          LET a == parser.tokens[i]
              b == parser.tokens[j]
          IN  \/ b.start > a.end /\ a.end # 0
              \/ a.start < b.start /\ b.end < a.end /\ b.end # 0
              \/ a.start < b.start /\ a.end = 0
    /\ \A i \in Opened(parser) : parser.tokens[i].type \in {"object", "array"}
    /\ pc = "dump" => Opened(parser) = {}

\* However the input is cut into chunks and however often the array of tokens is
\* enlarged, jsmn does what it would have done with all of it at once, unless a chunk
\* ends in the middle of a primitive (jsmn_parse, main).
Pass == INSTANCE OnePass WITH text <- sent, p <- parser

ParsesTheWhole ==
    Pass!PassInit /\ [][cut' \/ Pass!PassNext]_<<sent, parser>>

\* Nothing is dumped, and no success reported, before the whole document has been
\* read: an input that ends early is reported, and nothing of it is printed.
WholeOrNothing ==
    pc = "dump" \/ eofExpected \/ status = "0" => jslen >= Len(sent) - 1
=============================================================================
