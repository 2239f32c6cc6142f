------------------------------ MODULE JsonDump ------------------------------
(***************************************************************************)
(* jsondump: every answer the legacy Tcl library gets goes through this    *)
(* filter, which makes a line "set root(a)(b) value" of each value.  It    *)
(* reads and parses as JsonReader says, and names values by two globals    *)
(* that a recursion over the tokens shares.                                *)
(***************************************************************************)
EXTENDS JsonReader, SequencesExt, TLC

CONSTANTS
    Docs,       \* documents: objects and arrays, as trees
    Places      \* digits of an index

VARIABLES
    doc,        \* the document that is sent
    names,      \* objectName and arrayName
    out         \* what has been printed

vars == <<readerVars, doc, names, out>>

-----------------------------------------------------------------------------
(* Documents are trees: [type, text], or [type, items] with the keys of an object.
   A text is a sequence of symbols. *)

\* Op(x), with x computed once.
With(x, Op(_)) == CHOOSE y \in {Op(v) : v \in {x}} : TRUE

Comma(i) == IF i = 1 THEN <<>> ELSE <<",">>

RECURSIVE Render(_)
Render(d) ==
    CASE d.type = "primitive" -> d.text
      [] d.type = "string" -> <<Quote>> \o d.text \o <<Quote>>
      [] d.type = "array" ->
            <<"[">> \o FlattenSeq([i \in DOMAIN d.items |-> Comma(i) \o Render(d.items[i])])
            \o <<"]">>
      [] d.type = "object" ->
            <<"{">> \o FlattenSeq([i \in DOMAIN d.items |->
                Comma(i) \o <<Quote>> \o d.keys[i] \o <<Quote, ":">> \o Render(d.items[i])])
            \o <<"}">>

\* echo adds the newline.
Echoed(d) == Append(Render(d), Newline)

ASSUME DumpAssumption ==
    /\ Places \in Nat \ {0}
    /\ \A d \in Docs : d.type \in {"object", "array"} /\ Echoed(d) \in Texts

-----------------------------------------------------------------------------
(* dump_tcl.  A name is the sequence of its parts; g holds the globals and what has
   been printed, j is the number of tokens that a call has dealt with. *)

TextOf(i) == SubSeq(sent, parser.tokens[i].start, parser.tokens[i].end)

Numeral(n) == <<ToString(n)>>

IsNumber(text) == \A i \in DOMAIN text : text[i] \in {Numeral(n)[1] : n \in 0..9}

\* printf("%0*i", places, atoi(text))
Padded(text) ==
    LET zeros == {i \in DOMAIN text : \A k \in 1..i : text[k] = "0"}
        value == SubSeq(text, Innermost(zeros) + 1, Len(text))
        missing == IF Len(value) < Places THEN Places - Len(value) ELSE 0
    IN  [i \in 1..missing |-> "0"] \o value

StringOrNumber(text) == IF IsNumber(text) THEN Padded(text) ELSE text

SetLine(g, name, value) ==
    [g EXCEPT !.out = Append(@, [name |-> name, value |-> value])]

RECURSIVE DumpTcl(_, _, _, _, _), Members(_, _, _, _, _), Elements(_, _, _, _, _)

\* The token i, of which count are left, under the name root.
DumpTcl(i, count, root, afterColon, g0) ==
    LET g == [g0 EXCEPT !.objectName = <<>>]
        t == parser.tokens[i]
        one(h) == [j |-> 1, g |-> h]
        more(r) == [r EXCEPT !.j = @ + 1]
    IN  CASE count = 0 -> [j |-> 0, g |-> g]
          [] count # 0 /\ (t.type = "primitive" \/ (t.type = "string" /\ afterColon)) ->
                one(SetLine(g, root, TextOf(i)))
          [] count # 0 /\ t.type = "string" /\ ~afterColon ->
                one([g EXCEPT !.objectName = <<StringOrNumber(TextOf(i))>>])
          [] count # 0 /\ t.type = "object" ->
                more(Members(i, count, root, 1, [j |-> 0, g |-> g]))
          [] count # 0 /\ t.type = "array" ->
                more(Elements(i, count, root, 1,
                     [j |-> 0,
                      g |-> IF t.size = 0 THEN SetLine(g, g.arrayName, <<>>) ELSE g]))

\* The members of object i from the n-th on: a key, and what follows if it has one.
Members(i, count, root, n, r) ==
    IF n > parser.tokens[i].size THEN r
    ELSE LET key == i + 1 + r.j
             value(k) == LET newRoot == root \o k.g.objectName
                             g == [k.g EXCEPT !.arrayName = newRoot]
                         IN  IF parser.tokens[key].size > 0
                             THEN DumpTcl(key + k.j, count - r.j - k.j, newRoot, TRUE, g)
                             ELSE [j |-> 0, g |-> g]
             rest(k) == With(value(k), LAMBDA v :
                             Members(i, count, root, n + 1,
                                     [j |-> r.j + k.j + v.j, g |-> v.g]))
         IN  With(DumpTcl(key, count - r.j, root, FALSE, r.g), rest)

\* An element of an array, named by its index n.
Element(i, count, name, n, r) ==
    DumpTcl(i + 1 + r.j, count - r.j, name, TRUE,
            [r.g EXCEPT !.objectName = <<Padded(Numeral(n - 1))>>])

\* Mutant: the index is appended to the name of the element before.
ElementsAppended(i, count, root, n, r) ==
    IF n > parser.tokens[i].size THEN r
    ELSE LET name == root \o <<Padded(Numeral(n - 1))>> IN
         With(Element(i, count, name, n, r), LAMBDA v :
              Elements(i, count, name, n + 1, [j |-> r.j + v.j, g |-> v.g]))

\* The elements of array i from the n-th on.
Elements(i, count, root, n, r) ==
    IF n > parser.tokens[i].size THEN r
    ELSE LET name == root \o <<Padded(Numeral(n - 1))>> IN
         With(Element(i, count, name, n, r), LAMBDA v :
              Elements(i, count, root, n + 1, [j |-> r.j + v.j, g |-> v.g]))

Root == <<<<"root">>>>

-----------------------------------------------------------------------------
(* main *)

\* What arrives is the document and the newline, or the pipe ends early.
DumpInit ==
    /\ doc \in Docs /\ sent = Echoed(doc)
    /\ ReaderInit
    /\ names = [objectName |-> <<>>, arrayName |-> <<>>]
    /\ out = <<>>

DumpAll ==
    /\ Dump
    /\ LET g == DumpTcl(1, Len(parser.tokens), Root, FALSE,
                        [objectName |-> names.objectName,
                         arrayName |-> names.arrayName, out |-> out]).g IN
          /\ out' = g.out
          /\ names' = [objectName |-> g.objectName, arrayName |-> g.arrayName]
    /\ UNCHANGED doc

DumpNext ==
    \/ DumpAll
    \/ (Read \/ Eof \/ Scan \/ Return \/ Grow) /\ UNCHANGED <<doc, names, out>>

DumpSpec == DumpInit /\ [][DumpNext]_vars /\ WF_vars(DumpNext)

-----------------------------------------------------------------------------
(* Properties *)

RECURSIVE Tokens(_)
\* The values and keys of a document in the order of its text.
Tokens(d) ==
    IF d.type \in {"string", "primitive"} THEN <<[type |-> d.type, text |-> d.text]>>
    ELSE <<[type |-> d.type, text |-> <<>>]>> \o
         FlattenSeq([i \in DOMAIN d.items |->
            (IF d.type = "array" THEN <<>>
             ELSE <<[type |-> "string", text |-> d.keys[i]]>>) \o Tokens(d.items[i])])

\* However the input is cut into chunks and however often the array of tokens is
\* enlarged, the parser finds each key and value once and in order, unless a chunk
\* ends in the middle of a primitive (jsmn_parse, main).
NothingLost ==
    ~cut => IsPrefix([i \in DOMAIN parser.tokens |->
                        [type |-> parser.tokens[i].type,
                         text |-> IF parser.tokens[i].type \in {"object", "array"}
                                  THEN <<>> ELSE TextOf(i)]],
                     Tokens(doc))

RECURSIVE Lines(_, _)
\* One line for each value, under the keys and indices that lead to it.
Lines(d, name) ==
    IF d.type \in {"string", "primitive"} THEN <<[name |-> name, value |-> d.text]>>
    ELSE IF d.type = "array" /\ d.items = <<>> THEN <<[name |-> name, value |-> <<>>]>>
    ELSE FlattenSeq([i \in DOMAIN d.items |->
            Lines(d.items[i],
                  Append(name, IF d.type = "object" THEN StringOrNumber(d.keys[i])
                               ELSE Padded(Numeral(i - 1))))])

RECURSIVE EmptyElement(_)
\* Somewhere an empty array is not the value of a key.
EmptyElement(d) ==
    /\ d.type \in {"object", "array"}
    /\ \E i \in DOMAIN d.items :
          \/ d.type = "array" /\ d.items[i].type = "array" /\ d.items[i].items = <<>>
          \/ EmptyElement(d.items[i])

\* What is printed before jsondump ends well is the document, each value under its
\* own name although the names are globals of the recursion: once, or a second time
\* if the newline came in a chunk of its own.  Excepted are documents with a
\* primitive across two chunks, which is printed in part, and with an empty array
\* that has no key, which is printed under the name of another value.
PrintsDocument ==
    status = "0" /\ ~cut /\ ~EmptyElement(doc) /\ doc.items # <<>> =>
        out \in {Lines(doc, Root), Lines(doc, Root) \o Lines(doc, Root)}

\* jsondump ends, however small the buffer and the first array of tokens.
DumpEnds == <>(status # "running")
=============================================================================
