----------------------------- MODULE MCJsonDump -----------------------------
(* Model checking of JsonDump: documents of depth three at most.             *)
EXTENDS JsonDump

Number == [type |-> "primitive", text |-> <<"1", "2">>]
Word   == [type |-> "string", text |-> <<"a">>]
Quoted == [type |-> "string", text |-> <<Escape, Quote>>]
Leaves == {Number, Word, Quoted}

Array(items)        == [type |-> "array", items |-> items]
Object(keys, items) == [type |-> "object", keys |-> keys, items |-> items]

Key1 == <<"a">>
Key2 == <<"7">>

Flat ==
    {Array(<<>>), Object(<<>>, <<>>)}
    \cup {Array(<<x>>) : x \in Leaves}
    \cup {Array(<<x, Number>>) : x \in Leaves}
    \cup {Object(<<Key2>>, <<x>>) : x \in Leaves}

Few == {Array(<<>>), Array(<<Number, Word>>), Object(<<Key2>>, <<Quoted>>)}

Nested ==
    {Array(<<x, Number>>) : x \in Few}
    \cup {Object(<<Key1, Key2>>, <<x, y>>) : x, y \in Few \cup {Number}}

Deep == {Object(<<Key1>>, <<x>>) : x \in {Array(<<y, y>>) : y \in Few}}

AllDocs == Flat \cup Nested \cup Deep

AllTexts == {Echoed(d) : d \in AllDocs}
=============================================================================
