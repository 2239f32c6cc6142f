------------------------------ MODULE OnePass -------------------------------
(***************************************************************************)
(* What jsondump promises of its parsing: jsmn over a text that is there   *)
(* as a whole, with a token for every value.  A text that jsmn refuses     *)
(* ends it where it is refused.                                            *)
(***************************************************************************)
EXTENDS Jsmn

VARIABLES
    text,       \* what is parsed
    p           \* jsmn_parser and the tokens that are filled

PassInit == p = Start

PassNext ==
    /\ p.pos <= Len(text)
    /\ LET o == Symbol(p, text, Len(text), Len(p.tokens) + 1)
       IN  o.r = "more" /\ p' = o.parser
    /\ UNCHANGED text
=============================================================================
