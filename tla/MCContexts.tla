----------------------------- MODULE MCContexts ------------------------------
(* Symbol ids 2 (the name of a module), 1 (a plain variable), 0 (the       *)
(* qualified name that joins 2 and 1) and 3 (a quoted symbol).  A root     *)
(* context has room for one entry and growing leaves one spare entry, so   *)
(* ids fall before, at and past the end of the arrays.                     *)
EXTENDS Contexts

CONSTANT a

MCSyms == 0..3
MCSplit == [s \in MCSyms |-> IF s = 0 THEN <<2, 1>> ELSE <<s>>]
MCUnquoted == [s \in {3} |-> a]

(* The program binds a context or a value to 2, and a value to 1.          *)
MCAssigns == {<<2, 2>>, <<2, a>>, <<1, a>>}
=============================================================================
