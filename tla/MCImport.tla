------------------------------ MODULE MCImport -------------------------------
(* The directory lib, searched, holds modules a, b, c, d and e; the        *)
(* directory of a holds another b, found when a's own directory is         *)
(* searched.  a imports b and sets x; c imports a and what it holds, then  *)
(* fails; d is a library and e a library without bl_mod_init.              *)
EXTENDS Import

MCNames == {"a", "b", "c", "d", "e", "x"}
MCFileIn == [dir \in {"lib", "lib/a"} |-> [m \in MCNames |->
  IF dir = "lib" /\ m # "x" THEN m
  ELSE IF dir = "lib/a" /\ m = "b" THEN "b2" ELSE "none"]]
MCHome == [f \in {"a", "b", "b2", "c", "d", "e"} |->
  IF f \in {"a", "b2"} THEN "lib/a" ELSE "lib"]
MCSource == [f \in {"a", "b", "b2", "c"} |->
  CASE f = "a" -> <<ImportOf(<<"b">>), SetTo("x")>>
    [] f = "b" -> <<SetTo("x")>>
    [] f = "b2" -> <<>>
    [] f = "c" -> <<ImportOf(<<"a">>), ImportOf(<<"a", "b", "x">>), Fail>>]

MCPath == <<"lib">>
MCForms == {ImportOf(<<m>>) : m \in {"a", "b", "c", "d", "e", "x"}}
  \cup {ImportOf(<<"a", "b">>), ImportOf(<<"a", "b", "x">>), ImportOf(<<"a", "x", "b">>),
        Using(<<"a", "x">>), Using(<<"a", "b", "x">>), Using(<<"x", "b">>),
        Include("a"), Include("c"), Include("none"), SetTo("x")}

(* Two modules and one that imports the other.                             *)
MCFormsTwice == {ImportOf(<<"a">>), ImportOf(<<"b">>)}
=============================================================================
