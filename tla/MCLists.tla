------------------------------ MODULE MCLists --------------------------------
(* Two variables, two numbers.                                             *)
EXTENDS Lists
=============================================================================
