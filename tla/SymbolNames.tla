---------------------------- MODULE SymbolNames -----------------------------
(* The names of a program, as the symbol table sees them.                  *)
EXTENDS Naturals

CONSTANTS
  Names,     (* the names that occur in programs                           *)
  Key,       (* Key[n]: n cut to what symobj->key holds; Key[n] = n fits   *)
  MaxSyms    (* bound: number of symbols created                           *)

(* A cut name fits in the key, so cutting it again changes nothing.        *)
ASSUME KeyAssumption ==
  /\ Key \in [Names -> Names]
  /\ \A n \in Names : Key[Key[n]] = Key[n]

ASSUME MaxSymsAssumption == MaxSyms \in Nat

Fits(n) == Key[n] = n

(* A name no long name is cut to.                                          *)
Private(n) == Fits(n) /\ \A m \in Names : Key[m] = n => m = n
=============================================================================
