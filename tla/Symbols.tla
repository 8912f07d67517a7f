------------------------------- MODULE Symbols -------------------------------
(***************************************************************************)
(* The symbol table of the runtime: bl_mk_symbol (runtime/src/utils.c).    *)
(*                                                                         *)
(* Every occurrence of a name in a program is turned into a symbol by      *)
(* bl_mk_symbol, and from then on the runtime compares symbols by address  *)
(* and indexes contexts by sym_id.  The table is a uthash keyed by         *)
(* char key[32]: the name cut to its first 31 characters, while lookups    *)
(* use the whole name.                                                     *)
(***************************************************************************)
EXTENDS SymbolNames

VARIABLES
  symbol_table,  (* the hash entries: key, and the symbol's name and id    *)
  last_sym_id,   (* the next id to hand out                                *)
  calls          (* history: every (name asked for, id returned)           *)

vars == <<symbol_table, last_sym_id, calls>>

Entry == [key : Names, name : Names, sym_id : Nat]

(* The entries HASH_FIND_STR(symbol_table, n) may return.  Entries with    *)
(* the same key share a bucket chain whose order the hash rearranges when  *)
(* it expands its buckets, so any of them may be the one found.            *)
HashFind(n) == {e \in symbol_table : e.key = n}

(* last_sym_id++ *)
IdAfter == last_sym_id + 1

Init ==
  /\ symbol_table = {}
  /\ last_sym_id = 0
  /\ calls = {}

(* bl_mk_symbol(n) when the lookup finds an entry: its symbol.             *)
FindSymbol(n) ==
  /\ \E e \in HashFind(n) : calls' = calls \cup {<<n, e.sym_id>>}
  /\ UNCHANGED <<symbol_table, last_sym_id>>

(* bl_mk_symbol(n) on a miss: a fresh symbol, entered under the cut key.   *)
NewSymbol(n) ==
  /\ HashFind(n) = {}
  /\ last_sym_id < MaxSyms
  /\ symbol_table' = symbol_table \cup
       {[key |-> Key[n], name |-> n, sym_id |-> last_sym_id]}
  /\ last_sym_id' = IdAfter
  /\ calls' = calls \cup {<<n, last_sym_id>>}

bl_mk_symbol(n) == FindSymbol(n) \/ NewSymbol(n)

Next == \E n \in Names : bl_mk_symbol(n)

Spec == Init /\ [][Next]_vars

-----------------------------------------------------------------------------
TypeOK ==
  /\ symbol_table \subseteq Entry
  /\ last_sym_id \in Nat
  /\ calls \subseteq Names \X Nat

(* Contexts store the value of a symbol at index sym_id: two symbols that  *)
(* shared an id would share a variable, in every context at once.  No two  *)
(* table entries (utils.c:63-67) ever have the same id, whatever keys they *)
(* were cut to.                                                            *)
UniqueIds ==
  \A d, e \in symbol_table : d.sym_id = e.sym_id => d = e

(* Interning, as far as it goes: a name that fits the key, and is not what *)
(* a longer name is cut to, gets the same symbol on every call, and that   *)
(* symbol is given to no other name.  bl_oper_try compares i->car->car     *)
(* with a symbol made at each call, and bl_eval_funcbody finds the         *)
(* function again through its name: both rest on this.                     *)
InternedOnce ==
  \A c, d \in calls :
     Private(c[1]) => (c[1] = d[1] <=> c[2] = d[2])

(* The inductive strengthening: ids are below the counter; entries carry   *)
(* the cut name as key; every answer given so far still has its entry,     *)
(* under the name asked for or under the name it was cut to; and a private *)
(* key occurs once in the table (the step InternedOnce needs).             *)
IdsBelow == \A e \in symbol_table : e.sym_id < last_sym_id
KeysCut == \A e \in symbol_table : e.key = Key[e.name]
CallsRecorded ==
  \A c \in calls : \E e \in symbol_table :
     e.sym_id = c[2] /\ c[1] \in {e.name, e.key}
PrivateKeysOnce ==
  \A d, e \in symbol_table : d.key = e.key /\ Private(d.key) => d = e

SymInv ==
  TypeOK /\ IdsBelow /\ UniqueIds /\ KeysCut /\ CallsRecorded /\ PrivateKeysOnce
=============================================================================
