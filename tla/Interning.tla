------------------------------ MODULE Interning ------------------------------
(***************************************************************************)
(* bl_mk_symbol with what it is built from: the hash table (uthash.h) in   *)
(* which it finds symbols, and the pool (Pool) its values come from.       *)
(*                                                                         *)
(* A table is an array of buckets; an entry is put in front of the chain   *)
(* of the bucket its hash value selects.  A chain that gets too long makes *)
(* the table double its buckets and distribute all entries anew, unless    *)
(* doubling has not helped twice in a row.                                 *)
(***************************************************************************)
EXTENDS SymbolNames, Pool, Sequences, SequencesExt

CONSTANTS
  Hash,         (* HASH_JEN: the hash value of each name                   *)
  InitBuckets,  (* HASH_INITIAL_NUM_BUCKETS, a power of two                *)
  Threshold     (* HASH_BKT_CAPACITY_THRESH                                *)

ASSUME HashAssumption ==
  /\ Hash \in [Names -> Nat]
  /\ InitBuckets \in Nat \ {0} /\ Threshold \in Nat \ {0}

VARIABLES
  tbl,           (* UT_hash_table; num_buckets = 0 while the head is NULL  *)
  last_sym_id,
  calls          (* history: every (name asked for, id returned)           *)

symVars == <<tbl, last_sym_id, calls>>
vars == <<symVars, poolVars>>

(* An empty bucket, and a table of them (HASH_MAKE_TABLE).                 *)
NoBucket == [chain |-> <<>>, expand_mult |-> 0]
Buckets(n) == [b \in 0..(n - 1) |-> NoBucket]

NoTable == [num_buckets |-> 0, buckets |-> Buckets(0), num_items |-> 0,
            ideal_chain_maxlen |-> 0, ineff_expands |-> 0, noexpand |-> FALSE]

HASH_MAKE_TABLE ==
  [NoTable EXCEPT !.num_buckets = InitBuckets, !.buckets = Buckets(InitBuckets)]

Count(b) == Len(b.chain)

(* hashv & (num_bkts - 1)                                                  *)
HASH_TO_BKT(hashv, num_bkts) == hashv % num_bkts

(* The chain of the bucket n's hash value selects.                         *)
ChainOf(t, n) ==
  IF t.num_buckets = 0 THEN <<>>
  ELSE t.buckets[HASH_TO_BKT(Hash[n], t.num_buckets)].chain

(* Where a name is met first, from position i on.                          *)
FirstFrom(i, chain, n) ==
  {j \in i..Len(chain) : chain[j].key = n /\ \A k \in i..(j - 1) : chain[k].key # n}

(* Mutant: the entry last added to the bucket is passed over.              *)
FindBehindFirst(t, n) == {ChainOf(t, n)[i] : i \in FirstFrom(2, ChainOf(t, n), n)}

(* HASH_FIND_STR: the first entry of n's bucket whose key is n, if any.    *)
HASH_FIND(t, n) == {ChainOf(t, n)[i] : i \in FirstFrom(1, ChainOf(t, n), n)}

(* Mutant: an overfull bucket is not told to wait for more.                *)
MovedOnly(bkts, n, ideal, e) ==
  [bkts EXCEPT ![HASH_TO_BKT(Hash[e.key], n)].chain = <<e>> \o @]

(* One entry moved to a new bucket, in front of what is there.             *)
Moved(bkts, n, ideal, e) ==
  LET b == HASH_TO_BKT(Hash[e.key], n)
      count == Count(bkts[b]) + 1
  IN  [bkts EXCEPT ![b] =
         [chain |-> <<e>> \o @.chain,
          expand_mult |-> IF count > ideal THEN count \div ideal ELSE @.expand_mult]]

(* Ceiling of items / buckets.                                             *)
IdealChain(items, bkts) == items \div bkts + (IF items % bkts # 0 THEN 1 ELSE 0)

(* The loops of the doubling: the entries of one chain, front to back; the *)
(* buckets of the table, in order.                                         *)
ChainMoved(bkts, n, ideal, chain) ==
  LET upTo[i \in 0..Len(chain)] ==
        IF i = 0 THEN bkts ELSE Moved(upTo[i - 1], n, ideal, chain[i])
  IN  upTo[Len(chain)]

Redistributed(t, n, ideal) ==
  LET upTo[b \in 0..t.num_buckets] ==
        IF b = 0 THEN Buckets(n)
        ELSE ChainMoved(upTo[b - 1], n, ideal, t.buckets[b - 1].chain)
  IN  upTo[t.num_buckets]

(* f[0] + ... + f[n - 1]                                                   *)
Total(f, n) ==
  LET upTo[b \in 0..n] == IF b = 0 THEN 0 ELSE upTo[b - 1] + f[b - 1]
  IN  upTo[n]

(* Mutant: the entries keep the bucket number they had.                    *)
ExpandInPlace(t) ==
  LET n == 2 * t.num_buckets
  IN  [t EXCEPT !.num_buckets = n,
         !.buckets = [b \in 0..(n - 1) |-> IF b < t.num_buckets THEN t.buckets[b] ELSE NoBucket]]

HASH_EXPAND_BUCKETS(t) ==
  LET n == 2 * t.num_buckets
      ideal == IdealChain(t.num_items, n)
      new == Redistributed(t, n, ideal)
      over == [b \in 0..(n - 1) |-> IF Count(new[b]) > ideal THEN Count(new[b]) - ideal ELSE 0]
      nonideal == Total(over, n)
      ineff == IF nonideal > t.num_items \div 2 THEN t.ineff_expands + 1 ELSE 0
  IN  [t EXCEPT !.num_buckets = n, !.buckets = new, !.ideal_chain_maxlen = ideal,
                !.ineff_expands = ineff, !.noexpand = @ \/ ineff > 1]

(* The bucket has reached the length at which the table is to grow.        *)
Limit(b) == (b.expand_mult + 1) * Threshold

Full(b) == Count(b) >= Limit(b)

(* HASH_ADD_STR: in front of its chain, and the table doubled if the chain *)
(* has become too long.                                                    *)
HASH_ADD(t, e) ==
  LET made == IF t.num_buckets = 0 THEN HASH_MAKE_TABLE ELSE t
      b == HASH_TO_BKT(Hash[e.key], made.num_buckets)
      added == [made EXCEPT !.num_items = @ + 1, !.buckets[b].chain = <<e>> \o @]
  IN  IF Full(added.buckets[b]) /\ ~ added.noexpand
      THEN HASH_EXPAND_BUCKETS(added)
      ELSE added

-----------------------------------------------------------------------------
Init ==
  /\ tbl = NoTable /\ last_sym_id = 0 /\ calls = {}
  /\ PoolInit

FindSymbol(n) ==
  /\ \E e \in HASH_FIND(tbl, n) : calls' = calls \cup {<<n, e.sym_id>>}
  /\ UNCHANGED <<tbl, last_sym_id, poolVars>>

(* A miss: a value from the pool, entered under the cut key.               *)
NewSymbol(n) ==
  /\ HASH_FIND(tbl, n) = {}
  /\ last_sym_id < MaxSyms
  /\ bl_mk_val
  /\ tbl' = HASH_ADD(tbl, [key |-> Key[n], name |-> n, sym_id |-> last_sym_id,
                           sym |-> <<val_pool', last_alloc'>>])
  /\ last_sym_id' = last_sym_id + 1
  /\ calls' = calls \cup {<<n, last_sym_id>>}

bl_mk_symbol(n) == FindSymbol(n) \/ NewSymbol(n)

(* Any other value made by the runtime.                                    *)
OtherValue == bl_mk_val /\ UNCHANGED symVars

Next == OtherValue \/ \E n \in Names : bl_mk_symbol(n)

Spec == Init /\ [][Next]_vars

-----------------------------------------------------------------------------
EntriesOf(bkts) == UNION {ToSet(bkts[b].chain) : b \in DOMAIN bkts}

Entries == EntriesOf(tbl.buckets)

Table == INSTANCE Symbols WITH symbol_table <-
  {[key |-> e.key, name |-> e.name, sym_id |-> e.sym_id] : e \in Entries}

(* Whatever the buckets do, the table answers as the set of its entries    *)
(* (Symbols): doubling the buckets (uthash.h:915-961) loses no entry and   *)
(* leaves each where HASH_FIND (uthash.h:818) looks for it, and a name is  *)
(* given a new symbol only when no entry has it as key.                    *)
ImplementsSymbols == Table!Spec

(* A name that fits the key and is not what a longer one is cut to has one *)
(* symbol, and that symbol is a value of its own: same name, same id, same *)
(* address.  The evaluator compares symbols by address and contexts index  *)
(* by id (utils.c:56-82, ctx.c).                                           *)
InternedOnce ==
  /\ Table!InternedOnce
  /\ \A d, e \in Entries : d.sym = e.sym <=> d.sym_id = e.sym_id

(* What uthash.h:893-895 promises: as long as doubling helps at all, no    *)
(* chain stays as long as its bucket's limit, except where an even         *)
(* distribution would make it as long.                                     *)
BoundedChains ==
  \A b \in DOMAIN tbl.buckets :
     Full(tbl.buckets[b]) =>
       tbl.noexpand \/ Count(tbl.buckets[b]) <= tbl.ideal_chain_maxlen

-----------------------------------------------------------------------------
(* The inductive invariant.  A table of its type has each entry in the     *)
(* bucket of its hash value, and counts its entries.  As long as doubling  *)
(* helps, the multipliers of the buckets add up to no more than there are  *)
(* buckets; this keeps the number of entries, and with it the ideal length *)
(* after the next doubling, so low that no chain is left over its limit.   *)
Symbol == [key : Names, name : Names, sym_id : Nat, sym : Nat \X Nat]
Bucket == [chain : Seq(Symbol), expand_mult : Nat]
BucketArrays == UNION {[0..(n - 1) -> Bucket] : n \in Nat}

HashTable ==
  {t \in [num_buckets : Nat, buckets : BucketArrays, num_items : Nat,
          ideal_chain_maxlen : Nat, ineff_expands : Nat, noexpand : BOOLEAN] :
     DOMAIN t.buckets = 0..(t.num_buckets - 1)}

Placed(bkts, n) ==
  \A b \in DOMAIN bkts : \A e \in ToSet(bkts[b].chain) : HASH_TO_BKT(Hash[e.key], n) = b

Counts(bkts) == [b \in DOMAIN bkts |-> Count(bkts[b])]
Mults(bkts) == [b \in DOMAIN bkts |-> bkts[b].expand_mult]

WithinLimit(b, ideal) ==
  Count(b) < Limit(b) \/ (Count(b) = Limit(b) /\ b.expand_mult = 0 /\ Count(b) <= ideal)

Evened(t) ==
  /\ Total(Mults(t.buckets), t.num_buckets) <= t.num_buckets
  /\ \A b \in DOMAIN t.buckets : WithinLimit(t.buckets[b], t.ideal_chain_maxlen)

TableInv(t) ==
  /\ Placed(t.buckets, t.num_buckets)
  /\ t.num_items = Total(Counts(t.buckets), t.num_buckets)
  /\ t.noexpand \/ Evened(t)

(* Each symbol is a cell of its own that the pool has handed out.          *)
OwnCells ==
  /\ \A e \in Entries : e.sym \in cells
  /\ \A d, e \in Entries : d.sym = e.sym <=> d.sym_id = e.sym_id

InternInv ==
  PoolInv /\ tbl \in HashTable /\ TableInv(tbl) /\ OwnCells /\ Table!SymInv
=============================================================================
