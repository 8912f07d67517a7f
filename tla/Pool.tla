-------------------------------- MODULE Pool ---------------------------------
(***************************************************************************)
(* Where values live: bl_alloc_vals and bl_mk_val (runtime/src/utils.c).   *)
(* Cells are handed out one after the other from an array, val_pool, and a *)
(* new array is taken when that one is used up.  Nothing is ever handed    *)
(* back: what becomes of an array nobody refers to is the collector's      *)
(* business.                                                               *)
(*                                                                         *)
(* bl_mk_val, which asks for one cell, is the only caller, so the branch   *)
(* for more cells than a pool has is never taken.                          *)
(***************************************************************************)
EXTENDS Naturals

CONSTANTS
  Size,     (* POOL_DEFAULT_SIZE, and val_pool_size: 100000 in the source  *)
  MaxPools  (* bound: arrays taken                                         *)

ASSUME PoolAssumption == Size \in Nat \ {0} /\ MaxPools \in Nat

VARIABLES
  val_pool,    (* the array in use; arrays are numbered, 0 is the static   *)
               (* one                                                      *)
  last_alloc,
  cells,       (* history: the cells handed out, as <<array, index>>       *)
  mkvals       (* history: how often bl_mk_val was called                  *)

poolVars == <<val_pool, last_alloc, cells, mkvals>>

PoolInit == val_pool = 0 /\ last_alloc = 0 /\ cells = {} /\ mkvals = 0

(* Mutant: the test is made too late, > for >=.                            *)
UsedUpLate == last_alloc > Size

(* The array has no cell left.                                             *)
UsedUp == last_alloc >= Size

(* Mutant: the array used so far is filled once more.                      *)
SamePool == val_pool

NewPool == val_pool + 1

(* The index is advanced before it is used: cell 0 is never handed out,    *)
(* and the last cell is the one after the end of the array.                *)
bl_mk_val ==
  LET pool == IF UsedUp THEN NewPool ELSE val_pool
      i == (IF UsedUp THEN 0 ELSE last_alloc) + 1
  IN  /\ pool < MaxPools
      /\ val_pool' = pool /\ last_alloc' = i
      /\ cells' = cells \cup {<<pool, i>>}
      /\ mkvals' = mkvals + 1

PoolSpec == PoolInit /\ [][bl_mk_val]_poolVars

-----------------------------------------------------------------------------
PoolTypeOK ==
  /\ val_pool \in Nat /\ last_alloc \in 0..Size /\ mkvals \in Nat
  /\ cells \subseteq (0..val_pool) \X (1..Size)

(* No cell is handed out twice: there are as many as there were calls, and *)
(* every value made has a cell that no later bl_mk_val writes to           *)
(* (utils.c:26-33).                                                        *)
EachCellOnce ==
  [][mkvals' # mkvals => <<val_pool', last_alloc'>> \notin cells]_poolVars

(* Whenever bl_alloc_vals goes past the end of its array, it is by one     *)
(* cell, the last before the next array is taken (utils.c:26, 32-33).      *)
OnlyLastOutside ==
  \A c \in cells : c[2] >= Size => c[2] = Size /\ (c[1] < val_pool \/ last_alloc = Size)

(* What has been handed out is all of the arrays before this one, and this *)
(* one up to last_alloc.                                                   *)
Filled ==
  cells = {c \in (0..val_pool) \X (1..Size) : c[1] < val_pool \/ c[2] <= last_alloc}

PoolInv == PoolTypeOK /\ Filled
=============================================================================
