-------------------------------- MODULE CSize --------------------------------
(***************************************************************************)
(* size_t arithmetic and buffers of pointers, as the growable containers   *)
(* of src/data-structures use them.  SizeMax and PtrSize are parameters,   *)
(* so that a small SizeMax puts the guards against SIZE_MAX within reach.  *)
(***************************************************************************)
EXTENDS Naturals

CONSTANTS
  SizeMax,   (* SIZE_MAX                                       *)
  PtrSize    (* the size of a void pointer, in bytes            *)

ASSUME SizeAssumption ==
  /\ SizeMax \in Nat
  /\ PtrSize \in Nat \ {0}

(* An unsigned size_t result: what overflows wraps around. *)
Wrap(n) == n % (SizeMax + 1)

(* The check every growth makes before it multiplies by sizeof. *)
Fits(slots) == slots <= SizeMax \div PtrSize

(* The number of whole pointer slots in a block of (slots * sizeof(ptr))   *)
(* bytes, the byte count being a size_t product.                           *)
SlotsGranted(slots) == Wrap(slots * PtrSize) \div PtrSize

(* The indexes of a buffer of n slots. *)
Slots(n) == 0 .. (n - 1)

(* In a ring of c slots, the slot n places after slot h. *)
RingSlot(h, n, c) == (h + n) % c
==============================================================================
