----------------------------- MODULE PtrAuthMask -----------------------------
(***************************************************************************)
(* Pointer authentication masks (PtrAuthMask in                            *)
(* src/src/aarch64/unwindregs.rs).  Every constructor makes a mask of the  *)
(* low k bits, which is given here by 2^k: applying it is the remainder.   *)
(***************************************************************************)
EXTENDS Integers

CONSTANT Bits   \* width of a register, 64 in the code

ASSUME BitsAssumption == Bits \in Nat

strip_ptr_auth(mask, ptr) == ptr % mask

leading_zeros(address) ==
    CHOOSE z \in 0 .. Bits :
        /\ address < 2^(Bits - z)
        /\ z = Bits \/ 2^(Bits - z - 1) <= address

Panic == 0   \* no mask: the shift amount is as large as the type

\* Mutant: the mask is one bit short.
MaskOneBitShort(address) == {2^(Bits - leading_zeros(address) - 1)}

(***************************************************************************)
(* u64::MAX >> address.leading_zeros().  A shift by the full width panics  *)
(* in a build with overflow checks, and shifts by 0 in one without.        *)
(***************************************************************************)
from_max_known_address(address) ==
    LET z == leading_zeros(address)
    IN  IF z = Bits THEN {Panic, 2^Bits} ELSE {2^(Bits - z)}
=============================================================================
