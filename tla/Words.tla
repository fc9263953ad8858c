-------------------------------- MODULE Words --------------------------------
(***************************************************************************)
(* Addresses and register values, and their checked arithmetic             *)
(* (src/src/add_signed.rs and the u64 methods the unwind rules call).      *)
(* AddrSpace is 2^64 in the code and Word is 8.                            *)
(***************************************************************************)
EXTENDS Integers

CONSTANTS
    AddrSpace,   \* number of addresses
    Word         \* bytes of a stack slot

ASSUME WordsAssumption ==
    /\ Word \in Nat \ {0}
    /\ AddrSpace \in Nat
    /\ 2 * Word < AddrSpace

Addresses == 0 .. AddrSpace - 1

Overflow == -1      \* the None of a checked addition
Unreadable == -1    \* the Err of read_stack
Unknown == -1       \* the None of a register rule's evaluation

Values == Addresses \cup {Unreadable}

checked_add(a, b) == IF a + b < AddrSpace THEN a + b ELSE Overflow

(***************************************************************************)
(* The offset is an i64, so its size is at most AddrSpace \div 2 and one   *)
(* correction by AddrSpace wraps the sum.                                  *)
(***************************************************************************)
wrapping_add_signed(a, offset) ==
    IF a + offset >= AddrSpace THEN a + offset - AddrSpace
    ELSE IF a + offset < 0 THEN a + offset + AddrSpace
    ELSE a + offset

checked_add_signed(a, offset) ==
    LET res == wrapping_add_signed(a, offset)
    IN  IF \/ offset >= 0 /\ res >= a
           \/ offset < 0 /\ res < a
        THEN res ELSE Overflow

(***************************************************************************)
(* The quotient of Rust, which is rounded towards zero.                    *)
(***************************************************************************)
Quotient(a, b) == IF a >= 0 THEN a \div b ELSE -((-a) \div b)
=============================================================================
