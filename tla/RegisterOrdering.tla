--------------------------- MODULE RegisterOrdering ---------------------------
(***************************************************************************)
(* The encoding of the order in which registers are popped                 *)
(* (src/src/x86_64/register_ordering.rs): a number whose digits, of base   *)
(* 8, 7, 6, ..., say which of the remaining registers comes next.          *)
(***************************************************************************)
EXTENDS Integers, SequencesExt

CONSTANTS
    ENCODE_REGISTERS,   \* the eight callee-saved registers, in a fixed order
    Digits              \* number of values of a u16, 2^16 in the code

RegisterCount == Len(ENCODE_REGISTERS)

\* How many orders of k registers there are: the scale of the digit after the first k.
Orders[k \in 0 .. RegisterCount] ==
    IF k = 0 THEN 1 ELSE Orders[k - 1] * (RegisterCount - (k - 1))

ASSUME OrderingAssumption ==
    /\ ENCODE_REGISTERS \in Seq(ToSet(ENCODE_REGISTERS)) /\ IsInjective(ENCODE_REGISTERS)
    /\ Digits \in Nat /\ Orders[RegisterCount] < Digits

Swap(s, i, j) == [s EXCEPT ![i] = s[j], ![j] = s[i]]

\* Mutant: every digit has base 8.
EncodeWithBase8(e, reg) ==
    LET i == e.count + 1
        positions == {k \in i .. RegisterCount : e.order[k] = reg}
    IN  IF positions = {} THEN [e EXCEPT !.fails = "yes"]
        ELSE LET index == (CHOOSE k \in positions : TRUE) - i
             IN  [e EXCEPT !.order = Swap(e.order, i, i + index), !.count = i,
                           !.r = (e.r + index * e.scale) % Digits,
                           !.scale = (e.scale * RegisterCount) % Digits]

(***************************************************************************)
(* One round of the loop of encode.                                        *)
(***************************************************************************)
EncodeNext(e, reg) ==
    LET i == e.count + 1
        positions == {k \in i .. RegisterCount : e.order[k] = reg}
    IN  IF positions = {} THEN [e EXCEPT !.fails = "yes"]
        ELSE LET index == (CHOOSE k \in positions : TRUE) - i
             IN  [e EXCEPT !.order = Swap(e.order, i, i + index), !.count = i,
                           !.r = (e.r + index * e.scale) % Digits,
                           !.scale = (e.scale * (RegisterCount - e.count)) % Digits]

encode(registers) ==
    FoldLeft(LAMBDA e, reg : IF e.fails = "yes" THEN e ELSE EncodeNext(e, reg),
             [order |-> ENCODE_REGISTERS, count |-> 0, r |-> 0, scale |-> 1,
              fails |-> IF Len(registers) > RegisterCount THEN "yes" ELSE "no"],
             registers)

(***************************************************************************)
(* One round of the loop of decode, for the digit of base n.               *)
(***************************************************************************)
DecodeNext(d, n) ==
    IF d.r = 0 THEN d
    ELSE LET first == RegisterCount - n + 1
         IN  [order |-> Swap(d.order, first, first + (d.r % n)), r |-> d.r \div n]

decode(count, encoded_ordering) ==
    LET digits == [k \in 1 .. RegisterCount |-> RegisterCount + 1 - k]
        d == FoldLeft(DecodeNext, [order |-> ENCODE_REGISTERS, r |-> encoded_ordering], digits)
    IN  SubSeq(d.order, 1, count)
=============================================================================
