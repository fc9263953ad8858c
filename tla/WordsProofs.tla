----------------------------- MODULE WordsProofs -----------------------------
(***************************************************************************)
(* What the checked additions compute, and that evaluating CFI rules       *)
(* yields an address, or nothing.                                          *)
(***************************************************************************)
EXTENDS Cfi, TLAPS

(***************************************************************************)
(* checked_add is addition wherever the sum is an address.                 *)
(***************************************************************************)
LEMMA CheckedAdd ==
    ASSUME NEW a \in Addresses, NEW b \in Nat
    PROVE  /\ checked_add(a, b) \in Addresses \cup {Overflow}
           /\ checked_add(a, b) # Overflow => checked_add(a, b) = a + b
  BY WordsAssumption DEF checked_add, Addresses, Overflow

(***************************************************************************)
(* checked_add_signed, which looks only at the wrapped sum and the sign of *)
(* the offset, is addition exactly where the sum is an address, and fails  *)
(* everywhere else.                                                        *)
(***************************************************************************)
THEOREM CheckedAddSigned ==
    ASSUME NEW a \in Addresses, NEW offset \in Int,
           -AddrSpace < offset, offset < AddrSpace
    PROVE  checked_add_signed(a, offset)
             = IF a + offset \in Addresses THEN a + offset ELSE Overflow
<1>1. a \in Int /\ AddrSpace \in Int /\ 0 <= a /\ a < AddrSpace
  BY WordsAssumption DEF Addresses
<1>2. CASE a + offset >= AddrSpace
  <2>1. /\ wrapping_add_signed(a, offset) = a + offset - AddrSpace
        /\ offset >= 0
        /\ a + offset - AddrSpace < a
        /\ a + offset \notin Addresses
    BY <1>1, <1>2 DEF wrapping_add_signed, Addresses
  <2> QED
    BY <1>1, <2>1 DEF checked_add_signed
<1>3. CASE a + offset < 0
  <2>1. /\ wrapping_add_signed(a, offset) = a + offset + AddrSpace
        /\ offset < 0
        /\ a + offset + AddrSpace > a
        /\ a + offset \notin Addresses
    BY <1>1, <1>3, WordsAssumption DEF wrapping_add_signed, Addresses
  <2> QED
    BY <1>1, <2>1 DEF checked_add_signed
<1>4. CASE 0 <= a + offset /\ a + offset < AddrSpace
  <2>1. /\ wrapping_add_signed(a, offset) = a + offset
        /\ a + offset \in Addresses
        /\ offset >= 0 => a + offset >= a
        /\ offset < 0 => a + offset < a
    BY <1>1, <1>4 DEF wrapping_add_signed, Addresses
  <2>2. CASE offset >= 0
    BY <1>1, <2>1, <2>2 DEF checked_add_signed
  <2>3. CASE offset < 0
    BY <1>1, <2>1, <2>3 DEF checked_add_signed
  <2> QED
    BY <2>2, <2>3
<1> QED
  BY <1>1, <1>2, <1>3, <1>4

(***************************************************************************)
(* Quotient is exact for multiples of the divisor.                         *)
(***************************************************************************)
LEMMA MultipleOf ==
    ASSUME NEW a \in Int, NEW b \in Nat \ {0}
    PROVE  a % b = 0 <=> \E q \in Int : a = b * q
<1>1. ASSUME a % b = 0 PROVE a = b * (a \div b) /\ a \div b \in Int
  BY <1>1
<1>2. ASSUME NEW q \in Int, a = b * q PROVE a % b = 0
  BY <1>2
<1> QED
  BY <1>1, <1>2

LEMMA QuotientExact ==
    ASSUME NEW a \in Int, NEW b \in Nat \ {0}, a % b = 0
    PROVE  Quotient(a, b) \in Int /\ Quotient(a, b) * b = a
<1>1. PICK q \in Int : a = b * q
  BY MultipleOf
<1>2. (-a) % b = 0
  <2>1. -a \in Int /\ -q \in Int /\ -a = b * (-q)
    BY <1>1
  <2> QED
    BY <2>1, MultipleOf
<1>3. a = b * (a \div b) /\ -a = b * ((-a) \div b)
  BY <1>2
<1> QED
  BY <1>3 DEF Quotient

-----------------------------------------------------------------------------
LEMMA SignedSumTyped ==
    ASSUME NEW address \in Values, NEW offset \in Int
    PROVE  SignedSum(address, offset) \in Values
<1>1. Half \in Int /\ Half <= AddrSpace
  BY WordsAssumption DEF Half
<1> QED
  BY <1>1, WordsAssumption DEF SignedSum, Values, Addresses, Unknown, Unreadable

LEMMA ReadTyped ==
    ASSUME NEW stack \in [Addresses -> Values], NEW address \in Values
    PROVE  ReadAt(address, stack) \in Values
  BY DEF ReadAt, Values, Unknown, Unreadable

LEMMA CfaTyped ==
    ASSUME NEW rule \in CfaRules, NEW g \in [DwarfRegisters -> Values]
    PROVE  eval_cfa_rule(rule, g) \in Values
<1>1. CASE rule \in [kind : {"RegisterAndOffset"}, register : DwarfRegisters, offset : Int]
  BY <1>1, SignedSumTyped DEF eval_cfa_rule
<1>2. CASE rule \in [kind : {"Expression"}, value : Values]
  BY <1>2 DEF eval_cfa_rule
<1> QED
  BY <1>1, <1>2, CfiAssumption

LEMMA RegisterTyped ==
    ASSUME NEW rule \in RegisterRules, NEW cfa \in Values, NEW val \in Addresses,
           NEW g \in [DwarfRegisters -> Values], NEW stack \in [Addresses -> Values]
    PROVE  eval_register_rule(rule, cfa, val, g, stack) \in Values
<1> DEFINE v == eval_register_rule(rule, cfa, val, g, stack)
<1>1. CASE rule \in [kind : {"Undefined", "SameValue", "Architectural"}]
  BY <1>1 DEF eval_register_rule, Values, Unknown, Unreadable
<1>2. CASE rule \in [kind : {"Offset", "ValOffset"}, offset : Int]
  <2>1. SignedSum(cfa, rule.offset) \in Values
    BY <1>2, SignedSumTyped
  <2>2. v \in {SignedSum(cfa, rule.offset), ReadAt(SignedSum(cfa, rule.offset), stack)}
    BY <1>2 DEF eval_register_rule
  <2> QED
    BY <2>1, <2>2, ReadTyped
<1>3. CASE rule \in [kind : {"Register"}, register : DwarfRegisters]
  BY <1>3 DEF eval_register_rule
<1>4. CASE rule \in [kind : {"Expression", "ValExpression"}, value : Values]
  <2>1. v \in {rule.value, ReadAt(rule.value, stack)}
    BY <1>4 DEF eval_register_rule
  <2> QED
    BY <1>4, <2>1, ReadTyped
<1> QED
  BY <1>1, <1>2, <1>3, <1>4, CfiAssumption
=============================================================================
