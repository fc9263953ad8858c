----------------------------- MODULE PopRegisters -----------------------------
(***************************************************************************)
(* Collecting the registers that a function pops into an unwind rule: the  *)
(* loop of for_sequence_of_offset_or_pop in                                *)
(* src/src/x86_64/unwind_rule.rs, for registers of any kind and in any     *)
(* order, repeated ones included.                                          *)
(***************************************************************************)
EXTENDS RegisterOrdering

CONSTANT Others     \* registers that are not callee-saved

\* The value of ENCODE_REGISTERS in the code.
CodeRegisters == <<"RBX", "RBP", "RDI", "RSI", "R12", "R13", "R14", "R15">>

ASSUME PopAssumption == Others \cap ToSet(ENCODE_REGISTERS) = {}

VARIABLES
    collected,  \* regs, the registers collected so far
    returned    \* "Collecting", or "None" once there cannot be a rule

PopsVars == <<collected, returned>>

PopsInit == collected = <<>> /\ returned = "Collecting"

Encodable(s) == ToSet(s) \subseteq ToSet(ENCODE_REGISTERS) /\ IsInjective(s)

(***************************************************************************)
(* Sequences that cannot be encoded any more are not extended further.     *)
(***************************************************************************)
try_push(reg) ==
    /\ returned = "Collecting" /\ Encodable(collected)
    /\ \/ /\ Len(collected) < RegisterCount
          /\ collected' = Append(collected, reg)
          /\ UNCHANGED returned
       \/ /\ Len(collected) = RegisterCount
          /\ returned' = "None"
          /\ UNCHANGED collected

PopsNext == \E reg \in ToSet(ENCODE_REGISTERS) \cup Others : try_push(reg)

PopsSpec == PopsInit /\ [][PopsNext]_PopsVars

-----------------------------------------------------------------------------
(***************************************************************************)
(* exec pops the registers that were collected, in their order: decode     *)
(* undoes encode, although both count in 16 bits, and encode fails exactly *)
(* for a register that is not callee-saved or comes twice.                 *)
(***************************************************************************)
RoundTrip ==
    LET e == encode(collected)
    IN  /\ e.fails = "no" <=> Encodable(collected)
        /\ e.fails = "no" => decode(e.count, e.r) = collected
=============================================================================
