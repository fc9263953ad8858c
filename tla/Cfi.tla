--------------------------------- MODULE Cfi ---------------------------------
(***************************************************************************)
(* DWARF call frame information: the rules of a row of an unwind table     *)
(* (gimli's CfaRule and RegisterRule) and their evaluation                 *)
(* (src/src/dwarf.rs).  A DWARF expression is given by the value it        *)
(* evaluates to, or Unknown.                                               *)
(***************************************************************************)
EXTENDS Words

CONSTANTS
    CfaRules,       \* rules for the canonical frame address
    RegisterRules,  \* rules for a register
    DwarfRegisters  \* registers that rules may name

ASSUME CfiAssumption ==
    /\ CfaRules \subseteq
         [kind : {"RegisterAndOffset"}, register : DwarfRegisters, offset : Int]
           \cup [kind : {"Expression"}, value : Values]
    /\ RegisterRules \subseteq
         [kind : {"Undefined", "SameValue", "Architectural"}]
           \cup [kind : {"Offset", "ValOffset"}, offset : Int]
           \cup [kind : {"Register"}, register : DwarfRegisters]
           \cup [kind : {"Expression", "ValExpression"}, value : Values]

(***************************************************************************)
(* The sum is taken as i64, so both the address and the sum must be in the *)
(* lower half of the address space.                                        *)
(***************************************************************************)
Half == AddrSpace \div 2

SignedSum(address, offset) ==
    IF /\ 0 <= address /\ address < Half
       /\ 0 <= address + offset /\ address + offset < Half
    THEN address + offset ELSE Unknown

eval_cfa_rule(rule, get) ==
    IF rule.kind = "Expression" THEN rule.value
    ELSE SignedSum(get[rule.register], rule.offset)

(***************************************************************************)
(* val is the value of the register itself, get gives the registers by     *)
(* name, or Unknown, and memory is what read_stack answers.                *)
(***************************************************************************)
ReadAt(address, memory) ==
    IF address = Unknown THEN Unknown ELSE memory[address]

eval_register_rule(rule, cfa, val, get, memory) ==
    CASE rule.kind = "SameValue" -> val
      [] rule.kind = "Offset" -> ReadAt(SignedSum(cfa, rule.offset), memory)
      [] rule.kind = "ValOffset" -> SignedSum(cfa, rule.offset)
      [] rule.kind = "Register" -> get[rule.register]
      [] rule.kind = "Expression" -> ReadAt(rule.value, memory)
      [] rule.kind = "ValExpression" -> rule.value
      [] OTHER -> Unknown

(***************************************************************************)
(* register_rule_to_cfa_offset: a rule that says nothing about a register, *)
(* one that says where it is stored, or one that no unwind rule can have.  *)
(***************************************************************************)
IsKept(rule) == rule.kind \in {"Undefined", "SameValue"}
IsStored(rule) == rule.kind = "Offset"
=============================================================================
