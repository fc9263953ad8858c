----------------------------- MODULE Aarch64Macho -----------------------------
(***************************************************************************)
(* The aarch64 rules for an address of a Mach-O image                      *)
(* (src/src/aarch64/macho.rs).  Addresses count instructions.  An opcode   *)
(* has a kind and, if it is "Frameless", the size of the stack frame.      *)
(***************************************************************************)
EXTENDS Aarch64InstructionAnalysis, CompactUnwindInfo

NeedDwarf == Rule("NeedDwarf", 0, 0, 0)

Error == Rule("Error", 0, 0, 0)   \* any CompactUnwindInfoUnwinderError

NoOp == Rule("NoOp", 0, 0, 0)

RuleForOpcode(opcode, first) ==
    CASE opcode.kind = "FrameBased" -> UseFramePointer
      [] opcode.kind = "Frameless" /\ first ->
            IF opcode.stack_size = 0 THEN NoOp
            ELSE Rule("OffsetSp", opcode.stack_size \div (2 * Word), 0, 0)
      [] opcode.kind = "Frameless" /\ ~first -> Error
      [] opcode.kind = "Dwarf" -> NeedDwarf
      [] opcode.kind \in {"Null", "Unrecognized"} -> Error

(***************************************************************************)
(* The opcode describes the body of a function.  On the first frame the    *)
(* instructions may show a prologue or an epilogue, unless the function    *)
(* has no information.                                                     *)
(***************************************************************************)
RuleInFunction(opcode, first, offset, text) ==
    LET analysed == IF text = <<>> THEN NoRule ELSE rule_from_instruction_analysis(text, offset)
    IN  IF first /\ opcode.kind = "Null" THEN NoOp
        ELSE IF first /\ analysed # NoRule THEN analysed
        ELSE RuleForOpcode(opcode, first)

(***************************************************************************)
(* The offsets 0xc and 0x18 of the code, in instructions.                  *)
(***************************************************************************)
rule_for_stub_helper(offset) ==
    IF 3 <= offset /\ offset < 6 THEN Rule("OffsetSp", 1, 0, 0) ELSE NoOp

macho_unwind_frame(image, address, first) ==
    LET found == FindAddress(image, address, first)
        function == CHOOSE f \in lookup(image, address) : TRUE
    IN  CASE found.by = "Error" -> Error
          [] found.by \in {"StubFunction", "FunctionStart"} -> NoOp
          [] found.by = "StubHelper" -> rule_for_stub_helper(found.offset)
          [] found.by = "Function" ->
                RuleInFunction(function.opcode, first, found.offset,
                               function_bytes(image, function))
=============================================================================
