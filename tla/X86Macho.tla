------------------------------- MODULE X86Macho -------------------------------
(***************************************************************************)
(* The x86_64 rules for an address of a Mach-O image                       *)
(* (src/src/x86_64/macho.rs).  An opcode has a kind and, depending on it,  *)
(* the size of the stack frame in bytes, where in the function the operand *)
(* of its `sub rsp` is and what is pushed besides, in bytes, and the saved *)
(* registers from the innermost to the outermost.                          *)
(***************************************************************************)
EXTENDS X86InstructionAnalysis, CompactUnwindInfo

NeedDwarf == Rule("NeedDwarf", 0)

Error == Rule("Error", 0)   \* any CompactUnwindInfoUnwinderError

\* Mutant: rbp is looked for from the inside.
FrameFromInside(stack_size, saved_regs) ==
    LET positions == {i \in DOMAIN saved_regs : saved_regs[i] = "RBP"}
    IN  IF positions = {} THEN Rule("OffsetSp", stack_size \div 8)
        ELSE LET pos == (CHOOSE i \in positions : \A j \in positions : i <= j) - 1
             IN  [Rule("OffsetSpAndRestoreBp", stack_size \div 8)
                    EXCEPT !.bp = (stack_size - 16 - pos * 8) \div 8]

(***************************************************************************)
(* The rule for a frame of a size with these registers below the return    *)
(* address.                                                                *)
(***************************************************************************)
FrameOfSize(stack_size, saved_regs) ==
    LET from_outside == Reverse(saved_regs)
        positions == {i \in DOMAIN from_outside : from_outside[i] = "RBP"}
    IN  IF positions = {} THEN Rule("OffsetSp", stack_size \div 8)
        ELSE LET pos == (CHOOSE i \in positions : \A j \in positions : i <= j) - 1
                 bp == Quotient(stack_size - 16 - pos * 8, 8)
             IN  IF bp \notin IOffsets THEN Error
                 ELSE [Rule("OffsetSpAndRestoreBp", stack_size \div 8) EXCEPT !.bp = bp]

u32_from_le_bytes(bytes) == bytes[1] + 256 * (bytes[2] + 256 * (bytes[3] + 256 * bytes[4]))

(***************************************************************************)
(* A frame whose size is the operand of an instruction of the function.  A *)
(* sum that overflows 32 bits is an error too, as one that is not in       *)
(* UOffsets.                                                               *)
(***************************************************************************)
FrameOfIndirectSize(opcode, bytes) ==
    LET at == opcode.immediate_offset
        stack_size == u32_from_le_bytes(SubSeq(bytes, at + 1, at + 4)) + opcode.stack_adjust
    IN  IF at + 4 > Len(bytes) THEN Error
        ELSE IF stack_size \div 8 \notin UOffsets THEN Error
        ELSE FrameOfSize(stack_size, opcode.saved_regs)

RuleForOpcode(opcode, bytes) ==
    CASE opcode.kind = "FrameBased" -> Rule("UseFramePointer", 0)
      [] opcode.kind = "FramelessImmediate" ->
            IF opcode.stack_size = 8 THEN JustReturn
            ELSE FrameOfSize(opcode.stack_size, opcode.saved_regs)
      [] opcode.kind = "FramelessIndirect" -> FrameOfIndirectSize(opcode, bytes)
      [] opcode.kind = "Dwarf" -> NeedDwarf
      [] opcode.kind \in {"Null", "Unrecognized", "InvalidFrameless"} -> Error

(***************************************************************************)
(* The opcode describes the body of a function.  On the first frame the    *)
(* bytes may show a prologue or an epilogue, and a function without        *)
(* information may show the frame it sets up.                              *)
(***************************************************************************)
RuleInFunction(opcode, first, offset, bytes) ==
    LET analysed == IF bytes = <<>> THEN NoRule ELSE rule_from_instruction_analysis(bytes, offset)
    IN  IF first /\ analysed # NoRule THEN analysed
        ELSE IF first /\ opcode.kind = "Null"
             THEN IF IsPrefix(PushRbpMovRbpRsp, bytes) THEN Rule("UseFramePointer", 0)
                  ELSE JustReturn
        ELSE RuleForOpcode(opcode, bytes)

\* Mutant: the push of a stub is taken for executed where it starts.
StubHelperTooEarly(offset) ==
    IF offset < \H7 THEN Rule("OffsetSp", 2)
    ELSE IF offset < \H10 THEN Rule("OffsetSp", 3)
    ELSE Rule("OffsetSp", 2)

rule_for_stub_helper(offset) ==
    IF offset < \H7 THEN Rule("OffsetSp", 2)
    ELSE IF offset < \H10 THEN Rule("OffsetSp", 3)
    ELSE IF (offset - \H10) % 10 < 5 THEN JustReturn
    ELSE Rule("OffsetSp", 2)

macho_unwind_frame(image, address, first) ==
    LET found == FindAddress(image, address, first)
        function == CHOOSE f \in lookup(image, address) : TRUE
    IN  CASE found.by = "Error" -> Error
          [] found.by \in {"StubFunction", "FunctionStart"} -> JustReturn
          [] found.by = "StubHelper" -> rule_for_stub_helper(found.offset)
          [] found.by = "Function" ->
                RuleInFunction(function.opcode, first, found.offset,
                               function_bytes(image, function))
=============================================================================
