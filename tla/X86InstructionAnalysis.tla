------------------------ MODULE X86InstructionAnalysis ------------------------
(***************************************************************************)
(* Recognising x86_64 prologues and epilogues by their bytes               *)
(* (src/src/x86_64/instruction_analysis/, src/src/instruction_analysis.rs).*)
(* text is the bytes of a function and pc_offset how many of them are      *)
(* before the program counter.  The result is a rule, or NoRule.           *)
(***************************************************************************)
EXTENDS X86Rules, SequencesExt

IsPushByte(byte) == byte \div 8 = 10      \* byte & 0xf8 == 0x50
IsPopByte(byte) == byte \div 8 = 11       \* byte & 0xf8 == 0x58
IsPrefixByte(byte) == byte \div 2 = 32    \* byte & 0xfe == 0x40
IsJmpByte(byte) == byte \in {\Heb, \He9, \Hff}
PopRbp == \H5d
Ret == \Hc3

SubRsp == {<<\H83, \Hec>>, <<\H48, \H83, \Hec>>, <<\H81, \Hec>>, <<\H48, \H81, \Hec>>}
MovRbpRsp == <<\H48, \H89, \He5>>
PushRbpMovRbpRsp == <<\H55>> \o MovRbpRsp

is_next_instruction_expected_in_prologue(bytes) ==
    /\ Len(bytes) >= 4
    /\ \/ IsPushByte(bytes[1])
       \/ IsPrefixByte(bytes[1]) /\ IsPushByte(bytes[2])
       \/ \E opcode \in SubRsp \cup {MovRbpRsp} : IsPrefix(opcode, bytes)

FrameIsSetUp == -1   \* instead of a number of pushes

\* Mutant: the prefix of a push is not consumed.
PushesWithoutPrefix(bytes) ==
    LET before[cursor \in 0 .. Len(bytes)] ==
          IF IsSuffix(PushRbpMovRbpRsp, SubSeq(bytes, 1, cursor)) THEN FrameIsSetUp
          ELSE IF cursor = 0 \/ ~IsPushByte(bytes[cursor]) THEN 0
          ELSE IF before[cursor - 1] = FrameIsSetUp THEN FrameIsSetUp ELSE before[cursor - 1] + 1
    IN  before[Len(bytes)]

(***************************************************************************)
(* The loop that walks backwards: the pushes at the end of bytes, or that  *)
(* `push rbp; mov rbp, rsp` comes before them.                             *)
(***************************************************************************)
Pushes(bytes) ==
    LET before[cursor \in 0 .. Len(bytes)] ==
          IF IsSuffix(PushRbpMovRbpRsp, SubSeq(bytes, 1, cursor)) THEN FrameIsSetUp
          ELSE IF cursor = 0 \/ ~IsPushByte(bytes[cursor]) THEN 0
          ELSE LET prefix == cursor >= 2 /\ IsPrefixByte(bytes[cursor - 1])
                   rest == before[cursor - (IF prefix THEN 2 ELSE 1)]
               IN  IF rest = FrameIsSetUp THEN FrameIsSetUp ELSE rest + 1
    IN  before[Len(bytes)]

unwind_rule_from_detected_prologue(text, pc_offset) ==
    LET pushes == Pushes(SubSeq(text, 1, pc_offset))
    IN  IF ~is_next_instruction_expected_in_prologue(SubSeq(text, pc_offset + 1, Len(text)))
        THEN NoRule
        ELSE IF pushes = FrameIsSetUp THEN Rule("UseFramePointer", 0)
        ELSE Rule("OffsetSp", pushes + 1)

(***************************************************************************)
(* The loop that walks forwards from an offset: how many registers are     *)
(* popped, where the last `pop rbp` is among them (-1 without one), and    *)
(* what comes after them: "Ret", "Jmp" or "Body".                          *)
(***************************************************************************)
Epilogue(text, pc_offset) ==
    LET Pop1(rest, is_bp) ==
          [rest EXCEPT !.pops = @ + 1,
                       !.bp = IF @ >= 0 THEN @ + 1 ELSE IF is_bp THEN 0 ELSE @]
        End(by) == [pops |-> 0, bp |-> -1, by |-> by]
        from[i \in 0 .. Len(text)] ==
          LET byte == text[i + 1]
          IN  IF i = Len(text) THEN End("Body")
              ELSE IF byte = Ret THEN End("Ret")
              ELSE IF IsJmpByte(byte) THEN End("Jmp")
              ELSE IF IsPopByte(byte) THEN Pop1(from[i + 1], byte = PopRbp)
              ELSE IF i + 2 <= Len(text) /\ IsPrefixByte(byte) /\ IsPopByte(text[i + 2])
                   THEN Pop1(from[i + 2], FALSE)
              ELSE End("Body")
    IN  from[pc_offset]

(***************************************************************************)
(* A jump is a tail call if a pop comes before it, also one that has been  *)
(* executed: the last byte before pc_offset is taken for an instruction.   *)
(***************************************************************************)
unwind_rule_from_detected_epilogue(text, pc_offset) ==
    LET e == Epilogue(text, pc_offset)
        after_pop == pc_offset >= 1 /\ IsPopByte(text[pc_offset])
    IN  IF e.by = "Body" \/ (e.by = "Jmp" /\ e.pops = 0 /\ ~after_pop) THEN NoRule
        ELSE IF e.bp = -1 THEN Rule("OffsetSp", e.pops + 1)
        ELSE [Rule("OffsetSpAndRestoreBp", e.pops + 1) EXCEPT !.bp = e.bp]

rule_from_instruction_analysis(text, pc_offset) ==
    LET rule == unwind_rule_from_detected_prologue(text, pc_offset)
    IN  IF rule # NoRule THEN rule ELSE unwind_rule_from_detected_epilogue(text, pc_offset)
=============================================================================
