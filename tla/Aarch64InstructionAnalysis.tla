---------------------- MODULE Aarch64InstructionAnalysis ----------------------
(***************************************************************************)
(* Recognising aarch64 prologues and epilogues by their instructions       *)
(* (src/src/aarch64/instruction_analysis/, src/src/instruction_analysis.rs).*)
(* text is the instructions of a function and pc_offset how many of them   *)
(* are before the program counter.  The result is a rule, or NoRule.       *)
(*                                                                         *)
(* An instruction is given by what the patterns on its 32 bits decode: its *)
(* operation, the registers it writes (add, sub), loads (ldp) or stores    *)
(* (stp), the register that its address or sum counts from, its immediate  *)
(* operand, and how ldp and stp write the base register back: "none",      *)
(* "pre", "post" (indexed), or "hint" for the non-temporal forms, which    *)
(* have neither.  `mov x29, sp` is an add of 0.                            *)
(***************************************************************************)
EXTENDS Aarch64Rules, SequencesExt

WritesBack(i) == i.writeback \in {"pre", "post"}

IsSpAccess(i, op) == i.op = op /\ i.base = "SP" /\ i.writeback # "hint"

IsSpSum(i, op) == i.op = op /\ i.base = "SP" /\ i.regs = <<"SP">>

analyze_prologue_instruction_type(i) ==
    IF \/ i.op = "pacibsp"
       \/ IsSpAccess(i, "stp") /\ WritesBack(i)
       \/ IsSpSum(i, "sub")
       \/ i.op = "add" /\ i.base = "SP" /\ i.regs = <<"X29">>
    THEN "VeryLikelyPartOfPrologue"
    ELSE IF IsSpAccess(i, "stp") THEN "CouldBePartOfPrologueIfThereIsAlsoAStackPointerSub"
    ELSE "NotExpectedInPrologue"

(***************************************************************************)
(* Stepping back over an instruction: whether it may be one of a prologue, *)
(* and what undoing it adds to the stack pointer.                          *)
(***************************************************************************)
IsValidPrologueInstruction(i) ==
    i.op = "pacibsp" \/ IsSpAccess(i, "stp") \/ IsSpSum(i, "sub")

reverse_step_instruction(sp_offset, i) ==
    IF i.op = "sub" THEN sp_offset + i.imm
    ELSE IF WritesBack(i) THEN sp_offset - i.imm
    ELSE sp_offset

\* Mutant: a store that moves the stack pointer ends the prologue.
SpOffsetOfSubs(executed) ==
    LET others == {k \in DOMAIN executed : ~IsSpSum(executed[k], "sub")}
        start == IF others = {} THEN 0 ELSE Max(others)
    IN  FoldLeft(reverse_step_instruction, 0, SubSeq(executed, start + 1, Len(executed)))

(***************************************************************************)
(* The loop over the instructions before the program counter, from the     *)
(* last one to the first, up to one that is not valid in a prologue.       *)
(***************************************************************************)
SpOffset(executed) ==
    LET others == {k \in DOMAIN executed : ~IsValidPrologueInstruction(executed[k])}
        start == IF others = {} THEN 0 ELSE Max(others)
    IN  FoldLeft(reverse_step_instruction, 0, SubSeq(executed, start + 1, Len(executed)))

unwind_rule_from_detected_prologue(text, pc_offset) ==
    LET type == analyze_prologue_instruction_type(text[pc_offset + 1])
        sp_offset == SpOffset(SubSeq(text, 1, pc_offset))
        sp_offset_by_16 == Quotient(sp_offset, 2 * Word)
    IN  IF pc_offset >= Len(text) \/ type = "NotExpectedInPrologue" THEN NoRule
        ELSE IF type # "VeryLikelyPartOfPrologue" /\ sp_offset = 0 THEN NoRule
        ELSE Fitted(IF sp_offset_by_16 = 0 THEN "NoOp" ELSE "OffsetSp", sp_offset_by_16, 0, 0)

-----------------------------------------------------------------------------
is_auth_tail_call(after_autibsp) ==
    LET ops == [k \in DOMAIN after_autibsp |-> after_autibsp[k].op]
    IN  \/ IsPrefix(<<"eor", "tbz", "brk", "b">>, ops)
        \/ IsPrefix(<<"eor", "tbz", "brk", "mov_x16", "braa">>, ops)

(***************************************************************************)
(* How many instructions before one of an authenticated tail call the      *)
(* autibsp would be.                                                       *)
(***************************************************************************)
offset_of_expected_autibsp ==
    [autibsp |-> 0, eor |-> 1, tbz |-> 2, brk |-> 3, b |-> 4, br |-> 4, mov_x16 |-> 4, braa |-> 5]

IsInAuthTailCall(text, pc_offset) ==
    LET at == pc_offset - offset_of_expected_autibsp[text[pc_offset + 1].op]
    IN  /\ at >= 0
        /\ text[at + 1].op = "autibsp"
        /\ is_auth_tail_call(SubSeq(text, at + 2, Len(text)))

instruction_adjusts_stack_pointer(i) ==
    (IsSpAccess(i, "ldp") /\ WritesBack(i)) \/ IsSpSum(i, "add")

(***************************************************************************)
(* The loop over the instructions from the program counter on: those that  *)
(* load registers and move the stack pointer, then the one that decides.   *)
(* fp and lr are where those registers are loaded from, relative to sp at  *)
(* the program counter, as sets of at most one offset.                     *)
(***************************************************************************)
NeedsMore(i) == IsSpAccess(i, "ldp") \/ IsSpSum(i, "add")

\* Mutant: only a pre-indexed load moves the stack pointer.
StepOverPostIndexed(d, i) ==
    LET reg_loc == IF i.writeback = "post" THEN d.sp ELSE d.sp + i.imm
        Loaded(reg, before) ==
          IF i.regs[2] = reg THEN {reg_loc + Word} ELSE IF i.regs[1] = reg THEN {reg_loc} ELSE before
    IN  IF i.op = "add" THEN [d EXCEPT !.sp = @ + i.imm]
        ELSE [sp |-> IF i.writeback = "pre" THEN d.sp + i.imm ELSE d.sp,
              fp |-> Loaded("X29", d.fp), lr |-> Loaded("X30", d.lr)]

step_instruction(d, i) ==
    LET reg_loc == IF i.writeback = "post" THEN d.sp ELSE d.sp + i.imm
        Loaded(reg, before) ==
          IF i.regs[2] = reg THEN {reg_loc + Word} ELSE IF i.regs[1] = reg THEN {reg_loc} ELSE before
    IN  IF i.op = "add" THEN [d EXCEPT !.sp = @ + i.imm]
        ELSE [sp |-> IF WritesBack(i) THEN d.sp + i.imm ELSE d.sp,
              fp |-> Loaded("X29", d.fp), lr |-> Loaded("X30", d.lr)]

NothingLoaded == [sp |-> 0, fp |-> {}, lr |-> {}]

ReachedReturnOrTailCall(text, end, d) ==
    LET op == text[end].op
    IN  \/ op \in {"ret", "retab"}
        \/ op = "autibsp" /\ is_auth_tail_call(SubSeq(text, end + 1, Len(text)))
        \/ op = "b" /\ d.sp # 0

RuleFor(d) ==
    LET sp_offset_by_16 == Quotient(d.sp, 2 * Word)
        By8(offsets) == Quotient(CHOOSE offset \in offsets : TRUE, Word)
    IN  IF d.lr # {} /\ d.fp # {}
        THEN Fitted("OffsetSpAndRestoreFpAndLr", sp_offset_by_16, By8(d.lr), By8(d.fp))
        ELSE IF d.lr # {} THEN Fitted("OffsetSpAndRestoreLr", sp_offset_by_16, By8(d.lr), 0)
        ELSE IF d.fp # {} THEN NoRule
        ELSE Fitted(IF sp_offset_by_16 = 0 THEN "NoOp" ELSE "OffsetSp", sp_offset_by_16, 0, 0)

RuleForRest(text, pc_offset) ==
    LET ends == {k \in pc_offset + 1 .. Len(text) : ~NeedsMore(text[k])}
        d == FoldLeft(step_instruction, NothingLoaded, SubSeq(text, pc_offset + 1, Min(ends) - 1))
    IN  IF ends = {} THEN NoRule
        ELSE IF ReachedReturnOrTailCall(text, Min(ends), d) THEN RuleFor(d) ELSE NoRule

unwind_rule_from_detected_epilogue(text, pc_offset) ==
    LET i == text[pc_offset + 1]
        after_epilogue == pc_offset >= 1 /\ instruction_adjusts_stack_pointer(text[pc_offset])
    IN  IF pc_offset >= Len(text) THEN NoRule
        ELSE IF i.op \in {"ret", "retab"} \/ NeedsMore(i) THEN RuleForRest(text, pc_offset)
        ELSE IF i.op \notin DOMAIN offset_of_expected_autibsp THEN NoRule
        ELSE IF IsInAuthTailCall(text, pc_offset) THEN RuleFor(NothingLoaded)
        ELSE IF i.op \in {"b", "br"} /\ after_epilogue THEN RuleFor(NothingLoaded)
        ELSE NoRule

rule_from_instruction_analysis(text, pc_offset) ==
    LET rule == unwind_rule_from_detected_prologue(text, pc_offset)
    IN  IF rule # NoRule THEN rule ELSE unwind_rule_from_detected_epilogue(text, pc_offset)
=============================================================================
