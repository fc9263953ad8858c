------------------------------- MODULE X86Dwarf -------------------------------
(***************************************************************************)
(* Walking an x86_64 stack by DWARF CFI (src/src/x86_64/dwarf.rs,          *)
(* unwind_frame_with_fde in src/src/dwarf.rs).  For every frame the unwind *)
(* tables may have any row, no row for the address, or no entry at all.  A *)
(* row is translated into an unwind rule if possible and evaluated         *)
(* otherwise.                                                              *)
(***************************************************************************)
EXTENDS X86Iterator, Cfi

ASSUME RegistersAssumption == {"RA", "RSP", "RBP"} \subseteq DwarfRegisters

Rows == [cfa : CfaRules, bp : RegisterRules, ra : RegisterRules]

get(r) == [name \in DwarfRegisters |->
             CASE name = "RA" -> r.ip [] name = "RSP" -> r.sp [] name = "RBP" -> r.bp
               [] OTHER -> Unknown]

FromSp(cfa_offset, bp_rule) ==
    LET sp == Quotient(cfa_offset, Word)
        bp == Quotient(cfa_offset + bp_rule.offset, Word)
    IN  IF sp \notin UOffsets THEN NoRule
        ELSE IF IsKept(bp_rule) THEN Rule("OffsetSp", sp)
        ELSE IF IsStored(bp_rule) /\ bp \in IOffsets
             THEN [kind |-> "OffsetSpAndRestoreBp", sp |-> sp, bp |-> bp, count |-> 0,
                   bp_index |-> 0]
        ELSE NoRule

\* Mutant: bp may be stored anywhere.
FromBpAnywhere(cfa_offset, bp_rule) ==
    IF IsStored(bp_rule) /\ cfa_offset = 2 * Word THEN Rule("UseFramePointer", 0) ELSE NoRule

FromBp(cfa_offset, bp_rule) ==
    IF IsStored(bp_rule) /\ cfa_offset = 2 * Word /\ bp_rule.offset = -2 * Word
    THEN Rule("UseFramePointer", 0) ELSE NoRule

translate_into_unwind_rule(row) ==
    IF row.ra.kind = "Undefined" THEN Rule("EndOfStack", 0)
    ELSE IF ~IsStored(row.ra) \/ row.cfa.kind = "Expression" THEN NoRule
    ELSE IF row.ra.offset # -Word THEN NoRule
    ELSE IF row.cfa.register = "RSP" THEN FromSp(row.cfa.offset, row.bp)
    ELSE IF row.cfa.register = "RBP" THEN FromBp(row.cfa.offset, row.bp)
    ELSE NoRule

evaluate(row, first, r, stack, build) ==
    LET cfa == eval_cfa_rule(row.cfa, get(r))
        bp == eval_register_rule(row.bp, cfa, r.bp, get(r), stack)
        ra == eval_register_rule(row.ra, cfa, r.ip, get(r), stack)
    IN  unwind_frame_generic(first, r, cfa, bp, ra, stack, build)

rule_if_uncovered_by_fde == Rule("JustReturnIfFirstFrameOtherwiseFp", 0)

unwind_by_row(row, build) ==
    LET rule == translate_into_unwind_rule(row)
    IN  \/ rule # NoRule /\ unwind_by(rule, build)
        \/ /\ rule = NoRule /\ frames < MaxFrames
           /\ next_unwinding(evaluate(row, is_first_frame, regs, memory, build))

NextByCfi ==
    /\ \/ next_initial
       \/ next_done
       \/ \E row \in Rows, build \in Builds : unwind_by_row(row, build)
       \/ \E build \in Builds : unwind_by(rule_if_uncovered_by_fde, build)
       \/ \E build \in Builds : unwind_by(fallback_rule, build)
    /\ UNCHANGED memory

SpecByCfi == Init /\ [][NextByCfi]_vars

-----------------------------------------------------------------------------
(***************************************************************************)
(* The fast path and the slow path of unwind_frame are two implementations *)
(* of the same row.  When the rule a row is translated into unwinds the    *)
(* frame, evaluating the row gives the same return address and the same    *)
(* registers.  Offsets are multiples of the word size, as the quotients of *)
(* the translation need, and the stack is in the lower half of the address *)
(* space, as the sums of the evaluation need.                              *)
(***************************************************************************)
Aligned(row) ==
    /\ row.cfa.offset % Word = 0
    /\ IsStored(row.bp) => row.bp.offset % Word = 0

Translated ==
    {row \in Rows : /\ translate_into_unwind_rule(row) \notin {NoRule, Rule("EndOfStack", 0)}
                    /\ Aligned(row)}

TranslationAgrees ==
    state = "Unwinding" =>
        \A row \in Translated, build \in Builds :
            LET rule == translate_into_unwind_rule(row)
                fast == exec(rule, is_first_frame, regs, memory, build)
            IN  /\ fast.result = "Some" /\ fast.regs.sp < Half
                => fast = evaluate(row, is_first_frame, regs, memory, build)

(***************************************************************************)
(* Conversely, a row that counts from the stack pointer and whose saved bp *)
(* can be read is not unwound worse by its rule: what evaluating the row   *)
(* yields (and not the fallback rule after it), executing the rule yields. *)
(***************************************************************************)
TranslationIsComplete ==
    state = "Unwinding" =>
        \A row \in Translated, build \in Builds :
            LET rule == translate_into_unwind_rule(row)
                slow == evaluate(row, is_first_frame, regs, memory, build)
                cfa == eval_cfa_rule(row.cfa, get(regs))
            IN  /\ row.cfa.register = "RSP" /\ cfa # Unknown
                /\ IsKept(row.bp) \/ ReadAt(SignedSum(cfa, row.bp.offset), memory) # Unknown
                /\ slow.result = "Some" /\ slow.address # 0
                /\ slow # exec(fallback_rule, is_first_frame, regs, memory, build)
                => slow = exec(rule, is_first_frame, regs, memory, build)

(***************************************************************************)
(* Every walk by CFI is a walk of X86Iterator: the offsets of translated   *)
(* rules fit their 16 bits, and evaluation yields addresses or nothing, so *)
(* what holds of all walks holds of walks by CFI.                          *)
(***************************************************************************)
CfiWalksAreWalks == Spec
=============================================================================
