----------------------------- MODULE Aarch64Dwarf -----------------------------
(***************************************************************************)
(* Walking an aarch64 stack by DWARF CFI (src/src/aarch64/dwarf.rs,        *)
(* unwind_frame_with_fde in src/src/dwarf.rs), on a stack that does not    *)
(* change.  For every frame the unwind tables may have any row, no row for *)
(* the address, or no entry at all.  A row is translated into an unwind    *)
(* rule if possible and evaluated otherwise.                               *)
(***************************************************************************)
EXTENDS Aarch64Iterator, Cfi

CONSTANT Stacks   \* contents a stack may have

ASSUME DwarfAssumption ==
    /\ {"SP", "X29", "X30"} \subseteq DwarfRegisters
    /\ Stacks \subseteq [Addresses -> StackValues \cup {Unreadable}]
    /\ 0 \in IOffsets

VARIABLE memory     \* what read_stack answers

vars == <<state, frame, regs, result, frames, memory>>

Rows == [cfa : CfaRules, fp : RegisterRules, lr : RegisterRules]

get(r) == [name \in DwarfRegisters |->
             CASE name = "SP" -> r.sp [] name = "X29" -> r.fp [] name = "X30" -> r.lr
               [] OTHER -> Unknown]

FromSp(offset, fp_rule, lr_rule) ==
    LET sp == Quotient(offset, 2 * Word)
        At(rule) == Quotient(offset + rule.offset, Word)
    IN  IF IsStored(lr_rule) /\ IsStored(fp_rule)
        THEN Fitted("OffsetSpAndRestoreFpAndLr", sp, At(lr_rule), At(fp_rule))
        ELSE IF IsStored(lr_rule) /\ IsKept(fp_rule)
        THEN Fitted("OffsetSpAndRestoreLr", sp, At(lr_rule), 0)
        ELSE IF IsKept(lr_rule) /\ IsKept(fp_rule)
        THEN Fitted(IF lr_rule.kind = "Undefined"
                    THEN "OffsetSpIfFirstFrameOtherwiseStackEndsHere" ELSE "OffsetSp", sp, 0, 0)
        ELSE NoRule

\* Mutant: the registers are looked up from fp, not from the cfa.
FromX29Uncorrected(offset, fp_rule, lr_rule) ==
    IF IsStored(lr_rule) /\ IsStored(fp_rule)
    THEN Fitted("UseFramepointerWithOffsets", Quotient(offset, Word),
                Quotient(lr_rule.offset, Word), Quotient(fp_rule.offset, Word))
    ELSE NoRule

\* The case of UseFramePointer needs no special treatment: its offsets are 2, 1 and 0.
FromX29(offset, fp_rule, lr_rule) ==
    LET At(rule) == Quotient(offset + rule.offset, Word)
    IN  IF IsStored(lr_rule) /\ IsStored(fp_rule)
        THEN Fitted("UseFramepointerWithOffsets", Quotient(offset, Word), At(lr_rule), At(fp_rule))
        ELSE NoRule

translate_into_unwind_rule(row) ==
    IF row.cfa.kind = "Expression" THEN NoRule
    ELSE IF row.cfa.register = "SP" THEN FromSp(row.cfa.offset, row.fp, row.lr)
    ELSE IF row.cfa.register = "X29" THEN FromX29(row.cfa.offset, row.fp, row.lr)
    ELSE NoRule

rule_if_uncovered_by_fde == Rule("NoOpIfFirstFrameOtherwiseFp", 2, 1, 0)

(***************************************************************************)
(* What evaluating a row gives, and whether it succeeds.                   *)
(***************************************************************************)
Cfa(row) == eval_cfa_rule(row.cfa, get(regs))
Fp(row) == eval_register_rule(row.fp, Cfa(row), regs.fp, get(regs), memory)
Lr(row) == eval_register_rule(row.lr, Cfa(row), regs.lr, get(regs), memory)

Evaluates(row) == DwarfSucceeds(is_first_frame, regs, Cfa(row), Fp(row), Lr(row))
evaluate(row) == unwind_frame_generic(regs, Cfa(row), Fp(row), Lr(row))

exec_rule(rule) ==
    \E outcome \in {exec(rule, is_first_frame, regs, memory)} : next_unwinding(outcome)

unwind_by_row(row) ==
    \E rule \in {translate_into_unwind_rule(row)} :
        \/ rule # NoRule /\ exec_rule(rule)
        \/ /\ rule = NoRule /\ Evaluates(row)
           /\ \E outcome \in {evaluate(row)} : next_unwinding(outcome)
        \/ rule = NoRule /\ ~Evaluates(row) /\ exec_rule(fallback_rule)

InitByCfi == Init /\ memory \in Stacks

(***************************************************************************)
(* A call of next; frames of modules with other unwind data have a rule.   *)
(***************************************************************************)
NextByCfi ==
    /\ \/ next_initial
       \/ next_done
       \/ \E row \in Rows : unwind_by_row(row)
       \/ exec_rule(rule_if_uncovered_by_fde)
       \/ exec_rule(fallback_rule)
       \/ \E rule \in UnwindRuleAarch64 : exec_rule(rule)
    /\ UNCHANGED memory

SpecByCfi == InitByCfi /\ [][NextByCfi]_vars /\ WF_vars(NextByCfi)

-----------------------------------------------------------------------------
(***************************************************************************)
(* The fast path and the slow path of unwind_frame are two implementations *)
(* of the same row.  Whenever both the rule a row is translated into and   *)
(* the evaluation of the row unwind the frame, they give the same          *)
(* registers, and the same return address up to its authentication bits,   *)
(* which only the rules strip.  Offsets are multiples of the units that    *)
(* the translation divides by.                                             *)
(***************************************************************************)
Aligned(row) ==
    /\ row.cfa.offset % (IF row.cfa.register = "SP" THEN 2 * Word ELSE Word) = 0
    /\ \A rule \in {row.fp, row.lr} : IsStored(rule) => rule.offset % Word = 0

Translated == {row \in Rows : translate_into_unwind_rule(row) # NoRule /\ Aligned(row)}

TranslationAgrees ==
    state = "Unwinding" =>
        \A row \in Translated :
            LET fast == exec(translate_into_unwind_rule(row), is_first_frame, regs, memory)
                slow == evaluate(row)
            IN  fast.result = "Some" /\ Evaluates(row) =>
                    fast.regs = slow.regs /\ fast.address = strip_ptr_auth(slow.address)

(***************************************************************************)
(* Every walk by CFI on an unchanging stack is a walk of Aarch64Iterator:  *)
(* the offsets of translated rules fit their 16 bits, exec reads only the  *)
(* locations of its rule, and evaluation yields addresses or nothing, so   *)
(* what holds of all walks holds of walks by CFI.                          *)
(***************************************************************************)
CfiWalksAreWalks == Init /\ [][Next]_iteratorVars
=============================================================================
