----------------------------- MODULE Aarch64Rules -----------------------------
(***************************************************************************)
(* The aarch64 unwind rules and how they are executed                      *)
(* (src/src/aarch64/unwind_rule.rs, unwindregs.rs), and the path of        *)
(* src/src/aarch64/dwarf.rs that unwinds a frame without a rule.           *)
(*                                                                         *)
(* A rule has its offsets from sp (or from fp) in units: sp is the         *)
(* distance to the caller's stack pointer, lr and fp are where those       *)
(* registers are stored.  Fields that a kind of rule does not have are 0.  *)
(* UseFramePointer is the rule whose offsets from fp are 2, 1 and 0.       *)
(***************************************************************************)
EXTENDS Words, UnwindIterator

CONSTANTS
    UOffsets,   \* offsets of type u16
    IOffsets,   \* offsets of type i16
    mask,       \* the PtrAuthMask of the registers, as a power of two
    NoRule      \* no rule: an Err or a None where a rule could be

ASSUME OffsetsAssumption ==
    /\ UOffsets \subseteq Nat
    /\ IOffsets \subseteq Int
    /\ \A i \in IOffsets : i * Word < AddrSpace /\ -AddrSpace < i * Word
    /\ mask \in 1 .. AddrSpace

Registers == [lr : Addresses, sp : Addresses, fp : Addresses]

Kinds == {"NoOp", "NoOpIfFirstFrameOtherwiseFp", "OffsetSp",
          "OffsetSpIfFirstFrameOtherwiseStackEndsHere", "OffsetSpAndRestoreLr",
          "OffsetSpAndRestoreFpAndLr", "UseFramepointerWithOffsets"}

Rule(kind, sp, lr, fp) == [kind |-> kind, sp |-> sp, lr |-> lr, fp |-> fp]

UseFramePointer == Rule("UseFramepointerWithOffsets", 2, 1, 0)

UnwindRuleAarch64 ==
    {Rule("NoOp", 0, 0, 0), Rule("NoOpIfFirstFrameOtherwiseFp", 2, 1, 0), UseFramePointer}
    \cup [kind : {"OffsetSp", "OffsetSpIfFirstFrameOtherwiseStackEndsHere"},
          sp : UOffsets, lr : {0}, fp : {0}]
    \cup [kind : {"OffsetSpAndRestoreLr"}, sp : UOffsets, lr : IOffsets, fp : {0}]
    \cup [kind : {"OffsetSpAndRestoreFpAndLr", "UseFramepointerWithOffsets"},
          sp : UOffsets, lr : IOffsets, fp : IOffsets]

ASSUME NoRuleAssumption == NoRule \notin UnwindRuleAarch64

(***************************************************************************)
(* A rule whose offsets have been converted to 16 bits, or no rule if they *)
(* do not fit.                                                             *)
(***************************************************************************)
Fitted(kind, sp, lr, fp) ==
    IF sp \in UOffsets /\ lr \in IOffsets /\ fp \in IOffsets
    THEN Rule(kind, sp, lr, fp) ELSE NoRule

fallback_rule == UseFramePointer

strip_ptr_auth(ptr) == ptr % mask

(***************************************************************************)
(* Where a rule's offsets count from, and in which unit that of sp counts. *)
(***************************************************************************)
FromFp(rule) == rule.kind \in {"NoOpIfFirstFrameOtherwiseFp", "UseFramepointerWithOffsets"}
Base(rule, r) == IF FromFp(rule) THEN r.fp ELSE r.sp
SpUnit(rule) == IF FromFp(rule) THEN Word ELSE 2 * Word

NewSpUnchecked(rule, r) == Base(rule, r) + rule.sp * SpUnit(rule)   \* Mutant: no check.

NewSp(rule, r) == checked_add(Base(rule, r), rule.sp * SpUnit(rule))
LrLocation(rule, r) == checked_add_signed(Base(rule, r), rule.lr * Word)
FpLocation(rule, r) == checked_add_signed(Base(rule, r), rule.fp * Word)

ReadsLr(rule, first) ==
    \/ rule.kind \in {"OffsetSpAndRestoreLr", "OffsetSpAndRestoreFpAndLr",
                      "UseFramepointerWithOffsets"}
    \/ rule.kind = "NoOpIfFirstFrameOtherwiseFp" /\ ~first
ReadsFp(rule, first) == ReadsLr(rule, first) /\ rule.kind # "OffsetSpAndRestoreLr"

ReadLocations(rule, first, r) ==
    {a \in Addresses : \/ ReadsLr(rule, first) /\ a = LrLocation(rule, r)
                       \/ ReadsFp(rule, first) /\ a = FpLocation(rule, r)}

(***************************************************************************)
(* The end of exec, once the new register values are known.                *)
(***************************************************************************)
Finish(first, r, new_lr, new_sp, new_fp) ==
    LET return_address == strip_ptr_auth(new_lr)
    IN  IF return_address = 0 THEN Stop("None", r)
        ELSE IF ~first /\ new_sp = r.sp THEN Stop("DidNotAdvance", r)
        ELSE Unwound(return_address, [lr |-> return_address, sp |-> new_sp, fp |-> new_fp])

(***************************************************************************)
(* stack is what read_stack answers at the rule's ReadLocations.           *)
(***************************************************************************)
exec(rule, first, r, stack) ==
    LET new_sp == NewSp(rule, r)
        lr_at == LrLocation(rule, r)
        fp_at == FpLocation(rule, r)
        reads_lr == ReadsLr(rule, first)
        reads_fp == ReadsFp(rule, first)
        new_lr == IF reads_lr THEN stack[lr_at] ELSE r.lr
        new_fp == IF reads_fp THEN stack[fp_at] ELSE r.fp
        checks_fp == rule.kind = "UseFramepointerWithOffsets"
    IN  IF ~first /\ rule.kind \in {"NoOp", "OffsetSp"} THEN Stop("DidNotAdvance", r)
        ELSE IF ~first /\ rule.kind = "OffsetSpIfFirstFrameOtherwiseStackEndsHere"
             THEN Stop("None", r)
        ELSE IF first /\ rule.kind = "NoOpIfFirstFrameOtherwiseFp"
             THEN Finish(first, r, r.lr, r.sp, r.fp)
        ELSE IF new_sp = Overflow \/ (reads_lr /\ lr_at = Overflow)
             THEN Stop("IntegerOverflow", r)
        ELSE IF reads_lr /\ new_lr = Unreadable THEN Stop("CouldNotReadStack", r)
        ELSE IF reads_fp /\ fp_at = Overflow THEN Stop("IntegerOverflow", r)
        ELSE IF reads_fp /\ new_fp = Unreadable THEN Stop("CouldNotReadStack", r)
        ELSE IF checks_fp /\ new_fp = 0 THEN Stop("None", r)
        ELSE IF (FromFp(rule) /\ new_sp <= r.sp) \/ (checks_fp /\ new_fp <= r.fp)
             THEN Stop("FramepointerUnwindingMovedBackwards", r)
        ELSE Finish(first, r, new_lr, new_sp, new_fp)

(***************************************************************************)
(* The generic DWARF path: cfa, fp and lr are what evaluating the CFA rule *)
(* and the register rules gives, or Unknown.  The first frame keeps a      *)
(* register it cannot recover.  The return address is not stripped.        *)
(***************************************************************************)
DwarfSucceedsAtSp(first, r, cfa, fp, lr) ==   \* Mutant: the cfa may be sp.
    cfa # Unknown /\ (first \/ (cfa >= r.sp /\ fp # Unknown /\ lr # Unknown))

DwarfSucceeds(first, r, cfa, fp, lr) ==
    cfa # Unknown /\ (first \/ (cfa > r.sp /\ fp # Unknown /\ lr # Unknown))

unwind_frame_generic(r, cfa, fp, lr) ==
    LET new_fp == IF fp = Unknown THEN r.fp ELSE fp
        new_lr == IF lr = Unknown THEN r.lr ELSE lr
    IN  Unwound(new_lr, [lr |-> strip_ptr_auth(new_lr), sp |-> cfa, fp |-> new_fp])
=============================================================================
