------------------------------- MODULE X86Rules -------------------------------
(***************************************************************************)
(* The x86_64 unwind rules and how they are executed                       *)
(* (src/src/x86_64/unwind_rule.rs, unwindregs.rs), and the path of         *)
(* src/src/x86_64/dwarf.rs that unwinds a frame without a rule.            *)
(*                                                                         *)
(* A rule has offsets from sp in words: sp is the distance to the caller's *)
(* stack pointer, bp is where bp is stored.  A rule that pops registers    *)
(* pops count of them, bp as number bp_index (0 if it does not).  Fields   *)
(* that a kind of rule does not have are 0.  Registers other than ip, sp   *)
(* and bp take no part in unwinding by rules.                              *)
(***************************************************************************)
EXTENDS Words, UnwindIterator

CONSTANTS
    UOffsets,   \* offsets of type u16
    IOffsets,   \* offsets of type i16
    MaxPops,    \* length of ENCODE_REGISTERS, 8 in the code
    NoRule      \* instead of a rule, where there is none for the information at hand

ASSUME OffsetsAssumption ==
    /\ UOffsets \subseteq Nat /\ 1 \in UOffsets
    /\ IOffsets \subseteq Int
    /\ \A i \in IOffsets : i * Word < AddrSpace /\ -AddrSpace < i * Word
    /\ MaxPops \in Nat

Registers == [ip : Addresses, sp : Addresses, bp : Addresses]

Rule(kind, sp) == [kind |-> kind, sp |-> sp, bp |-> 0, count |-> 0, bp_index |-> 0]

JustReturn == Rule("OffsetSp", 1)

fallback_rule == Rule("UseFramePointer", 0)

UnwindRuleX86_64 ==
    {Rule(kind, 0) : kind \in {"EndOfStack", "UseFramePointer",
                               "JustReturnIfFirstFrameOtherwiseFp"}}
    \cup {Rule("OffsetSp", sp) : sp \in UOffsets}
    \cup [kind : {"OffsetSpAndRestoreBp"}, sp : UOffsets, bp : IOffsets, count : {0},
          bp_index : {0}]
    \cup {rule \in [kind : {"OffsetSpAndPopRegisters"}, sp : UOffsets, bp : {0},
                    count : 0 .. MaxPops, bp_index : 0 .. MaxPops] :
             rule.bp_index <= rule.count}

ASSUME NoRuleAssumption == NoRule \notin UnwindRuleX86_64

Builds == {"checked", "wrapping"}   \* with and without overflow checks

Below(sp) == IF sp < Word THEN sp - Word + AddrSpace ELSE sp - Word

\* Mutant: ip keeps its value.
FinishKeepingIp(r, bp, new_sp, new_bp, memory, build) ==
    LET return_address == memory[Below(new_sp)]
    IN  IF new_sp < Word \/ return_address \in {0, Unreadable} THEN Stop("None", r)
        ELSE IF new_sp = r.sp /\ return_address = r.ip THEN Stop("DidNotAdvance", r)
        ELSE Unwound(return_address, [ip |-> r.ip, sp |-> new_sp, bp |-> new_bp])

\* Mutant: every rule has to move sp up.
FinishHigher(r, bp, new_sp, new_bp, memory, build) ==
    LET return_address == memory[Below(new_sp)]
    IN  IF return_address \in {0, Unreadable} THEN Stop("None", r)
        ELSE IF new_sp <= r.sp THEN Stop("DidNotAdvance", r)
        ELSE Unwound(return_address, [ip |-> return_address, sp |-> new_sp, bp |-> new_bp])

\* Mutant: a null return address is a return address like any other.
FinishAtNull(r, bp, new_sp, new_bp, memory, build) ==
    LET return_address == memory[Below(new_sp)]
    IN  IF return_address = Unreadable THEN Stop("CouldNotReadStack", [r EXCEPT !.bp = bp])
        ELSE Unwound(return_address, [ip |-> return_address, sp |-> new_sp, bp |-> new_bp])

(***************************************************************************)
(* The end of exec: r has the registers at the start of exec, bp may have  *)
(* been popped since.  The subtraction is unchecked: with new_sp below one *)
(* word it panics in a build with overflow checks and wraps in others.     *)
(***************************************************************************)
Finish(r, bp, new_sp, new_bp, memory, build) ==
    LET popped == [r EXCEPT !.bp = bp]
        return_address == memory[Below(new_sp)]
    IN  IF new_sp < Word /\ build = "checked" THEN Stop("Panic", popped)
        ELSE IF return_address = Unreadable THEN Stop("CouldNotReadStack", popped)
        ELSE IF return_address = 0 THEN Stop("None", popped)
        ELSE IF new_sp = r.sp /\ return_address = r.ip THEN Stop("DidNotAdvance", popped)
        ELSE Unwound(return_address, [ip |-> return_address, sp |-> new_sp, bp |-> new_bp])

\* Mutant: sp may be one past the last address.
OffsetToTheEnd(rule, r, memory, build) ==
    IF r.sp + rule.sp * Word > AddrSpace THEN Stop("IntegerOverflow", r)
    ELSE Finish(r, r.bp, r.sp + rule.sp * Word, r.bp, memory, build)

exec_offset(rule, r, memory, build) ==
    LET new_sp == checked_add(r.sp, rule.sp * Word)
    IN  IF new_sp = Overflow THEN Stop("IntegerOverflow", r)
        ELSE Finish(r, r.bp, new_sp, r.bp, memory, build)

\* The first frame keeps bp when it is stored below sp and cannot be read.
exec_restore_bp(rule, first, r, memory, build) ==
    LET new_sp == checked_add(r.sp, rule.sp * Word)
        location == checked_add_signed(r.sp, rule.bp * Word)
        lost == memory[location] = Unreadable
    IN  IF new_sp = Overflow \/ location = Overflow THEN Stop("IntegerOverflow", r)
        ELSE IF lost /\ ~(first /\ location < r.sp) THEN Stop("CouldNotReadStack", r)
        ELSE Finish(r, r.bp, new_sp, IF lost THEN r.bp ELSE memory[location], memory, build)

exec_frame_pointer(r, memory, build) ==
    LET new_sp == checked_add(r.bp, 2 * Word)
    IN  IF new_sp = Overflow THEN Stop("IntegerOverflow", r)
        ELSE IF new_sp <= r.sp THEN Stop("FramepointerUnwindingMovedBackwards", r)
        ELSE IF memory[r.bp] = Unreadable THEN Stop("CouldNotReadStack", r)
        ELSE Finish(r, r.bp, new_sp, memory[r.bp], memory, build)

\* Mutant: sp is stored before the pops, so an error leaves it changed.
PopAfterMovingSp(rule, r, memory, build) ==
    LET start == checked_add(r.sp, rule.sp * Word)
        new_sp == checked_add(start, (rule.count + 1) * Word)
    IN  IF start = Overflow THEN Stop("IntegerOverflow", r)
        ELSE IF new_sp = Overflow THEN Stop("IntegerOverflow", [r EXCEPT !.sp = start])
        ELSE Finish(r, r.bp, new_sp, r.bp, memory, build)

(***************************************************************************)
(* Each pop reads a word, steps over it and sets the register, so that an  *)
(* error leaves the registers popped so far changed.                       *)
(***************************************************************************)
exec_pop(rule, r, memory, build) ==
    LET start == checked_add(r.sp, rule.sp * Word)
        Slot(i) == start + (i - 1) * Word
        CanPop(i) == memory[Slot(i)] # Unreadable /\ start + i * Word < AddrSpace
        Popped(i) == \A j \in 1 .. i : CanPop(j)
        bp == IF rule.bp_index # 0 /\ Popped(rule.bp_index)
              THEN memory[Slot(rule.bp_index)] ELSE r.bp
        new_sp == checked_add(start, (rule.count + 1) * Word)
    IN  IF start = Overflow THEN Stop("IntegerOverflow", r)
        ELSE IF \E i \in 1 .. rule.count : Popped(i - 1) /\ memory[Slot(i)] = Unreadable
             THEN Stop("CouldNotReadStack", [r EXCEPT !.bp = bp])
        ELSE IF new_sp = Overflow THEN Stop("IntegerOverflow", [r EXCEPT !.bp = bp])
        ELSE Finish(r, bp, new_sp, bp, memory, build)

exec(rule, first, r, memory, build) ==
    CASE rule.kind = "EndOfStack" -> Stop("None", r)
      [] rule.kind = "OffsetSp" -> exec_offset(rule, r, memory, build)
      [] rule.kind = "JustReturnIfFirstFrameOtherwiseFp" ->
            IF first THEN exec_offset(JustReturn, r, memory, build)
            ELSE exec_frame_pointer(r, memory, build)
      [] rule.kind = "OffsetSpAndRestoreBp" -> exec_restore_bp(rule, first, r, memory, build)
      [] rule.kind = "UseFramePointer" ->
            IF r.bp = 0 THEN Stop("None", r) ELSE exec_frame_pointer(r, memory, build)
      [] rule.kind = "OffsetSpAndPopRegisters" -> exec_pop(rule, r, memory, build)

\* Mutant: no check against a lower stack pointer.
GenericBackwards(first, r, cfa, bp, ra, memory, build) ==
    LET return_address == IF ra = Unknown THEN memory[Below(cfa)] ELSE ra
        new_bp == IF bp = Unknown THEN r.bp ELSE bp
    IN  IF cfa # Unknown /\ ra = Unknown /\ cfa < Word /\ build = "checked" THEN Stop("Panic", r)
        ELSE IF \/ cfa = Unknown
                \/ return_address = Unreadable
                \/ cfa = r.sp /\ return_address = r.ip
             THEN exec(fallback_rule, first, r, memory, build)
        ELSE Unwound(return_address, [ip |-> return_address, sp |-> cfa, bp |-> new_bp])

(***************************************************************************)
(* The generic DWARF path: cfa, bp and ra are what evaluating the CFA rule *)
(* and the register rules gives, or Unknown; the return address is then    *)
(* read below the cfa.  Its errors leave the registers alone and make      *)
(* with_cache execute the fallback rule.                                   *)
(***************************************************************************)
unwind_frame_generic(first, r, cfa, bp, ra, memory, build) ==
    LET return_address == IF ra = Unknown THEN memory[Below(cfa)] ELSE ra
        new_bp == IF bp = Unknown THEN r.bp ELSE bp
    IN  IF cfa # Unknown /\ ra = Unknown /\ cfa < Word /\ build = "checked" THEN Stop("Panic", r)
        ELSE IF \/ cfa = Unknown
                \/ return_address = Unreadable
                \/ cfa = r.sp /\ return_address = r.ip
                \/ ~first /\ cfa < r.sp
             THEN exec(fallback_rule, first, r, memory, build)
        ELSE Unwound(return_address, [ip |-> return_address, sp |-> cfa, bp |-> new_bp])
=============================================================================
