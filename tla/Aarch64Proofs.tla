---------------------------- MODULE Aarch64Proofs -----------------------------
(***************************************************************************)
(* Proofs about Aarch64Iterator, for every address width, offset range,    *)
(* mask and set of stack values; and about Aarch64Dwarf: every walk of an  *)
(* aarch64 stack by CFI is one of the walks of Aarch64Iterator, so that    *)
(* the theorems about those hold of it too.                                *)
(***************************************************************************)
EXTENDS Aarch64Dwarf, WordsProofs

LEMMA StripTyped == ASSUME NEW ptr \in Addresses PROVE strip_ptr_auth(ptr) \in Addresses
  BY WordsAssumption, OffsetsAssumption DEF strip_ptr_auth, Addresses

(***************************************************************************)
(* What exec may do to the registers: nothing unless it returns an         *)
(* address, and then past the first frame the stack pointer has grown.     *)
(***************************************************************************)
Sound(o, kind, r) ==
    /\ o.regs \in Registers
    /\ o.address \in Addresses
    /\ o.result \in {"Some", "None"} \cup Errors
    /\ o.result = "Some" /\ kind # "InstructionPointer" => o.regs.sp > r.sp
    /\ o.result # "Some" => o.regs = r

LEMMA StopSound ==
    ASSUME NEW r \in Registers, NEW kind, NEW reason \in {"None"} \cup Errors
    PROVE  Sound(Stop(reason, r), kind, r)
  BY WordsAssumption DEF Sound, Stop, Addresses, Errors

LEMMA FinishSound ==
    ASSUME NEW kind, NEW r \in Registers, NEW new_lr \in Addresses,
           NEW new_sp \in Addresses, NEW new_fp \in Addresses,
           kind # "InstructionPointer" => new_sp >= r.sp
    PROVE  Sound(Finish(kind = "InstructionPointer", r, new_lr, new_sp, new_fp), kind, r)
<1> DEFINE ra == strip_ptr_auth(new_lr)
           new_regs == [lr |-> ra, sp |-> new_sp, fp |-> new_fp]
           o == Finish(kind = "InstructionPointer", r, new_lr, new_sp, new_fp)
<1>1. ra \in Addresses
  BY StripTyped
<1>2. CASE ra = 0
  BY <1>2, StopSound DEF Finish
<1>3. CASE ra # 0 /\ kind # "InstructionPointer" /\ new_sp = r.sp
  BY <1>3, StopSound DEF Finish, Errors
<1>4. CASE ra # 0 /\ (kind = "InstructionPointer" \/ new_sp # r.sp)
  <2>1. o = Unwound(ra, new_regs)
    BY <1>4 DEF Finish
  <2>2. new_regs \in Registers /\ new_regs.sp = new_sp
    BY <1>1 DEF Registers
  <2>3. kind # "InstructionPointer" => new_sp > r.sp
    BY <1>4 DEF Registers, Addresses
  <2> HIDE DEF new_regs, ra
  <2> QED
    BY <1>1, <2>1, <2>2, <2>3 DEF Sound, Unwound
<1> QED
  BY <1>2, <1>3, <1>4

Fits(i) == i \in Int /\ -AddrSpace < i * Word /\ i * Word < AddrSpace

LEMMA RuleFields ==
    ASSUME NEW rule \in UnwindRuleAarch64
    PROVE  rule.sp \in Nat /\ Fits(rule.lr) /\ Fits(rule.fp) /\ rule.kind \in Kinds
<1>1. Fits(0) /\ Fits(1) /\ \A i \in IOffsets : Fits(i)
  BY WordsAssumption, OffsetsAssumption DEF Fits
<1> HIDE DEF Fits
<1>2. CASE rule \in {Rule("NoOp", 0, 0, 0), Rule("NoOpIfFirstFrameOtherwiseFp", 2, 1, 0),
                     UseFramePointer}
  BY <1>1, <1>2 DEF Rule, UseFramePointer, Kinds
<1>3. CASE rule \in [kind : {"OffsetSp", "OffsetSpIfFirstFrameOtherwiseStackEndsHere"},
                     sp : UOffsets, lr : {0}, fp : {0}]
  BY <1>1, <1>3, OffsetsAssumption DEF Kinds
<1>4. CASE rule \in [kind : {"OffsetSpAndRestoreLr"}, sp : UOffsets, lr : IOffsets, fp : {0}]
  BY <1>1, <1>4, OffsetsAssumption DEF Kinds
<1>5. CASE rule \in [kind : {"OffsetSpAndRestoreFpAndLr", "UseFramepointerWithOffsets"},
                     sp : UOffsets, lr : IOffsets, fp : IOffsets]
  BY <1>1, <1>5, OffsetsAssumption DEF Kinds
<1> QED
  BY <1>2, <1>3, <1>4, <1>5 DEF UnwindRuleAarch64

LEMMA LocationTyped ==
    ASSUME NEW a \in Addresses, NEW i, Fits(i)
    PROVE  checked_add_signed(a, i * Word) \in Addresses \cup {Overflow}
<1>1. i * Word \in Int
  BY WordsAssumption DEF Fits
<1> QED
  BY <1>1, CheckedAddSigned DEF Fits

LEMMA NewSpBound ==
    ASSUME NEW rule \in UnwindRuleAarch64, NEW r \in Registers
    PROVE  /\ NewSp(rule, r) \in Addresses \cup {Overflow}
           /\ NewSp(rule, r) # Overflow /\ ~FromFp(rule) => NewSp(rule, r) >= r.sp
<1>1. Base(rule, r) \in Addresses
  BY DEF Base, Registers
<1>2. SpUnit(rule) \in Nat
  BY WordsAssumption DEF SpUnit
<1>3. rule.sp * SpUnit(rule) \in Nat
  BY <1>2, RuleFields
<1>4. ~FromFp(rule) => Base(rule, r) = r.sp
  BY DEF Base
<1>5. r.sp \in Int
  BY DEF Registers, Addresses
<1> HIDE DEF Base, SpUnit
<1> QED
  BY <1>1, <1>3, <1>4, <1>5, CheckedAdd DEF NewSp, Addresses

LEMMA ExecSound ==
    ASSUME NEW rule \in UnwindRuleAarch64, NEW kind, NEW r \in Registers,
           NEW stack \in Answers(ReadLocations(rule, kind = "InstructionPointer", r))
    PROVE  Sound(exec(rule, kind = "InstructionPointer", r, stack), kind, r)
<1> DEFINE first == kind = "InstructionPointer"
           new_sp == NewSp(rule, r)
           lr_at == LrLocation(rule, r)
           fp_at == FpLocation(rule, r)
           reads_lr == ReadsLr(rule, first)
           reads_fp == ReadsFp(rule, first)
           new_lr == IF reads_lr THEN stack[lr_at] ELSE r.lr
           new_fp == IF reads_fp THEN stack[fp_at] ELSE r.fp
<1>1. new_sp \in Addresses \cup {Overflow} /\ (new_sp # Overflow /\ ~FromFp(rule) => new_sp >= r.sp)
  BY NewSpBound
<1>2. r.sp \in Addresses /\ r.lr \in Addresses /\ r.fp \in Addresses
  BY DEF Registers
<1>3. \A a \in ReadLocations(rule, first, r) : stack[a] \in Addresses \cup {Unreadable}
  BY WalkAssumption DEF Answers
<1>4. ASSUME reads_lr, lr_at \in Addresses PROVE lr_at \in ReadLocations(rule, first, r)
  BY <1>4 DEF ReadLocations
<1>5. ASSUME reads_fp, fp_at \in Addresses PROVE fp_at \in ReadLocations(rule, first, r)
  BY <1>5 DEF ReadLocations
<1>6. lr_at \in Addresses \cup {Overflow} /\ fp_at \in Addresses \cup {Overflow}
  <2>1. Base(rule, r) \in Addresses
    BY <1>2 DEF Base
  <2> QED
    BY <2>1, RuleFields, LocationTyped DEF LrLocation, FpLocation
<1>7. reads_lr /\ lr_at # Overflow => stack[lr_at] \in Addresses \cup {Unreadable}
  BY <1>3, <1>4, <1>6
<1>8. reads_fp /\ fp_at # Overflow => stack[fp_at] \in Addresses \cup {Unreadable}
  BY <1>3, <1>5, <1>6
<1>9. CASE first /\ rule.kind = "NoOpIfFirstFrameOtherwiseFp"
  <2>1. exec(rule, first, r, stack) = Finish(first, r, r.lr, r.sp, r.fp)
    BY <1>9 DEF exec
  <2> QED
    BY <2>1, <1>2, <1>9, FinishSound
<1>10. CASE ~(first /\ rule.kind = "NoOpIfFirstFrameOtherwiseFp")
  <2> DEFINE o == exec(rule, first, r, stack)
             refused == ~first /\ rule.kind \in {"NoOp", "OffsetSp"}
             ends == ~first /\ rule.kind = "OffsetSpIfFirstFrameOtherwiseStackEndsHere"
             checks_fp == rule.kind = "UseFramepointerWithOffsets"
             overflows == new_sp = Overflow \/ (reads_lr /\ lr_at = Overflow)
             backwards == \/ FromFp(rule) /\ new_sp <= r.sp
                          \/ checks_fp /\ new_fp <= r.fp
  <2>1. o = IF refused THEN Stop("DidNotAdvance", r)
            ELSE IF ends THEN Stop("None", r)
            ELSE IF overflows THEN Stop("IntegerOverflow", r)
            ELSE IF reads_lr /\ new_lr = Unreadable THEN Stop("CouldNotReadStack", r)
            ELSE IF reads_fp /\ fp_at = Overflow THEN Stop("IntegerOverflow", r)
            ELSE IF reads_fp /\ new_fp = Unreadable THEN Stop("CouldNotReadStack", r)
            ELSE IF checks_fp /\ new_fp = 0 THEN Stop("None", r)
            ELSE IF backwards THEN Stop("FramepointerUnwindingMovedBackwards", r)
            ELSE Finish(first, r, new_lr, new_sp, new_fp)
    BY <1>10 DEF exec
  <2>2. \A reason \in {"None", "DidNotAdvance", "IntegerOverflow", "CouldNotReadStack",
                      "FramepointerUnwindingMovedBackwards"} :
           Sound(Stop(reason, r), kind, r)
    BY StopSound DEF Errors
  <2>3. ASSUME ~overflows, ~(reads_lr /\ new_lr = Unreadable), ~(reads_fp /\ fp_at = Overflow),
               ~(reads_fp /\ new_fp = Unreadable), ~backwards
        PROVE  Sound(Finish(first, r, new_lr, new_sp, new_fp), kind, r)
    <3>1. new_lr \in Addresses /\ new_fp \in Addresses /\ new_sp \in Addresses
      BY <2>3, <1>1, <1>2, <1>7, <1>8
    <3>2. new_sp >= r.sp
      BY <2>3, <3>1, <1>1, <1>2 DEF Addresses
    <3> HIDE DEF new_lr, new_fp, new_sp
    <3> QED
      BY <3>1, <3>2, FinishSound
  <2> HIDE DEF o, refused, ends, checks_fp, overflows, backwards, new_lr, new_fp, new_sp, lr_at,
               fp_at, reads_lr, reads_fp
  <2>4. Sound(o, kind, r)
    BY <2>1, <2>2, <2>3
  <2> QED
    BY <2>4 DEF o
<1> QED
  BY <1>9, <1>10

(***************************************************************************)
(* The generic DWARF path keeps the same promises.                         *)
(***************************************************************************)
LEMMA GenericSound ==
    ASSUME NEW kind, NEW r \in Registers, NEW cfa \in Values,
           NEW fp \in StackValues \cup {Unknown}, NEW lr \in StackValues \cup {Unknown},
           DwarfSucceeds(kind = "InstructionPointer", r, cfa, fp, lr)
    PROVE  Sound(unwind_frame_generic(r, cfa, fp, lr), kind, r)
<1> DEFINE new_fp == IF fp = Unknown THEN r.fp ELSE fp
           new_lr == IF lr = Unknown THEN r.lr ELSE lr
           new_regs == [lr |-> strip_ptr_auth(new_lr), sp |-> cfa, fp |-> new_fp]
<1>1. new_fp \in Addresses /\ new_lr \in Addresses
  BY WalkAssumption DEF Registers
<1>2. cfa \in Addresses /\ (kind # "InstructionPointer" => cfa > r.sp)
  BY DEF DwarfSucceeds, Values, Unreadable, Unknown
<1>3. strip_ptr_auth(new_lr) \in Addresses
  BY <1>1, StripTyped
<1>4. new_regs \in Registers /\ new_regs.sp = cfa
  BY <1>1, <1>2, <1>3 DEF Registers
<1>5. unwind_frame_generic(r, cfa, fp, lr) = Unwound(new_lr, new_regs)
  BY DEF unwind_frame_generic
<1> HIDE DEF new_fp, new_lr, new_regs
<1> QED
  BY <1>1, <1>2, <1>4, <1>5 DEF Sound, Unwound

(***************************************************************************)
(* The inductive invariant: before the first call no frame has been        *)
(* yielded, and the bound holds.                                           *)
(***************************************************************************)
WalkInv ==
    /\ TypeOK
    /\ FramesBounded
    /\ state = "Initial" => frames = 0 /\ frame.kind = "InstructionPointer"

Advances == frames' > frames /\ frame.kind = "ReturnAddress" => regs'.sp > regs.sp

LEMMA UnwindStep ==
    ASSUME WalkInv, NEW o, Sound(o, frame.kind, regs), next_unwinding(o)
    PROVE  WalkInv' /\ Advances
<1> USE DEF WalkInv, TypeOK
<1>1. /\ state = "Unwinding" /\ regs' = o.regs
      /\ regs.sp \in Nat /\ regs'.sp \in Nat /\ regs' \in Registers
  BY DEF next_unwinding, Sound, Registers, Addresses
<1>2. CASE /\ o.result = "Some" /\ o.address # 0
           /\ frame' = [kind |-> "ReturnAddress", address |-> o.address]
           /\ result' = "Some" /\ frames' = frames + 1 /\ UNCHANGED state
  <2>1. TypeOK'
    BY <1>1, <1>2 DEF Sound, IteratorResults
  <2>2. frame.kind = "ReturnAddress" => regs'.sp > regs.sp
    BY <1>1, <1>2 DEF Sound
  <2>3. frames + 1 <= regs'.sp + 2
    BY <1>1, <2>2 DEF FramesBounded
  <2> QED
    BY <1>1, <1>2, <2>1, <2>2, <2>3 DEF FramesBounded, Advances
<1>3. CASE /\ result' \in {"None"} \cup Errors
           /\ state' \in {state, "Done"} /\ UNCHANGED <<frame, frames>>
  <2>1. TypeOK'
    BY <1>1, <1>3 DEF IteratorResults
  <2>2. frame.kind = "ReturnAddress" => regs'.sp >= regs.sp
    BY <1>1 DEF Sound
  <2> QED
    BY <1>1, <1>3, <2>1, <2>2 DEF FramesBounded, Advances
<1> QED
  BY <1>2, <1>3 DEF next_unwinding, Errors

LEMMA WalkStep == ASSUME WalkInv, [Next]_iteratorVars PROVE WalkInv' /\ Advances
<1>1. CASE next_initial
  BY <1>1 DEF next_initial, WalkInv, TypeOK, FramesBounded, Advances, IteratorResults
<1>2. CASE next_done
  BY <1>2 DEF next_done, WalkInv, TypeOK, FramesBounded, Advances, IteratorResults
<1>3. ASSUME NEW rule \in UnwindRuleAarch64, unwind_by(rule) PROVE WalkInv' /\ Advances
  <2>1. PICK stack \in Answers(ReadLocations(rule, is_first_frame, regs)) :
           next_unwinding(exec(rule, is_first_frame, regs, stack))
    BY <1>3 DEF unwind_by
  <2>2. Sound(exec(rule, is_first_frame, regs, stack), frame.kind, regs)
    BY ExecSound DEF is_first_frame, WalkInv, TypeOK
  <2> QED
    BY <2>1, <2>2, UnwindStep
<1>4. ASSUME NEW cfa \in Values, NEW fp \in StackValues \cup {Unknown},
             NEW lr \in StackValues \cup {Unknown}, unwind_generically(cfa, fp, lr)
      PROVE  WalkInv' /\ Advances
  <2>1. Sound(unwind_frame_generic(regs, cfa, fp, lr), frame.kind, regs)
    BY <1>4, GenericSound DEF unwind_generically, is_first_frame, WalkInv, TypeOK
  <2> QED
    BY <1>4, <2>1, UnwindStep DEF unwind_generically
<1>5. fallback_rule \in UnwindRuleAarch64
  BY DEF fallback_rule, UnwindRuleAarch64
<1>6. CASE UNCHANGED iteratorVars
  BY <1>6 DEF iteratorVars, WalkInv, TypeOK, FramesBounded, Advances
<1> QED
  BY <1>1, <1>2, <1>3, <1>4, <1>5, <1>6 DEF Next, unwind_without_info

LEMMA WalkInit == Init => WalkInv
  BY WordsAssumption, WalkAssumption
     DEF Init, iter_frames, WalkInv, TypeOK, FramesBounded, IteratorResults, Addresses

(***************************************************************************)
(* Every walk of an aarch64 stack stays within its types and yields at     *)
(* most as many frames as there are stack pointer values, plus two: exec   *)
(* and the generic path only return an address with a higher stack pointer *)
(* past the first frame.                                                   *)
(***************************************************************************)
THEOREM WalksAreBounded == Spec => [](TypeOK /\ FramesBounded)
<1>1. WalkInv => TypeOK /\ FramesBounded
  BY DEF WalkInv
<1> QED
  BY <1>1, WalkInit, WalkStep, PTL DEF Spec

(***************************************************************************)
(* The stack pointer strictly increases with every frame after the first   *)
(* return address.                                                         *)
(***************************************************************************)
THEOREM WalksAdvance == Spec => StackPointerAdvances
<1>1. WalkInv /\ [Next]_iteratorVars => [Advances]_iteratorVars
  BY WalkStep
<1> QED
  BY <1>1, WalkInit, WalkStep, PTL DEF Spec, StackPointerAdvances, Advances

(***************************************************************************)
(* Every walk of an aarch64 stack stays within its types, whatever rules,  *)
(* CFI and answers of read_stack it meets: exec and the generic path only  *)
(* put readable words, checked sums and stripped addresses into the        *)
(* registers.                                                              *)
(***************************************************************************)
THEOREM WalksAreTyped == Spec => []TypeOK
  BY WalksAreBounded, PTL

-----------------------------------------------------------------------------
LEMMA GetTyped == ASSUME NEW r \in Registers PROVE get(r) \in [DwarfRegisters -> Values]
  BY DEF get, Registers, Values, Unknown, Unreadable

LEMMA TranslationTyped ==
    ASSUME NEW row \in Rows
    PROVE  translate_into_unwind_rule(row) \in UnwindRuleAarch64 \cup {NoRule}
<1>1. ASSUME NEW sp, NEW lr, NEW fp, NEW kind \in {"OffsetSpAndRestoreFpAndLr",
                                                   "UseFramepointerWithOffsets"}
      PROVE  Fitted(kind, sp, lr, fp) \in UnwindRuleAarch64 \cup {NoRule}
  BY DEF Fitted, Rule, UnwindRuleAarch64
<1>2. ASSUME NEW sp, NEW lr
      PROVE  Fitted("OffsetSpAndRestoreLr", sp, lr, 0) \in UnwindRuleAarch64 \cup {NoRule}
  BY DEF Fitted, Rule, UnwindRuleAarch64
<1>3. ASSUME NEW sp, NEW kind \in {"OffsetSp", "OffsetSpIfFirstFrameOtherwiseStackEndsHere"}
      PROVE  Fitted(kind, sp, 0, 0) \in UnwindRuleAarch64 \cup {NoRule}
  BY DEF Fitted, Rule, UnwindRuleAarch64
<1>4. ASSUME NEW offset, NEW fp, NEW lr
      PROVE  FromSp(offset, fp, lr) \in UnwindRuleAarch64 \cup {NoRule}
  BY <1>1, <1>2, <1>3 DEF FromSp
<1>5. ASSUME NEW offset, NEW fp, NEW lr
      PROVE  FromX29(offset, fp, lr) \in UnwindRuleAarch64 \cup {NoRule}
  BY <1>1 DEF FromX29
<1> QED
  BY <1>4, <1>5 DEF translate_into_unwind_rule

(***************************************************************************)
(* Executing a rule only reads the locations of the rule.                  *)
(***************************************************************************)
LEMMA ExecReads ==
    ASSUME NEW rule \in UnwindRuleAarch64, NEW first, NEW r \in Registers, NEW stack, NEW part,
           part = [a \in ReadLocations(rule, first, r) |-> stack[a]]
    PROVE  exec(rule, first, r, stack) = exec(rule, first, r, part)
<1>1. LrLocation(rule, r) \in Addresses \cup {Overflow}
  BY RuleFields, LocationTyped DEF LrLocation, Base, Registers
<1>2. FpLocation(rule, r) \in Addresses \cup {Overflow}
  BY RuleFields, LocationTyped DEF FpLocation, Base, Registers
<1>3. ReadsLr(rule, first) /\ LrLocation(rule, r) # Overflow =>
        stack[LrLocation(rule, r)] = part[LrLocation(rule, r)]
  BY <1>1 DEF ReadLocations
<1>4. ReadsFp(rule, first) /\ FpLocation(rule, r) # Overflow =>
        stack[FpLocation(rule, r)] = part[FpLocation(rule, r)]
  BY <1>2 DEF ReadLocations
<1>5. ReadsFp(rule, first) => ReadsLr(rule, first)
  BY DEF ReadsFp
<1>6. rule.kind = "UseFramepointerWithOffsets" => ReadsFp(rule, first)
  BY DEF ReadsFp, ReadsLr
<1> QED
  BY <1>3, <1>4, <1>5, <1>6 DEF exec

(***************************************************************************)
(* A step of a walk by CFI is a step of a walk: it executes a rule, or it  *)
(* takes the generic path with what its row evaluates to.                  *)
(***************************************************************************)
DwarfTyped == WalkInv /\ memory \in [Addresses -> StackValues \cup {Unreadable}]

LEMMA CfiStep ==
    ASSUME StackValues = Addresses, DwarfTyped, [NextByCfi]_vars
    PROVE  [Next]_iteratorVars
<1>1. regs \in Registers /\ memory \in [Addresses -> Values]
  BY DEF DwarfTyped, WalkInv, TypeOK, Values
<1>2. ASSUME NEW rule \in UnwindRuleAarch64, exec_rule(rule) PROVE Next
  <2> DEFINE locations == ReadLocations(rule, is_first_frame, regs)
             part == [a \in locations |-> memory[a]]
  <2>1. locations \subseteq Addresses
    BY DEF ReadLocations
  <2>2. part \in Answers(locations)
    BY <2>1 DEF Answers, DwarfTyped
  <2>3. exec(rule, is_first_frame, regs, memory) = exec(rule, is_first_frame, regs, part)
    BY <1>1, ExecReads
  <2>4. unwind_by(rule)
    BY <1>2, <2>2, <2>3 DEF unwind_by, exec_rule
  <2> QED
    BY <2>4 DEF Next
<1>3. fallback_rule \in UnwindRuleAarch64 /\ rule_if_uncovered_by_fde \in UnwindRuleAarch64
  BY DEF fallback_rule, rule_if_uncovered_by_fde, UnwindRuleAarch64
<1>4. ASSUME NEW row \in Rows, Evaluates(row), next_unwinding(evaluate(row)) PROVE Next
  <2>1. row.cfa \in CfaRules /\ row.fp \in RegisterRules /\ row.lr \in RegisterRules
    BY DEF Rows
  <2>2. regs.fp \in Addresses /\ regs.lr \in Addresses
    BY <1>1 DEF Registers
  <2>3. Cfa(row) \in Values
    BY <1>1, <2>1, GetTyped, CfaTyped DEF Cfa
  <2>4. Fp(row) \in Values /\ Lr(row) \in Values
    BY <1>1, <2>1, <2>2, <2>3, GetTyped, RegisterTyped DEF Fp, Lr
  <2>5. unwind_generically(Cfa(row), Fp(row), Lr(row))
    BY <1>4 DEF Evaluates, evaluate, unwind_generically
  <2>6. Values = StackValues \cup {Unknown}
    BY DEF Values, Unknown, Unreadable
  <2> QED
    BY <2>3, <2>4, <2>5, <2>6 DEF Next
<1>5. ASSUME NEW row \in Rows, unwind_by_row(row) PROVE Next
  <2>1. CASE translate_into_unwind_rule(row) # NoRule
    BY <1>2, <1>5, <2>1, TranslationTyped DEF unwind_by_row
  <2>2. CASE translate_into_unwind_rule(row) = NoRule
    BY <1>2, <1>3, <1>4, <1>5, <2>2 DEF unwind_by_row
  <2> QED
    BY <2>1, <2>2
<1>6. CASE next_initial \/ next_done
  BY <1>6 DEF Next
<1>7. CASE UNCHANGED vars
  BY <1>7 DEF vars, iteratorVars
<1> QED
  BY <1>2, <1>3, <1>5, <1>6, <1>7 DEF NextByCfi

LEMMA DwarfTypedStep ==
    ASSUME StackValues = Addresses, DwarfTyped, [NextByCfi]_vars
    PROVE  DwarfTyped'
<1>1. memory' = memory
  BY DEF NextByCfi, vars
<1> QED
  BY <1>1, CfiStep, WalkStep DEF DwarfTyped

LEMMA DwarfTypedInit == InitByCfi => DwarfTyped
  BY WalkInit, DwarfAssumption DEF InitByCfi, DwarfTyped

(***************************************************************************)
(* Every walk by CFI is a walk of Aarch64Iterator, for every CFI, stack    *)
(* and size of the address space.                                          *)
(***************************************************************************)
THEOREM CfiImplementsWalk ==
    ASSUME StackValues = Addresses
    PROVE  SpecByCfi => CfiWalksAreWalks
<1>1. DwarfTyped /\ [NextByCfi]_vars => [Next]_iteratorVars
  BY CfiStep
<1>2. DwarfTyped /\ [NextByCfi]_vars => DwarfTyped'
  BY DwarfTypedStep
<1>3. InitByCfi => Init
  BY DEF InitByCfi
<1> QED
  BY <1>1, <1>2, <1>3, DwarfTypedInit, PTL DEF SpecByCfi, CfiWalksAreWalks

(***************************************************************************)
(* So every walk by CFI yields a bounded number of frames.                 *)
(***************************************************************************)
THEOREM CfiWalksAreBounded ==
    ASSUME StackValues = Addresses
    PROVE  SpecByCfi => []FramesBounded
<1>1. DwarfTyped => FramesBounded
  BY DEF DwarfTyped, WalkInv
<1>2. DwarfTyped /\ [NextByCfi]_vars => DwarfTyped'
  BY DwarfTypedStep
<1> QED
  BY <1>1, <1>2, DwarfTypedInit, PTL DEF SpecByCfi

-----------------------------------------------------------------------------
PlaceOf(base, offset, rule) == checked_add_signed(base, Quotient(offset + rule.offset, Word) * Word)

ValueOf(rule, base, offset, val, g, m) == eval_register_rule(rule, base + offset, val, g, m)

(***************************************************************************)
(* The row reads a register relative to its cfa, base + offset, on a stack *)
(* in the lower half of the address space, and the rule has read it too.   *)
(***************************************************************************)
Restorable(rule, base, offset, m) ==
    /\ rule \in RegisterRules /\ IsStored(rule) /\ rule.offset % Word = 0
    /\ base \in Addresses /\ offset \in Int /\ offset % Word = 0
    /\ Quotient(offset + rule.offset, Word) \in IOffsets
    /\ base + offset >= 0 /\ base + offset < Half
    /\ m \in [Addresses -> Values] /\ \A a \in Addresses : a >= Half => m[a] = Unreadable
    /\ PlaceOf(base, offset, rule) # Overflow /\ m[PlaceOf(base, offset, rule)] # Unreadable

(***************************************************************************)
(* The two implementations of a row.  What a rule reads at its offset from *)
(* sp or fp is what the row reads at its offset from the cfa, because the  *)
(* quotients are exact.                                                    *)
(***************************************************************************)
LEMMA StoredAgrees ==
    ASSUME NEW rule, NEW base, NEW offset, NEW m, Restorable(rule, base, offset, m), NEW val, NEW g
    PROVE  /\ ValueOf(rule, base, offset, val, g, m) = m[PlaceOf(base, offset, rule)]
           /\ m[PlaceOf(base, offset, rule)] # Unknown
<1> SUFFICES ASSUME rule \in RegisterRules, base \in Addresses, offset \in Int, IsStored(rule),
                    offset % Word = 0, rule.offset % Word = 0,
                    Quotient(offset + rule.offset, Word) \in IOffsets,
                    base + offset >= 0, base + offset < Half,
                    m \in [Addresses -> Values], \A a \in Addresses : a >= Half => m[a] = Unreadable,
                    PlaceOf(base, offset, rule) # Overflow, m[PlaceOf(base, offset, rule)] # Unreadable
             PROVE  /\ ValueOf(rule, base, offset, val, g, m) = m[PlaceOf(base, offset, rule)]
                    /\ m[PlaceOf(base, offset, rule)] # Unknown
  BY DEF Restorable
<1> DEFINE at == PlaceOf(base, offset, rule)
<1> SUFFICES ValueOf(rule, base, offset, val, g, m) = m[at] /\ m[at] # Unknown
  OBVIOUS
<1>0. at # Overflow /\ m[at] # Unreadable
  OBVIOUS
<1> HIDE DEF at
<1>1. rule.kind = "Offset" /\ rule.offset \in Int
  BY CfiAssumption DEF IsStored
<1> DEFINE distance == offset + rule.offset
<1>2. distance \in Int /\ distance % Word = 0
  <2>1. PICK p \in Int : offset = Word * p
    BY MultipleOf, WordsAssumption
  <2>2. PICK q \in Int : rule.offset = Word * q
    BY <1>1, MultipleOf, WordsAssumption, ZenonT(60)
  <2>3. p + q \in Int /\ distance = Word * (p + q)
    BY <2>1, <2>2, WordsAssumption
  <2>4. distance \in Int
    BY <1>1
  <2> HIDE DEF distance
  <2>5. distance % Word = 0
    BY <2>3, <2>4, MultipleOf, WordsAssumption
  <2> QED
    BY <2>4, <2>5
<1>3. Quotient(distance, Word) * Word = distance
  BY <1>2, QuotientExact, WordsAssumption
<1>4. -AddrSpace < distance /\ distance < AddrSpace
  BY <1>3, OffsetsAssumption, ZenonT(60)
<1>5. at = base + distance /\ at \in Addresses
  <2>1. at = checked_add_signed(base, distance)
    BY <1>3 DEF at, PlaceOf
  <2> HIDE DEF distance
  <2> QED
    BY <1>0, <1>2, <1>4, <2>1, CheckedAddSigned
<1>6. at < Half /\ Half \in Int
  BY <1>0, <1>5, WordsAssumption DEF Half, Addresses
<1>7. SignedSum(base + offset, rule.offset) = at
  BY <1>1, <1>5, <1>6 DEF SignedSum, Addresses
<1>8. at # Unknown
  BY <1>5 DEF Unknown, Addresses
<1> QED
  BY <1>0, <1>1, <1>5, <1>7, <1>8 DEF ValueOf, eval_register_rule, ReadAt, Unknown, Unreadable

LEMMA KeptAgrees ==
    ASSUME NEW rule \in RegisterRules, IsKept(rule), NEW cfa, NEW val, NEW g, NEW m
    PROVE  eval_register_rule(rule, cfa, val, g, m) \in {val, Unknown}
  BY SMTT(30) DEF IsKept, eval_register_rule

LrAfter(rule, first, r, m) == IF ReadsLr(rule, first) THEN m[LrLocation(rule, r)] ELSE r.lr

FpAfter(rule, first, r, m) == IF ReadsFp(rule, first) THEN m[FpLocation(rule, r)] ELSE r.fp

(***************************************************************************)
(* What is known when a rule that counts from sp or fp has unwound a frame *)
(***************************************************************************)
LEMMA ExecSome ==
    ASSUME NEW rule, NEW first, NEW r, NEW m, exec(rule, first, r, m).result = "Some",
           rule.kind # "NoOpIfFirstFrameOtherwiseFp"
    PROVE  LET fast == exec(rule, first, r, m)
               new_lr == LrAfter(rule, first, r, m)
               new_fp == FpAfter(rule, first, r, m)
           IN  /\ fast.address = strip_ptr_auth(new_lr)
               /\ fast.regs = [lr |-> strip_ptr_auth(new_lr), sp |-> NewSp(rule, r), fp |-> new_fp]
               /\ NewSp(rule, r) # Overflow
               /\ ReadsLr(rule, first) => LrLocation(rule, r) # Overflow /\ new_lr # Unreadable
               /\ ReadsFp(rule, first) => FpLocation(rule, r) # Overflow /\ new_fp # Unreadable
  BY DEF exec, Finish, Stop, Unwound, LrAfter, FpAfter

LEMMA SpAgrees ==
    ASSUME NEW base \in Addresses, NEW offset \in Int, NEW unit \in {Word, 2 * Word},
           offset % unit = 0, Quotient(offset, unit) \in UOffsets,
           SignedSum(base, offset) # Unknown,
           checked_add(base, Quotient(offset, unit) * unit) # Overflow
    PROVE  /\ checked_add(base, Quotient(offset, unit) * unit) = base + offset
           /\ SignedSum(base, offset) = base + offset
           /\ base + offset >= 0 /\ base + offset < Half
<1>1. unit \in Nat \ {0}
  BY WordsAssumption
<1>2. Quotient(offset, unit) * unit = offset
  BY <1>1, QuotientExact
<1> QED
  BY <1>2 DEF checked_add, SignedSum

(***************************************************************************)
(* A register that the rule of a row keeps or reads has the value that the *)
(* row gives it, or is kept because the row gives it none.                 *)
(***************************************************************************)
OrKept(value, val) == IF value = Unknown THEN val ELSE value

LEMMA Agreement ==
    ASSUME DwarfTyped, \A a \in Addresses : a >= Half => memory[a] = Unreadable,
           NEW row \in Translated, Evaluates(row),
           NEW fast, fast = exec(translate_into_unwind_rule(row), is_first_frame, regs, memory),
           fast.result = "Some"
    PROVE  /\ fast.regs = evaluate(row).regs
           /\ fast.address = strip_ptr_auth(evaluate(row).address)
<1> DEFINE rule == translate_into_unwind_rule(row)
           first == is_first_frame
           offset == row.cfa.offset
           base == get(regs)[row.cfa.register]
           new_lr == LrAfter(rule, first, regs, memory)
           new_fp == FpAfter(rule, first, regs, memory)
<1>1. /\ row.cfa \in CfaRules /\ row.fp \in RegisterRules /\ row.lr \in RegisterRules
      /\ rule # NoRule /\ Aligned(row)
  BY DEF Translated, Rows
<1>2. /\ row.cfa.kind # "Expression" /\ row.cfa.register \in {"SP", "X29"}
      /\ row.cfa.register \in DwarfRegisters /\ offset \in Int
  BY <1>1, CfiAssumption, DwarfAssumption DEF translate_into_unwind_rule
<1>3. /\ regs \in Registers /\ memory \in [Addresses -> Values]
      /\ regs.sp \in Addresses /\ regs.fp \in Addresses /\ regs.lr \in Addresses
  BY WalkAssumption DEF DwarfTyped, WalkInv, TypeOK, Values, Registers
<1>4. base = IF row.cfa.register = "SP" THEN regs.sp ELSE regs.fp
  BY <1>2 DEF get
<1>5. Cfa(row) = SignedSum(base, offset) /\ Cfa(row) # Unknown
  BY <1>2 DEF Cfa, eval_cfa_rule, Evaluates, DwarfSucceeds
<1>6. /\ evaluate(row).regs = [lr |-> strip_ptr_auth(OrKept(Lr(row), regs.lr)), sp |-> Cfa(row),
                               fp |-> OrKept(Fp(row), regs.fp)]
      /\ evaluate(row).address = OrKept(Lr(row), regs.lr)
  BY SMTT(30) DEF evaluate, unwind_frame_generic, Unwound, OrKept
<1>7. /\ rule.kind # "NoOpIfFirstFrameOtherwiseFp"
      /\ row.cfa.register = "SP" => rule.sp = Quotient(offset, 2 * Word) /\ ~FromFp(rule)
      /\ row.cfa.register = "X29" => rule.sp = Quotient(offset, Word) /\ FromFp(rule)
      /\ rule.sp \in UOffsets
  BY <1>1, <1>2, ZenonT(60) DEF translate_into_unwind_rule, FromSp, FromX29, Fitted, Rule, FromFp
<1>8. /\ ReadsLr(rule, first) =>
            IsStored(row.lr) /\ rule.lr = Quotient(offset + row.lr.offset, Word) /\ rule.lr \in IOffsets
      /\ ~ReadsLr(rule, first) => IsKept(row.lr)
      /\ ReadsFp(rule, first) =>
            IsStored(row.fp) /\ rule.fp = Quotient(offset + row.fp.offset, Word) /\ rule.fp \in IOffsets
      /\ ~ReadsFp(rule, first) => IsKept(row.fp)
  BY <1>1, <1>2, ZenonT(60) DEF translate_into_unwind_rule, FromSp, FromX29, Fitted, Rule, ReadsLr, ReadsFp
<1>9. Base(rule, regs) = base /\ base \in Addresses
  BY <1>2, <1>3, <1>4, <1>7, ZenonT(60) DEF Base
<1>10. offset % Word = 0 /\ (row.cfa.register = "SP" => offset % (2 * Word) = 0)
  <2>1. offset % (2 * Word) = 0 => offset % Word = 0
    <3>1. ASSUME NEW p \in Int, offset = (2 * Word) * p PROVE 2 * p \in Int /\ offset = Word * (2 * p)
      BY <3>1, WordsAssumption
    <3>2. 2 * Word \in Nat \ {0}
      BY WordsAssumption
    <3> HIDE DEF offset
    <3> QED
      BY <1>2, <3>1, <3>2, MultipleOf, WordsAssumption, ZenonT(60)
  <2> QED
    BY <1>1, <1>2, <2>1, ZenonT(60) DEF Aligned
<1>11. /\ fast.address = strip_ptr_auth(new_lr)
       /\ fast.regs = [lr |-> strip_ptr_auth(new_lr), sp |-> NewSp(rule, regs), fp |-> new_fp]
       /\ NewSp(rule, regs) # Overflow
       /\ ReadsLr(rule, first) => LrLocation(rule, regs) # Overflow /\ new_lr # Unreadable
       /\ ReadsFp(rule, first) => FpLocation(rule, regs) # Overflow /\ new_fp # Unreadable
  <2>1. rule.kind # "NoOpIfFirstFrameOtherwiseFp" /\ fast = exec(rule, first, regs, memory)
    BY <1>7
  <2> HIDE DEF rule, first
  <2> QED
    BY <2>1, ExecSome
<1> HIDE DEF rule, first, offset, base
<1>12. NewSp(rule, regs) = Cfa(row) /\ Cfa(row) = base + offset /\ base + offset >= 0 /\ base + offset < Half
  <2> DEFINE unit == IF row.cfa.register = "SP" THEN 2 * Word ELSE Word
  <2>1. SpUnit(rule) = unit /\ rule.sp = Quotient(offset, unit) /\ offset % unit = 0
    BY <1>2, <1>7, <1>10 DEF SpUnit
  <2>2. unit \in {Word, 2 * Word}
    BY SMTT(30)
  <2>3. NewSp(rule, regs) = checked_add(base, Quotient(offset, unit) * unit)
    BY <1>9, <2>1 DEF NewSp
  <2> HIDE DEF unit
  <2> QED
    BY <1>2, <1>5, <1>7, <1>9, <1>11, <2>1, <2>2, <2>3, SpAgrees, ZenonT(60)
<1>13. new_lr = OrKept(Lr(row), regs.lr)
  <2>1. CASE ReadsLr(rule, first)
    <3>1. LrLocation(rule, regs) = PlaceOf(base, offset, row.lr)
      BY <1>8, <1>9, <2>1 DEF LrLocation, PlaceOf
    <3>2. /\ row.lr.offset % Word = 0 /\ IsStored(row.lr)
          /\ Quotient(offset + row.lr.offset, Word) \in IOffsets
      BY <1>1, <1>8, <2>1, SMTT(30) DEF Aligned
    <3>3. memory[PlaceOf(base, offset, row.lr)] # Unreadable /\ PlaceOf(base, offset, row.lr) # Overflow
      BY <1>11, <2>1, <3>1, SMTT(30) DEF LrAfter
    <3> HIDE DEF new_lr, new_fp
    <3>4. /\ ValueOf(row.lr, base, offset, regs.lr, get(regs), memory) = memory[PlaceOf(base, offset, row.lr)]
          /\ memory[PlaceOf(base, offset, row.lr)] # Unknown
      <4>1. /\ row.lr \in RegisterRules /\ base \in Addresses /\ offset \in Int /\ offset % Word = 0
            /\ memory \in [Addresses -> Values] /\ base + offset >= 0 /\ base + offset < Half
        BY <1>1, <1>2, <1>3, <1>9, <1>10, <1>12, SMTT(30)
      <4>2. Restorable(row.lr, base, offset, memory)
        BY <3>2, <3>3, <4>1 DEF Restorable
      <4> QED
        BY <4>2, StoredAgrees
    <3> QED
      BY <1>12, <2>1, <3>1, <3>4, SMTT(30) DEF Lr, OrKept, new_lr, LrAfter, ValueOf
  <2>2. CASE ~ReadsLr(rule, first)
    BY <1>1, <1>8, <2>2, KeptAgrees, ZenonT(60) DEF Lr, OrKept, LrAfter
  <2> QED
    BY <2>1, <2>2, SMTT(30)
<1>14. new_fp = OrKept(Fp(row), regs.fp)
  <2>1. CASE ReadsFp(rule, first)
    <3>1. FpLocation(rule, regs) = PlaceOf(base, offset, row.fp)
      BY <1>8, <1>9, <2>1, SMTT(30) DEF FpLocation, PlaceOf
    <3>2. /\ row.fp.offset % Word = 0 /\ IsStored(row.fp)
          /\ Quotient(offset + row.fp.offset, Word) \in IOffsets
      BY <1>1, <1>8, <2>1, SMTT(30) DEF Aligned
    <3>3. memory[PlaceOf(base, offset, row.fp)] # Unreadable /\ PlaceOf(base, offset, row.fp) # Overflow
      BY <1>11, <2>1, <3>1, SMTT(30) DEF FpAfter
    <3> HIDE DEF new_lr, new_fp
    <3>4. /\ ValueOf(row.fp, base, offset, regs.fp, get(regs), memory) = memory[PlaceOf(base, offset, row.fp)]
          /\ memory[PlaceOf(base, offset, row.fp)] # Unknown
      <4>1. /\ row.fp \in RegisterRules /\ base \in Addresses /\ offset \in Int /\ offset % Word = 0
            /\ memory \in [Addresses -> Values] /\ base + offset >= 0 /\ base + offset < Half
        BY <1>1, <1>2, <1>3, <1>9, <1>10, <1>12, SMTT(30)
      <4>2. Restorable(row.fp, base, offset, memory)
        BY <3>2, <3>3, <4>1 DEF Restorable
      <4> QED
        BY <4>2, StoredAgrees
    <3> QED
      BY <1>12, <2>1, <3>1, <3>4, SMTT(30) DEF Fp, OrKept, new_fp, FpAfter, ValueOf
  <2>2. CASE ~ReadsFp(rule, first)
    BY <1>1, <1>8, <2>2, KeptAgrees, ZenonT(60) DEF Fp, OrKept, FpAfter
  <2> QED
    BY <2>1, <2>2, SMTT(30)
<1> HIDE DEF new_lr, new_fp
<1> QED
  BY <1>6, <1>11, <1>12, <1>13, <1>14

(***************************************************************************)
(* So the rule that a row is translated into and the evaluation of the row *)
(* unwind every frame of every walk alike, for every word size and every   *)
(* CFI, on stacks in the lower half of the address space: the sums of      *)
(* eval_cfa_rule and eval_register_rule are taken as i64.                  *)
(***************************************************************************)
THEOREM TranslationsAgree ==
    ASSUME StackValues = Addresses,
           \A m \in Stacks : \A a \in Addresses : a >= Half => m[a] = Unreadable
    PROVE  SpecByCfi => []TranslationAgrees
<1> DEFINE Inv == DwarfTyped /\ memory \in Stacks
<1>1. InitByCfi => Inv
  BY DwarfTypedInit DEF InitByCfi
<1>2. Inv /\ [NextByCfi]_vars => Inv'
  BY DwarfTypedStep DEF NextByCfi, vars
<1>3. Inv => TranslationAgrees
  BY Agreement DEF TranslationAgrees
<1> QED
  BY <1>1, <1>2, <1>3, PTL DEF SpecByCfi

(***************************************************************************)
(* The types that walks by CFI keep.                                       *)
(***************************************************************************)
THEOREM CfiWalksAreTyped ==
    ASSUME StackValues = Addresses
    PROVE  SpecByCfi => []TypeOK
<1>1. DwarfTyped => TypeOK
  BY DEF DwarfTyped, WalkInv
<1>2. DwarfTyped /\ [NextByCfi]_vars => DwarfTyped'
  BY DwarfTypedStep
<1> QED
  BY <1>1, <1>2, DwarfTypedInit, PTL DEF SpecByCfi

(***************************************************************************)
(* The stack pointer of a walk by CFI strictly increases with every frame  *)
(* after the first return address.                                         *)
(***************************************************************************)
THEOREM CfiWalksAdvance ==
    ASSUME StackValues = Addresses
    PROVE  SpecByCfi => StackPointerAdvances
<1>1. DwarfTyped /\ [NextByCfi]_vars => [Advances]_iteratorVars
  BY CfiStep, WalkStep DEF DwarfTyped
<1>2. DwarfTyped /\ [NextByCfi]_vars => DwarfTyped'
  BY DwarfTypedStep
<1> QED
  BY <1>1, <1>2, DwarfTypedInit, PTL DEF SpecByCfi, StackPointerAdvances, Advances
=============================================================================
