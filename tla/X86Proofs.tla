----------------------------- MODULE X86Proofs ------------------------------
(***************************************************************************)
(* Proofs about X86Iterator, for every address width, offset range, stack  *)
(* and set of initial registers; and about X86Dwarf: every walk of an      *)
(* x86_64 stack by CFI is one of the walks of X86Iterator, so that the     *)
(* theorems about those hold of it too.                                    *)
(***************************************************************************)
EXTENDS X86Dwarf, WordsProofs

(***************************************************************************)
(* What one unwinding may do: an address comes with a stack pointer that   *)
(* is not lower past the first frame, and with a new pair of code address  *)
(* and stack pointer; without an address only bp may change.               *)
(***************************************************************************)
Sound(o, kind, r) ==
    /\ o.regs \in Registers
    /\ o.address \in Addresses
    /\ o.result \in {"Some", "None"} \cup Errors
    /\ o.result = "Some" /\ kind # "InstructionPointer" => o.regs.sp >= r.sp
    /\ o.result = "Some" => <<o.regs.sp, o.regs.ip>> # <<r.sp, r.ip>>
    /\ o.result # "Some" => o.regs.sp = r.sp /\ o.regs.ip = r.ip

(***************************************************************************)
(* What executing a rule promises in addition: the address was read below  *)
(* the new stack pointer, which is not lower.                              *)
(***************************************************************************)
FromStack(o, r, stack) ==
    o.result = "Some" =>
        /\ o.address # 0
        /\ o.regs.sp >= r.sp
        /\ o.regs.ip = stack[Below(o.regs.sp)]

RuleSound(o, kind, r, stack) == Sound(o, kind, r) /\ FromStack(o, r, stack)

LEMMA BelowTyped == ASSUME NEW sp \in Addresses PROVE Below(sp) \in Addresses
  BY WordsAssumption DEF Below, Addresses

LEMMA StopSound ==
    ASSUME NEW r \in Registers, NEW bp \in Addresses, NEW kind, NEW stack,
           NEW reason \in {"None"} \cup Errors
    PROVE  RuleSound(Stop(reason, [r EXCEPT !.bp = bp]), kind, r, stack)
<1> DEFINE new_regs == [r EXCEPT !.bp = bp]
<1>1. new_regs \in Registers /\ new_regs.sp = r.sp /\ new_regs.ip = r.ip
  BY Zenon DEF Registers
<1> HIDE DEF new_regs
<1>2. RuleSound(Stop(reason, new_regs), kind, r, stack)
  BY <1>1, WordsAssumption DEF RuleSound, Sound, FromStack, Stop, Addresses, Errors
<1> QED
  BY <1>2, Zenon DEF new_regs

LEMMA PlainStopSound ==
    ASSUME NEW r \in Registers, NEW kind, NEW stack, NEW reason \in {"None"} \cup Errors
    PROVE  RuleSound(Stop(reason, r), kind, r, stack)
  BY WordsAssumption DEF RuleSound, Sound, FromStack, Stop, Addresses, Errors, Registers

LEMMA FinishSound ==
    ASSUME NEW kind, NEW build, NEW stack \in [Addresses -> Values], NEW r \in Registers,
           NEW bp \in Addresses, NEW new_sp \in Addresses, NEW new_bp \in Addresses,
           new_sp >= r.sp
    PROVE  RuleSound(Finish(r, bp, new_sp, new_bp, stack, build), kind, r, stack)
<1> DEFINE ra == stack[Below(new_sp)]
           new_regs == [ip |-> ra, sp |-> new_sp, bp |-> new_bp]
           o == Finish(r, bp, new_sp, new_bp, stack, build)
           popped == [r EXCEPT !.bp = bp]
<1>1. ra \in Values
  BY BelowTyped, Zenon
<1>2. \A reason \in {"None", "Panic", "CouldNotReadStack", "DidNotAdvance"} :
         RuleSound(Stop(reason, popped), kind, r, stack)
  BY StopSound, Zenon DEF Errors
<1>3. ASSUME ra # Unreadable, ra # 0, ~(new_sp = r.sp /\ ra = r.ip)
      PROVE  RuleSound(Unwound(ra, new_regs), kind, r, stack)
  <2>1. ra \in Addresses
    BY <1>1, <1>3, Zenon DEF Values
  <2>2. new_regs \in Registers /\ new_regs.sp = new_sp /\ new_regs.ip = ra
    BY <2>1, Zenon DEF Registers
  <2>3. <<new_regs.sp, new_regs.ip>> # <<r.sp, r.ip>>
    BY <2>2, <1>3, Zenon
  <2>4. new_regs.ip = stack[Below(new_regs.sp)]
    BY <2>2, Zenon
  <2> HIDE DEF new_regs, ra
  <2> QED
    BY <2>1, <2>2, <2>3, <2>4, <1>3, Zenon DEF RuleSound, Sound, FromStack, Unwound
<1>4. o = IF new_sp < Word /\ build = "checked" THEN Stop("Panic", popped)
          ELSE IF ra = Unreadable THEN Stop("CouldNotReadStack", popped)
          ELSE IF ra = 0 THEN Stop("None", popped)
          ELSE IF new_sp = r.sp /\ ra = r.ip THEN Stop("DidNotAdvance", popped)
          ELSE Unwound(ra, new_regs)
  BY Zenon DEF Finish
<1> HIDE DEF o, ra, new_regs, popped
<1>5. RuleSound(o, kind, r, stack)
  BY <1>2, <1>3, <1>4, Zenon
<1> QED
  BY <1>5, Zenon DEF o

Fits(i) == i \in Int /\ -AddrSpace < i * Word /\ i * Word < AddrSpace

LEMMA RuleFields ==
    ASSUME NEW rule \in UnwindRuleX86_64
    PROVE  /\ rule.sp \in Nat /\ Fits(rule.bp)
           /\ rule.count \in Nat /\ rule.bp_index \in 0 .. rule.count
           /\ rule.kind \in {"EndOfStack", "UseFramePointer", "JustReturnIfFirstFrameOtherwiseFp",
                             "OffsetSp", "OffsetSpAndRestoreBp", "OffsetSpAndPopRegisters"}
<1>1. Fits(0) /\ \A i \in IOffsets : Fits(i)
  BY WordsAssumption, OffsetsAssumption DEF Fits
<1>a. UOffsets \subseteq Nat /\ MaxPops \in Nat
  BY OffsetsAssumption, Zenon
<1> HIDE DEF Fits
<1>2. CASE rule \in {Rule(kind, 0) : kind \in {"EndOfStack", "UseFramePointer",
                                              "JustReturnIfFirstFrameOtherwiseFp"}}
  BY <1>1, <1>2 DEF Rule
<1>3. CASE rule \in {Rule("OffsetSp", sp) : sp \in UOffsets}
  BY <1>1, <1>3, OffsetsAssumption DEF Rule
<1>4. CASE rule \in [kind : {"OffsetSpAndRestoreBp"}, sp : UOffsets, bp : IOffsets,
                     count : {0}, bp_index : {0}]
  <2>1. /\ rule.kind = "OffsetSpAndRestoreBp" /\ rule.sp \in UOffsets
        /\ rule.bp \in IOffsets /\ rule.count = 0 /\ rule.bp_index = 0
    BY <1>4, Zenon
  <2>2. Fits(rule.bp)
    BY <1>1, <2>1, Zenon, Zenon
  <2>3. rule.sp \in Nat
    BY <2>1, <1>a, Zenon, Zenon
  <2>4. \A count \in 0 .. MaxPops, index \in 0 .. MaxPops :
           index <= count => count \in Nat /\ index \in 0 .. count
    BY <1>a
  <2>5. rule.count \in Nat /\ rule.bp_index \in 0 .. rule.count
    BY <2>1, <2>4, <1>a
  <2> QED
    BY <2>1, <2>2, <2>3, <2>5, Zenon
<1>5. CASE rule \in {rl \in [kind : {"OffsetSpAndPopRegisters"}, sp : UOffsets, bp : {0},
                             count : 0 .. MaxPops, bp_index : 0 .. MaxPops] :
                        rl.bp_index <= rl.count}
  <2>1. /\ rule.kind = "OffsetSpAndPopRegisters" /\ rule.sp \in UOffsets /\ rule.bp = 0
        /\ rule.count \in 0 .. MaxPops /\ rule.bp_index \in 0 .. MaxPops
        /\ rule.bp_index <= rule.count
    BY <1>5, Zenon
  <2>2. Fits(rule.bp)
    BY <1>1, <2>1, Zenon, Zenon
  <2>3. rule.sp \in Nat
    BY <2>1, <1>a, Zenon, Zenon
  <2>4. \A count \in 0 .. MaxPops, index \in 0 .. MaxPops :
           index <= count => count \in Nat /\ index \in 0 .. count
    BY <1>a
  <2>5. rule.count \in Nat /\ rule.bp_index \in 0 .. rule.count
    BY <2>1, <2>4, <1>a, Zenon
  <2> QED
    BY <2>1, <2>2, <2>3, <2>5, Zenon
<1> QED
  BY <1>2, <1>3, <1>4, <1>5, Zenon DEF UnwindRuleX86_64

LEMMA NewSpBound ==
    ASSUME NEW a \in Addresses, NEW n \in Nat
    PROVE  /\ checked_add(a, n * Word) \in Addresses \cup {Overflow}
           /\ checked_add(a, n * Word) # Overflow =>
                checked_add(a, n * Word) = a + n * Word /\ checked_add(a, n * Word) >= a
<1>1. n * Word \in Nat
  BY WordsAssumption
<1> QED
  BY <1>1, CheckedAdd DEF Addresses

LEMMA OffsetSound ==
    ASSUME NEW rule, rule.sp \in Nat, NEW kind, NEW build, NEW r \in Registers,
           NEW stack \in [Addresses -> Values]
    PROVE  RuleSound(exec_offset(rule, r, stack, build), kind, r, stack)
<1>1. r.sp \in Addresses /\ r.bp \in Addresses
  BY Zenon DEF Registers
<1>2. RuleSound(Stop("IntegerOverflow", r), kind, r, stack)
  BY PlainStopSound, Zenon DEF Errors
<1> QED
  BY <1>1, <1>2, NewSpBound, FinishSound, Zenon DEF exec_offset

LEMMA RestoreBpSound ==
    ASSUME NEW rule, rule.sp \in Nat, Fits(rule.bp), NEW kind, NEW build, NEW r \in Registers,
           NEW stack \in [Addresses -> Values]
    PROVE  RuleSound(exec_restore_bp(rule, kind = "InstructionPointer", r, stack, build),
                     kind, r, stack)
<1> DEFINE new_sp == checked_add(r.sp, rule.sp * Word)
           location == checked_add_signed(r.sp, rule.bp * Word)
           lost == stack[location] = Unreadable
           new_bp == IF lost THEN r.bp ELSE stack[location]
<1>1. r.sp \in Addresses /\ r.bp \in Addresses
  BY Zenon DEF Registers
<1>2. \A reason \in {"IntegerOverflow", "CouldNotReadStack"} :
         RuleSound(Stop(reason, r), kind, r, stack)
  BY PlainStopSound, Zenon DEF Errors
<1>3. location \in Addresses \cup {Overflow}
  <2>1. rule.bp * Word \in Int
    BY WordsAssumption DEF Fits
  <2> QED
    BY <1>1, <2>1, CheckedAddSigned, Zenon DEF Fits
<1>4. ASSUME location # Overflow PROVE new_bp \in Addresses
  BY <1>1, <1>3, <1>4, Zenon DEF Values
<1>5. new_sp # Overflow => new_sp \in Addresses /\ new_sp >= r.sp
  BY <1>1, NewSpBound, Zenon
<1>6. ASSUME location # Overflow, new_sp # Overflow
      PROVE  RuleSound(Finish(r, r.bp, new_sp, new_bp, stack, build), kind, r, stack)
  <2> HIDE DEF new_sp, new_bp, location
  <2> QED
    BY <1>1, <1>4, <1>5, <1>6, FinishSound, Zenon
<1> QED
  BY <1>2, <1>6, Zenon DEF exec_restore_bp

LEMMA FramePointerSound ==
    ASSUME NEW kind, NEW build, NEW r \in Registers, NEW stack \in [Addresses -> Values]
    PROVE  RuleSound(exec_frame_pointer(r, stack, build), kind, r, stack)
<1> DEFINE new_sp == checked_add(r.bp, 2 * Word)
<1>1. r.sp \in Addresses /\ r.bp \in Addresses /\ stack[r.bp] \in Values
  BY Zenon DEF Registers
<1>2. \A reason \in {"IntegerOverflow", "CouldNotReadStack",
                     "FramepointerUnwindingMovedBackwards"} :
         RuleSound(Stop(reason, r), kind, r, stack)
  BY PlainStopSound, Zenon DEF Errors
<1>3. new_sp \in Addresses \cup {Overflow}
  BY <1>1, NewSpBound, Zenon
<1>4. ASSUME new_sp # Overflow, ~(new_sp <= r.sp), stack[r.bp] # Unreadable
      PROVE  RuleSound(Finish(r, r.bp, new_sp, stack[r.bp], stack, build), kind, r, stack)
  <2>1. new_sp \in Addresses /\ new_sp >= r.sp /\ stack[r.bp] \in Addresses
    BY <1>1, <1>3, <1>4 DEF Addresses, Values
  <2> HIDE DEF new_sp
  <2> QED
    BY <1>1, <2>1, FinishSound, Zenon
<1> QED
  BY <1>2, <1>4, Zenon DEF exec_frame_pointer

LEMMA PopSound ==
    ASSUME NEW rule \in UnwindRuleX86_64, NEW kind, NEW build, NEW r \in Registers,
           NEW stack \in [Addresses -> Values]
    PROVE  RuleSound(exec_pop(rule, r, stack, build), kind, r, stack)
<1> DEFINE start == checked_add(r.sp, rule.sp * Word)
           Slot(i) == start + (i - 1) * Word
           CanPop(i) == stack[Slot(i)] # Unreadable /\ start + i * Word < AddrSpace
           Popped(i) == \A j \in 1 .. i : CanPop(j)
           bp == IF rule.bp_index # 0 /\ Popped(rule.bp_index)
                 THEN stack[Slot(rule.bp_index)] ELSE r.bp
           new_sp == checked_add(start, (rule.count + 1) * Word)
           misses == \E i \in 1 .. rule.count : Popped(i - 1) /\ stack[Slot(i)] = Unreadable
<1>1. r.sp \in Addresses /\ r.bp \in Addresses
  BY Zenon DEF Registers
<1>2. /\ rule.sp \in Nat /\ rule.count \in Nat /\ rule.bp_index \in Nat
      /\ start \in Addresses \cup {Overflow} /\ (start # Overflow => start >= r.sp)
  BY <1>1, RuleFields, NewSpBound
<1>3. ASSUME start # Overflow PROVE bp \in Addresses
  <2>1. CASE rule.bp_index # 0 /\ Popped(rule.bp_index)
    <3>1. CanPop(rule.bp_index)
      BY <1>2, <2>1
    <3>2. (rule.bp_index - 1) * Word \in Nat /\ rule.bp_index * Word = (rule.bp_index - 1) * Word + Word
      BY <1>2, <2>1, WordsAssumption
    <3>3. Slot(rule.bp_index) \in Addresses
      <4>1. start \in Addresses /\ start + rule.bp_index * Word < AddrSpace
        BY <1>2, <1>3, <3>1, Zenon
      <4> DEFINE below == (rule.bp_index - 1) * Word
      <4>2. below \in Nat /\ start + (below + Word) < AddrSpace
        BY <3>2, <4>1, Zenon
      <4> HIDE DEF start, below
      <4>3. start + below \in Addresses
        BY <4>1, <4>2, WordsAssumption DEF Addresses
      <4> QED
        BY <4>3, Zenon DEF below
    <3> QED
      BY <3>1, <3>3, <2>1, Zenon DEF Values
  <2> QED
    BY <1>1, <2>1, Zenon
<1>4. ASSUME start # Overflow, new_sp # Overflow
      PROVE  RuleSound(Finish(r, bp, new_sp, bp, stack, build), kind, r, stack)
  <2>1. start \in Addresses /\ rule.count + 1 \in Nat
    BY <1>2, <1>4
  <2>2. new_sp \in Addresses /\ new_sp >= start
    BY <1>4, <2>1, NewSpBound, Zenon
  <2>3. new_sp >= r.sp
    BY <1>1, <1>2, <1>4, <2>1, <2>2 DEF Addresses
  <2>4. bp \in Addresses
    BY <1>3, <1>4, Zenon
  <2> HIDE DEF new_sp, bp
  <2> QED
    BY <2>2, <2>3, <2>4, FinishSound, Zenon
<1>5. \A reason \in {"IntegerOverflow", "CouldNotReadStack"} :
         /\ RuleSound(Stop(reason, r), kind, r, stack)
         /\ start # Overflow => RuleSound(Stop(reason, [r EXCEPT !.bp = bp]), kind, r, stack)
  <2> HIDE DEF bp
  <2> QED
    BY <1>3, PlainStopSound, StopSound, Zenon DEF Errors
<1>6. exec_pop(rule, r, stack, build) =
        IF start = Overflow THEN Stop("IntegerOverflow", r)
        ELSE IF misses THEN Stop("CouldNotReadStack", [r EXCEPT !.bp = bp])
        ELSE IF new_sp = Overflow THEN Stop("IntegerOverflow", [r EXCEPT !.bp = bp])
        ELSE Finish(r, bp, new_sp, bp, stack, build)
  BY Zenon DEF exec_pop
<1> HIDE DEF start, bp, new_sp, misses
<1> QED
  BY <1>4, <1>5, <1>6, Zenon

LEMMA ExecSound ==
    ASSUME NEW rule \in UnwindRuleX86_64, NEW kind, NEW build, NEW r \in Registers,
           NEW stack \in [Addresses -> Values]
    PROVE  RuleSound(exec(rule, kind = "InstructionPointer", r, stack, build), kind, r, stack)
<1> DEFINE first == kind = "InstructionPointer"
<1>1. RuleSound(Stop("None", r), kind, r, stack)
  BY PlainStopSound, Zenon
<1>2. RuleSound(exec_frame_pointer(r, stack, build), kind, r, stack)
  BY FramePointerSound, Zenon
<1>3. RuleSound(exec_offset(rule, r, stack, build), kind, r, stack)
  BY RuleFields, OffsetSound, Zenon
<1>4. RuleSound(exec_offset(JustReturn, r, stack, build), kind, r, stack)
  BY OffsetSound, Zenon DEF JustReturn, Rule
<1>5. RuleSound(exec_restore_bp(rule, first, r, stack, build), kind, r, stack)
  BY RuleFields, RestoreBpSound, Zenon
<1>6. RuleSound(exec_pop(rule, r, stack, build), kind, r, stack)
  BY PopSound, Zenon
<1>7. CASE rule.kind \in {"EndOfStack", "UseFramePointer"}
  BY <1>1, <1>2, <1>7, Zenon DEF exec
<1>8. CASE rule.kind \in {"OffsetSp", "JustReturnIfFirstFrameOtherwiseFp"}
  BY <1>2, <1>3, <1>4, <1>8, Zenon DEF exec
<1>9. CASE rule.kind \in {"OffsetSpAndRestoreBp", "OffsetSpAndPopRegisters"}
  BY <1>5, <1>6, <1>9, Zenon DEF exec
<1> QED
  BY <1>7, <1>8, <1>9, RuleFields, Zenon

(***************************************************************************)
(* The generic DWARF path promises less: its return address need not be    *)
(* in the stack.                                                           *)
(***************************************************************************)
LEMMA GenericSound ==
    ASSUME NEW kind, NEW build, NEW r \in Registers, NEW stack \in [Addresses -> Values],
           NEW cfa \in Values, NEW bp \in StackValues \cup {Unknown},
           NEW ra \in StackValues \cup {Unknown}
    PROVE  Sound(unwind_frame_generic(kind = "InstructionPointer", r, cfa, bp, ra, stack, build),
                 kind, r)
<1> DEFINE first == kind = "InstructionPointer"
           o == unwind_frame_generic(first, r, cfa, bp, ra, stack, build)
           return_address == IF ra = Unknown THEN stack[Below(cfa)] ELSE ra
           new_bp == IF bp = Unknown THEN r.bp ELSE bp
           new_regs == [ip |-> return_address, sp |-> cfa, bp |-> new_bp]
           panics == cfa # Unknown /\ ra = Unknown /\ cfa < Word /\ build = "checked"
           fails == \/ cfa = Unknown
                    \/ return_address = Unreadable
                    \/ cfa = r.sp /\ return_address = r.ip
                    \/ ~first /\ cfa < r.sp
<1>1. Sound(Stop("Panic", r), kind, r)
  BY PlainStopSound, Zenon DEF RuleSound, Errors
<1>2. Sound(exec(fallback_rule, first, r, stack, build), kind, r)
  <2>1. fallback_rule \in UnwindRuleX86_64
    BY Zenon DEF fallback_rule, UnwindRuleX86_64
  <2> QED
    BY <2>1, ExecSound, Zenon DEF RuleSound
<1>3. ASSUME ~fails PROVE Sound(Unwound(return_address, new_regs), kind, r)
  <2>1. cfa \in Addresses /\ r.sp \in Addresses /\ r.bp \in Addresses
    BY <1>3, Zenon DEF Values, Unknown, Unreadable, Registers
  <2>2. return_address \in Addresses /\ new_bp \in Addresses
    BY <1>3, <2>1, BelowTyped, WalkAssumption, Zenon DEF Values
  <2>3. new_regs \in Registers /\ new_regs.sp = cfa /\ new_regs.ip = return_address
    BY <2>1, <2>2, Zenon DEF Registers
  <2>4. kind # "InstructionPointer" => cfa >= r.sp
    BY <1>3, <2>1 DEF Addresses
  <2>5. ~(cfa = r.sp /\ return_address = r.ip)
    BY <1>3, Zenon
  <2> HIDE DEF new_regs, return_address
  <2> QED
    BY <2>2, <2>3, <2>4, <2>5, Zenon DEF Sound, Unwound
<1>4. o = IF panics THEN Stop("Panic", r)
          ELSE IF fails THEN exec(fallback_rule, first, r, stack, build)
          ELSE Unwound(return_address, new_regs)
  BY Zenon DEF unwind_frame_generic
<1> HIDE DEF o, panics, fails, return_address, new_regs
<1>5. Sound(o, kind, r)
  BY <1>1, <1>2, <1>3, <1>4, Zenon
<1> QED
  BY <1>5, Zenon DEF o

(***************************************************************************)
(* A step that keeps the types and never stands still.                     *)
(***************************************************************************)
Moves ==
    frame.kind = "ReturnAddress" =>
        /\ regs'.sp >= regs.sp
        /\ frames' > frames => <<regs'.sp, regs'.ip>> # <<regs.sp, regs.ip>>

StateTyped == TypeOK /\ (state = "Initial" => frame.kind = "InstructionPointer")

LEMMA SoundStep ==
    ASSUME StateTyped, NEW o, Sound(o, frame.kind, regs), next_unwinding(o), UNCHANGED memory
    PROVE  StateTyped' /\ Moves
<1> USE DEF StateTyped, TypeOK
<1>1. /\ state = "Unwinding" /\ regs' = o.regs
      /\ regs.sp \in Nat /\ regs'.sp \in Nat /\ regs' \in Registers
  BY DEF next_unwinding, Sound, Registers, Addresses
<1>2. CASE /\ o.result = "Some" /\ o.address # 0
           /\ frame' = [kind |-> "ReturnAddress", address |-> o.address]
           /\ result' = "Some" /\ frames' = frames + 1 /\ UNCHANGED state
  <2>1. TypeOK'
    BY <1>1, <1>2 DEF Sound, IteratorResults
  <2>2. Moves
    BY <1>1, <1>2, Zenon DEF Sound, Moves
  <2> QED
    BY <1>1, <1>2, <2>1, <2>2, Zenon
<1>3. CASE /\ result' \in {"None"} \cup Errors
           /\ state' \in {state, "Done"} /\ UNCHANGED <<frame, frames>>
  <2>1. TypeOK'
    BY <1>1, <1>3, Zenon DEF IteratorResults
  <2>2. Moves
    BY <1>1, <1>3 DEF Sound, Moves
  <2> QED
    BY <1>1, <1>3, <2>1, <2>2, Zenon
<1> QED
  BY <1>2, <1>3, Zenon DEF next_unwinding, Errors

LEMMA QuietStep ==
    ASSUME StateTyped, next_initial \/ next_done, UNCHANGED memory
    PROVE  StateTyped' /\ Moves
<1> USE DEF StateTyped, TypeOK, Moves, IteratorResults
<1>1. regs.sp \in Nat
  BY DEF Registers, Addresses
<1>2. CASE next_initial
  BY <1>1, <1>2 DEF next_initial
<1>3. CASE next_done
  BY <1>1, <1>3 DEF next_done
<1> QED
  BY <1>2, <1>3, Zenon

LEMMA AnyStep == ASSUME StateTyped, [Next]_vars PROVE StateTyped' /\ Moves
<1>1. CASE (next_initial \/ next_done) /\ UNCHANGED memory
  BY <1>1, QuietStep, Zenon
<1>2. ASSUME NEW rule \in UnwindRuleX86_64, NEW build \in Builds, unwind_by(rule, build),
             UNCHANGED memory
      PROVE  StateTyped' /\ Moves
  <2>1. Sound(exec(rule, is_first_frame, regs, memory, build), frame.kind, regs)
    BY ExecSound, Zenon DEF is_first_frame, StateTyped, TypeOK, RuleSound
  <2> QED
    BY <1>2, <2>1, SoundStep, Zenon DEF unwind_by
<1>3. ASSUME NEW cfa \in Values, NEW bp \in StackValues \cup {Unknown},
             NEW ra \in StackValues \cup {Unknown}, NEW build \in Builds,
             unwind_generically(cfa, bp, ra, build), UNCHANGED memory
      PROVE  StateTyped' /\ Moves
  <2>1. Sound(unwind_frame_generic(is_first_frame, regs, cfa, bp, ra, memory, build),
              frame.kind, regs)
    BY GenericSound, Zenon DEF is_first_frame, StateTyped, TypeOK
  <2> QED
    BY <1>3, <2>1, SoundStep, Zenon DEF unwind_generically
<1>4. CASE UNCHANGED vars
  BY <1>4 DEF vars, StateTyped, TypeOK, Moves, Registers, Addresses
<1> QED
  BY <1>1, <1>2, <1>3, <1>4, Zenon DEF Next, NextByRules

LEMMA TypedInit == Init => StateTyped
  BY WordsAssumption, WalkAssumption
     DEF Init, iter_frames, StateTyped, TypeOK, IteratorResults, Registers

(***************************************************************************)
(* Every walk of an x86_64 stack stays within its types, whatever rules    *)
(* and whatever CFI it meets: exec and the generic path only put readable  *)
(* words and checked sums into the registers.                              *)
(***************************************************************************)
THEOREM WalksAreTyped == Spec => []TypeOK
<1>1. StateTyped => TypeOK
  BY Zenon DEF StateTyped
<1> QED
  BY <1>1, TypedInit, AnyStep, PTL DEF Spec

(***************************************************************************)
(* No walk of an x86_64 stack moves down or stands still past the first    *)
(* frame: the checks at the end of exec and of the generic path, and the   *)
(* errors that leave the registers alone, are enough.                      *)
(***************************************************************************)
THEOREM WalksNeverStandStill == Spec => NeverStandsStill
<1>1. StateTyped /\ [Next]_vars => [Moves]_vars
  BY AnyStep, Zenon
<1> QED
  BY <1>1, TypedInit, AnyStep, PTL DEF Spec, NeverStandsStill, Moves

-----------------------------------------------------------------------------
(***************************************************************************)
(* Walks in which every frame has a rule.  FramesBounded is not inductive: *)
(* that a step which returns a frame moves the stack pointer up follows    *)
(* only because the code address is also what the stack has below the old  *)
(* stack pointer, so standing still would repeat the code address.         *)
(***************************************************************************)
RulesInv ==
    /\ StateTyped
    /\ IpIsBelowSp
    /\ FramesBounded
    /\ state = "Initial" => frames = 0

LEMMA RuleStep ==
    ASSUME RulesInv, NEW o, RuleSound(o, frame.kind, regs, memory), next_unwinding(o),
           UNCHANGED memory
    PROVE  RulesInv'
<1> USE DEF RulesInv, RuleSound
<1>1. StateTyped'
  BY SoundStep, Zenon
<1>2. /\ state = "Unwinding" /\ regs' = o.regs /\ regs.sp \in Nat /\ regs'.sp \in Nat
      /\ frames \in Nat /\ frame.kind \in {"InstructionPointer", "ReturnAddress"}
  BY DEF next_unwinding, Sound, Registers, Addresses, StateTyped, TypeOK
<1>3. CASE /\ o.result = "Some" /\ o.address # 0
           /\ frame' = [kind |-> "ReturnAddress", address |-> o.address]
           /\ result' = "Some" /\ frames' = frames + 1 /\ UNCHANGED state
  <2>1. IpIsBelowSp'
    BY <1>2, <1>3, Zenon DEF FromStack, IpIsBelowSp
  <2>2. ASSUME frame.kind = "ReturnAddress" PROVE regs'.sp > regs.sp
    <3>1. regs'.sp >= regs.sp /\ <<regs'.sp, regs'.ip>> # <<regs.sp, regs.ip>>
      BY <1>2, <1>3, Zenon DEF FromStack, Sound
    <3>2. regs'.ip = memory[Below(regs'.sp)] /\ regs.ip = memory[Below(regs.sp)]
      BY <1>2, <1>3, <2>2, Zenon DEF FromStack, IpIsBelowSp
    <3> QED
      BY <1>2, <3>1, <3>2
  <2>3. frames + 1 <= regs'.sp + 2
    BY <1>2, <2>2 DEF FramesBounded
  <2> QED
    BY <1>1, <1>2, <1>3, <2>1, <2>3, Zenon DEF FramesBounded
<1>4. CASE /\ o.result # "Some"
           /\ state' \in {state, "Done"} /\ UNCHANGED <<frame, frames>>
  <2>1. regs'.sp = regs.sp /\ regs'.ip = regs.ip
    BY <1>2, <1>4, Zenon DEF Sound
  <2> QED
    BY <1>1, <1>2, <1>4, <2>1, Zenon DEF FramesBounded, IpIsBelowSp
<1>5. o.result = "Some" => o.address # 0
  BY Zenon DEF FromStack
<1> QED
  BY <1>3, <1>4, <1>5, Zenon DEF next_unwinding, Errors

LEMMA RulesStep == ASSUME RulesInv, [NextByRules]_vars PROVE RulesInv'
<1>1. CASE (next_initial \/ next_done) /\ UNCHANGED memory
  <2>1. StateTyped'
    BY <1>1, QuietStep, Zenon DEF RulesInv
  <2> QED
    BY <1>1, <2>1 DEF RulesInv, StateTyped, next_initial, next_done, IpIsBelowSp, FramesBounded
<1>2. ASSUME NEW rule \in UnwindRuleX86_64, NEW build \in Builds, unwind_by(rule, build),
             UNCHANGED memory
      PROVE  RulesInv'
  <2>1. RuleSound(exec(rule, is_first_frame, regs, memory, build), frame.kind, regs, memory)
    BY ExecSound, Zenon DEF is_first_frame, RulesInv, StateTyped, TypeOK
  <2> QED
    BY <1>2, <2>1, RuleStep, Zenon DEF unwind_by
<1>3. CASE UNCHANGED vars
  BY <1>3, Zenon DEF vars, RulesInv, StateTyped, TypeOK, IpIsBelowSp, FramesBounded
<1> QED
  BY <1>1, <1>2, <1>3, Zenon DEF NextByRules

LEMMA RulesInit == Init => RulesInv
<1> SUFFICES ASSUME Init PROVE RulesInv
  OBVIOUS
<1>1. StateTyped
  BY TypedInit, Zenon
<1>2. frames = 0 /\ frame.kind = "InstructionPointer"
  BY DEF Init, iter_frames
<1> QED
  BY <1>1, <1>2 DEF RulesInv, IpIsBelowSp, FramesBounded

(***************************************************************************)
(* When every frame has a rule, the code address of each frame is below    *)
(* its stack pointer and a walk yields at most as many frames as there are *)
(* stack pointer values, plus two: the comparison of return address and    *)
(* stack pointer at the end of exec rules out every loop.                  *)
(***************************************************************************)
THEOREM RuleWalksAreBounded == SpecByRules => [](IpIsBelowSp /\ FramesBounded)
<1>1. RulesInv => IpIsBelowSp /\ FramesBounded
  BY Zenon DEF RulesInv
<1> QED
  BY <1>1, RulesInit, RulesStep, PTL DEF SpecByRules

-----------------------------------------------------------------------------
(***************************************************************************)
(* ip is set together with the return address, and by nothing else.        *)
(***************************************************************************)
SetsIp(o) == o.result = "Some" => o.regs.ip = o.address

LEMMA FinishSetsIp ==
    ASSUME NEW r, NEW bp, NEW new_sp, NEW new_bp, NEW stack, NEW build
    PROVE  SetsIp(Finish(r, bp, new_sp, new_bp, stack, build))
  BY Zenon DEF SetsIp, Finish, Stop, Unwound

LEMMA ExecSetsIp ==
    ASSUME NEW rule \in UnwindRuleX86_64, NEW first, NEW build, NEW r, NEW stack
    PROVE  SetsIp(exec(rule, first, r, stack, build))
<1>1. ASSUME NEW reason \in {"None"} \cup Errors, NEW new_regs PROVE SetsIp(Stop(reason, new_regs))
  BY <1>1, Zenon DEF SetsIp, Stop, Errors
<1>2. {"CouldNotReadStack", "IntegerOverflow", "FramepointerUnwindingMovedBackwards"} \subseteq Errors
  BY Zenon DEF Errors
<1>3. SetsIp(exec_frame_pointer(r, stack, build))
  BY <1>1, <1>2, FinishSetsIp, Zenon DEF exec_frame_pointer
<1>4. SetsIp(exec_offset(rule, r, stack, build)) /\ SetsIp(exec_offset(JustReturn, r, stack, build))
  BY <1>1, <1>2, FinishSetsIp, Zenon DEF exec_offset
<1>5. SetsIp(exec_restore_bp(rule, first, r, stack, build))
  BY <1>1, <1>2, FinishSetsIp, Zenon DEF exec_restore_bp
<1>6. SetsIp(exec_pop(rule, r, stack, build))
  BY <1>1, <1>2, FinishSetsIp, Zenon DEF exec_pop
<1>7. CASE rule.kind \in {"EndOfStack", "UseFramePointer"}
  BY <1>1, <1>3, <1>7, Zenon DEF exec
<1>8. CASE rule.kind \in {"OffsetSp", "JustReturnIfFirstFrameOtherwiseFp"}
  BY <1>3, <1>4, <1>8, Zenon DEF exec
<1>9. CASE rule.kind \in {"OffsetSpAndRestoreBp", "OffsetSpAndPopRegisters"}
  BY <1>5, <1>6, <1>9, Zenon DEF exec
<1> QED
  BY <1>7, <1>8, <1>9, RuleFields, Zenon

LEMMA GenericSetsIp ==
    ASSUME NEW first, NEW build, NEW r, NEW stack, NEW cfa, NEW bp, NEW ra
    PROVE  SetsIp(unwind_frame_generic(first, r, cfa, bp, ra, stack, build))
<1>1. SetsIp(exec(fallback_rule, first, r, stack, build))
  BY ExecSetsIp, Zenon DEF fallback_rule, UnwindRuleX86_64
<1>2. SetsIp(Stop("Panic", r)) /\ \A a, new_sp, new_bp :
        SetsIp(Unwound(a, [ip |-> a, sp |-> new_sp, bp |-> new_bp]))
  BY Zenon DEF SetsIp, Stop, Unwound
<1> QED
  BY <1>1, <1>2, Zenon DEF unwind_frame_generic

KeepsFrame ==
    result' \in Errors \ {"ReturnAddressIsNull"} =>
        regs'.ip = regs.ip /\ regs'.sp = regs.sp /\ frame' = frame

LEMMA IpStep ==
    ASSUME IpIsFrameAddress, NEW o, Sound(o, frame.kind, regs), SetsIp(o), next_unwinding(o)
    PROVE  IpIsFrameAddress' /\ KeepsFrame
<1>1. regs' = o.regs /\ (o.result # "Some" => o.regs.ip = regs.ip /\ o.regs.sp = regs.sp)
  BY Zenon DEF next_unwinding, Sound
<1>2. CASE o.result = "Some"
  BY <1>1, <1>2 DEF next_unwinding, SetsIp, IpIsFrameAddress, KeepsFrame, Errors
<1>3. CASE o.result # "Some"
  BY <1>1, <1>3, Zenon DEF next_unwinding, IpIsFrameAddress, KeepsFrame
<1> QED
  BY <1>2, <1>3, Zenon

LEMMA AnyIpStep ==
    ASSUME StateTyped, IpIsFrameAddress, [Next]_vars
    PROVE  IpIsFrameAddress' /\ [KeepsFrame]_vars
<1>1. CASE (next_initial \/ next_done) /\ UNCHANGED memory
  BY <1>1, Zenon DEF next_initial, next_done, IpIsFrameAddress, KeepsFrame, Errors
<1>2. ASSUME NEW rule \in UnwindRuleX86_64, NEW build \in Builds, unwind_by(rule, build)
      PROVE  IpIsFrameAddress' /\ KeepsFrame
  <2>1. Sound(exec(rule, is_first_frame, regs, memory, build), frame.kind, regs)
    BY ExecSound, Zenon DEF is_first_frame, StateTyped, TypeOK, RuleSound
  <2> QED
    BY <1>2, <2>1, ExecSetsIp, IpStep, Zenon DEF unwind_by
<1>3. ASSUME NEW cfa \in Values, NEW bp \in StackValues \cup {Unknown},
             NEW ra \in StackValues \cup {Unknown}, NEW build \in Builds,
             unwind_generically(cfa, bp, ra, build)
      PROVE  IpIsFrameAddress' /\ KeepsFrame
  <2>1. Sound(unwind_frame_generic(is_first_frame, regs, cfa, bp, ra, memory, build),
              frame.kind, regs)
    BY GenericSound, Zenon DEF is_first_frame, StateTyped, TypeOK
  <2> QED
    BY <1>3, <2>1, GenericSetsIp, IpStep, Zenon DEF unwind_generically
<1>4. CASE UNCHANGED vars
  BY <1>4, Zenon DEF vars, IpIsFrameAddress
<1> QED
  BY <1>1, <1>2, <1>3, <1>4, Zenon DEF Next, NextByRules

LEMMA IpInit == Init => IpIsFrameAddress
  BY DEF Init, iter_frames, IpIsFrameAddress

(***************************************************************************)
(* The ip in the registers is the code address of the frame they belong    *)
(* to, whatever rules and CFI the walk meets.                              *)
(***************************************************************************)
THEOREM WalksKeepIp == Spec => []IpIsFrameAddress
  BY IpInit, TypedInit, AnyStep, AnyIpStep, PTL DEF Spec

(***************************************************************************)
(* An error leaves ip, sp and the frame alone, so that the caller may call *)
(* next again.                                                             *)
(***************************************************************************)
THEOREM WalksKeepFrameOnError == Spec => ErrorsKeepFrame
<1>1. StateTyped /\ IpIsFrameAddress /\ [Next]_vars => [KeepsFrame]_vars
  BY AnyIpStep, Zenon
<1> QED
  BY <1>1, IpInit, TypedInit, AnyStep, AnyIpStep, PTL DEF Spec, ErrorsKeepFrame, KeepsFrame

(***************************************************************************)
(* When every frame has a rule, the code address of a frame is still in    *)
(* the stack, just below the stack pointer.                                *)
(***************************************************************************)
THEOREM RuleWalksReadIpBelowSp == SpecByRules => []IpIsBelowSp
  BY RuleWalksAreBounded, PTL

-----------------------------------------------------------------------------
LEMMA GetTyped == ASSUME NEW r \in Registers PROVE get(r) \in [DwarfRegisters -> Values]
  BY Zenon DEF get, Registers, Values, Unknown, Unreadable

LEMMA TranslationTyped ==
    ASSUME NEW row \in Rows
    PROVE  translate_into_unwind_rule(row) \in UnwindRuleX86_64 \cup {NoRule}
<1>1. ASSUME NEW offset, NEW bp PROVE FromSp(offset, bp) \in UnwindRuleX86_64 \cup {NoRule}
  BY Zenon DEF FromSp, UnwindRuleX86_64
<1>2. ASSUME NEW offset, NEW bp PROVE FromBp(offset, bp) \in UnwindRuleX86_64 \cup {NoRule}
  BY Zenon DEF FromBp, UnwindRuleX86_64
<1>3. Rule("EndOfStack", 0) \in UnwindRuleX86_64
  BY Zenon DEF UnwindRuleX86_64
<1> QED
  BY <1>1, <1>2, <1>3, Zenon DEF translate_into_unwind_rule

(***************************************************************************)
(* A step of a walk by CFI is a step of a walk: it executes a rule, or it  *)
(* takes the generic path with what its row evaluates to.                  *)
(***************************************************************************)
LEMMA CfiStep ==
    ASSUME StackValues = Addresses, StateTyped, [NextByCfi]_vars
    PROVE  [Next]_vars
<1>1. regs \in Registers /\ memory \in [Addresses -> Values]
  BY Zenon DEF StateTyped, TypeOK
<1>2. ASSUME NEW rule \in UnwindRuleX86_64, NEW build \in Builds, unwind_by(rule, build),
             UNCHANGED memory
      PROVE  Next
  BY <1>2, Zenon DEF Next, NextByRules
<1>3. ASSUME NEW row \in Rows, NEW build \in Builds, unwind_by_row(row, build),
             UNCHANGED memory
      PROVE  Next
  <2> DEFINE cfa == eval_cfa_rule(row.cfa, get(regs))
             bp == eval_register_rule(row.bp, cfa, regs.bp, get(regs), memory)
             ra == eval_register_rule(row.ra, cfa, regs.ip, get(regs), memory)
  <2>1. CASE translate_into_unwind_rule(row) # NoRule
    BY <1>2, <1>3, <2>1, TranslationTyped, Zenon DEF unwind_by_row
  <2>2. CASE translate_into_unwind_rule(row) = NoRule
    <3>1. row.cfa \in CfaRules /\ row.bp \in RegisterRules /\ row.ra \in RegisterRules
      BY Zenon DEF Rows
    <3>2. regs.bp \in Addresses /\ regs.ip \in Addresses
      BY <1>1, Zenon DEF Registers
    <3>3. cfa \in Values
      BY <1>1, <3>1, GetTyped, CfaTyped, Zenon
    <3>4. bp \in Values /\ ra \in Values
      BY <1>1, <3>1, <3>2, <3>3, GetTyped, RegisterTyped, Zenon
    <3>5. frames < MaxFrames /\ unwind_generically(cfa, bp, ra, build)
      BY <1>3, <2>2, Zenon DEF unwind_by_row, evaluate, unwind_generically
    <3>6. Values = StackValues \cup {Unknown}
      BY Zenon DEF Values, Unknown, Unreadable
    <3> HIDE DEF cfa, bp, ra
    <3> QED
      BY <1>3, <3>3, <3>4, <3>5, <3>6, Zenon DEF Next
  <2> QED
    BY <2>1, <2>2, Zenon
<1>4. rule_if_uncovered_by_fde \in UnwindRuleX86_64 /\ fallback_rule \in UnwindRuleX86_64
  BY Zenon DEF rule_if_uncovered_by_fde, fallback_rule, UnwindRuleX86_64
<1>5. CASE (next_initial \/ next_done) /\ UNCHANGED memory
  BY <1>5, Zenon DEF Next, NextByRules
<1>6. CASE UNCHANGED vars
  BY <1>6, Zenon
<1> QED
  BY <1>2, <1>3, <1>4, <1>5, <1>6, Zenon DEF NextByCfi

(***************************************************************************)
(* Every walk by CFI is a walk of X86Iterator, for every CFI, stack and    *)
(* size of the address space.                                              *)
(***************************************************************************)
THEOREM CfiImplementsWalk ==
    ASSUME StackValues = Addresses
    PROVE  SpecByCfi => CfiWalksAreWalks
<1>1. StateTyped /\ [NextByCfi]_vars => [Next]_vars
  BY CfiStep, Zenon
<1>2. StateTyped /\ [NextByCfi]_vars => StateTyped'
  BY CfiStep, AnyStep, Zenon
<1> QED
  BY <1>1, <1>2, TypedInit, PTL DEF SpecByCfi, Spec, CfiWalksAreWalks

(***************************************************************************)
(* So no walk by CFI stands still or moves down past the first frame.      *)
(***************************************************************************)
THEOREM CfiWalksNeverStandStill ==
    ASSUME StackValues = Addresses
    PROVE  SpecByCfi => NeverStandsStill
  BY CfiImplementsWalk, WalksNeverStandStill, PTL DEF CfiWalksAreWalks

(***************************************************************************)
(* And the ip in its registers is always the code address of the frame, or *)
(* 0: both paths set it when they return an address.                       *)
(***************************************************************************)
THEOREM CfiWalksKeepIp ==
    ASSUME StackValues = Addresses
    PROVE  SpecByCfi => []IpIsFrameAddress
  BY CfiImplementsWalk, WalksKeepIp, PTL DEF CfiWalksAreWalks

-----------------------------------------------------------------------------
(***************************************************************************)
(* The two implementations of a row: what its translation makes of the     *)
(* offsets, whose quotients are exact.                                     *)
(***************************************************************************)
FromSpRow(row, rule) ==
    /\ row.cfa.register = "RSP"
    /\ rule.sp \in UOffsets /\ rule.sp * Word = row.cfa.offset
    /\ \/ IsKept(row.bp) /\ rule.kind = "OffsetSp"
       \/ /\ IsStored(row.bp) /\ rule.kind = "OffsetSpAndRestoreBp"
          /\ rule.bp \in IOffsets /\ rule.bp * Word = row.cfa.offset + row.bp.offset

FromBpRow(row, rule) ==
    /\ row.cfa.register = "RBP"
    /\ row.cfa.offset = 2 * Word /\ IsStored(row.bp) /\ row.bp.offset = -2 * Word
    /\ rule.kind = "UseFramePointer"

LEMMA TranslatedShape ==
    ASSUME NEW row \in Translated
    PROVE  /\ row.cfa \in CfaRules /\ row.bp \in RegisterRules /\ row.ra \in RegisterRules
           /\ row.cfa.kind # "Expression" /\ row.cfa.offset \in Int
           /\ IsStored(row.ra) /\ row.ra.offset = -Word
           /\ IsStored(row.bp) => row.bp.offset \in Int
           /\ \/ FromSpRow(row, translate_into_unwind_rule(row))
              \/ FromBpRow(row, translate_into_unwind_rule(row))
<1> DEFINE rule == translate_into_unwind_rule(row)
           offset == row.cfa.offset
<1>1. /\ row.cfa \in CfaRules /\ row.bp \in RegisterRules /\ row.ra \in RegisterRules
      /\ rule # NoRule /\ rule # Rule("EndOfStack", 0) /\ Aligned(row)
  BY Zenon DEF Translated, Rows
<1>2. /\ row.ra.kind # "Undefined" /\ IsStored(row.ra) /\ row.cfa.kind # "Expression"
      /\ row.ra.offset = -Word
      /\ \/ row.cfa.register = "RSP" /\ rule = FromSp(offset, row.bp)
         \/ row.cfa.register = "RBP" /\ rule = FromBp(offset, row.bp)
  BY <1>1, Zenon DEF translate_into_unwind_rule
<1>3. offset \in Int /\ (IsStored(row.bp) => row.bp.offset \in Int)
  BY <1>1, <1>2, CfiAssumption, Zenon DEF IsStored
<1>4. offset % Word = 0 /\ (IsStored(row.bp) => row.bp.offset % Word = 0)
  BY <1>1, Zenon DEF Aligned
<1>5. Quotient(offset, Word) * Word = offset
  BY <1>3, <1>4, QuotientExact, WordsAssumption, Zenon
<1>6. ASSUME IsStored(row.bp)
      PROVE  Quotient(offset + row.bp.offset, Word) * Word = offset + row.bp.offset
  <2> DEFINE distance == offset + row.bp.offset
  <2>1. PICK p \in Int : offset = Word * p
    BY <1>3, <1>4, MultipleOf, WordsAssumption, Zenon
  <2>2. PICK q \in Int : row.bp.offset = Word * q
    BY <1>3, <1>4, <1>6, MultipleOf, WordsAssumption, Zenon
  <2>3. p + q \in Int /\ distance = Word * (p + q) /\ distance \in Int
    BY <1>3, <1>6, <2>1, <2>2, WordsAssumption
  <2> HIDE DEF distance
  <2>4. distance % Word = 0
    BY <2>3, MultipleOf, WordsAssumption, Zenon
  <2>5. Quotient(distance, Word) * Word = distance
    BY <2>3, <2>4, QuotientExact, WordsAssumption, Zenon
  <2> QED
    BY <2>5, Zenon DEF distance
<1>7. ASSUME row.cfa.register = "RSP", rule = FromSp(offset, row.bp) PROVE FromSpRow(row, rule)
  BY <1>1, <1>5, <1>6, <1>7 DEF FromSp, FromSpRow, Rule
<1>8. ASSUME row.cfa.register = "RBP", rule = FromBp(offset, row.bp) PROVE FromBpRow(row, rule)
  BY <1>1, <1>8 DEF FromBp, FromBpRow, Rule
<1> QED
  BY <1>1, <1>2, <1>3, <1>7, <1>8, Zenon

OrKept(value, val) == IF value = Unknown THEN val ELSE value

CfaOf(row, r) == eval_cfa_rule(row.cfa, get(r))

BpOf(row, r, m) == OrKept(eval_register_rule(row.bp, CfaOf(row, r), r.bp, get(r), m), r.bp)

Evaluated(cfa, address, new_bp, first, r, m, build) ==
    IF cfa < Word /\ build = "checked" THEN Stop("Panic", r)
    ELSE IF \/ address = Unreadable
            \/ cfa = r.sp /\ address = r.ip
            \/ ~first /\ cfa < r.sp
         THEN exec(fallback_rule, first, r, m, build)
    ELSE Unwound(address, [ip |-> address, sp |-> cfa, bp |-> new_bp])

(***************************************************************************)
(* What evaluating a row whose return address is stored below the cfa      *)
(* does: it is then read there, by the rule for it or without.             *)
(***************************************************************************)
LEMMA SlowPath ==
    ASSUME NEW row, IsStored(row.ra), row.ra.offset = -Word, NEW first, NEW build,
           NEW r \in Registers, NEW m \in [Addresses -> Values],
           CfaOf(row, r) \in Addresses, CfaOf(row, r) < Half
    PROVE  evaluate(row, first, r, m, build) =
             Evaluated(CfaOf(row, r), m[Below(CfaOf(row, r))], BpOf(row, r, m), first, r, m, build)
<1> DEFINE cfa == CfaOf(row, r)
           address == m[Below(cfa)]
           new_bp == BpOf(row, r, m)
<1> SUFFICES evaluate(row, first, r, m, build) = Evaluated(cfa, address, new_bp, first, r, m, build)
  OBVIOUS
<1> HIDE DEF cfa, address, new_bp
<1> DEFINE ra == eval_register_rule(row.ra, cfa, r.ip, get(r), m)
           bp == eval_register_rule(row.bp, cfa, r.bp, get(r), m)
<1>1. Half \in Int /\ Word \in Nat \ {0} /\ cfa \in Nat /\ cfa < Half
  BY WordsAssumption DEF Half, Addresses, cfa
<1>2. ra = ReadAt(SignedSum(cfa, -Word), m)
  BY Zenon DEF IsStored, eval_register_rule
<1>3. CASE cfa < Word
  <2>1. SignedSum(cfa, -Word) = Unknown
    BY <1>1, <1>3 DEF SignedSum
  <2>2. ra = Unknown
    BY <1>2, <2>1, Zenon DEF ReadAt
  <2> HIDE DEF ra, bp
  <2>3. evaluate(row, first, r, m, build) = unwind_frame_generic(first, r, cfa, bp, ra, m, build)
    BY Zenon DEF evaluate, ra, bp, cfa, CfaOf
  <2>4. cfa # Unknown
    BY <1>1 DEF Unknown
  <2>5. new_bp = IF bp = Unknown THEN r.bp ELSE bp
    BY Zenon DEF OrKept, bp, new_bp, BpOf, cfa
  <2> QED
    BY <1>3, <2>2, <2>3, <2>4, <2>5, Zenon DEF unwind_frame_generic, Evaluated, address
<1>4. CASE ~(cfa < Word)
  <2>1. SignedSum(cfa, -Word) = cfa - Word /\ Below(cfa) = cfa - Word /\ cfa - Word # Unknown
    BY <1>1, <1>4 DEF SignedSum, Below, Unknown
  <2>2. ra = address
    BY <1>2, <2>1, Zenon DEF ReadAt, address
  <2> HIDE DEF ra, bp
  <2>3. evaluate(row, first, r, m, build) = unwind_frame_generic(first, r, cfa, bp, ra, m, build)
    BY Zenon DEF evaluate, ra, bp, cfa, CfaOf
  <2>4. cfa # Unknown
    BY <1>1 DEF Unknown
  <2>5. new_bp = IF bp = Unknown THEN r.bp ELSE bp
    BY Zenon DEF OrKept, bp, new_bp, BpOf, cfa
  <2> QED
    BY <1>4, <2>2, <2>3, <2>4, <2>5, Zenon DEF unwind_frame_generic, Evaluated, address
<1> QED
  BY <1>3, <1>4, Zenon

LEMMA FinishSome ==
    ASSUME NEW r, NEW bp, NEW new_sp, NEW new_bp, NEW m, NEW build,
           NEW address, address = m[Below(new_sp)]
    PROVE  LET o == Finish(r, bp, new_sp, new_bp, m, build)
               fails == \/ new_sp < Word /\ build = "checked"
                        \/ address = Unreadable \/ address = 0
                        \/ new_sp = r.sp /\ address = r.ip
           IN  /\ o.result = "Some" => ~fails
               /\ ~fails => o = Unwound(address, [ip |-> address, sp |-> new_sp, bp |-> new_bp])
  BY Zenon DEF Finish, Stop, Unwound

LEMMA EvaluateSome ==
    ASSUME NEW row, IsStored(row.ra), row.ra.offset = -Word, NEW first, NEW build,
           NEW r \in Registers, NEW m \in [Addresses -> Values],
           CfaOf(row, r) \in Addresses, CfaOf(row, r) < Half,
           evaluate(row, first, r, m, build).result = "Some",
           evaluate(row, first, r, m, build).address # 0,
           evaluate(row, first, r, m, build) # exec(fallback_rule, first, r, m, build)
    PROVE  evaluate(row, first, r, m, build) = Finish(r, r.bp, CfaOf(row, r), BpOf(row, r, m), m, build)
<1> DEFINE slow == evaluate(row, first, r, m, build)
           cfa == CfaOf(row, r)
           address == m[Below(cfa)]
           new_bp == BpOf(row, r, m)
<1>0. slow = Evaluated(cfa, address, new_bp, first, r, m, build)
  BY SlowPath, Zenon
<1>1. ~(cfa < Word /\ build = "checked")
  BY <1>0 DEF Evaluated, Stop
<1>2. /\ address # Unreadable /\ ~(cfa = r.sp /\ address = r.ip)
      /\ slow = Unwound(address, [ip |-> address, sp |-> cfa, bp |-> new_bp])
  BY <1>0, <1>1, Zenon DEF Evaluated
<1>3. address # 0
  BY <1>2 DEF Unwound
<1> QED
  BY <1>1, <1>2, <1>3, Zenon DEF Finish

PlaceOf(r, i) == checked_add_signed(r.sp, i * Word)

ValueOf(rule, offset, r, m) == eval_register_rule(rule, r.sp + offset, r.bp, get(r), m)

(***************************************************************************)
(* The rule of a row that counts from sp ends with the cfa and the bp of   *)
(* the row, if it gets that far.                                           *)
(***************************************************************************)
LEMMA StoredBp ==
    ASSUME NEW r \in Registers, NEW m \in [Addresses -> Values],
           NEW offset \in Int, NEW rule \in RegisterRules, IsStored(rule), rule.offset \in Int,
           NEW i \in IOffsets, i * Word = offset + rule.offset,
           r.sp + offset >= 0, r.sp + offset < Half,
           ValueOf(rule, offset, r, m) # Unknown
             \/ (/\ PlaceOf(r, i) # Overflow
                 /\ \A a \in Addresses : a >= Half => m[a] = Unreadable)
    PROVE  PlaceOf(r, i) \in Addresses /\ ValueOf(rule, offset, r, m) = m[PlaceOf(r, i)]
<1> DEFINE distance == offset + rule.offset
           location == PlaceOf(r, i)
           value == ValueOf(rule, offset, r, m)
<1> SUFFICES location \in Addresses /\ value = m[location]
  OBVIOUS
<1>0. /\ location = checked_add_signed(r.sp, i * Word)
      /\ value = eval_register_rule(rule, r.sp + offset, r.bp, get(r), m)
      /\ \/ value # Unknown
         \/ location # Overflow /\ \A a \in Addresses : a >= Half => m[a] = Unreadable
  BY Zenon DEF PlaceOf, ValueOf
<1> HIDE DEF location, value
<1>1. distance \in Int /\ -AddrSpace < distance /\ distance < AddrSpace
  BY OffsetsAssumption
<1>2. r.sp \in Addresses /\ r.sp \in Nat /\ Half \in Int /\ Half <= AddrSpace /\ AddrSpace \in Nat
  BY WordsAssumption DEF Registers, Addresses, Half
<1>3. location = IF r.sp + distance \in Addresses THEN r.sp + distance ELSE Overflow
  <2>1. location = checked_add_signed(r.sp, distance)
    BY <1>0, Zenon
  <2> HIDE DEF distance
  <2> QED
    BY <1>1, <1>2, <2>1, CheckedAddSigned, Zenon
<1>4. value = ReadAt(SignedSum(r.sp + offset, rule.offset), m)
  BY <1>0, Zenon DEF IsStored, eval_register_rule
<1>5. CASE 0 <= r.sp + distance /\ r.sp + distance < Half
  <2>1. r.sp + distance \in Addresses /\ r.sp + distance # Unknown
    BY <1>1, <1>2, <1>5, SMTT(30) DEF Addresses, Unknown
  <2>2. SignedSum(r.sp + offset, rule.offset) = r.sp + distance
    BY <1>2, <1>5 DEF SignedSum
  <2> QED
    BY <1>3, <1>4, <2>1, <2>2, Zenon DEF ReadAt
<1>6. CASE ~(0 <= r.sp + distance /\ r.sp + distance < Half)
  <2>1. SignedSum(r.sp + offset, rule.offset) = Unknown
    BY <1>2, <1>6 DEF SignedSum
  <2>2. value = Unknown
    BY <1>4, <2>1, Zenon DEF ReadAt
  <2>3. ASSUME location # Overflow PROVE location \in Addresses /\ location >= Half
    BY <1>1, <1>2, <1>3, <1>6, <2>3 DEF Addresses
  <2> QED
    BY <1>0, <2>2, <2>3, Zenon DEF Unknown, Unreadable
<1> QED
  BY <1>5, <1>6, Zenon

LEMMA KeptAgrees ==
    ASSUME NEW row, IsKept(row.bp), NEW r, NEW m
    PROVE  BpOf(row, r, m) = r.bp
  BY Zenon DEF BpOf, IsKept, eval_register_rule, OrKept

(***************************************************************************)
(* When a rule unwinds a frame, it ends with the cfa and the bp of its     *)
(* row, which is not below sp.                                             *)
(***************************************************************************)
LEMMA FastPath ==
    ASSUME NEW row \in Translated, NEW first, NEW build,
           NEW r \in Registers, NEW m \in [Addresses -> Values],
           \A a \in Addresses : a >= Half => m[a] = Unreadable,
           NEW fast, fast = exec(translate_into_unwind_rule(row), first, r, m, build),
           fast.result = "Some", fast.regs.sp < Half
    PROVE  /\ CfaOf(row, r) \in Addresses /\ CfaOf(row, r) < Half /\ CfaOf(row, r) >= r.sp
           /\ fast = Finish(r, r.bp, CfaOf(row, r), BpOf(row, r, m), m, build)
<1> DEFINE rule == translate_into_unwind_rule(row)
           offset == row.cfa.offset
           cfa == CfaOf(row, r)
           new_bp == BpOf(row, r, m)
<1> SUFFICES /\ cfa \in Addresses /\ cfa < Half /\ cfa >= r.sp
             /\ fast = Finish(r, r.bp, cfa, new_bp, m, build)
  OBVIOUS
<1>0. /\ cfa = eval_cfa_rule(row.cfa, get(r))
      /\ new_bp = OrKept(eval_register_rule(row.bp, cfa, r.bp, get(r), m), r.bp)
  BY Zenon DEF CfaOf, BpOf
<1> HIDE DEF cfa, new_bp
<1>1. /\ row.cfa \in CfaRules /\ row.bp \in RegisterRules
      /\ row.cfa.kind # "Expression" /\ offset \in Int
      /\ IsStored(row.bp) => row.bp.offset \in Int
      /\ FromSpRow(row, rule) \/ FromBpRow(row, rule)
  BY TranslatedShape, Zenon
<1>2. /\ r.sp \in Addresses /\ r.bp \in Addresses /\ r.sp \in Nat /\ r.bp \in Nat
      /\ Half \in Int /\ Half <= AddrSpace /\ AddrSpace \in Nat /\ Word \in Nat \ {0}
  BY WordsAssumption DEF Registers, Addresses, Half
<1>3. cfa = SignedSum(get(r)[row.cfa.register], offset)
  BY <1>0, <1>1, Zenon DEF eval_cfa_rule
<1>4. get(r)["RSP"] = r.sp /\ get(r)["RBP"] = r.bp
  BY RegistersAssumption, Zenon DEF get
<1>5. ASSUME NEW base \in Addresses, cfa = SignedSum(base, offset), offset >= 0,
             NEW b, fast = Finish(r, r.bp, base + offset, b, m, build)
      PROVE  cfa = base + offset /\ cfa \in Addresses /\ cfa < Half
  <2>1. fast.regs.sp = base + offset
    BY <1>5, FinishSome DEF Unwound
  <2> QED
    BY <1>1, <1>2, <1>5, <2>1, SMTT(30) DEF SignedSum, Addresses
<1>6. CASE FromSpRow(row, rule)
  <2>1. /\ row.cfa.register = "RSP" /\ rule.sp \in Nat /\ rule.sp * Word = offset
        /\ offset >= 0 /\ cfa = SignedSum(r.sp, offset)
    <3>1. row.cfa.register = "RSP" /\ rule.sp \in Nat /\ rule.sp * Word = offset
      BY <1>6, OffsetsAssumption, Zenon DEF FromSpRow
    <3>2. \A n \in Nat : n * Word >= 0
      BY <1>2
    <3> QED
      BY <1>3, <1>4, <3>1, <3>2, Zenon
  <2>2. ASSUME checked_add(r.sp, offset) # Overflow PROVE checked_add(r.sp, offset) = r.sp + offset
    BY <2>2, Zenon DEF checked_add
  <2>3. CASE IsKept(row.bp) /\ rule.kind = "OffsetSp"
    <3>1. fast = exec_offset(rule, r, m, build)
      BY <2>3, Zenon DEF exec
    <3>2. checked_add(r.sp, offset) # Overflow
      BY <2>1, <3>1 DEF exec_offset, Stop
    <3>3. fast = Finish(r, r.bp, r.sp + offset, r.bp, m, build)
      BY <2>1, <2>2, <3>1, <3>2, Zenon DEF exec_offset
    <3>4. new_bp = r.bp
      BY <2>3, KeptAgrees, Zenon DEF new_bp
    <3> HIDE DEF rule, offset
    <3> QED
      BY <1>1, <1>2, <1>5, <2>1, <3>3, <3>4
  <2>4. CASE /\ IsStored(row.bp) /\ rule.kind = "OffsetSpAndRestoreBp"
             /\ rule.bp \in IOffsets /\ rule.bp * Word = offset + row.bp.offset
    <3> DEFINE location == checked_add_signed(r.sp, rule.bp * Word)
               b == IF m[location] = Unreadable THEN r.bp ELSE m[location]
    <3>1. fast = exec_restore_bp(rule, first, r, m, build)
      BY <2>4, Zenon DEF exec
    <3>2. checked_add(r.sp, offset) # Overflow /\ location # Overflow
      BY <2>1, <3>1, SMTT(30) DEF exec_restore_bp, Stop
    <3>3. fast = Finish(r, r.bp, r.sp + offset, b, m, build)
      BY <2>1, <2>2, <3>1, <3>2 DEF exec_restore_bp, Stop
    <3> HIDE DEF rule, offset, location, b
    <3>4. cfa = r.sp + offset /\ cfa \in Addresses /\ cfa < Half
      BY <1>2, <1>5, <2>1, <3>3, Zenon
    <3>5. eval_register_rule(row.bp, cfa, r.bp, get(r), m) = m[location]
      <4>1. r.sp + offset >= 0 /\ r.sp + offset < Half
        BY <1>1, <1>2, <2>1, <3>4
      <4>2. PlaceOf(r, rule.bp) # Overflow
        BY <3>2, Zenon DEF location, PlaceOf
      <4>3. ValueOf(row.bp, offset, r, m) = m[PlaceOf(r, rule.bp)]
        BY <1>1, <2>4, <4>1, <4>2, StoredBp, Zenon
      <4> QED
        BY <3>4, <4>3, Zenon DEF ValueOf, PlaceOf, location
    <3>6. new_bp = b
      BY <1>0, <3>5, Zenon DEF OrKept, b, Unknown, Unreadable
    <3> QED
      BY <1>1, <1>2, <2>1, <3>3, <3>4, <3>6
  <2> QED
    BY <1>6, <2>3, <2>4, Zenon DEF FromSpRow
<1>7. CASE FromBpRow(row, rule)
  <2>1. /\ row.cfa.register = "RBP" /\ offset = 2 * Word /\ cfa = SignedSum(r.bp, offset)
        /\ IsStored(row.bp) /\ row.bp.offset = -2 * Word /\ rule.kind = "UseFramePointer"
    BY <1>3, <1>4, <1>7, Zenon DEF FromBpRow
  <2>2. fast = exec_frame_pointer(r, m, build)
    BY <2>1, Zenon DEF exec, Stop
  <2>3. /\ checked_add(r.bp, 2 * Word) # Overflow /\ checked_add(r.bp, 2 * Word) > r.sp
        /\ m[r.bp] # Unreadable
        /\ fast = Finish(r, r.bp, checked_add(r.bp, 2 * Word), m[r.bp], m, build)
    <3>1. checked_add(r.bp, 2 * Word) \in Int
      BY <1>2 DEF checked_add, Overflow
    <3> QED
      BY <1>2, <2>2, <3>1 DEF exec_frame_pointer, Stop
  <2>4. checked_add(r.bp, 2 * Word) = r.bp + offset
    BY <2>1, <2>3, Zenon DEF checked_add
  <2>5. cfa = r.bp + offset /\ cfa \in Addresses /\ cfa < Half
    <3>1. offset >= 0 /\ fast = Finish(r, r.bp, r.bp + offset, m[r.bp], m, build)
      BY <1>2, <2>1, <2>3, <2>4
    <3> HIDE DEF offset
    <3> QED
      BY <1>2, <1>5, <2>1, <3>1, Zenon
  <2>6. SignedSum(cfa, -2 * Word) = r.bp /\ r.bp # Unknown
    BY <1>2, <2>1, <2>5 DEF SignedSum, Unknown
  <2>7. eval_register_rule(row.bp, cfa, r.bp, get(r), m) = m[r.bp]
    BY <2>1, <2>6, Zenon DEF IsStored, eval_register_rule, ReadAt
  <2>8. new_bp = m[r.bp]
    BY <1>0, <2>3, <2>7, Zenon DEF OrKept, Unknown, Unreadable
  <2>9. cfa >= r.sp
    BY <1>2, <2>1, <2>3, <2>4, <2>5
  <2> QED
    BY <2>3, <2>4, <2>5, <2>8, <2>9, Zenon
<1> QED
  BY <1>1, <1>6, <1>7, Zenon

LEMMA Agreement ==
    ASSUME StateTyped, \A a \in Addresses : a >= Half => memory[a] = Unreadable
    PROVE  TranslationAgrees
<1> SUFFICES ASSUME NEW row \in Translated, NEW build \in Builds,
                    NEW fast,
                    fast = exec(translate_into_unwind_rule(row), is_first_frame, regs, memory, build),
                    fast.result = "Some", fast.regs.sp < Half
             PROVE  fast = evaluate(row, is_first_frame, regs, memory, build)
  BY Zenon DEF TranslationAgrees
<1> DEFINE cfa == CfaOf(row, regs)
           new_bp == BpOf(row, regs, memory)
           address == memory[Below(cfa)]
<1>1. regs \in Registers /\ memory \in [Addresses -> Values]
  BY Zenon DEF StateTyped, TypeOK
<1>2. /\ cfa \in Addresses /\ cfa < Half /\ cfa >= regs.sp
      /\ fast = Finish(regs, regs.bp, cfa, new_bp, memory, build)
  BY <1>1, FastPath
<1>3. IsStored(row.ra) /\ row.ra.offset = -Word
  BY TranslatedShape, Zenon
<1>4. evaluate(row, is_first_frame, regs, memory, build) =
        Evaluated(cfa, address, new_bp, is_first_frame, regs, memory, build)
  BY <1>1, <1>2, <1>3, SlowPath, Zenon
<1>5. ~(cfa < regs.sp)
  BY <1>1, <1>2, SMTT(30) DEF Registers, Addresses
<1> HIDE DEF cfa, new_bp
<1>6. /\ ~(cfa < Word /\ build = "checked") /\ address # Unreadable
      /\ ~(cfa = regs.sp /\ address = regs.ip)
      /\ fast = Unwound(address, [ip |-> address, sp |-> cfa, bp |-> new_bp])
  BY <1>2, FinishSome
<1> QED
  BY <1>4, <1>5, <1>6, Zenon DEF Evaluated

(***************************************************************************)
(* So the rule that a row is translated into unwinds every frame of every  *)
(* walk as evaluating the row does, for every word size and every CFI, on  *)
(* stacks in the lower half of the address space: the sums of the          *)
(* evaluation are taken as i64.                                            *)
(***************************************************************************)
THEOREM TranslationsAgree ==
    ASSUME StackValues = Addresses,
           \A m \in Stacks : \A a \in Addresses : a >= Half => m[a] = Unreadable
    PROVE  SpecByCfi => []TranslationAgrees
<1> DEFINE Inv == StateTyped /\ memory \in Stacks
<1>1. Init => Inv
  BY TypedInit, Zenon DEF Init
<1>2. Inv /\ [NextByCfi]_vars => Inv'
  BY CfiStep, AnyStep, Zenon DEF NextByCfi, vars
<1>3. Inv => TranslationAgrees
  BY Agreement, Zenon
<1> QED
  BY <1>1, <1>2, <1>3, PTL DEF SpecByCfi

LEMMA SpRowComplete ==
    ASSUME NEW row \in Translated, NEW first, NEW build,
           NEW r \in Registers, NEW m \in [Addresses -> Values],
           NEW slow, slow = evaluate(row, first, r, m, build),
           NEW cfa, cfa = eval_cfa_rule(row.cfa, get(r)),
           row.cfa.register = "RSP", cfa # Unknown,
           IsKept(row.bp) \/ ReadAt(SignedSum(cfa, row.bp.offset), m) # Unknown,
           slow.result = "Some", slow.address # 0,
           slow # exec(fallback_rule, first, r, m, build)
    PROVE  slow = exec(translate_into_unwind_rule(row), first, r, m, build)
<1> DEFINE rule == translate_into_unwind_rule(row)
           offset == row.cfa.offset
           bp == eval_register_rule(row.bp, cfa, r.bp, get(r), m)
           new_bp == OrKept(bp, r.bp)
<1> SUFFICES slow = exec(rule, first, r, m, build)
  BY Zenon
<1>0. cfa = CfaOf(row, r) /\ new_bp = BpOf(row, r, m)
  BY Zenon DEF CfaOf, BpOf
<1>1. r.sp \in Nat /\ r.sp \in Addresses
  BY SMTT(30) DEF Registers, Addresses
<1>2. /\ row.bp \in RegisterRules /\ offset \in Int /\ row.cfa.kind # "Expression"
      /\ IsStored(row.ra) /\ row.ra.offset = -Word
      /\ IsStored(row.bp) => row.bp.offset \in Int
      /\ FromSpRow(row, rule)
  BY TranslatedShape, Zenon DEF FromBpRow
<1>3. cfa = r.sp + offset /\ cfa >= 0 /\ cfa < Half /\ cfa \in Addresses
  <2>1. cfa = SignedSum(r.sp, offset)
    BY <1>2, RegistersAssumption, Zenon DEF eval_cfa_rule, get
  <2>2. Half \in Int /\ Half <= AddrSpace
    BY WordsAssumption, SMTT(30) DEF Half
  <2> QED
    BY <1>1, <1>2, <2>1, <2>2, WordsAssumption, SMTT(30) DEF SignedSum, Addresses
<1> HIDE DEF rule, offset
<1>4. slow = Finish(r, r.bp, cfa, new_bp, m, build)
  <2> HIDE DEF bp, new_bp
  <2>1. /\ IsStored(row.ra) /\ row.ra.offset = -Word
        /\ CfaOf(row, r) \in Addresses /\ CfaOf(row, r) < Half
    BY <1>0, <1>2, <1>3, Zenon
  <2> QED
    BY <1>0, <2>1, EvaluateSome, SMTT(30)
<1>5. rule.sp * Word = offset /\ checked_add(r.sp, rule.sp * Word) = cfa /\ cfa # Overflow
  BY <1>2, <1>3, WordsAssumption DEF FromSpRow, checked_add, Overflow, Addresses, offset
<1>6. CASE IsKept(row.bp) /\ rule.kind = "OffsetSp"
  <2> HIDE DEF bp, new_bp
  <2>1. new_bp = r.bp
    BY <1>0, <1>6, KeptAgrees, Zenon
  <2>2. exec_offset(rule, r, m, build) = Finish(r, r.bp, cfa, r.bp, m, build)
    BY <1>5, Zenon DEF exec_offset
  <2> QED
    BY <1>4, <1>6, <2>1, <2>2, Zenon DEF exec
<1>7. CASE /\ IsStored(row.bp) /\ rule.kind = "OffsetSpAndRestoreBp"
           /\ rule.bp \in IOffsets /\ rule.bp * Word = offset + row.bp.offset
  <2> DEFINE location == checked_add_signed(r.sp, rule.bp * Word)
  <2>1. bp # Unknown
    BY <1>7, Zenon DEF IsKept, IsStored, eval_register_rule
  <2> HIDE DEF location
  <2>2. ValueOf(row.bp, offset, r, m) # Unknown
    BY <1>3, <2>1, Zenon DEF ValueOf
  <2>3. location \in Addresses /\ bp = m[location]
    <3> HIDE DEF bp
    <3>1. r.sp + offset >= 0 /\ r.sp + offset < Half
      BY <1>3, Zenon
    <3>2. /\ PlaceOf(r, rule.bp) \in Addresses
          /\ ValueOf(row.bp, offset, r, m) = m[PlaceOf(r, rule.bp)]
      BY <1>1, <1>2, <1>7, <2>2, <3>1, StoredBp, Zenon
    <3> QED
      BY <1>3, <3>2, Zenon DEF ValueOf, PlaceOf, location, bp
  <2>4. new_bp = m[location] /\ m[location] # Unreadable /\ location # Overflow
    BY <2>1, <2>3, SMTT(30) DEF OrKept, Unknown, Unreadable, Overflow, Addresses
  <2> HIDE DEF new_bp, bp
  <2>5. exec_restore_bp(rule, first, r, m, build)
          = Finish(r, r.bp, cfa, new_bp, m, build)
    BY <1>5, <2>4, Zenon DEF exec_restore_bp, location
  <2>6. exec(rule, first, r, m, build)
          = exec_restore_bp(rule, first, r, m, build)
    BY <1>7, Zenon DEF exec
  <2> QED
    BY <1>4, <2>5, <2>6, Zenon
<1> QED
  BY <1>2, <1>6, <1>7, Zenon DEF FromSpRow, offset

LEMMA Completeness == ASSUME StateTyped PROVE TranslationIsComplete
<1>1. regs \in Registers /\ memory \in [Addresses -> Values]
  BY Zenon DEF StateTyped, TypeOK
<1> QED
  BY <1>1, SpRowComplete, Zenon DEF TranslationIsComplete

(***************************************************************************)
(* And what evaluating a row that counts from sp yields, its rule yields,  *)
(* for every word size, CFI and stack.                                     *)
(***************************************************************************)
THEOREM TranslationsAreComplete ==
    ASSUME StackValues = Addresses
    PROVE  SpecByCfi => []TranslationIsComplete
<1>1. StateTyped /\ [NextByCfi]_vars => StateTyped'
  BY CfiStep, AnyStep, Zenon
<1> QED
  BY <1>1, TypedInit, Completeness, PTL DEF SpecByCfi
=============================================================================
