--------------------------- MODULE Aarch64Iterator ---------------------------
(***************************************************************************)
(* Walking an aarch64 stack: UnwindIterator over the aarch64 rules.  The   *)
(* unwind information may name any rule for any frame, or be followed by   *)
(* the generic DWARF path, whose errors lead to the fallback rule.         *)
(* read_stack is the caller's and may answer anything at any time, as on   *)
(* the stack of a process that keeps running.                              *)
(***************************************************************************)
EXTENDS Aarch64Rules

CONSTANTS
    StackValues,    \* what stack slots and CFI expressions may evaluate to
    InitialRegs     \* the registers a walk may start with

ASSUME WalkAssumption ==
    /\ StackValues \subseteq Addresses
    /\ InitialRegs \subseteq Registers

Init == \E r \in InitialRegs : iter_frames(0, r)

Answers(locations) == [locations -> StackValues \cup {Unreadable}]

unwind_by(rule) ==
    \E stack \in Answers(ReadLocations(rule, is_first_frame, regs)) :
        next_unwinding(exec(rule, is_first_frame, regs, stack))

unwind_generically(cfa, fp, lr) ==
    /\ DwarfSucceeds(is_first_frame, regs, cfa, fp, lr)
    /\ next_unwinding(unwind_frame_generic(regs, cfa, fp, lr))

(***************************************************************************)
(* No module, no usable information for the address, or an error on the    *)
(* generic path, which has left the registers alone.                       *)
(***************************************************************************)
unwind_without_info == unwind_by(fallback_rule)

Next ==
    \/ next_initial
    \/ next_done
    \/ \E rule \in UnwindRuleAarch64 : unwind_by(rule)
    \/ \E cfa \in Values, fp, lr \in StackValues \cup {Unknown} :
          unwind_generically(cfa, fp, lr)
    \/ unwind_without_info

(***************************************************************************)
(* A caller that walks the stack keeps calling next.                       *)
(***************************************************************************)
Spec == Init /\ [][Next]_iteratorVars /\ WF_iteratorVars(Next)

-----------------------------------------------------------------------------
TypeOK ==
    /\ state \in {"Initial", "Unwinding", "Done"}
    /\ frame \in [kind : {"InstructionPointer", "ReturnAddress"}, address : Addresses]
    /\ regs \in Registers
    /\ result \in IteratorResults
    /\ frames \in Nat

(***************************************************************************)
(* Past the first frame, a return address is only produced together with a *)
(* higher stack pointer (the tail of exec and the check of cfa against sp  *)
(* in the generic path), so a walk cannot visit a frame twice.             *)
(***************************************************************************)
StackPointerAdvances ==
    [][frames' > frames /\ frame.kind = "ReturnAddress" => regs'.sp > regs.sp]_iteratorVars

(***************************************************************************)
(* However the unwind information and the stack look, and however often    *)
(* the caller goes on after an error, a walk yields fewer frames than      *)
(* there are stack pointer values above the first caller's, plus two.      *)
(***************************************************************************)
FramesBounded ==
    frames <= (IF frame.kind = "ReturnAddress" THEN regs.sp + 2 ELSE 1)

(***************************************************************************)
(* The walk of a caller that keeps calling next comes to an end: a call    *)
(* returns no frame (the loop of the callers stops there).                 *)
(***************************************************************************)
WalkEnds == <>(result \notin {"NotCalled", "Some"})

=============================================================================
