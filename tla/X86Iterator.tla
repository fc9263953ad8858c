----------------------------- MODULE X86Iterator -----------------------------
(***************************************************************************)
(* Walking an x86_64 stack: UnwindIterator over the x86_64 rules.  The     *)
(* unwind information may name any rule for any frame, or be followed by   *)
(* the generic DWARF path.  The stack does not change during the walk: the *)
(* caller has stopped the thread, or walks a copy of its stack.            *)
(***************************************************************************)
EXTENDS X86Rules

CONSTANTS
    Stacks,         \* contents a stack may have
    StackValues,    \* what CFI expressions may evaluate to
    InitialRegs,    \* the registers a walk may start with
    MaxFrames       \* bound: frames after which the generic path is not taken

ASSUME WalkAssumption ==
    /\ MaxFrames \in Nat
    /\ Stacks \subseteq [Addresses -> Values]
    /\ StackValues \subseteq Addresses
    /\ InitialRegs \subseteq Registers

VARIABLE memory     \* what read_stack answers

vars == <<state, frame, regs, result, frames, memory>>

Init ==
    /\ memory \in Stacks
    /\ \E r \in InitialRegs : iter_frames(r.ip, r)

unwind_by(rule, build) ==
    next_unwinding(exec(rule, is_first_frame, regs, memory, build))

unwind_generically(cfa, bp, ra, build) ==
    next_unwinding(unwind_frame_generic(is_first_frame, regs, cfa, bp, ra, memory, build))

(***************************************************************************)
(* Walks in which every frame has a rule, and walks in which the generic   *)
(* path may be taken too.                                                  *)
(***************************************************************************)
NextByRules ==
    /\ \/ next_initial
       \/ next_done
       \/ \E rule \in UnwindRuleX86_64, build \in Builds : unwind_by(rule, build)
    /\ UNCHANGED memory

Next ==
    \/ NextByRules
    \/ /\ frames < MaxFrames
       /\ \E cfa \in Values, bp, ra \in StackValues \cup {Unknown}, build \in Builds :
             unwind_generically(cfa, bp, ra, build)
       /\ UNCHANGED memory

(***************************************************************************)
(* A caller that walks the stack keeps calling next.                       *)
(***************************************************************************)
SpecByRules == Init /\ [][NextByRules]_vars /\ WF_vars(NextByRules)

Spec == Init /\ [][Next]_vars

-----------------------------------------------------------------------------
TypeOK ==
    /\ state \in {"Initial", "Unwinding", "Done"}
    /\ frame \in [kind : {"InstructionPointer", "ReturnAddress"}, address : Addresses]
    /\ regs \in Registers
    /\ result \in IteratorResults
    /\ frames \in Nat
    /\ memory \in [Addresses -> Values]

(***************************************************************************)
(* The instruction pointer in the registers is the code address of the     *)
(* frame they belong to (set_ip in exec and in the generic path), also     *)
(* after errors, except for the null return address, which next rejects    *)
(* after the registers have been set.  The check of exec against standing  *)
(* still compares with it.                                                 *)
(***************************************************************************)
IpIsFrameAddress == regs.ip = frame.address \/ regs.ip = 0

(***************************************************************************)
(* Past the first frame no step of a walk moves the stack pointer down,    *)
(* whether it returns a frame or an error, and none returns a frame with   *)
(* the same code address and stack pointer (the checks at the end of exec  *)
(* and of the generic path).                                               *)
(***************************************************************************)
NeverStandsStill ==
    [][frame.kind = "ReturnAddress" =>
         /\ regs'.sp >= regs.sp
         /\ frames' > frames => <<regs'.sp, regs'.ip>> # <<regs.sp, regs.ip>>]_vars

(***************************************************************************)
(* When every frame has a rule, the code address of a frame is still in    *)
(* the stack, just below the stack pointer: every rule reads it there      *)
(* (at new_sp - 8 in exec).  This is why comparing the next return address *)
(* with ip detects every rule that does not move the stack pointer.        *)
(***************************************************************************)
IpIsBelowSp == frame.kind = "ReturnAddress" => regs.ip = memory[Below(regs.sp)]

(***************************************************************************)
(* When every frame has a rule, the comparison of the return address with  *)
(* ip is enough to end every walk: a walk yields at most as many frames as *)
(* there are stack pointer values, plus two, however often the caller goes *)
(* on after an error.                                                      *)
(***************************************************************************)
FramesBounded ==
    frames <= (IF frame.kind = "ReturnAddress" THEN regs.sp + 2 ELSE 1)

(***************************************************************************)
(* The walk of a caller that keeps calling next comes to an end: a call    *)
(* returns no frame (the loop of the callers stops there).                 *)
(***************************************************************************)
WalkEnds == <>(result \notin {"NotCalled", "Some"})

(***************************************************************************)
(* An error leaves ip and sp alone, so that calling next again retries the *)
(* same frame; only bp may already have been popped.                       *)
(***************************************************************************)
ErrorsKeepFrame ==
    [][result' \in Errors \ {"ReturnAddressIsNull"} =>
         regs'.ip = regs.ip /\ regs'.sp = regs.sp /\ frame' = frame]_vars
=============================================================================
