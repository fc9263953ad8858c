---------------------------- MODULE UnwindIterator ----------------------------
(***************************************************************************)
(* UnwindIterator (src/src/unwinder.rs) over any way of unwinding a frame: *)
(* an architecture's module says what unwind_frame may return, as a record *)
(* with the result ("Some", "None" or an error), the return address and    *)
(* the registers it leaves behind, and composes it with next_unwinding.    *)
(* Each action is one call of next by the caller.                          *)
(***************************************************************************)
EXTENDS Integers

VARIABLES
    state,    \* UnwindIteratorState: "Initial", "Unwinding" or "Done"
    frame,    \* the frame address held by that state
    regs,     \* the registers of that frame
    result,   \* what the last call of next returned
    frames    \* how many calls returned a frame

iteratorVars == <<state, frame, regs, result, frames>>

Errors == {"DidNotAdvance", "IntegerOverflow", "CouldNotReadStack",
           "FramepointerUnwindingMovedBackwards", "ReturnAddressIsNull",
           "Panic"}   \* an overflow check of the build ends the call

IteratorResults == {"NotCalled", "Some", "None"} \cup Errors

(***************************************************************************)
(* What unwind_frame returns.                                              *)
(***************************************************************************)
Unwound(address, new_regs) == [result |-> "Some", address |-> address, regs |-> new_regs]

Stop(reason, new_regs) == [result |-> reason, address |-> 0, regs |-> new_regs]

is_first_frame == frame.kind = "InstructionPointer"

iter_frames(pc, initial_regs) ==
    /\ state = "Initial"
    /\ frame = [kind |-> "InstructionPointer", address |-> pc]
    /\ regs = initial_regs
    /\ result = "NotCalled"
    /\ frames = 0

\* Mutant: the iterator does not move on from its initial state.
InitialForever ==
    /\ state = "Initial"
    /\ result' = "Some"
    /\ UNCHANGED <<state, frame, regs, frames>>

next_initial ==
    /\ state = "Initial"
    /\ state' = "Unwinding"
    /\ result' = "Some"
    /\ frames' = frames + 1
    /\ UNCHANGED <<frame, regs>>

next_done ==
    /\ state = "Done"
    /\ result' = "None"
    /\ UNCHANGED <<state, frame, regs, frames>>

\* Mutant: a caller's frame is stored as an instruction pointer.
StoredAsInstructionPointer(outcome) ==
    /\ state = "Unwinding"
    /\ regs' = outcome.regs
    /\ \/ /\ outcome.result = "Some"
          /\ frame' = [kind |-> "InstructionPointer", address |-> outcome.address]
          /\ result' = "Some"
          /\ frames' = frames + 1
          /\ UNCHANGED state
       \/ /\ outcome.result # "Some"
          /\ state' = "Done"
          /\ result' = outcome.result
          /\ UNCHANGED <<frame, frames>>

\* Mutant: the lookup address is stored as the return address.
StoredLookupAddress(outcome) ==
    /\ state = "Unwinding"
    /\ regs' = outcome.regs
    /\ \/ /\ outcome.result = "Some" /\ outcome.address # 0
          /\ frame' = [kind |-> "ReturnAddress", address |-> outcome.address - 1]
          /\ result' = "Some"
          /\ frames' = frames + 1
          /\ UNCHANGED state
       \/ /\ outcome.result # "Some" \/ outcome.address = 0
          /\ state' = "Done"
          /\ result' = "None"
          /\ UNCHANGED <<frame, frames>>

(***************************************************************************)
(* The registers are those that unwind_frame leaves behind, whatever it    *)
(* returns; an error leaves the state as it is, also the error for a null  *)
(* return address.                                                         *)
(***************************************************************************)
next_unwinding(outcome) ==
    /\ state = "Unwinding"
    /\ regs' = outcome.regs
    /\ \/ /\ outcome.result = "Some" /\ outcome.address # 0
          /\ frame' = [kind |-> "ReturnAddress", address |-> outcome.address]
          /\ result' = "Some"
          /\ frames' = frames + 1
          /\ UNCHANGED state
       \/ /\ outcome.result = "Some" /\ outcome.address = 0
          /\ result' = "ReturnAddressIsNull"
          /\ UNCHANGED <<state, frame, frames>>
       \/ /\ outcome.result = "None"
          /\ state' = "Done"
          /\ result' = "None"
          /\ UNCHANGED <<frame, frames>>
       \/ /\ outcome.result \in Errors
          /\ result' = outcome.result
          /\ UNCHANGED <<state, frame, frames>>
=============================================================================
