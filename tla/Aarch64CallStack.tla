--------------------------- MODULE Aarch64CallStack ---------------------------
(***************************************************************************)
(* Walking the stack of an aarch64 thread: the thread executes a program,  *)
(* is stopped at any instruction, and its stack is walked with the unwind  *)
(* information that the program's image has (unwind_frame_impl in          *)
(* src/src/unwinder.rs): compact unwind info, DWARF CFI, or none.  PE      *)
(* unwind info is not supported (src/src/aarch64/pe.rs).                   *)
(*                                                                         *)
(* An image has its kind of unwind data, its instructions by address, and  *)
(* what its kind of unwind data consists of (see CompactUnwindInfo; for    *)
(* DWARF the row of every address that an FDE covers).  stops are the      *)
(* addresses where the thread may be stopped: all of them, unless the      *)
(* image lacks something that its kind of unwind data relies on.           *)
(***************************************************************************)
EXTENDS Aarch64Dwarf, Aarch64Macho, Aarch64Code

CONSTANTS
    Images,         \* the programs, a sequence
    StackStart      \* where the stack pointer of a new thread is

VARIABLES
    chosen,    \* which of the images the thread executes
    thread,    \* pc, sp and fp of the thread's frames, innermost first
    shown      \* the address and the registers of the frame yielded last

threadVars == <<state, frame, regs, result, frames, memory, chosen, thread, shown>>

Shown(address, r) == [pc |-> address, sp |-> r.sp, fp |-> r.fp]

Nothing == [pc |-> 0, sp |-> 0, fp |-> 0]   \* shown, before the first frame

Given == Images   \* a definition, which TLC evaluates once

(***************************************************************************)
(* The lookups that a walk may need: at an instruction of the first frame, *)
(* and at a call.  What a Mach-O image says about them does not change.    *)
(***************************************************************************)
Lookups(image) ==
    [address : DOMAIN image.at, first : {TRUE}]
      \cup [address : {a \in DOMAIN image.at : image.at[a].op = "bl"}, first : {FALSE}]

WhatImageSays(image, l) ==
    IF image.kind = "CompactUnwindInfoAndEhFrame" THEN macho_unwind_frame(image, l.address, l.first)
    ELSE NoRule

Prepared(image) ==
    [says |-> [l \in Lookups(image) |-> WhatImageSays(image, l)] @@ <<>>] @@ image

Programs == [k \in DOMAIN Given |-> Prepared(Given[k])] @@ <<>>

(***************************************************************************)
(* A new thread has a null return address in lr, and anything on its       *)
(* stack.                                                                  *)
(***************************************************************************)
ThreadInit ==
    /\ chosen \in DOMAIN Given
    /\ memory = [a \in Addresses |-> IF a <= StackStart THEN Garbage ELSE Unreadable]
    /\ \E program \in {Given[chosen]} :
           /\ iter_frames(program.entry, [lr |-> 0, sp |-> StackStart, fp |-> program.fp])
           /\ thread = <<Shown(program.entry, regs)>>
    /\ shown = Nothing

(***************************************************************************)
(* The thread executes its next instruction; a tail call replaces the      *)
(* innermost frame.  The outermost function does not return, and the jump  *)
(* out of the image (to address 0) is not followed.                        *)
(***************************************************************************)
execute(program) ==
    /\ state = "Initial"
    /\ \E i \in {program.at[frame.address]} :
       \E done \in {Execute(i, frame.address, regs, memory)} :
        /\ done.pc # 0
        /\ \/ i.op \notin {"bl", "ret", "retab"}
              /\ thread' = <<Shown(done.pc, done.regs)>> \o Tail(thread)
           \/ i.op = "bl"
              /\ thread' = <<Shown(done.pc, done.regs), Shown(frame.address + 1, regs)>>
                             \o Tail(thread)
           \/ i.op \in {"ret", "retab"} /\ Len(thread) > 1
              /\ thread' = <<Shown(done.pc, done.regs)>> \o Tail(Tail(thread))
        /\ regs' = done.regs
        /\ frame' = [frame EXCEPT !.address = done.pc]
        /\ memory' = done.memory
        /\ UNCHANGED <<state, result, frames, chosen, shown>>

start_walk(program) == frame.address \in program.stops /\ next_initial

address_for_lookup == IF is_first_frame THEN frame.address ELSE frame.address - 1

WhatIsSaid(program) ==
    program.says[[address |-> address_for_lookup, first |-> is_first_frame]]

unwind_by_dwarf(program) ==
    \/ /\ address_for_lookup \in DOMAIN program.rows
       /\ \E row \in {program.rows[address_for_lookup]} : unwind_by_row(row)
    \/ /\ address_for_lookup \notin DOMAIN program.rows
       /\ exec_rule(rule_if_uncovered_by_fde)

unwind_by_macho(program) ==
    /\ program.kind = "CompactUnwindInfoAndEhFrame"
    /\ \E rule \in {WhatIsSaid(program)} :
           \/ rule \notin {NeedDwarf, Error} /\ exec_rule(rule)
           \/ rule = NeedDwarf /\ program.rows # <<>> /\ unwind_by_dwarf(program)
           \/ rule = NeedDwarf /\ program.rows = <<>> /\ exec_rule(fallback_rule)
           \/ rule = Error /\ exec_rule(fallback_rule)

(***************************************************************************)
(* In an .eh_frame without rows the header finds no FDE for any address.   *)
(***************************************************************************)
unwind_by_eh_frame(program) ==
    /\ program.kind = "EhFrameHdrAndEhFrame"
    /\ \/ program.rows # <<>> /\ unwind_by_dwarf(program)
       \/ program.rows = <<>> /\ exec_rule(fallback_rule)

unwind_without_data(program) == program.kind \in {"None", "PeUnwindInfo"} /\ exec_rule(fallback_rule)

(***************************************************************************)
(* The caller's loop ends when next returns an error.                      *)
(***************************************************************************)
ThreadNext ==
    \E program \in {Programs[chosen]} :
        \/ execute(program)
        \/ /\ result \notin Errors
           /\ \/ start_walk(program)
              \/ unwind_by_macho(program)
              \/ unwind_by_eh_frame(program)
              \/ unwind_without_data(program)
              \/ next_done
           /\ shown' = IF frames' = frames THEN shown ELSE Shown(frame'.address, regs')
           /\ UNCHANGED <<memory, chosen, thread>>

(***************************************************************************)
(* The programs have no loops, and a caller that walks a stack keeps       *)
(* calling next until the loop ends.                                       *)
(***************************************************************************)
ThreadSpec == ThreadInit /\ [][ThreadNext]_threadVars /\ WF_threadVars(ThreadNext)

-----------------------------------------------------------------------------
Promise ==
    INSTANCE CallStack WITH
        NoFrame <- Nothing,
        thread <- thread,
        yielded <- frames,
        shown <- shown,
        ended <- state = "Done" \/ result \in Errors

(***************************************************************************)
(* Wherever in its prologues, bodies and epilogues the thread is stopped,  *)
(* signed return addresses in lr or on the stack included, and whichever   *)
(* kind of unwind data describes its functions, the walk yields the frames *)
(* of its calls, with the code address, the stack pointer and the fp that  *)
(* each call returns with, and no other frame.                             *)
(***************************************************************************)
WalkYieldsCallStack == Promise!Spec

(***************************************************************************)
(* A walk gets to the outermost frame, whose return address is null (and   *)
(* signed where its function signs it), and ends there without an error.   *)
(***************************************************************************)
WalkIsComplete == state = "Unwinding" ~> frames = Len(thread) /\ result = "None"

(***************************************************************************)
(* What the comment on analyze_slices says: a thread that is stopped where *)
(* the next instruction is one of a prologue is unwound to its caller,     *)
(* because the instructions that have set up the frame are undone back to  *)
(* the start of the function.                                              *)
(***************************************************************************)
ProloguesAreUndone ==
    /\ frames = 2
    /\ analyze_prologue_instruction_type(Given[chosen].at[thread[1].pc]) = "VeryLikelyPartOfPrologue"
    => shown = thread[2]
=============================================================================
