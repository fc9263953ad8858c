----------------------------- MODULE X86CallStack -----------------------------
(***************************************************************************)
(* Walking the stack of an x86_64 thread: the thread executes a program,   *)
(* is stopped at any instruction, and its stack is walked with the unwind  *)
(* information that the program's image has (unwind_frame_impl in          *)
(* src/src/unwinder.rs): compact unwind info, DWARF CFI, PE unwind info,   *)
(* or none.                                                                *)
(*                                                                         *)
(* An image has its kind of unwind data, its instructions by address, and  *)
(* what its kind of unwind data consists of (see CompactUnwindInfo and     *)
(* X86Pe; for DWARF the row of every address that an FDE covers).  stops   *)
(* are the addresses where the thread may be stopped: all of them, unless  *)
(* the image lacks something that its kind of unwind data relies on.       *)
(***************************************************************************)
EXTENDS X86Dwarf, X86Pe, X86Macho, X86Code

CONSTANTS
    Images,         \* the programs, a sequence
    StackStart      \* where the stack pointer of a new thread is

VARIABLES
    chosen,    \* which of the images the thread executes
    thread,    \* the registers of the thread's frames, innermost first
    shown      \* the address and the registers of the frame yielded last

threadVars == <<state, frame, regs, result, frames, memory, chosen, thread, shown>>

Nothing == [ip |-> 0, sp |-> 0, bp |-> 0]   \* shown, before the first frame

Given == Images   \* a definition, which TLC evaluates once

(***************************************************************************)
(* The lookups that a walk may need: at an instruction of the first frame, *)
(* and at the last byte of a call.  What an image says about them does not *)
(* change: the rule of a Mach-O image, and the operations of a PE image    *)
(* with the rule for them.                                                 *)
(***************************************************************************)
Lookups(image) ==
    [address : DOMAIN image.at, first : {TRUE}]
      \cup {[address |-> a + Len(image.at[a].bytes) - 1, first |-> FALSE] :
              a \in {b \in DOMAIN image.at : image.at[b].op = "call"}}

PeRule(found) ==
    [by |-> found.by, ops |-> found.ops \o <<>>, rule |-> for_sequence_of_offset_or_pop(found.ops)]

WhatImageSays(image, l) ==
    CASE image.kind = "CompactUnwindInfoAndEhFrame" -> macho_unwind_frame(image, l.address, l.first)
      [] image.kind = "PeUnwindInfo" -> PeRule(FindOperations(image, l.address, l.first))
      [] OTHER -> NoRule

Prepared(image) ==
    [says |-> [l \in Lookups(image) |-> WhatImageSays(image, l)] @@ <<>>] @@ image

Programs == [k \in DOMAIN Given |-> Prepared(Given[k])] @@ <<>>

(***************************************************************************)
(* A new thread has a null return address on its stack, and anything below *)
(* it.                                                                     *)
(***************************************************************************)
ThreadInit ==
    /\ chosen \in DOMAIN Given
    /\ \E entry_ \in {Given[chosen].entry} :
           /\ thread = <<[ip |-> entry_, sp |-> StackStart, bp |-> 0]>>
           /\ iter_frames(entry_, thread[1])
    /\ memory = [a \in Addresses |-> IF a < StackStart THEN Garbage
                                    ELSE IF a = StackStart THEN 0 ELSE Unreadable]
    /\ shown = Nothing

(***************************************************************************)
(* The thread executes its next instruction; a tail call replaces the      *)
(* innermost frame.  The outermost function does not return, and the jump  *)
(* out of the image (to address 0) is not followed.                        *)
(***************************************************************************)
execute(program) ==
    /\ state = "Initial"
    /\ \E i \in {program.at[regs.ip]} : \E done \in {Execute(i, regs, memory)} :
        /\ \/ i.op \notin {"call", "ret", "jmp"} /\ thread' = <<done.regs>> \o Tail(thread)
           \/ i.op = "jmp" /\ i.arg # 0 /\ thread' = <<done.regs>> \o Tail(thread)
           \/ i.op = "call" /\ thread' = <<done.regs, [regs EXCEPT !.ip = @ + Len(i.bytes)]>>
                                           \o Tail(thread)
           \/ i.op = "ret" /\ Len(thread) > 1 /\ thread' = <<done.regs>> \o Tail(Tail(thread))
        /\ regs' = done.regs
        /\ frame' = [frame EXCEPT !.address = done.regs.ip]
        /\ memory' = done.memory
        /\ UNCHANGED <<state, result, frames, chosen, shown>>

start_walk(program) == regs.ip \in program.stops /\ next_initial

address_for_lookup == IF is_first_frame THEN frame.address ELSE frame.address - 1

WhatIsSaid(program) ==
    program.says[[address |-> address_for_lookup, first |-> is_first_frame]]

unwind_by_dwarf(program) ==
    \/ /\ address_for_lookup \in DOMAIN program.rows
       /\ unwind_by_row(program.rows[address_for_lookup], "checked")
    \/ /\ address_for_lookup \notin DOMAIN program.rows
       /\ unwind_by(rule_if_uncovered_by_fde, "checked")

unwind_by_macho(program) ==
    /\ program.kind = "CompactUnwindInfoAndEhFrame"
    /\ \E rule \in {WhatIsSaid(program)} :
           \/ rule \notin {NeedDwarf, Error} /\ unwind_by(rule, "checked")
           \/ rule = NeedDwarf /\ program.rows # <<>> /\ unwind_by_dwarf(program)
           \/ rule = NeedDwarf /\ program.rows = <<>> /\ unwind_by(fallback_rule, "checked")
           \/ rule = Error /\ unwind_by(fallback_rule, "checked")

(***************************************************************************)
(* In an .eh_frame without rows the header finds no FDE for any address.   *)
(***************************************************************************)
unwind_by_eh_frame(program) ==
    /\ program.kind = "EhFrameHdrAndEhFrame"
    /\ \/ program.rows # <<>> /\ unwind_by_dwarf(program)
       \/ program.rows = <<>> /\ unwind_by(fallback_rule, "checked")

unwind_by_pe(program) ==
    /\ program.kind = "PeUnwindInfo"
    /\ \E found \in {WhatIsSaid(program)} :
           \/ found.by = "NoFunction" /\ unwind_by(JustReturn, "checked")
           \/ found.by = "Error" /\ unwind_by(fallback_rule, "checked")
           \/ found.by = "Operations" /\ unwind_frame(found.rule, found.ops, "checked")

unwind_without_data(program) == program.kind = "None" /\ unwind_by(fallback_rule, "checked")

(***************************************************************************)
(* The caller's loop ends when next returns an error.                      *)
(***************************************************************************)
ThreadNext ==
    \E program \in {Programs[chosen]} :
        \/ execute(program)
        \/ /\ result \notin Errors
           /\ \/ start_walk(program)
              \/ unwind_by_macho(program)
              \/ unwind_by_eh_frame(program)
              \/ unwind_by_pe(program)
              \/ unwind_without_data(program)
              \/ next_done
           /\ shown' = IF frames' = frames THEN shown
                       ELSE [ip |-> frame'.address, sp |-> regs'.sp, bp |-> regs'.bp]
           /\ UNCHANGED <<memory, chosen, thread>>

(***************************************************************************)
(* The programs have no loops, and a caller that walks a stack keeps       *)
(* calling next until the loop ends.                                       *)
(***************************************************************************)
ThreadSpec == ThreadInit /\ [][ThreadNext]_threadVars /\ WF_threadVars(ThreadNext)

-----------------------------------------------------------------------------
Promise ==
    INSTANCE CallStack WITH
        NoFrame <- Nothing,
        thread <- thread,
        yielded <- frames,
        shown <- shown,
        ended <- state = "Done" \/ result \in Errors

(***************************************************************************)
(* Wherever in its prologues, bodies and epilogues the thread is stopped,  *)
(* and whichever kind of unwind data describes its functions, the walk     *)
(* yields the frames of its calls, with the code address, the stack        *)
(* pointer and the bp that each call returns with, and no other frame.     *)
(***************************************************************************)
WalkYieldsCallStack == Promise!Spec

(***************************************************************************)
(* A walk gets to the outermost frame and ends there with None; in a PE    *)
(* image with None or with the error for a null return address, because    *)
(* only exec takes a null return address for the end of the stack, and not *)
(* the operations that are carried out without a rule.                     *)
(***************************************************************************)
WalkIsComplete ==
    state = "Unwinding" ~>
        /\ frames = Len(thread)
        /\ result = "None" \/ (Given[chosen].kind = "PeUnwindInfo" /\ result = "ReturnAddressIsNull")
=============================================================================
