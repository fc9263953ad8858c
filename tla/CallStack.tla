------------------------------- MODULE CallStack -------------------------------
(***************************************************************************)
(* What walking a stack promises, whatever the architecture and the unwind *)
(* information: a thread runs, and is then stopped anywhere; the walk      *)
(* yields the frames of its calls, each once, from the innermost to the    *)
(* outermost, with the registers that the calls will return with, and ends *)
(* after the outermost.                                                    *)
(***************************************************************************)
EXTENDS Naturals, Sequences

CONSTANT NoFrame

VARIABLES
    thread,    \* the registers of the thread's frames, innermost first
    yielded,   \* how many frames the walk has yielded
    shown,     \* the frame yielded last
    ended      \* whether the walk has ended

vars == <<thread, yielded, shown, ended>>

Init == Len(thread) = 1 /\ yielded = 0 /\ shown = NoFrame /\ ended = FALSE

(***************************************************************************)
(* The thread works in its innermost frame, calls or returns; the frames   *)
(* of its callers stay as they are, and are what it returns to.            *)
(***************************************************************************)
Run ==
    /\ yielded = 0
    /\ \/ Len(thread') = Len(thread) /\ Tail(thread') = Tail(thread)
       \/ Len(thread') = Len(thread) + 1 /\ SubSeq(thread', 3, Len(thread')) = Tail(thread)
       \/ Len(thread) > 1 /\ thread' = Tail(thread)
    /\ UNCHANGED <<yielded, shown, ended>>

Yield ==
    /\ yielded < Len(thread)
    /\ yielded' = yielded + 1
    /\ shown' = thread[yielded + 1]
    /\ UNCHANGED <<thread, ended>>

End ==
    /\ yielded = Len(thread)
    /\ ended' = TRUE
    /\ UNCHANGED <<thread, yielded, shown>>

Next == Run \/ Yield \/ End

Spec == Init /\ [][Next]_vars
=============================================================================
