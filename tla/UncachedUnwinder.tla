--------------------------- MODULE UncachedUnwinder ---------------------------
(***************************************************************************)
(* What an unwinder promises, whatever its cache does: every frame is      *)
(* unwound by a result that the unwinder's own current modules give for    *)
(* that frame.  For an address that only the generic path describes, a     *)
(* fallback result may be remembered from a time when the stack was not    *)
(* readable.                                                               *)
(***************************************************************************)
EXTENDS FrameRules

CONSTANTS
    Unwinders,
    NoUnwind     \* no frame has been unwound yet

VARIABLES alive, modules, last

vars == <<alive, modules, last>>

Init ==
    /\ alive = {}
    /\ modules = [u \in Unwinders |-> <<>>]
    /\ last = NoUnwind

new(u) ==
    /\ u \notin alive
    /\ alive' = alive \cup {u}
    /\ modules' = [modules EXCEPT ![u] = <<>>]
    /\ UNCHANGED last

clone(u, v) ==
    /\ u \in alive /\ v \notin alive
    /\ alive' = alive \cup {v}
    /\ modules' = [modules EXCEPT ![v] = modules[u]]
    /\ UNCHANGED last

drop(u) ==
    /\ u \in alive
    /\ alive' = alive \ {u}
    /\ modules' = [modules EXCEPT ![u] = <<>>]
    /\ UNCHANGED last

add_module(u, module) ==
    /\ u \in alive
    /\ \E list \in Added(modules[u], module) : modules' = [modules EXCEPT ![u] = list]
    /\ UNCHANGED <<alive, last>>

remove_module(u, start) ==
    /\ u \in alive
    /\ \E list \in Removed(modules[u], start) : modules' = [modules EXCEPT ![u] = list]
    /\ UNCHANGED <<alive, last>>

unwind_frame(u, frame, readable) ==
    /\ u \in alive
    /\ \E remembered \in {readable, FALSE} :
         \E result \in UncachedResults(modules[u], frame, remembered) :
            last' = [unwinder |-> u, frame |-> frame, readable |-> readable,
                     result |-> result]
    /\ UNCHANGED <<alive, modules>>

Next ==
    \E u \in Unwinders :
        \/ new(u)
        \/ drop(u)
        \/ \E v \in Unwinders : clone(u, v)
        \/ \E module \in Modules : add_module(u, module)
        \/ \E start \in {m.start : m \in Modules} : remove_module(u, start)
        \/ \E frame \in FrameAddress, readable \in BOOLEAN : unwind_frame(u, frame, readable)

Spec == Init /\ [][Next]_vars
=============================================================================
