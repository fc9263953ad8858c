------------------------------ MODULE MCUnwinder ------------------------------
(***************************************************************************)
(* Small instance of Unwinder.  Two neighbouring modules, a module that is *)
(* loaded at the start address of the first one with other unwind data (as *)
(* after unloading and loading another library, or as a duplicate), and    *)
(* one frame address in each of the cases a lookup tells apart.            *)
(***************************************************************************)
EXTENDS Unwinder, TLC

CONSTANTS d1, d2, fp, r1, r2

MCModules == { [start |-> 2, end |-> 6, base |-> 1, data |-> d1],
               [start |-> 6, end |-> 8, base |-> 6, data |-> d1],
               [start |-> 2, end |-> 7, base |-> 2, data |-> d2] }

\* d1 describes offset 1 by a rule and offset 4 only for the generic path.
MCUnwindInfo(data, rel, first) ==
    IF data = d1 THEN CASE rel = 1 -> IF first THEN r1 ELSE r2
                        [] rel = 4 -> Generic
                        [] OTHER -> NoInfo
    ELSE IF rel <= 3 THEN r2 ELSE NoInfo

\* Lookup addresses: 2 starts a module, 5 is inside one and shares the slot
\* of 2, and 7 is in the second module, or at the end of the third.
MCIPs == {2}
MCRAs == {6, 8}
=============================================================================
