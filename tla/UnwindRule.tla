------------------------------ MODULE UnwindRule ------------------------------
(***************************************************************************)
(* The unwind rules of an architecture, as far as lookups and the cache    *)
(* are concerned (the trait in src/src/unwind_rule.rs).                    *)
(***************************************************************************)
CONSTANTS
    Rules,      \* unwind rules, which can be cached
    Fallback    \* fallback_rule(), the frame pointer rule

ASSUME FallbackAssumption == Fallback \in Rules
=============================================================================
