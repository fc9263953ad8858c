------------------------------ MODULE RuleCache ------------------------------
(***************************************************************************)
(* The direct-mapped cache of unwind rules (src/src/rule_cache.rs).  A     *)
(* cache has SlotCount slots (509 in the code); an address has exactly one *)
(* slot, and an entry is usable only for its own address and for an        *)
(* unwinder whose module generation is the one it was stored under.        *)
(***************************************************************************)
EXTENDS Integers, UnwindRule

CONSTANTS
    SlotCount,   \* CACHE_ENTRY_COUNT
    GenCount,    \* number of values of the generation counter, 2^16 in the code
    None         \* an empty slot

ASSUME CacheAssumption ==
    /\ SlotCount \in Nat \ {0}
    /\ GenCount \in Nat \ {0}

Slots == 0 .. SlotCount - 1
Generations == 0 .. GenCount - 1

CacheEntry == [address : Nat, generation : Generations, rule : Rules]

ASSUME NoneAssumption == None \notin CacheEntry

EmptyCache == [s \in Slots |-> None]

Slot(address) == address % SlotCount

(***************************************************************************)
(* What a lookup finds; each outcome is one counter of CacheStats.         *)
(***************************************************************************)
Outcomes == {"hit", "empty_slot", "wrong_modules", "wrong_address"}

\* Mutant: a slot whose generation matches is a hit for any address.
OutcomeIgnoringAddress(entries, address, generation) ==
    LET entry == entries[Slot(address)]
    IN  CASE entry = None -> "empty_slot"
          [] entry # None /\ entry.generation # generation -> "wrong_modules"
          [] OTHER -> "hit"

Outcome(entries, address, generation) ==
    LET entry == entries[Slot(address)]
    IN  CASE entry = None -> "empty_slot"
          [] entry # None /\ entry.generation # generation -> "wrong_modules"
          [] entry # None /\ entry.generation = generation /\ entry.address # address
               -> "wrong_address"
          [] OTHER -> "hit"

CachedRule(entries, address) == entries[Slot(address)].rule

\* Mutant: the entry goes to the slot after the one that was looked up.
InsertInNextSlot(entries, address, generation, rule) ==
    [entries EXCEPT ![(Slot(address) + 1) % SlotCount] =
        [address |-> address, generation |-> generation, rule |-> rule]]

Insert(entries, address, generation, rule) ==
    [entries EXCEPT ![Slot(address)] =
        [address |-> address, generation |-> generation, rule |-> rule]]

NewStats == [o \in Outcomes |-> 0]

Count(stats, outcome) == [stats EXCEPT ![outcome] = @ + 1]

hits(stats) == stats["hit"]
misses(stats) == stats["empty_slot"] + stats["wrong_modules"] + stats["wrong_address"]
total(stats) == hits(stats) + misses(stats)
=============================================================================
