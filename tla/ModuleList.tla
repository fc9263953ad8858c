------------------------------ MODULE ModuleList ------------------------------
(***************************************************************************)
(* The unwinder's list of modules (src/src/unwinder.rs), sorted by start   *)
(* address.  A module is loaded at [start, end); base is the address that  *)
(* relative addresses count from; data stands for its unwind sections.     *)
(* Positions count from 1 here and from 0 in the code.                     *)
(***************************************************************************)
EXTENDS Integers, Sequences, SequencesExt

CONSTANTS
    Modules,   \* the modules callers may add
    Data,      \* the unwind data modules carry
    MaxRel     \* u32::MAX, the largest relative address

ASSUME ModulesAssumption ==
    /\ Modules \subseteq [start : Nat, end : Nat, base : Nat, data : Data]
    /\ MaxRel \in Nat

(***************************************************************************)
(* slice::binary_search_by_key on start addresses: any of the matching     *)
(* positions, or the position at which the key has to be inserted.         *)
(***************************************************************************)
BinarySearch(modules, key) ==
    {[ok |-> TRUE, index |-> i] : i \in {j \in 1 .. Len(modules) : modules[j].start = key}}
    \cup
    {[ok |-> FALSE, index |-> i] : i \in
        {j \in 1 .. Len(modules) + 1 :
            /\ \A k \in 1 .. j - 1 : modules[k].start < key
            /\ \A k \in j .. Len(modules) : key < modules[k].start}}

\* Mutant: the module is pushed at the end of the list.
AddedAtEnd(modules, module) == {Append(modules, module)}

Added(modules, module) ==
    {InsertAt(modules, r.index, module) : r \in BinarySearch(modules, module.start)}

Removed(modules, start) ==
    {RemoveAt(modules, r.index) : r \in {s \in BinarySearch(modules, start) : s.ok}}

max_known_code_address(modules) ==
    IF modules = <<>> THEN 0 ELSE modules[Len(modules)].end

NotFound == [index |-> 0, rel |-> 0]

\* Mutant: the end of a module counts as part of it.
LocateInclusive(modules, r, address) ==
    LET i == IF r.ok THEN r.index ELSE r.index - 1
    IN  IF \/ i = 0
           \/ ~r.ok /\ modules[i].end < address
           \/ address < modules[i].base
           \/ address - modules[i].base > MaxRel
        THEN NotFound
        ELSE [index |-> i, rel |-> address - modules[i].base]

Locate(modules, r, address) ==
    LET i == IF r.ok THEN r.index ELSE r.index - 1
    IN  IF \/ i = 0
           \/ ~r.ok /\ modules[i].end <= address
           \/ address < modules[i].base
           \/ address - modules[i].base > MaxRel
        THEN NotFound
        ELSE [index |-> i, rel |-> address - modules[i].base]

find_module_for_address(modules, address) ==
    {Locate(modules, r, address) : r \in BinarySearch(modules, address)}

(***************************************************************************)
(* What callers owe the list for lookups to be exact: nonempty address     *)
(* ranges that do not overlap.                                             *)
(***************************************************************************)
Covers(module, address) == module.start <= address /\ address < module.end

DisjointModules(modules) ==
    /\ \A i \in DOMAIN modules : modules[i].start < modules[i].end
    /\ \A i, j \in DOMAIN modules :
          i # j => \/ modules[i].end <= modules[j].start
                   \/ modules[j].end <= modules[i].start

SortedByStart(modules) ==
    \A i, j \in 1 .. Len(modules) : i <= j => modules[i].start <= modules[j].start
=============================================================================
