---------------------------- MODULE DwarfCfiIndex ----------------------------
(***************************************************************************)
(* The index of the FDEs of a module without an .eh_frame_hdr              *)
(* (DwarfCfiIndex in src/src/dwarf.rs): how it is built, entry by entry,   *)
(* and how unwinding finds the FDE for an address with it                  *)
(* (unwind_frame_impl in src/src/unwinder.rs).                             *)
(*                                                                         *)
(* The offset of an entry is its position in the section.  The start       *)
(* address that an FDE encodes depends on the encoding its CIE gives,      *)
(* which a number stands for that is added to the encoded one.             *)
(***************************************************************************)
EXTENDS Integers, Sequences

CONSTANTS
    base_svma,   \* the base address of the module
    MaxU32,      \* bound: the largest u32
    None

Cie(base) == [kind |-> "Cie", base |-> base]
Fde(cie, start, len) == [kind |-> "Fde", cie |-> cie, start |-> start, len |-> len]
Malformed == [kind |-> "Malformed"]

Entry == [kind : {"Cie"}, base : Int]
           \cup [kind : {"Fde"}, cie : Nat, start : Int, len : Nat]
           \cup [kind : {"Malformed"}]

VARIABLES
    entries,             \* the entries of the section
    read,                \* how many of them have been read
    cur_cie,             \* the CIE parsed last, by its offset
    fde_pc_and_offset,   \* the FDEs found so far
    index,               \* the sorted FDEs
    result               \* "Building", "Err" or "Ok"

vars == <<entries, read, cur_cie, fde_pc_and_offset, index, result>>

Start(section) ==
    /\ entries = section
    /\ read = 0
    /\ cur_cie = None
    /\ fde_pc_and_offset = <<>>
    /\ index = <<>>
    /\ result = "Building"

entry == entries[read + 1]

Reading == result = "Building" /\ read < Len(entries)

InitialAddress(fde, cie) == fde.start + entries[cie].base

read_cie ==
    /\ Reading /\ entry.kind = "Cie"
    /\ cur_cie' = read + 1
    /\ read' = read + 1
    /\ UNCHANGED <<entries, fde_pc_and_offset, index, result>>

HasCie(fde) == fde.cie \in DOMAIN entries /\ entries[fde.cie].kind = "Cie"

\* Mutant: the CIE parsed last is taken without a look at its offset.
LastCie(fde) == IF cur_cie # None THEN cur_cie ELSE fde.cie

(***************************************************************************)
(* The CIE parsed last is used again if it has the right offset.           *)
(***************************************************************************)
CieFor(fde) == IF cur_cie # None /\ cur_cie = fde.cie THEN cur_cie ELSE fde.cie

Fits(n) == 0 <= n /\ n <= MaxU32

read_fde ==
    LET pc == InitialAddress(entry, CieFor(entry)) - base_svma
    IN  /\ Reading /\ entry.kind = "Fde" /\ HasCie(entry)
        /\ cur_cie' = CieFor(entry)
        /\ \/ /\ Fits(pc) /\ Fits(read + 1)
              /\ fde_pc_and_offset' = Append(fde_pc_and_offset, [pc |-> pc, offset |-> read + 1])
              /\ UNCHANGED result
           \/ /\ ~(Fits(pc) /\ Fits(read + 1))
              /\ result' = "Err"
              /\ UNCHANGED fde_pc_and_offset
        /\ read' = read + 1
        /\ UNCHANGED <<entries, index>>

\* Mutant: the entry is skipped.
skip_malformed ==
    /\ Reading
    /\ entry.kind = "Malformed" \/ (entry.kind = "Fde" /\ ~HasCie(entry))
    /\ read' = read + 1
    /\ UNCHANGED <<entries, cur_cie, fde_pc_and_offset, index, result>>


(***************************************************************************)
(* One entry that cannot be parsed, or whose CIE cannot, and the module    *)
(* has no index.                                                           *)
(***************************************************************************)
read_malformed ==
    /\ Reading
    /\ entry.kind = "Malformed" \/ (entry.kind = "Fde" /\ ~HasCie(entry))
    /\ result' = "Err"
    /\ UNCHANGED <<entries, read, cur_cie, fde_pc_and_offset, index>>

(***************************************************************************)
(* sort_by_key is stable: equal start addresses stay in their order.       *)
(***************************************************************************)
sort_by_key(fdes) ==
    LET Before(i, j) == fdes[i].pc < fdes[j].pc \/ (fdes[i].pc = fdes[j].pc /\ i < j)
        places == {p \in [DOMAIN fdes -> DOMAIN fdes] :
                     \A i, j \in DOMAIN fdes : i < j => Before(p[i], p[j])}
    IN  [k \in DOMAIN fdes |-> fdes[(CHOOSE p \in places : TRUE)[k]]]

finish ==
    /\ result = "Building" /\ read = Len(entries)
    /\ result' = "Ok"
    /\ index' = sort_by_key(fde_pc_and_offset)
    /\ UNCHANGED <<entries, read, cur_cie, fde_pc_and_offset>>

Next == read_cie \/ read_fde \/ read_malformed \/ finish

(***************************************************************************)
(* What binary_search may return for an address: with several equal start  *)
(* addresses, any of them; with none, the place to insert one, from which  *)
(* the lookup steps back.  Places count from 1, and 0 is no FDE.           *)
(***************************************************************************)
Places(address) ==
    LET equal == {i \in DOMAIN index : index[i].pc = address}
    IN  IF equal # {} THEN equal
        ELSE {i \in 0 .. Len(index) :
                /\ \A j \in 1 .. i : index[j].pc < address
                /\ \A j \in i + 1 .. Len(index) : index[j].pc > address}

fde_offset_for_relative_address(address) ==
    {IF i = 0 THEN None ELSE index[i].offset : i \in Places(address)}

(***************************************************************************)
(* The ways unwind_frame_impl may unwind a frame with this index: by the   *)
(* row of the FDE with this offset, by the rule for addresses that their   *)
(* FDE does not cover, or by the fallback rule.                            *)
(***************************************************************************)
Covers(offset, address) ==
    LET fde == entries[offset]
        start == InitialAddress(fde, fde.cie) - base_svma
    IN  start <= address /\ address < start + fde.len

unwind_frame_impl(address) ==
    {IF offset = None THEN [by |-> "Fallback"]
     ELSE IF Covers(offset, address) THEN [by |-> "Row", fde |-> offset]
     ELSE [by |-> "Uncovered"] : offset \in fde_offset_for_relative_address(address)}

-----------------------------------------------------------------------------
Fdes == {i \in DOMAIN entries : entries[i].kind = "Fde"}

(***************************************************************************)
(* Every address that an FDE covers is unwound by a row of that FDE, as    *)
(* long as the FDEs are not empty and do not overlap.                      *)
(***************************************************************************)
Addresses == 0 .. MaxU32

Disjoint ==
    /\ \A i \in Fdes : entries[i].len > 0
    /\ \A i, j \in Fdes, a \in Addresses : Covers(i, a) /\ Covers(j, a) => i = j

RowsAreFound ==
    Disjoint =>
        \A i \in Fdes, a \in Addresses : Covers(i, a) => unwind_frame_impl(a) = {[by |-> "Row", fde |-> i]}

(***************************************************************************)
(* When building must fail, and what an index that was built must have.    *)
(***************************************************************************)
IsDamaged ==
    \E i \in DOMAIN entries :
        \/ entries[i].kind = "Malformed"
        \/ i \in Fdes /\ ~HasCie(entries[i])
        \/ i \in Fdes /\ HasCie(entries[i]) /\ ~Fits(InitialAddress(entries[i], entries[i].cie) - base_svma)
        \/ i \in Fdes /\ ~Fits(i)

HasAllFdes == {index[k].offset : k \in DOMAIN index} = Fdes
=============================================================================
