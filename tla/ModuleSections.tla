--------------------------- MODULE ModuleSections ----------------------------
(***************************************************************************)
(* How Module::new chooses the unwind data of a module and asks the        *)
(* caller's ModuleSectionInfo for it (ModuleUnwindDataInternal::new in     *)
(* src/src/unwinder.rs).  One action per kind of unwind data, in the order *)
(* of the code; every call of ModuleSectionInfo with &mut self is          *)
(* recorded.  A range that PE unwinding cannot express as an RVA is one    *)
(* the section does not have.  Where the code builds an index of the FDEs, *)
(* the module is composed with DwarfCfiIndex, which builds it.             *)
(***************************************************************************)
EXTENDS Naturals, Sequences

CONSTANTS
    Inputs,      \* modules: names with data and with a range, entries of the CFI section
    base_svma,   \* the base address of the module
    MaxU32,      \* bound: the largest u32
    None

VARIABLES
    data,     \* the names whose data is available
    ranges,   \* the names whose range is available
    at,       \* the kind of unwind data that is tried next, or "Done"
    calls,    \* the calls made
    kind,     \* the variant of ModuleUnwindDataInternal
    entries, read, cur_cie, fde_pc_and_offset, index, result   \* the index, see DwarfCfiIndex

Index == INSTANCE DwarfCfiIndex

ASSUME InputsAssumption ==
    /\ \A input \in Inputs : input.entries \in Seq(Index!Entry)
    /\ base_svma \in Nat
    /\ MaxU32 \in Nat
    /\ None \notin Nat   \* no offset

indexVars == <<entries, read, cur_cie, fde_pc_and_offset, index, result>>

vars == <<data, ranges, at, calls, kind, indexVars>>

Init ==
    /\ \E input \in Inputs : /\ data = input.data
                            /\ ranges = input.ranges
                            /\ Index!Start(input.entries)
    /\ at = "MachO"
    /\ calls = <<>>
    /\ kind = "None"

section_data(name) == <<<<"section_data", name>>>>
section_svma_range(name) == <<<<"section_svma_range", name>>>>
segment_data(name) == <<<<"segment_data", name>>>>
segment_svma_range(name) == <<<<"segment_svma_range", name>>>>

(***************************************************************************)
(* The calls for the first of two names that is available.                 *)
(***************************************************************************)
FirstOf(call, available, name, otherwise) ==
    <<<<call, name>>>> \o (IF name \in available THEN <<>> ELSE <<<<call, otherwise>>>>)

base_addresses_for_sections ==
    FirstOf("section_svma_range", ranges, "__eh_frame", ".eh_frame")
      \o FirstOf("section_svma_range", ranges, "__eh_frame_hdr", ".eh_frame_hdr")
      \o FirstOf("section_svma_range", ranges, "__text", ".text")
      \o FirstOf("section_svma_range", ranges, "__got", ".got")

try_new_index == base_addresses_for_sections

Asked(asked) == calls' = calls \o asked /\ UNCHANGED <<data, ranges, indexVars>>

Continue(next) == at' = next /\ UNCHANGED kind

Chosen(chosen) == at' = "Done" /\ kind' = chosen

(***************************************************************************)
(* The bytes of the whole __TEXT segment, or else those of __text: both    *)
(* parts of a pair are asked for before either is looked at.               *)
(***************************************************************************)
text_data ==
    segment_data("__TEXT") \o segment_svma_range("__TEXT")
      \o (IF "__TEXT" \in data \cap ranges THEN <<>>
          ELSE section_data("__text") \o section_svma_range("__text"))

new_macho ==
    /\ at = "MachO"
    /\ \/ /\ "__unwind_info" \notin data
          /\ Asked(section_data("__unwind_info"))
          /\ Continue("Pe")
       \/ /\ "__unwind_info" \in data
          /\ Asked(section_data("__unwind_info") \o section_data("__eh_frame")
                     \o section_svma_range("__stubs") \o section_svma_range("__stub_helper")
                     \o text_data \o base_addresses_for_sections)
          /\ Chosen("CompactUnwindInfoAndEhFrame")

range_and_data(name) ==
    section_svma_range(name) \o (IF name \in ranges THEN section_data(name) ELSE <<>>)

new_pe ==
    /\ at = "Pe"
    /\ \/ /\ ".pdata" \notin data
          /\ Asked(section_data(".pdata"))
          /\ Continue("EhFrame")
       \/ /\ ".pdata" \in data
          /\ Asked(section_data(".pdata") \o range_and_data(".rdata") \o range_and_data(".xdata")
                     \o range_and_data(".text"))
          /\ Chosen("PeUnwindInfo")

\* Mutant: both names are the one of ELF.
EhFrameAgain == FirstOf("section_data", data, ".eh_frame", ".eh_frame")

EhFrameData == FirstOf("section_data", data, ".eh_frame", "__eh_frame")

HasEhFrame == data \cap {".eh_frame", "__eh_frame"} # {}

HasEhFrameHdr == data \cap {".eh_frame_hdr", "__eh_frame_hdr"} # {}

EhFrameHdrData == FirstOf("section_data", data, ".eh_frame_hdr", "__eh_frame_hdr")

new_eh_frame ==
    /\ at = "EhFrame"
    /\ \/ /\ ~HasEhFrame
          /\ Asked(EhFrameData)
          /\ Continue("DebugFrame")
       \/ /\ HasEhFrame /\ HasEhFrameHdr
          /\ Asked(EhFrameData \o EhFrameHdrData \o base_addresses_for_sections)
          /\ Chosen("EhFrameHdrAndEhFrame")
       \/ /\ HasEhFrame /\ ~HasEhFrameHdr
          /\ Asked(EhFrameData \o EhFrameHdrData \o try_new_index)
          /\ Continue("EhFrameIndex")

new_debug_frame ==
    /\ at = "DebugFrame"
    /\ \/ /\ ".debug_frame" \notin data
          /\ Asked(section_data(".debug_frame"))
          /\ Chosen("None")
       \/ /\ ".debug_frame" \in data
          /\ Asked(section_data(".debug_frame") \o try_new_index)
          /\ Continue("DebugFrameIndex")

BuildingIndex == at \in {"EhFrameIndex", "DebugFrameIndex"}

build_index ==
    /\ BuildingIndex
    /\ Index!Next
    /\ UNCHANGED <<data, ranges, at, calls, kind>>

KindWithIndex ==
    IF at = "EhFrameIndex" THEN "DwarfCfiIndexAndEhFrame" ELSE "DwarfCfiIndexAndDebugFrame"

use_index ==
    /\ BuildingIndex
    /\ \/ /\ result = "Ok"
          /\ Asked(base_addresses_for_sections)
          /\ Chosen(KindWithIndex)
       \/ /\ result = "Err"
          /\ Asked(<<>>)
          /\ Chosen("None")

Next == new_macho \/ new_pe \/ new_eh_frame \/ new_debug_frame \/ build_index \/ use_index

Spec == Init /\ [][Next]_vars /\ WF_vars(Next)

-----------------------------------------------------------------------------
(***************************************************************************)
(* The field of ExplicitModuleSectionInfo that a name stands for: two      *)
(* names may stand for one, whose data is gone once it has been asked for. *)
(***************************************************************************)
Aliases == {{"__text", ".text"}, {"__eh_frame", ".eh_frame"},
            {"__eh_frame_hdr", ".eh_frame_hdr"}, {"__debug_frame", ".debug_frame"}}

SameField(name, other) == name = other \/ \E names \in Aliases : {name, other} \subseteq names

IsForData(call) == call[1] \in {"section_data", "segment_data"}

(***************************************************************************)
(* The data of a section or a segment is asked for at most once, whatever  *)
(* the module has and whatever kinds of unwind data were tried, and data   *)
(* that was handed out is not asked for by its other name, so that         *)
(* ModuleSectionInfo may move it out: section_data and segment_data "will  *)
(* only be called once" (src/src/unwinder.rs:812, 820).                    *)
(***************************************************************************)
DataIsAskedOnce ==
    \A k \in DOMAIN calls : IsForData(calls[k]) =>
        \A j \in 1 .. k - 1 : calls[j][1] = calls[k][1] =>
            /\ calls[j] # calls[k]
            /\ SameField(calls[j][2], calls[k][2]) => calls[j][2] \notin data

(***************************************************************************)
(* A module that is given an index unwinds every address that an FDE       *)
(* covers by a row of that FDE, wherever the FDE is in the section and     *)
(* whatever CIE was parsed before it, as long as the FDEs are not empty    *)
(* and do not overlap (DwarfCfiIndex and unwind_frame_impl).               *)
(***************************************************************************)
CoveredAddressesHaveTheirRow ==
    kind \in {"DwarfCfiIndexAndEhFrame", "DwarfCfiIndexAndDebugFrame"} => Index!RowsAreFound

(***************************************************************************)
(* An index is used exactly if every entry of the section could be read    *)
(* and fits, and then it has all FDEs of the section: try_new gives up at  *)
(* the first error, and no FDE is lost on the way.                         *)
(***************************************************************************)
IndexIsAllOrNothing ==
    [][BuildingIndex /\ at' = "Done" =>
         IF Index!IsDamaged THEN kind' = "None" ELSE kind' # "None" /\ Index!HasAllFdes]_vars

=============================================================================
