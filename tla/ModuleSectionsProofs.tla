------------------------ MODULE ModuleSectionsProofs -------------------------
(***************************************************************************)
(* Proofs about ModuleSections, for every module: whatever sections it has *)
(* and whatever entries its CFI section has.                               *)
(***************************************************************************)
EXTENDS ModuleSections, FiniteSetTheorems, TLAPS

Names == {"__unwind_info", "__eh_frame", "__stubs", "__stub_helper", "__TEXT", "__text",
          "__eh_frame_hdr", "__got", ".pdata", ".rdata", ".xdata", ".text", ".eh_frame",
          ".eh_frame_hdr", ".debug_frame", ".got"}

Call == {"section_data", "segment_data", "section_svma_range", "segment_svma_range"} \X Names

\* After data was asked for by the name m, data may be asked for by the name n.
MayFollow(m, n) == m # n /\ (SameField(m, n) => m \notin data)

(***************************************************************************)
(* DataIsAskedOnce of any list of calls that asks for data only by these   *)
(* names.                                                                  *)
(***************************************************************************)
Asks(list, names) ==
    /\ list \in Seq(Call)
    /\ \A k \in DOMAIN list : IsForData(list[k]) =>
          /\ list[k][2] \in names
          /\ \A j \in 1 .. k - 1 : list[j][1] = list[k][1] => MayFollow(list[j][2], list[k][2])

LEMMA AsksThen ==
    ASSUME NEW s, NEW t, NEW M, NEW N, Asks(s, M), Asks(t, N),
           \A m \in M, n \in N : MayFollow(m, n)
    PROVE  Asks(s \o t, M \cup N)
<1> DEFINE st == s \o t
<1>1. /\ st \in Seq(Call) /\ Len(s) \in Nat /\ Len(t) \in Nat
      /\ DOMAIN s = 1 .. Len(s) /\ DOMAIN t = 1 .. Len(t) /\ DOMAIN st = 1 .. Len(s) + Len(t)
      /\ \A k \in 1 .. Len(s) : st[k] = s[k]
      /\ \A k \in Len(s) + 1 .. Len(s) + Len(t) : k - Len(s) \in 1 .. Len(t) /\ st[k] = t[k - Len(s)]
  BY DEF Asks
<1> SUFFICES Asks(st, M \cup N)
  OBVIOUS
<1> HIDE DEF st
<1>2. ASSUME NEW k \in DOMAIN st, IsForData(st[k])
      PROVE  st[k][2] \in M \cup N
  <2>1. k \in 1 .. Len(s) \/ k \in Len(s) + 1 .. Len(s) + Len(t)
    BY <1>1
  <2> QED
    BY <1>1, <1>2, <2>1 DEF Asks
<1>3. ASSUME NEW k \in DOMAIN st, IsForData(st[k]), NEW j \in 1 .. k - 1, st[j][1] = st[k][1]
      PROVE  MayFollow(st[j][2], st[k][2])
  <2>1. CASE k \in 1 .. Len(s)
    BY <1>1, <1>3, <2>1 DEF Asks
  <2>2. CASE k \in Len(s) + 1 .. Len(s) + Len(t) /\ j \in 1 .. Len(s)
    <3>1. IsForData(s[j]) /\ IsForData(t[k - Len(s)])
      BY <1>1, <1>3, <2>2 DEF IsForData
    <3>2. s[j][2] \in M /\ t[k - Len(s)][2] \in N
      BY <1>1, <2>2, <3>1 DEF Asks
    <3> QED
      BY <1>1, <2>2, <3>2
  <2>3. CASE k \in Len(s) + 1 .. Len(s) + Len(t) /\ j \in Len(s) + 1 .. Len(s) + Len(t)
    <3>1. /\ k - Len(s) \in DOMAIN t /\ j - Len(s) \in 1 .. (k - Len(s)) - 1
          /\ st[k] = t[k - Len(s)] /\ st[j] = t[j - Len(s)]
      BY <1>1, <2>3
    <3> QED
      BY <1>3, <3>1 DEF Asks
  <2> QED
    BY <1>1, <2>1, <2>2, <2>3
<1> QED
  BY <1>1, <1>2, <1>3 DEF Asks

LEMMA AsksNothing == Asks(<<>>, {})
  BY DEF Asks

LEMMA AsksForData ==
    ASSUME NEW call \in {"section_data", "segment_data"}, NEW name \in Names
    PROVE  Asks(<<<<call, name>>>>, {name})
  BY DEF Asks, Call, IsForData

LEMMA AsksForRange ==
    ASSUME NEW call \in {"section_svma_range", "segment_svma_range"}, NEW name \in Names
    PROVE  Asks(<<<<call, name>>>>, {})
  BY DEF Asks, Call, IsForData

LEMMA AsksMore ==
    ASSUME NEW s, NEW M, NEW N, Asks(s, M), M \subseteq N
    PROVE  Asks(s, N)
  BY DEF Asks

(***************************************************************************)
(* Calls for ranges may be made at any time.                               *)
(***************************************************************************)
LEMMA AsksThenRanges ==
    ASSUME NEW s, NEW t, NEW M, Asks(s, M), Asks(t, {})
    PROVE  Asks(s \o t, M)
<1>1. Asks(s \o t, M \cup {})
  BY AsksThen
<1>2. M \cup {} = M
  OBVIOUS
<1> QED
  BY <1>1, <1>2

LEMMA FirstOfRanges ==
    ASSUME NEW name \in Names, NEW otherwise \in Names
    PROVE  Asks(FirstOf("section_svma_range", ranges, name, otherwise), {})
<1>1. /\ Asks(<<<<"section_svma_range", name>>>>, {})
      /\ Asks(<<<<"section_svma_range", otherwise>>>>, {})
      /\ Asks(<<>>, {})
  BY AsksForRange, AsksNothing
<1> QED
  BY <1>1, AsksThenRanges DEF FirstOf

LEMMA AsksForBases == Asks(base_addresses_for_sections, {})
<1>1. Asks(FirstOf("section_svma_range", ranges, "__eh_frame", ".eh_frame"), {})
  BY FirstOfRanges DEF Names
<1>2. Asks(FirstOf("section_svma_range", ranges, "__eh_frame_hdr", ".eh_frame_hdr"), {})
  BY FirstOfRanges DEF Names
<1>3. Asks(FirstOf("section_svma_range", ranges, "__text", ".text"), {})
  BY FirstOfRanges DEF Names
<1>4. Asks(FirstOf("section_svma_range", ranges, "__got", ".got"), {})
  BY FirstOfRanges DEF Names
<1> QED
  BY <1>1, <1>2, <1>3, <1>4, AsksThenRanges DEF base_addresses_for_sections

(***************************************************************************)
(* The second name is asked for only if there was no data by the first.    *)
(***************************************************************************)
LEMMA FirstOfData ==
    ASSUME NEW name \in Names, NEW otherwise \in Names, name # otherwise
    PROVE  /\ Asks(FirstOf("section_data", data, name, otherwise), {name, otherwise})
<1>1. /\ Asks(<<<<"section_data", name>>>>, {name})
      /\ Asks(<<<<"section_data", otherwise>>>>, {otherwise})
      /\ Asks(<<>>, {})
  BY AsksForData, AsksNothing
<1>2. CASE name \in data
  <2>1. Asks(<<<<"section_data", name>>>> \o <<>>, {name})
    BY <1>1, AsksThenRanges
  <2> QED
    BY <1>2, <2>1, AsksMore DEF FirstOf
<1>3. CASE name \notin data
  <2>1. Asks(<<<<"section_data", name>>>> \o <<<<"section_data", otherwise>>>>, {name} \cup {otherwise})
    <3>1. \A m \in {name}, n \in {otherwise} : MayFollow(m, n)
      BY <1>3 DEF MayFollow
    <3> QED
      BY <1>1, <3>1, AsksThen
  <2>2. {name} \cup {otherwise} = {name, otherwise}
    OBVIOUS
  <2> QED
    BY <1>3, <2>1, <2>2 DEF FirstOf
<1> QED
  BY <1>2, <1>3

(***************************************************************************)
(* The names by which each arm of the code asks for data.                  *)
(***************************************************************************)
LEMMA AsksForText == Asks(text_data, {"__TEXT", "__text"})
<1>1. Asks(segment_data("__TEXT") \o segment_svma_range("__TEXT"), {"__TEXT"})
  BY AsksForData, AsksForRange, AsksThenRanges DEF segment_data, segment_svma_range, Names
<1>2. Asks(section_data("__text") \o section_svma_range("__text"), {"__text"})
  BY AsksForData, AsksForRange, AsksThenRanges DEF section_data, section_svma_range, Names
<1>3. MayFollow("__TEXT", "__text")
  BY DEF MayFollow, SameField, Aliases
<1>4. CASE "__TEXT" \in data \cap ranges
  BY <1>1, <1>4, AsksNothing, AsksThenRanges, AsksMore DEF text_data
<1>5. CASE "__TEXT" \notin data \cap ranges
  <2>1. Asks((segment_data("__TEXT") \o segment_svma_range("__TEXT"))
               \o (section_data("__text") \o section_svma_range("__text")), {"__TEXT"} \cup {"__text"})
    BY <1>1, <1>2, <1>3, AsksThen
  <2> QED
    BY <1>5, <2>1, AsksMore DEF text_data
<1> QED
  BY <1>4, <1>5

MachoCalls ==
    section_data("__unwind_info") \o section_data("__eh_frame")
      \o section_svma_range("__stubs") \o section_svma_range("__stub_helper")
      \o text_data \o base_addresses_for_sections

LEMMA AsksForMacho == Asks(MachoCalls, {"__unwind_info", "__eh_frame", "__TEXT", "__text"})
<1>1. /\ Asks(section_data("__unwind_info"), {"__unwind_info"})
      /\ Asks(section_data("__eh_frame"), {"__eh_frame"})
  BY AsksForData DEF section_data, Names
<1>2. /\ Asks(section_svma_range("__stubs"), {})
      /\ Asks(section_svma_range("__stub_helper"), {})
  BY AsksForRange DEF section_svma_range, Names
<1>3. Asks(section_data("__unwind_info") \o section_data("__eh_frame"),
           {"__unwind_info"} \cup {"__eh_frame"})
  <2>1. MayFollow("__unwind_info", "__eh_frame")
    BY DEF MayFollow, SameField, Aliases
  <2> QED
    BY <1>1, <2>1, AsksThen
<1>4. Asks(section_data("__unwind_info") \o section_data("__eh_frame")
             \o section_svma_range("__stubs") \o section_svma_range("__stub_helper"),
           {"__unwind_info"} \cup {"__eh_frame"})
  BY <1>2, <1>3, AsksThenRanges
<1>5. Asks(section_data("__unwind_info") \o section_data("__eh_frame")
             \o section_svma_range("__stubs") \o section_svma_range("__stub_helper") \o text_data,
           {"__unwind_info"} \cup {"__eh_frame"} \cup {"__TEXT", "__text"})
  <2>1. \A m \in {"__unwind_info"} \cup {"__eh_frame"}, n \in {"__TEXT", "__text"} : MayFollow(m, n)
    BY DEF MayFollow, SameField, Aliases
  <2> QED
    BY <1>4, <2>1, AsksForText, AsksThen
<1>6. Asks(MachoCalls, {"__unwind_info"} \cup {"__eh_frame"} \cup {"__TEXT", "__text"})
  BY <1>5, AsksForBases, AsksThenRanges DEF MachoCalls
<1> QED
  BY <1>6, AsksMore

LEMMA AsksForRangeAndData ==
    ASSUME NEW name \in Names
    PROVE  Asks(range_and_data(name), {name})
<1>1. Asks(section_svma_range(name), {}) /\ Asks(section_data(name), {name}) /\ Asks(<<>>, {})
  BY AsksForData, AsksForRange, AsksNothing DEF section_data, section_svma_range
<1>2. Asks(section_svma_range(name) \o section_data(name), {} \cup {name})
  BY <1>1, AsksThen
<1>3. Asks(section_svma_range(name) \o <<>>, {})
  BY <1>1, AsksThenRanges
<1> QED
  BY <1>2, <1>3, AsksMore DEF range_and_data

PeCalls ==
    section_data(".pdata") \o range_and_data(".rdata") \o range_and_data(".xdata")
      \o range_and_data(".text")

LEMMA AsksForPe == Asks(PeCalls, {".pdata", ".rdata", ".xdata", ".text"})
<1>1. Asks(section_data(".pdata"), {".pdata"})
  BY AsksForData DEF section_data, Names
<1>2. /\ Asks(range_and_data(".rdata"), {".rdata"})
      /\ Asks(range_and_data(".xdata"), {".xdata"})
      /\ Asks(range_and_data(".text"), {".text"})
  BY AsksForRangeAndData DEF Names
<1>3. Asks(section_data(".pdata") \o range_and_data(".rdata"), {".pdata"} \cup {".rdata"})
  <2>1. MayFollow(".pdata", ".rdata")
    BY DEF MayFollow, SameField, Aliases
  <2> QED
    BY <1>1, <1>2, <2>1, AsksThen
<1>4. Asks(section_data(".pdata") \o range_and_data(".rdata") \o range_and_data(".xdata"),
           {".pdata"} \cup {".rdata"} \cup {".xdata"})
  <2>1. \A m \in {".pdata"} \cup {".rdata"} : MayFollow(m, ".xdata")
    BY DEF MayFollow, SameField, Aliases
  <2> QED
    BY <1>2, <1>3, <2>1, AsksThen
<1>5. Asks(PeCalls, {".pdata"} \cup {".rdata"} \cup {".xdata"} \cup {".text"})
  <2>1. \A m \in {".pdata"} \cup {".rdata"} \cup {".xdata"} : MayFollow(m, ".text")
    BY DEF MayFollow, SameField, Aliases
  <2> QED
    BY <1>2, <1>4, <2>1, AsksThen DEF PeCalls
<1> QED
  BY <1>5, AsksMore

LEMMA AsksForEhFrame == Asks(EhFrameData, {".eh_frame", "__eh_frame"})
  BY FirstOfData DEF EhFrameData, Names

LEMMA AsksForEhFrameHdr ==
    Asks(EhFrameData \o EhFrameHdrData \o base_addresses_for_sections,
         {".eh_frame", "__eh_frame", ".eh_frame_hdr", "__eh_frame_hdr"})
<1>1. Asks(EhFrameHdrData, {".eh_frame_hdr", "__eh_frame_hdr"})
  BY FirstOfData DEF EhFrameHdrData, Names
<1>2. \A m \in {".eh_frame", "__eh_frame"}, n \in {".eh_frame_hdr", "__eh_frame_hdr"} :
         MayFollow(m, n)
  BY DEF MayFollow, SameField, Aliases
<1>3. Asks(EhFrameData \o EhFrameHdrData,
           {".eh_frame", "__eh_frame"} \cup {".eh_frame_hdr", "__eh_frame_hdr"})
  BY <1>1, <1>2, AsksForEhFrame, AsksThen
<1> QED
  BY <1>3, AsksForBases, AsksThenRanges, AsksMore

-----------------------------------------------------------------------------
(***************************************************************************)
(* The names by which data has been asked for when a kind of unwind data   *)
(* is tried.  Once an index is being built, no more data is asked for.     *)
(***************************************************************************)
AskedBefore ==
    CASE at = "MachO"      -> {}
      [] at = "Pe"         -> {"__unwind_info"}
      [] at = "EhFrame"    -> {"__unwind_info", ".pdata"}
      [] at = "DebugFrame" -> {"__unwind_info", ".pdata", ".eh_frame", "__eh_frame"}
      [] OTHER             -> Names

CallsInv ==
    /\ at \in {"MachO", "Pe", "EhFrame", "DebugFrame", "EhFrameIndex", "DebugFrameIndex", "Done"}
    /\ Asks(calls, AskedBefore)

LEMMA CallsInit == Init => CallsInv
  BY AsksNothing DEF Init, CallsInv, AskedBefore

(***************************************************************************)
(* An arm that asks for data only by names that may follow all earlier     *)
(* ones keeps the invariant.                                               *)
(***************************************************************************)
LEMMA AskedStep ==
    ASSUME CallsInv, NEW asked, NEW names, Asked(asked), Asks(asked, names),
           \A m \in AskedBefore, n \in names : MayFollow(m, n),
           at' \in {"Pe", "EhFrame", "DebugFrame", "EhFrameIndex", "DebugFrameIndex", "Done"},
           AskedBefore \cup names \subseteq AskedBefore'
    PROVE  CallsInv'
<1>1. Asks(calls \o asked, AskedBefore \cup names)
  BY AsksThen DEF CallsInv
<1>2. Asks(calls \o asked, AskedBefore')
  BY <1>1, AsksMore
<1>3. Asks(calls, AskedBefore)'
  BY <1>2 DEF Asked, Asks, MayFollow
<1> QED
  BY <1>3 DEF CallsInv

LEMMA MachoStep == CallsInv /\ new_macho => CallsInv'
<1> SUFFICES ASSUME CallsInv, new_macho PROVE CallsInv'
  OBVIOUS
<1>1. AskedBefore = {}
  BY DEF new_macho, AskedBefore
<1>2. CASE Asked(section_data("__unwind_info")) /\ Continue("Pe")
  <2>1. Asks(section_data("__unwind_info"), {"__unwind_info"})
    BY AsksForData DEF section_data, Names
  <2>2. at' = "Pe" /\ AskedBefore' = {"__unwind_info"}
    BY <1>2 DEF Continue, AskedBefore
  <2> QED
    BY <1>1, <1>2, <2>1, <2>2, AskedStep
<1>3. CASE Asked(MachoCalls) /\ Chosen("CompactUnwindInfoAndEhFrame")
  <2>1. at' = "Done" /\ AskedBefore' = Names
    BY <1>3 DEF Chosen, AskedBefore
  <2>2. {"__unwind_info", "__eh_frame", "__TEXT", "__text"} \subseteq Names
    BY DEF Names
  <2> QED
    BY <1>1, <1>3, <2>1, <2>2, AskedStep, AsksForMacho
<1> QED
  BY <1>2, <1>3 DEF new_macho, MachoCalls

LEMMA PeStep == CallsInv /\ new_pe => CallsInv'
<1> SUFFICES ASSUME CallsInv, new_pe PROVE CallsInv'
  OBVIOUS
<1>1. AskedBefore = {"__unwind_info"}
  BY DEF new_pe, AskedBefore
<1>2. \A n \in {".pdata", ".rdata", ".xdata", ".text"} : MayFollow("__unwind_info", n)
  BY DEF MayFollow, SameField, Aliases
<1>3. CASE Asked(section_data(".pdata")) /\ Continue("EhFrame")
  <2>1. Asks(section_data(".pdata"), {".pdata"})
    BY AsksForData DEF section_data, Names
  <2>2. at' = "EhFrame" /\ AskedBefore' = {"__unwind_info", ".pdata"}
    BY <1>3 DEF Continue, AskedBefore
  <2> QED
    BY <1>1, <1>2, <1>3, <2>1, <2>2, AskedStep
<1>4. CASE Asked(PeCalls) /\ Chosen("PeUnwindInfo")
  <2>1. at' = "Done" /\ AskedBefore' = Names
    BY <1>4 DEF Chosen, AskedBefore
  <2>2. {"__unwind_info", ".pdata", ".rdata", ".xdata", ".text"} \subseteq Names
    BY DEF Names
  <2> QED
    BY <1>1, <1>2, <1>4, <2>1, <2>2, AskedStep, AsksForPe
<1> QED
  BY <1>3, <1>4 DEF new_pe, PeCalls

LEMMA EhFrameStep == CallsInv /\ new_eh_frame => CallsInv'
<1> SUFFICES ASSUME CallsInv, new_eh_frame PROVE CallsInv'
  OBVIOUS
<1>1. AskedBefore = {"__unwind_info", ".pdata"}
  BY DEF new_eh_frame, AskedBefore
<1>2. \A m \in {"__unwind_info", ".pdata"},
         n \in {".eh_frame", "__eh_frame", ".eh_frame_hdr", "__eh_frame_hdr"} : MayFollow(m, n)
  BY DEF MayFollow, SameField, Aliases
<1>3. CASE Asked(EhFrameData) /\ Continue("DebugFrame")
  <2>1. at' = "DebugFrame" /\ AskedBefore' = {"__unwind_info", ".pdata", ".eh_frame", "__eh_frame"}
    BY <1>3 DEF Continue, AskedBefore
  <2> QED
    BY <1>1, <1>2, <1>3, <2>1, AskedStep, AsksForEhFrame
<1>4. CASE /\ Asked(EhFrameData \o EhFrameHdrData \o base_addresses_for_sections)
           /\ at' \in {"EhFrameIndex", "Done"}
  <2>1. AskedBefore' = Names
    BY <1>4 DEF AskedBefore
  <2>2. {"__unwind_info", ".pdata", ".eh_frame", "__eh_frame", ".eh_frame_hdr", "__eh_frame_hdr"}
          \subseteq Names
    BY DEF Names
  <2> QED
    BY <1>1, <1>2, <1>4, <2>1, <2>2, AskedStep, AsksForEhFrameHdr
<1> QED
  BY <1>3, <1>4 DEF new_eh_frame, try_new_index, Chosen, Continue

LEMMA DebugFrameStep == CallsInv /\ new_debug_frame => CallsInv'
<1> SUFFICES ASSUME CallsInv, new_debug_frame PROVE CallsInv'
  OBVIOUS
<1>1. AskedBefore = {"__unwind_info", ".pdata", ".eh_frame", "__eh_frame"}
  BY DEF new_debug_frame, AskedBefore
<1>2. \A m \in {"__unwind_info", ".pdata", ".eh_frame", "__eh_frame"} : MayFollow(m, ".debug_frame")
  BY DEF MayFollow, SameField, Aliases
<1>3. Asks(section_data(".debug_frame"), {".debug_frame"})
  BY AsksForData DEF section_data, Names
<1>4. Asks(section_data(".debug_frame") \o try_new_index, {".debug_frame"})
  BY <1>3, AsksForBases, AsksThenRanges DEF try_new_index
<1>5. at' \in {"DebugFrameIndex", "Done"}
  BY DEF new_debug_frame, Chosen, Continue
<1>6. AskedBefore' = Names
  BY <1>5 DEF AskedBefore
<1>7. {"__unwind_info", ".pdata", ".eh_frame", "__eh_frame", ".debug_frame"} \subseteq Names
  BY DEF Names
<1>8. CASE Asked(section_data(".debug_frame"))
  BY <1>1, <1>2, <1>3, <1>5, <1>6, <1>7, <1>8, AskedStep
<1>9. CASE Asked(section_data(".debug_frame") \o try_new_index)
  BY <1>1, <1>2, <1>4, <1>5, <1>6, <1>7, <1>9, AskedStep
<1> QED
  BY <1>8, <1>9 DEF new_debug_frame

LEMMA IndexStep == CallsInv /\ use_index => CallsInv'
<1> SUFFICES ASSUME CallsInv, use_index PROVE CallsInv'
  OBVIOUS
<1>1. PICK asked \in {base_addresses_for_sections, <<>>} : Asked(asked)
  BY DEF use_index
<1>2. Asks(asked, {})
  BY AsksForBases, AsksNothing
<1>3. at' = "Done" /\ AskedBefore' = Names /\ AskedBefore = Names
  BY DEF use_index, BuildingIndex, Chosen, AskedBefore
<1> QED
  BY <1>1, <1>2, <1>3, AskedStep

LEMMA CallsStep == CallsInv /\ [Next]_vars => CallsInv'
<1>1. CallsInv /\ UNCHANGED <<data, at, calls>> => CallsInv'
  BY DEF CallsInv, AskedBefore, Asks, MayFollow
<1> QED
  BY <1>1, MachoStep, PeStep, EhFrameStep, DebugFrameStep, IndexStep
     DEF Next, vars, build_index

(***************************************************************************)
(* Module::new never asks its ModuleSectionInfo for the same data twice,   *)
(* nor for data that it was handed under the other name of its section,    *)
(* whatever sections the module has: section_data and segment_data may     *)
(* hand their data over.                                                   *)
(***************************************************************************)
THEOREM DataAskedOnce == Spec => []DataIsAskedOnce
<1>1. CallsInv => DataIsAskedOnce
  BY DEF CallsInv, Asks, MayFollow, DataIsAskedOnce
<1> QED
  BY <1>1, CallsInit, CallsStep, PTL DEF Spec

-----------------------------------------------------------------------------
(***************************************************************************)
(* A stable sort.  The place of an element is one more than the number of  *)
(* elements that come before it, which are all different numbers, and so   *)
(* they are all the places.                                                *)
(***************************************************************************)
Found == [pc : Nat, offset : Nat]

Before(fdes, i, j) == fdes[i].pc < fdes[j].pc \/ (fdes[i].pc = fdes[j].pc /\ i < j)

Sorting(fdes) ==
    {p \in [DOMAIN fdes -> DOMAIN fdes] :
        \A i, j \in DOMAIN fdes : i < j => Before(fdes, p[i], p[j])}

LEMMA FoundTyped ==
    ASSUME NEW fdes \in Seq(Found)
    PROVE  /\ Len(fdes) \in Nat /\ DOMAIN fdes = 1 .. Len(fdes)
           /\ \A i \in 1 .. Len(fdes) : fdes[i] \in Found /\ fdes[i].pc \in Nat /\ fdes[i].offset \in Nat
<1>1. /\ Len(fdes) \in Nat /\ DOMAIN fdes = 1 .. Len(fdes)
      /\ \A i \in 1 .. Len(fdes) : fdes[i] \in Found
  OBVIOUS
<1>2. \A fde \in Found : fde.pc \in Nat /\ fde.offset \in Nat
  BY DEF Found
<1> QED
  BY <1>1, <1>2

LEMMA SortingExists ==
    ASSUME NEW fdes \in Seq(Found)
    PROVE  Sorting(fdes) # {}
<1> DEFINE n == Len(fdes)
           D == 1 .. n
           Preceding(i) == {k \in D : Before(fdes, k, i)}
           place == [i \in D |-> Cardinality(Preceding(i)) + 1]
<1>1. n \in Nat /\ DOMAIN fdes = D /\ \A i \in D : fdes[i].pc \in Nat
  BY FoundTyped
<1>2. IsFiniteSet(D) /\ Cardinality(D) = n
  BY <1>1, FS_Interval
<1>3. ASSUME NEW i \in D
      PROVE  IsFiniteSet(Preceding(i)) /\ Cardinality(Preceding(i)) \in 0 .. n - 1
  <2>1. Preceding(i) \subseteq D /\ i \notin Preceding(i)
    BY <1>1 DEF Before
  <2> HIDE DEF D, Preceding
  <2>2. IsFiniteSet(Preceding(i)) /\ Cardinality(Preceding(i)) <= n /\ Cardinality(Preceding(i)) # n
    BY <1>2, <2>1, FS_Subset
  <2>3. Cardinality(Preceding(i)) \in Nat
    BY <2>2, FS_CardinalityType
  <2> QED
    BY <1>1, <2>2, <2>3
<1>4. ASSUME NEW i \in D, NEW j \in D, Before(fdes, i, j) PROVE place[i] < place[j]
  <2>1. Preceding(i) \subseteq Preceding(j) /\ i \in Preceding(j) /\ i \notin Preceding(i)
    BY <1>1, <1>4 DEF Before
  <2> HIDE DEF Preceding
  <2>2. /\ Cardinality(Preceding(i)) <= Cardinality(Preceding(j))
        /\ Cardinality(Preceding(i)) # Cardinality(Preceding(j))
    BY <1>3, <2>1, FS_Subset
  <2> QED
    BY <1>3, <2>2
<1>5. \A i, j \in D : i # j => Before(fdes, i, j) \/ Before(fdes, j, i)
  BY <1>1 DEF Before
<1>6. place \in [D -> D]
  <2> HIDE DEF Preceding
  <2> QED
    BY <1>1, <1>3
<1> HIDE DEF place, Preceding
<1>7. place \in Injection(D, D)
  <2>1. ASSUME NEW i \in D, NEW j \in D, i # j PROVE place[i] # place[j]
    <3>1. place[i] \in Int /\ place[j] \in Int
      BY <1>1, <1>6
    <3> QED
      BY <1>4, <1>5, <2>1, <3>1
  <2> QED
    BY <1>6, <2>1 DEF Injection, IsInjective
<1>8. place \in Surjection(D, D)
  <2> HIDE DEF D
  <2> QED
    BY <1>2, <1>7, FS_Injection
<1> DEFINE p == [k \in D |-> CHOOSE i \in D : place[i] = k]
<1>9. \A k \in D : p[k] \in D /\ place[p[k]] = k
  <2> HIDE DEF D
  <2> QED
    BY <1>8 DEF Surjection
<1>10. p \in [D -> D]
  <2> HIDE DEF D
  <2> QED
    BY <1>9
<1> HIDE DEF p
<1>11. ASSUME NEW i \in D, NEW j \in D, i < j PROVE Before(fdes, p[i], p[j])
  <2>1. p[i] # p[j] /\ ~(place[p[j]] < place[p[i]])
    BY <1>1, <1>9, <1>11
  <2> QED
    BY <1>4, <1>5, <1>9, <2>1
<1> QED
  BY <1>1, <1>10, <1>11 DEF Sorting

(***************************************************************************)
(* sort_by_key returns the same elements, ordered by their start address,  *)
(* and those with equal start addresses in the order they were found in.   *)
(***************************************************************************)
THEOREM SortIsStable ==
    ASSUME NEW fdes \in Seq(Found)
    PROVE  \E p \in Bijection(DOMAIN fdes, DOMAIN fdes) :
              /\ Index!sort_by_key(fdes) = [k \in DOMAIN fdes |-> fdes[p[k]]]
              /\ \A i, j \in DOMAIN fdes : i < j =>
                    \/ fdes[p[i]].pc < fdes[p[j]].pc
                    \/ fdes[p[i]].pc = fdes[p[j]].pc /\ p[i] < p[j]
<1> DEFINE D == DOMAIN fdes
           p == CHOOSE q \in Sorting(fdes) : TRUE
<1>1. p \in Sorting(fdes)
  BY SortingExists
<1>2. Index!sort_by_key(fdes) = [k \in D |-> fdes[p[k]]]
  BY DEF Index!sort_by_key, Sorting, Before
<1> HIDE DEF p
<1>3. p \in [D -> D] /\ \A i, j \in D : i < j => Before(fdes, p[i], p[j])
  BY <1>1 DEF Sorting
<1>4. D = 1 .. Len(fdes) /\ Len(fdes) \in Nat /\ \A i \in D : fdes[i].pc \in Nat
  BY FoundTyped
<1>5. p \in Injection(D, D)
  <2>1. ASSUME NEW i \in D, NEW j \in D, p[i] = p[j] PROVE i = j
    <3>1. ~Before(fdes, p[i], p[j]) /\ ~Before(fdes, p[j], p[i])
      BY <1>3, <1>4, <2>1 DEF Before
    <3> QED
      BY <1>3, <1>4, <3>1
  <2> QED
    BY <1>3, <2>1 DEF Injection, IsInjective
<1>6. p \in Surjection(D, D)
  <2>1. \A n \in Nat : IsFiniteSet(1 .. n)
    BY FS_Interval
  <2>2. IsFiniteSet(D)
    BY <1>4, <2>1
  <2> HIDE DEF D
  <2> QED
    BY <1>5, <2>2, FS_Injection
<1> QED
  BY <1>2, <1>3, <1>5, <1>6 DEF Bijection, Before

-----------------------------------------------------------------------------
(***************************************************************************)
(* The inductive invariant behind the index.  The list has exactly the     *)
(* FDEs among the first n entries, each with its own start address, and    *)
(* none of these entries is damaged; sorting keeps that.                   *)
(***************************************************************************)
StartOf(i) == Index!InitialAddress(entries[i], entries[i].cie) - base_svma

IsSound(i) == Index!HasCie(entries[i]) /\ Index!Fits(StartOf(i)) /\ Index!Fits(i)

Lists(list, n) ==
    /\ list \in Seq(Found)
    /\ \A i \in 1 .. n : entries[i].kind # "Malformed"
    /\ \A i \in 1 .. n : entries[i].kind = "Fde" =>
          IsSound(i) /\ \E k \in 1 .. Len(list) : list[k].offset = i
    /\ \A k \in 1 .. Len(list) :
          /\ list[k].offset \in 1 .. n
          /\ entries[list[k].offset].kind = "Fde"
          /\ list[k].pc = StartOf(list[k].offset)

SortedByPc(list) == \A i, j \in 1 .. Len(list) : i <= j => list[i].pc <= list[j].pc

BuildInv ==
    /\ entries \in Seq(Index!Entry)
    /\ read \in 0 .. Len(entries)
    /\ result \in {"Building", "Ok", "Err"}
    /\ result = "Building" => Lists(fde_pc_and_offset, read)
    /\ result = "Ok" => Lists(index, Len(entries)) /\ SortedByPc(index)
    /\ result = "Err" => Index!IsDamaged

IndexInv ==
    /\ BuildInv
    /\ kind \in {"DwarfCfiIndexAndEhFrame", "DwarfCfiIndexAndDebugFrame"} =>
          at = "Done" /\ result = "Ok"

LEMMA EntryTyped ==
    ASSUME NEW e \in Index!Entry
    PROVE  /\ e.kind \in {"Cie", "Fde", "Malformed"}
           /\ e.kind = "Cie" => e.base \in Int
           /\ e.kind = "Fde" => e.cie \in Nat /\ e.start \in Int /\ e.len \in Nat
  BY DEF Index!Entry

LEMMA StartTyped ==
    ASSUME entries \in Seq(Index!Entry), NEW i \in 1 .. Len(entries),
           entries[i].kind = "Fde", Index!HasCie(entries[i])
    PROVE  StartOf(i) \in Int
<1>1. entries[i] \in Index!Entry /\ entries[entries[i].cie] \in Index!Entry
  BY DEF Index!HasCie
<1>2. entries[i].start \in Int /\ entries[entries[i].cie].base \in Int
  BY <1>1, EntryTyped DEF Index!HasCie
<1> QED
  BY <1>2, InputsAssumption DEF StartOf, Index!InitialAddress

LEMMA ReadCie ==
    ASSUME BuildInv, Index!read_cie
    PROVE  BuildInv'
<1>1. /\ entries' = entries /\ read' = read + 1 /\ read \in Nat /\ read + 1 \in 1 .. Len(entries)
      /\ fde_pc_and_offset' = fde_pc_and_offset /\ result' = "Building" /\ result = "Building"
      /\ entries[read + 1].kind = "Cie"
  BY DEF BuildInv, Index!read_cie, Index!Reading, Index!entry
<1>2. Lists(fde_pc_and_offset, read)
  BY <1>1 DEF BuildInv
<1>3. \A i \in 1 .. read + 1 : i \in 1 .. read \/ i = read + 1
  BY <1>1
<1>4. Lists(fde_pc_and_offset, read + 1)
  BY <1>1, <1>2, <1>3 DEF Lists
<1>5. Lists(fde_pc_and_offset, read)'
  BY <1>1, <1>4 DEF Lists, IsSound, StartOf, Index!InitialAddress, Index!HasCie, Index!Fits
<1> QED
  BY <1>1, <1>5 DEF BuildInv

LEMMA ReadMalformed ==
    ASSUME BuildInv, Index!read_malformed
    PROVE  BuildInv'
<1>1. /\ entries' = entries /\ read' = read /\ result' = "Err"
      /\ read \in Nat /\ read + 1 \in DOMAIN entries
      /\ \/ entries[read + 1].kind = "Malformed"
         \/ entries[read + 1].kind = "Fde" /\ ~Index!HasCie(entries[read + 1])
  BY DEF BuildInv, Index!read_malformed, Index!Reading, Index!entry
<1>2. Index!IsDamaged
  BY <1>1 DEF Index!IsDamaged, Index!Fdes
<1>3. Index!IsDamaged'
  BY <1>1, <1>2 DEF Index!IsDamaged, Index!Fdes, Index!HasCie, Index!Fits, Index!InitialAddress
<1> QED
  BY <1>1, <1>3 DEF BuildInv

(***************************************************************************)
(* Whichever CIE was parsed last, an FDE is read with its own.             *)
(***************************************************************************)
LEMMA ReadFde ==
    ASSUME BuildInv, Index!read_fde
    PROVE  BuildInv'
<1> DEFINE i == read + 1
           fde == [pc |-> StartOf(i), offset |-> i]
           fits == Index!Fits(StartOf(i)) /\ Index!Fits(i)
<1>1. /\ entries' = entries /\ read' = i /\ read \in Nat /\ i \in 1 .. Len(entries)
      /\ result = "Building" /\ entries[i].kind = "Fde" /\ Index!HasCie(entries[i])
  BY DEF BuildInv, Index!read_fde, Index!Reading, Index!entry
<1>2. Index!InitialAddress(Index!entry, Index!CieFor(Index!entry)) - base_svma = StartOf(i)
  BY DEF Index!entry, Index!CieFor, StartOf
<1>3. \/ fits /\ fde_pc_and_offset' = Append(fde_pc_and_offset, fde) /\ result' = "Building"
      \/ ~fits /\ result' = "Err"
  BY <1>1, <1>2 DEF Index!read_fde
<1>4. CASE ~fits /\ result' = "Err"
  <2>1. i \in DOMAIN entries /\ i \in Index!Fdes
    BY <1>1 DEF Index!Fdes, BuildInv
  <2>2. Index!IsDamaged
    BY <1>1, <1>4, <2>1 DEF Index!IsDamaged, StartOf
  <2>3. Index!IsDamaged'
    BY <1>1, <2>2 DEF Index!IsDamaged, Index!Fdes, Index!HasCie, Index!Fits, Index!InitialAddress
  <2> QED
    BY <1>1, <1>4, <2>3 DEF BuildInv
<1>5. CASE fits /\ fde_pc_and_offset' = Append(fde_pc_and_offset, fde) /\ result' = "Building"
  <2> DEFINE old == fde_pc_and_offset
             new == Append(old, fde)
  <2>1. Lists(old, read)
    BY <1>1 DEF BuildInv
  <2>2. fde \in Found
    <3>1. StartOf(i) \in Int
      BY <1>1, StartTyped DEF BuildInv
    <3> QED
      BY <1>1, <1>5, <3>1 DEF Found, Index!Fits
  <2>3. /\ new \in Seq(Found) /\ Len(old) \in Nat /\ Len(new) = Len(old) + 1
        /\ \A k \in 1 .. Len(old) : new[k] = old[k]
        /\ new[Len(old) + 1] = fde
    BY <2>1, <2>2 DEF Lists
  <2> HIDE DEF new
  <2>4. IsSound(i)
    BY <1>1, <1>5 DEF IsSound
  <2>5. ASSUME NEW j \in 1 .. i
        PROVE  /\ entries[j].kind # "Malformed"
               /\ entries[j].kind = "Fde" =>
                     IsSound(j) /\ \E k \in 1 .. Len(new) : new[k].offset = j
    <3>1. CASE j = i
      <4>1. Len(new) \in 1 .. Len(new) /\ new[Len(new)].offset = i
        BY <2>3
      <4> QED
        BY <1>1, <2>4, <3>1, <4>1
    <3>2. CASE j \in 1 .. read
      BY <2>1, <2>3, <3>2 DEF Lists
    <3> QED
      BY <1>1, <3>1, <3>2
  <2>6. ASSUME NEW k \in 1 .. Len(new)
        PROVE  /\ new[k].offset \in 1 .. i
               /\ entries[new[k].offset].kind = "Fde"
               /\ new[k].pc = StartOf(new[k].offset)
    <3>1. CASE k = Len(old) + 1
      BY <1>1, <2>3, <3>1
    <3>2. CASE k \in 1 .. Len(old)
      BY <1>1, <2>1, <2>3, <3>2 DEF Lists
    <3> QED
      BY <2>3, <3>1, <3>2
  <2>7. Lists(new, i)
    BY <2>3, <2>5, <2>6 DEF Lists
  <2>8. new = fde_pc_and_offset'
    BY <1>5 DEF new
  <2>9. Lists(fde_pc_and_offset, read)'
    BY <1>1, <2>7, <2>8
       DEF Lists, IsSound, StartOf, Index!InitialAddress, Index!HasCie, Index!Fits
  <2> QED
    BY <1>1, <1>5, <2>9 DEF BuildInv
<1> QED
  BY <1>3, <1>4, <1>5

LEMMA Finish ==
    ASSUME BuildInv, Index!finish
    PROVE  BuildInv'
<1> DEFINE fdes == fde_pc_and_offset
           sorted == Index!sort_by_key(fdes)
           D == DOMAIN fdes
<1>1. /\ entries' = entries /\ read' = read /\ index' = sorted /\ result' = "Ok"
      /\ Lists(fdes, Len(entries))
  BY DEF BuildInv, Index!finish
<1>2. /\ fdes \in Seq(Found) /\ Len(fdes) \in Nat /\ D = 1 .. Len(fdes)
      /\ \A k \in D : fdes[k] \in Found /\ fdes[k].pc \in Nat
  BY <1>1, FoundTyped DEF Lists
<1>3. PICK p \in Bijection(D, D) :
         /\ sorted = [k \in D |-> fdes[p[k]]]
         /\ \A i, j \in D : i < j =>
               \/ fdes[p[i]].pc < fdes[p[j]].pc
               \/ fdes[p[i]].pc = fdes[p[j]].pc /\ p[i] < p[j]
  BY <1>2, SortIsStable
<1> HIDE DEF sorted
<1>4. /\ \A k \in D : p[k] \in D
      /\ \A i \in D : \E k \in D : p[k] = i
  BY <1>3 DEF Bijection, Surjection
<1>5. sorted \in Seq(Found) /\ Len(sorted) = Len(fdes)
  BY <1>2, <1>3, <1>4
<1>6. \A k \in D : sorted[k] = fdes[p[k]]
  BY <1>3
<1> HIDE DEF D
<1>7. SortedByPc(sorted)
  <2> SUFFICES ASSUME NEW i \in D, NEW j \in D, i <= j PROVE sorted[i].pc <= sorted[j].pc
    BY <1>2, <1>5 DEF SortedByPc
  <2>1. i = j \/ i < j
    BY <1>2
  <2>2. fdes[p[i]].pc \in Nat /\ fdes[p[j]].pc \in Nat
    BY <1>2, <1>4
  <2> QED
    BY <1>3, <1>6, <2>1, <2>2
<1>8. Lists(sorted, Len(entries))
  <2>1. ASSUME NEW i \in 1 .. Len(entries), entries[i].kind = "Fde"
        PROVE  IsSound(i) /\ \E k \in 1 .. Len(sorted) : sorted[k].offset = i
    <3>1. IsSound(i)
      BY <1>1, <2>1 DEF Lists
    <3>2. PICK k \in D : fdes[k].offset = i
      BY <1>1, <1>2, <2>1 DEF Lists
    <3>3. PICK j \in D : p[j] = k
      BY <1>4
    <3>4. j \in 1 .. Len(sorted) /\ sorted[j].offset = i
      BY <1>2, <1>5, <1>6, <3>2, <3>3
    <3> QED
      BY <3>1, <3>4
  <2>2. ASSUME NEW k \in 1 .. Len(sorted)
        PROVE  /\ sorted[k].offset \in 1 .. Len(entries)
               /\ entries[sorted[k].offset].kind = "Fde"
               /\ sorted[k].pc = StartOf(sorted[k].offset)
    <3>1. k \in D /\ p[k] \in 1 .. Len(fdes) /\ sorted[k] = fdes[p[k]]
      BY <1>2, <1>4, <1>5, <1>6
    <3> QED
      BY <1>1, <3>1 DEF Lists
  <2> QED
    BY <1>1, <1>5, <2>1, <2>2 DEF Lists
<1>9. (Lists(index, Len(entries)) /\ SortedByPc(index))'
  BY <1>1, <1>7, <1>8
     DEF Lists, SortedByPc, IsSound, StartOf, Index!InitialAddress, Index!HasCie, Index!Fits
<1> QED
  BY <1>1, <1>9 DEF BuildInv

LEMMA IndexInit == Init => IndexInv
<1> SUFFICES ASSUME Init PROVE IndexInv
  OBVIOUS
<1>1. /\ entries \in Seq(Index!Entry) /\ read = 0 /\ fde_pc_and_offset = <<>>
      /\ result = "Building" /\ kind = "None"
  BY InputsAssumption DEF Init, Index!Start
<1>2. Lists(<<>>, 0)
  BY DEF Lists
<1> QED
  BY <1>1, <1>2 DEF IndexInv, BuildInv

LEMMA BuildStep ==
    ASSUME BuildInv, Index!Next \/ UNCHANGED indexVars
    PROVE  BuildInv'
<1>1. CASE UNCHANGED indexVars
  <2>1. /\ entries' = entries /\ read' = read /\ fde_pc_and_offset' = fde_pc_and_offset
        /\ index' = index /\ result' = result
    BY <1>1 DEF indexVars
  <2>2. Index!IsDamaged => Index!IsDamaged'
    BY <2>1 DEF Index!IsDamaged, Index!Fdes, Index!HasCie, Index!Fits, Index!InitialAddress
  <2> QED
    BY <2>1, <2>2 DEF BuildInv, SortedByPc, Lists, IsSound, StartOf, Index!InitialAddress,
                      Index!HasCie, Index!Fits
<1> QED
  BY <1>1, ReadCie, ReadFde, ReadMalformed, Finish DEF Index!Next

LEMMA IndexKept == IndexInv /\ [Next]_vars => IndexInv'
<1> SUFFICES ASSUME IndexInv, [Next]_vars PROVE IndexInv'
  OBVIOUS
<1> DEFINE WithIndex == kind \in {"DwarfCfiIndexAndEhFrame", "DwarfCfiIndexAndDebugFrame"}
<1>1. BuildInv'
  <2>1. Index!Next \/ UNCHANGED indexVars
    BY DEF Next, vars, new_macho, new_pe, new_eh_frame, new_debug_frame, build_index, use_index, Asked
  <2> QED
    BY <2>1, BuildStep DEF IndexInv
<1>2. (WithIndex => at = "Done" /\ result = "Ok")'
  <2>1. CASE new_macho \/ new_pe \/ new_eh_frame \/ new_debug_frame
    BY <2>1 DEF new_macho, new_pe, new_eh_frame, new_debug_frame, Continue, Chosen, IndexInv
  <2>2. CASE build_index
    BY <2>2 DEF build_index, BuildingIndex, IndexInv
  <2>3. CASE use_index
    BY <2>3 DEF use_index, Asked, Chosen, indexVars
  <2>4. CASE UNCHANGED vars
    BY <2>4 DEF vars, indexVars, IndexInv
  <2> QED
    BY <2>1, <2>2, <2>3, <2>4 DEF Next
<1> QED
  BY <1>1, <1>2 DEF IndexInv

-----------------------------------------------------------------------------
(***************************************************************************)
(* A nonempty set of numbers up to n has a largest one: the m for which    *)
(* m .. n is smallest.                                                     *)
(***************************************************************************)
LEMMA Largest ==
    ASSUME NEW n \in Nat, NEW T \in SUBSET (1 .. n), T # {}
    PROVE  \E m \in T : \A j \in T : j <= m
<1> DEFINE S == 1 .. n
           R == StrictSubsetOrdering(S)
           above == {m .. n : m \in T}
<1>1. IsFiniteSet(S)
  BY FS_Interval
<1>2. IsWellFoundedOn(R, SUBSET S)
  <2> HIDE DEF S
  <2> QED
    BY <1>1, FS_StrictSubsetOrderingWellFounded, FS_FiniteSubsetsOfFinite
<1>3. above \subseteq SUBSET S /\ above # {}
  <2>1. \A m \in T : m .. n \subseteq S
    OBVIOUS
  <2> HIDE DEF S
  <2> QED
    BY <2>1
<1>4. PICK x \in above : \A y \in above : <<y, x>> \notin R
  <2> HIDE DEF S, R, above
  <2> QED
    BY <1>2, <1>3, WFMin
<1>5. PICK m \in T : x = m .. n
  OBVIOUS
<1>6. ASSUME NEW j \in T, j > m PROVE FALSE
  <2>1. j .. n \subseteq m .. n /\ m \in m .. n /\ m \notin j .. n
    BY <1>6
  <2>2. <<j .. n, m .. n>> \in R
    BY <2>1 DEF StrictSubsetOrdering
  <2> QED
    BY <1>4, <1>5, <2>2
<1> QED
  BY <1>6

(***************************************************************************)
(* Looking up a covered address: the FDE found starts at the address or at *)
(* the last start below it, so that it and the covering one share their    *)
(* start, and are the same.                                                *)
(***************************************************************************)
LEMMA IndexTyped ==
    ASSUME BuildInv, result = "Ok", NEW k \in 1 .. Len(index)
    PROVE  /\ Len(index) \in Nat /\ DOMAIN index = 1 .. Len(index)
           /\ index[k].offset \in Index!Fdes
           /\ index[k].offset \in Nat
           /\ index[k].pc = StartOf(index[k].offset)
           /\ index[k].pc \in Index!Addresses
           /\ entries[index[k].offset].len \in Nat
<1>1. Lists(index, Len(entries)) /\ entries \in Seq(Index!Entry)
  BY DEF BuildInv
<1>2. /\ Len(index) \in Nat /\ DOMAIN index = 1 .. Len(index)
      /\ index[k].offset \in Nat /\ index[k].pc \in Nat
  BY <1>1, FoundTyped DEF Lists
<1> DEFINE i == index[k].offset
<1>3. /\ i \in 1 .. Len(entries) /\ entries[i].kind = "Fde" /\ index[k].pc = StartOf(i)
  BY <1>1 DEF Lists
<1>4. IsSound(i)
  BY <1>1, <1>3 DEF Lists
<1>5. entries[i] \in Index!Entry
  BY <1>1, <1>3
<1>6. entries[i].len \in Nat
  BY <1>3, <1>5, EntryTyped
<1>7. i \in Index!Fdes
  BY <1>1, <1>3 DEF Index!Fdes
<1>8. index[k].pc \in Index!Addresses
  BY <1>2, <1>3, <1>4, InputsAssumption DEF IsSound, Index!Fits, Index!Addresses
<1> QED
  BY <1>2, <1>3, <1>6, <1>7, <1>8

LEMMA FdeStartsItself ==
    ASSUME BuildInv, result = "Ok", Index!Disjoint, NEW k \in 1 .. Len(index)
    PROVE  Index!Covers(index[k].offset, index[k].pc)
<1>1. /\ index[k].pc = StartOf(index[k].offset) /\ index[k].pc \in Int
      /\ entries[index[k].offset].len \in Int /\ entries[index[k].offset].len > 0
  BY IndexTyped, InputsAssumption DEF Index!Addresses, Index!Disjoint
<1> QED
  BY <1>1 DEF Index!Covers, StartOf

LEMMA LookupFinds ==
    ASSUME BuildInv, result = "Ok", Index!Disjoint,
           NEW i \in Index!Fdes, NEW a \in Index!Addresses, Index!Covers(i, a),
           NEW p \in Index!Places(a)
    PROVE  p \in 1 .. Len(index) /\ index[p].offset = i
<1>1. PICK k \in 1 .. Len(index) : index[k].offset = i
  BY DEF BuildInv, Lists, Index!Fdes
<1>2. /\ Len(index) \in Nat /\ DOMAIN index = 1 .. Len(index) /\ a \in Int
      /\ \A j \in 1 .. Len(index) : index[j].pc \in Int /\ index[j].pc \in Index!Addresses
  BY <1>1, IndexTyped, InputsAssumption DEF Index!Addresses
<1>3. index[k].pc = StartOf(i) /\ index[k].pc <= a
  BY <1>1, IndexTyped DEF Index!Covers, StartOf
<1>4. CASE p \in 1 .. Len(index) /\ index[p].pc = a
  BY <1>4, FdeStartsItself, IndexTyped DEF Index!Disjoint
<1>5. CASE /\ p \in 0 .. Len(index)
           /\ \A j \in 1 .. p : index[j].pc < a
           /\ \A j \in p + 1 .. Len(index) : index[j].pc > a
  <2>1. k <= p /\ p \in 1 .. Len(index)
    BY <1>2, <1>3, <1>5
  <2>2. index[k].pc <= index[p].pc /\ index[p].pc < a
    BY <1>2, <1>5, <2>1 DEF BuildInv, SortedByPc
  <2>3. Index!Covers(i, index[p].pc)
    <3> DEFINE end == StartOf(i) + entries[i].len
    <3>1. entries[i].len \in Nat
      BY <1>1, IndexTyped
    <3>2. a < end /\ end \in Int
      BY <1>2, <1>3, <3>1 DEF Index!Covers, StartOf
    <3>3. StartOf(i) <= index[p].pc /\ index[p].pc < end
      BY <1>2, <1>3, <2>1, <2>2, <3>2
    <3> QED
      BY <3>3 DEF Index!Covers, StartOf
  <2>4. Index!Covers(index[p].offset, index[p].pc)
    BY <2>1, FdeStartsItself
  <2> QED
    BY <1>2, <2>1, <2>3, <2>4, IndexTyped DEF Index!Disjoint
<1> QED
  BY <1>2, <1>4, <1>5 DEF Index!Places

LEMMA LookupReturns ==
    ASSUME BuildInv, result = "Ok", NEW k \in 1 .. Len(index), NEW a \in Index!Addresses,
           index[k].pc <= a
    PROVE  Index!Places(a) # {}
<1>1. /\ Len(index) \in Nat /\ DOMAIN index = 1 .. Len(index) /\ a \in Int
      /\ \A j \in 1 .. Len(index) : index[j].pc \in Int
  BY IndexTyped, InputsAssumption DEF Index!Addresses
<1>2. CASE \E j \in 1 .. Len(index) : index[j].pc = a
  BY <1>1, <1>2 DEF Index!Places
<1>3. CASE ~\E j \in 1 .. Len(index) : index[j].pc = a
  <2> DEFINE below == {j \in 1 .. Len(index) : index[j].pc < a}
  <2>1. below \in SUBSET (1 .. Len(index)) /\ below # {}
    BY <1>1, <1>3
  <2>2. PICK m \in below : \A j \in below : j <= m
    BY <1>1, <2>1, Largest
  <2>3. \A j \in 1 .. m : index[j].pc < a
    BY <1>1, <2>2 DEF BuildInv, SortedByPc
  <2>4. \A j \in m + 1 .. Len(index) : index[j].pc > a
    BY <1>1, <1>3, <2>2
  <2> QED
    BY <1>1, <1>3, <2>2, <2>3, <2>4 DEF Index!Places
<1> QED
  BY <1>2, <1>3

LEMMA RowsFound ==
    ASSUME BuildInv, result = "Ok"
    PROVE  Index!RowsAreFound
<1> SUFFICES ASSUME Index!Disjoint, NEW i \in Index!Fdes, NEW a \in Index!Addresses,
                    Index!Covers(i, a)
             PROVE  Index!unwind_frame_impl(a) = {[by |-> "Row", fde |-> i]}
  BY DEF Index!RowsAreFound
<1>1. PICK k \in 1 .. Len(index) : index[k].offset = i
  BY DEF BuildInv, Lists, Index!Fdes
<1>2. index[k].pc <= a
  BY <1>1, IndexTyped DEF Index!Covers, StartOf
<1>3. Index!Places(a) # {}
  BY <1>2, LookupReturns
<1>4. \A p \in Index!Places(a) : p # 0 /\ index[p].offset = i
  BY LookupFinds
<1>5. Index!fde_offset_for_relative_address(a) = {i}
  BY <1>3, <1>4 DEF Index!fde_offset_for_relative_address
<1>6. i # None
  BY <1>1, IndexTyped, InputsAssumption
<1> QED
  BY <1>5, <1>6 DEF Index!unwind_frame_impl

(***************************************************************************)
(* In a module with an index, every address that an FDE covers is unwound  *)
(* by that FDE's row, for every section: any number of CIEs and FDEs, in   *)
(* any order, with any start addresses.                                    *)
(***************************************************************************)
THEOREM CoveredAddressesAreFound == Spec => []CoveredAddressesHaveTheirRow
<1>1. IndexInv => CoveredAddressesHaveTheirRow
  BY RowsFound DEF IndexInv, CoveredAddressesHaveTheirRow
<1> QED
  BY <1>1, IndexInit, IndexKept, PTL DEF Spec

LEMMA OkIsWhole ==
    ASSUME BuildInv, result = "Ok"
    PROVE  ~Index!IsDamaged /\ Index!HasAllFdes
<1>1. Lists(index, Len(entries)) /\ DOMAIN entries = 1 .. Len(entries)
  BY DEF BuildInv
<1>2. ~Index!IsDamaged
  BY <1>1 DEF Lists, IsSound, StartOf, Index!IsDamaged, Index!Fdes
<1>3. DOMAIN index = 1 .. Len(index)
  BY <1>1, FoundTyped DEF Lists
<1>4. Index!HasAllFdes
  BY <1>1, <1>3 DEF Lists, Index!HasAllFdes, Index!Fdes
<1> QED
  BY <1>2, <1>4

(***************************************************************************)
(* Building an index of any section either fails, and then an entry is     *)
(* malformed or does not fit, or gives an index with all of its FDEs.      *)
(***************************************************************************)
THEOREM IndexesAreAllOrNothing == Spec => IndexIsAllOrNothing
<1> DEFINE A == BuildingIndex /\ at' = "Done" =>
                  IF Index!IsDamaged THEN kind' = "None" ELSE kind' # "None" /\ Index!HasAllFdes
<1>1. IndexInv /\ [Next]_vars => [A]_vars
  <2> SUFFICES ASSUME IndexInv, Next, BuildingIndex, at' = "Done"
               PROVE  IF Index!IsDamaged THEN kind' = "None" ELSE kind' # "None" /\ Index!HasAllFdes
    OBVIOUS
  <2>1. use_index
    BY DEF Next, BuildingIndex, new_macho, new_pe, new_eh_frame, new_debug_frame, build_index
  <2>2. CASE result = "Ok" /\ Chosen(KindWithIndex)
    BY <2>2, OkIsWhole DEF IndexInv, Chosen, KindWithIndex
  <2>3. CASE result = "Err" /\ Chosen("None")
    BY <2>3 DEF IndexInv, BuildInv, Chosen
  <2> QED
    BY <2>1, <2>2, <2>3 DEF use_index
<1> QED
  BY <1>1, IndexInit, IndexKept, PTL DEF Spec, IndexIsAllOrNothing
=============================================================================
