--------------------------- MODULE MCModuleSections --------------------------
(***************************************************************************)
(* Small instance of ModuleSections: every set of sections with a sound    *)
(* and a damaged CFI section, and every CFI section of up to three         *)
(* entries, or of two FDEs and two CIEs with different encodings, or with  *)
(* an FDE whose offset does not fit, in a module that needs an index.      *)
(***************************************************************************)
EXTENDS ModuleSections

DataNames == {"__unwind_info", "__eh_frame", "__TEXT", "__text", ".pdata", ".rdata", ".text",
              ".eh_frame", ".eh_frame_hdr", ".debug_frame"}

RangeNames == {"__TEXT", "__text", ".rdata", ".text", ".eh_frame"}

FdesOf(n, starts) == {Index!Fde(cie, start, len) : cie \in 1 .. n, start \in starts, len \in 0 .. 2}

Sections ==
    UNION {[1 .. n -> {Index!Cie(0), Index!Malformed} \cup FdesOf(n, {0, 1, 3})] : n \in 0 .. 3}
      \cup {<<Index!Cie(0), Index!Cie(1), f, g>> : f, g \in FdesOf(2, 0 .. 3)}
      \cup {<<Index!Cie(0), f, Index!Cie(1), g>> :
               f, g \in {Index!Fde(1, 3, 1), Index!Fde(3, 1, 1), Index!Fde(3, 3, 1)}}
      \cup {[i \in 1 .. MaxU32 |-> Index!Cie(0)] \o <<Index!Fde(1, 1, 1)>>}

MCInputs ==
    [data : SUBSET DataNames, ranges : SUBSET RangeNames,
     entries : {<<Index!Cie(0), Index!Fde(1, 1, 1)>>, <<Index!Malformed>>}]
      \cup [data : {{".eh_frame"}, {".debug_frame"}}, ranges : {{}}, entries : Sections]
=============================================================================
