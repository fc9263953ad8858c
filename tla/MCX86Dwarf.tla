------------------------------ MODULE MCX86Dwarf ------------------------------
(***************************************************************************)
(* Two small instances.  Of X86Dwarf: words of two bytes, a stack of three *)
(* words in the lower half of the address space, and offsets that are and  *)
(* are not multiples of the word size.  Of X86Iterator, which it extends:  *)
(* all contents of a stack of a few words of one byte.                     *)
(***************************************************************************)
EXTENDS X86Dwarf

Slots == {0, 2, 4}
MCStacks == {[a \in Addresses |-> IF a \in Slots THEN s[a] ELSE Unreadable] :
               s \in {t \in [Slots -> {0, 4, Unreadable}] :
                        t[0] # 0 /\ t[2] # Unreadable /\ t[4] # 0}}
MCStackValues == Addresses
MCInitialRegs == [ip : {4}, sp : {0, 2}, bp : {2}]
MCIOffsets == -1 .. 1
MCRegisters == {"RA", "RSP", "RBP", "RAX"}

MCCfaRules ==
    [kind : {"RegisterAndOffset"}, register : {"RSP"}, offset : {-2, 0, 2, 3, 4}]
      \cup [kind : {"RegisterAndOffset"}, register : {"RBP"}, offset : {2, 4}]
      \cup [kind : {"RegisterAndOffset"}, register : {"RAX"}, offset : {2}]
      \cup [kind : {"Expression"}, value : {4, Unknown}]

MCRegisterRules ==
    [kind : {"Undefined", "SameValue"}]
      \cup [kind : {"Offset"}, offset : {-4, -2, 1}]
      \cup [kind : {"ValOffset"}, offset : {-2}]
      \cup [kind : {"Register"}, register : {"RSP"}]

-----------------------------------------------------------------------------
MCRuleStacks == [Addresses -> {0, 1, 3, Unreadable}]
MCRuleInitialRegs == [ip : {1}, sp : {0, 1}, bp : {0, 2}]
MCRuleIOffsets == {-1, 1}
=============================================================================
