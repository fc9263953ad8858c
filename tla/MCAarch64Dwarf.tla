---------------------------- MODULE MCAarch64Dwarf ----------------------------
(***************************************************************************)
(* Small instance of Aarch64Dwarf: a stack of three one-byte words in the   *)
(* lower half of the address space, and offsets of sp that are and are not *)
(* multiples of two words.  The value 6 is 2 with an authentication bit.   *)
(***************************************************************************)
EXTENDS Aarch64Dwarf

MCStacks == {[a \in Addresses |-> IF a \in 0 .. 2 THEN s[a] ELSE Unreadable] :
               s \in {t \in [0 .. 2 -> {2, 6, Unreadable}] :
                        t[0] # Unreadable /\ t[1] # Unreadable /\ t[2] # 2}}
MCStackValues == Addresses
MCInitialRegs == [lr : {6}, sp : {0, 1, 6}, fp : {1}]
MCIOffsets == -1 .. 2
MCRegisters == {"SP", "X29", "X30", "X0"}

MCCfaRules ==
    [kind : {"RegisterAndOffset"}, register : {"SP"}, offset : {-2, 0, 1, 2}]
      \cup [kind : {"RegisterAndOffset"}, register : {"X29"}, offset : {2}]
      \cup [kind : {"RegisterAndOffset"}, register : {"X0"}, offset : {2}]
      \cup [kind : {"Expression"}, value : {3}]

MCRegisterRules ==
    [kind : {"Undefined", "SameValue"}]
      \cup [kind : {"Offset"}, offset : {-2, -1}]
      \cup [kind : {"ValOffset"}, offset : {-1}]
      \cup [kind : {"Expression"}, value : {1}]
=============================================================================
