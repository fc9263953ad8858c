------------------------------- MODULE MCX86Pe -------------------------------
(***************************************************************************)
(* Small instance of X86Pe: words of two bytes, three callee-saved         *)
(* registers, lists of up to three operations.                             *)
(***************************************************************************)
EXTENDS X86Pe

Slots == {0, 2, 4, 6}
MCStacks == {[a \in Addresses |-> IF a \in Slots THEN s[a] ELSE Unreadable] :
               s \in [Slots -> {0, 4, Unreadable}]}
MCStackValues == {}
MCInitialRegs == [ip : {3}, sp : {0, 2}, bp : {4}]
MCIOffsets == {0}
MCRegisters == <<"RBX", "RBP", "RDI">>

Operations == {AddSp(2), AddSp(3), AddSp(8), Pop("RBX"), Pop("RBP"), Pop("RAX"), SpFromFp(2),
               MachineFrame}
MCOperationLists == UNION {[1 .. n -> Operations] : n \in 0 .. 2}
                      \cup {<<AddSp(2), Pop("RBX"), Pop("RBP")>>, <<AddSp(2), Pop("RBP"), Pop("RBX")>>,
                            <<Pop("RBP"), SpFromFp(2), Pop("RDI")>>}
=============================================================================
