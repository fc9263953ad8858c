-------------------------------- MODULE X86Code --------------------------------
(***************************************************************************)
(* The x86_64 instructions of prologues, bodies and epilogues: their bytes *)
(* as the processor's manual gives them, and what executing them does to   *)
(* ip, sp, bp and the stack.  Other registers hold any value.  Code has    *)
(* offsets in bytes; the processor's word of eight bytes is a Word.        *)
(***************************************************************************)
EXTENDS X86Rules, Sequences

CONSTANT Garbage   \* what registers other than ip, sp and bp hold

ASSUME GarbageAssumption == Garbage \in Addresses \ {0}

Instruction(op, arg, bytes) == [op |-> op, arg |-> arg, bytes |-> bytes]

RegisterByte == [RAX |-> 0, RBX |-> 3, RBP |-> 5, R11 |-> 3, R14 |-> 6, R15 |-> 7]

Prefix(reg) == IF reg \in {"R11", "R14", "R15"} THEN <<\H41>> ELSE <<>>

push(reg) == Instruction("push", reg, Prefix(reg) \o <<\H50 + RegisterByte[reg]>>)
pop(reg) == Instruction("pop", reg, Prefix(reg) \o <<\H58 + RegisterByte[reg]>>)
push_imm == Instruction("push", "RAX", <<\H68, \Hf1, \H61, 0, 0>>)
mov_rbp_rsp == Instruction("mov_rbp_rsp", 0, <<\H48, \H89, \He5>>)
mov_rbp_rdi == Instruction("mov_rbp_rdi", 0, <<\H48, \H89, \Hfd>>)
sub_rsp(bytes) == Instruction("add_rsp", -bytes, <<\H48, \H83, \Hec, bytes>>)
sub_rsp_wide(bytes) == Instruction("add_rsp", -bytes, <<\H48, \H81, \Hec, bytes, 0, 0, 0>>)
add_rsp(bytes) == Instruction("add_rsp", bytes, <<\H48, \H83, \Hc4, bytes>>)
lea_r11 == Instruction("nop", 0, <<\H4c, \H8d, \H1d, \H3d, 3, 4, 0>>)
nop == Instruction("nop", 0, <<\H90>>)
mov_from_stack(bytes) == Instruction("nop", 0, <<\H48, \H8b, \H44, \H24, bytes>>)
call(target) == Instruction("call", target, <<\He8, 16, 0, 0, 0>>)
jmp(target) == Instruction("jmp", target, <<\He9, 16, 0, 0, 0>>)
jmp_indirect(target) == Instruction("jmp", target, <<\Hff, \H25, 16, 0, 0, 0>>)
ret == Instruction("ret", 0, <<\Hc3>>)

RegisterValue(reg, r) == IF reg = "RBP" THEN r.bp ELSE Garbage

(***************************************************************************)
(* Executing an instruction: the registers and the stack after it.         *)
(***************************************************************************)
Execute(i, r, memory) ==
    LET following == r.ip + Len(i.bytes)
        Pushed(val) == [memory EXCEPT ![r.sp - Word] = val]
    IN  CASE i.op = "push" ->
               [regs |-> [r EXCEPT !.ip = following, !.sp = @ - Word],
                memory |-> Pushed(RegisterValue(i.arg, r))]
          [] i.op = "call" ->
               [regs |-> [r EXCEPT !.ip = i.arg, !.sp = @ - Word], memory |-> Pushed(following)]
          [] i.op = "pop" ->
               [regs |-> [r EXCEPT !.ip = following, !.sp = @ + Word,
                                   !.bp = IF i.arg = "RBP" THEN memory[r.sp] ELSE @],
                memory |-> memory]
          [] i.op = "ret" ->
               [regs |-> [r EXCEPT !.ip = memory[r.sp], !.sp = @ + Word], memory |-> memory]
          [] i.op = "jmp" -> [regs |-> [r EXCEPT !.ip = i.arg], memory |-> memory]
          [] i.op = "add_rsp" ->
               [regs |-> [r EXCEPT !.ip = following, !.sp = @ + (i.arg \div 8) * Word],
                memory |-> memory]
          [] i.op = "mov_rbp_rsp" ->
               [regs |-> [r EXCEPT !.ip = following, !.bp = r.sp], memory |-> memory]
          [] i.op = "mov_rbp_rdi" ->
               [regs |-> [r EXCEPT !.ip = following, !.bp = Garbage], memory |-> memory]
          [] i.op = "nop" -> [regs |-> [r EXCEPT !.ip = following], memory |-> memory]
=============================================================================
