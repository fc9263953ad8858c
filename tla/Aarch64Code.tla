------------------------------ MODULE Aarch64Code ------------------------------
(***************************************************************************)
(* The aarch64 instructions of prologues, bodies and epilogues, decoded as *)
(* in Aarch64InstructionAnalysis, and what executing them does to pc, lr,  *)
(* sp, fp and the stack, as the processor's manual says.  Other registers  *)
(* hold any value.  Addresses of code count instructions.                  *)
(***************************************************************************)
EXTENDS Aarch64Rules, Sequences

CONSTANT Garbage   \* what registers other than lr, sp and fp hold

ASSUME GarbageAssumption == Garbage \in Addresses \ {0}

Instruction(op, regs_, base, imm, writeback) ==
    [op |-> op, regs |-> regs_, base |-> base, imm |-> imm, writeback |-> writeback]

stp(r1, r2, imm, writeback) == Instruction("stp", <<r1, r2>>, "SP", imm, writeback)
ldp(r1, r2, imm, writeback) == Instruction("ldp", <<r1, r2>>, "SP", imm, writeback)
add(reg, base, imm) == Instruction("add", <<reg>>, base, imm, "none")
sub(reg, base, imm) == Instruction("sub", <<reg>>, base, imm, "none")
Jump(op, target) == Instruction(op, <<>>, "none", target, "none")
Simple(op) == Jump(op, 0)

RegisterValue(reg, r) ==
    CASE reg = "SP" -> r.sp [] reg = "X29" -> r.fp [] reg = "X30" -> r.lr [] OTHER -> Garbage

SetRegister(r, reg, val) ==
    CASE reg = "SP" -> [r EXCEPT !.sp = val] [] reg = "X29" -> [r EXCEPT !.fp = val]
      [] reg = "X30" -> [r EXCEPT !.lr = val] [] OTHER -> r

Sign(ptr) == ptr + mask

(***************************************************************************)
(* Executing an instruction at pc: the next pc, the registers and the      *)
(* stack after it.                                                         *)
(***************************************************************************)
Execute(i, pc, r, memory) ==
    LET at == RegisterValue(i.base, r) + (IF i.writeback = "post" THEN 0 ELSE i.imm)
        moved == IF i.writeback = "none" THEN r
                 ELSE SetRegister(r, i.base, RegisterValue(i.base, r) + i.imm)
        Done(new_pc, new_r, new_memory) == [pc |-> new_pc, regs |-> new_r, memory |-> new_memory]
    IN  CASE i.op = "pacibsp" -> Done(pc + 1, [r EXCEPT !.lr = Sign(@)], memory)
          [] i.op = "autibsp" -> Done(pc + 1, [r EXCEPT !.lr = strip_ptr_auth(@)], memory)
          [] i.op = "stp" ->
               Done(pc + 1, moved, [memory EXCEPT ![at] = RegisterValue(i.regs[1], r),
                                                  ![at + Word] = RegisterValue(i.regs[2], r)])
          [] i.op = "ldp" ->
               Done(pc + 1, SetRegister(SetRegister(moved, i.regs[1], memory[at]),
                                        i.regs[2], memory[at + Word]), memory)
          [] i.op = "add" ->
               Done(pc + 1, SetRegister(r, i.regs[1], RegisterValue(i.base, r) + i.imm), memory)
          [] i.op = "sub" ->
               Done(pc + 1, SetRegister(r, i.regs[1], RegisterValue(i.base, r) - i.imm), memory)
          [] i.op = "bl" -> Done(i.imm, [r EXCEPT !.lr = pc + 1], memory)
          [] i.op \in {"b", "br", "braa"} -> Done(i.imm, r, memory)
          [] i.op = "tbz" -> Done(pc + 2, r, memory)   \* the address was authentic
          [] i.op \in {"ret", "retab"} -> Done(strip_ptr_auth(r.lr), r, memory)
          [] OTHER -> Done(pc + 1, r, memory)
=============================================================================
