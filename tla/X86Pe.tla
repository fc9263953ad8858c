--------------------------------- MODULE X86Pe ---------------------------------
(***************************************************************************)
(* Walking an x86_64 stack by PE unwind information                        *)
(* (src/src/x86_64/pe.rs, for_sequence_of_offset_or_pop in                 *)
(* src/src/x86_64/unwind_rule.rs).  A function gives a list of operations: *)
(* the rest of its epilog, or the unwind operations of its chain of unwind *)
(* infos.  They become an unwind rule if possible, and are carried out one *)
(* by one otherwise.                                                       *)
(*                                                                         *)
(* Operations: "AddSp" of a number of bytes (AddSP, UnStackAlloc), "Pop"   *)
(* of a register (Pop, PopNonVolatile), "SpFromFp" (AddSPFromFP,           *)
(* RestoreSPFromFP) and "MachineFrame" (an interrupt's frame, which has    *)
(* the return address and the stack pointer).  Fields that an operation    *)
(* does not have are 0.  The frame register is bp.                         *)
(***************************************************************************)
EXTENDS X86Iterator, RegisterOrdering

CONSTANT OperationLists   \* lists of operations that functions may have

ASSUME PeAssumption == MaxPops = RegisterCount /\ 0 \in UOffsets

AddSp(bytes) == [kind |-> "AddSp", bytes |-> bytes, reg |-> 0]
Pop(reg) == [kind |-> "Pop", bytes |-> 0, reg |-> reg]
SpFromFp(bytes) == [kind |-> "SpFromFp", bytes |-> bytes, reg |-> 0]
MachineFrame == [kind |-> "MachineFrame", bytes |-> 0, reg |-> 0]

ASSUME OperationsAssumption ==
    \A ops \in OperationLists :
        /\ ops \in Seq(ToSet(ops))
        /\ \A i \in DOMAIN ops : /\ ops[i].kind \in {"AddSp", "Pop", "SpFromFp", "MachineFrame"}
                                /\ ops[i].bytes \in Addresses

(***************************************************************************)
(* OffsetOrPop::from: an offset that fits, a pop, or nothing.              *)
(***************************************************************************)
IsOffset(op) == op.kind = "AddSp" /\ op.bytes \div Word \in UOffsets
IsPop(op) == op.kind = "Pop"

\* Mutant: an offset may come anywhere.
OffsetAnywhere(ops) ==
    LET pops == SelectSeq(ops, IsPop)
        offsets == SelectSeq(ops, IsOffset)
        e == encode([i \in DOMAIN pops |-> pops[i].reg])
        order == decode(e.count, e.r)
    IN  IF Len(pops) + Len(offsets) < Len(ops) \/ Len(offsets) # 1 \/ e.fails = "yes" THEN NoRule
        ELSE [kind |-> "OffsetSpAndPopRegisters", sp |-> offsets[1].bytes \div Word, bp |-> 0,
              count |-> e.count,
              bp_index |-> IF Contains(order, "RBP") THEN SelectInSeq(order, LAMBDA r : r = "RBP")
                           ELSE 0]

for_sequence_of_offset_or_pop(ops) ==
    LET starts == ops # <<>> /\ IsOffset(ops[1])
        sp_offset_by_8 == IF starts THEN ops[1].bytes \div Word ELSE 0
        pops == IF starts THEN Tail(ops) ELSE ops
        e == encode([i \in DOMAIN pops |-> pops[i].reg])
        order == decode(e.count, e.r)
    IN  IF \E i \in DOMAIN pops : ~IsPop(pops[i]) THEN NoRule
        ELSE IF pops = <<>> /\ sp_offset_by_8 = 0 THEN JustReturn
        ELSE IF e.fails = "yes" THEN NoRule
        ELSE [kind |-> "OffsetSpAndPopRegisters", sp |-> sp_offset_by_8, bp |-> 0,
              count |-> e.count,
              bp_index |-> IF Contains(order, "RBP") THEN SelectInSeq(order, LAMBDA r : r = "RBP")
                           ELSE 0]

(***************************************************************************)
(* Carrying out an operation: c has the registers, and how far it came:    *)
(* "Run", "Done" (with the return address), "Missing" (stack data) or      *)
(* "Panic".  The sums are unchecked.                                       *)
(***************************************************************************)
MoveSp(c, sp, build) ==
    IF sp < AddrSpace THEN [c EXCEPT !.regs.sp = sp]
    ELSE IF build = "wrapping" THEN [c EXCEPT !.regs.sp = sp - AddrSpace]
    ELSE [c EXCEPT !.status = "Panic"]

SetRegister(r, reg, val) == IF reg = "RBP" THEN [r EXCEPT !.bp = val] ELSE r

resolve_operation(c, op, stack, build) ==
    LET sp == c.regs.sp
        caller == (sp + 3 * Word) % AddrSpace
    IN  CASE op.kind = "AddSp" -> MoveSp(c, sp + op.bytes, build)
          [] op.kind = "SpFromFp" -> MoveSp(c, c.regs.bp + op.bytes, build)
          [] op.kind = "Pop" ->
               IF stack[sp] = Unreadable THEN [c EXCEPT !.status = "Missing"]
               ELSE MoveSp([c EXCEPT !.regs = SetRegister(c.regs, op.reg, stack[sp])],
                           sp + Word, build)
          [] op.kind = "MachineFrame" ->
               IF stack[sp] = Unreadable \/ stack[caller] = Unreadable
               THEN [c EXCEPT !.status = "Missing"]
               ELSE [c EXCEPT !.status = "Done", !.ra = stack[sp], !.regs.sp = stack[caller]]

(***************************************************************************)
(* After the last operation the return address is popped.                  *)
(***************************************************************************)
pop_return_address(c, stack, build) ==
    IF stack[c.regs.sp] = Unreadable THEN [c EXCEPT !.status = "Missing"]
    ELSE MoveSp([c EXCEPT !.status = "Done", !.ra = stack[c.regs.sp]], c.regs.sp + Word, build)

\* The one way of carrying out the operations, in a set.
Resolve(ops, r, stack, build) ==
    LET Step(cs, op) ==
          {IF c.status = "Run" THEN resolve_operation(c, op, stack, build) ELSE c : c \in cs}
        done == FoldLeft(Step, {[status |-> "Run", ra |-> 0, regs |-> r]}, ops)
    IN  {IF c.status = "Run" THEN pop_return_address(c, stack, build) ELSE c : c \in done}

resolve(ops, r, stack, build) == CHOOSE c \in Resolve(ops, r, stack, build) : TRUE

(***************************************************************************)
(* Without a rule: missing stack data leads to the fallback rule, which is *)
(* executed with the registers changed so far.  ip is not set.             *)
(***************************************************************************)
unwind_by_steps(ops, build) ==
    \E c \in Resolve(ops, regs, memory, build) :
        \/ c.status = "Done" /\ next_unwinding(Unwound(c.ra, c.regs))
        \/ /\ c.status = "Missing"
           /\ next_unwinding(exec(fallback_rule, is_first_frame, c.regs, memory, build))
        \/ c.status = "Panic" /\ next_unwinding(Stop("Panic", c.regs))

unwind_frame(rule, ops, build) ==
    \/ rule # NoRule /\ unwind_by(rule, build)
    \/ rule = NoRule /\ frames < MaxFrames /\ unwind_by_steps(ops, build)

(***************************************************************************)
(* What describes an address of a PE image: the function's entry has its   *)
(* range and the unwind infos of its chain, each a list of operations with *)
(* the offset at which they have been done, the last one first; an image   *)
(* has the rest of the epilog at each address inside one.  A chain with an *)
(* info that cannot be read or parsed is not "whole"; only the first info  *)
(* is needed in an epilog, which needs the code.                           *)
(***************************************************************************)
PeFound(by, ops) == [by |-> by, ops |-> ops]

DoneBefore(info, offset) ==
    LET done == {i \in DOMAIN info : info[i].offset <= offset}
    IN  IF done = {} THEN <<>> ELSE SubSeq(info, Min(done), Len(info))

ChainOperations(function, offset) ==
    LET Info(i) == IF i = 1 THEN DoneBefore(function.chain[1], offset) ELSE function.chain[i]
        all == FlattenSeq([i \in DOMAIN function.chain |-> Info(i)])
    IN  [i \in DOMAIN all |-> all[i].op]

FindOperations(image, address, first) ==
    LET candidates == {f \in image.pdata : f.begin <= address /\ address < f.end}
        function == CHOOSE f \in candidates : TRUE
    IN  IF candidates = {} THEN PeFound("NoFunction", <<>>)
        ELSE IF function.chain = <<>> \/ (first /\ image.text = <<>>) THEN PeFound("Error", <<>>)
        ELSE IF first /\ address \in DOMAIN image.epilogs
             THEN PeFound("Operations", image.epilogs[address])
        ELSE IF ~function.whole THEN PeFound("Error", <<>>)
        ELSE PeFound("Operations", ChainOperations(function, address - function.begin))

NextByPe ==
    /\ \/ next_initial
       \/ next_done
       \/ \E ops \in OperationLists, build \in Builds :
             unwind_frame(for_sequence_of_offset_or_pop(ops), ops, build)
       \/ \E build \in Builds : unwind_by(JustReturn, build)      \* no function
       \/ \E build \in Builds : unwind_by(fallback_rule, build)   \* no usable unwind info
    /\ UNCHANGED memory

SpecByPe == Init /\ [][NextByPe]_vars

-----------------------------------------------------------------------------
(***************************************************************************)
(* A rule stands for its list of operations.  When it is executed and      *)
(* unwinds the frame, carrying the operations out one by one leads to the  *)
(* same return address, stack pointer and bp; and when carrying them out   *)
(* leads to a return address, so does the rule, unless it finds the end of *)
(* the stack or that the frame repeats.  Stack allocations are multiples   *)
(* of the word size, and no sum wraps.                                     *)
(***************************************************************************)
RuleIsSequence ==
    state = "Unwinding" =>
        \A ops \in {o \in OperationLists : \A i \in DOMAIN o : o[i].bytes % Word = 0} :
            LET rule == for_sequence_of_offset_or_pop(ops)
                fast == exec(rule, is_first_frame, regs, memory, "checked")
                slow == resolve(ops, regs, memory, "checked")
            IN  rule # NoRule =>
                  /\ fast.result = "Some" =>
                       /\ slow.status = "Done" /\ slow.ra = fast.address
                       /\ slow.regs = [fast.regs EXCEPT !.ip = regs.ip]
                  /\ slow.status = "Done" => fast.result \in {"Some", "None", "DidNotAdvance"}
=============================================================================
