---------------------------- MODULE X86PeProofs -----------------------------
(***************************************************************************)
(* Proofs about the rules that stand for PE operations, for every list of  *)
(* operations, every order of registers and every stack.                   *)
(***************************************************************************)
EXTENDS X86Pe, X86Proofs, RegisterOrderingProofs

-----------------------------------------------------------------------------
(***************************************************************************)
(* Carrying out operations one by one stays within the types, and is a run *)
(* of configurations.                                                      *)
(***************************************************************************)
Configurations ==
    [status : {"Run", "Done", "Missing", "Panic"}, ra : Addresses, regs : Registers]

IsOperation(op) ==
    op.kind \in {"AddSp", "Pop", "SpFromFp", "MachineFrame"} /\ op.bytes \in Addresses

Advance(c, op, stack, build) ==
    IF c.status = "Run" THEN resolve_operation(c, op, stack, build) ELSE c

Return(c, stack, build) == IF c.status = "Run" THEN pop_return_address(c, stack, build) ELSE c

LEMMA WordFacts == /\ Word \in Nat \ {0} /\ AddrSpace \in Nat /\ Word < AddrSpace
                   /\ \A a \in Addresses : a \in Nat /\ a < AddrSpace
  BY WordsAssumption DEF Addresses

LEMMA MoveSpTyped ==
    ASSUME NEW c \in Configurations, NEW sp \in Nat, sp < 2 * AddrSpace, NEW build
    PROVE  MoveSp(c, sp, build) \in Configurations
<1>1. ASSUME NEW a \in Addresses PROVE [c EXCEPT !.regs.sp = a] \in Configurations
  BY <1>1 DEF Configurations, Registers
<1>2. sp < AddrSpace => sp \in Addresses
  BY WordFacts DEF Addresses
<1>3. ~(sp < AddrSpace) => sp - AddrSpace \in Addresses
  BY WordFacts DEF Addresses
<1>4. [c EXCEPT !.status = "Panic"] \in Configurations
  BY DEF Configurations
<1> QED
  BY <1>1, <1>2, <1>3, <1>4 DEF MoveSp

LEMMA ReadIs ==
    ASSUME NEW stack \in [Addresses -> Values], NEW a \in Addresses, stack[a] # Unreadable
    PROVE  stack[a] \in Addresses
  BY DEF Values

LEMMA AdvanceTyped ==
    ASSUME NEW c \in Configurations, NEW op, IsOperation(op),
           NEW stack \in [Addresses -> Values], NEW build
    PROVE  Advance(c, op, stack, build) \in Configurations
<1> DEFINE sp == c.regs.sp
           bp == c.regs.bp
           caller == (sp + 3 * Word) % AddrSpace
<1> SUFFICES resolve_operation(c, op, stack, build) \in Configurations
  BY DEF Advance
<1>1. c.regs \in Registers /\ sp \in Addresses /\ bp \in Addresses
  BY DEF Configurations, Registers
<1>2. /\ sp + op.bytes \in Nat /\ sp + op.bytes < 2 * AddrSpace
      /\ bp + op.bytes \in Nat /\ bp + op.bytes < 2 * AddrSpace
      /\ sp + Word \in Nat /\ sp + Word < 2 * AddrSpace
  <2>1. \A a, b \in Nat : a < AddrSpace /\ b < AddrSpace => a + b \in Nat /\ a + b < 2 * AddrSpace
    BY WordFacts
  <2> QED
    BY <1>1, <2>1, WordFacts DEF IsOperation
<1>3. caller \in Addresses
  <2>1. \A a \in Nat : a % AddrSpace \in 0 .. AddrSpace - 1
    BY WordFacts
  <2>2. sp + 3 * Word \in Nat
    BY <1>1, WordFacts
  <2> QED
    BY <2>1, <2>2 DEF Addresses
<1>4. [c EXCEPT !.status = "Missing"] \in Configurations
  BY DEF Configurations
<1>5. CASE op.kind = "AddSp"
  BY <1>2, <1>5, MoveSpTyped, SMTT(30) DEF resolve_operation
<1>6. CASE op.kind = "SpFromFp"
  BY <1>2, <1>6, MoveSpTyped DEF resolve_operation
<1>7. CASE op.kind = "Pop"
  <2>1. CASE stack[sp] = Unreadable
    BY <1>4, <1>7, <2>1, SMTT(30) DEF resolve_operation
  <2>2. CASE stack[sp] # Unreadable
    <3> DEFINE popped == [c EXCEPT !.regs = SetRegister(c.regs, op.reg, stack[sp])]
    <3>1. stack[sp] \in Addresses
      BY <1>1, <2>2, ReadIs
    <3>2. popped \in Configurations
      BY <1>1, <3>1 DEF Configurations, SetRegister, Registers
    <3>3. resolve_operation(c, op, stack, build) = MoveSp(popped, sp + Word, build)
      BY <1>7, <2>2 DEF resolve_operation
    <3> HIDE DEF popped
    <3> QED
      BY <1>2, <3>2, <3>3, MoveSpTyped
  <2> QED
    BY <2>1, <2>2, SMTT(30)
<1>8. CASE op.kind = "MachineFrame"
  <2>1. CASE stack[sp] = Unreadable \/ stack[caller] = Unreadable
    BY <1>4, <1>8, <2>1, SMTT(30) DEF resolve_operation
  <2>2. CASE ~(stack[sp] = Unreadable \/ stack[caller] = Unreadable)
    <3>1. stack[sp] \in Addresses /\ stack[caller] \in Addresses
      BY <1>1, <1>3, <2>2, ReadIs, SMTT(30)
    <3>2. resolve_operation(c, op, stack, build)
            = [c EXCEPT !.status = "Done", !.ra = stack[sp], !.regs.sp = stack[caller]]
      BY <1>8, <2>2 DEF resolve_operation
    <3>3. ASSUME NEW a \in Addresses, NEW b \in Addresses
          PROVE  [c EXCEPT !.status = "Done", !.ra = a, !.regs.sp = b] \in Configurations
      <4>1. [c.regs EXCEPT !.sp = b] \in Registers
        BY <1>1 DEF Registers
      <4> QED
        BY <4>1, ZenonT(30) DEF Configurations
    <3> HIDE DEF caller, sp
    <3> QED
      BY <3>1, <3>2, <3>3, ZenonT(30)
  <2> QED
    BY <2>1, <2>2
<1> QED
  BY <1>5, <1>6, <1>7, <1>8 DEF IsOperation

LEMMA ReturnTyped ==
    ASSUME NEW c \in Configurations, NEW stack \in [Addresses -> Values], NEW build
    PROVE  Return(c, stack, build) \in Configurations
<1> DEFINE sp == c.regs.sp
           done == [c EXCEPT !.status = "Done", !.ra = stack[sp]]
<1>1. c.regs \in Registers /\ sp \in Addresses
  BY DEF Configurations, Registers
<1>2. sp + Word \in Nat /\ sp + Word < 2 * AddrSpace
  BY <1>1, WordFacts
<1>3. [c EXCEPT !.status = "Missing"] \in Configurations
  BY DEF Configurations
<1>4. ASSUME stack[sp] # Unreadable PROVE MoveSp(done, sp + Word, build) \in Configurations
  <2>1. stack[sp] \in Addresses
    BY <1>1, <1>4, ReadIs
  <2>2. done \in Configurations
    BY <2>1, ZenonT(30) DEF Configurations
  <2> HIDE DEF done
  <2> QED
    BY <1>2, <2>2, MoveSpTyped
<1> QED
  BY <1>3, <1>4 DEF Return, pop_return_address

\* The run of the operations ops from the registers r.
AreOperations(ops) == ops \in Seq(ToSet(ops)) /\ \A i \in DOMAIN ops : IsOperation(ops[i])

Begin(r) == [status |-> "Run", ra |-> 0, regs |-> r]

Resolves(ops, r, stack, build, f) ==
    /\ f \in [0 .. Len(ops) -> Configurations]
    /\ f[0] = Begin(r)
    /\ \A k \in 1 .. Len(ops) : f[k] = Advance(f[k - 1], ops[k], stack, build)
    /\ Resolve(ops, r, stack, build) = {Return(f[Len(ops)], stack, build)}

LEMMA ResolveRun ==
    ASSUME NEW ops, AreOperations(ops), NEW r \in Registers, NEW stack \in [Addresses -> Values],
           NEW build
    PROVE  \E f : Resolves(ops, r, stack, build, f)
<1> DEFINE n == Len(ops)
           D == ToSet(ops)
           base == Begin(r)
           one == [p \in Configurations \X D |-> Advance(p[1], p[2], stack, build)]
           step == [p \in (SUBSET Configurations) \X D |->
                      {Advance(c, p[2], stack, build) : c \in p[1]}]
           Op(g, s) == {Advance(c, ops[Max(s)], stack, build) : c \in g[s \ {Max(s)}]}
           Is(g) == g = [s \in SUBSET (1 .. n) |-> IF s = {} THEN {base} ELSE Op(g, s)]
<1>1. n \in Nat /\ ops \in [1 .. n -> D] /\ DOMAIN ops = 1 .. n
  BY DEF AreOperations
<1>2. base \in Configurations
  BY WordFacts DEF Begin, Configurations, Addresses
<1>3. \A op \in D : IsOperation(op)
  BY <1>1 DEF AreOperations, ToSet
<1>4. ASSUME NEW c \in Configurations, NEW op \in D
      PROVE  Advance(c, op, stack, build) \in Configurations
  <2> HIDE DEF D
  <2> QED
    BY <1>3, AdvanceTyped
<1> HIDE DEF D
<1>5. one \in [Configurations \X D -> Configurations]
  BY <1>4
<1>6. step \in [(SUBSET Configurations) \X D -> SUBSET Configurations]
  BY <1>4
<1>7. PICK f \in [0 .. n -> Configurations] : Runs(one, base, ops, n, f)
  <2> HIDE DEF n, base, one
  <2> QED
    BY <1>1, <1>2, <1>5, RunExists, ZenonT(30)
<1>8. f[0] = base /\ \A k \in 1 .. n : f[k] = Advance(f[k - 1], ops[k], stack, build)
  <2>1. ASSUME NEW k \in 1 .. n PROVE f[k] = Advance(f[k - 1], ops[k], stack, build)
    <3>1. f[k] = one[<<f[k - 1], ops[k]>>]
      BY <1>7, ZenonT(30) DEF Runs
    <3>2. f[k - 1] \in Configurations /\ ops[k] \in D
      BY <1>1
    <3> QED
      BY <3>1, <3>2
  <2> QED
    BY <1>7, <2>1 DEF Runs
<1>9. PICK G \in [SUBSET (1 .. n) -> SUBSET Configurations] : FoldsBy(step, {base}, ops, n, G)
  <2>1. {base} \in SUBSET Configurations
    BY <1>2
  <2> DEFINE S == SUBSET Configurations
             start == {base}
  <2>2. start \in S /\ step \in [S \X D -> S]
    BY <1>6, <2>1
  <2> HIDE DEF n, base, step, S, start
  <2>3. \E G \in [SUBSET (1 .. n) -> S] : FoldsBy(step, start, ops, n, G)
    BY <1>1, <2>2, FoldExists, ZenonT(30)
  <2> QED
    BY <2>3 DEF S, start
<1>10. Is(G)
  <2>1. ASSUME NEW s \in SUBSET (1 .. n), s # {} PROVE G[s] = Op(G, s)
    <3>1. Max(s) \in 1 .. n /\ s \ {Max(s)} \in SUBSET (1 .. n)
      BY <1>1, <2>1, Greatest
    <3>2. G[s \ {Max(s)}] \in SUBSET Configurations /\ ops[Max(s)] \in D
      BY <1>1, <3>1, SMTT(30)
    <3>3. G[s] = step[<<G[s \ {Max(s)}], ops[Max(s)]>>]
      BY <1>9, <2>1, ZenonT(30) DEF FoldsBy
    <3> QED
      BY <3>2, <3>3, ZenonT(30)
  <2>2. G[{}] = {base}
    BY <1>9, ZenonT(30) DEF FoldsBy
  <2> HIDE DEF Op, base, n
  <2> QED
    BY <2>1, <2>2, ZenonT(30)
<1> DEFINE H == CHOOSE g : Is(g)
<1>11. Resolve(ops, r, stack, build) = {Return(c, stack, build) : c \in H[1 .. n]}
  BY <1>1 DEF Resolve, FoldLeft, MapThenFoldSet, Return, Advance, Begin
<1>12. Is(H)
  <2> HIDE DEF Is
  <2> QED
    BY <1>10
<1> HIDE DEF H
<1> DEFINE T == {k \in 0 .. n : H[1 .. k] = {f[k]}}
<1>13. T \in SUBSET (0 .. n) /\ 0 \in T
  <2>1. 1 .. 0 = {} /\ {} \in SUBSET (1 .. n) /\ 0 \in 0 .. n
    BY <1>1
  <2>2. H[{}] = {base}
    <3> HIDE DEF base, Op, n
    <3> QED
      BY <1>12, <2>1, Zenon
  <2>3. H[1 .. 0] = {f[0]}
    BY <1>8, <2>1, <2>2, SMTT(30)
  <2> QED
    BY <2>1, <2>3, SMTT(30)
<1>14. ASSUME NEW k \in T, k < n PROVE k + 1 \in T
  <2>1. k + 1 \in 1 .. n /\ k + 1 \in 0 .. n /\ (k + 1) - 1 = k
    BY <1>1, <1>14
  <2> DEFINE s == 1 .. k + 1
  <2>2. s \in SUBSET (1 .. n) /\ s # {} /\ Max(s) = k + 1 /\ s \ {k + 1} = 1 .. k
    BY <1>1, <2>1, FoldPrefix, ZenonT(30)
  <2>3. H[s] = Op(H, s)
    <3> HIDE DEF base, Op, n, s
    <3> QED
      BY <1>12, <2>2, ZenonT(30)
  <2>4. H[1 .. k] = {f[k]}
    BY <1>14
  <2> HIDE DEF s
  <2>5. H[s] = {Advance(f[k], ops[k + 1], stack, build)}
    BY <2>2, <2>3, <2>4
  <2>6. f[k + 1] = Advance(f[k], ops[k + 1], stack, build)
    BY <1>8, <2>1, Zenon
  <2> QED
    BY <2>1, <2>5, <2>6, SMTT(30) DEF s
<1>15. \A k \in 0 .. n : k \in T
  <2> HIDE DEF T, n
  <2> QED
    BY <1>1, <1>13, <1>14, Reaches, SMTT(30)
<1>16. H[1 .. n] = {f[n]}
  BY <1>1, <1>15, SMTT(30)
<1>17. Resolves(ops, r, stack, build, f)
  BY <1>8, <1>11, <1>16, SMTT(30) DEF Resolves
<1> QED
  BY <1>17

-----------------------------------------------------------------------------
(***************************************************************************)
(* Pops one by one: the words from start on are popped in turn, the b-th   *)
(* of them into bp, until one cannot be read or lies at the end.           *)
(***************************************************************************)
Slot(start, i) == start + (i - 1) * Word
CanPop(stack, start, i) == stack[Slot(start, i)] # Unreadable /\ start + i * Word < AddrSpace
Popped(stack, start, j) == \A i \in 1 .. j : CanPop(stack, start, i)

BpAfter(r, stack, start, b, j) ==
    IF b # 0 /\ b <= j THEN stack[Slot(start, b)] ELSE r.bp

After(r, stack, start, b, j) ==
    [status |-> "Run", ra |-> 0,
     regs |-> [ip |-> r.ip, sp |-> start + j * Word, bp |-> BpAfter(r, stack, start, b, j)]]

LEMMA PoppedNext ==
    ASSUME NEW stack, NEW start, NEW j \in Nat
    PROVE  Popped(stack, start, j + 1) <=> Popped(stack, start, j) /\ CanPop(stack, start, j + 1)
<1>1. \A i \in 1 .. j + 1 : i = j + 1 \/ i \in 1 .. j
  OBVIOUS
<1>2. j + 1 \in 1 .. j + 1 /\ \A i \in 1 .. j : i \in 1 .. j + 1
  OBVIOUS
<1> QED
  BY <1>1, <1>2 DEF Popped

LEMMA SlotTyped ==
    ASSUME NEW stack, NEW start \in Addresses, NEW j \in Nat, Popped(stack, start, j)
    PROVE  start + j * Word \in Addresses
<1>1. CASE j = 0
  BY <1>1, WordFacts
<1>2. CASE j # 0
  <2>1. j \in 1 .. j
    BY <1>2
  <2>2. start + j * Word < AddrSpace
    BY <2>1 DEF Popped, CanPop
  <2>3. j * Word \in Nat
    BY WordFacts
  <2> QED
    BY <2>2, <2>3, WordFacts DEF Addresses
<1> QED
  BY <1>1, <1>2, SMTT(30)

LEMMA PopStep ==
    ASSUME NEW r \in Registers, NEW stack \in [Addresses -> Values], NEW start \in Addresses,
           NEW b \in Nat, NEW j \in Nat, Popped(stack, start, j),
           NEW op, op.kind = "Pop", op.reg = "RBP" <=> b = j + 1,
           NEW c, c = After(r, stack, start, b, j),
           NEW next, next = Advance(c, op, stack, "checked")
    PROVE  /\ Popped(stack, start, j + 1) => next = After(r, stack, start, b, j + 1)
           /\ ~Popped(stack, start, j + 1) => next.status \in {"Missing", "Panic"}
<1> DEFINE sp == start + j * Word
           bp == BpAfter(r, stack, start, b, j)
           new_bp == IF op.reg = "RBP" THEN stack[sp] ELSE bp
<1>1. sp \in Addresses
  BY SlotTyped
<1>2. /\ Slot(start, j + 1) = sp /\ start + (j + 1) * Word = sp + Word
  <2>1. (j + 1) - 1 = j /\ (j + 1) * Word = j * Word + Word /\ j * Word \in Nat /\ start \in Nat
    BY WordFacts
  <2> QED
    BY <2>1, WordFacts, SMTT(30) DEF Slot
<1>3. CanPop(stack, start, j + 1) <=> stack[sp] # Unreadable /\ sp + Word < AddrSpace
  BY <1>2 DEF CanPop
<1>4. BpAfter(r, stack, start, b, j + 1) = new_bp
  <2>1. CASE b = j + 1
    BY <1>2, <2>1, SMTT(30) DEF BpAfter
  <2>2. CASE b # j + 1
    <3>1. b <= j + 1 <=> b <= j
      BY <2>2
    <3> QED
      BY <2>2, <3>1 DEF BpAfter
  <2> QED
    BY <2>1, <2>2, SMTT(30)
<1>5. c = [status |-> "Run", ra |-> 0, regs |-> [ip |-> r.ip, sp |-> sp, bp |-> bp]]
  BY DEF After
<1> HIDE DEF sp, bp
<1>6. next = IF stack[sp] = Unreadable THEN [c EXCEPT !.status = "Missing"]
             ELSE MoveSp([c EXCEPT !.regs = SetRegister(c.regs, op.reg, stack[sp])],
                         sp + Word, "checked")
  BY <1>5 DEF Advance, resolve_operation
<1>7. CASE stack[sp] = Unreadable
  <2>1. next.status = "Missing"
    BY <1>5, <1>6, <1>7
  <2> QED
    BY <1>3, <1>7, <2>1, PoppedNext, SMTT(30)
<1>8. CASE stack[sp] # Unreadable
  <2> DEFINE popped == [status |-> "Run", ra |-> 0,
                        regs |-> [ip |-> r.ip, sp |-> sp, bp |-> new_bp]]
  <2>1. [c EXCEPT !.regs = SetRegister(c.regs, op.reg, stack[sp])] = popped
    BY <1>5 DEF SetRegister
  <2>2. next = MoveSp(popped, sp + Word, "checked")
    BY <1>6, <1>8, <2>1, Zenon
  <2>3. CASE sp + Word < AddrSpace
    <3>1. next = [popped EXCEPT !.regs.sp = sp + Word]
      BY <2>2, <2>3, SMTT(30) DEF MoveSp
    <3>2. next = [status |-> "Run", ra |-> 0,
                  regs |-> [ip |-> r.ip, sp |-> sp + Word, bp |-> new_bp]]
      BY <3>1, SMTT(30)
    <3>3. next = After(r, stack, start, b, j + 1)
      BY <1>2, <1>4, <3>2 DEF After
    <3>4. Popped(stack, start, j + 1)
      BY <1>3, <1>8, <2>3, PoppedNext
    <3> QED
      BY <3>3, <3>4, SMTT(30)
  <2>4. CASE ~(sp + Word < AddrSpace)
    <3>1. next.status = "Panic"
      BY <2>2, <2>4 DEF MoveSp
    <3>2. ~Popped(stack, start, j + 1)
      BY <1>3, <2>4, PoppedNext, SMTT(30)
    <3> QED
      BY <3>1, <3>2, SMTT(30)
  <2> QED
    BY <2>3, <2>4, SMTT(30)
<1> QED
  BY <1>7, <1>8, SMTT(30)

-----------------------------------------------------------------------------
(***************************************************************************)
(* The lists of operations that a rule stands for: a number of words that  *)
(* sp moves by first, if skip is 1, and pops, of which number b is bp's.   *)
(***************************************************************************)
PopRule(m, count, b) ==
    [kind |-> "OffsetSpAndPopRegisters", sp |-> m, bp |-> 0, count |-> count, bp_index |-> b]

Stands(rule, ops, skip, m, b) ==
    LET count == Len(ops) - skip
    IN  /\ skip \in {0, 1} /\ count \in 0 .. Len(ops) /\ m \in UOffsets /\ b \in 0 .. count
        /\ skip = 0 => m = 0
        /\ skip = 1 => ops[1].kind = "AddSp" /\ m = ops[1].bytes \div Word
        /\ \A j \in 1 .. count :
              ops[skip + j].kind = "Pop" /\ (ops[skip + j].reg = "RBP" <=> b = j)
        /\ \/ rule = JustReturn /\ count = 0 /\ m = 0
           \/ rule = PopRule(m, count, b) /\ count <= RegisterCount

\* The index of bp among registers of which none comes twice.
BpIndex(order) ==
    IF Contains(order, "RBP") THEN SelectInSeq(order, LAMBDA r : r = "RBP") ELSE 0

LEMMA BpIndexIs ==
    ASSUME NEW D, NEW order \in Seq(D), Distinct(order, Len(order))
    PROVE  /\ BpIndex(order) \in 0 .. Len(order)
           /\ \A j \in 1 .. Len(order) : order[j] = "RBP" <=> BpIndex(order) = j
<1> DEFINE n == Len(order)
           I == {i \in 1 .. n : order[i] = "RBP"}
<1>1. n \in Nat
  OBVIOUS
<1>2. Contains(order, "RBP") <=> I # {}
  BY DEF Contains
<1>3. SelectInSeq(order, LAMBDA r : r = "RBP") = IF I # {} THEN Min(I) ELSE 0
  BY DEF SelectInSeq
<1>4. BpIndex(order) = IF I # {} THEN Min(I) ELSE 0
  BY <1>2, <1>3 DEF BpIndex
<1>5. CASE I = {}
  BY <1>1, <1>4, <1>5, SMTT(30)
<1>6. CASE I # {}
  <2>1. PICK i \in I : TRUE
    BY <1>6
  <2>2. \A j \in I : j = i
    BY <2>1 DEF Distinct
  <2>3. i \in 1 .. n /\ i \in Nat
    BY <2>1
  <2>4. Min(I) \in I
    <3>1. Min(I) = CHOOSE x \in I : \A y \in I : x <= y
      BY DEF Min
    <3>2. \E x \in I : \A y \in I : x <= y
      BY <2>1, <2>2, <2>3, SMTT(30)
    <3> HIDE DEF I
    <3> QED
      BY <3>1, <3>2
  <2>5. BpIndex(order) = i
    BY <1>4, <1>6, <2>2, <2>4, Zenon
  <2>6. order[i] = "RBP"
    BY <2>1
  <2>7. \A j \in 1 .. n : order[j] = "RBP" => j = i
    BY <2>2
  <2> QED
    BY <1>1, <2>3, <2>5, <2>6, <2>7, SMTT(30)
<1> QED
  BY <1>5, <1>6, SMTT(30)

LEMMA RuleShape ==
    ASSUME NEW ops, AreOperations(ops), NEW rule, rule = for_sequence_of_offset_or_pop(ops),
           rule # NoRule
    PROVE  \E skip, m, b : Stands(rule, ops, skip, m, b)
<1> DEFINE starts == ops # <<>> /\ IsOffset(ops[1])
           skip == IF starts THEN 1 ELSE 0
           m == IF starts THEN ops[1].bytes \div Word ELSE 0
           pops == IF starts THEN Tail(ops) ELSE ops
           registers == [i \in DOMAIN pops |-> pops[i].reg]
           e == encode(registers)
           b == BpIndex(decode(e.count, e.r))
           n == Len(ops)
           count == n - skip
<1>1. n \in Nat /\ ops \in Seq(ToSet(ops)) /\ (starts => n >= 1)
  BY DEF AreOperations
<1>2. /\ count \in 0 .. n /\ count \in Nat /\ DOMAIN pops = 1 .. count
      /\ \A j \in 1 .. count : pops[j] = ops[skip + j]
  <2>1. CASE starts
    <3>1. DOMAIN Tail(ops) = 1 .. n - 1 /\ \A j \in 1 .. n - 1 : Tail(ops)[j] = ops[j + 1]
      BY <1>1, <2>1
    <3>2. \A j \in 1 .. n - 1 : j + 1 = 1 + j
      OBVIOUS
    <3> QED
      BY <1>1, <2>1, <3>1, <3>2, SMTT(30)
  <2>2. CASE ~starts
    <3>1. DOMAIN ops = 1 .. n /\ \A j \in 1 .. n : 0 + j = j
      BY <1>1
    <3> QED
      BY <1>1, <2>2, <3>1, SMTT(30)
  <2> QED
    BY <2>1, <2>2
<1>3. m \in UOffsets /\ (skip = 0 => m = 0)
      /\ (skip = 1 => ops[1].kind = "AddSp" /\ m = ops[1].bytes \div Word) /\ skip \in {0, 1}
  BY PeAssumption DEF IsOffset
<1>4. pops = <<>> <=> count = 0
  <2>1. pops \in Seq(ToSet(ops)) /\ Len(pops) = count
    BY <1>1, <1>2, SMTT(30)
  <2> QED
    BY <2>1
<1>5. rule = IF \E i \in DOMAIN pops : ~IsPop(pops[i]) THEN NoRule
             ELSE IF pops = <<>> /\ m = 0 THEN JustReturn
             ELSE IF e.fails = "yes" THEN NoRule
             ELSE PopRule(m, e.count, b)
  BY ZenonT(30) DEF for_sequence_of_offset_or_pop, PopRule, BpIndex
<1> HIDE DEF skip, m, pops, e, b, count, n
<1>6. \A j \in 1 .. count : ops[skip + j].kind = "Pop"
  BY <1>2, <1>5, SMTT(30) DEF IsPop
<1>7. CASE pops = <<>> /\ m = 0
  <2>1. rule = JustReturn /\ count = 0 /\ m = 0
    BY <1>4, <1>5, <1>7, SMTT(30)
  <2>2. Stands(rule, ops, skip, m, 0)
    BY <1>1, <1>2, <1>3, <2>1, SMTT(30) DEF Stands, count, n
  <2> QED
    BY <2>2
<1>8. CASE ~(pops = <<>> /\ m = 0)
  <2> DEFINE D == {pops[i].reg : i \in DOMAIN pops}
  <2>1. e.fails # "yes" /\ rule = PopRule(m, e.count, b)
    BY <1>5, <1>8
  <2>2. registers \in Seq(D) /\ Len(registers) = count
    BY <1>2
  <2>3. e.fails = "no"
    <3>1. e.fails \in {"yes", "no"}
      <4>1. PICK f : EncodeRuns(registers, f)
        BY <2>2, EncodeRun, ZenonT(30)
      <4>2. e = f[count] /\ f[count] \in Encodings
        BY <1>2, <2>2, <4>1 DEF EncodeRuns, e
      <4> QED
        BY <4>2 DEF Encodings
    <3> QED
      BY <2>1, <3>1, SMTT(30)
  <2> HIDE DEF D, registers
  <2>4. count <= RegisterCount
    BY <2>2, <2>3, EncodeTooLong DEF e
  <2>5. Distinct(registers, count) /\ e.count = count /\ decode(e.count, e.r) = registers
    BY <2>2, <2>3, <2>4, DecodeUndoesEncode, SMTT(30) DEF e
  <2>6. b \in 0 .. count /\ \A j \in 1 .. count : registers[j] = "RBP" <=> b = j
    BY <2>2, <2>5, BpIndexIs, SMTT(30) DEF b
  <2>7. \A j \in 1 .. count : registers[j] = ops[skip + j].reg
    BY <1>2 DEF registers
  <2>8. \A j \in 1 .. count : ops[skip + j].reg = "RBP" <=> b = j
    BY <2>6, <2>7, SMTT(30)
  <2>9. Stands(rule, ops, skip, m, b)
    BY <1>1, <1>2, <1>3, <1>6, <2>1, <2>4, <2>5, <2>6, <2>8, ZenonT(30) DEF Stands, count, n
  <2> QED
    BY <2>9
<1> QED
  BY <1>7, <1>8

-----------------------------------------------------------------------------
(***************************************************************************)
(* Carrying out the operations that a rule stands for.                     *)
(***************************************************************************)
InWords(ops) == \A i \in DOMAIN ops : ops[i].bytes % Word = 0

LEMMA WholeWords ==
    ASSUME NEW bytes \in Nat, bytes % Word = 0
    PROVE  bytes = (bytes \div Word) * Word
<1>1. Word \in Nat /\ Word > 0
  BY WordFacts
<1> QED
  BY <1>1, SMTT(30)

LEMMA StaysStopped ==
    ASSUME NEW ops, NEW r, NEW stack, NEW build, NEW f, Resolves(ops, r, stack, build, f),
           NEW k \in 1 .. Len(ops), f[k - 1].status # "Run"
    PROVE  f[k] = f[k - 1]
  BY DEF Resolves, Advance

\* The configuration after j pops.
PopsTo(c, r, stack, start, b, j) ==
    /\ Popped(stack, start, j) => c = After(r, stack, start, b, j)
    /\ ~Popped(stack, start, j) => c.status \in {"Missing", "Panic"}

LEMMA PopsRun ==
    ASSUME NEW ops, AreOperations(ops), NEW r \in Registers, NEW stack \in [Addresses -> Values],
           NEW rule, NEW skip, NEW m, NEW b, Stands(rule, ops, skip, m, b),
           NEW f, Resolves(ops, r, stack, "checked", f),
           NEW start \in Addresses, f[skip] = After(r, stack, start, b, 0)
    PROVE  PopsTo(f[Len(ops)], r, stack, start, b, Len(ops) - skip)
<1> DEFINE n == Len(ops)
           count == n - skip
           T == {j \in 0 .. count : PopsTo(f[skip + j], r, stack, start, b, j)}
<1>1. n \in Nat /\ skip \in Nat /\ count \in Nat /\ b \in Nat /\ skip + count = n
  <2>1. n \in Nat /\ skip \in {0, 1} /\ count \in 0 .. n /\ b \in 0 .. count
    BY DEF Stands, AreOperations
  <2> QED
    BY <2>1
<1>2. T \in SUBSET (0 .. count) /\ 0 \in T
  <2>1. skip + 0 = skip /\ 0 \in 0 .. count
    BY <1>1
  <2>2. Popped(stack, start, 0)
    BY DEF Popped
  <2> QED
    BY <2>1, <2>2 DEF PopsTo
<1>3. ASSUME NEW j \in T, j < count PROVE j + 1 \in T
  <2> DEFINE k == skip + (j + 1)
             op == ops[k]
             c == f[skip + j]
             next == f[k]
  <2>1. /\ j \in Nat /\ j + 1 \in 0 .. count /\ j + 1 \in 1 .. count
        /\ k \in 1 .. n /\ k - 1 = skip + j
    BY <1>1, <1>3, SMTT(30)
  <2>2. PopsTo(c, r, stack, start, b, j)
    OBVIOUS
  <2>3. op.kind = "Pop" /\ (op.reg = "RBP" <=> b = j + 1)
    BY <2>1, ZenonT(30) DEF Stands
  <2>4. next = Advance(c, op, stack, "checked")
    BY <2>1 DEF Resolves
  <2> HIDE DEF k, op, c, next
  <2>5. CASE Popped(stack, start, j)
    <3>1. c = After(r, stack, start, b, j)
      BY <2>2, <2>5 DEF PopsTo
    <3>2. /\ Popped(stack, start, j + 1) => next = After(r, stack, start, b, j + 1)
          /\ ~Popped(stack, start, j + 1) => next.status \in {"Missing", "Panic"}
      BY <1>1, <2>1, <2>3, <2>4, <2>5, <3>1, PopStep, SMTT(30)
    <3> QED
      BY <2>1, <3>2, SMTT(30) DEF PopsTo, next, k
  <2>6. CASE ~Popped(stack, start, j)
    <3>1. c.status \in {"Missing", "Panic"}
      BY <2>2, <2>6, SMTT(30) DEF PopsTo
    <3>2. next = c
      BY <2>4, <3>1, SMTT(30) DEF Advance
    <3>3. ~Popped(stack, start, j + 1)
      BY <2>1, <2>6, PoppedNext, SMTT(30)
    <3> QED
      BY <2>1, <3>1, <3>2, <3>3 DEF PopsTo, next, k
  <2> QED
    BY <2>5, <2>6, SMTT(30)
<1>4. \A j \in 0 .. count : j \in T
  <2> HIDE DEF T, count, n
  <2> QED
    BY <1>1, <1>2, <1>3, Reaches, SMTT(30)
<1>5. count \in T
  BY <1>1, <1>4, SMTT(30)
<1> QED
  BY <1>1, <1>5

LEMMA OperationsRun ==
    ASSUME NEW ops, AreOperations(ops), InWords(ops),
           NEW r \in Registers, NEW stack \in [Addresses -> Values],
           NEW rule, NEW skip, NEW m, NEW b, Stands(rule, ops, skip, m, b),
           NEW f, Resolves(ops, r, stack, "checked", f),
           NEW start, start = r.sp + m * Word
    PROVE  /\ start \in Nat
           /\ start < AddrSpace => PopsTo(f[Len(ops)], r, stack, start, b, Len(ops) - skip)
           /\ ~(start < AddrSpace) => f[Len(ops)].status = "Panic"
<1> DEFINE n == Len(ops)
<1>1. n \in Nat /\ DOMAIN ops = 1 .. n /\ skip \in {0, 1} /\ skip <= n /\ m \in Nat /\ b \in Nat
  BY OffsetsAssumption DEF Stands, AreOperations
<1>2. r.sp \in Addresses /\ r.sp \in Nat /\ Word \in Nat
  BY WordFacts DEF Registers
<1>3. m * Word \in Nat /\ start \in Nat
  BY <1>1, <1>2, SMTT(30)
<1>4. f[0] = Begin(r)
  BY DEF Resolves
<1>5. ASSUME start < AddrSpace
      PROVE  After(r, stack, start, b, 0) = [status |-> "Run", ra |-> 0, regs |-> [r EXCEPT !.sp = start]]
  <2>1. ~(b # 0 /\ b <= 0)
    BY <1>1, SMTT(30)
  <2>2. start + 0 * Word = start
    BY <1>2, <1>3, SMTT(30)
  <2>3. [r EXCEPT !.sp = start] = [ip |-> r.ip, sp |-> start, bp |-> r.bp]
    BY SMTT(30) DEF Registers
  <2> QED
    BY <2>1, <2>2, <2>3, SMTT(30) DEF After, BpAfter
<1>6. CASE skip = 0
  <2>1. start = r.sp
    BY <1>2, <1>6, SMTT(30) DEF Stands
  <2>2. [r EXCEPT !.sp = start] = r
    BY <2>1, SMTT(30) DEF Registers
  <2>3. start < AddrSpace /\ start \in Addresses
    BY <1>2, <2>1, WordFacts, SMTT(30)
  <2>4. f[skip] = After(r, stack, start, b, 0)
    BY <1>4, <1>5, <1>6, <2>2, <2>3, SMTT(30) DEF Begin
  <2> QED
    BY <1>3, <2>3, <2>4, PopsRun, SMTT(30)
<1>7. CASE skip = 1
  <2>1. 1 \in 1 .. n /\ 1 \in DOMAIN ops /\ n >= 1 /\ 1 - 1 = 0
    BY <1>1, <1>7, SMTT(30)
  <2>2. ops[1].kind = "AddSp" /\ ops[1].bytes \in Addresses /\ m = ops[1].bytes \div Word
        /\ ops[1].bytes % Word = 0
    BY <1>7, <2>1, SMTT(30) DEF Stands, AreOperations, IsOperation, InWords
  <2>3. ops[1].bytes = m * Word
    BY <2>2, WholeWords, WordFacts, SMTT(30)
  <2>4. f[1] = MoveSp(Begin(r), start, "checked")
    <3>1. f[1] = Advance(f[0], ops[1], stack, "checked")
      BY <2>1 DEF Resolves
    <3>2. Begin(r).status = "Run" /\ Begin(r).regs = r
      BY DEF Begin
    <3> QED
      BY <1>4, <2>2, <2>3, <3>1, <3>2, SMTT(30) DEF Advance, resolve_operation
  <2>5. CASE start < AddrSpace
    <3>1. f[1] = [status |-> "Run", ra |-> 0, regs |-> [r EXCEPT !.sp = start]]
      BY <2>4, <2>5, SMTT(30) DEF MoveSp, Begin
    <3>2. f[skip] = After(r, stack, start, b, 0)
      BY <1>5, <1>7, <2>5, <3>1, SMTT(30)
    <3>3. start \in Addresses
      BY <1>3, <2>5, WordFacts DEF Addresses
    <3> QED
      BY <1>3, <2>5, <3>2, <3>3, PopsRun, SMTT(30)
  <2>6. CASE ~(start < AddrSpace)
    <3>1. f[1].status = "Panic"
      BY <2>4, <2>6, SMTT(30) DEF MoveSp, Begin
    <3> DEFINE T == {j \in 0 .. n - 1 : f[j + 1].status = "Panic"}
    <3>2. T \in SUBSET (0 .. n - 1) /\ 0 \in T /\ n - 1 \in Nat
      BY <1>1, <2>1, <3>1
    <3>3. ASSUME NEW j \in T, j < n - 1 PROVE j + 1 \in T
      <4>1. j + 1 \in 0 .. n - 1 /\ (j + 1) + 1 \in 1 .. n /\ ((j + 1) + 1) - 1 = j + 1
        BY <1>1, <3>3, SMTT(30)
      <4>2. f[((j + 1) + 1) - 1].status # "Run"
        BY <4>1, SMTT(30)
      <4>3. f[(j + 1) + 1] = f[((j + 1) + 1) - 1]
        BY <4>1, <4>2, StaysStopped, SMTT(30)
      <4> QED
        BY <4>1, <4>3, SMTT(30)
    <3>4. \A j \in 0 .. n - 1 : j \in T
      <4> DEFINE top == n - 1
      <4>1. top \in Nat /\ T \in SUBSET (0 .. top) /\ 0 \in T
        BY <3>2, SMTT(30)
      <4>2. \A j \in T : j < top => j + 1 \in T
        BY <3>3
      <4> HIDE DEF T, top
      <4>3. \A j \in 0 .. top : j \in T
        BY <4>1, <4>2, Reaches
      <4> QED
        BY <4>3, SMTT(30) DEF top
    <3>5. f[n].status = "Panic"
      <4>1. n - 1 \in 0 .. n - 1 /\ (n - 1) + 1 = n
        BY <1>1, <2>1, SMTT(30)
      <4> QED
        BY <3>4, <4>1, SMTT(30)
    <3> QED
      BY <1>3, <2>6, <3>5, SMTT(30)
  <2> QED
    BY <2>5, <2>6, SMTT(30)
<1> QED
  BY <1>1, <1>6, <1>7

-----------------------------------------------------------------------------
(***************************************************************************)
(* The rule's execution against the operations one by one.                 *)
(***************************************************************************)
Agree(fast, slow, ip) ==
    /\ fast.result = "Some" =>
         /\ slow.status = "Done" /\ slow.ra = fast.address
         /\ slow.regs = [fast.regs EXCEPT !.ip = ip]
    /\ slow.status = "Done" => fast.result \in {"Some", "None", "DidNotAdvance"}

LEMMA ReturnAgrees ==
    ASSUME NEW r \in Registers, NEW stack \in [Addresses -> Values], NEW end \in Addresses,
           NEW bp, NEW old_bp, NEW x, NEW c, NEW fast,
           c = [status |-> "Run", ra |-> 0, regs |-> [ip |-> r.ip, sp |-> end, bp |-> bp]],
           fast = IF end + Word < AddrSpace THEN Finish(r, old_bp, end + Word, bp, stack, "checked")
                  ELSE Stop("IntegerOverflow", x)
    PROVE  Agree(fast, Return(c, stack, "checked"), r.ip)
<1> DEFINE slow == Return(c, stack, "checked")
           ra == stack[end]
<1>1. end \in Nat /\ Word \in Nat
  BY WordFacts
<1>2. slow = IF ra = Unreadable THEN [c EXCEPT !.status = "Missing"]
             ELSE MoveSp([c EXCEPT !.status = "Done", !.ra = ra], end + Word, "checked")
  BY ZenonT(30) DEF Return, pop_return_address
<1>3. CASE ~(end + Word < AddrSpace)
  <2>1. fast.result = "IntegerOverflow"
    BY <1>3 DEF Stop
  <2>2. slow.status \in {"Missing", "Panic"}
    BY <1>2, <1>3, ZenonT(30) DEF MoveSp
  <2> QED
    BY <2>1, <2>2 DEF Agree
<1>4. CASE end + Word < AddrSpace
  <2>1. ~(end + Word < Word) /\ Below(end + Word) = end
    BY <1>1 DEF Below
  <2>2. fast = IF ra = Unreadable THEN Stop("CouldNotReadStack", [r EXCEPT !.bp = old_bp])
               ELSE IF ra = 0 THEN Stop("None", [r EXCEPT !.bp = old_bp])
               ELSE IF end + Word = r.sp /\ ra = r.ip
                    THEN Stop("DidNotAdvance", [r EXCEPT !.bp = old_bp])
               ELSE Unwound(ra, [ip |-> ra, sp |-> end + Word, bp |-> bp])
    BY <1>4, <2>1, SMTT(30) DEF Finish
  <2>3. CASE ra = Unreadable
    <3>1. slow.status = "Missing" /\ fast.result = "CouldNotReadStack"
      BY <1>2, <2>2, <2>3 DEF Stop
    <3> QED
      BY <3>1 DEF Agree
  <2>4. CASE ra # Unreadable
    <3>1. slow = [[c EXCEPT !.status = "Done", !.ra = ra] EXCEPT !.regs.sp = end + Word]
      BY <1>2, <1>4, <2>4, SMTT(30) DEF MoveSp
    <3>2. slow = [status |-> "Done", ra |-> ra,
                  regs |-> [ip |-> r.ip, sp |-> end + Word, bp |-> bp]]
      BY <3>1, ZenonT(30)
    <3>3. \/ fast.result \in {"None", "DidNotAdvance"}
          \/ fast = Unwound(ra, [ip |-> ra, sp |-> end + Word, bp |-> bp])
      BY <2>2, <2>4 DEF Stop
    <3>4. CASE fast.result \in {"None", "DidNotAdvance"}
      BY <3>4, SMTT(30) DEF Agree
    <3>5. CASE fast = Unwound(ra, [ip |-> ra, sp |-> end + Word, bp |-> bp])
      <4> DEFINE new == [ip |-> ra, sp |-> end + Word, bp |-> bp]
      <4>1. fast.result = "Some" /\ fast.address = ra /\ fast.regs = new
        BY <3>5 DEF Unwound
      <4>2. [new EXCEPT !.ip = r.ip] = [ip |-> r.ip, sp |-> end + Word, bp |-> bp]
        OBVIOUS
      <4>3. slow.status = "Done" /\ slow.ra = ra
            /\ slow.regs = [ip |-> r.ip, sp |-> end + Word, bp |-> bp]
        BY <3>2
      <4> QED
        BY <4>1, <4>2, <4>3 DEF Agree
    <3> QED
      BY <3>3, <3>4, <3>5, SMTT(30)
  <2> QED
    BY <2>3, <2>4
<1> QED
  BY <1>3, <1>4, SMTT(30)

\* Where exec_pop stops for an unreadable word.
LEMMA UnreadableStops ==
    ASSUME NEW stack, NEW start \in Addresses, NEW count \in Nat,
           start + (count + 1) * Word < AddrSpace,
           ~\E i \in 1 .. count : Popped(stack, start, i - 1) /\ stack[Slot(start, i)] = Unreadable
    PROVE  Popped(stack, start, count)
<1> DEFINE T == {j \in 0 .. count : Popped(stack, start, j)}
<1>1. T \in SUBSET (0 .. count) /\ 0 \in T
  BY DEF Popped
<1>2. ASSUME NEW j \in T, j < count PROVE j + 1 \in T
  <2>1. j \in Nat /\ j + 1 \in 1 .. count /\ (j + 1) - 1 = j /\ Popped(stack, start, j)
    BY <1>2
  <2>2. stack[Slot(start, j + 1)] # Unreadable
    BY <2>1
  <2>3. start + (j + 1) * Word < AddrSpace
    <3>1. (j + 1) * Word <= (count + 1) * Word
      <4>1. \A p, q, w \in Nat : p <= q => p * w <= q * w
        BY SMTT(30)
      <4> QED
        BY <2>1, <4>1, WordFacts
    <3>2. (j + 1) * Word \in Nat /\ (count + 1) * Word \in Nat
      BY <2>1, WordFacts
    <3> QED
      BY <3>1, <3>2, WordFacts, SMTT(30)
  <2>4. CanPop(stack, start, j + 1)
    BY <2>2, <2>3, SMTT(30) DEF CanPop
  <2>5. Popped(stack, start, j + 1)
    BY <2>1, <2>4, PoppedNext, SMTT(30)
  <2> QED
    BY <2>1, <2>5, SMTT(30)
<1>3. \A j \in 0 .. count : j \in T
  <2> HIDE DEF T
  <2> QED
    BY <1>1, <1>2, Reaches, SMTT(30)
<1> QED
  BY <1>3

Stuck(stack, start, count) ==
    \E i \in 1 .. count : Popped(stack, start, i - 1) /\ stack[Slot(start, i)] = Unreadable

PopOutcome(fast, r, stack, start, count, b, bp) ==
    /\ Popped(stack, start, count) => bp = BpAfter(r, stack, start, b, count)
    /\ fast = IF Stuck(stack, start, count) THEN Stop("CouldNotReadStack", [r EXCEPT !.bp = bp])
              ELSE IF ~(start + (count + 1) * Word < AddrSpace)
                   THEN Stop("IntegerOverflow", [r EXCEPT !.bp = bp])
              ELSE Finish(r, bp, start + (count + 1) * Word, bp, stack, "checked")

LEMMA PopRuleIs ==
    ASSUME NEW r \in Registers, NEW stack \in [Addresses -> Values], NEW first,
           NEW m \in Nat, NEW count \in Nat, NEW b \in 0 .. count, NEW start,
           start = r.sp + m * Word,
           NEW fast, fast = exec(PopRule(m, count, b), first, r, stack, "checked")
    PROVE  /\ ~(start < AddrSpace) => fast = Stop("IntegerOverflow", r)
           /\ start < AddrSpace =>
                \E bp : PopOutcome(fast, r, stack, start, count, b, bp)
<1> DEFINE rule == PopRule(m, count, b)
           bp == IF b # 0 /\ Popped(stack, start, b) THEN stack[Slot(start, b)] ELSE r.bp
           new_sp == start + (count + 1) * Word
           stuck == Stuck(stack, start, count)
<1>1. /\ rule.kind = "OffsetSpAndPopRegisters" /\ rule.sp = m /\ rule.count = count
      /\ rule.bp_index = b
  BY DEF PopRule
<1>2. fast = exec_pop(rule, r, stack, "checked")
  BY <1>1 DEF exec
<1>3. r.sp \in Nat /\ m * Word \in Nat /\ start \in Nat /\ (count + 1) * Word \in Nat /\ new_sp \in Nat
  <2>1. r.sp \in Nat /\ Word \in Nat
    BY WordFacts DEF Registers
  <2>2. m * Word \in Nat /\ (count + 1) * Word \in Nat
    BY <2>1
  <2> QED
    BY <2>1, <2>2, SMTT(30)
<1> HIDE DEF rule
<1>4. ASSUME ~(start < AddrSpace) PROVE fast = Stop("IntegerOverflow", r)
  <2>1. checked_add(r.sp, rule.sp * Word) = Overflow
    BY <1>1, <1>4, SMTT(30) DEF checked_add
  <2> QED
    BY <1>2, <2>1 DEF exec_pop
<1>5. ASSUME start < AddrSpace
      PROVE  fast = IF stuck THEN Stop("CouldNotReadStack", [r EXCEPT !.bp = bp])
                    ELSE IF ~(new_sp < AddrSpace) THEN Stop("IntegerOverflow", [r EXCEPT !.bp = bp])
                    ELSE Finish(r, bp, new_sp, bp, stack, "checked")
  <2>1. checked_add(r.sp, rule.sp * Word) = start /\ start # Overflow
    BY <1>1, <1>3, <1>5 DEF checked_add, Overflow
  <2>2. checked_add(start, (rule.count + 1) * Word)
          = IF new_sp < AddrSpace THEN new_sp ELSE Overflow
    BY <1>1 DEF checked_add
  <2>3. new_sp # Overflow
    BY <1>3 DEF Overflow
  <2> DEFINE sum == checked_add(start, (rule.count + 1) * Word)
  <2>4. fast = IF stuck THEN Stop("CouldNotReadStack", [r EXCEPT !.bp = bp])
               ELSE IF sum = Overflow THEN Stop("IntegerOverflow", [r EXCEPT !.bp = bp])
               ELSE Finish(r, bp, sum, bp, stack, "checked")
    BY <1>1, <1>2, <2>1, SMTT(30) DEF exec_pop, Stuck, Popped, CanPop, Slot
  <2> HIDE DEF stuck, bp, sum, new_sp
  <2> QED
    BY <2>2, <2>3, <2>4 DEF sum
<1>6. Popped(stack, start, count) => bp = BpAfter(r, stack, start, b, count)
  <2> SUFFICES ASSUME Popped(stack, start, count) PROVE bp = BpAfter(r, stack, start, b, count)
    OBVIOUS
  <2>1. b <= count /\ \A i \in 1 .. b : i \in 1 .. count
    OBVIOUS
  <2>2. Popped(stack, start, b)
    BY <2>1 DEF Popped
  <2> QED
    BY <2>1, <2>2, SMTT(30) DEF BpAfter
<1> HIDE DEF bp
<1>7. start < AddrSpace => PopOutcome(fast, r, stack, start, count, b, bp)
  BY <1>5, <1>6, SMTT(30) DEF PopOutcome
<1> QED
  BY <1>4, <1>7, SMTT(30)

LEMMA RuleAgrees ==
    ASSUME NEW ops, AreOperations(ops), InWords(ops),
           NEW r \in Registers, NEW stack \in [Addresses -> Values], NEW first,
           NEW rule, rule = for_sequence_of_offset_or_pop(ops), rule # NoRule
    PROVE  Agree(exec(rule, first, r, stack, "checked"), resolve(ops, r, stack, "checked"), r.ip)
<1> DEFINE fast == exec(rule, first, r, stack, "checked")
           slow == resolve(ops, r, stack, "checked")
           n == Len(ops)
<1>1. PICK f : Resolves(ops, r, stack, "checked", f)
  BY ResolveRun
<1>2. PICK skip, m, b : Stands(rule, ops, skip, m, b)
  BY RuleShape
<1> DEFINE start == r.sp + m * Word
           count == n - skip
           c == f[n]
           end == start + count * Word
<1>3. slow = Return(c, stack, "checked")
  <2>1. Resolve(ops, r, stack, "checked") = {Return(c, stack, "checked")}
    BY <1>1, SMTT(30) DEF Resolves
  <2> QED
    BY <2>1 DEF resolve
<1>4. m \in Nat /\ count \in Nat /\ b \in 0 .. count /\ b \in Nat
  <2>1. m \in UOffsets /\ count \in 0 .. n /\ b \in 0 .. count /\ n \in Nat
    BY <1>2, SMTT(30) DEF Stands, AreOperations
  <2> QED
    BY <2>1, OffsetsAssumption, SMTT(30)
<1>5. /\ start \in Nat
      /\ start < AddrSpace => PopsTo(c, r, stack, start, b, count)
      /\ ~(start < AddrSpace) => c.status = "Panic"
  BY <1>1, <1>2, OperationsRun, SMTT(30)
<1>6. r.sp \in Nat /\ r.sp < AddrSpace /\ Word \in Nat
  BY WordFacts DEF Registers
<1>7. \/ rule = JustReturn /\ count = 0 /\ m = 0
      \/ rule = PopRule(m, count, b)
  BY <1>2 DEF Stands
<1> HIDE DEF start, count, c, slow, n
<1>8. ASSUME c.status \notin {"Run", "Done"}, fast.result # "Some" PROVE Agree(fast, slow, r.ip)
  BY <1>3, <1>8, SMTT(30) DEF Return, Agree
<1>9. ASSUME start < AddrSpace, Popped(stack, start, count)
      PROVE  /\ end \in Addresses
             /\ c = [status |-> "Run", ra |-> 0,
                     regs |-> [ip |-> r.ip, sp |-> end, bp |-> BpAfter(r, stack, start, b, count)]]
  <2>1. start \in Addresses
    BY <1>5, <1>9, WordFacts, SMTT(30) DEF Addresses
  <2> QED
    BY <1>4, <1>5, <1>9, <2>1, SlotTyped DEF PopsTo, After
<1>10. CASE rule = JustReturn /\ count = 0 /\ m = 0
  <2>1. start = r.sp /\ end = r.sp
    BY <1>6, <1>10, SMTT(30) DEF start
  <2>2. Popped(stack, start, count)
    BY <1>10 DEF Popped
  <2>3. BpAfter(r, stack, start, b, count) = r.bp
    BY <1>4, <1>10, SMTT(30) DEF BpAfter
  <2>4. /\ end \in Addresses
        /\ c = [status |-> "Run", ra |-> 0, regs |-> [ip |-> r.ip, sp |-> end, bp |-> r.bp]]
    BY <1>6, <1>9, <2>1, <2>2, <2>3, SMTT(30)
  <2>5. fast = exec_offset(JustReturn, r, stack, "checked")
    BY <1>10 DEF exec, JustReturn, Rule
  <2>6. checked_add(r.sp, JustReturn.sp * Word)
          = IF r.sp + Word < AddrSpace THEN r.sp + Word ELSE Overflow
    BY <1>6 DEF checked_add, JustReturn, Rule
  <2>7. r.sp + Word # Overflow
    BY <1>6 DEF Overflow
  <2>8. fast = IF r.sp + Word < AddrSpace
               THEN Finish(r, r.bp, r.sp + Word, r.bp, stack, "checked")
               ELSE Stop("IntegerOverflow", r)
    BY <2>5, <2>6, <2>7 DEF exec_offset
  <2> HIDE DEF fast, end
  <2>9. fast = IF end + Word < AddrSpace
               THEN Finish(r, r.bp, end + Word, r.bp, stack, "checked")
               ELSE Stop("IntegerOverflow", r)
    BY <2>1, <2>8, SMTT(30)
  <2>10. Agree(fast, Return(c, stack, "checked"), r.ip)
    BY <2>4, <2>9, ReturnAgrees, SMTT(30)
  <2> QED
    BY <1>3, <2>10, SMTT(30) DEF fast, slow
<1>11. CASE rule = PopRule(m, count, b)
  <2>1. fast = exec(PopRule(m, count, b), first, r, stack, "checked")
    BY <1>11, SMTT(30)
  <2>2. CASE ~(start < AddrSpace)
    <3>1. fast = Stop("IntegerOverflow", r)
      BY <1>4, <2>1, <2>2, PopRuleIs DEF start
    <3>2. fast.result # "Some" /\ c.status \notin {"Run", "Done"}
      BY <1>5, <2>2, <3>1, SMTT(30) DEF Stop
    <3> QED
      BY <1>8, <3>2 DEF slow
  <2>3. CASE start < AddrSpace
    <3> DEFINE stuck == Stuck(stack, start, count)
               top == start + (count + 1) * Word
    <3>1. PICK bp : PopOutcome(fast, r, stack, start, count, b, bp)
      <4> HIDE DEF fast
      <4> QED
        BY <1>4, <2>1, <2>3, PopRuleIs, SMTT(30) DEF start
    <3>2. start \in Addresses
      BY <1>5, <2>3, WordFacts, SMTT(30) DEF Addresses
    <3>3. top = end + Word
      <4>1. (count + 1) * Word = count * Word + Word /\ count * Word \in Nat
        BY <1>4, <1>6, SMTT(30)
      <4> QED
        BY <1>5, <1>6, <4>1, SMTT(30)
    <3>4. CASE Popped(stack, start, count)
      <4>1. ~stuck
        BY <3>4 DEF Stuck, Popped, CanPop
      <4>2. bp = BpAfter(r, stack, start, b, count)
        BY <3>1, <3>4 DEF PopOutcome
      <4>3. fast = IF top < AddrSpace THEN Finish(r, bp, top, bp, stack, "checked")
                   ELSE Stop("IntegerOverflow", [r EXCEPT !.bp = bp])
        BY <3>1, <4>1, SMTT(30) DEF PopOutcome
      <4> HIDE DEF fast, end, top, stuck
      <4>4. /\ end \in Addresses
            /\ c = [status |-> "Run", ra |-> 0, regs |-> [ip |-> r.ip, sp |-> end, bp |-> bp]]
        BY <1>9, <2>3, <3>4, <4>2, SMTT(30)
      <4>5. fast = IF end + Word < AddrSpace THEN Finish(r, bp, end + Word, bp, stack, "checked")
                   ELSE Stop("IntegerOverflow", [r EXCEPT !.bp = bp])
        BY <3>3, <4>3, SMTT(30)
      <4>6. Agree(fast, Return(c, stack, "checked"), r.ip)
        BY <4>4, <4>5, ReturnAgrees, SMTT(30)
      <4> QED
        BY <1>3, <4>6 DEF fast, slow
    <3>5. CASE ~Popped(stack, start, count)
      <4>1. c.status \in {"Missing", "Panic"}
        BY <1>5, <2>3, <3>5, SMTT(30) DEF PopsTo
      <4>2. stuck \/ ~(top < AddrSpace)
        BY <1>4, <3>2, <3>5, UnreadableStops DEF Stuck
      <4>3. fast.result # "Some"
        <5> HIDE DEF fast
        <5> QED
          BY <3>1, <4>2, SMTT(30) DEF PopOutcome, Stop
      <4> QED
        BY <1>8, <4>1, <4>3, SMTT(30) DEF slow
    <3> QED
      BY <3>4, <3>5, SMTT(30)
  <2> QED
    BY <2>2, <2>3
<1> QED
  BY <1>7, <1>10, <1>11, SMTT(30)

-----------------------------------------------------------------------------
(***************************************************************************)
(* Walks by PE operations.                                                 *)
(***************************************************************************)
IsOutcome(o) ==
    /\ o.result \in {"Some", "None"} \cup Errors
    /\ o.address \in Addresses /\ o.regs \in Registers

LEMMA ListsAreOperations == ASSUME NEW ops \in OperationLists PROVE AreOperations(ops)
  BY OperationsAssumption, SMTT(30) DEF AreOperations, IsOperation

LEMMA SequenceRules ==
    ASSUME NEW ops, AreOperations(ops), NEW rule, rule = for_sequence_of_offset_or_pop(ops),
           rule # NoRule
    PROVE  rule \in UnwindRuleX86_64
<1>1. PICK skip, m, b : Stands(rule, ops, skip, m, b)
  BY RuleShape, SMTT(30)
<1> DEFINE count == Len(ops) - skip
<1>2. CASE rule = JustReturn
  BY <1>2, OffsetsAssumption DEF JustReturn, UnwindRuleX86_64
<1>3. CASE rule = PopRule(m, count, b) /\ count <= RegisterCount
  <2>1. /\ m \in UOffsets /\ count \in 0 .. Len(ops) /\ b \in 0 .. count /\ Len(ops) \in Nat
        /\ MaxPops = RegisterCount /\ MaxPops \in Nat
    BY <1>1, PeAssumption, OffsetsAssumption DEF Stands, AreOperations
  <2> HIDE DEF count
  <2>2. count \in 0 .. MaxPops /\ b \in 0 .. MaxPops /\ b <= count
    BY <1>3, <2>1
  <2>3. /\ rule \in [kind : {"OffsetSpAndPopRegisters"}, sp : UOffsets, bp : {0},
                     count : 0 .. MaxPops, bp_index : 0 .. MaxPops]
        /\ rule.bp_index <= rule.count
    BY <1>3, <2>1, <2>2 DEF PopRule
  <2> QED
    BY <2>3, SMTT(30) DEF UnwindRuleX86_64
<1> QED
  BY <1>1, <1>2, <1>3, SMTT(30) DEF Stands

LEMMA ExecIsOutcome ==
    ASSUME TypeOK, NEW rule \in UnwindRuleX86_64, NEW build, NEW r \in Registers
    PROVE  IsOutcome(exec(rule, is_first_frame, r, memory, build))
<1>1. memory \in [Addresses -> Values]
  BY DEF TypeOK
<1>2. RuleSound(exec(rule, frame.kind = "InstructionPointer", r, memory, build), frame.kind, r, memory)
  BY <1>1, ExecSound, SMTT(30)
<1> QED
  BY <1>2, ZenonT(30) DEF is_first_frame, RuleSound, Sound, IsOutcome

LEMMA OutcomeStep ==
    ASSUME TypeOK, NEW o, IsOutcome(o), next_unwinding(o), UNCHANGED memory
    PROVE  TypeOK'
<1> USE DEF TypeOK
<1>1. state = "Unwinding" /\ regs' \in Registers
  BY DEF next_unwinding, IsOutcome
<1>2. CASE /\ o.result = "Some" /\ o.address # 0
           /\ frame' = [kind |-> "ReturnAddress", address |-> o.address]
           /\ result' = "Some" /\ frames' = frames + 1 /\ UNCHANGED state
  BY <1>1, <1>2, SMTT(30) DEF IsOutcome, IteratorResults
<1>3. CASE /\ result' \in {"None"} \cup Errors
           /\ state' \in {state, "Done"} /\ UNCHANGED <<frame, frames>>
  BY <1>1, <1>3, Zenon DEF IteratorResults
<1> QED
  BY <1>2, <1>3 DEF next_unwinding, Errors

LEMMA StepsStep ==
    ASSUME TypeOK, NEW ops, AreOperations(ops), NEW build, unwind_by_steps(ops, build),
           UNCHANGED memory
    PROVE  TypeOK'
<1>1. regs \in Registers /\ memory \in [Addresses -> Values]
  BY DEF TypeOK
<1>2. PICK f : Resolves(ops, regs, memory, build, f)
  BY <1>1, ResolveRun
<1> DEFINE c == Return(f[Len(ops)], memory, build)
<1>3. f[Len(ops)] \in Configurations
  <2>1. Len(ops) \in 0 .. Len(ops)
    BY DEF AreOperations
  <2> QED
    BY <1>2, <2>1, SMTT(30) DEF Resolves
<1>4. c \in Configurations
  BY <1>1, <1>3, ReturnTyped, SMTT(30)
<1>5. Resolve(ops, regs, memory, build) = {c}
  BY <1>2 DEF Resolves
<1> HIDE DEF c
<1>6. c.regs \in Registers /\ c.ra \in Addresses
  BY <1>4, SMTT(30) DEF Configurations
<1>7. \/ next_unwinding(Unwound(c.ra, c.regs))
      \/ next_unwinding(exec(fallback_rule, is_first_frame, c.regs, memory, build))
      \/ next_unwinding(Stop("Panic", c.regs))
  BY <1>5, SMTT(30) DEF unwind_by_steps
<1>8. IsOutcome(Unwound(c.ra, c.regs))
  BY <1>6, SMTT(30) DEF Unwound, IsOutcome
<1>9. IsOutcome(Stop("Panic", c.regs))
  <2>1. 0 \in Addresses
    BY WordFacts, SMTT(30) DEF Addresses
  <2> QED
    BY <1>6, <2>1, SMTT(30) DEF Stop, IsOutcome, Errors
<1>10. IsOutcome(exec(fallback_rule, is_first_frame, c.regs, memory, build))
  <2>1. fallback_rule \in UnwindRuleX86_64
    BY DEF fallback_rule, UnwindRuleX86_64
  <2> QED
    BY <1>6, <2>1, ExecIsOutcome
<1> QED
  BY <1>7, <1>8, <1>9, <1>10, OutcomeStep, SMTT(30)

LEMMA PeStep == ASSUME TypeOK, [NextByPe]_vars PROVE TypeOK'
<1>1. CASE (next_initial \/ next_done) /\ UNCHANGED memory
  BY <1>1, SMTT(30) DEF TypeOK, next_initial, next_done, IteratorResults
<1>2. ASSUME NEW rule \in UnwindRuleX86_64, NEW build, unwind_by(rule, build), UNCHANGED memory
      PROVE  TypeOK'
  <2>1. IsOutcome(exec(rule, is_first_frame, regs, memory, build))
    BY ExecIsOutcome, SMTT(30) DEF TypeOK
  <2> QED
    BY <1>2, <2>1, OutcomeStep, Zenon DEF unwind_by
<1>3. ASSUME NEW ops \in OperationLists, NEW build,
             unwind_frame(for_sequence_of_offset_or_pop(ops), ops, build), UNCHANGED memory
      PROVE  TypeOK'
  <2> DEFINE rule == for_sequence_of_offset_or_pop(ops)
  <2>1. AreOperations(ops)
    BY ListsAreOperations, SMTT(30)
  <2>2. rule # NoRule => rule \in UnwindRuleX86_64
    BY <2>1, SequenceRules
  <2>3. \/ rule # NoRule /\ unwind_by(rule, build)
        \/ unwind_by_steps(ops, build)
    BY <1>3, SMTT(30) DEF unwind_frame
  <2> HIDE DEF rule
  <2> QED
    BY <1>2, <1>3, <2>1, <2>2, <2>3, StepsStep, SMTT(30)
<1>4. JustReturn \in UnwindRuleX86_64 /\ fallback_rule \in UnwindRuleX86_64
  BY OffsetsAssumption, SMTT(30) DEF JustReturn, fallback_rule, UnwindRuleX86_64
<1>5. CASE UNCHANGED vars
  BY <1>5, SMTT(30) DEF vars, TypeOK
<1> QED
  BY <1>1, <1>2, <1>3, <1>4, <1>5, SMTT(30) DEF NextByPe

(***************************************************************************)
(* Every walk of an x86_64 stack by PE operations stays within its types:  *)
(* what carrying out operations one by one puts into the registers was     *)
(* read from the stack, or is a sum of the registers' width.               *)
(***************************************************************************)
THEOREM PeWalksAreTyped == SpecByPe => []TypeOK
<1>1. Init => TypeOK
  BY TypedInit, SMTT(30) DEF StateTyped
<1> QED
  BY <1>1, PeStep, PTL DEF SpecByPe

LEMMA TypedRuleIsSequence == ASSUME TypeOK PROVE RuleIsSequence
<1>1. regs \in Registers /\ memory \in [Addresses -> Values]
  BY DEF TypeOK
<1> SUFFICES ASSUME NEW ops \in OperationLists, \A i \in DOMAIN ops : ops[i].bytes % Word = 0,
                    for_sequence_of_offset_or_pop(ops) # NoRule
             PROVE  Agree(exec(for_sequence_of_offset_or_pop(ops), is_first_frame, regs, memory,
                               "checked"),
                          resolve(ops, regs, memory, "checked"), regs.ip)
  BY DEF RuleIsSequence, Agree
<1>2. AreOperations(ops) /\ InWords(ops)
  BY ListsAreOperations DEF InWords
<1> QED
  BY <1>1, <1>2, RuleAgrees, SMTT(30)

(***************************************************************************)
(* A rule stands for its operations on every walk: when the rule that      *)
(* for_sequence_of_offset_or_pop makes of a list unwinds a frame, carrying *)
(* the list out leads to the same return address, stack pointer and bp;    *)
(* when the list leads to a return address, so does the rule, or it finds  *)
(* the end of the stack or a frame that repeats.  For every list of        *)
(* operations, every order of pops and every stack.                        *)
(***************************************************************************)
THEOREM RulesAreSequences == SpecByPe => []RuleIsSequence
<1>1. TypeOK => RuleIsSequence
  BY TypedRuleIsSequence, SMTT(30)
<1> QED
  BY <1>1, PeWalksAreTyped, PTL

=============================================================================
