----------------------- MODULE RegisterOrderingProofs -----------------------
(***************************************************************************)
(* Proofs about the encoding of pops, for every set of callee-saved        *)
(* registers whose orders can be counted in the bits of the encoding.      *)
(***************************************************************************)
EXTENDS PopRegisters, FiniteSetTheorems, WellFoundedInduction, TLAPS

-----------------------------------------------------------------------------
(***************************************************************************)
(* Induction over a range of numbers, for a set.                           *)
(***************************************************************************)
LEMMA Reaches ==
    ASSUME NEW n \in Nat, NEW T \in SUBSET (0 .. n), 0 \in T,
           \A k \in T : k < n => k + 1 \in T
    PROVE  \A k \in 0 .. n : k \in T
<1> DEFINE S == 0 .. n
           R == StrictSubsetOrdering(S)
           missing == S \ T
           upto == {0 .. m : m \in missing}
<1> SUFFICES ASSUME missing # {} PROVE FALSE
  OBVIOUS
<1>1. IsFiniteSet(S)
  BY FS_Interval
<1>2. IsWellFoundedOn(R, SUBSET S)
  <2> HIDE DEF S
  <2> QED
    BY <1>1, FS_StrictSubsetOrderingWellFounded, FS_FiniteSubsetsOfFinite, ZenonT(30)
<1>3. upto \subseteq SUBSET S /\ upto # {}
  <2>1. \A m \in missing : 0 .. m \subseteq S
    OBVIOUS
  <2> HIDE DEF S, missing
  <2> QED
    BY <2>1, ZenonT(30)
<1>4. PICK x \in upto : \A y \in upto : <<y, x>> \notin R
  <2> HIDE DEF S, R, upto
  <2> QED
    BY <1>2, <1>3, WFMin
<1>5. PICK m \in missing : x = 0 .. m
  OBVIOUS
<1>6. m - 1 \in missing
  OBVIOUS
<1>7. 0 .. m - 1 \subseteq 0 .. m /\ m \in 0 .. m /\ m \notin 0 .. m - 1
  OBVIOUS
<1>8. <<0 .. m - 1, 0 .. m>> \in R
  BY <1>7, <1>6 DEF StrictSubsetOrdering
<1> QED
  BY <1>4, <1>5, <1>6, <1>8, ZenonT(30)

LEMMA MaxIs ==
    ASSUME NEW s \in SUBSET Int, NEW m \in s, \A y \in s : m >= y
    PROVE  Max(s) = m
<1>1. \A x \in s : (\A y \in s : x >= y) => x = m
  OBVIOUS
<1> QED
  BY <1>1, ZenonT(30) DEF Max

(***************************************************************************)
(* A fold has a result: the function that it is defined by exists when the *)
(* step function has a domain that the steps do not leave.                 *)
(***************************************************************************)
FoldsBy(step, base, seq, n, G) ==
    \A s \in SUBSET (1 .. n) :
        G[s] = IF s = {} THEN base ELSE step[<<G[s \ {Max(s)}], seq[Max(s)]>>]

LEMMA FoldExists ==
    ASSUME NEW S, NEW D, NEW step \in [S \X D -> S], NEW base \in S,
           NEW n \in Nat, NEW seq \in [1 .. n -> D]
    PROVE  \E G \in [SUBSET (1 .. n) -> S] : FoldsBy(step, base, seq, n, G)
<1> DEFINE Ok(k) == \E G \in [SUBSET (1 .. k) -> S] : FoldsBy(step, base, seq, k, G)
           T == {k \in 0 .. n : Ok(k)}
<1>1. Ok(0)
  <2> DEFINE G == [s \in SUBSET (1 .. 0) |-> base]
  <2>1. \A s \in SUBSET (1 .. 0) : s = {}
    OBVIOUS
  <2>2. G \in [SUBSET (1 .. 0) -> S] /\ FoldsBy(step, base, seq, 0, G)
    BY <2>1 DEF FoldsBy
  <2> QED
    BY <2>2, ZenonT(30)
<1>2. ASSUME NEW k \in T, k < n PROVE Ok(k + 1)
  <2>1. PICK G \in [SUBSET (1 .. k) -> S] : FoldsBy(step, base, seq, k, G)
    BY <1>2, ZenonT(30)
  <2> DEFINE Extended(s) == step[<<G[s \ {k + 1}], seq[k + 1]>>]
             H == [s \in SUBSET (1 .. k + 1) |-> IF k + 1 \in s THEN Extended(s) ELSE G[s]]
  <2>2. k \in Nat /\ k + 1 \in 1 .. n
    BY <1>2
  <2>3. \A s \in SUBSET (1 .. k + 1) : /\ s \ {k + 1} \in SUBSET (1 .. k)
                                       /\ k + 1 \notin s => s \in SUBSET (1 .. k)
    BY <2>2
  <2>4. \A s \in SUBSET (1 .. k + 1) : k + 1 \in s => Max(s) = k + 1
    <3> SUFFICES ASSUME NEW s \in SUBSET (1 .. k + 1), k + 1 \in s PROVE Max(s) = k + 1
      OBVIOUS
    <3>1. s \in SUBSET Int /\ \A y \in s : k + 1 >= y
      BY <2>2
    <3> QED
      BY <3>1, MaxIs
  <2>5. \A s \in SUBSET (1 .. k + 1) : Extended(s) \in S
    BY <2>2, <2>3
  <2>6. H \in [SUBSET (1 .. k + 1) -> S]
    BY <2>3, <2>5
  <2>7. ASSUME NEW s \in SUBSET (1 .. k + 1)
        PROVE  H[s] = IF s = {} THEN base ELSE step[<<H[s \ {Max(s)}], seq[Max(s)]>>]
    <3>1. CASE k + 1 \in s
      <4>1. H[s] = step[<<G[s \ {k + 1}], seq[k + 1]>>]
        BY <3>1
      <4>2. H[s \ {k + 1}] = G[s \ {k + 1}]
        BY <2>3
      <4> QED
        BY <3>1, <4>1, <4>2, <2>4, ZenonT(30)
    <3>2. CASE k + 1 \notin s
      <4>1. s \in SUBSET (1 .. k) /\ s \ {Max(s)} \in SUBSET (1 .. k + 1)
        BY <3>2, <2>3, ZenonT(30)
      <4>2. H[s] = G[s] /\ H[s \ {Max(s)}] = G[s \ {Max(s)}]
        BY <3>2, <4>1
      <4> QED
        BY <2>1, <4>1, <4>2, ZenonT(30) DEF FoldsBy
    <3> QED
      BY <3>1, <3>2
  <2> QED
    BY <2>6, <2>7, ZenonT(30) DEF FoldsBy
<1> HIDE DEF Ok
<1>3. \A k \in T : k < n => k + 1 \in T
  BY <1>2
<1>4. T \in SUBSET (0 .. n) /\ 0 \in T
  BY <1>1
<1>5. \A k \in 0 .. n : k \in T
  <2> HIDE DEF T
  <2> QED
    BY <1>3, <1>4, Reaches, ZenonT(30)
<1>6. Ok(n)
  BY <1>5
<1> QED
  BY <1>6 DEF Ok

\* The sets that a fold over a sequence passes through.
LEMMA FoldPrefix ==
    ASSUME NEW n \in Nat, NEW k \in 1 .. n
    PROVE  /\ 1 .. k \in SUBSET (1 .. n) /\ 1 .. k # {}
           /\ Max(1 .. k) = k /\ (1 .. k) \ {k} = 1 .. k - 1
<1>1. Max(1 .. k) = k
  <2>1. 1 .. k \in SUBSET Int /\ k \in 1 .. k /\ \A y \in 1 .. k : k >= y
    OBVIOUS
  <2> DEFINE s == 1 .. k
  <2>2. s \in SUBSET Int /\ k \in s /\ \A y \in s : k >= y
    BY <2>1
  <2> HIDE DEF s
  <2>3. Max(s) = k
    BY <2>2, MaxIs
  <2> QED
    BY <2>3 DEF s
<1>2. (1 .. k) \ {k} = 1 .. k - 1
  OBVIOUS
<1>3. 1 .. k \in SUBSET (1 .. n) /\ k \in 1 .. k
  OBVIOUS
<1> HIDE DEF Max
<1> QED
  BY <1>1, <1>2, <1>3

LEMMA Greatest ==
    ASSUME NEW n \in Nat, NEW s \in SUBSET (1 .. n), s # {}
    PROVE  Max(s) \in s
<1> DEFINE HasGreatest(u) == \E m \in u : \A y \in u : m >= y
           Ok(k) == \A u \in SUBSET (1 .. k) : u # {} => HasGreatest(u)
           T == {k \in 0 .. n : Ok(k)}
<1>1. Ok(0)
  <2>1. \A u \in SUBSET (1 .. 0) : u = {}
    OBVIOUS
  <2> HIDE DEF HasGreatest
  <2> QED
    BY <2>1, ZenonT(30)
<1>2. ASSUME NEW k \in T, k < n PROVE Ok(k + 1)
  <2> SUFFICES ASSUME NEW u \in SUBSET (1 .. k + 1), u # {} PROVE HasGreatest(u)
    OBVIOUS
  <2>1. CASE k + 1 \in u
    BY <2>1
  <2>2. CASE k + 1 \notin u
    <3>1. u \in SUBSET (1 .. k)
      BY <2>2
    <3> QED
      BY <3>1
  <2> QED
    BY <2>1, <2>2
<1> HIDE DEF Ok
<1>3. T \in SUBSET (0 .. n) /\ 0 \in T /\ \A k \in T : k < n => k + 1 \in T
  BY <1>1, <1>2
<1>4. \A k \in 0 .. n : k \in T
  <2> HIDE DEF T
  <2> QED
    BY <1>3, Reaches
<1>5. Ok(n)
  BY <1>4
<1>6. HasGreatest(s)
  BY <1>5 DEF Ok
<1> QED
  BY <1>6, ZenonT(30) DEF Max

LEMMA RunTyped ==
    ASSUME NEW S, NEW n \in Nat, NEW f, f = [k \in 0 .. n |-> f[k]], f[0] \in S,
           \A k \in 1 .. n : f[k - 1] \in S => f[k] \in S
    PROVE  f \in [0 .. n -> S]
<1> DEFINE T == {k \in 0 .. n : f[k] \in S}
<1>1. T \in SUBSET (0 .. n) /\ 0 \in T
  OBVIOUS
<1>2. ASSUME NEW k \in T, k < n PROVE k + 1 \in T
  <2>1. k + 1 \in 0 .. n /\ k + 1 \in 1 .. n /\ (k + 1) - 1 = k /\ f[k] \in S
    BY <1>2
  <2>2. f[k + 1] \in S
    BY <2>1, ZenonT(30)
  <2> QED
    BY <2>1, <2>2
<1>3. \A k \in 0 .. n : k \in T
  <2> HIDE DEF T
  <2> QED
    BY <1>1, <1>2, Reaches
<1> QED
  BY <1>3

Runs(step, base, seq, n, f) ==
    f[0] = base /\ \A k \in 1 .. n : f[k] = step[<<f[k - 1], seq[k]>>]

LEMMA RunExists ==
    ASSUME NEW S, NEW D, NEW step \in [S \X D -> S], NEW base \in S,
           NEW n \in Nat, NEW seq \in [1 .. n -> D]
    PROVE  \E f \in [0 .. n -> S] : Runs(step, base, seq, n, f)
<1>1. PICK G \in [SUBSET (1 .. n) -> S] : FoldsBy(step, base, seq, n, G)
  BY FoldExists, ZenonT(30)
<1> DEFINE f == [k \in 0 .. n |-> G[1 .. k]]
<1>2. \A k \in 0 .. n : 1 .. k \in SUBSET (1 .. n)
  OBVIOUS
<1>3. f \in [0 .. n -> S]
  BY <1>2
<1>4. f[0] = base
  <2>1. 1 .. 0 = {} /\ {} \in SUBSET (1 .. n)
    OBVIOUS
  <2>2. G[{}] = base
    BY <1>1, <2>1, ZenonT(30) DEF FoldsBy
  <2>3. f[0] = G[1 .. 0]
    OBVIOUS
  <2> QED
    BY <2>1, <2>2, <2>3
<1>5. ASSUME NEW k \in 1 .. n PROVE f[k] = step[<<f[k - 1], seq[k]>>]
  <2> DEFINE s == 1 .. k
  <2>1. s \in SUBSET (1 .. n) /\ s # {} /\ Max(s) = k /\ s \ {k} = 1 .. k - 1
    BY FoldPrefix
  <2>2. f[k] = G[s] /\ f[k - 1] = G[1 .. k - 1]
    OBVIOUS
  <2> HIDE DEF s, f
  <2>3. G[s] = step[<<G[s \ {Max(s)}], seq[Max(s)]>>]
    BY <1>1, <2>1, Zenon DEF FoldsBy
  <2> QED
    BY <2>1, <2>2, <2>3, ZenonT(30)
<1> HIDE DEF f
<1> QED
  BY <1>3, <1>4, <1>5 DEF Runs

-----------------------------------------------------------------------------
(***************************************************************************)
(* The loop of encode, as the states before and after its rounds.          *)
(***************************************************************************)
Count == RegisterCount
CalleeSaved == ToSet(ENCODE_REGISTERS)
Encodings == [order : [1 .. Count -> CalleeSaved], count : Nat, r : Nat, scale : Nat,
              fails : {"yes", "no"}]

Round(e, reg) == IF e.fails = "yes" THEN e ELSE EncodeNext(e, reg)

Start(registers) ==
    [order |-> ENCODE_REGISTERS, count |-> 0, r |-> 0, scale |-> 1,
     fails |-> IF Len(registers) > RegisterCount THEN "yes" ELSE "no"]

LEMMA OrderingFacts ==
    /\ Count \in Nat /\ Digits \in Nat
    /\ ENCODE_REGISTERS \in [1 .. Count -> CalleeSaved]
    /\ \A a, b \in 1 .. Count : ENCODE_REGISTERS[a] = ENCODE_REGISTERS[b] => a = b
    /\ \A x \in CalleeSaved : \E i \in 1 .. Count : ENCODE_REGISTERS[i] = x
<1>1. ENCODE_REGISTERS \in Seq(CalleeSaved) /\ IsInjective(ENCODE_REGISTERS) /\ Digits \in Nat
  BY OrderingAssumption DEF CalleeSaved
<1>2. Count \in Nat /\ ENCODE_REGISTERS \in [1 .. Count -> CalleeSaved]
  BY <1>1 DEF Count, RegisterCount
<1>3. DOMAIN ENCODE_REGISTERS = 1 .. Count
  BY <1>2
<1>4. \A x \in CalleeSaved : \E i \in 1 .. Count : ENCODE_REGISTERS[i] = x
  BY <1>3 DEF CalleeSaved, ToSet
<1> QED
  BY <1>1, <1>2, <1>3, <1>4 DEF IsInjective

(***************************************************************************)
(* The scales of the digits: each divides the next one, and none exceeds   *)
(* what a number holds.                                                    *)
(***************************************************************************)
LEMMA OrdersRun ==
    /\ Orders \in [0 .. Count -> Nat]
    /\ Orders[0] = 1
    /\ \A k \in 1 .. Count : Orders[k] = Orders[k - 1] * (Count - (k - 1))
<1> DEFINE step == [p \in Nat \X Nat |-> p[1] * p[2]]
           seq == [k \in 1 .. Count |-> Count - (k - 1)]
           Is(f) == f = [k \in 0 .. Count |->
                           IF k = 0 THEN 1 ELSE f[k - 1] * (Count - (k - 1))]
<1>1. step \in [Nat \X Nat -> Nat] /\ seq \in [1 .. Count -> Nat]
  BY OrderingFacts
<1>2. PICK f \in [0 .. Count -> Nat] : Runs(step, 1, seq, Count, f)
  <2>1. Count \in Nat /\ 1 \in Nat
    BY OrderingFacts
  <2> HIDE DEF step, seq
  <2> QED
    BY <1>1, <2>1, RunExists, ZenonT(30)
<1>3. ASSUME NEW k \in 1 .. Count PROVE f[k] = f[k - 1] * (Count - (k - 1))
  <2>1. f[k - 1] \in Nat /\ seq[k] \in Nat /\ seq[k] = Count - (k - 1)
    BY <1>1, OrderingFacts
  <2> QED
    BY <1>2, <2>1, ZenonT(30) DEF Runs
<1>4. Is(f)
  <2>1. ASSUME NEW k \in 0 .. Count
        PROVE  f[k] = IF k = 0 THEN 1 ELSE f[k - 1] * (Count - (k - 1))
    <3>1. k = 0 \/ k \in 1 .. Count
      BY OrderingFacts
    <3> QED
      BY <1>2, <1>3, <3>1 DEF Runs
  <2> QED
    BY <2>1
<1>5. Is(Orders)
  <2>1. Orders = CHOOSE g : Is(g)
    BY DEF Orders, Count
  <2> HIDE DEF Is
  <2> QED
    BY <1>4, <2>1
<1> DEFINE T == {k \in 0 .. Count : Orders[k] \in Nat}
<1>6. /\ Orders[0] = 1
      /\ \A k \in 1 .. Count : Orders[k] = Orders[k - 1] * (Count - (k - 1))
      /\ DOMAIN Orders = 0 .. Count
  <2>1. \A k \in 1 .. Count : k \in 0 .. Count /\ k # 0
    BY OrderingFacts
  <2>2. 0 \in 0 .. Count
    BY OrderingFacts
  <2> DEFINE F(f_, k) == IF k = 0 THEN 1 ELSE f_[k - 1] * (Count - (k - 1))
  <2>3. DOMAIN Orders = 0 .. Count /\ \A k \in 0 .. Count : Orders[k] = F(Orders, k)
    <3> HIDE DEF F
    <3>1. Orders = [k \in 0 .. Count |-> F(Orders, k)]
      BY <1>5, ZenonT(30) DEF F
    <3> QED
      BY <3>1, ZenonT(30)
  <2> QED
    BY <2>1, <2>2, <2>3
<1>7. T \in SUBSET (0 .. Count) /\ 0 \in T
  BY <1>6, OrderingFacts
<1>8. \A k \in T : k < Count => k + 1 \in T
  <2> SUFFICES ASSUME NEW k \in T, k < Count PROVE Orders[k + 1] \in Nat /\ k + 1 \in 0 .. Count
    OBVIOUS
  <2>1. k + 1 \in 1 .. Count /\ (k + 1) - 1 = k /\ Count - k \in Nat
    BY OrderingFacts
  <2>2. Orders[k + 1] = Orders[k] * (Count - k)
    BY <1>6, <2>1
  <2> QED
    BY <2>1, <2>2
<1>9. \A k \in 0 .. Count : k \in T
  <2> HIDE DEF T
  <2> QED
    BY <1>7, <1>8, Reaches, OrderingFacts, ZenonT(30)
<1>10. Orders = [k \in 0 .. Count |-> Orders[k]]
  BY <1>5
<1>11. Orders \in [0 .. Count -> Nat]
  BY <1>9, <1>10
<1> QED
  BY <1>6, <1>11

LEMMA OrdersDivide ==
    ASSUME NEW c \in 0 .. Count
    PROVE  \A j \in 0 .. c : \E z \in Nat \ {0} : Orders[c] = Orders[j] * z
<1> DEFINE Ok(k) == \A j \in 0 .. k : \E z \in Nat \ {0} : Orders[k] = Orders[j] * z
           T == {k \in 0 .. Count : Ok(k)}
<1>1. Count \in Nat /\ \A k \in 0 .. Count : Orders[k] \in Nat
  BY OrderingFacts, OrdersRun
<1>2. Ok(0)
  BY <1>1, OrdersRun
<1>3. ASSUME NEW k \in T, k < Count PROVE Ok(k + 1)
  <2>1. k + 1 \in 1 .. Count /\ (k + 1) - 1 = k /\ Count - k \in Nat \ {0} /\ k \in 0 .. Count
    BY <1>1, <1>3
  <2>2. Orders[k + 1] = Orders[k] * (Count - k)
    BY <2>1, OrdersRun
  <2>3. ASSUME NEW j \in 0 .. k + 1 PROVE \E z \in Nat \ {0} : Orders[k + 1] = Orders[j] * z
    <3>1. CASE j = k + 1
      <4>1. Orders[j] \in Nat /\ Orders[k + 1] = Orders[j] * 1
        BY <1>1, <2>1, <3>1
      <4> QED
        BY <4>1
    <3>2. CASE j \in 0 .. k
      <4>1. PICK z \in Nat \ {0} : Orders[k] = Orders[j] * z
        BY <1>3, <3>2
      <4>2. \A a, x, y \in Nat : (a * x) * y = a * (x * y)
        OBVIOUS
      <4>3. \A x, y \in Nat \ {0} : x * y \in Nat \ {0}
        OBVIOUS
      <4>4. j \in 0 .. Count /\ Orders[j] \in Nat
        BY <1>1, <2>1, <3>2
      <4>5. Orders[k + 1] = Orders[j] * (z * (Count - k))
        BY <4>1, <4>2, <4>4, <2>1, <2>2
      <4> QED
        BY <4>3, <4>5, <2>1
    <3> QED
      BY <2>1, <3>1, <3>2
  <2> QED
    BY <2>3
<1> HIDE DEF Ok
<1>4. T \in SUBSET (0 .. Count) /\ 0 \in T /\ \A k \in T : k < Count => k + 1 \in T
  BY <1>1, <1>2, <1>3
<1>5. \A k \in 0 .. Count : k \in T
  <2> HIDE DEF T
  <2> QED
    BY <1>1, <1>4, Reaches
<1>6. Ok(c)
  BY <1>5
<1> QED
  BY <1>6 DEF Ok

LEMMA OrdersFit ==
    ASSUME NEW k \in 0 .. Count
    PROVE  Orders[k] \in Nat \ {0} /\ Orders[k] < Digits
<1>1. Count \in Nat /\ k \in Nat /\ Count \in 0 .. Count /\ 0 \in 0 .. k /\ k \in 0 .. Count
  BY OrderingFacts
<1>2. Orders[k] \in Nat /\ Orders[Count] \in Nat /\ Orders[0] = 1 /\ Digits \in Nat
  BY <1>1, OrdersRun, OrderingFacts
<1>3. PICK y \in Nat \ {0} : Orders[k] = Orders[0] * y
  BY <1>1, OrdersDivide
<1>4. PICK z \in Nat \ {0} : Orders[Count] = Orders[k] * z
  BY <1>1, OrdersDivide
<1>5. \A a \in Nat, x \in Nat \ {0} : a <= a * x
  OBVIOUS
<1>6. Orders[Count] < Digits
  BY OrderingAssumption DEF Count
<1> QED
  BY <1>2, <1>3, <1>4, <1>5, <1>6

LEMMA CountTyped == Count \in Nat /\ Digits \in Nat \ {0}
<1>1. Count \in Nat /\ Digits \in Nat /\ 0 \in 0 .. Count
  BY OrderingFacts
<1>2. Orders[0] \in Nat \ {0} /\ Orders[0] < Digits
  BY <1>1, OrdersFit
<1> QED
  BY <1>1, <1>2

\* What a swap does to an order.
LEMMA SwapIs ==
    ASSUME NEW s \in [1 .. Count -> CalleeSaved], NEW i \in 1 .. Count, NEW j \in 1 .. Count
    PROVE  /\ Swap(s, i, j) \in [1 .. Count -> CalleeSaved]
           /\ Swap(s, i, j)[i] = s[j] /\ Swap(s, i, j)[j] = s[i]
           /\ \A k \in 1 .. Count : k # i /\ k # j => Swap(s, i, j)[k] = s[k]
<1> DEFINE S == 1 .. Count
<1>1. s \in [S -> CalleeSaved] /\ i \in S /\ j \in S
  OBVIOUS
<1> HIDE DEF S
<1>2. /\ Swap(s, i, j) \in [S -> CalleeSaved]
      /\ Swap(s, i, j)[i] = s[j] /\ Swap(s, i, j)[j] = s[i]
      /\ \A k \in S : k # i /\ k # j => Swap(s, i, j)[k] = s[k]
  BY <1>1, ZenonT(30) DEF Swap
<1> QED
  BY <1>2 DEF S

\* Where the loop finds a register.
Found(e, reg) == {k \in e.count + 1 .. Count : e.order[k] = reg}

LEMMA EncodeNextIs ==
    ASSUME NEW e \in Encodings, NEW reg
    PROVE  /\ Found(e, reg) = {} => EncodeNext(e, reg) = [e EXCEPT !.fails = "yes"]
           /\ Found(e, reg) # {} =>
                \E k \in Found(e, reg) :
                    EncodeNext(e, reg) =
                      [e EXCEPT !.order = Swap(e.order, e.count + 1, k), !.count = e.count + 1,
                                !.r = (e.r + (k - (e.count + 1)) * e.scale) % Digits,
                                !.scale = (e.scale * (Count - e.count)) % Digits]
<1>1. CASE Found(e, reg) = {}
  BY <1>1, ZenonT(30) DEF Found, EncodeNext, Count
<1>2. CASE Found(e, reg) # {}
  <2> DEFINE k == CHOOSE k \in Found(e, reg) : TRUE
             i == e.count + 1
  <2>1. k \in Found(e, reg)
    BY <1>2
  <2>2. k \in Nat /\ i \in Nat /\ i + (k - i) = k
    <3>1. i \in Nat /\ k \in i .. Count
      BY <2>1 DEF Found, Encodings
    <3> HIDE DEF k, i
    <3> QED
      BY <3>1, CountTyped
  <2>3. EncodeNext(e, reg) =
          [e EXCEPT !.order = Swap(e.order, i, i + (k - i)), !.count = i,
                    !.r = (e.r + (k - i) * e.scale) % Digits,
                    !.scale = (e.scale * (Count - e.count)) % Digits]
    BY <1>2 DEF EncodeNext, Found, Count
  <2> HIDE DEF k, i
  <2>4. EncodeNext(e, reg) =
          [e EXCEPT !.order = Swap(e.order, i, k), !.count = i,
                    !.r = (e.r + (k - i) * e.scale) % Digits,
                    !.scale = (e.scale * (Count - e.count)) % Digits]
    BY <2>2, <2>3, ZenonT(30)
  <2> QED
    BY <1>2, <2>1, <2>4, ZenonT(30) DEF i
<1> QED
  BY <1>1, <1>2, ZenonT(30)

LEMMA RoundTyped == ASSUME NEW e \in Encodings, NEW reg PROVE Round(e, reg) \in Encodings
<1>1. CASE e.fails = "yes"
  BY <1>1 DEF Round
<1>2. CASE Found(e, reg) = {} /\ e.fails # "yes"
  <2>1. Round(e, reg) = [e EXCEPT !.fails = "yes"]
    BY <1>2, EncodeNextIs, ZenonT(30) DEF Round
  <2> QED
    BY <2>1 DEF Encodings
<1>3. CASE Found(e, reg) # {} /\ e.fails # "yes"
  <2> DEFINE i == e.count + 1
  <2>1. PICK k \in Found(e, reg) :
           Round(e, reg) = [e EXCEPT !.order = Swap(e.order, i, k), !.count = i,
                                     !.r = (e.r + (k - i) * e.scale) % Digits,
                                     !.scale = (e.scale * (Count - e.count)) % Digits]
    BY <1>3, EncodeNextIs, ZenonT(30) DEF Round
  <2>2. /\ e.count \in Nat /\ e.r \in Nat /\ e.scale \in Nat /\ e.order \in [1 .. Count -> CalleeSaved]
        /\ i \in Nat \ {0} /\ k \in i .. Count /\ Count \in Nat
    <3>1. /\ e.count \in Nat /\ e.r \in Nat /\ e.scale \in Nat
          /\ e.order \in [1 .. Count -> CalleeSaved] /\ k \in i .. Count
      BY DEF Encodings, Found
    <3> QED
      BY <3>1, CountTyped
  <2>3. Swap(e.order, i, k) \in [1 .. Count -> CalleeSaved]
    <3>1. i \in 1 .. Count /\ k \in 1 .. Count
      BY <2>2
    <3> HIDE DEF i
    <3> QED
      BY <2>2, <3>1, SwapIs
  <2>4. Digits \in Nat \ {0}
    BY CountTyped
  <2>5. k - i \in Nat /\ Count - e.count \in Nat
    BY <2>2
  <2>6. \A a, b \in Nat : a * b \in Nat
    OBVIOUS
  <2>7. (k - i) * e.scale \in Nat /\ e.scale * (Count - e.count) \in Nat
    BY <2>2, <2>5, <2>6, ZenonT(30)
  <2>8. \A a \in Nat : a % Digits \in Nat
    BY <2>4
  <2>9. /\ (e.r + (k - i) * e.scale) % Digits \in Nat
        /\ (e.scale * (Count - e.count)) % Digits \in Nat
    <3> DEFINE x == (k - i) * e.scale
               y == e.scale * (Count - e.count)
    <3>1. x \in Nat /\ y \in Nat
      BY <2>7
    <3> HIDE DEF x, y, i
    <3>2. e.r + x \in Nat
      BY <2>2, <3>1
    <3>3. (e.r + x) % Digits \in Nat /\ y % Digits \in Nat
      BY <2>8, <3>1, <3>2
    <3> QED
      BY <3>3 DEF x, y
  <2> DEFINE order == Swap(e.order, i, k)
             r == (e.r + (k - i) * e.scale) % Digits
             scale == (e.scale * (Count - e.count)) % Digits
  <2>10. order \in [1 .. Count -> CalleeSaved] /\ r \in Nat /\ scale \in Nat /\ i \in Nat
    BY <2>2, <2>3, <2>9
  <2>11. Round(e, reg) = [e EXCEPT !.order = order, !.count = i, !.r = r, !.scale = scale]
    BY <2>1
  <2> HIDE DEF order, r, scale, i
  <2> QED
    BY <2>10, <2>11, ZenonT(30) DEF Encodings
<1> QED
  BY <1>1, <1>2, <1>3

\* encode is the state after as many rounds as there are registers.
EncodeRuns(registers, f) ==
    /\ f \in [0 .. Len(registers) -> Encodings]
    /\ f[0] = Start(registers)
    /\ \A k \in 1 .. Len(registers) : f[k] = Round(f[k - 1], registers[k])
    /\ encode(registers) = f[Len(registers)]

LEMMA StartTyped == ASSUME NEW registers PROVE Start(registers) \in Encodings
  BY OrderingFacts DEF Start, Encodings

LEMMA EncodeRun ==
    ASSUME NEW D, NEW registers \in Seq(D)
    PROVE  \E f : EncodeRuns(registers, f)
<1> DEFINE n == Len(registers)
           base == Start(registers)
           step == [p \in Encodings \X D |-> Round(p[1], p[2])]
           Op(g, s) == Round(g[s \ {Max(s)}], registers[Max(s)])
           Is(g) == g = [s \in SUBSET (1 .. n) |-> IF s = {} THEN base ELSE Op(g, s)]
<1>1. n \in Nat /\ registers \in [1 .. n -> D] /\ DOMAIN registers = 1 .. n
  OBVIOUS
<1>2. base \in Encodings
  BY StartTyped
<1>3. step \in [Encodings \X D -> Encodings]
  BY RoundTyped
<1>4. PICK G \in [SUBSET (1 .. n) -> Encodings] : FoldsBy(step, base, registers, n, G)
  <2> HIDE DEF n, base, step
  <2> QED
    BY <1>1, <1>2, <1>3, FoldExists, ZenonT(30)
<1>5. Is(G)
  <2>1. ASSUME NEW s \in SUBSET (1 .. n), s # {} PROVE G[s] = Op(G, s)
    <3>1. Max(s) \in 1 .. n /\ s \ {Max(s)} \in SUBSET (1 .. n)
      BY <1>1, <2>1, Greatest, ZenonT(30)
    <3>2. G[s \ {Max(s)}] \in Encodings /\ registers[Max(s)] \in D
      BY <1>1, <3>1
    <3>3. G[s] = step[<<G[s \ {Max(s)}], registers[Max(s)]>>]
      BY <1>4, <2>1, ZenonT(30) DEF FoldsBy
    <3> QED
      BY <3>2, <3>3
  <2>2. G[{}] = base
    BY <1>4, ZenonT(30) DEF FoldsBy
  <2> HIDE DEF Op, base, n
  <2> QED
    BY <2>1, <2>2, ZenonT(30)
<1> DEFINE H == CHOOSE g : Is(g)
<1>6. encode(registers) = H[1 .. n]
  BY <1>1 DEF encode, FoldLeft, MapThenFoldSet, Start, Round
<1>7. Is(H)
  <2> HIDE DEF Is
  <2> QED
    BY <1>5
<1> HIDE DEF H
<1> DEFINE f == [k \in 0 .. n |-> H[1 .. k]]
<1>8. f[0] = base
  <2>1. 1 .. 0 = {} /\ {} \in SUBSET (1 .. n) /\ f[0] = H[1 .. 0]
    BY <1>1
  <2> HIDE DEF base, Op, n, f
  <2> QED
    BY <1>7, <2>1
<1>9. ASSUME NEW k \in 1 .. n PROVE f[k] = Round(f[k - 1], registers[k])
  <2> DEFINE s == 1 .. k
  <2>1. s \in SUBSET (1 .. n) /\ s # {} /\ Max(s) = k /\ s \ {k} = 1 .. k - 1
    BY <1>1, FoldPrefix
  <2>2. f[k] = H[s] /\ f[k - 1] = H[1 .. k - 1]
    BY <1>1
  <2>3. H[s] = Op(H, s)
    <3> HIDE DEF base, Op, n, s
    <3> QED
      BY <1>7, <2>1
  <2> HIDE DEF s, f
  <2> QED
    BY <2>1, <2>2, <2>3, ZenonT(30)
<1>10. f = [k \in 0 .. n |-> f[k]] /\ f[n] = H[1 .. n]
  BY <1>1
<1> HIDE DEF f, base, n
<1>11. \A k \in 1 .. n : f[k - 1] \in Encodings => f[k] \in Encodings
  BY <1>9, RoundTyped
<1>12. f \in [0 .. n -> Encodings]
  BY <1>1, <1>2, <1>8, <1>10, <1>11, RunTyped, ZenonT(30)
<1>13. EncodeRuns(registers, f)
  BY <1>6, <1>8, <1>9, <1>10, <1>12 DEF EncodeRuns, n, base
<1> QED
  BY <1>13

(***************************************************************************)
(* Arithmetic of the digits.                                               *)
(***************************************************************************)
LEMMA DigitFits ==
    ASSUME NEW a \in Nat, NEW r \in Nat, r < a, NEW m \in Nat, NEW x \in Nat, x < m
    PROVE  r + x * a \in Nat /\ r + x * a < a * m
<1>1. PICK y \in Nat : m = x + 1 + y
  <2>1. m - x - 1 \in Nat /\ m = x + 1 + (m - x - 1)
    OBVIOUS
  <2> QED
    BY <2>1
<1>2. a * m = a * x + a + a * y
  BY <1>1
<1>3. a * x = x * a /\ a * y \in Nat /\ x * a \in Nat
  OBVIOUS
<1> QED
  BY <1>2, <1>3

LEMMA SmallRemainder ==
    ASSUME NEW a \in Nat, NEW m \in Nat, a < m
    PROVE  a % m = a
  OBVIOUS

\* The last digit of a number, and the rest of it.
LEMMA DigitAndRest ==
    ASSUME NEW m \in Nat \ {0}, NEW x \in Nat, x < m, NEW y \in Nat
    PROVE  (x + m * y) % m = x /\ (x + m * y) \div m = y
<1>1. (x + m * y) % m = x
  BY SMTT(20)
<1>2. (x + m * y) \div m = y
  BY SMTT(20)
<1> QED
  BY <1>1, <1>2

LEMMA Cancel ==
    ASSUME NEW a \in Nat \ {0}, NEW x \in Nat, NEW y \in Nat, a * x = a * y
    PROVE  x = y
<1>1. ASSUME NEW u \in Nat, NEW v \in Nat, u < v PROVE a * u < a * v
  <2>1. PICK d \in Nat : v = u + 1 + d
    <3>1. v - u - 1 \in Nat /\ v = u + 1 + (v - u - 1)
      BY <1>1
    <3> QED
      BY <3>1
  <2>2. a * v = a * u + a + a * d /\ a * d \in Nat /\ a * u \in Nat
    BY <2>1
  <2> QED
    BY <2>2
<1>2. a * x \in Nat /\ a * y \in Nat
  OBVIOUS
<1> QED
  BY <1>1, <1>2

-----------------------------------------------------------------------------
(***************************************************************************)
(* What holds before and after each round of encode, as long as it has not *)
(* failed: the registers encoded so far stand in front, the order is one   *)
(* of all registers, and the number is below the scale, which does not     *)
(* wrap.                                                                   *)
(***************************************************************************)
Permutes(order) ==
    /\ order \in [1 .. Count -> CalleeSaved]
    /\ \A a, b \in 1 .. Count : order[a] = order[b] => a = b
    /\ \A x \in CalleeSaved : \E i \in 1 .. Count : order[i] = x

EncodeInv(e, registers, k) ==
    /\ k \in 0 .. Count /\ e.count = k /\ Permutes(e.order)
    /\ \A i \in 1 .. k : e.order[i] = registers[i]
    /\ e.scale = Orders[k] /\ e.r \in Nat /\ e.r < Orders[k]

LEMMA SwapPermutes ==
    ASSUME NEW order, Permutes(order), NEW i \in 1 .. Count, NEW j \in 1 .. Count
    PROVE  /\ Permutes(Swap(order, i, j)) /\ Swap(order, i, j)[i] = order[j]
           /\ \A k \in 1 .. Count : k # i /\ k # j => Swap(order, i, j)[k] = order[k]
<1> DEFINE new == Swap(order, i, j)
<1>1. order \in [1 .. Count -> CalleeSaved] /\ Count \in Nat
  BY CountTyped DEF Permutes
<1>2. /\ new \in [1 .. Count -> CalleeSaved] /\ new[i] = order[j] /\ new[j] = order[i]
      /\ \A k \in 1 .. Count : k # i /\ k # j => new[k] = order[k]
  BY <1>1, SwapIs
<1> HIDE DEF new
<1>3. ASSUME NEW a \in 1 .. Count, NEW b \in 1 .. Count, new[a] = new[b] PROVE a = b
  BY <1>2, <1>3 DEF Permutes
<1>4. ASSUME NEW x \in CalleeSaved PROVE \E k \in 1 .. Count : new[k] = x
  <2>1. PICK k \in 1 .. Count : order[k] = x
    BY DEF Permutes
  <2> QED
    BY <1>2, <2>1
<1>5. Permutes(new)
  BY <1>2, <1>3, <1>4 DEF Permutes
<1> QED
  BY <1>2, <1>5 DEF new

\* A round that finds its register at p.
FindsAt(e, next, p) ==
    /\ p \in e.count + 1 .. Count
    /\ next.order = Swap(e.order, e.count + 1, p)
    /\ next.r = e.r + (p - (e.count + 1)) * Orders[e.count]

LEMMA RoundInv ==
    ASSUME NEW registers, NEW k \in Nat, NEW e \in Encodings, e.fails = "no",
           EncodeInv(e, registers, k), NEW next, next = Round(e, registers[k + 1])
    PROVE  \/ /\ next.fails = "yes"
              /\ \/ registers[k + 1] \notin CalleeSaved
                 \/ \E j \in 1 .. k : registers[j] = registers[k + 1]
           \/ /\ next.fails = "no" /\ EncodeInv(next, registers, k + 1)
              /\ registers[k + 1] \in CalleeSaved
              /\ \A j \in 1 .. k : registers[j] # registers[k + 1]
              /\ \E p \in Nat : FindsAt(e, next, p)
<1> DEFINE reg == registers[k + 1]
           i == k + 1
<1>1. /\ Count \in Nat /\ Digits \in Nat \ {0} /\ k \in 0 .. Count /\ e.count = k
      /\ Permutes(e.order) /\ e.scale = Orders[k] /\ e.r \in Nat /\ e.r < Orders[k]
      /\ \A j \in 1 .. k : e.order[j] = registers[j]
  BY CountTyped DEF EncodeInv
<1>2. next = EncodeNext(e, reg)
  BY DEF Round
<1>3. CASE Found(e, reg) = {}
  <2>1. next.fails = "yes"
    <3> HIDE DEF reg
    <3>1. next = [e EXCEPT !.fails = "yes"]
      BY <1>2, <1>3, EncodeNextIs, ZenonT(30)
    <3> QED
      BY <3>1, ZenonT(30) DEF Encodings
  <2>2. ASSUME reg \in CalleeSaved PROVE \E j \in 1 .. k : registers[j] = reg
    <3>1. PICK j \in 1 .. Count : e.order[j] = reg
      BY <1>1, <2>2, ZenonT(30) DEF Permutes
    <3>2. j \notin k + 1 .. Count
      BY <1>1, <1>3, <3>1 DEF Found
    <3>3. j \in 1 .. k
      BY <1>1, <3>2
    <3> QED
      BY <1>1, <3>1, <3>3
  <2> QED
    BY <2>1, <2>2
<1>4. CASE Found(e, reg) # {}
  <2>1. PICK p \in Found(e, reg) :
           next = [e EXCEPT !.order = Swap(e.order, i, p), !.count = i,
                            !.r = (e.r + (p - i) * e.scale) % Digits,
                            !.scale = (e.scale * (Count - k)) % Digits]
    <3> HIDE DEF reg
    <3>1. \E p \in Found(e, reg) :
             EncodeNext(e, reg) =
               [e EXCEPT !.order = Swap(e.order, e.count + 1, p), !.count = e.count + 1,
                         !.r = (e.r + (p - (e.count + 1)) * e.scale) % Digits,
                         !.scale = (e.scale * (Count - e.count)) % Digits]
      BY <1>4, EncodeNextIs, ZenonT(30)
    <3> QED
      BY <1>1, <1>2, <3>1, ZenonT(30)
  <2>2. p \in k + 1 .. Count /\ e.order[p] = reg
    BY <1>1 DEF Found
  <2>3. /\ i \in 1 .. Count /\ p \in 1 .. Count /\ i \in 0 .. Count /\ i \in Nat /\ p \in Nat
        /\ i - 1 = k /\ p - i \in Nat /\ Count - k \in Nat /\ p - i < Count - k
    BY <1>1, <2>2
  <2>4. Orders[i] = Orders[k] * (Count - k) /\ Orders[i] < Digits /\ Orders[i] \in Nat
        /\ Orders[k] \in Nat
    BY <1>1, <2>3, OrdersRun, OrdersFit
  <2> DEFINE r == e.r + (p - i) * Orders[k]
  <2>5. r \in Nat /\ r < Orders[i]
    <3> DEFINE a == Orders[k]
               x == p - i
               m == Count - k
    <3>1. a \in Nat /\ e.r < a /\ x \in Nat /\ m \in Nat /\ x < m /\ e.r \in Nat
      BY <1>1, <2>3, <2>4
    <3> HIDE DEF a, x, m
    <3>2. e.r + x * a \in Nat /\ e.r + x * a < a * m
      BY <3>1, DigitFits
    <3> QED
      BY <2>4, <3>2 DEF a, x, m
  <2>6. r % Digits = r /\ Orders[i] % Digits = Orders[i]
    <3> HIDE DEF r, i
    <3>1. r < Digits
      BY <1>1, <2>4, <2>5
    <3> QED
      BY <1>1, <2>4, <2>5, <3>1, SmallRemainder, ZenonT(30)
  <2> DEFINE order == Swap(e.order, i, p)
  <2>7. next = [e EXCEPT !.order = order, !.count = i, !.r = r, !.scale = Orders[i]]
    <3>1. e.r + (p - i) * e.scale = r /\ e.scale * (Count - k) = Orders[i]
      BY <1>1, <2>4
    <3> QED
      BY <2>1, <2>6, <3>1, ZenonT(30)
  <2> HIDE DEF r, order, i
  <2>8. /\ next.fails = "no" /\ next.order = order /\ next.count = i /\ next.r = r
        /\ next.scale = Orders[i]
    BY <2>7 DEF Encodings
  <2>9. Permutes(order)
    BY <1>1, <2>3, SwapPermutes DEF order
  <2>10. /\ order[i] = reg
         /\ \A j \in 1 .. k : order[j] = e.order[j]
    <3>1. \A j \in 1 .. k : j \in 1 .. Count /\ j # i /\ j # p
      BY <1>1, <2>2, <2>3 DEF i
    <3>3. /\ Swap(e.order, i, p)[i] = e.order[p]
          /\ \A j \in 1 .. Count : j # i /\ j # p => Swap(e.order, i, p)[j] = e.order[j]
      BY <1>1, <2>3, SwapPermutes, ZenonT(30)
    <3> QED
      BY <2>2, <3>1, <3>3, SMTT(30) DEF order
  <2>11. reg \in CalleeSaved /\ \A j \in 1 .. k : registers[j] # reg
    <3>1. \A j \in 1 .. k : j \in 1 .. Count /\ j # p
      BY <1>1, <2>2, <2>3
    <3> QED
      BY <1>1, <2>2, <2>3, <3>1, ZenonT(30) DEF Permutes
  <2>12. \A j \in 1 .. i : order[j] = registers[j]
    <3>1. \A j \in 1 .. i : j = i \/ j \in 1 .. k
      BY <1>1 DEF i
    <3> QED
      BY <1>1, <2>10, <3>1 DEF i
  <2>13. EncodeInv(next, registers, i)
    BY <2>3, <2>5, <2>8, <2>9, <2>12, Zenon DEF EncodeInv
  <2>14. FindsAt(e, next, p)
    BY <1>1, <2>2, <2>8 DEF FindsAt, order, r, i
  <2> QED
    BY <2>3, <2>8, <2>11, <2>13, <2>14 DEF i
<1> QED
  BY <1>3, <1>4

\* The first k registers are different callee-saved registers.
Distinct(registers, k) ==
    \A i \in 1 .. k : /\ registers[i] \in CalleeSaved
                      /\ \A j \in 1 .. k : registers[i] = registers[j] => i = j

LEMMA DistinctNext ==
    ASSUME NEW registers, NEW k \in Nat
    PROVE  Distinct(registers, k + 1) <=>
              /\ Distinct(registers, k) /\ registers[k + 1] \in CalleeSaved
              /\ \A j \in 1 .. k : registers[j] # registers[k + 1]
<1>1. \A i \in 1 .. k + 1 : i = k + 1 \/ i \in 1 .. k
  OBVIOUS
<1>2. \A i \in 1 .. k : i \in 1 .. k + 1 /\ i # k + 1
  OBVIOUS
<1>3. k + 1 \in 1 .. k + 1
  OBVIOUS
<1> QED
  BY <1>1, <1>2, <1>3 DEF Distinct

LEMMA EncodeRounds ==
    ASSUME NEW D, NEW registers \in Seq(D), Len(registers) <= Count,
           NEW f, EncodeRuns(registers, f), NEW k \in 0 .. Len(registers)
    PROVE  /\ f[k].fails = "no" <=> Distinct(registers, k)
           /\ f[k].fails = "no" => EncodeInv(f[k], registers, k)
<1> DEFINE n == Len(registers)
           Ok(m) == /\ f[m].fails = "no" <=> Distinct(registers, m)
                    /\ f[m].fails = "no" => EncodeInv(f[m], registers, m)
           T == {m \in 0 .. n : Ok(m)}
<1>1. n \in Nat /\ Count \in Nat /\ \A m \in 0 .. n : f[m] \in Encodings
  <2>1. f \in [0 .. n -> Encodings]
    BY DEF EncodeRuns
  <2> QED
    BY <2>1, CountTyped, SMTT(30)
<1>2. Ok(0)
  <2>1. f[0] = Start(registers) /\ f[0].fails = "no"
    BY <1>1 DEF EncodeRuns, Start, Count
  <2>2. Distinct(registers, 0)
    BY DEF Distinct
  <2>3. Permutes(ENCODE_REGISTERS)
    BY OrderingFacts DEF Permutes
  <2>4. Orders[0] = 1 /\ 0 \in 0 .. Count /\ 1 .. 0 = {}
    BY OrdersRun, CountTyped
  <2>5. f[0].order = ENCODE_REGISTERS /\ f[0].count = 0 /\ f[0].r = 0 /\ f[0].scale = 1
    BY <2>1 DEF Start
  <2>6. EncodeInv(f[0], registers, 0)
    BY <2>3, <2>4, <2>5 DEF EncodeInv
  <2> QED
    BY <2>1, <2>2, <2>6
<1>3. ASSUME NEW m \in T, m < n PROVE Ok(m + 1)
  <2>1. /\ m \in Nat /\ m + 1 \in 1 .. n /\ (m + 1) - 1 = m /\ m \in 0 .. n /\ m + 1 \in 0 .. n
        /\ f[m] \in Encodings /\ Ok(m)
    BY <1>1, <1>3
  <2>2. f[m + 1] = Round(f[m], registers[m + 1])
    BY <2>1 DEF EncodeRuns
  <2>3. CASE f[m].fails = "no"
    <3> HIDE DEF T, Ok
    <3>1. EncodeInv(f[m], registers, m) /\ Distinct(registers, m)
      BY <2>1, <2>3 DEF Ok
    <3>2. \/ /\ f[m + 1].fails = "yes"
             /\ \/ registers[m + 1] \notin CalleeSaved
                \/ \E j \in 1 .. m : registers[j] = registers[m + 1]
          \/ /\ f[m + 1].fails = "no" /\ EncodeInv(f[m + 1], registers, m + 1)
             /\ registers[m + 1] \in CalleeSaved
             /\ \A j \in 1 .. m : registers[j] # registers[m + 1]
      <4> DEFINE e == f[m]
                 next == f[m + 1]
      <4>1. /\ e \in Encodings /\ e.fails = "no" /\ EncodeInv(e, registers, m) /\ m \in Nat
            /\ next = Round(e, registers[m + 1])
        BY <2>1, <2>2, <2>3, <3>1
      <4> HIDE DEF e, next
      <4>2. \/ /\ next.fails = "yes"
               /\ \/ registers[m + 1] \notin CalleeSaved
                  \/ \E j \in 1 .. m : registers[j] = registers[m + 1]
            \/ /\ next.fails = "no" /\ EncodeInv(next, registers, m + 1)
               /\ registers[m + 1] \in CalleeSaved
               /\ \A j \in 1 .. m : registers[j] # registers[m + 1]
        BY <4>1, RoundInv
      <4> QED
        BY <4>2 DEF next
    <3> QED
      BY <2>1, <3>1, <3>2, DistinctNext, SMTT(30) DEF Ok
  <2>4. CASE f[m].fails # "no"
    <3>1. f[m].fails = "yes"
      BY <2>1, <2>4 DEF Encodings
    <3>2. f[m + 1] = f[m]
      BY <2>2, <3>1 DEF Round
    <3> QED
      BY <2>1, <3>1, <3>2, DistinctNext, ZenonT(30)
  <2> QED
    BY <2>3, <2>4
<1> HIDE DEF Ok
<1>4. T \in SUBSET (0 .. n) /\ 0 \in T /\ \A m \in T : m < n => m + 1 \in T
  BY <1>1, <1>2, <1>3
<1>5. \A m \in 0 .. n : m \in T
  <2> HIDE DEF T, n
  <2> QED
    BY <1>1, <1>4, Reaches, ZenonT(30)
<1>6. Ok(k)
  BY <1>5
<1> QED
  BY <1>6 DEF Ok

-----------------------------------------------------------------------------
(***************************************************************************)
(* The loop of decode, likewise.                                           *)
(***************************************************************************)
Decodings == [order : [1 .. Count -> CalleeSaved], r : Nat]

DecodeRuns(r, f) ==
    /\ f \in [0 .. Count -> Decodings]
    /\ f[0] = [order |-> ENCODE_REGISTERS, r |-> r]
    /\ \A k \in 1 .. Count : f[k] = DecodeNext(f[k - 1], Count + 1 - k)
    /\ \A count : decode(count, r) = SubSeq(f[Count].order, 1, count)

LEMMA DecodeNextIs ==
    ASSUME NEW d \in Decodings, NEW n \in 1 .. Count
    PROVE  /\ DecodeNext(d, n) \in Decodings
           /\ d.r = 0 => DecodeNext(d, n) = d
           /\ d.r # 0 =>
                /\ DecodeNext(d, n).order = Swap(d.order, Count - n + 1, Count - n + 1 + (d.r % n))
                /\ DecodeNext(d, n).r = d.r \div n
<1>1. d.r = 0 => DecodeNext(d, n) = d
  BY DEF DecodeNext
<1> DEFINE first == Count - n + 1
           x == d.r % n
           y == d.r \div n
           order == Swap(d.order, first, first + x)
<1>2. d.r # 0 => DecodeNext(d, n) = [order |-> order, r |-> y]
  BY DEF DecodeNext, Count
<1>3. Count \in Nat /\ d.r \in Nat /\ d.order \in [1 .. Count -> CalleeSaved] /\ n \in Nat \ {0}
  BY CountTyped DEF Decodings
<1>4. x \in 0 .. n - 1 /\ y \in Nat
  BY <1>3
<1> HIDE DEF x, y
<1>5. first \in 1 .. Count /\ first + x \in 1 .. Count
  BY <1>3, <1>4
<1>6. order \in [1 .. Count -> CalleeSaved]
  <2> HIDE DEF first
  <2> DEFINE last == first + x
  <2>1. last \in 1 .. Count
    BY <1>5
  <2> HIDE DEF last
  <2>2. Swap(d.order, first, last) \in [1 .. Count -> CalleeSaved]
    BY <1>3, <1>5, <2>1, SwapIs
  <2> QED
    BY <2>2 DEF last
<1>7. [order |-> order, r |-> y] \in Decodings
  <2> HIDE DEF order
  <2> QED
    BY <1>4, <1>6 DEF Decodings
<1> QED
  BY <1>1, <1>2, <1>7 DEF x, y

LEMMA DecodeRun ==
    ASSUME NEW r \in Nat
    PROVE  \E f : DecodeRuns(r, f)
<1> DEFINE n == Count
           base == [order |-> ENCODE_REGISTERS, r |-> r]
           D == 1 .. Count
           digits == [k \in 1 .. n |-> n + 1 - k]
           step == [p \in Decodings \X D |-> DecodeNext(p[1], p[2])]
           Op(g, s) == DecodeNext(g[s \ {Max(s)}], digits[Max(s)])
           Is(g) == g = [s \in SUBSET (1 .. n) |-> IF s = {} THEN base ELSE Op(g, s)]
<1>1. n \in Nat /\ digits \in [1 .. n -> D] /\ \A k \in 1 .. n : digits[k] = n + 1 - k
  BY CountTyped
<1>2. base \in Decodings
  BY OrderingFacts DEF Decodings
<1>3. step \in [Decodings \X D -> Decodings]
  BY DecodeNextIs
<1>4. PICK G \in [SUBSET (1 .. n) -> Decodings] : FoldsBy(step, base, digits, n, G)
  <2> HIDE DEF n, base, step, digits, D
  <2> QED
    BY <1>1, <1>2, <1>3, FoldExists, ZenonT(30)
<1>5. Is(G)
  <2>1. ASSUME NEW s \in SUBSET (1 .. n), s # {} PROVE G[s] = Op(G, s)
    <3> HIDE DEF digits, D, base, n
    <3>1. Max(s) \in 1 .. n /\ s \ {Max(s)} \in SUBSET (1 .. n)
      BY <1>1, <2>1, Greatest, ZenonT(30)
    <3>2. G[s \ {Max(s)}] \in Decodings /\ digits[Max(s)] \in D
      BY <1>1, <3>1
    <3>3. G[s] = step[<<G[s \ {Max(s)}], digits[Max(s)]>>]
      BY <1>4, <2>1, ZenonT(30) DEF FoldsBy
    <3> QED
      BY <3>2, <3>3
  <2>2. G[{}] = base
    BY <1>4, ZenonT(30) DEF FoldsBy
  <2> HIDE DEF Op, base, n
  <2> QED
    BY <2>1, <2>2, ZenonT(30)
<1> DEFINE H == CHOOSE g : Is(g)
<1>6. \A count : decode(count, r) = SubSeq(H[1 .. n].order, 1, count)
  BY ZenonT(30) DEF decode, FoldLeft, MapThenFoldSet, Count
<1>7. Is(H)
  <2> HIDE DEF Is
  <2> QED
    BY <1>5
<1> HIDE DEF H, digits
<1> DEFINE f == [k \in 0 .. n |-> H[1 .. k]]
<1>8. f[0] = base
  <2>1. 1 .. 0 = {} /\ {} \in SUBSET (1 .. n) /\ f[0] = H[1 .. 0]
    BY <1>1
  <2> HIDE DEF base, Op, n, f
  <2> QED
    BY <1>7, <2>1
<1>9. ASSUME NEW k \in 1 .. n PROVE f[k] = DecodeNext(f[k - 1], n + 1 - k)
  <2> DEFINE s == 1 .. k
  <2>1. s \in SUBSET (1 .. n) /\ s # {} /\ Max(s) = k /\ s \ {k} = 1 .. k - 1
    BY <1>1, FoldPrefix
  <2>2. f[k] = H[s] /\ f[k - 1] = H[1 .. k - 1]
    BY <1>1
  <2>3. H[s] = Op(H, s)
    <3> HIDE DEF base, Op, n, s
    <3> QED
      BY <1>7, <2>1
  <2> HIDE DEF s, f
  <2> QED
    BY <1>1, <2>1, <2>2, <2>3, ZenonT(30)
<1>10. f = [k \in 0 .. n |-> f[k]] /\ f[n] = H[1 .. n]
  BY <1>1
<1>11. \A k \in 1 .. n : n + 1 - k \in 1 .. Count
  BY <1>1
<1> HIDE DEF f, base, n
<1>12. \A k \in 1 .. n : f[k - 1] \in Decodings => f[k] \in Decodings
  BY <1>9, <1>11, DecodeNextIs
<1>13. f \in [0 .. n -> Decodings]
  BY <1>1, <1>2, <1>8, <1>10, <1>12, RunTyped, ZenonT(30)
<1>14. DecodeRuns(r, f)
  BY <1>6, <1>8, <1>9, <1>10, <1>13, ZenonT(30) DEF DecodeRuns, n, base
<1> QED
  BY <1>14

-----------------------------------------------------------------------------
(***************************************************************************)
(* decode takes the digits of an encoded order one by one: after j rounds  *)
(* it has the order that encode had after j rounds, and what is left of    *)
(* the number are the digits that encode added later.                      *)
(***************************************************************************)
Encoded(D, registers, f) ==
    /\ registers \in Seq(D) /\ Len(registers) <= Count
    /\ EncodeRuns(registers, f) /\ f[Len(registers)].fails = "no"

LEMMA EncodedRounds ==
    ASSUME NEW D, NEW registers, NEW f, Encoded(D, registers, f),
           NEW k \in 0 .. Len(registers)
    PROVE  /\ f[k].fails = "no" /\ f[k] \in Encodings /\ EncodeInv(f[k], registers, k)
           /\ k < Len(registers) => \E p \in Nat : FindsAt(f[k], f[k + 1], p)
<1> DEFINE n == Len(registers)
<1>1. n \in Nat /\ registers \in Seq(D) /\ n <= Count /\ EncodeRuns(registers, f) /\ n \in 0 .. n
  BY DEF Encoded
<1>2. Distinct(registers, n)
  BY <1>1, EncodeRounds DEF Encoded
<1>3. \A m \in 0 .. n : Distinct(registers, m)
  BY <1>1, <1>2 DEF Distinct
<1>4. \A m \in 0 .. n : f[m].fails = "no" /\ EncodeInv(f[m], registers, m)
  BY <1>1, <1>3, EncodeRounds
<1>5. \A m \in 0 .. n : f[m] \in Encodings
  BY <1>1 DEF EncodeRuns
<1>6. ASSUME k < n PROVE \E p \in Nat : FindsAt(f[k], f[k + 1], p)
  <2>1. /\ k \in Nat /\ k + 1 \in 1 .. n /\ k + 1 \in 0 .. n /\ (k + 1) - 1 = k
    BY <1>1, <1>6
  <2> DEFINE e == f[k]
             next == f[k + 1]
  <2>2. /\ e \in Encodings /\ e.fails = "no" /\ EncodeInv(e, registers, k)
        /\ next = Round(e, registers[k + 1]) /\ next.fails = "no"
    BY <1>1, <1>4, <1>5, <2>1, SMTT(30) DEF EncodeRuns
  <2> HIDE DEF e, next
  <2>3. \E p \in Nat : FindsAt(e, next, p)
    BY <2>1, <2>2, RoundInv
  <2> QED
    BY <2>3 DEF e, next
<1> QED
  BY <1>4, <1>5, <1>6

LEMMA LaterDigits ==
    ASSUME NEW D, NEW registers, NEW f, Encoded(D, registers, f),
           NEW j \in 0 .. Len(registers)
    PROVE  \E y \in Nat : f[Len(registers)].r = f[j].r + Orders[j] * y
<1> DEFINE n == Len(registers)
           Ok(m) == m >= j => \E y \in Nat : f[m].r = f[j].r + Orders[j] * y
           T == {m \in 0 .. n : Ok(m)}
<1>1. n \in Nat /\ n <= Count /\ Count \in Nat
  BY CountTyped DEF Encoded
<1>2. \A m \in 0 .. n : f[m].r \in Nat /\ Orders[m] \in Nat /\ f[m].count = m /\ m \in 0 .. Count
  BY <1>1, EncodedRounds, OrdersFit DEF EncodeInv
<1>3. ASSUME NEW m \in 0 .. n, m = j PROVE Ok(m)
  <2>1. f[m].r = f[j].r + Orders[j] * 0
    BY <1>2, <1>3
  <2> QED
    BY <2>1
<1>4. Ok(0)
  BY <1>1, <1>3
<1>5. ASSUME NEW m \in T, m < n PROVE Ok(m + 1)
  <2>1. m + 1 \in 0 .. n /\ m \in 0 .. n /\ m \in Nat
    BY <1>1, <1>5
  <2>2. CASE m >= j
    <3>1. PICK y \in Nat : f[m].r = f[j].r + Orders[j] * y
      BY <1>5, <2>2
    <3>2. PICK p \in Nat : FindsAt(f[m], f[m + 1], p)
      BY <1>5, <2>1, EncodedRounds, ZenonT(30)
    <3> DEFINE x == p - (m + 1)
    <3>3. x \in Nat /\ f[m + 1].r = f[m].r + x * Orders[m]
      <4>1. f[m].count = m
        BY <1>2, <2>1
      <4>2. p \in m + 1 .. Count /\ f[m + 1].r = f[m].r + x * Orders[m]
        BY <3>2, <4>1 DEF FindsAt
      <4> QED
        BY <2>1, <4>2
    <3>4. j \in 0 .. m /\ m \in 0 .. Count
      BY <1>2, <2>1, <2>2
    <3>5. PICK z \in Nat \ {0} : Orders[m] = Orders[j] * z
      BY <3>4, OrdersDivide
    <3> HIDE DEF x
    <3>6. \A a, b, c \in Nat : b * (a * c) = a * (c * b) /\ a * c \in Nat
      OBVIOUS
    <3>7. x * Orders[m] = Orders[j] * (z * x) /\ z * x \in Nat
      BY <1>2, <3>3, <3>5, <3>6
    <3>8. \A a, b, c \in Nat : a * b + a * c = a * (b + c)
      OBVIOUS
    <3>9. f[m + 1].r = f[j].r + Orders[j] * (y + z * x)
      <4> DEFINE w == z * x
      <4>1. w \in Nat /\ f[m + 1].r = (f[j].r + Orders[j] * y) + Orders[j] * w
        BY <3>1, <3>3, <3>7
      <4> HIDE DEF w
      <4>2. Orders[j] * y + Orders[j] * w = Orders[j] * (y + w)
        <5>1. Orders[j] \in Nat /\ y \in Nat /\ w \in Nat
          BY <1>2, <4>1
        <5> QED
          BY <3>8, <5>1
      <4>3. /\ f[j].r \in Nat /\ Orders[j] * y \in Nat /\ Orders[j] * w \in Nat
        BY <1>2, <3>6, <4>1, Zenon
      <4>4. \A a, b, c, d \in Nat : b + c = d => (a + b) + c = a + d
        OBVIOUS
      <4>5. Orders[j] * (y + w) \in Nat
        BY <4>2, <4>3, SMTT(30)
      <4>6. f[m + 1].r = f[j].r + Orders[j] * (y + w)
        BY <4>1, <4>2, <4>3, <4>4, <4>5, SMTT(30)
      <4> QED
        BY <4>6 DEF w
    <3> QED
      BY <3>7, <3>9
  <2>3. CASE m + 1 = j
    BY <1>3, <2>1, <2>3
  <2> QED
    BY <2>1, <2>2, <2>3
<1> HIDE DEF Ok
<1>6. T \in SUBSET (0 .. n) /\ 0 \in T /\ \A m \in T : m < n => m + 1 \in T
  BY <1>1, <1>4, <1>5
<1>7. \A m \in 0 .. n : m \in T
  <2> HIDE DEF T, n
  <2> QED
    BY <1>1, <1>6, Reaches
<1>8. Ok(n)
  BY <1>1, <1>7
<1> QED
  BY <1>1, <1>8 DEF Ok

LEMMA DecodeFollows ==
    ASSUME NEW D, NEW registers, NEW f, Encoded(D, registers, f),
           NEW g, DecodeRuns(f[Len(registers)].r, g), NEW j \in 0 .. Len(registers)
    PROVE  /\ g[j].order = f[j].order
           /\ f[Len(registers)].r = f[j].r + Orders[j] * g[j].r
<1> DEFINE n == Len(registers)
           Ok(m) == g[m].order = f[m].order /\ f[n].r = f[m].r + Orders[m] * g[m].r
           T == {m \in 0 .. n : Ok(m)}
<1>1. n \in Nat /\ n <= Count /\ Count \in Nat /\ 0 \in 0 .. n /\ n \in 0 .. n
  BY CountTyped DEF Encoded
<1>2. \A m \in 0 .. n : /\ f[m].r \in Nat /\ Orders[m] \in Nat \ {0} /\ f[m].count = m
                        /\ m \in 0 .. Count /\ f[m].order \in [1 .. Count -> CalleeSaved]
  BY <1>1, EncodedRounds, OrdersFit DEF EncodeInv, Permutes
<1>3. \A m \in 0 .. Count : g[m] \in Decodings /\ g[m].r \in Nat
  BY DEF DecodeRuns, Decodings
<1>4. Ok(0)
  <2>1. f[0] = Start(registers) /\ Orders[0] = 1
    BY OrdersRun DEF Encoded, EncodeRuns
  <2>2. f[0].order = ENCODE_REGISTERS /\ f[0].r = 0
    BY <2>1 DEF Start
  <2>3. g[0].order = ENCODE_REGISTERS /\ g[0].r = f[n].r
    BY DEF DecodeRuns
  <2>4. f[n].r \in Nat
    BY <1>1, <1>2
  <2> QED
    BY <2>1, <2>2, <2>3, <2>4, SMTT(30)
<1>5. ASSUME NEW m \in T, m < n PROVE Ok(m + 1)
  <2>1. /\ m \in Nat /\ m \in 0 .. n /\ m + 1 \in 0 .. n /\ m + 1 \in 1 .. Count
        /\ m \in 0 .. Count /\ (m + 1) - 1 = m /\ Count + 1 - (m + 1) = Count - m
        /\ Count - m \in 1 .. Count /\ Count - (Count - m) + 1 = m + 1
    BY <1>1, <1>5
  <2> DEFINE b == Count - m
             v == g[m].r
  <2>2. g[m + 1] = DecodeNext(g[m], b) /\ g[m] \in Decodings /\ v \in Nat
    BY <1>3, <2>1 DEF DecodeRuns
  <2>3. PICK p \in Nat : FindsAt(f[m], f[m + 1], p)
    BY <1>5, <2>1, EncodedRounds
  <2> DEFINE x == p - (m + 1)
  <2>4. /\ p \in m + 1 .. Count /\ f[m + 1].order = Swap(f[m].order, m + 1, p)
        /\ f[m + 1].r = f[m].r + x * Orders[m]
    <3>1. f[m].count = m
      BY <1>2, <2>1
    <3> QED
      BY <2>3, <3>1 DEF FindsAt
  <2>5. x \in Nat /\ x < b /\ b \in Nat \ {0} /\ m + 1 + x = p
    <3>1. m \in Nat /\ Count \in Nat /\ p \in m + 1 .. Count
      BY <1>1, <2>1, <2>4, ZenonT(30)
    <3> QED
      BY <3>1
  <2>6. PICK y \in Nat : f[n].r = f[m + 1].r + Orders[m + 1] * y
    BY <2>1, LaterDigits
  <2>7. Orders[m + 1] = Orders[m] * b
    BY <2>1, OrdersRun
  <2>8. f[n].r = f[m].r + Orders[m] * v
    BY <1>5
  <2>9. v = x + b * y
    <3> DEFINE a == Orders[m]
               r == f[m].r
    <3>1. a \in Nat \ {0} /\ r \in Nat
      BY <1>2, <2>1
    <3>2. r + a * v = (r + x * a) + (a * b) * y
      BY <2>4, <2>6, <2>7, <2>8, SMTT(30)
    <3> HIDE DEF a, r, v, x, b
    <3>3. (r + x * a) + (a * b) * y = r + a * (x + b * y)
      BY <2>5, <3>1
    <3>4. x + b * y \in Nat
      BY <2>5
    <3>5. \A c, d \in Nat : r + c = r + d => c = d
      BY <3>1
    <3>6. a * v \in Nat /\ a * (x + b * y) \in Nat
      BY <2>2, <3>1, <3>4
    <3>7. a * v = a * (x + b * y)
      BY <3>2, <3>3, <3>5, <3>6, SMTT(30)
    <3> QED
      BY <2>2, <3>1, <3>4, <3>7, Cancel, ZenonT(30)
  <2>10. v % b = x /\ v \div b = y
    <3> HIDE DEF v, x, b
    <3> QED
      BY <2>5, <2>9, DigitAndRest, SMTT(30)
  <2>11. g[m + 1].order = f[m + 1].order /\ g[m + 1].r = y
    <3>1. CASE v # 0
      <4>1. g[m + 1].order = Swap(g[m].order, m + 1, m + 1 + (v % b)) /\ g[m + 1].r = v \div b
        BY <2>1, <2>2, <3>1, DecodeNextIs, SMTT(30)
      <4> QED
        BY <1>5, <2>4, <2>5, <2>10, <4>1, SMTT(30)
    <3>2. CASE v = 0
      <4>1. g[m + 1] = g[m]
        BY <2>1, <2>2, <3>2, DecodeNextIs, SMTT(30)
      <4>2. x = 0 /\ y = 0
        BY <2>5, <2>9, <3>2, SMTT(30)
      <4>3. Swap(f[m].order, m + 1, p) = f[m].order
        <5>1. p = m + 1 /\ f[m].order \in [1 .. Count -> CalleeSaved] /\ m + 1 \in 1 .. Count
          BY <1>2, <2>1, <2>5, <4>2, SMTT(30)
        <5> QED
          BY <5>1 DEF Swap
      <4> QED
        BY <1>5, <2>4, <3>2, <4>1, <4>2, <4>3, SMTT(30)
    <3> QED
      BY <3>1, <3>2, SMTT(30)
  <2> QED
    BY <2>6, <2>11
<1> HIDE DEF Ok
<1>6. T \in SUBSET (0 .. n) /\ 0 \in T /\ \A m \in T : m < n => m + 1 \in T
  BY <1>1, <1>4, <1>5
<1>7. \A m \in 0 .. n : m \in T
  <2> HIDE DEF T, n
  <2> QED
    BY <1>1, <1>6, Reaches
<1>8. Ok(j)
  BY <1>1, <1>7
<1> QED
  BY <1>8 DEF Ok

(***************************************************************************)
(* decode undoes encode, for all registers and in all orders: encode in    *)
(* register_ordering.rs fails exactly for sequences with a register that   *)
(* is not callee-saved or comes twice, and decode gives back the others.   *)
(***************************************************************************)
THEOREM DecodeUndoesEncode ==
    ASSUME NEW D, NEW registers \in Seq(D), Len(registers) <= RegisterCount
    PROVE  LET e == encode(registers)
           IN  /\ e.fails = "no" <=> Distinct(registers, Len(registers))
               /\ e.fails = "no" => /\ e.count = Len(registers)
                                    /\ decode(e.count, e.r) = registers
<1> DEFINE n == Len(registers)
<1>1. n \in Nat /\ Count \in Nat /\ n <= Count /\ n \in 0 .. n /\ n \in 0 .. Count
  BY CountTyped DEF Count
<1>2. PICK f : EncodeRuns(registers, f)
  BY EncodeRun
<1>3. encode(registers) = f[n]
  BY <1>2 DEF EncodeRuns
<1>4. f[n].fails = "no" <=> Distinct(registers, n)
  BY <1>1, <1>2, EncodeRounds
<1>5. ASSUME f[n].fails = "no" PROVE f[n].count = n /\ decode(n, f[n].r) = registers
  <2>1. Encoded(D, registers, f)
    BY <1>1, <1>2, <1>5 DEF Encoded
  <2>2. EncodeInv(f[n], registers, n)
    BY <1>1, <2>1, EncodedRounds
  <2>3. /\ f[n].count = n /\ f[n].r \in Nat /\ Orders[n] \in Nat \ {0}
        /\ f[n].order \in [1 .. Count -> CalleeSaved]
        /\ \A i \in 1 .. n : f[n].order[i] = registers[i]
    BY <1>1, <2>2, OrdersFit DEF EncodeInv, Permutes
  <2>4. PICK g : DecodeRuns(f[n].r, g)
    BY <2>3, DecodeRun
  <2>5. g[n].order = f[n].order /\ f[n].r = f[n].r + Orders[n] * g[n].r
    BY <1>1, <2>1, <2>4, DecodeFollows
  <2>6. \A k \in 0 .. Count : g[k] \in Decodings /\ g[k].r \in Nat
    BY <2>4 DEF DecodeRuns, Decodings
  <2>7. g[n].r = 0
    <3>1. \A a \in Nat, b \in Nat \ {0}, v \in Nat : a = a + b * v => v = 0
      OBVIOUS
    <3> QED
      BY <1>1, <2>3, <2>5, <2>6, <3>1, ZenonT(30)
  <2> DEFINE T == {k \in 0 .. Count : k >= n => g[k] = g[n]}
  <2>8. T \in SUBSET (0 .. Count) /\ 0 \in T
    BY <1>1
  <2>9. ASSUME NEW k \in T, k < Count PROVE k + 1 \in T
    <3>1. /\ k + 1 \in 1 .. Count /\ k + 1 \in 0 .. Count /\ (k + 1) - 1 = k
          /\ Count + 1 - (k + 1) \in 1 .. Count /\ k \in 0 .. Count
      BY <1>1, <2>9
    <3>2. CASE k >= n
      <4>1. g[k] = g[n] /\ g[k].r = 0 /\ g[k] \in Decodings
        BY <2>6, <2>7, <2>9, <3>1, <3>2, SMTT(30)
      <4>2. g[k + 1] = DecodeNext(g[k], Count + 1 - (k + 1))
        BY <2>4, <3>1, ZenonT(30) DEF DecodeRuns
      <4>3. g[k + 1] = g[k]
        BY <3>1, <4>1, <4>2, DecodeNextIs, SMTT(30)
      <4> QED
        BY <3>1, <4>1, <4>3, ZenonT(30)
    <3>3. CASE k + 1 = n
      BY <3>1, <3>3
    <3>4. CASE k + 1 < n
      BY <1>1, <3>1, <3>4, SMTT(30)
    <3> QED
      BY <1>1, <3>1, <3>2, <3>3, <3>4
  <2>10. \A k \in 0 .. Count : k \in T
    <3> HIDE DEF T
    <3> QED
      BY <1>1, <2>8, <2>9, Reaches, SMTT(30)
  <2>11. g[Count] = g[n]
    BY <1>1, <2>10
  <2>12. decode(n, f[n].r) = SubSeq(f[n].order, 1, n)
    BY <2>4, <2>5, <2>11 DEF DecodeRuns
  <2>13. SubSeq(f[n].order, 1, n) = registers
    <3> DEFINE order == f[n].order
    <3>1. order \in Seq(CalleeSaved) /\ Len(order) = Count
      BY <1>1, <2>3
    <3>2. \A i \in 1 .. n : order[i] = registers[i]
      BY <2>3
    <3> HIDE DEF order
    <3>3. SubSeq(order, 1, n) = [i \in 1 .. n |-> order[i]]
      BY <1>1, <3>1
    <3>4. registers = [i \in 1 .. n |-> registers[i]]
      OBVIOUS
    <3> QED
      BY <3>2, <3>3, <3>4 DEF order
  <2> QED
    BY <2>3, <2>12, <2>13
<1> QED
  BY <1>3, <1>4, <1>5

LEMMA EncodeTooLong ==
    ASSUME NEW D, NEW registers \in Seq(D), encode(registers).fails = "no"
    PROVE  Len(registers) <= RegisterCount
<1> DEFINE n == Len(registers)
<1> SUFFICES ASSUME n > Count PROVE FALSE
  BY CountTyped DEF Count
<1>1. PICK f : EncodeRuns(registers, f)
  BY EncodeRun
<1>2. n \in Nat /\ \A k \in 1 .. n : f[k] = Round(f[k - 1], registers[k])
  BY <1>1 DEF EncodeRuns
<1>3. f[0].fails = "yes"
  BY <1>1 DEF EncodeRuns, Start, Count
<1> DEFINE T == {k \in 0 .. n : f[k].fails = "yes"}
<1>4. T \in SUBSET (0 .. n) /\ 0 \in T
  BY <1>2, <1>3
<1>5. ASSUME NEW k \in T, k < n PROVE k + 1 \in T
  <2>1. k + 1 \in 1 .. n /\ k + 1 \in 0 .. n /\ (k + 1) - 1 = k /\ f[k].fails = "yes"
    BY <1>2, <1>5
  <2>2. f[k + 1] = f[k]
    BY <1>2, <2>1 DEF Round
  <2> QED
    BY <2>1, <2>2
<1>6. \A k \in 0 .. n : k \in T
  <2> HIDE DEF T, n
  <2> QED
    BY <1>2, <1>4, <1>5, Reaches, ZenonT(30)
<1>7. f[n].fails = "yes"
  BY <1>2, <1>6
<1> QED
  BY <1>1, <1>7 DEF EncodeRuns

LEMMA EncodableIsDistinct ==
    ASSUME NEW D, NEW s \in Seq(D)
    PROVE  Encodable(s) <=> Distinct(s, Len(s))
<1>1. DOMAIN s = 1 .. Len(s)
  OBVIOUS
<1>2. ToSet(s) \subseteq CalleeSaved <=> \A i \in 1 .. Len(s) : s[i] \in CalleeSaved
  BY <1>1 DEF ToSet
<1> QED
  BY <1>1, <1>2 DEF Encodable, CalleeSaved, IsInjective, Distinct

Collected ==
    /\ collected \in Seq(ToSet(ENCODE_REGISTERS) \cup Others)
    /\ Len(collected) <= RegisterCount

LEMMA CollectedRoundTrips == Collected => RoundTrip
<1> SUFFICES ASSUME Collected PROVE RoundTrip
  OBVIOUS
<1> DEFINE e == encode(collected)
           D == ToSet(ENCODE_REGISTERS) \cup Others
<1>1. collected \in Seq(D) /\ Len(collected) <= RegisterCount
  BY DEF Collected
<1> HIDE DEF D
<1>2. Encodable(collected) <=> Distinct(collected, Len(collected))
  BY <1>1, EncodableIsDistinct
<1>3. /\ e.fails = "no" <=> Distinct(collected, Len(collected))
      /\ e.fails = "no" => decode(e.count, e.r) = collected
  BY <1>1, DecodeUndoesEncode
<1> QED
  BY <1>2, <1>3, Zenon DEF RoundTrip

(***************************************************************************)
(* Whatever pops for_sequence_of_offset_or_pop has collected, in any order *)
(* of any registers, a rule made from them pops exactly these: decode      *)
(* undoes encode, and encode fails only where there can be no encoding.    *)
(* This holds for every ENCODE_REGISTERS whose orders can be counted in    *)
(* the bits of the encoding, not only for the eight of the code.           *)
(***************************************************************************)
THEOREM PopsRoundTrip == PopsSpec => []RoundTrip
<1>1. PopsInit => Collected
  BY CountTyped DEF PopsInit, Collected, Count
<1>2. Collected /\ [PopsNext]_PopsVars => Collected'
  <2> SUFFICES ASSUME Collected, [PopsNext]_PopsVars PROVE Collected'
    OBVIOUS
  <2> DEFINE D == ToSet(ENCODE_REGISTERS) \cup Others
  <2>1. collected \in Seq(D) /\ Len(collected) <= RegisterCount /\ RegisterCount \in Nat
    BY CountTyped DEF Collected, Count
  <2>2. ASSUME NEW reg \in D, try_push(reg) PROVE Collected'
    <3>1. CASE Len(collected) < RegisterCount /\ collected' = Append(collected, reg)
      BY <2>1, <2>2, <3>1 DEF Collected
    <3>2. CASE UNCHANGED collected
      BY <2>1, <3>2 DEF Collected
    <3> QED
      BY <2>2, <3>1, <3>2 DEF try_push
  <2>3. CASE UNCHANGED PopsVars
    BY <2>1, <2>3 DEF Collected, PopsVars
  <2> QED
    BY <2>2, <2>3 DEF PopsNext
<1> QED
  BY <1>1, <1>2, CollectedRoundTrips, PTL DEF PopsSpec
=============================================================================
