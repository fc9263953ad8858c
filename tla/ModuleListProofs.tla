--------------------------- MODULE ModuleListProofs ---------------------------
(***************************************************************************)
(* Facts about the module list for every list and every set of modules.    *)
(***************************************************************************)
EXTENDS ModuleList, PtrAuthMask, SequenceTheorems, FiniteSetTheorems, TLAPS

LEMMA InsertAtProperties ==
    ASSUME NEW S, NEW s \in Seq(S), NEW e \in S, NEW i \in 1 .. Len(s) + 1
    PROVE  /\ InsertAt(s, i, e) \in Seq(S)
           /\ Len(InsertAt(s, i, e)) = Len(s) + 1
           /\ \A j \in 1 .. Len(s) + 1 : InsertAt(s, i, e)[j] =
                 IF j < i THEN s[j] ELSE IF j = i THEN e ELSE s[j - 1]
<1> DEFINE a == SubSeq(s, 1, i - 1)
           b == SubSeq(s, i, Len(s))
           c == a \o <<e>>
<1>1. /\ a \in Seq(S) /\ Len(a) = i - 1
      /\ \A j \in 1 .. i - 1 : a[j] = s[j]
  <2>1. \A j \in 1 .. i - 1 : s[j] \in S
    BY ElementOfSeq
  <2> QED
    BY <2>1, SubSeqProperties
<1>2. /\ b \in Seq(S) /\ Len(b) = Len(s) - i + 1
      /\ \A j \in 1 .. Len(s) - i + 1 : b[j] = s[i + j - 1]
  <2>1. \A j \in i .. Len(s) : s[j] \in S
    BY ElementOfSeq
  <2> QED
    BY <2>1, SubSeqProperties
<1>3. <<e>> \in Seq(S) /\ Len(<<e>>) = 1 /\ <<e>>[1] = e
  OBVIOUS
<1> HIDE DEF a, b
<1>4. /\ c \in Seq(S) /\ Len(c) = i
      /\ \A j \in 1 .. i : c[j] = IF j < i THEN s[j] ELSE e
  BY <1>1, <1>3, ConcatProperties
<1> HIDE DEF c
<1>5. /\ c \o b \in Seq(S) /\ Len(c \o b) = Len(s) + 1
      /\ \A j \in 1 .. Len(s) + 1 : (c \o b)[j] = IF j <= i THEN c[j] ELSE b[j - i]
  BY <1>2, <1>4, ConcatProperties
<1>6. \A j \in 1 .. Len(s) + 1 : j > i => b[j - i] = s[j - 1]
  BY <1>2
<1>7. InsertAt(s, i, e) = c \o b
  BY DEF InsertAt, a, b, c
<1> QED
  BY <1>4, <1>5, <1>6, <1>7

LEMMA RemoveAtProperties ==
    ASSUME NEW S, NEW s \in Seq(S), NEW i \in 1 .. Len(s)
    PROVE  /\ RemoveAt(s, i) \in Seq(S)
           /\ Len(RemoveAt(s, i)) = Len(s) - 1
           /\ \A j \in 1 .. Len(s) - 1 : RemoveAt(s, i)[j] =
                 IF j < i THEN s[j] ELSE s[j + 1]
<1> DEFINE a == SubSeq(s, 1, i - 1)
           b == SubSeq(s, i + 1, Len(s))
<1>1. /\ a \in Seq(S) /\ Len(a) = i - 1
      /\ \A j \in 1 .. i - 1 : a[j] = s[j]
  <2>1. \A j \in 1 .. i - 1 : s[j] \in S
    BY ElementOfSeq
  <2> QED
    BY <2>1, SubSeqProperties
<1>2. /\ b \in Seq(S) /\ Len(b) = Len(s) - i
      /\ \A j \in 1 .. Len(s) - i : b[j] = s[i + j]
  <2>1. \A j \in i + 1 .. Len(s) : s[j] \in S
    BY ElementOfSeq
  <2> QED
    BY <2>1, SubSeqProperties
<1> HIDE DEF a, b
<1>3. /\ a \o b \in Seq(S) /\ Len(a \o b) = Len(s) - 1
      /\ \A j \in 1 .. Len(s) - 1 : (a \o b)[j] = IF j < i THEN a[j] ELSE b[j - i + 1]
  <2>1. /\ a \o b \in Seq(S) /\ Len(a \o b) = Len(a) + Len(b)
        /\ \A j \in 1 .. Len(a) + Len(b) :
              (a \o b)[j] = IF j <= Len(a) THEN a[j] ELSE b[j - Len(a)]
    BY <1>1, <1>2, ConcatProperties, ZenonT(60)
  <2>2. Len(a) + Len(b) = Len(s) - 1
    BY <1>1, <1>2
  <2>3. \A j \in 1 .. Len(s) - 1 : (j <= Len(a) <=> j < i) /\ j - Len(a) = j - i + 1
    BY <1>1
  <2> QED
    BY <2>1, <2>2, <2>3
<1>4. \A j \in 1 .. Len(s) - 1 : j >= i => b[j - i + 1] = s[j + 1]
  BY <1>2
<1>5. RemoveAt(s, i) = a \o b
  BY DEF RemoveAt, a, b
<1> QED
  BY <1>1, <1>3, <1>4, <1>5

-----------------------------------------------------------------------------
(***************************************************************************)
(* add_module and remove_module keep a list of modules, and keep it sorted *)
(* by start address, whichever matching position the binary search gives.  *)
(***************************************************************************)
LEMMA AddedProperties ==
    ASSUME NEW modules \in Seq(Modules), NEW module \in Modules,
           NEW list \in Added(modules, module)
    PROVE  /\ list \in Seq(Modules)
           /\ SortedByStart(modules) => SortedByStart(list)
<1> DEFINE Splits(i) ==
             /\ \A k \in 1 .. i - 1 : modules[k].start <= module.start
             /\ \A k \in i .. Len(modules) : module.start <= modules[k].start
<1>0. /\ Len(modules) \in Nat /\ module.start \in Nat
      /\ \A k \in 1 .. Len(modules) : modules[k].start \in Nat
  BY ModulesAssumption, SMTT(30)
<1>1. PICK r \in BinarySearch(modules, module.start) :
         list = InsertAt(modules, r.index, module)
  BY DEF Added
<1>2. PICK i \in 1 .. Len(modules) + 1 :
         /\ list = InsertAt(modules, i, module)
         /\ SortedByStart(modules) => Splits(i)
  <2>1. CASE r.ok
    <3>1. r.index \in 1 .. Len(modules) /\ modules[r.index].start = module.start
      BY <2>1 DEF BinarySearch
    <3>2. SortedByStart(modules) => Splits(r.index)
      BY <1>0, <3>1 DEF SortedByStart
    <3> QED
      BY <1>0, <1>1, <3>1, <3>2
  <2>2. CASE ~r.ok
    <3>1. /\ r.index \in 1 .. Len(modules) + 1
          /\ \A k \in 1 .. r.index - 1 : modules[k].start < module.start
          /\ \A k \in r.index .. Len(modules) : module.start < modules[k].start
      BY <2>2 DEF BinarySearch
    <3>2. Splits(r.index)
      BY <1>0, <3>1
    <3> QED
      BY <1>1, <3>1, <3>2
  <2> QED
    BY <2>1, <2>2
<1>3. /\ list \in Seq(Modules)
      /\ Len(list) = Len(modules) + 1
      /\ \A j \in 1 .. Len(modules) + 1 : list[j] =
            IF j < i THEN modules[j] ELSE IF j = i THEN module ELSE modules[j - 1]
  <2>1. list = InsertAt(modules, i, module)
    BY <1>2
  <2> HIDE DEF Splits
  <2>2. /\ InsertAt(modules, i, module) \in Seq(Modules)
        /\ Len(InsertAt(modules, i, module)) = Len(modules) + 1
    BY InsertAtProperties
  <2>3. \A j \in 1 .. Len(modules) + 1 : InsertAt(modules, i, module)[j] =
           IF j < i THEN modules[j] ELSE IF j = i THEN module ELSE modules[j - 1]
    BY InsertAtProperties
  <2> QED
    BY <2>1, <2>2, <2>3
<1>4. ASSUME SortedByStart(modules)
      PROVE  SortedByStart(list)
  <2> SUFFICES ASSUME NEW j \in 1 .. Len(modules) + 1, NEW k \in 1 .. Len(modules) + 1,
                      j <= k
               PROVE  list[j].start <= list[k].start
    BY <1>3 DEF SortedByStart
  <2>0. Splits(i)
    BY <1>2, <1>4
  <2>1. CASE k < i
    <3>1. list[j] = modules[j] /\ list[k] = modules[k]
      BY <1>0, <1>3, <2>1
    <3> QED
      BY <1>0, <1>4, <2>1, <3>1 DEF SortedByStart
  <2>2. CASE k = i
    <3>1. list[k] = module /\ (j = i => list[j] = module) /\ (j < i => list[j] = modules[j])
      BY <1>0, <1>3, <2>2
    <3> QED
      BY <1>0, <2>0, <2>2, <3>1
  <2>3. CASE i < k
    <3>1. k - 1 \in i .. Len(modules) /\ list[k] = modules[k - 1]
      BY <1>0, <1>3, <2>3
    <3>2. CASE j < i
      <4>1. list[j] = modules[j] /\ j \in 1 .. Len(modules) /\ j <= k - 1
        BY <1>0, <1>3, <3>1, <3>2
      <4> QED
        BY <1>0, <1>4, <3>1, <4>1 DEF SortedByStart
    <3>3. CASE j = i
      <4>1. list[j] = module
        BY <1>3, <3>3
      <4> QED
        BY <2>0, <3>1, <4>1
    <3>4. CASE i < j
      <4>1. list[j] = modules[j - 1] /\ j - 1 \in 1 .. Len(modules) /\ j - 1 <= k - 1
        BY <1>0, <1>3, <3>1, <3>4
      <4> QED
        BY <1>0, <1>4, <3>1, <4>1, SMTT(30) DEF SortedByStart
    <3> QED
      BY <3>2, <3>3, <3>4
  <2> QED
    BY <2>1, <2>2, <2>3
<1> QED
  BY <1>3, <1>4

LEMMA RemovedProperties ==
    ASSUME NEW modules \in Seq(Modules), NEW start,
           NEW list \in Removed(modules, start)
    PROVE  /\ list \in Seq(Modules)
           /\ SortedByStart(modules) => SortedByStart(list)
<1>1. PICK r \in BinarySearch(modules, start) :
         r.ok /\ list = RemoveAt(modules, r.index)
  BY DEF Removed
<1>2. r.index \in 1 .. Len(modules)
  BY <1>1 DEF BinarySearch
<1>3. /\ list \in Seq(Modules)
      /\ Len(list) = Len(modules) - 1
      /\ \A j \in 1 .. Len(modules) - 1 : list[j] =
            IF j < r.index THEN modules[j] ELSE modules[j + 1]
  BY <1>1, <1>2, RemoveAtProperties, ZenonT(60)
<1>4. Len(modules) \in Nat
  OBVIOUS
<1>5. ASSUME SortedByStart(modules)
      PROVE  SortedByStart(list)
  <2> SUFFICES ASSUME NEW j \in 1 .. Len(modules) - 1, NEW k \in 1 .. Len(modules) - 1,
                      j <= k
               PROVE  list[j].start <= list[k].start
    BY <1>3 DEF SortedByStart
  <2> DEFINE from(n) == IF n < r.index THEN n ELSE n + 1
  <2>1. /\ from(j) \in 1 .. Len(modules) /\ from(k) \in 1 .. Len(modules)
        /\ from(j) <= from(k)
    BY <1>2, <1>4
  <2>2. list[j] = modules[from(j)] /\ list[k] = modules[from(k)]
    BY <1>3
  <2> QED
    BY <1>5, <2>1, <2>2 DEF SortedByStart
<1> QED
  BY <1>3, <1>5

-----------------------------------------------------------------------------
(***************************************************************************)
(* On a sorted list of modules that do not overlap,                        *)
(* find_module_for_address gives the module that contains the address, and *)
(* gives it exactly when the relative address can be represented.          *)
(***************************************************************************)
LEMMA FindExact ==
    ASSUME NEW modules \in Seq(Modules), SortedByStart(modules), DisjointModules(modules),
           NEW address \in Nat, NEW found \in find_module_for_address(modules, address),
           NEW i \in DOMAIN modules
    PROVE  found.index = i <=> /\ Covers(modules[i], address)
                               /\ modules[i].base <= address
                               /\ address - modules[i].base <= MaxRel
<1>0. /\ Len(modules) \in Nat /\ DOMAIN modules = 1 .. Len(modules)
      /\ \A k \in 1 .. Len(modules) :
            modules[k].start \in Nat /\ modules[k].end \in Nat /\ modules[k].base \in Nat
      /\ MaxRel \in Nat
  <2>1. Len(modules) \in Nat /\ DOMAIN modules = 1 .. Len(modules)
    OBVIOUS
  <2>2. ASSUME NEW k \in 1 .. Len(modules) PROVE modules[k] \in Modules
    OBVIOUS
  <2>3. ASSUME NEW mod \in Modules PROVE mod.start \in Nat /\ mod.end \in Nat /\ mod.base \in Nat
    BY ModulesAssumption, SMTT(30)
  <2> QED
    BY <2>1, <2>2, <2>3, ModulesAssumption, SMTT(30)
<1>1. PICK r \in BinarySearch(modules, address) : found = Locate(modules, r, address)
  BY DEF find_module_for_address
<1> DEFINE at == IF r.ok THEN r.index ELSE r.index - 1
<1>2. /\ at \in 0 .. Len(modules)
      /\ at # 0 /\ (r.ok \/ address < modules[at].end) => Covers(modules[at], address)
      /\ \A k \in 1 .. Len(modules) : Covers(modules[k], address) => k = at
      /\ ~r.ok /\ at # 0 /\ modules[at].end <= address => ~Covers(modules[at], address)
  <2>1. CASE r.ok
    <3>1. at \in 1 .. Len(modules) /\ modules[at].start = address
      BY <2>1 DEF BinarySearch
    <3>2. Covers(modules[at], address)
      BY <1>0, <3>1 DEF Covers, DisjointModules
    <3> HIDE DEF at
    <3>3. ASSUME NEW k \in 1 .. Len(modules), Covers(modules[k], address)
          PROVE  k = at
      <4>1. k # at => \/ modules[k].end <= modules[at].start
                      \/ modules[at].end <= modules[k].start
        BY <1>0, <3>1, SMTT(30) DEF DisjointModules
      <4>2. modules[k].start <= address /\ address < modules[k].end
        BY <3>3 DEF Covers
      <4>3. address < modules[at].end
        BY <3>2 DEF Covers
      <4> QED
        BY <1>0, <3>1, <4>1, <4>2, <4>3
    <3> QED
      BY <1>0, <2>1, <3>1, <3>2, <3>3
  <2>2. CASE ~r.ok
    <3>1. /\ at \in 0 .. Len(modules)
          /\ \A k \in 1 .. at : modules[k].start < address
          /\ \A k \in at + 1 .. Len(modules) : address < modules[k].start
      BY <1>0, <2>2 DEF BinarySearch
    <3> HIDE DEF at
    <3>2. ASSUME NEW k \in 1 .. Len(modules), Covers(modules[k], address)
          PROVE  k = at
      <4>1. k <= at
        BY <1>0, <3>1, <3>2 DEF Covers
      <4>2. ASSUME k < at PROVE FALSE
        <5>0. at \in 1 .. Len(modules) /\ k # at /\ k <= at
          BY <1>0, <3>1, <4>2
        <5>1. /\ modules[k].start <= modules[at].start
              /\ modules[k].end <= modules[at].start \/ modules[at].end <= modules[k].start
              /\ modules[at].start < modules[at].end
          BY <1>0, <5>0, SMTT(30) DEF SortedByStart, DisjointModules
        <5>2. modules[at].start < address /\ address < modules[k].end
          BY <3>1, <3>2, <4>2 DEF Covers
        <5> QED
          BY <1>0, <3>1, <4>2, <5>1, <5>2
      <4> QED
        BY <3>1, <4>1, <4>2
    <3>3. at # 0 => modules[at].start < address
      BY <3>1
    <3> QED
      BY <1>0, <2>2, <3>1, <3>2, <3>3 DEF Covers
  <2> QED
    BY <2>1, <2>2
<1>3. found = IF \/ at = 0
                 \/ ~r.ok /\ modules[at].end <= address
                 \/ address < modules[at].base
                 \/ address - modules[at].base > MaxRel
              THEN NotFound
              ELSE [index |-> at, rel |-> address - modules[at].base]
  BY <1>1 DEF Locate
<1> HIDE DEF at
<1>4. CASE found = NotFound
  <2>1. found.index = 0
    BY <1>4 DEF NotFound
  <2>2. \/ at = 0
        \/ ~r.ok /\ modules[at].end <= address
        \/ address < modules[at].base
        \/ address - modules[at].base > MaxRel
    BY <1>3, <1>4, <1>2 DEF NotFound
  <2> QED
    BY <1>0, <1>2, <2>1, <2>2, SMTT(30)
<1>5. CASE found # NotFound
  <2>1. /\ found.index = at /\ at # 0
        /\ r.ok \/ ~(modules[at].end <= address)
        /\ ~(address < modules[at].base)
        /\ ~(address - modules[at].base > MaxRel)
    BY <1>3, <1>5
  <2> QED
    BY <1>0, <1>2, <2>1, SMTT(30)
<1> QED
  BY <1>4, <1>5

(***************************************************************************)
(* On such a list max_known_code_address bounds the end of every module.   *)
(***************************************************************************)
LEMMA MaxKnownAddress ==
    ASSUME NEW modules \in Seq(Modules), SortedByStart(modules), DisjointModules(modules),
           NEW i \in DOMAIN modules
    PROVE  modules[i].end <= max_known_code_address(modules)
<1> DEFINE n == Len(modules)
<1>0. /\ n \in Nat /\ DOMAIN modules = 1 .. n
      /\ \A k \in 1 .. n : modules[k].start \in Nat /\ modules[k].end \in Nat
  BY ModulesAssumption, SMTT(30)
<1>1. n \in 1 .. n /\ max_known_code_address(modules) = modules[n].end
  BY <1>0 DEF max_known_code_address
<1>2. /\ modules[i].start <= modules[n].start
      /\ i = n \/ modules[i].end <= modules[n].start \/ modules[n].end <= modules[i].start
      /\ modules[n].start < modules[n].end
  BY <1>0, <1>1 DEF SortedByStart, DisjointModules
<1> QED
  BY <1>0, <1>1, <1>2

-----------------------------------------------------------------------------
(***************************************************************************)
(* Masks for pointer authentication.  Of powers of two, no more is needed  *)
(* than that they are numbers and how they begin: both are facts about the *)
(* number of subsets of a set.                                             *)
(***************************************************************************)
Power(k) == 2^k

LEMMA PowerTyped == Power(0) = 1 /\ \A k \in Nat : Power(k) \in Nat
<1>1. Power(0) = 1
  <2>1. Cardinality(SUBSET {}) = 2^Cardinality({}) /\ Cardinality({}) = 0
    BY FS_SUBSET, FS_EmptySet
  <2>2. SUBSET {} = {{}} /\ Cardinality({{}}) = 1
    BY FS_Singleton
  <2> QED
    BY <2>1, <2>2 DEF Power
<1>2. ASSUME NEW k \in Nat PROVE Power(k) \in Nat
  <2> DEFINE S == 1 .. k
  <2>1. IsFiniteSet(S) /\ Cardinality(S) = k
    BY FS_Interval
  <2> HIDE DEF S
  <2>2. IsFiniteSet(SUBSET S) /\ Cardinality(SUBSET S) = 2^Cardinality(S)
    BY <2>1, FS_SUBSET
  <2>3. Cardinality(SUBSET S) \in Nat
    BY <2>2, FS_CardinalityType
  <2> QED
    BY <2>1, <2>2, <2>3 DEF Power
<1> QED
  BY <1>1, <1>2

(***************************************************************************)
(* A nonempty set of numbers up to n has a smallest one: the m for which   *)
(* 0 .. m is smallest.                                                     *)
(***************************************************************************)
LEMMA Smallest ==
    ASSUME NEW n \in Nat, NEW T \in SUBSET (0 .. n), T # {}
    PROVE  \E m \in T : \A j \in T : m <= j
<1> DEFINE S == 0 .. n
           R == StrictSubsetOrdering(S)
           upto == {0 .. m : m \in T}
<1>1. IsFiniteSet(S)
  BY FS_Interval
<1>2. IsWellFoundedOn(R, SUBSET S)
  <2> HIDE DEF S
  <2> QED
    BY <1>1, FS_StrictSubsetOrderingWellFounded, FS_FiniteSubsetsOfFinite
<1>3. upto \subseteq SUBSET S /\ upto # {}
  <2>1. \A m \in T : 0 .. m \subseteq S
    OBVIOUS
  <2> HIDE DEF S
  <2> QED
    BY <2>1
<1>4. PICK x \in upto : \A y \in upto : <<y, x>> \notin R
  <2> HIDE DEF S, R, upto
  <2> QED
    BY <1>2, <1>3, WFMin
<1>5. PICK m \in T : x = 0 .. m
  OBVIOUS
<1>6. ASSUME NEW j \in T, j < m PROVE FALSE
  <2>1. 0 .. j \subseteq 0 .. m /\ m \in 0 .. m /\ m \notin 0 .. j
    BY <1>6
  <2>2. <<0 .. j, 0 .. m>> \in R
    BY <2>1 DEF StrictSubsetOrdering
  <2> QED
    BY <1>4, <1>5, <2>2
<1> QED
  BY <1>6

(***************************************************************************)
(* What leading_zeros counts: the address fits the bits that are left, and *)
(* no fewer.                                                               *)
(***************************************************************************)
LEMMA LeadingZeros ==
    ASSUME NEW address \in Nat, address < Power(Bits)
    PROVE  /\ leading_zeros(address) \in 0 .. Bits
           /\ address < Power(Bits - leading_zeros(address))
           /\ \/ leading_zeros(address) = Bits
              \/ Power(Bits - leading_zeros(address) - 1) <= address
<1> DEFINE wide == {k \in 0 .. Bits : address < Power(k)}
           P(z) == address < Power(Bits - z) /\ (z = Bits \/ Power(Bits - z - 1) <= address)
<1>1. Bits \in wide /\ wide \in SUBSET (0 .. Bits)
  BY BitsAssumption
<1>2. PICK k \in wide : \A j \in wide : k <= j
  BY <1>1, BitsAssumption, Smallest
<1>3. k - 1 \notin wide
  BY <1>2
<1>4. \A j \in Nat : Power(j) \in Nat
  BY PowerTyped
<1> HIDE DEF wide
<1>5. Bits - k \in 0 .. Bits /\ Bits - (Bits - k) = k
  BY <1>1, <1>2, BitsAssumption
<1>6. P(Bits - k)
  BY <1>2, <1>3, <1>4, <1>5, BitsAssumption DEF wide
<1>7. leading_zeros(address) = CHOOSE z \in 0 .. Bits : P(z)
  BY DEF leading_zeros, Power
<1> HIDE DEF P
<1>8. leading_zeros(address) \in 0 .. Bits /\ P(leading_zeros(address))
  BY <1>5, <1>6, <1>7
<1> QED
  BY <1>8 DEF P

(***************************************************************************)
(* The mask made from an address that is not 0 leaves all addresses up to  *)
(* it as they are.                                                         *)
(***************************************************************************)
LEMMA MaskKeeps ==
    ASSUME NEW max \in Nat \ {0}, max < Power(Bits),
           NEW mask \in from_max_known_address(max), NEW address \in 0 .. max
    PROVE  strip_ptr_auth(mask, address) = address
<1> DEFINE z == leading_zeros(max)
<1>1. z \in 0 .. Bits /\ max < Power(Bits - z)
  BY LeadingZeros
<1> HIDE DEF z
<1>2. z # Bits
  <2>1. Bits - Bits = 0
    BY BitsAssumption
  <2> QED
    BY <1>1, <2>1, PowerTyped
<1>3. mask = Power(Bits - z)
  BY <1>2 DEF from_max_known_address, Power, z
<1>4. mask \in Nat /\ address < mask
  BY <1>1, <1>3, PowerTyped, BitsAssumption
<1> QED
  BY <1>4 DEF strip_ptr_auth
=============================================================================
