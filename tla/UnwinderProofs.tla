---------------------------- MODULE UnwinderProofs ----------------------------
(***************************************************************************)
(* Proofs about unwinders and rule caches, for any numbers of unwinders,   *)
(* caches, slots and generations, any modules, code addresses and unwind   *)
(* data.                                                                   *)
(***************************************************************************)
EXTENDS Unwinder, ModuleListProofs, FiniteSetTheorems

LEMMA SlotInRange == \A address \in Nat : Slot(address) \in Slots
BY CacheAssumption DEF Slot, Slots

LEMMA FrameCases ==
    ASSUME NEW frame \in FrameAddress
    PROVE  \/ /\ frame.kind = "InstructionPointer" /\ frame.address \in IPs
              /\ address_for_lookup(frame) = frame.address
           \/ /\ frame.kind = "ReturnAddress" /\ frame.address \in RAs
              /\ address_for_lookup(frame) = frame.address - 1
BY DEF FrameAddress, address_for_lookup

LEMMA LookupAddress ==
    ASSUME NEW frame \in FrameAddress
    PROVE  address_for_lookup(frame) \in Nat
<1>1. \A ip \in IPs : ip \in Nat
  BY CodeAssumption
<1>2. \A ra \in RAs : ra - 1 \in Nat
  BY CodeAssumption
<1> QED
  BY <1>1, <1>2, FrameCases

(***************************************************************************)
(* A lookup address determines the frame address: the key of the cache     *)
(* need not say whether the frame is the first one.                        *)
(***************************************************************************)
LEMMA LookupInjective ==
    ASSUME NEW f \in FrameAddress, NEW g \in FrameAddress,
           address_for_lookup(f) = address_for_lookup(g)
    PROVE  f = g
<1>1. \A ip \in IPs, ra \in RAs : ip # ra - 1
  BY CodeAssumption
<1>2. \A a, b \in RAs : a - 1 = b - 1 => a = b
  BY CodeAssumption
<1>3. f.kind = g.kind
  BY <1>1, FrameCases
<1>4. f.address = g.address
  <2>1. CASE f.kind = "InstructionPointer"
    BY <1>3, <2>1, FrameCases
  <2>2. CASE f.kind = "ReturnAddress"
    BY <1>2, <1>3, <2>2, FrameCases
  <2> QED
    BY <2>1, <2>2, FrameCases
<1> QED
  BY <1>3, <1>4 DEF FrameAddress

LEMMA ResultsTyped ==
    ASSUME NEW list \in Seq(Modules), NEW frame \in FrameAddress, NEW readable \in BOOLEAN,
           NEW result \in UncachedResults(list, frame, readable)
    PROVE  result \in Results
BY FallbackAssumption DEF UncachedResults, ResultAt, unwind_frame_impl, Results

LEMMA NextGenerationTyped ==
    ASSUME draws \in Nat
    PROVE  next_global_modules_generation \in Generations
BY CacheAssumption DEF next_global_modules_generation, Generations

(***************************************************************************)
(* Type correctness.                                                       *)
(***************************************************************************)
LEMMA TypeStep == TypeOK /\ [Next]_vars => TypeOK'
<1> SUFFICES ASSUME TypeOK, [Next]_vars PROVE TypeOK'
  OBVIOUS
<1> USE DEF TypeOK
<1>1. ASSUME NEW u \in Unwinders, new(u) PROVE TypeOK'
  BY <1>1, NextGenerationTyped, EmptySeq DEF new
<1>2. ASSUME NEW u \in Unwinders, drop(u) PROVE TypeOK'
  BY <1>2, CacheAssumption, EmptySeq DEF drop, Generations
<1>3. ASSUME NEW u \in Unwinders, NEW v \in Unwinders, clone(u, v) PROVE TypeOK'
  BY <1>3 DEF clone
<1>4. ASSUME NEW u \in Unwinders, NEW module \in Modules, add_module(u, module)
      PROVE  TypeOK'
  <2>1. PICK list \in Added(modules[u], module) : SetModules(u, list)
    BY <1>4 DEF add_module
  <2>2. list \in Seq(Modules)
    BY AddedProperties
  <2> QED
    BY <2>1, <2>2, NextGenerationTyped DEF SetModules
<1>5. ASSUME NEW u \in Unwinders, NEW start, remove_module(u, start)
      PROVE  TypeOK'
  <2>1. PICK list \in Removed(modules[u], start) : SetModules(u, list)
    BY <1>5 DEF remove_module
  <2>2. list \in Seq(Modules)
    BY RemovedProperties
  <2> QED
    BY <2>1, <2>2, NextGenerationTyped DEF SetModules
<1>6. ASSUME NEW u \in Unwinders, NEW c \in Caches, NEW frame \in FrameAddress,
             CountLookup(u, c, frame)
      PROVE  stats' \in [Caches -> [Outcomes -> Nat]]
  <2>1. LookedUp(u, c, frame) \in Outcomes
    BY DEF LookedUp, Outcome, Outcomes
  <2>2. Count(stats[c], LookedUp(u, c, frame)) \in [Outcomes -> Nat]
    BY <2>1 DEF Count
  <2> QED
    BY <1>6, <2>2 DEF CountLookup
<1>7. ASSUME NEW u \in Unwinders, NEW c \in Caches, NEW frame \in FrameAddress,
             NEW readable \in BOOLEAN, unwind_frame_hit(u, c, frame, readable)
      PROVE  TypeOK'
  <2>1. stats' \in [Caches -> [Outcomes -> Nat]]
    BY <1>6, <1>7 DEF unwind_frame_hit
  <2>2. entries[c][Slot(address_for_lookup(frame))] \in CacheEntry \cup {None}
    BY LookupAddress, SlotInRange
  <2>3. entries[c][Slot(address_for_lookup(frame))] # None
    BY <1>7 DEF unwind_frame_hit, LookedUp, Outcome
  <2>4. CachedRule(entries[c], address_for_lookup(frame)) \in Results
    BY <2>2, <2>3 DEF CachedRule, CacheEntry, Results
  <2> QED
    BY <1>7, <2>1, <2>4 DEF unwind_frame_hit, Unwound
<1>8. ASSUME NEW u \in Unwinders, NEW c \in Caches, NEW frame \in FrameAddress,
             NEW readable \in BOOLEAN, unwind_frame_miss(u, c, frame, readable)
      PROVE  TypeOK'
  <2>1. stats' \in [Caches -> [Outcomes -> Nat]]
    BY <1>6, <1>8 DEF unwind_frame_miss
  <2>2. PICK result \in UncachedResults(modules[u], frame, readable) :
           /\ Unwound(u, frame, readable, result)
           /\ entries' = IF result = Uncacheable THEN entries
                         ELSE [entries EXCEPT ![c] =
                                 Insert(@, address_for_lookup(frame), generation[u], result)]
    BY <1>8 DEF unwind_frame_miss
  <2>3. result \in Results
    BY ResultsTyped
  <2>4. result # Uncacheable =>
           Insert(entries[c], address_for_lookup(frame), generation[u], result)
             \in [Slots -> CacheEntry \cup {None}]
    BY <2>3, LookupAddress DEF Insert, CacheEntry, Results
  <2>5. entries' \in [Caches -> [Slots -> CacheEntry \cup {None}]]
    BY <2>2, <2>4
  <2> QED
    BY <1>8, <2>1, <2>2, <2>3, <2>5 DEF unwind_frame_miss, Unwound
<1>9. CASE UNCHANGED vars
  BY <1>9 DEF vars
<1> QED
  BY <1>1, <1>2, <1>3, <1>4, <1>5, <1>7, <1>8, <1>9 DEF Next

LEMMA TypeInit == Init => TypeOK
BY CacheAssumption, EmptySeq
   DEF Init, TypeOK, EmptyCache, NewStats, Slots, Generations, Outcomes

(***************************************************************************)
(* The state variables keep their types in every behaviour; in particular  *)
(* a hit always finds a rule, and generations stay within the counter.     *)
(***************************************************************************)
THEOREM TypeCorrect == Spec => []TypeOK
BY TypeInit, TypeStep, PTL DEF Spec

-----------------------------------------------------------------------------
(***************************************************************************)
(* The inductive invariant behind the coherence of the cache.  Until the   *)
(* counter wraps, every generation in use was drawn earlier; so a freshly  *)
(* drawn one differs from all of them, and no existing entry can become    *)
(* usable for the unwinder that drew it.                                   *)
(***************************************************************************)
GenerationsDrawn ==
    /\ \A u \in alive : generation[u] < draws
    /\ \A c \in Caches, s \in Slots :
          entries[c][s] # None => entries[c][s].generation < draws

ClonesAgree ==
    \A u, v \in alive : generation[u] = generation[v] => modules[u] = modules[v]

GenerationInv ==
    draws <= GenCount => GenerationsDrawn /\ ClonesAgree /\ EntriesJustified

(***************************************************************************)
(* new, add_module and remove_module: u gets a list and a fresh generation.*)
(***************************************************************************)
LEMMA FreshStep ==
    ASSUME TypeOK, GenerationInv, NEW u \in Unwinders, NEW list,
           draws' = draws + 1,
           alive' = alive \cup {u},
           modules' = [modules EXCEPT ![u] = list],
           generation' = [generation EXCEPT ![u] = next_global_modules_generation],
           entries' = entries
    PROVE  GenerationInv'
<1> SUFFICES ASSUME draws' <= GenCount
             PROVE  GenerationsDrawn' /\ ClonesAgree' /\ EntriesJustified'
  BY DEF GenerationInv
<1>0. draws \in Nat /\ draws < GenCount /\ GenCount \in Nat
  BY CacheAssumption DEF TypeOK
<1>1. GenerationsDrawn /\ ClonesAgree /\ EntriesJustified
  BY <1>0 DEF GenerationInv
<1>2. next_global_modules_generation = draws
  BY <1>0 DEF next_global_modules_generation
<1>3. /\ modules'[u] = list /\ generation'[u] = draws
      /\ \A v \in Unwinders : v # u => modules'[v] = modules[v] /\ generation'[v] = generation[v]
  BY <1>2 DEF TypeOK
<1>4. \A v \in alive : v \in Unwinders /\ generation[v] \in Nat /\ generation[v] < draws
  BY <1>1, CacheAssumption DEF GenerationsDrawn, TypeOK, Generations
<1>5. \A c \in Caches, s \in Slots : entries[c][s] # None =>
         entries[c][s].generation \in Nat /\ entries[c][s].generation < draws
  BY <1>1, CacheAssumption DEF GenerationsDrawn, TypeOK, CacheEntry, Generations
<1>6. GenerationsDrawn'
  BY <1>0, <1>3, <1>4, <1>5 DEF GenerationsDrawn
<1>7. ClonesAgree'
  BY <1>0, <1>1, <1>3, <1>4 DEF ClonesAgree
<1>8. EntriesJustified'
  <2> SUFFICES ASSUME NEW c \in Caches, NEW s \in Slots, NEW v \in alive',
                      entries[c][s] # None, entries[c][s].generation = generation'[v]
               PROVE  Justified(entries[c][s], v)'
    BY DEF EntriesJustified
  <2>1. v # u
    BY <1>0, <1>3, <1>5
  <2>2. v \in alive /\ v \in Unwinders
    BY <2>1 DEF TypeOK
  <2>3. modules'[v] = modules[v] /\ generation'[v] = generation[v]
    BY <1>3, <2>1, <2>2
  <2>4. Justified(entries[c][s], v)
    BY <1>1, <2>2, <2>3 DEF EntriesJustified
  <2> QED
    BY <2>3, <2>4 DEF Justified
<1> QED
  BY <1>6, <1>7, <1>8

LEMMA CloneStep ==
    ASSUME TypeOK, GenerationInv, NEW u \in Unwinders, NEW v \in Unwinders, clone(u, v)
    PROVE  GenerationInv'
<1> SUFFICES ASSUME draws <= GenCount
             PROVE  GenerationsDrawn' /\ ClonesAgree' /\ EntriesJustified'
  BY DEF GenerationInv, clone
<1>1. GenerationsDrawn /\ ClonesAgree /\ EntriesJustified
  BY DEF GenerationInv
<1>2. /\ u \in alive /\ alive' = alive \cup {v} /\ entries' = entries /\ draws' = draws
      /\ modules'[v] = modules[u] /\ generation'[v] = generation[u]
      /\ \A w \in Unwinders : w # v => modules'[w] = modules[w] /\ generation'[w] = generation[w]
      /\ alive \subseteq Unwinders
  BY DEF clone, TypeOK
\* The clone stands for the unwinder it was made from.
<1> DEFINE of(w) == IF w = v THEN u ELSE w
<1>3. \A w \in alive' : /\ of(w) \in alive /\ modules'[w] = modules[of(w)]
                        /\ generation'[w] = generation[of(w)]
  BY <1>2
<1> HIDE DEF of
<1>4. GenerationsDrawn'
  BY <1>1, <1>2, <1>3 DEF GenerationsDrawn
<1>5. ClonesAgree'
  BY <1>1, <1>3 DEF ClonesAgree
<1>6. EntriesJustified'
  <2> SUFFICES ASSUME NEW c \in Caches, NEW s \in Slots, NEW w \in alive',
                      entries[c][s] # None, entries[c][s].generation = generation'[w]
               PROVE  Justified(entries[c][s], w)'
    BY <1>2 DEF EntriesJustified
  <2>1. Justified(entries[c][s], of(w))
    BY <1>1, <1>3 DEF EntriesJustified
  <2>2. modules'[w] = modules[of(w)] /\ entries' = entries
    BY <1>2, <1>3
  <2> QED
    BY <2>1, <2>2 DEF Justified
<1> QED
  BY <1>4, <1>5, <1>6

LEMMA DropStep ==
    ASSUME TypeOK, GenerationInv, NEW u \in Unwinders, drop(u)
    PROVE  GenerationInv'
<1> SUFFICES ASSUME draws <= GenCount
             PROVE  GenerationsDrawn' /\ ClonesAgree' /\ EntriesJustified'
  BY DEF GenerationInv, drop
<1>1. GenerationsDrawn /\ ClonesAgree /\ EntriesJustified
  BY DEF GenerationInv
<1>2. /\ entries' = entries /\ draws' = draws
      /\ \A w \in alive' : /\ w \in alive /\ modules'[w] = modules[w]
                           /\ generation'[w] = generation[w]
  BY DEF drop, TypeOK
<1>3. GenerationsDrawn' /\ ClonesAgree'
  BY <1>1, <1>2 DEF GenerationsDrawn, ClonesAgree
<1>4. EntriesJustified'
  BY <1>1, <1>2 DEF EntriesJustified, Justified
<1> QED
  BY <1>3, <1>4

(***************************************************************************)
(* The one step that fills a slot: the entry is justified for the          *)
(* unwinder that made it by construction, for its unmodified clones        *)
(* because they hold the same modules, and no frame of the other kind has  *)
(* its lookup address.                                                     *)
(***************************************************************************)
LEMMA MissStep ==
    ASSUME TypeOK, GenerationInv, NEW u \in Unwinders, NEW c \in Caches,
           NEW frame \in FrameAddress, NEW readable \in BOOLEAN,
           unwind_frame_miss(u, c, frame, readable)
    PROVE  GenerationInv'
<1> SUFFICES ASSUME draws <= GenCount
             PROVE  GenerationsDrawn' /\ ClonesAgree' /\ EntriesJustified'
  BY DEF GenerationInv, unwind_frame_miss
<1>1. GenerationsDrawn /\ ClonesAgree /\ EntriesJustified
  BY DEF GenerationInv
<1>2. /\ u \in alive /\ alive' = alive /\ modules' = modules
      /\ generation' = generation /\ draws' = draws
  BY DEF unwind_frame_miss
<1> DEFINE address == address_for_lookup(frame)
<1>3. PICK result \in UncachedResults(modules[u], frame, readable) :
         entries' = IF result = Uncacheable THEN entries
                    ELSE [entries EXCEPT ![c] = Insert(@, address, generation[u], result)]
  BY DEF unwind_frame_miss
<1> DEFINE entry == [address |-> address, generation |-> generation[u], rule |-> result]
<1>4. ASSUME NEW d \in Caches, NEW s \in Slots
      PROVE  entries'[d][s] = entries[d][s] \/ entries'[d][s] = entry
  BY <1>3 DEF Insert, TypeOK
<1>5. ClonesAgree'
  BY <1>1, <1>2 DEF ClonesAgree
<1>6. GenerationsDrawn'
  <2>1. entry.generation < draws
    BY <1>1, <1>2 DEF GenerationsDrawn
  <2> QED
    BY <1>1, <1>2, <1>4, <2>1 DEF GenerationsDrawn
<1>7. ASSUME NEW v \in alive, generation[v] = generation[u]
      PROVE  Justified(entry, v)
  <2>1. modules[v] = modules[u]
    BY <1>1, <1>2, <1>7 DEF ClonesAgree
  <2>2. \A f \in FrameAddress : address_for_lookup(f) = entry.address => f = frame
    BY LookupInjective
  <2> QED
    BY <1>3, <2>1, <2>2 DEF Justified
<1>8. EntriesJustified'
  <2> SUFFICES ASSUME NEW d \in Caches, NEW s \in Slots, NEW v \in alive,
                      entries'[d][s] # None, entries'[d][s].generation = generation[v]
               PROVE  Justified(entries'[d][s], v)
    BY <1>2 DEF EntriesJustified, Justified
  <2>1. CASE entries'[d][s] = entries[d][s]
    BY <1>1, <2>1 DEF EntriesJustified
  <2>2. CASE entries'[d][s] = entry
    BY <1>7, <2>2
  <2> QED
    BY <1>4, <2>1, <2>2
<1> QED
  BY <1>5, <1>6, <1>8

LEMMA GenerationStep == TypeOK /\ GenerationInv /\ [Next]_vars => GenerationInv'
<1> SUFFICES ASSUME TypeOK, GenerationInv, [Next]_vars PROVE GenerationInv'
  OBVIOUS
<1>1. ASSUME NEW u \in Unwinders, new(u) PROVE GenerationInv'
  <2>1. draws' = draws + 1
    BY <1>1 DEF new, TypeOK
  <2> QED
    BY <1>1, <2>1, FreshStep DEF new
<1>2. ASSUME NEW u \in Unwinders, NEW list, u \in alive, SetModules(u, list)
      PROVE  GenerationInv'
  <2>1. draws' = draws + 1 /\ alive' = alive \cup {u}
    BY <1>2 DEF SetModules, TypeOK
  <2> QED
    BY <1>2, <2>1, FreshStep DEF SetModules
<1>3. ASSUME NEW u \in Unwinders, NEW c \in Caches, NEW frame \in FrameAddress,
             NEW readable \in BOOLEAN, unwind_frame_hit(u, c, frame, readable)
      PROVE  GenerationInv'
  BY <1>3 DEF unwind_frame_hit, GenerationInv, GenerationsDrawn, ClonesAgree,
              EntriesJustified, Justified
<1>4. CASE UNCHANGED vars
  BY <1>4 DEF vars, GenerationInv, GenerationsDrawn, ClonesAgree, EntriesJustified,
              Justified
<1> QED
  BY <1>1, <1>2, <1>3, <1>4, DropStep, CloneStep, MissStep
     DEF Next, add_module, remove_module

LEMMA GenerationInit == Init => GenerationInv
BY DEF Init, GenerationInv, GenerationsDrawn, ClonesAgree, EntriesJustified, EmptyCache, Slots

LEMMA GenerationInvariant == Spec => []GenerationInv
BY TypeInit, TypeStep, GenerationInit, GenerationStep, PTL DEF Spec

(***************************************************************************)
(* Until the generation counter has wrapped, no unwinder ever takes from a *)
(* cache a rule that its own modules do not give for the frame, however    *)
(* caches are shared and modules are added, removed and replaced.          *)
(***************************************************************************)
THEOREM CacheIsCoherent == Spec => []CacheCoherent
<1>1. GenerationInv => CacheCoherent
  BY DEF GenerationInv, CacheCoherent
<1> QED
  BY <1>1, GenerationInvariant, PTL

(***************************************************************************)
(* Until the counter has wrapped, equal generations mean equal modules.    *)
(***************************************************************************)
THEOREM GenerationIdentifiesModules == Spec => []SameGenerationSameModules
<1>1. GenerationInv => SameGenerationSameModules
  BY DEF GenerationInv, ClonesAgree, SameGenerationSameModules
<1> QED
  BY <1>1, GenerationInvariant, PTL

-----------------------------------------------------------------------------
LEMMA SortedStep ==
    ASSUME TypeOK, ModulesSorted, [Next]_vars
    PROVE  ModulesSorted'
<1>1. ASSUME NEW u \in Unwinders, new(u) PROVE ModulesSorted'
  <2>1. SortedByStart(<<>>)
    BY DEF SortedByStart
  <2> QED
    BY <1>1, <2>1 DEF new, ModulesSorted, TypeOK
<1>2. ASSUME NEW u \in Unwinders, drop(u) PROVE ModulesSorted'
  BY <1>2 DEF drop, ModulesSorted, TypeOK
<1>3. ASSUME NEW u \in Unwinders, NEW v \in Unwinders, clone(u, v) PROVE ModulesSorted'
  BY <1>3 DEF clone, ModulesSorted, TypeOK
<1>4. ASSUME NEW u \in Unwinders, NEW module \in Modules, add_module(u, module)
      PROVE  ModulesSorted'
  <2>1. PICK list \in Added(modules[u], module) : SetModules(u, list)
    BY <1>4 DEF add_module
  <2>2. SortedByStart(list)
    BY <1>4, AddedProperties DEF add_module, ModulesSorted, TypeOK
  <2> QED
    BY <2>1, <2>2 DEF SetModules, ModulesSorted, TypeOK
<1>5. ASSUME NEW u \in Unwinders, NEW start, remove_module(u, start)
      PROVE  ModulesSorted'
  <2>1. PICK list \in Removed(modules[u], start) : SetModules(u, list)
    BY <1>5 DEF remove_module
  <2>2. SortedByStart(list)
    BY <1>5, RemovedProperties DEF remove_module, ModulesSorted, TypeOK
  <2> QED
    BY <2>1, <2>2 DEF SetModules, ModulesSorted, TypeOK
<1>6. ASSUME alive' = alive, modules' = modules PROVE ModulesSorted'
  BY <1>6 DEF ModulesSorted
<1> QED
  BY <1>1, <1>2, <1>3, <1>4, <1>5, <1>6
     DEF Next, vars, unwind_frame_hit, unwind_frame_miss

(***************************************************************************)
(* Every module list stays sorted by start address.                        *)
(***************************************************************************)
THEOREM ListsStaySorted == Spec => []ModulesSorted
<1>1. Init => ModulesSorted
  BY DEF Init, ModulesSorted
<1> QED
  BY <1>1, TypeInit, TypeStep, SortedStep, PTL DEF Spec

(***************************************************************************)
(* Lookups among modules that do not overlap are exact.                    *)
(***************************************************************************)
THEOREM LookupsAreExact == Spec => []LookupsExact
<1>1. TypeOK /\ ModulesSorted => LookupsExact
  <2> SUFFICES ASSUME TypeOK, ModulesSorted, NEW u \in alive, DisjointModules(modules[u])
               PROVE  /\ \A frame \in FrameAddress :
                            LET address == address_for_lookup(frame)
                            IN  \A found \in find_module_for_address(modules[u], address) :
                                  \A i \in DOMAIN modules[u] :
                                     LET m == modules[u][i]
                                     IN  found.index = i <=>
                                           /\ Covers(m, address)
                                           /\ m.base <= address
                                           /\ address - m.base <= MaxRel
                      /\ \A i \in DOMAIN modules[u] :
                            modules[u][i].end <= max_known_code_address(modules[u])
    BY DEF LookupsExact
  <2>1. modules[u] \in Seq(Modules) /\ SortedByStart(modules[u])
    BY DEF TypeOK, ModulesSorted
  <2>2. ASSUME NEW frame \in FrameAddress,
               NEW found \in find_module_for_address(modules[u], address_for_lookup(frame)),
               NEW i \in DOMAIN modules[u]
        PROVE  found.index = i <=>
                 /\ Covers(modules[u][i], address_for_lookup(frame))
                 /\ modules[u][i].base <= address_for_lookup(frame)
                 /\ address_for_lookup(frame) - modules[u][i].base <= MaxRel
    BY <2>1, LookupAddress, FindExact
  <2>3. ASSUME NEW i \in DOMAIN modules[u]
        PROVE  modules[u][i].end <= max_known_code_address(modules[u])
    BY <2>1, MaxKnownAddress
  <2> QED
    BY <2>2, <2>3
<1> QED
  BY <1>1, TypeCorrect, ListsStaySorted, PTL

-----------------------------------------------------------------------------
(***************************************************************************)
(* A cacheable result does not depend on what can be read from the stack.  *)
(***************************************************************************)
LEMMA RulesNeedNoStack ==
    ASSUME NEW list, NEW frame, NEW readable \in BOOLEAN,
           NEW rule \in UncachedResults(list, frame, readable), rule \in Rules
    PROVE  rule \in UncachedResults(list, frame, FALSE)
<1>1. PICK found \in find_module_for_address(list, address_for_lookup(frame)) :
         rule = ResultAt(list, found, ~is_return_address(frame), readable)
  BY DEF UncachedResults
<1>2. rule = ResultAt(list, found, ~is_return_address(frame), FALSE)
  BY <1>1, RulesAssumption DEF ResultAt, unwind_frame_impl
<1> QED
  BY <1>2 DEF UncachedResults

LEMMA HitIsJustified ==
    ASSUME TypeOK, EntriesJustified, NEW u \in alive, NEW c \in Caches,
           NEW frame \in FrameAddress, LookedUp(u, c, frame) = "hit"
    PROVE  CachedRule(entries[c], address_for_lookup(frame))
             \in UncachedResults(modules[u], frame, FALSE)
<1> DEFINE entry == entries[c][Slot(address_for_lookup(frame))]
<1>1. Slot(address_for_lookup(frame)) \in Slots
  BY LookupAddress, SlotInRange
<1>2. /\ entry # None /\ entry.generation = generation[u]
      /\ entry.address = address_for_lookup(frame)
  BY DEF LookedUp, Outcome
<1>3. entry.rule \in Rules
  BY <1>1, <1>2 DEF TypeOK, CacheEntry
<1>4. PICK readable \in BOOLEAN : entry.rule \in UncachedResults(modules[u], frame, readable)
  BY <1>1, <1>2 DEF EntriesJustified, Justified
<1> QED
  BY <1>3, <1>4, RulesNeedNoStack DEF CachedRule

LEMMA BoundStep == TypeOK /\ draws <= MaxDraws /\ [Next]_vars => (draws <= MaxDraws)'
<1> SUFFICES ASSUME TypeOK, draws <= MaxDraws, [Next]_vars PROVE (draws <= MaxDraws)'
  OBVIOUS
<1>1. draws \in Nat /\ MaxDraws \in Nat
  BY BoundsAssumption DEF TypeOK
<1>2. ASSUME NEW u \in Unwinders, new(u) PROVE (draws <= MaxDraws)'
  BY <1>1, <1>2 DEF new
<1>3. ASSUME NEW u, NEW list, SetModules(u, list) PROVE (draws <= MaxDraws)'
  BY <1>1, <1>3 DEF SetModules
<1>4. ASSUME UNCHANGED draws PROVE (draws <= MaxDraws)'
  BY <1>4
<1> QED
  BY <1>2, <1>3, <1>4
     DEF Next, vars, clone, drop, add_module, remove_module, unwind_frame_hit, unwind_frame_miss

(***************************************************************************)
(* The abstract specification uses the same operators on module lists and  *)
(* frame addresses.                                                        *)
(***************************************************************************)
LEMMA SharedOperators ==
    /\ Uncached!FrameAddress = FrameAddress
    /\ \A list, module : Uncached!Added(list, module) = Added(list, module)
    /\ \A list, start : Uncached!Removed(list, start) = Removed(list, start)
    /\ \A list, frame, readable :
          Uncached!UncachedResults(list, frame, readable) = UncachedResults(list, frame, readable)
<1>1. Uncached!FrameAddress = FrameAddress
  BY DEF FrameAddress, Uncached!FrameAddress
<1>2. \A list, key : Uncached!BinarySearch(list, key) = BinarySearch(list, key)
  BY DEF BinarySearch, Uncached!BinarySearch
<1>3. \A list, i, m : Uncached!InsertAt(list, i, m) = InsertAt(list, i, m)
  BY DEF InsertAt, Uncached!InsertAt
<1>4. \A list, i : Uncached!RemoveAt(list, i) = RemoveAt(list, i)
  BY DEF RemoveAt, Uncached!RemoveAt
<1>5. \A list, module : Uncached!Added(list, module) = Added(list, module)
  BY <1>2, <1>3 DEF Added, Uncached!Added
<1>6. \A list, start : Uncached!Removed(list, start) = Removed(list, start)
  BY <1>2, <1>4 DEF Removed, Uncached!Removed
<1>7. Uncached!NotFound = NotFound
  BY DEF NotFound, Uncached!NotFound
<1>8. \A list, r, address : Uncached!Locate(list, r, address) = Locate(list, r, address)
  BY <1>7 DEF Locate, Uncached!Locate
<1>9. \A list, address : Uncached!find_module_for_address(list, address)
                           = find_module_for_address(list, address)
  BY <1>2, <1>8 DEF find_module_for_address, Uncached!find_module_for_address
<1>10. \A list, found, first, readable :
          Uncached!ResultAt(list, found, first, readable) = ResultAt(list, found, first, readable)
  BY <1>7 DEF ResultAt, Uncached!ResultAt, unwind_frame_impl, Uncached!unwind_frame_impl
<1>11. \A frame : /\ Uncached!address_for_lookup(frame) = address_for_lookup(frame)
                  /\ Uncached!is_return_address(frame) = is_return_address(frame)
  BY DEF address_for_lookup, Uncached!address_for_lookup, is_return_address,
         Uncached!is_return_address
<1>12. \A list, frame, readable :
          Uncached!UncachedResults(list, frame, readable) = UncachedResults(list, frame, readable)
  BY <1>9, <1>10, <1>11 DEF UncachedResults, Uncached!UncachedResults
<1> QED
  BY <1>1, <1>5, <1>6, <1>12

LEMMA RefinementStep ==
    ASSUME TypeOK, EntriesJustified, [Next]_vars
    PROVE  [Uncached!Next]_(Uncached!vars)
<1>1. ASSUME NEW u \in Unwinders, new(u) PROVE Uncached!new(u)
  BY <1>1 DEF new, Uncached!new
<1>2. ASSUME NEW u \in Unwinders, drop(u) PROVE Uncached!drop(u)
  BY <1>2 DEF drop, Uncached!drop
<1>3. ASSUME NEW u \in Unwinders, NEW v \in Unwinders, clone(u, v) PROVE Uncached!clone(u, v)
  BY <1>3 DEF clone, Uncached!clone
<1>4. ASSUME NEW u \in Unwinders, NEW module \in Modules, add_module(u, module)
      PROVE  Uncached!add_module(u, module)
  <2>1. PICK list \in Added(modules[u], module) : SetModules(u, list)
    BY <1>4 DEF add_module
  <2>2. list \in Uncached!Added(modules[u], module)
    BY SharedOperators, Zenon
  <2>3. u \in alive /\ modules' = [modules EXCEPT ![u] = list] /\ UNCHANGED <<alive, last>>
    BY <1>4, <2>1, Zenon DEF add_module, SetModules
  <2> QED
    BY <2>2, <2>3, Zenon DEF Uncached!add_module
<1>5. ASSUME NEW u \in Unwinders, NEW start, remove_module(u, start)
      PROVE  Uncached!remove_module(u, start)
  <2>1. PICK list \in Removed(modules[u], start) : SetModules(u, list)
    BY <1>5 DEF remove_module
  <2>2. list \in Uncached!Removed(modules[u], start)
    BY SharedOperators, Zenon
  <2>3. u \in alive /\ modules' = [modules EXCEPT ![u] = list] /\ UNCHANGED <<alive, last>>
    BY <1>5, <2>1, Zenon DEF remove_module, SetModules
  <2> QED
    BY <2>2, <2>3, Zenon DEF Uncached!remove_module
<1>6. ASSUME NEW u \in Unwinders, NEW c \in Caches, NEW frame \in FrameAddress,
             NEW readable \in BOOLEAN, unwind_frame_hit(u, c, frame, readable)
      PROVE  Uncached!unwind_frame(u, frame, readable)
  <2> DEFINE rule == CachedRule(entries[c], address_for_lookup(frame))
  <2>1. /\ u \in alive /\ LookedUp(u, c, frame) = "hit"
        /\ Unwound(u, frame, readable, rule) /\ UNCHANGED <<alive, modules>>
    BY <1>6, Zenon DEF unwind_frame_hit
  <2>2. rule \in UncachedResults(modules[u], frame, FALSE)
    BY <2>1, HitIsJustified
  <2>3. rule \in Uncached!UncachedResults(modules[u], frame, FALSE)
    BY <2>2, SharedOperators, Zenon
  <2> QED
    BY <2>1, <2>3, Zenon DEF Unwound, Uncached!unwind_frame
<1>7. ASSUME NEW u \in Unwinders, NEW c \in Caches, NEW frame \in FrameAddress,
             NEW readable \in BOOLEAN, unwind_frame_miss(u, c, frame, readable)
      PROVE  Uncached!unwind_frame(u, frame, readable)
  <2>1. u \in alive /\ UNCHANGED <<alive, modules>>
    BY <1>7 DEF unwind_frame_miss
  <2>2. PICK result \in UncachedResults(modules[u], frame, readable) :
           Unwound(u, frame, readable, result)
    BY <1>7 DEF unwind_frame_miss
  <2>3. result \in Uncached!UncachedResults(modules[u], frame, readable)
    BY SharedOperators, Zenon
  <2> QED
    BY <2>1, <2>2, <2>3, Zenon DEF Unwound, Uncached!unwind_frame
<1>8. CASE UNCHANGED vars
  BY <1>8 DEF vars, Uncached!vars
<1> QED
  BY <1>1, <1>2, <1>3, <1>4, <1>5, <1>6, <1>7, <1>8, SharedOperators DEF Next, Uncached!Next

(***************************************************************************)
(* The cached unwinder implements the uncached one, as long as the         *)
(* generation counter is not drawn from more often than it has values.     *)
(***************************************************************************)
THEOREM CachingIsInvisible ==
    ASSUME MaxDraws <= GenCount
    PROVE  Spec => CachingInvisible
<1>1. Init => Uncached!Init
  BY DEF Init, Uncached!Init
<1>2. Init => draws <= MaxDraws
  BY BoundsAssumption DEF Init
<1>3. TypeOK /\ GenerationInv /\ draws <= MaxDraws => EntriesJustified
  BY BoundsAssumption, CacheAssumption DEF GenerationInv, TypeOK
<1> QED
  BY <1>1, <1>2, <1>3, TypeInit, TypeStep, GenerationInvariant, BoundStep, RefinementStep, PTL
     DEF Spec, CachingInvisible, Uncached!Spec

-----------------------------------------------------------------------------
(***************************************************************************)
(* The statistics: how a lookup and the insertion after it change the      *)
(* slots that are filled and the count of empty slots.                     *)
(***************************************************************************)
Filled(slots) == {s \in Slots : slots[s] # None}

LEMMA FilledFinite ==
    ASSUME NEW slots
    PROVE  IsFiniteSet(Filled(slots)) /\ Cardinality(Filled(slots)) \in Nat
<1>1. IsFiniteSet(Slots)
  BY FS_Interval, CacheAssumption DEF Slots
<1>2. Filled(slots) \subseteq Slots
  BY DEF Filled
<1> QED
  BY <1>1, <1>2, FS_Subset, FS_CardinalityType

LEMMA InsertFills ==
    ASSUME NEW slots \in [Slots -> CacheEntry \cup {None}], NEW address \in Nat,
           NEW g \in Generations, NEW rule \in Rules
    PROVE  Filled(Insert(slots, address, g, rule)) = Filled(slots) \cup {Slot(address)}
<1> DEFINE entry == [address |-> address, generation |-> g, rule |-> rule]
<1>1. entry # None
  BY NoneAssumption DEF CacheEntry
<1>2. Insert(slots, address, g, rule) = [slots EXCEPT ![Slot(address)] = entry]
  BY DEF Insert
<1> HIDE DEF entry
<1> QED
  BY <1>1, <1>2, SlotInRange DEF Filled

LEMMA CountedStep ==
    ASSUME TypeOK, NEW u \in Unwinders, NEW c \in Caches, NEW frame \in FrameAddress,
           CountLookup(u, c, frame)
    PROVE  /\ \A d \in Caches : stats'[d]["empty_slot"] \in Nat
           /\ \A d \in Caches : stats[d]["empty_slot"] <= stats'[d]["empty_slot"]
           /\ entries[c][Slot(address_for_lookup(frame))] = None =>
                 stats'[c]["empty_slot"] = stats[c]["empty_slot"] + 1
<1>1. LookedUp(u, c, frame) \in Outcomes
  BY DEF LookedUp, Outcome, Outcomes
<1>2. stats' = [stats EXCEPT ![c] = Count(@, LookedUp(u, c, frame))]
  BY DEF CountLookup
<1>3. \A d \in Caches : stats[d] \in [Outcomes -> Nat] /\ stats[d]["empty_slot"] \in Nat
  BY DEF TypeOK, Outcomes
<1>4. stats'[c] = [stats[c] EXCEPT ![LookedUp(u, c, frame)] = @ + 1]
  BY <1>2 DEF TypeOK, Count
<1>5. \A d \in Caches : d # c => stats'[d] = stats[d]
  BY <1>2 DEF TypeOK
<1>6. entries[c][Slot(address_for_lookup(frame))] = None => LookedUp(u, c, frame) = "empty_slot"
  BY DEF LookedUp, Outcome
<1>7. stats'[c]["empty_slot"] = IF LookedUp(u, c, frame) = "empty_slot"
                                THEN stats[c]["empty_slot"] + 1 ELSE stats[c]["empty_slot"]
  BY <1>1, <1>3, <1>4 DEF Outcomes
<1> QED
  BY <1>3, <1>5, <1>6, <1>7

LEMMA FilledStep ==
    ASSUME TypeOK, FilledSlotsCounted, [Next]_vars
    PROVE  FilledSlotsCounted'
<1>1. \A d \in Caches : Cardinality(Filled(entries[d])) <= stats[d]["empty_slot"]
  BY DEF FilledSlotsCounted, Filled
<1>2. SUFFICES \A d \in Caches : Cardinality(Filled(entries'[d])) <= stats'[d]["empty_slot"]
  BY DEF FilledSlotsCounted, Filled
<1>3. ASSUME NEW u \in Unwinders, NEW c \in Caches, NEW frame \in FrameAddress,
             NEW readable \in BOOLEAN, unwind_frame_miss(u, c, frame, readable), NEW d \in Caches
      PROVE  Cardinality(Filled(entries'[d])) <= stats'[d]["empty_slot"]
  <2> DEFINE slot == Slot(address_for_lookup(frame))
  <2>1. CountLookup(u, c, frame)
    BY <1>3 DEF unwind_frame_miss
  <2>2. PICK result \in UncachedResults(modules[u], frame, readable) :
           entries' = IF result = Uncacheable THEN entries
                      ELSE [entries EXCEPT ![c] =
                              Insert(@, address_for_lookup(frame), generation[u], result)]
    BY <1>3 DEF unwind_frame_miss
  <2>3. stats[d]["empty_slot"] \in Nat /\ Cardinality(Filled(entries[d])) \in Nat
    BY FilledFinite DEF TypeOK, Outcomes
  <2>4. CASE result = Uncacheable \/ d # c
    <3>1. entries'[d] = entries[d]
      BY <2>2, <2>4 DEF TypeOK
    <3> QED
      BY <1>1, <2>1, <2>3, <3>1, CountedStep
  <2>5. CASE result # Uncacheable /\ d = c
    <3>1. result \in Rules
      BY <2>5, ResultsTyped DEF Results, TypeOK
    <3>2. entries'[c] = Insert(entries[c], address_for_lookup(frame), generation[u], result)
      BY <2>2, <2>5 DEF TypeOK
    <3>3. Filled(entries'[c]) = Filled(entries[c]) \cup {slot}
      <4>1. entries[c] \in [Slots -> CacheEntry \cup {None}] /\ generation[u] \in Generations
        BY DEF TypeOK
      <4>2. address_for_lookup(frame) \in Nat
        BY LookupAddress
      <4> QED
        BY <3>1, <3>2, <4>1, <4>2, InsertFills
    <3>4. slot \in Slots
      BY LookupAddress, SlotInRange
    <3>5. CASE entries[c][slot] = None
      <4>1. slot \notin Filled(entries[c])
        BY <3>5 DEF Filled
      <4>2. Cardinality(Filled(entries[c]) \cup {slot}) = Cardinality(Filled(entries[c])) + 1
        BY <4>1, FilledFinite, FS_AddElement
      <4>3. stats'[c]["empty_slot"] = stats[c]["empty_slot"] + 1
        BY <2>1, <3>5, CountedStep
      <4> QED
        BY <1>1, <2>3, <2>5, <3>3, <4>2, <4>3
    <3>6. CASE entries[c][slot] # None
      <4>1. Filled(entries[c]) \cup {slot} = Filled(entries[c])
        BY <3>4, <3>6 DEF Filled
      <4>2. stats[c]["empty_slot"] <= stats'[c]["empty_slot"] /\ stats'[c]["empty_slot"] \in Nat
        BY <2>1, CountedStep
      <4>3. Cardinality(Filled(entries'[c])) = Cardinality(Filled(entries[c]))
        BY <3>3, <4>1
      <4>4. Cardinality(Filled(entries[c])) <= stats[c]["empty_slot"]
        BY <1>1
      <4> QED
        BY <2>3, <2>5, <4>2, <4>3, <4>4
    <3> QED
      BY <3>5, <3>6
  <2> QED
    BY <2>4, <2>5
<1>4. ASSUME NEW u \in Unwinders, NEW c \in Caches, NEW frame \in FrameAddress,
             NEW readable \in BOOLEAN, unwind_frame_hit(u, c, frame, readable), NEW d \in Caches
      PROVE  Cardinality(Filled(entries'[d])) <= stats'[d]["empty_slot"]
  <2>1. CountLookup(u, c, frame) /\ entries' = entries
    BY <1>4 DEF unwind_frame_hit
  <2>2. stats[d]["empty_slot"] \in Nat /\ Cardinality(Filled(entries[d])) \in Nat
    BY FilledFinite DEF TypeOK, Outcomes
  <2> QED
    BY <1>1, <2>1, <2>2, CountedStep
<1>5. ASSUME UNCHANGED <<entries, stats>>
      PROVE  \A d \in Caches : Cardinality(Filled(entries'[d])) <= stats'[d]["empty_slot"]
  BY <1>1, <1>5
<1>6. ASSUME NEW u \in Unwinders, NEW list, SetModules(u, list) PROVE UNCHANGED <<entries, stats>>
  BY <1>6 DEF SetModules
<1>7. ASSUME NEW u \in Unwinders,
             \/ new(u) \/ drop(u)
             \/ \E v \in Unwinders : clone(u, v)
             \/ \E module \in Modules : add_module(u, module)
             \/ \E start \in {m.start : m \in Modules} : remove_module(u, start)
      PROVE  UNCHANGED <<entries, stats>>
  BY <1>6, <1>7 DEF new, drop, clone, add_module, remove_module
<1>8. CASE UNCHANGED vars
  BY <1>5, <1>8 DEF vars
<1> QED
  BY <1>3, <1>4, <1>5, <1>7, <1>8 DEF Next

LEMMA FilledInit == Init => FilledSlotsCounted
<1> SUFFICES ASSUME Init PROVE FilledSlotsCounted
  OBVIOUS
<1>1. \A c \in Caches : {s \in Slots : entries[c][s] # None} = {}
  BY DEF Init, EmptyCache
<1>2. \A c \in Caches : stats[c]["empty_slot"] = 0
  BY DEF Init, NewStats, Outcomes
<1>3. \A c \in Caches : Cardinality({s \in Slots : entries[c][s] # None}) = 0
  BY <1>1, FS_EmptySet, Zenon
<1> QED
  BY <1>2, <1>3 DEF FilledSlotsCounted

(***************************************************************************)
(* The statistics account for the filled slots of every cache: each of     *)
(* them was first filled after a lookup that was counted as an empty slot. *)
(***************************************************************************)
THEOREM SlotsAreCounted == Spec => []FilledSlotsCounted
  BY TypeInit, TypeStep, FilledInit, FilledStep, PTL DEF Spec

LEMMA MaskFromLists ==
    ASSUME TypeOK, LookupsExact
    PROVE  MaskKeepsCodeAddresses
<1> SUFFICES ASSUME NEW u \in alive, modules[u] # <<>>, DisjointModules(modules[u]),
                    NEW mask \in from_max_known_address(max_known_code_address(modules[u])),
                    NEW i \in DOMAIN modules[u],
                    NEW address \in modules[u][i].start .. modules[u][i].end - 1
             PROVE  strip_ptr_auth(mask, address) = address
  BY DEF MaskKeepsCodeAddresses
<1> DEFINE list == modules[u]
           max == max_known_code_address(list)
<1>1. list \in Seq(Modules)
  BY DEF TypeOK
<1>2. list[i].end <= max
  BY DEF LookupsExact
<1>3. Len(list) \in DOMAIN list /\ max = list[Len(list)].end
  BY <1>1, EmptySeq DEF max_known_code_address
<1> HIDE DEF list, max
<1>4. list[i] \in Modules /\ list[Len(list)] \in Modules
  BY <1>1, <1>3 DEF list
<1>5. /\ list[i].start \in Nat /\ list[i].end \in Nat /\ max \in Nat /\ max < Power(Bits)
  BY <1>3, <1>4, ModulesAssumption, WidthAssumption DEF Power
<1>6. max \in Nat \ {0} /\ address \in 0 .. max
  BY <1>2, <1>5 DEF list
<1> QED
  BY <1>5, <1>6, MaskKeeps DEF max, list

(***************************************************************************)
(* The mask that callers are told to make from max_known_code_address      *)
(* leaves the code addresses of all modules as they are.                   *)
(***************************************************************************)
THEOREM MasksKeepCodeAddresses == Spec => []MaskKeepsCodeAddresses
  BY TypeCorrect, LookupsAreExact, MaskFromLists, PTL
=============================================================================
