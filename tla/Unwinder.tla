------------------------------- MODULE Unwinder -------------------------------
(***************************************************************************)
(* Unwinders with their module lists, and the rule caches they are used    *)
(* with (src/src/unwinder.rs).  Any unwinder may be used with any cache,   *)
(* and an unwinder may be cloned.  All unwinders of the process draw their *)
(* generations from one counter that wraps.  Each operation is one step:   *)
(* it has exclusive access to what it writes (&mut), and its only access   *)
(* to state shared with other threads is one atomic fetch_add.             *)
(***************************************************************************)
EXTENDS FrameRules, RuleCache, PtrAuthMask, FiniteSets

CONSTANTS
    Unwinders,
    Caches,
    NoUnwind,    \* no frame has been unwound yet
    MaxDraws,    \* bound: draws from the generation counter
    MaxLookups   \* bound: frames unwound with one cache

ASSUME BoundsAssumption == MaxDraws \in Nat /\ MaxLookups \in Nat

\* Addresses fit a register.
ASSUME WidthAssumption == \A module \in Modules : module.end < 2^Bits

VARIABLES
    alive,       \* the unwinders that exist
    modules,     \* per unwinder, its modules sorted by start address
    generation,  \* per unwinder, its modules_generation
    draws,       \* how many generations have been drawn
    entries,     \* per cache, its slots
    stats,       \* per cache, its CacheStats
    last         \* what the last unwind_frame did

vars == <<alive, modules, generation, draws, entries, stats, last>>

Init ==
    /\ alive = {}
    /\ modules = [u \in Unwinders |-> <<>>]
    /\ generation = [u \in Unwinders |-> 0]
    /\ draws = 0
    /\ entries = [c \in Caches |-> EmptyCache]
    /\ stats = [c \in Caches |-> NewStats]
    /\ last = NoUnwind

\* Mutant: the value after the increment, which leaves the 16-bit range.
GenerationAfterIncrement == draws + 1

next_global_modules_generation == draws % GenCount

\* Mutant: a new unwinder starts at generation 0 instead of drawing one.
NewAtGenerationZero(u) ==
    /\ u \notin alive
    /\ draws < MaxDraws
    /\ alive' = alive \cup {u}
    /\ modules' = [modules EXCEPT ![u] = <<>>]
    /\ generation' = [generation EXCEPT ![u] = 0]
    /\ UNCHANGED <<draws, entries, stats, last>>

new(u) ==
    /\ u \notin alive
    /\ draws < MaxDraws
    /\ alive' = alive \cup {u}
    /\ modules' = [modules EXCEPT ![u] = <<>>]
    /\ generation' = [generation EXCEPT ![u] = next_global_modules_generation]
    /\ draws' = draws + 1
    /\ UNCHANGED <<entries, stats, last>>

clone(u, v) ==
    /\ u \in alive /\ v \notin alive
    /\ alive' = alive \cup {v}
    /\ modules' = [modules EXCEPT ![v] = modules[u]]
    /\ generation' = [generation EXCEPT ![v] = generation[u]]
    /\ UNCHANGED <<draws, entries, stats, last>>

drop(u) ==
    /\ u \in alive
    /\ alive' = alive \ {u}
    /\ modules' = [modules EXCEPT ![u] = <<>>]
    /\ generation' = [generation EXCEPT ![u] = 0]
    /\ UNCHANGED <<draws, entries, stats, last>>

(***************************************************************************)
(* Both module operations store a new list and draw a new generation.      *)
(***************************************************************************)
\* Mutant: the list changes and the generation does not.
SetModulesOnly(u, list) ==
    /\ draws < MaxDraws
    /\ modules' = [modules EXCEPT ![u] = list]
    /\ UNCHANGED <<alive, generation, draws, entries, stats, last>>

SetModules(u, list) ==
    /\ draws < MaxDraws
    /\ modules' = [modules EXCEPT ![u] = list]
    /\ generation' = [generation EXCEPT ![u] = next_global_modules_generation]
    /\ draws' = draws + 1
    /\ UNCHANGED <<alive, entries, stats, last>>

add_module(u, module) ==
    /\ u \in alive
    /\ \E list \in Added(modules[u], module) : SetModules(u, list)

\* A start address that no module has is ignored, which is no step here.
remove_module(u, start) ==
    /\ u \in alive
    /\ \E list \in Removed(modules[u], start) : SetModules(u, list)

(***************************************************************************)
(* unwind_frame through with_cache: a lookup, and then either the cached   *)
(* rule, or what the modules give, which is stored unless it is            *)
(* Uncacheable.  Executing the rule leaves this state alone.               *)
(***************************************************************************)
Unwound(u, frame, readable, result) ==
    last' = [unwinder |-> u, frame |-> frame, readable |-> readable, result |-> result]

LookedUp(u, c, frame) ==
    Outcome(entries[c], address_for_lookup(frame), generation[u])

CountLookup(u, c, frame) ==
    /\ total(stats[c]) < MaxLookups
    /\ stats' = [stats EXCEPT ![c] = Count(@, LookedUp(u, c, frame))]

unwind_frame_hit(u, c, frame, readable) ==
    /\ u \in alive
    /\ LookedUp(u, c, frame) = "hit"
    /\ CountLookup(u, c, frame)
    /\ Unwound(u, frame, readable, CachedRule(entries[c], address_for_lookup(frame)))
    /\ UNCHANGED <<alive, modules, generation, draws, entries>>

unwind_frame_miss(u, c, frame, readable) ==
    /\ u \in alive
    /\ LookedUp(u, c, frame) # "hit"
    /\ CountLookup(u, c, frame)
    /\ \E result \in UncachedResults(modules[u], frame, readable) :
          /\ Unwound(u, frame, readable, result)
          /\ entries' = IF result = Uncacheable THEN entries
                        ELSE [entries EXCEPT ![c] =
                                Insert(@, address_for_lookup(frame), generation[u], result)]
    /\ UNCHANGED <<alive, modules, generation, draws>>

Next ==
    \E u \in Unwinders :
        \/ new(u)
        \/ drop(u)
        \/ \E v \in Unwinders : clone(u, v)
        \/ \E module \in Modules : add_module(u, module)
        \/ \E start \in {m.start : m \in Modules} : remove_module(u, start)
        \/ \E c \in Caches, frame \in FrameAddress, readable \in BOOLEAN :
              \/ unwind_frame_hit(u, c, frame, readable)
              \/ unwind_frame_miss(u, c, frame, readable)

Spec == Init /\ [][Next]_vars

-----------------------------------------------------------------------------
TypeOK ==
    /\ alive \subseteq Unwinders
    /\ modules \in [Unwinders -> Seq(Modules)]
    /\ generation \in [Unwinders -> Generations]
    /\ draws \in Nat
    /\ entries \in [Caches -> [Slots -> CacheEntry \cup {None}]]
    /\ stats \in [Caches -> [Outcomes -> Nat]]
    /\ last \in [unwinder : Unwinders, frame : FrameAddress, readable : BOOLEAN,
                 result : Results] \cup {NoUnwind}

(***************************************************************************)
(* The rule in a slot is one that every unwinder which would accept it as  *)
(* a hit could have derived itself, from its own modules, for a frame with *)
(* that lookup address: an entry left by other modules, by another         *)
(* unwinder, or for the other kind of frame is never taken.                *)
(***************************************************************************)
Justified(entry, u) ==
    \A frame \in FrameAddress :
        address_for_lookup(frame) = entry.address =>
            \E readable \in BOOLEAN :
                entry.rule \in UncachedResults(modules[u], frame, readable)

EntriesJustified ==
    \A c \in Caches, s \in Slots, u \in alive :
        /\ entries[c][s] # None
        /\ entries[c][s].generation = generation[u]
        => Justified(entries[c][s], u)

(***************************************************************************)
(* The generation is what keeps rule caches apart from module changes      *)
(* (add_module, remove_module and lookup): until the 16-bit counter has    *)
(* handed out every value once, all usable entries are justified.          *)
(***************************************************************************)
CacheCoherent == draws <= GenCount => EntriesJustified

(***************************************************************************)
(* Two unwinders hold the same generation only as unmodified clones, and   *)
(* then they hold the same modules (Clone copies both; new, add_module and *)
(* remove_module draw afresh).                                             *)
(***************************************************************************)
SameGenerationSameModules ==
    draws <= GenCount =>
        \A u, v \in alive : generation[u] = generation[v] => modules[u] = modules[v]

(***************************************************************************)
(* The module list stays sorted by start address under every sequence of   *)
(* additions and removals, duplicate start addresses included, which the   *)
(* binary searches of all later operations rely on.                        *)
(***************************************************************************)
ModulesSorted == \A u \in alive : SortedByStart(modules[u])

(***************************************************************************)
(* While the modules of an unwinder do not overlap, a lookup finds exactly *)
(* the module that contains the address (find_module_for_address), and     *)
(* max_known_code_address is the highest end of any module.                *)
(***************************************************************************)
LookupsExact ==
    \A u \in alive : DisjointModules(modules[u]) =>
        /\ \A frame \in FrameAddress :
              LET address == address_for_lookup(frame)
              IN  \A found \in find_module_for_address(modules[u], address) :
                    \A i \in DOMAIN modules[u] :
                       LET m == modules[u][i]
                       IN  found.index = i <=>
                             /\ Covers(m, address)
                             /\ m.base <= address /\ address - m.base <= MaxRel
        /\ \A i \in DOMAIN modules[u] :
              modules[u][i].end <= max_known_code_address(modules[u])

(***************************************************************************)
(* The mask that callers are told to make from max_known_code_address      *)
(* leaves every code address of the modules as it is, so that stripping    *)
(* return addresses with it never changes a real one.                      *)
(***************************************************************************)
MaskKeepsCodeAddresses ==
    \A u \in alive : modules[u] # <<>> /\ DisjointModules(modules[u]) =>
        \A mask \in from_max_known_address(max_known_code_address(modules[u])) :
            \A i \in DOMAIN modules[u] :
                \A address \in modules[u][i].start .. modules[u][i].end - 1 :
                    strip_ptr_auth(mask, address) = address

(***************************************************************************)
(* The statistics account for the slots: a slot is filled only after a     *)
(* lookup counted as miss_empty_slot, and never emptied again.             *)
(***************************************************************************)
FilledSlotsCounted ==
    \A c \in Caches :
        Cardinality({s \in Slots : entries[c][s] # None}) <= stats[c]["empty_slot"]

(***************************************************************************)
(* Caching is invisible: every frame is unwound by a result that the       *)
(* unwinder's current modules give for it.                                 *)
(***************************************************************************)
Uncached == INSTANCE UncachedUnwinder

CachingInvisible == Uncached!Spec

(***************************************************************************)
(* What the feature list says of the cache and of the fallback: the cache  *)
(* makes unwinding faster, and the frame pointer is used when there is no  *)
(* unwind information.  So a frame is unwound as it would be without the   *)
(* cache, on the stack at hand.                                            *)
(***************************************************************************)
CacheOnlySpeedsUp ==
    [][stats' # stats =>
         last'.result \in UncachedResults(modules[last'.unwinder], last'.frame,
                                          last'.readable)]_vars
=============================================================================
