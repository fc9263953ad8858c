------------------------------ MODULE FrameRules ------------------------------
(***************************************************************************)
(* From a frame address to the rule that unwinds it, without the cache:    *)
(* FrameAddress (src/src/code_address.rs), and the part of with_cache in   *)
(* src/src/unwinder.rs that runs after a cache miss.  What the unwind      *)
(* sections of a module say about an address is the constant UnwindInfo: a *)
(* rule, Generic (a description that only the uncacheable DWARF or PE path *)
(* can follow, and which needs the stack to be readable), or NoInfo.       *)
(***************************************************************************)
EXTENDS ModuleList, UnwindRule

CONSTANTS
    Generic, NoInfo,     \* UnwindInfo of addresses that have no such rule
    Uncacheable,         \* the frame was unwound directly
    UnwindInfo(_, _, _), \* unwind data, relative address, first frame?
    IPs,                 \* instruction pointers: addresses of instructions
    RAs                  \* return addresses: ends of call instructions

ASSUME RulesAssumption ==
    /\ Generic \notin Rules
    /\ NoInfo \notin Rules \cup {Generic}
    /\ Uncacheable \notin Rules
    /\ \A data \in Data, rel \in 0 .. MaxRel, first \in BOOLEAN :
          UnwindInfo(data, rel, first) \in Rules \cup {Generic, NoInfo}

(***************************************************************************)
(* A call instruction is longer than one byte, so the byte before a return *)
(* address is not the start of an instruction.                             *)
(***************************************************************************)
ASSUME CodeAssumption ==
    /\ IPs \subseteq Nat
    /\ RAs \subseteq Nat \ {0}
    /\ \A ip \in IPs, ra \in RAs : ip # ra - 1

FrameAddress == [kind : {"InstructionPointer"}, address : IPs]
                  \cup [kind : {"ReturnAddress"}, address : RAs]

address_for_lookup(frame) ==
    IF frame.kind = "ReturnAddress" THEN frame.address - 1 ELSE frame.address

is_return_address(frame) == frame.kind = "ReturnAddress"

Results == Rules \cup {Uncacheable}

(***************************************************************************)
(* unwind_frame_impl, followed by the fallback for its errors.  readable   *)
(* says whether the generic path succeeds on the registers and the stack   *)
(* at hand, above all whether the stack reads it needs succeed.            *)
(***************************************************************************)
unwind_frame_impl(data, rel, first, readable) ==
    LET info == UnwindInfo(data, rel, first)
    IN  IF info \in Rules THEN info
        ELSE IF info = Generic /\ readable THEN Uncacheable
        ELSE Fallback

ResultAt(modules, found, first, readable) ==
    IF found = NotFound THEN Fallback
    ELSE unwind_frame_impl(modules[found.index].data, found.rel, first, readable)

UncachedResults(modules, frame, readable) ==
    {ResultAt(modules, found, ~is_return_address(frame), readable) :
        found \in find_module_for_address(modules, address_for_lookup(frame))}
=============================================================================
