--------------------------- MODULE CompactUnwindInfo ---------------------------
(***************************************************************************)
(* How the unwinder for Mach-O images finds what describes an address      *)
(* (src/src/macho.rs).  An image has the ranges of its __stubs and its     *)
(* __stub_helper section, the entries of __unwind_info, and the bytes of   *)
(* its code from the address text_start on (<<>> where the caller has no   *)
(* bytes for the module).  The linker may have collapsed consecutive       *)
(* functions with the same opcode into one entry.                          *)
(***************************************************************************)
EXTENDS Integers, Sequences

In(range, address) == range[1] <= address /\ address < range[2]

(***************************************************************************)
(* UnwindInfo::lookup: the entries whose range has the address, at most    *)
(* one.                                                                    *)
(***************************************************************************)
lookup(image, address) ==
    {function \in image.functions : In(<<function.start, function.end>>, address)}

(***************************************************************************)
(* The bytes of an entry, or <<>> if the bytes at hand do not have them    *)
(* all.                                                                    *)
(***************************************************************************)
function_bytes(image, function) ==
    LET start == function.start - image.text_start
        end == function.end - image.text_start
    IN  IF start >= 0 /\ end <= Len(image.text) THEN SubSeq(image.text, start + 1, end) ELSE <<>>

Found(by, offset) == [by |-> by, offset |-> offset]

(***************************************************************************)
(* What unwind_frame decides before an opcode is looked at: "Error",       *)
(* "StubFunction", "StubHelper" (with the offset in it), "FunctionStart",  *)
(* or "Function" (with the offset in its entry).                           *)
(***************************************************************************)
FindAddress(image, address, first) ==
    IF In(image.stubs, address)
    THEN IF first THEN Found("StubFunction", 0) ELSE Found("Error", 0)
    ELSE IF In(image.stub_helper, address)
    THEN IF first THEN Found("StubHelper", address - image.stub_helper[1]) ELSE Found("Error", 0)
    ELSE IF lookup(image, address) = {}
    THEN IF first THEN Found("StubFunction", 0) ELSE Found("Error", 0)
    ELSE LET function == CHOOSE f \in lookup(image, address) : TRUE
         IN  IF first /\ address = function.start THEN Found("FunctionStart", 0)
             ELSE Found("Function", address - function.start)
=============================================================================
