-------------------------- MODULE MCAarch64CallStack --------------------------
(***************************************************************************)
(* Programs for Aarch64CallStack: a function that calls another one, which *)
(* calls a third one, all of several shapes, with the code and the unwind  *)
(* information that compilers emit for these shapes, and a function for    *)
(* tail calls.  A shape has the instructions that set up and tear down its *)
(* frame, and the size of that frame; it signs its return address or not,  *)
(* and returns or ends in a tail call.  Words and instructions have the    *)
(* size one.                                                               *)
(***************************************************************************)
EXTENDS Aarch64CallStack

Shape(kind, enter, leave, exit) ==
    [kind |-> kind, enter |-> enter, leave |-> leave, exit |-> exit, size |-> 0, room |-> <<>>]

\* A shape whose frame has room for a pair of values at an offset.
Roomy(s, offset) == [s EXCEPT !.room = <<stp("X0", "X1", offset, "none")>>]

SmallFrame(exit) ==
    Shape("FrameBased", <<stp("X29", "X30", -2, "pre"), add("X29", "SP", 0)>>,
          <<ldp("X29", "X30", 2, "post")>>, exit)
\* The frame is allocated first, and fp and lr are stored at its top.
FrameAtTop(exit) ==
    Roomy(Shape("FrameBased",
                <<sub("SP", "SP", 6), stp("X20", "X19", 2, "none"), stp("X29", "X30", 4, "none"),
                  add("X29", "SP", 4)>>,
                <<ldp("X29", "X30", 4, "none"), ldp("X20", "X19", 2, "none"), add("SP", "SP", 6)>>,
                exit), 0)
\* Other registers are stored first.
FrameAbove(exit) ==
    Shape("FrameBased",
          <<stp("X20", "X19", -4, "pre"), stp("X29", "X30", 2, "none"), add("X29", "SP", 2)>>,
          <<ldp("X29", "X30", 2, "none"), ldp("X20", "X19", 4, "post")>>, exit)
\* More is allocated after fp has been set.
FrameAndLocals(exit) ==
    Roomy(Shape("FrameBased", FrameAbove(exit).enter \o <<sub("SP", "SP", 2)>>,
                <<add("SP", "SP", 2)>> \o FrameAbove(exit).leave, exit), 0)
Leaf == Shape("Frameless", <<>>, <<>>, "ret")
Frameless(exit) ==
    Roomy([Shape("Frameless", <<sub("SP", "SP", 4), stp("X20", "X19", 2, "none")>>,
                 <<ldp("X20", "X19", 2, "none"), add("SP", "SP", 4)>>, exit) EXCEPT !.size = 4], 0)
\* Compact unwind info has no opcode for fp and lr at the bottom of the frame, or lr alone.
FrameBelow(exit) ==
    Roomy(Shape("Dwarf",
                <<stp("X29", "X30", -6, "pre"), stp("X20", "X19", 4, "none"), add("X29", "SP", 0)>>,
                <<ldp("X20", "X19", 4, "none"), ldp("X29", "X30", 6, "post")>>, exit), 2)
LrOnly(exit) ==
    Shape("Dwarf", <<stp("X30", "X19", -2, "pre")>>, <<ldp("X30", "X19", 2, "post")>>, exit)

Framed == <<SmallFrame("retab"), SmallFrame("auth_b"), FrameAtTop("ret"), FrameAtTop("auth_braa"),
            FrameAbove("b"), FrameAbove("retab"), FrameAndLocals("retab")>>
DwarfOnly == <<LrOnly("ret"), LrOnly("retab"), FrameBelow("ret"), FrameBelow("auth_b")>>
Lone == <<Leaf, Frameless("ret"), Frameless("b")>>   \* they call no function

IsSigned(s) == s.exit \in {"retab", "auth_b", "auth_braa"}

Exit(s, tail) ==
    LET auth == <<Simple("autibsp"), Simple("eor"), Simple("tbz"), Simple("brk")>>
    IN  CASE s.exit \in {"ret", "retab"} -> <<Simple(s.exit)>>
          [] s.exit = "b" -> <<Jump("b", tail)>>
          [] s.exit = "auth_b" -> auth \o <<Jump("b", tail)>>
          [] s.exit = "auth_braa" -> auth \o <<Simple("mov_x16"), Jump("braa", tail)>>

Enter(s) == (IF IsSigned(s) THEN <<Simple("pacibsp")>> ELSE <<>>) \o s.enter
Leave(s, tail) == s.leave \o Exit(s, tail)

\* Bodies jump, load pairs from the stack, and store them where the frame has room.
Body(s, start, work) ==
    <<Simple("other"), Jump("b", start + Len(Enter(s)) + 2), ldp("X0", "X1", 0, "none"),
      Simple("other")>> \o s.room \o work \o <<Simple("other")>>

Code(s, start, tail, work) == Enter(s) \o Body(s, start, work) \o Leave(s, tail)

TextStart == 40
Tail_ == <<Simple("other"), Simple("ret")>>

\* Where the functions of shapes start; after the last one, the function for tail calls.
Starts(shapes) ==
    LET Work(k) == IF k = Len(shapes) THEN <<>> ELSE <<Simple("bl")>>
        start[k \in 1 .. Len(shapes) + 1] ==
          IF k = 1 THEN TextStart
          ELSE start[k - 1] + Len(Code(shapes[k - 1], 0, 0, Work(k - 1)))
    IN  start

Codes(shapes) ==
    LET start == Starts(shapes)
        n == Len(shapes)
        Work(k) == IF k = n THEN <<>> ELSE <<Jump("bl", start[k + 1])>>
    IN  [k \in 1 .. n |-> Code(shapes[k], start[k], start[n + 1], Work(k))]

(***************************************************************************)
(* The DWARF row of every address of a function: the distance from sp to   *)
(* the cfa, the register that the cfa is computed from and its distance,   *)
(* and how far below the cfa fp and lr are stored (0 if they are not).     *)
(***************************************************************************)
RowAfter(row, i) ==
    LET depth == row.depth - (IF WritesBack(i) THEN i.imm ELSE 0)
        below == depth - (IF i.writeback = "none" THEN i.imm ELSE 0)
        Saved(reg, before) ==
          IF i.regs[1] = reg THEN below ELSE IF i.regs[2] = reg THEN below - 1 ELSE before
        Restored(reg, before) == IF reg \in ToSet(i.regs) THEN 0 ELSE before
    IN  CASE i.op = "stp" ->
               [row EXCEPT !.depth = depth, !.fp = Saved("X29", @), !.lr = Saved("X30", @)]
          [] i.op = "ldp" ->
               [row EXCEPT !.depth = depth, !.fp = Restored("X29", @), !.lr = Restored("X30", @),
                           !.from_fp = Restored("X29", @)]
          [] i.op = "add" /\ i.regs = <<"X29">> -> [row EXCEPT !.from_fp = row.depth - i.imm]
          [] i.op = "add" /\ i.regs = <<"SP">> -> [row EXCEPT !.depth = @ - i.imm]
          [] i.op = "sub" -> [row EXCEPT !.depth = @ + i.imm]
          [] OTHER -> row

DwarfRow(row) ==
    LET Stored(below) ==
          IF below = 0 THEN [kind |-> "Undefined"] ELSE [kind |-> "Offset", offset |-> -below]
    IN  [cfa |-> [kind |-> "RegisterAndOffset", register |-> IF row.from_fp = 0 THEN "SP" ELSE "X29",
                  offset |-> IF row.from_fp = 0 THEN row.depth ELSE row.from_fp],
         fp |-> Stored(row.fp), lr |-> Stored(row.lr)]

RowsOf(code, start) ==
    LET before[k \in DOMAIN code] ==
          IF k = 1 THEN [depth |-> 0, from_fp |-> 0, fp |-> 0, lr |-> 0]
          ELSE RowAfter(before[k - 1], code[k - 1])
    IN  [a \in start .. start + Len(code) - 1 |-> DwarfRow(before[a - start + 1])]

(***************************************************************************)
(* The program of a sequence of shapes, each calling the next, as a Mach-O *)
(* image; the other images have the same code.                             *)
(***************************************************************************)
Opcode(s) == [kind |-> s.kind, stack_size |-> s.size]
Entry(start, end, opcode) == [start |-> start, end |-> end, opcode |-> opcode]

ImageOf(code) ==
    LET all == TextStart .. TextStart + Len(code) - 1
    IN  [kind |-> "CompactUnwindInfoAndEhFrame", entry |-> TextStart, stops |-> all,
         at |-> [a \in all |-> code[a - TextStart + 1]] @@ <<>>, fp |-> StackStart + 1,
         functions |-> {}, stubs |-> <<0, 0>>, stub_helper |-> <<0, 0>>,
         text_start |-> TextStart - 2, text |-> <<Simple("other"), Simple("other")>> \o code,
         rows |-> <<>>]

\* Without the finding about prologues: no stop at a sub after fp has been set.
SubAfterAdd(code) ==
    {TextStart + k - 1 : k \in {l \in 2 .. Len(code) : code[l].op = "sub" /\ code[l - 1].op = "add"}}

TailEntry(tail) == Entry(tail, tail + Len(Tail_), Opcode(Leaf))

Entries(shapes, opcodes) ==
    LET start == Starts(shapes)
    IN  {Entry(start[k], start[k + 1], opcodes[k]) : k \in DOMAIN shapes}
          \cup {TailEntry(start[Len(shapes) + 1])}

MachoAll(shapes) ==
    [ImageOf(FlattenSeq(Codes(shapes)) \o Tail_)
       EXCEPT !.functions = Entries(shapes, [k \in DOMAIN shapes |-> Opcode(shapes[k])])]

Macho(shapes) ==
    [MachoAll(shapes) EXCEPT !.stops = @ \ SubAfterAdd(FlattenSeq(Codes(shapes)))]

WithFp0(image) == [image EXCEPT !.fp = 0]

Collapsed(shapes) ==
    LET tail == Starts(shapes)[Len(shapes) + 1]
    IN  [Macho(shapes) EXCEPT !.functions = {Entry(TextStart, tail, Opcode(shapes[1])),
                                             TailEntry(tail)}]

WithOpcode(shapes, kind) ==
    [Macho(shapes) EXCEPT !.functions = Entries(shapes, [k \in DOMAIN shapes |-> [kind |-> kind]])]

\* Leaves, and the function for tail calls, have no rows.
Rows_(shapes) ==
    LET start == Starts(shapes)
        codes == Codes(shapes)
        rows[k \in 0 .. Len(shapes)] ==
          IF k = 0 THEN <<>>
          ELSE rows[k - 1] @@ (IF shapes[k] = Leaf THEN <<>> ELSE RowsOf(codes[k], start[k]))
    IN  rows[Len(shapes)]

WithDwarf(shapes) == [WithOpcode(shapes, "Dwarf") EXCEPT !.rows = Rows_(shapes)]

EhFrame(shapes) ==
    [MachoAll(shapes) EXCEPT !.kind = "EhFrameHdrAndEhFrame", !.rows = Rows_(shapes)]

BodyOf(shapes, k) ==
    LET start == Starts(shapes)
    IN  start[k] + Len(Enter(shapes[k])) .. start[k + 1] - Len(Leave(shapes[k], 0)) - 1

Bodies(shapes) == UNION {BodyOf(shapes, k) : k \in DOMAIN shapes}

WithoutText(shapes) == [Macho(shapes) EXCEPT !.text = <<>>, !.stops = Bodies(shapes)]

WithoutData(shapes, kind) == [Macho(shapes) EXCEPT !.kind = kind, !.stops = Bodies(shapes)]

\* A function without information is taken for a leaf on the first frame.
WithNull(s) ==
    LET shapes == <<s, Leaf>>
    IN  [WithOpcode(shapes, "Null")
           EXCEPT !.stops = Starts(shapes)[2] .. Starts(shapes)[3] + Len(Tail_) - 1]

(***************************************************************************)
(* A call of a function of another image: a stub, which jumps to the stub  *)
(* helper until the function has been bound.                               *)
(***************************************************************************)
StubHelper(shared) ==
    <<Simple("other"), Simple("other"), stp("X16", "X17", -2, "pre"), Simple("other"),
      Simple("other"), Jump("br", 0), Simple("other"), Jump("b", shared), Simple("other")>>

Stubs(o) ==
    LET tail == TextStart + Len(Code(o, 0, 0, <<Simple("bl")>>))
        stub == tail + Len(Tail_)
        helper == stub + 3
        outer == Code(o, TextStart, tail, <<Jump("bl", stub)>>)
        stubs == <<Simple("other"), Simple("other"), Jump("br", helper + 6)>>
    IN  [ImageOf(outer \o Tail_ \o stubs \o StubHelper(helper))
           EXCEPT !.functions = {Entry(TextStart, tail, Opcode(o)), TailEntry(tail)},
                  !.stubs = <<stub, helper>>, !.stub_helper = <<helper, helper + 9>>,
                  !.stops = @ \ SubAfterAdd(outer)]

UnknownStubs(o) == [Stubs(o) EXCEPT !.stubs = <<0, 0>>]

-----------------------------------------------------------------------------
(***************************************************************************)
(* Any two shapes are in any two places of some sequence of three, if they *)
(* may be there.                                                           *)
(***************************************************************************)
Triples(callers, lasts) ==
    LET n == Len(callers)
        m == Len(lasts)
        Triple(a, b) == <<callers[((a + b) % n) + 1], callers[a + 1], lasts[b + 1]>>
    IN  [k \in 1 .. n * m |-> Triple((k - 1) \div m, (k - 1) % m)]

FrameTriples == Triples(Framed, Framed)
MachoTriples == Triples(Framed, Framed \o Lone)
AllTriples == Triples(Framed \o DwarfOnly, Framed \o Lone \o DwarfOnly)
DwarfOnlyTriples == Triples(DwarfOnly, Framed \o Lone \o DwarfOnly)

MCImages ==
    [k \in DOMAIN MachoTriples |-> Macho(MachoTriples[k])]
      \o [k \in DOMAIN FrameTriples |-> WithFp0(Macho(FrameTriples[k]))]
      \o [k \in DOMAIN FrameTriples |-> Collapsed(FrameTriples[k])]
      \o [k \in DOMAIN DwarfOnlyTriples |-> WithDwarf(DwarfOnlyTriples[k])]
      \o [k \in DOMAIN FrameTriples |-> WithOpcode(FrameTriples[k], "Dwarf")]
      \o [k \in DOMAIN FrameTriples |-> WithOpcode(FrameTriples[k], "Unrecognized")]
      \o [k \in DOMAIN Framed |-> WithNull(Framed[k])]
      \o [k \in DOMAIN MachoTriples |-> WithoutText(MachoTriples[k])]
      \o [k \in DOMAIN AllTriples |-> EhFrame(AllTriples[k])]
      \o [k \in DOMAIN FrameTriples |-> WithoutData(FrameTriples[k], "None")]
      \o [k \in DOMAIN FrameTriples |-> WithoutData(FrameTriples[k], "PeUnwindInfo")]
      \o [k \in DOMAIN FrameTriples |-> WithoutData(FrameTriples[k], "EhFrameHdrAndEhFrame")]
      \o [k \in DOMAIN Framed |-> Stubs(Framed[k])]
      \o [k \in DOMAIN Framed |-> UnknownStubs(Framed[k])]

MCLocalsImages == [k \in DOMAIN Framed |-> MachoAll(<<Framed[k], FrameAndLocals("ret")>>)]

MCOffsets == 0 .. 16
MCIOffsets == -16 .. 16
MCDwarfRegisters == {"SP", "X29", "X30"}
=============================================================================
