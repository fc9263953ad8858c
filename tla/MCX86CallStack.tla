---------------------------- MODULE MCX86CallStack ----------------------------
(***************************************************************************)
(* Programs for X86CallStack: a function that calls another one, which     *)
(* calls a third one, all of several shapes, with the code and the unwind  *)
(* information that compilers emit for these shapes, and a function for    *)
(* tail calls.  A shape has a frame pointer or not, registers that it      *)
(* saves, bytes it allocates (with an operand of one or four bytes), and   *)
(* returns or ends in a tail call.                                         *)
(***************************************************************************)
EXTENDS X86CallStack

Shape(frame_, saves, alloc, exit) ==
    [frame |-> frame_, saves |-> saves, alloc |-> alloc, wide |-> FALSE, exit |-> exit]

WithFrame == <<Shape(TRUE, <<>>, 0, "ret"), Shape(TRUE, <<"R15", "RBX">>, 24, "ret"),
               Shape(TRUE, <<"RBX">>, 0, "jmp")>>
Leaf == Shape(FALSE, <<>>, 0, "ret")
Frameless == <<Shape(FALSE, <<"R15", "R14", "RBX">>, 16, "ret"),
               Shape(FALSE, <<"RBP", "RBX">>, 24, "ret"),
               Shape(FALSE, <<"R15", "RBP">>, 0, "jmp"),
               Shape(FALSE, <<>>, \H58, "ret")>>
Wide == [Shape(FALSE, <<"RBP">>, \H50, "ret") EXCEPT !.wide = TRUE]
Shapes == WithFrame \o Frameless \o <<Leaf, Wide>>

Enter(s) ==
    (IF s.frame THEN <<push("RBP"), mov_rbp_rsp>> ELSE <<>>)
      \o [i \in DOMAIN s.saves |-> push(s.saves[i])]
      \o (IF s.alloc = 0 THEN <<>>
          ELSE IF s.wide THEN <<sub_rsp_wide(s.alloc)>> ELSE <<sub_rsp(s.alloc)>>)

Leave(s, tail) ==
    (IF s.alloc = 0 THEN <<>> ELSE <<add_rsp(s.alloc)>>)
      \o [i \in DOMAIN s.saves |-> pop(Reverse(s.saves)[i])]
      \o (IF s.frame THEN <<pop("RBP")>> ELSE <<>>)
      \o (IF s.exit = "jmp" THEN <<jmp(tail)>> ELSE <<ret>>)

\* A function that has saved rbp and has no frame may use rbp; a jump in a body is no tail call.
Body(s, work) ==
    <<nop>> \o (IF ~s.frame /\ Contains(s.saves, "RBP") THEN <<mov_rbp_rdi>> ELSE <<>>)
            \o work \o <<mov_from_stack(16)>>

Bytes(code) == FlattenSeq([i \in DOMAIN code |-> code[i].bytes])
Size(code) == Len(Bytes(code))

TextStart == 40

\* Where the instructions of code are, if the first one is at start.
Places(code, start) ==
    LET place[i \in 1 .. Len(code) + 1] ==
          IF i = 1 THEN start ELSE place[i - 1] + Len(code[i - 1].bytes)
    IN  place

(***************************************************************************)
(* The DWARF row of every address of a function: how many words are above  *)
(* the cfa, the register that the cfa is computed from, and where bp is.   *)
(***************************************************************************)
RowAfter(row, i) ==
    CASE i.op = "push" /\ i.arg = "RBP" -> [row EXCEPT !.depth = @ + 1, !.bp = row.depth + 1]
      [] i.op = "push" /\ i.arg # "RBP" -> [row EXCEPT !.depth = @ + 1]
      [] i.op = "pop" /\ i.arg = "RBP" -> [row EXCEPT !.depth = @ - 1, !.bp = 0, !.base = "RSP"]
      [] i.op = "pop" /\ i.arg # "RBP" -> [row EXCEPT !.depth = @ - 1]
      [] i.op = "add_rsp" -> [row EXCEPT !.depth = @ - i.arg \div 8]
      [] i.op = "mov_rbp_rsp" -> [row EXCEPT !.base = "RBP"]
      [] OTHER -> row

DwarfRow(row) ==
    [cfa |-> [kind |-> "RegisterAndOffset", register |-> row.base,
              offset |-> IF row.base = "RBP" THEN 2 ELSE row.depth],
     bp |-> IF row.bp = 0 THEN [kind |-> "Undefined"] ELSE [kind |-> "Offset", offset |-> -row.bp],
     ra |-> [kind |-> "Offset", offset |-> -1]]

RowsOf(code, start) ==
    LET place == Places(code, start)
        before[i \in DOMAIN code] ==
          IF i = 1 THEN [depth |-> 1, base |-> "RSP", bp |-> 0]
          ELSE RowAfter(before[i - 1], code[i - 1])
        At(a) == CHOOSE i \in DOMAIN code : place[i] <= a /\ a < place[i + 1]
    IN  [a \in start .. place[Len(code) + 1] - 1 |-> DwarfRow(before[At(a)])]

(***************************************************************************)
(* The opcode, and the PE unwind operations, of a shape.                   *)
(***************************************************************************)
Opcode(s) ==
    LET pushed == 8 * (Len(s.saves) + 1)
    IN  IF s.frame THEN [kind |-> "FrameBased"]
        ELSE IF s.wide
        THEN [kind |-> "FramelessIndirect", immediate_offset |-> Size(Enter(s)) - 4,
              stack_adjust |-> pushed, saved_regs |-> Reverse(s.saves)]
        ELSE [kind |-> "FramelessImmediate", stack_size |-> pushed + s.alloc,
              saved_regs |-> Reverse(s.saves)]

PeOperation(i) ==
    CASE i.op = "push" \/ i.op = "pop" -> Pop(i.arg)
      [] i.op = "add_rsp" -> AddSp((IF i.arg < 0 THEN -i.arg ELSE i.arg) \div 8)
      [] i.op = "mov_rbp_rsp" -> SpFromFp(0)

PeInfo(s) ==
    LET code == Enter(s)
        place == Places(code, 0)
    IN  Reverse([i \in DOMAIN code |-> [offset |-> place[i + 1], op |-> PeOperation(code[i])]])

EpilogsOf(s, tail, start) ==
    LET code == Leave(s, tail)
        place == Places(code, start)
        Rest(i) == SubSeq(code, i, Len(code) - 1)
        Ops(i) == [k \in DOMAIN Rest(i) |-> PeOperation(Rest(i)[k])]
        At(a) == CHOOSE i \in DOMAIN code : place[i] = a
    IN  [a \in {place[i] : i \in DOMAIN code} |-> Ops(At(a))]

(***************************************************************************)
(* The program of a sequence of shapes, each calling the next, as a Mach-O *)
(* image; the other images have the same code.                             *)
(***************************************************************************)
Tail_ == <<nop, ret>>

Code(s, work, tail) == Enter(s) \o Body(s, work) \o Leave(s, tail)

\* Where the functions of shapes start; after the last one, the function for tail calls.
Starts(shapes) ==
    LET start[k \in 1 .. Len(shapes) + 1] ==
          IF k = 1 THEN TextStart
          ELSE start[k - 1] + Size(Code(shapes[k - 1], IF k > Len(shapes) THEN <<>> ELSE <<call(0)>>, 0))
    IN  start

Codes(shapes) ==
    LET start == Starts(shapes)
        n == Len(shapes)
    IN  [k \in 1 .. n |->
           Code(shapes[k], IF k = n THEN <<>> ELSE <<call(start[k + 1])>>, start[n + 1])]

Entry(start, end, opcode) == [start |-> start, end |-> end, opcode |-> opcode]

ImageOf(code) ==
    LET place == Places(code, TextStart)
        all == {place[k] : k \in DOMAIN code}
    IN  [kind |-> "CompactUnwindInfoAndEhFrame", entry |-> TextStart, stops |-> all,
         at |-> [a \in all |-> code[CHOOSE k \in DOMAIN code : place[k] = a]] @@ <<>>,
         functions |-> {}, stubs |-> <<0, 0>>, stub_helper |-> <<0, 0>>,
         text_start |-> TextStart - 2, text |-> Bytes(<<nop, nop>> \o code),
         rows |-> <<>>, pdata |-> {}, epilogs |-> <<>>]

TailEntry(tail) == Entry(tail, tail + Size(Tail_), Opcode(Leaf))

Entries(shapes, opcodes) ==
    LET start == Starts(shapes)
    IN  {Entry(start[k], start[k + 1], opcodes[k]) : k \in DOMAIN shapes}
          \cup {TailEntry(start[Len(shapes) + 1])}

Macho(shapes) ==
    [ImageOf(FlattenSeq(Codes(shapes)) \o Tail_)
       EXCEPT !.functions = Entries(shapes, [k \in DOMAIN shapes |-> Opcode(shapes[k])])]

Collapsed(shapes) ==
    LET tail == Starts(shapes)[Len(shapes) + 1]
    IN  [Macho(shapes) EXCEPT !.functions = {Entry(TextStart, tail, Opcode(shapes[1])),
                                             TailEntry(tail)}]

WithOpcode(shapes, kind) ==
    [Macho(shapes) EXCEPT !.functions = Entries(shapes, [k \in DOMAIN shapes |-> [kind |-> kind]])]

\* Leaves that call nothing have no rows.
Rows_(shapes) ==
    LET start == Starts(shapes)
        codes == Codes(shapes)
        n == Len(shapes)
        rows[k \in 0 .. n] ==
          IF k = 0 THEN RowsOf(Tail_, start[n + 1])
          ELSE rows[k - 1] @@ (IF k = n /\ shapes[n] = Leaf THEN <<>> ELSE RowsOf(codes[k], start[k]))
    IN  rows[n]

BodyOf(shapes, k) ==
    LET start == Starts(shapes)
    IN  start[k] + Size(Enter(shapes[k])) .. start[k + 1] - Size(Leave(shapes[k], 0)) - 1

Bodies(shapes) == UNION {BodyOf(shapes, k) : k \in DOMAIN shapes}

WithoutText(shapes) == [Macho(shapes) EXCEPT !.text = <<>>, !.stops = Bodies(shapes)]

WithDwarf(shapes) == [WithOpcode(shapes, "Dwarf") EXCEPT !.rows = Rows_(shapes)]

EhFrame(shapes) == [Macho(shapes) EXCEPT !.kind = "EhFrameHdrAndEhFrame", !.rows = Rows_(shapes)]

NoData(shapes, kind) == [Macho(shapes) EXCEPT !.kind = kind, !.stops = Bodies(shapes)]

Function(begin, end, chain) == [begin |-> begin, end |-> end, chain |-> chain, whole |-> TRUE]

\* The body of a calling function, from after its first instruction, has a chained info.
PeFunctions(shapes, k) ==
    LET start == Starts(shapes)
        body == start[k] + Size(Enter(shapes[k])) + 1
        info == PeInfo(shapes[k])
    IN  IF shapes[k] = Leaf THEN {}
        ELSE IF k = Len(shapes) THEN {Function(start[k], start[k + 1], <<info>>)}
        ELSE {Function(start[k], body, <<info>>), Function(body, start[k + 1], <<<<>>, info>>)}

Pe(shapes) ==
    LET start == Starts(shapes)
        n == Len(shapes)
        epilogs[k \in 0 .. n] ==
          IF k = 0 THEN <<>>
          ELSE epilogs[k - 1]
                 @@ EpilogsOf(shapes[k], start[n + 1], start[k + 1] - Size(Leave(shapes[k], 0)))
    IN  [Macho(shapes) EXCEPT !.kind = "PeUnwindInfo",
                              !.pdata = UNION {PeFunctions(shapes, k) : k \in 1 .. n},
                              !.epilogs = epilogs[n]]

PeWithoutText(shapes) == [Pe(shapes) EXCEPT !.text = <<>>, !.stops = Bodies(shapes)]

PeBroken(shapes) ==
    [Pe(shapes) EXCEPT !.pdata = {[f EXCEPT !.whole = FALSE] : f \in @}, !.stops = Bodies(shapes)]

(***************************************************************************)
(* A call of a function of another image: a stub, which jumps to the stub  *)
(* helper until the function has been bound.                               *)
(***************************************************************************)
StubHelper(shared) ==
    <<lea_r11, push("R11"), jmp_indirect(0), nop, push_imm, jmp(shared)>>

Stubs(o) ==
    LET tail == TextStart + Size(Code(o, <<call(0)>>, 0))
        stub == tail + Size(Tail_)
        helper == stub + 6
        end == helper + \H1a
    IN  [ImageOf(Code(o, <<call(stub)>>, tail) \o Tail_ \o <<jmp_indirect(helper + \H10)>>
                   \o StubHelper(helper))
           EXCEPT !.functions = {Entry(TextStart, tail, Opcode(o)), TailEntry(tail)},
                  !.stubs = <<stub, helper>>, !.stub_helper = <<helper, end>>]

(***************************************************************************)
(* The thread is not stopped at the push of the helper (offset 7): the     *)
(* rule for this offset counts the push as done, and the walk takes the    *)
(* word above the return address for the return address.                   *)
(***************************************************************************)
StubsButPush(o) == [Stubs(o) EXCEPT !.stops = @ \ {Stubs(o).stub_helper[1] + \H7}]
UnknownStubsButPush(o) == [StubsButPush(o) EXCEPT !.stubs = <<0, 0>>]

-----------------------------------------------------------------------------
(***************************************************************************)
(* Any two shapes are in any two places of some sequence of three.         *)
(***************************************************************************)
Triples(shapes) ==
    LET n == Len(shapes)
        Triple(a, b) == <<shapes[((a + b) % n) + 1], shapes[a + 1], shapes[b + 1]>>
    IN  [k \in 1 .. n * n |-> Triple((k - 1) \div n, (k - 1) % n)]

AllTriples == Triples(Shapes)
FrameTriples == Triples(WithFrame)
NarrowTriples == Triples(SelectSeq(Shapes, LAMBDA s : ~s.wide))
EqualTriples == FrameTriples \o [k \in DOMAIN Shapes |-> <<Shapes[k], Shapes[k], Shapes[k]>>]
SomeShapes == WithFrame \o Frameless

MCImages ==
    [k \in DOMAIN AllTriples |-> Macho(AllTriples[k])]
      \o [k \in DOMAIN EqualTriples |-> Collapsed(EqualTriples[k])]
      \o [k \in DOMAIN FrameTriples |-> WithOpcode(FrameTriples[k], "Null")]
      \o [k \in DOMAIN FrameTriples |-> WithOpcode(FrameTriples[k], "Dwarf")]
      \o [k \in DOMAIN FrameTriples |-> WithOpcode(FrameTriples[k], "Unrecognized")]
      \o [k \in DOMAIN NarrowTriples |-> WithoutText(NarrowTriples[k])]
      \o [k \in DOMAIN AllTriples |-> WithDwarf(AllTriples[k])]
      \o [k \in DOMAIN AllTriples |-> EhFrame(AllTriples[k])]
      \o [k \in DOMAIN FrameTriples |-> NoData(FrameTriples[k], "None")]
      \o [k \in DOMAIN FrameTriples |-> NoData(FrameTriples[k], "EhFrameHdrAndEhFrame")]
      \o [k \in DOMAIN AllTriples |-> Pe(AllTriples[k])]
      \o [k \in DOMAIN FrameTriples |-> PeWithoutText(FrameTriples[k])]
      \o [k \in DOMAIN FrameTriples |-> PeBroken(FrameTriples[k])]
      \o [k \in DOMAIN SomeShapes |-> StubsButPush(SomeShapes[k])]
      \o [k \in DOMAIN SomeShapes |-> UnknownStubsButPush(SomeShapes[k])]

MCOffsets == 0 .. 32
MCIOffsets == -2 .. 32
MCRegisters == <<"RBX", "RBP", "R14", "R15">>
MCDwarfRegisters == {"RA", "RSP", "RBP"}
=============================================================================
