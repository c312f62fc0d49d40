----------------------------- MODULE MCDatapath -----------------------------
EXTENDS Datapath

MCRam == {49152, 49153, 65408, 65409} \cup 53240 .. 53247

I(op, p1)  == [Nop EXCEPT !.op = op, !.p1 = p1]
CB(op, p1) == [I(op, p1) EXCEPT !.cb = TRUE]
Reads(i)   == [i EXCEPT !.lo = 0, !.hi = 192]     \* operand 0xc000, that of HL

\* HL points to memory and SP into the stack.
State0 ==
  [reg |-> [A |-> 18, B |-> 52, C |-> 129, D |-> 86, E |-> 120, H |-> 192, L |-> 0,
            SP |-> 53244, PC |-> 512],
   fl |-> {}, fLow |-> 0, mem |-> [a \in MCRam |-> a % 251]]

\* A, B, the byte at HL and the operand d8: a and v.
With(i, a, v, f) ==
  [text  |-> <<[i EXCEPT !.lo = v]>>,
   state |-> [State0 EXCEPT !.reg.A = a, !.reg.B = v, !.mem[49152] = v, !.fl = f]]

Edges == {0, 1, 7, 8, 15, 16, 17, 127, 128, 129, 239, 240, 254, 255}
Carries01 == {{}, {"Z", "N", "H", "C"}}

ByteOps ==
  {With(I(op, p), a, v, f) : op \in Accumulate, p \in {"B", "d8", "m"}, a \in Edges, v \in Edges,
                             f \in Carries01}
IncDecs ==
  {With(I(op, "B"), 0, v, f) : op \in {"INC", "DEC"}, v \in Byte, f \in Carries01}
    \cup {With(I(op, "m"), 0, v, f) : op \in {"INCm", "DECm"}, v \in Byte, f \in Carries01}

Turns ==
  {With(CB(op, p), 0, v, f) : op \in Rotate, p \in {"B", "m"}, v \in Byte, f \in Carries01}
TurnsOfA ==
  {With(I(op, "A"), v, 0, f) : op \in {"RLC", "RRC", "RL", "RR"}, v \in Byte, f \in Carries01}

WordEdges == {0, 1, 255, 256, 4095, 4096, 32767, 32768, 61439, 65280, 65535}

Words ==
  {[text  |-> <<I(op, "BC")>>,
    state |-> [State0 EXCEPT !.reg.H = v \div 256, !.reg.L = v % 256,
                             !.reg.B = w \div 256, !.reg.C = w % 256]] :
     op \in {"ADDHL"}, v \in WordEdges, w \in WordEdges}
Displacements ==
  {[text  |-> <<[I(op, "none") EXCEPT !.lo = v]>>, state |-> [State0 EXCEPT !.reg.SP = w]] :
     op \in {"ADDSP", "LDHLSP"}, v \in Edges, w \in WordEdges}

\* Every pair of decimal numbers, added or subtracted with carry and adjusted.
Decimals == {16 * h + l : h, l \in 0 .. 9}
Adjustments ==
  {LET s == With(I(op, "B"), a, v, f)
   IN [s EXCEPT !.text = Append(@, I("DAA", "none"))] :
     op \in {"ADC", "SBC"}, a \in Decimals, v \in Decimals, f \in {{}, {"C"}}}

\* One of each handler, and each outcome of the conditional ones.
Each ==
  {I(op, "none") : op \in {"NOP", "DAA", "CPL", "SCF", "CCF", "JPHL", "LDSPHL", "RET"}}
    \cup {Reads(I(op, "none")) : op \in {"LDa16SP", "STa16", "LDa16", "JP", "CALL"}}
    \cup {[I(op, "none") EXCEPT !.lo = 128] : op \in {"STH", "LDH", "STC", "LDC", "STmd8", "JR"}}
    \cup {[I(op, "HL") EXCEPT !.n = k] : op \in {"STr16", "LDAr16"}, k \in {-1, 0, 1}}
    \cup {Reads(I(op, p)) : op \in {"LDr16", "INC16", "DEC16"}, p \in {"BC", "SP"}}
    \cup {[I(op, "B") EXCEPT !.p2 = "E"] : op \in {"LDrr", "LDrm", "STmr", "LDrd8"}}
    \cup {[I("RST", "none") EXCEPT !.n = 56]}
    \cup {I(op, p) : op \in {"PUSH", "POP"}, p \in {"AF", "DE"}}
    \cup {[Reads(I(op, f)) EXCEPT !.n = k] :
            op \in DOMAIN IfTaken, f \in {"Z", "C"}, k \in {0, 1}}
    \cup {[CB(op, p) EXCEPT !.n = w] : op \in BitOps, p \in {"B", "m"}, w \in {1, 128}}

Singles ==
  {[text |-> <<i>>, state |-> [State0 EXCEPT !.fl = f, !.fLow = l]] :
     i \in Each, f \in SUBSET {"Z", "C"}, l \in {0, 5}}

\* Programs of the stack.
StackOps ==
  {I("PUSH", "AF"), I("PUSH", "BC"), I("POP", "AF"), I("POP", "DE"), Reads(I("CALL", "none")),
   Reads(I("CALLcc", "Z")), I("RET", "none"), [I("RETcc", "C") EXCEPT !.n = 1],
   [I("RST", "none") EXCEPT !.n = 8]}
Stacks ==
  {[text |-> t, state |-> [State0 EXCEPT !.fl = f, !.fLow = IF f = {} THEN 0 ELSE 10]] :
     t \in [1 .. 4 -> StackOps], f \in {{}, {"Z", "C"}}}

MCStarts == <<ByteOps, IncDecs, Turns, TurnsOfA, Words, Displacements, Adjustments, Singles, Stacks>>
=============================================================================
