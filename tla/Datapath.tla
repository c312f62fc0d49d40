------------------------------ MODULE Datapath ------------------------------
(***************************************************************************)
(* What the instructions do to registers, flags and memory: the opcode     *)
(* handlers of core/src/cpu/cpu_opcodes.cpp, microstep by microstep, with  *)
(* the register file (reg8.cpp, reg16.cpp) and the stack helpers of        *)
(* cpu.cpp.  One action is one call of a handler by Cpu::tick.  Interrupts *)
(* and the cycles of a call are CpuControl's; Opcodes, on which CpuControl *)
(* rests, is checked here against the handlers.                            *)
(***************************************************************************)
EXTENDS Alu, Opcodes

CONSTANTS Ram,    \* the addresses behind which there is memory
          Starts  \* groups of programs, each with what it starts from

VARIABLES reg,        \* the bytes of AF, BC, DE and HL but for F; SP and PC
          fl, fLow,   \* F: its flags and its lower four bits
          mem,
          mCurState,
          mCache,     \* a word carried from one microstep to the next
          text,       \* the instructions still to be executed
          seen,       \* history: the last two instructions, and the states they found
          ghost       \* history: the words pushed and not yet popped, the last one first

machine == <<reg, fl, fLow, mem, mCache>>
vars == <<machine, mCurState, text, seen, ghost>>

Bytes8 == {"A", "B", "C", "D", "E", "H", "L"}
Pairs == {"AF", "BC", "DE", "HL", "SP", "PC"}
Regs == Bytes8 \cup {"SP", "PC"}

High == [AF |-> "A", BC |-> "B", DE |-> "D", HL |-> "H"]
LowOf == [BC |-> "C", DE |-> "E", HL |-> "L"]

RegFile == {r \in [Regs -> Word] : \A n \in Bytes8 : r[n] \in Byte}

\* The operations, with their families in Opcodes: those done in one call,
\* those that let the first call pass, and those that depend on a flag or on
\* where their operand is.
OneStep ==
  [NOP |-> "NOP", LDrr |-> "ALU", LDrd8 |-> "IMM", LDr16 |-> "LD16", LDa16SP |-> "LDa16SP",
   LDSPHL |-> "IMM", INC16 |-> "IMM", DEC16 |-> "IMM", INC |-> "ALU", DEC |-> "ALU",
   ADDHL |-> "IMM", DAA |-> "ALU", CPL |-> "ALU", SCF |-> "ALU", CCF |-> "ALU",
   JR |-> "JR", JPHL |-> "ALU", RST |-> "PUSH", PUSH |-> "PUSH", POP |-> "POP"]

Stepped ==
  [STr16 |-> "STr", LDAr16 |-> "LDr", LDrm |-> "LDr", STmr |-> "STr", STmd8 |-> "STd8",
   STH |-> "STH", LDH |-> "LDH", STC |-> "STr", LDC |-> "LDr", STa16 |-> "STa16",
   LDa16 |-> "LDa16", ADDSP |-> "ADDSP", INCm |-> "INCm", DECm |-> "INCm",
   LDHLSP |-> "LDHLSP", RET |-> "RET", JP |-> "JP", CALL |-> "CALL"]

IfTaken == [JRcc |-> "JR", JPcc |-> "JP", CALLcc |-> "CALL", RETcc |-> "RETcc"]
IfNot   == [JRcc |-> "JRnot", JPcc |-> "JPnot", CALLcc |-> "CALLnot", RETcc |-> "RETnot"]

Accumulate == {"ADD", "ADC", "SUB", "SBC", "AND", "XOR", "OR", "CP"}
Rotate == {"RLC", "RRC", "RL", "RR", "SLA", "SRA", "SWAP", "SRL"}
BitOps == {"BIT", "RES", "SET"}

Ops == DOMAIN OneStep \cup DOMAIN Stepped \cup DOMAIN IfTaken
         \cup Accumulate \cup Rotate \cup BitOps

\* p1 and p2 as in the opcode table: a register, a pair, a flag, "d8" or
\* "m" for the byte at HL.  n is the flag's value, the weight of a bit, the
\* step of HL or the vector; lo and hi are the bytes behind the opcode.
Weights == {1, 2, 4, 8, 16, 32, 64, 128}

Instr ==
  {i \in [op : Ops, p1 : Bytes8 \cup Pairs \cup Flags \cup {"d8", "m", "none"},
          p2 : Bytes8 \cup {"none"}, n : -1 .. 255, lo : Byte, hi : Byte, cb : BOOLEAN] :
     /\ i.op \in {"LDrr", "LDrd8", "LDrm", "STmr", "INC", "DEC"} => i.p1 \in Bytes8
     /\ i.op = "LDrr" => i.p2 \in Bytes8
     /\ i.op \in {"LDr16", "INC16", "DEC16", "ADDHL"} => i.p1 \in {"BC", "DE", "HL", "SP"}
     /\ i.op \in {"STr16", "LDAr16"} => i.p1 \in {"BC", "DE", "HL"}
     /\ i.op \in {"INCm", "DECm"} => i.p1 = "m"
     /\ i.op \in {"PUSH", "POP"} => i.p1 \in {"AF", "BC", "DE", "HL"}
     /\ i.op \in Accumulate => i.p1 \in Bytes8 \cup {"d8", "m"}
     /\ i.op \in Rotate \cup BitOps => i.p1 \in Bytes8 \cup {"m"}
     /\ i.op \in Rotate /\ ~i.cb => i.op \in {"RLC", "RRC", "RL", "RR"}
     /\ i.op \in BitOps => i.n \in Weights
     /\ i.op = "RST" => i.n \in Byte}

Nop == [op |-> "NOP", p1 |-> "none", p2 |-> "none", n |-> 0, lo |-> 0, hi |-> 0, cb |-> FALSE]

State == [reg : RegFile, fl : SUBSET Flags, fLow : 0 .. 15, mem : [Ram -> Byte]]

\* Some addresses (0xfea0 to 0xfeff at least) have no memory behind them.
ASSUME RamAssumption == Ram \subseteq Word /\ Ram # Word
ASSUME StartsAssumption ==
  \A g \in DOMAIN Starts : \A s \in Starts[g] :
    /\ s.state \in State
    /\ s.text \in Seq(Instr)

Init ==
  \E g \in DOMAIN Starts : \E s \in Starts[g] :
    /\ reg = s.state.reg /\ fl = s.state.fl /\ fLow = s.state.fLow /\ mem = s.state.mem
    /\ mCurState = 0 /\ mCache = 0
    /\ text = s.text
    /\ seen = LET none == [instr |-> Nop, state |-> s.state] IN <<none, none>>
    /\ ghost = <<>>
-----------------------------------------------------------------------------
(* Registers and memory *)

Cur == Head(text)

FByte == fLow + (IF "Z" \in fl THEN 128 ELSE 0) + (IF "N" \in fl THEN 64 ELSE 0)
              + (IF "H" \in fl THEN 32 ELSE 0) + (IF "C" \in fl THEN 16 ELSE 0)
FlagsIn(b) ==
  LET weight == [Z |-> 128, N |-> 64, H |-> 32, C |-> 16]
  IN {f \in Flags : Bit(b, weight[f]) = 1}

\* Reg16::read and write; AF goes to the stack and back only.
Pair(r, p) ==
  IF p \in {"SP", "PC"} THEN r[p]
  ELSE 256 * r[High[p]] + (IF p = "AF" THEN FByte ELSE r[LowOf[p]])

Wide(r, p, v) ==
  IF p \in {"SP", "PC"} THEN [r EXCEPT ![p] = v]
  ELSE IF p = "AF" THEN [r EXCEPT !["A"] = v \div 256]
  ELSE [r EXCEPT ![High[p]] = v \div 256, ![LowOf[p]] = Low(v)]

\* An address without memory is an EmptyRegion.
Read(a) == IF a \in Ram THEN mem[a] ELSE 0
Written(m, a, v) == IF a \in Ram THEN [m EXCEPT ![a] = v] ELSE m

\* The stack: high byte first, each at the decremented SP.
Pushed_LowFirst(m, sp, v) == Written(Written(m, Wrap(sp - 1), Low(v)), Wrap(sp - 2), v \div 256)
Pushed(m, sp, v) == Written(Written(m, Wrap(sp - 1), v \div 256), Wrap(sp - 2), Low(v))
Popped(sp) == Read(sp) + 256 * Read(Wrap(sp + 1))

\* The registers as a handler finds them: fetching moves PC over the opcode.
In == IF mCurState = 0
        THEN [reg EXCEPT !["PC"] = Wrap(@ + (IF Cur.cb THEN 2 ELSE 1))]
        ELSE reg

HL == Pair(In, "HL")

\* PC behind k bytes of the operand.
Past(r, k) == [r EXCEPT !["PC"] = Wrap(@ + k)]
-----------------------------------------------------------------------------
(* What a call changes *)

Leave(r, f, m) == reg' = r /\ fl' = f /\ mem' = m
Sets(r) == Leave(r, fl, mem)
SetsFlags(r, f) == Leave(r, f, mem)
Stores(r, a, v) == Leave(r, fl, Written(mem, a, v))

\* SET_FLAG and CLEAR_FLAG keep the lower bits of F, CLEAR_FLAGS does not.
KeepLow == UNCHANGED fLow
DropLow == fLow' = 0

Carries(v) == mCache' = v
NoCache == UNCHANGED mCache

Advance == mCurState' = mCurState + 1 /\ UNCHANGED text
Reset   == mCurState' = 0 /\ text' = Tail(text)

\* The call of a delayed handler that only lets its cycles pass.
Wait == mCurState = 0 /\ Sets(In) /\ NoCache /\ Advance
-----------------------------------------------------------------------------
(* Loads *)

LD_r16_d16 == Cur.op = "LDr16" /\ Sets(Wide(Past(In, 2), Cur.p1, Cur.lo + 256 * Cur.hi))
LD_r8_d8   == Cur.op = "LDrd8" /\ Sets([Past(In, 1) EXCEPT ![Cur.p1] = Cur.lo])
LD_r8_r8   == Cur.op = "LDrr" /\ Sets([In EXCEPT ![Cur.p1] = In[Cur.p2]])
LD_SP_HL   == Cur.op = "LDSPHL" /\ Sets([In EXCEPT !["SP"] = HL])

LD_a16_SP ==
  /\ Cur.op = "LDa16SP"
  /\ LET a == Cur.lo + 256 * Cur.hi
     IN Leave(Past(In, 2), fl,
              Written(Written(mem, a, Low(In["SP"])), Wrap(a + 1), In["SP"] \div 256))

Nop_Stop == Cur.op = "NOP" /\ Sets(In)

\* Loads and stores whose access is in the second call.
LD_ar16_A ==
  /\ Cur.op = "STr16"
  /\ LET a == Pair(In, Cur.p1)
     IN Stores(Wide(In, Cur.p1, Wrap(a + Cur.n)), a, In["A"])

LD_A_ar16 ==
  /\ Cur.op = "LDAr16"
  /\ LET a == Pair(In, Cur.p1)
     IN Sets(Wide([In EXCEPT !["A"] = Read(a)], Cur.p1, Wrap(a + Cur.n)))

LD_arHL_d8 == Cur.op = "STmd8" /\ Stores(Past(In, 1), HL, Cur.lo)

LD_r8_and_arHL ==
  \/ Cur.op = "LDrm" /\ Sets([In EXCEPT ![Cur.p1] = Read(HL)])
  \/ Cur.op = "STmr" /\ Stores(In, HL, In[Cur.p1])

LDH_and_LD_arC ==
  \/ Cur.op = "STH" /\ Stores(Past(In, 1), 65280 + Cur.lo, In["A"])
  \/ Cur.op = "LDH" /\ Sets([Past(In, 1) EXCEPT !["A"] = Read(65280 + Cur.lo)])
  \/ Cur.op = "STC" /\ Stores(In, 65280 + In["C"], In["A"])
  \/ Cur.op = "LDC" /\ Sets([In EXCEPT !["A"] = Read(65280 + In["C"])])

LD_a16_and_A ==
  \/ Cur.op = "STa16" /\ Stores(Past(In, 2), Cur.lo + 256 * Cur.hi, In["A"])
  \/ Cur.op = "LDa16" /\ Sets([Past(In, 2) EXCEPT !["A"] = Read(Cur.lo + 256 * Cur.hi)])
-----------------------------------------------------------------------------
(* Arithmetic *)

Inc_Dec_r16 ==
  \/ Cur.op = "INC16" /\ Sets(Wide(In, Cur.p1, Wrap(Pair(In, Cur.p1) + 1)))
  \/ Cur.op = "DEC16" /\ Sets(Wide(In, Cur.p1, Wrap(Pair(In, Cur.p1) - 1)))

Inc_Dec_r8 ==
  /\ Cur.op \in {"INC", "DEC"}
  /\ LET v == In[Cur.p1]
         r == IF Cur.op = "INC" THEN Inc(v, fl) ELSE Dec(v, fl)
     IN SetsFlags([In EXCEPT ![Cur.p1] = r.val], r.fl)

ADD_HL_r16 ==
  /\ Cur.op = "ADDHL"
  /\ LET r == AddWord(HL, Pair(In, Cur.p1), fl)
     IN SetsFlags(Wide(In, "HL", r.val), r.fl)

DAA_CPL_SCF_CCF ==
  \/ /\ Cur.op \in {"DAA", "CPL"}
     /\ LET r == IF Cur.op = "DAA" THEN Daa(In["A"], fl) ELSE Cpl(In["A"], fl)
        IN SetsFlags([In EXCEPT !["A"] = r.val], r.fl)
  \/ Cur.op = "SCF" /\ SetsFlags(In, Scf(fl))
  \/ Cur.op = "CCF" /\ SetsFlags(In, Ccf(fl))

ADD_SP_r8 ==
  /\ Cur.op = "ADDSP"
  /\ LET r == AddDisplacement(SignExtended(Cur.lo), In["SP"], fl)
     IN SetsFlags([Past(In, 1) EXCEPT !["SP"] = r.val], r.fl)

\* The displacement is the byte itself, without its sign.
LD_HL_SP_p_r8 ==
  /\ Cur.op = "LDHLSP" /\ KeepLow
  /\ \/ Wait
     \/ mCurState = 1 /\ Sets(Past(In, 1)) /\ Carries(Cur.lo) /\ Advance
     \/ /\ mCurState = 2
        /\ LET r == AddDisplacement(mCache, In["SP"], fl)
           IN SetsFlags(Wide(In, "HL", r.val), r.fl)
        /\ NoCache /\ Reset

\* mCache is a word: INC (HL) compares it with 0 before it is cut to a byte.
Inc_Dec_arHL ==
  /\ Cur.op \in {"INCm", "DECm"} /\ KeepLow
  /\ \/ Wait
     \/ mCurState = 1 /\ Sets(In) /\ Carries(Read(HL)) /\ Advance
     \/ /\ mCurState = 2
        /\ LET up == Cur.op = "INCm"
               v == Wrap(IF up THEN mCache + 1 ELSE mCache - 1)
               half == v % 16 = (IF up THEN 0 ELSE 15)
           IN /\ Leave(In, Put(Put(Put(fl, "Z", v = 0), "H", half), "N", ~up),
                       Written(mem, HL, Low(v)))
              /\ Carries(v)
        /\ Reset

\* The operand: a register or the byte behind the opcode at once, the byte
\* at HL on the call after the fetch.
InMemory == Cur.p1 = "m"
Operand == IF InMemory THEN Read(HL) ELSE IF Cur.p1 = "d8" THEN Cur.lo ELSE In[Cur.p1]
Behind == IF Cur.p1 = "d8" THEN Past(In, 1) ELSE In

Logic == {"AND", "XOR", "OR"}

Sum(a, v) ==
  LET withC == Cur.op \in {"ADC", "SBC"}
  IN IF Cur.op \in {"ADD", "ADC"} THEN Add(a, v, withC, fl) ELSE Sub(a, v, withC, fl)

Masked(a, v) ==
  IF Cur.op = "AND" THEN And(a, v) ELSE IF Cur.op = "XOR" THEN Xor(a, v) ELSE Or(a, v)

AluOp ==
  /\ Cur.op \in Accumulate /\ NoCache
  /\ \/ InMemory /\ Wait /\ KeepLow
     \/ /\ mCurState = IF InMemory THEN 1 ELSE 0
        /\ LET r == IF Cur.op \in Logic THEN Masked(In["A"], Operand) ELSE Sum(In["A"], Operand)
           IN SetsFlags(IF Cur.op = "CP" THEN Behind ELSE [Behind EXCEPT !["A"] = r.val], r.fl)
        /\ IF Cur.op \in Logic THEN DropLow ELSE KeepLow
        /\ Reset
-----------------------------------------------------------------------------
(* Rotations and bits *)

\* The four rotations of A outside the CB table leave Z off.
Turned(v) ==
  LET r == IF Cur.op = "RLC" THEN Rlc(v)
           ELSE IF Cur.op = "RRC" THEN Rrc(v)
           ELSE IF Cur.op = "RL" THEN Rl(v, fl) ELSE Rr(v, fl)
  IN IF Cur.cb THEN WithZero(r) ELSE r

Shifted(v) ==
  IF Cur.op = "SLA" THEN Sla(v)
  ELSE IF Cur.op = "SRA" THEN Sra(v)
  ELSE IF Cur.op = "SRL" THEN Srl(v) ELSE Swap(v)

Rotated(v) == IF Cur.op \in {"RLC", "RRC", "RL", "RR"} THEN Turned(v) ELSE Shifted(v)

BitChanged(v) == IF Cur.op = "RES" THEN ResBit(v, Cur.n) ELSE SetBit(v, Cur.n)

OnRegister ==
  /\ ~InMemory /\ mCurState = 0
  /\ \/ /\ Cur.op \in Rotate
        /\ LET r == Rotated(In[Cur.p1])
           IN SetsFlags([In EXCEPT ![Cur.p1] = r.val], r.fl)
        /\ DropLow
     \/ /\ Cur.op \in {"RES", "SET"}
        /\ Sets([In EXCEPT ![Cur.p1] = BitChanged(In[Cur.p1])]) /\ KeepLow
     \/ /\ Cur.op = "BIT"
        /\ SetsFlags(In, TestBit(In[Cur.p1], Cur.n, fl)) /\ KeepLow
  /\ NoCache /\ Reset

ReadByte ==
  /\ Cur.op \in Rotate \cup {"RES", "SET"} /\ InMemory
  /\ KeepLow
  /\ \/ Wait
     \/ mCurState = 1 /\ Sets(In) /\ Carries(Read(HL)) /\ Advance

RotateByte ==
  /\ Cur.op \in Rotate /\ InMemory /\ mCurState = 2
  /\ LET r == Rotated(mCache)
     IN Leave(In, r.fl, Written(mem, HL, r.val)) /\ Carries(r.val)
  /\ DropLow /\ Reset

ChangeBit ==
  /\ Cur.op \in {"RES", "SET"} /\ InMemory /\ mCurState = 2
  /\ Stores(In, HL, BitChanged(mCache)) /\ Carries(BitChanged(mCache))
  /\ KeepLow /\ Reset

BIT_arHL ==
  /\ Cur.op = "BIT" /\ InMemory /\ KeepLow /\ NoCache
  /\ \/ Wait
     \/ mCurState = 1 /\ SetsFlags(In, TestBit(Read(HL), Cur.n, fl)) /\ Reset
-----------------------------------------------------------------------------
(* Jumps and the stack *)

Taken == (Cur.p1 \in fl) <=> (Cur.n = 1)

JR ==
  \/ /\ Cur.op = "JR" \/ (Cur.op = "JRcc" /\ Taken)
     /\ Sets(Past(Past(In, 1), SignExtended(Cur.lo)))
  \/ Cur.op = "JRcc" /\ ~Taken /\ Sets(Past(In, 1))

JP_arHL == Cur.op = "JPHL" /\ Sets([In EXCEPT !["PC"] = HL])

RST_n ==
  /\ Cur.op = "RST"
  /\ Leave([In EXCEPT !["SP"] = Wrap(@ - 2), !["PC"] = Cur.n], fl,
           Pushed(mem, In["SP"], In["PC"]))

PUSH_r16 ==
  /\ Cur.op = "PUSH"
  /\ Leave([In EXCEPT !["SP"] = Wrap(@ - 2)], fl, Pushed(mem, In["SP"], Pair(In, Cur.p1)))

POP_r16 ==
  /\ Cur.op = "POP"
  /\ LET v == Popped(In["SP"])
         r == Wide([In EXCEPT !["SP"] = Wrap(@ + 2)], Cur.p1, v)
     IN SetsFlags(r, IF Cur.p1 = "AF" THEN FlagsIn(v) ELSE fl)

\* POP AF masks the lower four bits of F off.
LowAfter_Popped == IF Cur.op = "POP" /\ Cur.p1 = "AF" THEN Read(In["SP"]) % 16 ELSE fLow
LowAfter == IF Cur.op = "POP" /\ Cur.p1 = "AF" THEN 0 ELSE fLow

\* The address behind the opcode, gathered byte by byte.
Address ==
  \/ mCurState = 1 /\ Sets(Past(In, 1)) /\ Carries(Cur.lo)
  \/ mCurState = 2 /\ Sets(Past(In, 1)) /\ Carries(mCache + 256 * Cur.hi)

JP ==
  /\ Cur.op = "JP" \/ Cur.op = "JPcc"
  /\ KeepLow
  /\ \/ Cur.op = "JPcc" /\ ~Taken /\ Sets(Past(In, 2)) /\ NoCache /\ Reset
     \/ /\ Cur.op = "JPcc" => Taken
        /\ \/ Wait
           \/ Address /\ Advance
           \/ mCurState = 3 /\ Sets([In EXCEPT !["PC"] = mCache]) /\ NoCache /\ Reset

CallNotTaken_TakenAnyway == FALSE
CallNotTaken == Cur.op = "CALLcc" /\ ~Taken

CALL ==
  /\ Cur.op = "CALL" \/ Cur.op = "CALLcc"
  /\ KeepLow
  /\ \/ Wait
     \/ Address /\ IF mCurState = 2 /\ CallNotTaken THEN Reset ELSE Advance
     \/ /\ mCurState = 3
        /\ LET sp == Wrap(In["SP"] - 1)
           IN Stores([In EXCEPT !["PC"] = mCache, !["SP"] = sp], sp, In["PC"] \div 256)
        /\ Carries(In["PC"]) /\ Advance
     \/ /\ mCurState = 4
        /\ LET sp == Wrap(In["SP"] - 1)
           IN Stores([In EXCEPT !["SP"] = sp], sp, Low(mCache))
        /\ NoCache /\ Reset

RET ==
  /\ Cur.op = "RET" \/ Cur.op = "RETcc"
  /\ KeepLow
  /\ \/ Cur.op = "RETcc" /\ mCurState = 0 /\ ~Taken /\ Sets(In) /\ NoCache /\ Reset
     \/ (Cur.op = "RETcc" => Taken) /\ Wait
     \/ /\ mCurState \in {1, 2}
        /\ Sets([In EXCEPT !["SP"] = Wrap(@ + 1)])
        /\ Carries(IF mCurState = 1 THEN Read(In["SP"]) ELSE mCache + 256 * Read(In["SP"]))
        /\ Advance
     \/ mCurState = 3 /\ Sets([In EXCEPT !["PC"] = mCache]) /\ NoCache /\ Reset
-----------------------------------------------------------------------------
Single ==
  /\ mCurState = 0
  /\ \/ LD_r16_d16 \/ LD_r8_d8 \/ LD_r8_r8 \/ LD_SP_HL \/ LD_a16_SP \/ Nop_Stop
     \/ Inc_Dec_r16 \/ Inc_Dec_r8 \/ ADD_HL_r16 \/ DAA_CPL_SCF_CCF
     \/ JR \/ JP_arHL \/ RST_n \/ PUSH_r16 \/ POP_r16
  /\ fLow' = LowAfter /\ NoCache /\ Reset

Delayed == {"STr16", "LDAr16", "STmd8", "LDrm", "STmr", "STH", "LDH", "STC", "LDC",
            "STa16", "LDa16", "ADDSP"}

Transfer ==
  /\ Cur.op \in Delayed /\ KeepLow /\ NoCache
  /\ \/ Wait
     \/ /\ mCurState = 1
        /\ \/ LD_ar16_A \/ LD_A_ar16 \/ LD_arHL_d8 \/ LD_r8_and_arHL
           \/ LDH_and_LD_arC \/ LD_a16_and_A \/ ADD_SP_r8
        /\ Reset

Handler ==
  \/ Single \/ Transfer \/ LD_HL_SP_p_r8 \/ Inc_Dec_arHL \/ AluOp
  \/ OnRegister \/ ReadByte \/ RotateByte \/ ChangeBit \/ BIT_arHL
  \/ JP \/ CALL \/ RET

\* History: what the instructions found, and the words on the stack.
Watch ==
  LET found == [instr |-> Cur, state |-> [reg |-> reg, fl |-> fl, fLow |-> fLow, mem |-> mem]]
  IN seen' = IF mCurState = 0 THEN <<found, seen[1]>> ELSE seen

Pushes == Cur.op \in {"PUSH", "RST"} \/ (Cur.op \in {"CALL", "CALLcc"} /\ mCurState = 4)
Pops == Cur.op = "POP" \/ (Cur.op \in {"RET", "RETcc"} /\ mCurState = 3)
WordPushed == IF Cur.op = "PUSH" THEN Pair(In, Cur.p1) ELSE IF Cur.op = "RST" THEN In["PC"] ELSE mCache
OnStack(sp) == sp \in Ram /\ Wrap(sp + 1) \in Ram
StackMoved == LET s == seen'[1].state IN mem' # s.mem \/ reg'["SP"] # s.reg["SP"]

Follow ==
  ghost' = IF text' = text THEN ghost
           ELSE IF Pushes THEN IF OnStack(reg'["SP"]) THEN <<WordPushed>> \o ghost ELSE <<>>
           ELSE IF Pops THEN IF ghost = <<>> THEN <<>> ELSE Tail(ghost)
           ELSE IF StackMoved THEN <<>> ELSE ghost

Next == text # <<>> /\ Handler /\ Watch /\ Follow

Spec == Init /\ [][Next]_vars
-----------------------------------------------------------------------------
(* Correctness *)

Done == mCurState = 0
Last == seen[1].instr
Was == seen[1].state

BitOf(b) == IF b THEN 1 ELSE 0
Signed(b) == IF b < 128 THEN b ELSE b - 256

\* A pair as the state s holds it.
PairWas(s, p) == IF p = "SP" THEN s.reg["SP"] ELSE 256 * s.reg[High[p]] + s.reg[LowOf[p]]

\* The byte an instruction of s works on.
ByteWas(i, s) ==
  IF i.p1 = "m" THEN LET a == PairWas(s, "HL") IN IF a \in Ram THEN s.mem[a] ELSE 0
  ELSE IF i.p1 = "d8" THEN i.lo ELSE s.reg[i.p1]

\* The same byte as it is now.
ByteIs(i) == IF i.p1 = "m" THEN Read(PairWas(Was, "HL")) ELSE reg[i.p1]

\* The result is not lost in an address without memory.
Stored == Last.p1 = "m" => PairWas(Was, "HL") \in Ram

FlagsAre(z, n, h, c) ==
  fl = {f \in Flags : (f = "Z" /\ z) \/ (f = "N" /\ n) \/ (f = "H" /\ h) \/ (f = "C" /\ c)}

AddsBytes ==
  LET a == Was.reg["A"]
      v == ByteWas(Last, Was)
      c == BitOf(Last.op = "ADC" /\ "C" \in Was.fl)
  IN Last.op \in {"ADD", "ADC"} =>
       /\ reg["A"] = (a + v + c) % 256
       /\ FlagsAre(reg["A"] = 0, FALSE, (a % 16) + (v % 16) + c > 15, a + v + c > 255)

SubtractsBytes ==
  LET a == Was.reg["A"]
      v == ByteWas(Last, Was)
      c == BitOf(Last.op = "SBC" /\ "C" \in Was.fl)
      difference == (256 + a - (v + c)) % 256
  IN Last.op \in {"SUB", "SBC", "CP"} =>
       /\ reg["A"] = IF Last.op = "CP" THEN a ELSE difference
       /\ FlagsAre(difference = 0, TRUE, a % 16 < (v % 16) + c, a < v + c)

\* r is the byte v one further up or down; Z is as zero says and C as before.
SteppedIs(r, v, up, zero) ==
  /\ r = (IF up THEN v + 1 ELSE v + 255) % 256
  /\ FlagsAre(zero, ~up, v % 16 = (IF up THEN 15 ELSE 0), "C" \in Was.fl)

\* INC (HL) of 0xff stores 0 and leaves Z off: the one exception.
Steps ==
  LET r == ByteIs(Last)
  IN Last.op \in {"INC", "DEC", "INCm", "DECm"} /\ Stored =>
       SteppedIs(r, ByteWas(Last, Was), Last.op \in {"INC", "INCm"}, r = 0 /\ Last.op # "INCm")

\* HL is the sum of the words hl and w, and Z is as before.
WordSumIs(hl, w) ==
  /\ Pair(reg, "HL") = (hl + w) % 65536
  /\ FlagsAre("Z" \in Was.fl, FALSE, (hl % 4096) + (w % 4096) > 4095, hl + w > 65535)

AddsWords ==
  Last.op = "ADDHL" => WordSumIs(PairWas(Was, "HL"), PairWas(Was, Last.p1))

\* r is SP moved by d, the carries those of the byte lo.
DisplacedIs(r, sp, d, lo) ==
  /\ r = (65536 + sp + d) % 65536
  /\ FlagsAre(FALSE, FALSE, (sp % 16) + (lo % 16) > 15, (sp % 256) + lo > 255)

\* LD HL,SP+r8 takes its displacement without the sign that ADD SP,r8 gives it.
Displaces ==
  /\ Last.op = "ADDSP" => DisplacedIs(reg["SP"], Was.reg["SP"], Signed(Last.lo), Last.lo)
  /\ Last.op = "LDHLSP" => DisplacedIs(Pair(reg, "HL"), Was.reg["SP"], Last.lo, Last.lo)

\* Once an arithmetic instruction is over, its result is the sum or the
\* difference modulo 256 (or 65536) and H and C are the carries a reader of
\* the numbers would work out, which the code takes from the parity of the
\* bits of operands and result.
ArithmeticExact ==
  Done => AddsBytes /\ SubtractsBytes /\ Steps /\ AddsWords /\ Displaces

\* The operand v, the result r and C before (cin) and after (c) as numbers.
TurnedIs(op, v, r, cin, c) ==
  /\ op = "RL" => 256 * c + r = 2 * v + cin
  /\ op = "RR" => 2 * r + c = v + 256 * cin
  /\ op = "RLC" => 256 * c + r = 2 * v + c
  /\ op = "RRC" => 2 * r + c = v + 256 * c
  /\ op = "SLA" => 256 * c + r = 2 * v
  /\ op = "SRL" => 2 * r + c = v
  /\ op = "SRA" => 2 * Signed(r) + c = Signed(v)
  /\ op = "SWAP" => c = 0 /\ 16 * (r % 16) + (r \div 16) = v

\* Rotations and shifts lose no bit: C and the result, read as one number of
\* nine bits, are the operand doubled or halved; Z is left off only by the
\* four rotations of A outside the CB table, and N and H are off.
ShiftExact ==
  LET r == ByteIs(Last)
      c == BitOf("C" \in fl)
  IN Done /\ Last.op \in Rotate /\ Stored =>
       /\ TurnedIs(Last.op, ByteWas(Last, Was), r, BitOf("C" \in Was.fl), c)
       /\ FlagsAre(Last.cb /\ r = 0, FALSE, FALSE, c = 1)

\* DAA after an addition or a subtraction of two numbers in decimal digits
\* leaves the decimal sum or difference in A and its carry in C.
BcdExact ==
  LET i == seen[2].instr
      s == seen[2].state
      decimal(b) == 10 * (b \div 16) + (b % 16)
      digits(b) == b \div 16 < 10 /\ b % 16 < 10
      a == s.reg["A"]
      v == ByteWas(i, s)
      c == BitOf(i.op \in {"ADC", "SBC"} /\ "C" \in s.fl)
      total == IF i.op \in {"ADD", "ADC"} THEN decimal(a) + decimal(v) + c
                                          ELSE decimal(a) - (decimal(v) + c)
  IN Done /\ Last.op = "DAA" /\ i.op \in {"ADD", "ADC", "SUB", "SBC"} /\ digits(a) /\ digits(v) =>
       /\ digits(reg["A"]) /\ decimal(reg["A"]) = (100 + total) % 100
       /\ ("C" \in fl) <=> (total < 0 \/ total > 99)
       /\ ("Z" \in fl) <=> (reg["A"] = 0)

\* What POP or RET takes from the stack is the word the matching PUSH, CALL
\* or RST left there, whichever of them it was and however they nest; F
\* loses its lower four bits on the way.
PopMatches ==
  [][text' # text /\ Pops /\ ghost # <<>> =>
       LET w == Head(ghost)
       IN IF Cur.op # "POP" THEN reg'["PC"] = w
          ELSE IF Cur.p1 = "AF" THEN reg'["A"] = w \div 256 /\ fl' = FlagsIn(Low(w))
          ELSE 256 * reg'[High[Cur.p1]] + reg'[LowOf[Cur.p1]] = w]_vars

\* The lower four bits of F, which the hardware does not have, never become
\* set once they are clear.
LowNibbleStays == [][fLow = 0 => fLow' = 0]_vars

\* A handler makes as many calls as its family in Opcodes has microsteps and
\* writes memory in the microsteps that say so: CpuControl's durations and bus
\* accesses are those of the code below.
Family ==
  IF Cur.op \in DOMAIN IfTaken THEN (IF Taken THEN IfTaken[Cur.op] ELSE IfNot[Cur.op])
  ELSE IF Cur.op \in Accumulate
    THEN (IF InMemory THEN "LDr" ELSE IF Cur.p1 = "d8" THEN "IMM" ELSE "ALU")
  ELSE IF Cur.op = "BIT" THEN (IF InMemory THEN "BITm" ELSE "IMM")
  ELSE IF Cur.op \in Rotate \cup BitOps
    THEN (IF InMemory THEN "CBm" ELSE IF Cur.cb THEN "IMM" ELSE "ALU")
  ELSE IF Cur.op \in DOMAIN OneStep THEN OneStep[Cur.op] ELSE Stepped[Cur.op]

MicrostepsAgree ==
  [][LET k == mCurState + 1
         steps == Program[Family]
     IN /\ k <= Len(steps)
        /\ text' # text <=> k = Len(steps)
        /\ mem' # mem => steps[k].bus = "write"]_vars
=============================================================================
