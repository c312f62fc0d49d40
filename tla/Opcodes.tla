------------------------------ MODULE Opcodes ------------------------------
(***************************************************************************)
(* What the opcode handlers (core/src/cpu/cpu_opcodes.cpp) do per call of  *)
(* Cpu::tick.  A handler is a sequence of microsteps, one per value of     *)
(* mCurState; each consumes its own cycles and makes at most the bus       *)
(* access named.  Handlers with the same sequence share a family, and the  *)
(* two outcomes of a conditional handler are two families.                 *)
(***************************************************************************)
EXTENDS Integers, Sequences

BusKinds == {"none", "read", "write"}
Microstep == [cycles : {4, 8, 12, 16, 20}, bus : BusKinds]

Idle(c)  == [cycles |-> c, bus |-> "none"]
Rd(c)    == [cycles |-> c, bus |-> "read"]
Wr(c)    == [cycles |-> c, bus |-> "write"]

CallTaken_NoStackGap == <<Idle(4), Idle(4), Idle(4), Wr(4), Wr(4)>>
CallTaken  == <<Idle(4), Idle(4), Idle(8), Wr(4), Wr(4)>>
CallFailed == <<Idle(4), Idle(4), Idle(4)>>
Ret        == <<Idle(4), Rd(4), Rd(4), Idle(4)>>
RetTaken   == <<Idle(8), Rd(4), Rd(4), Idle(4)>>
Jump       == <<Idle(4), Idle(4), Idle(4), Idle(4)>>
Load       == <<Idle(4), Rd(4)>>
Store      == <<Idle(4), Wr(4)>>
HighLoad   == <<Idle(8), Rd(4)>>
HighStore  == <<Idle(8), Wr(4)>>
FarLoad    == <<Idle(12), Rd(4)>>
FarStore   == <<Idle(12), Wr(4)>>
Modify     == <<Idle(4), Rd(4), Wr(4)>>
ExtModify  == <<Idle(8), Rd(4), Wr(4)>>
ExtTest    == <<Idle(8), Rd(4)>>
AddSP      == <<Idle(4), Idle(12)>>
LoadHLSP   == <<Idle(4), Idle(4), Idle(4)>>

Program ==
  [NOP    |-> <<Idle(4)>>,  EI     |-> <<Idle(4)>>,  DI    |-> <<Idle(4)>>,
   HALT   |-> <<Idle(4)>>,  ALU    |-> <<Idle(4)>>,  IMM   |-> <<Idle(8)>>,
   LD16   |-> <<Idle(12)>>, PUSH   |-> <<Wr(16)>>,   POP   |-> <<Rd(12)>>,
   LDa16SP |-> <<Wr(20)>>,  JR     |-> <<Idle(12)>>, JRnot |-> <<Idle(8)>>,
   JPnot  |-> <<Idle(12)>>, RETnot |-> <<Idle(8)>>,  RETI  |-> Ret,
   RET    |-> Ret,          RETcc  |-> RetTaken,     CALL  |-> CallTaken,
   CALLnot |-> CallFailed,  JP     |-> Jump,         LDr   |-> Load,
   STr    |-> Store,        LDH    |-> HighLoad,     STH   |-> HighStore,
   LDa16  |-> FarLoad,      STa16  |-> FarStore,     STd8  |-> HighStore,
   INCm   |-> Modify,       CBm    |-> ExtModify,    BITm  |-> ExtTest,
   ADDSP  |-> AddSP,        LDHLSP |-> LoadHLSP]

Families == DOMAIN Program

\* The duration opcodes.json gives an instruction of the family: the number
\* gen_optable.py compiles into mCycles and mBrCycles.
DocCycles ==
  [NOP  |-> 4,   EI   |-> 4,   DI    |-> 4,  HALT  |-> 4,  ALU   |-> 4,
   IMM  |-> 8,   LD16 |-> 12,  PUSH  |-> 16, POP   |-> 12, LDa16SP |-> 20,
   JR   |-> 12,  JRnot |-> 8,  JPnot |-> 12, RETnot |-> 8, RETI  |-> 16,
   RET  |-> 16,  RETcc |-> 20, CALL  |-> 24, CALLnot |-> 12, JP  |-> 16,
   LDr  |-> 8,   STr  |-> 8,   LDH   |-> 12, STH   |-> 12, LDa16 |-> 16,
   STa16 |-> 16, STd8 |-> 12,  INCm  |-> 12, CBm   |-> 16, BITm  |-> 12,
   ADDSP |-> 16, LDHLSP |-> 12]
=============================================================================
