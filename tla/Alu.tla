-------------------------------- MODULE Alu --------------------------------
(***************************************************************************)
(* The arithmetic of the CPU (core/src/cpu/cpu.cpp from add on, and the    *)
(* handlers of cpu_opcodes.cpp that compute in place): functions from      *)
(* bytes and the flags to a byte and the flags.  The flags are the set of  *)
(* those that are on; an exclusive or of bits is the parity of their sum.  *)
(***************************************************************************)
EXTENDS Integers

Byte == 0 .. 255
WordMax == 65535
Word == 0 .. WordMax
Flags == {"Z", "N", "H", "C"}

Low(n)  == n % 256
Wrap(n) == n % 65536

\* The bit of weight w of n.
Bit(n, w) == (n \div w) % 2

\* CARRY_BITS_3(a, b, c, r) & w
Carry(a, b, c, r, w) == (Bit(a, w) + Bit(b, w) + Bit(c, w) + Bit(r, w)) % 2 = 1

\* CHECK_ZERO and the other macros: flag f of fl on or off.
Put(fl, f, on) == IF on THEN fl \cup {f} ELSE fl \ {f}

CarryIn(withC, fl) == IF withC /\ "C" \in fl THEN 1 ELSE 0

Result(val, fl) == [val |-> val, fl |-> fl]
-----------------------------------------------------------------------------
(* Addition and subtraction; the handlers set or clear N before.           *)

ArithFlags_CarryAsHalf(a, b, c, r, n) ==
  Put(Put(Put(n, "Z", Low(r) = 0), "C", Carry(a, b, c, r, 256)),
      "H", Carry(a, b, c, r, 256))
ArithFlags(a, b, c, r, n) ==
  Put(Put(Put(n, "Z", Low(r) = 0), "C", Carry(a, b, c, r, 256)),
      "H", Carry(a, b, c, r, 16))

Add(a, b, withC, fl) ==
  LET c == CarryIn(withC, fl)
      r == a + b + c
  IN Result(Low(r), ArithFlags(a, b, c, r, fl \ {"N"}))

Sub(a, b, withC, fl) ==
  LET c == CarryIn(withC, fl)
      r == Wrap(a - b - c)
  IN Result(Low(r), ArithFlags(a, b, c, r, fl \cup {"N"}))

Inc(v, fl) ==
  LET r == Low(v + 1)
  IN Result(r, Put(Put(fl, "Z", r = 0), "H", r % 16 = 0) \ {"N"})

Dec(v, fl) ==
  LET r == Low(v - 1)
  IN Result(r, Put(Put(fl, "Z", r = 0), "H", r % 16 = 15) \cup {"N"})

AddWord(a, b, fl) ==
  LET r == a + b
  IN Result(Wrap(r), Put(Put(fl \ {"N"}, "C", Bit(r, 65536) = 1),
                         "H", Carry(a, b, 0, Wrap(r), 4096)))

\* SP plus a displacement d, a word.
AddDisplacement(d, sp, fl) ==
  LET r == Wrap(d + sp)
  IN Result(r, Put(Put(fl \ {"Z", "N"}, "H", Carry(d, sp, 0, r, 16)),
                   "C", Carry(d, sp, 0, r, 256)))

\* (int16_t)(int8_t), as a word.
SignExtended(v) == IF v < 128 THEN v ELSE 65280 + v

\* A after the adjustment, before it is cut to a byte.
Adjusted_NoHalfCarry(a, fl) ==
  IF "N" \in fl
    THEN IF "C" \in fl THEN a - 96 ELSE a
    ELSE LET high == IF "C" \in fl \/ a > 153 THEN a + 96 ELSE a
         IN IF high % 16 > 9 THEN high + 6 ELSE high
Adjusted(a, fl) ==
  IF "N" \in fl
    THEN LET low == IF "H" \in fl THEN Low(a - 6) ELSE a
         IN IF "C" \in fl THEN low - 96 ELSE low
    ELSE LET high == IF "C" \in fl \/ a > 153 THEN a + 96 ELSE a
         IN IF "H" \in fl \/ high % 16 > 9 THEN high + 6 ELSE high

Daa(a, fl) ==
  LET r == Adjusted(a, fl)
      carried == IF Bit(r, 256) = 1 THEN fl \cup {"C"} ELSE fl
  IN Result(Low(r), Put(carried \ {"H"}, "Z", Low(r) = 0))
-----------------------------------------------------------------------------
(* Logic *)

FromBits(on(_)) ==
  LET b(w) == IF on(w) THEN w ELSE 0
  IN b(1) + b(2) + b(4) + b(8) + b(16) + b(32) + b(64) + b(128)

ZeroFlag(v) == IF v = 0 THEN {"Z"} ELSE {}

And(a, v) ==
  LET on(w) == Bit(a, w) = 1 /\ Bit(v, w) = 1
      r == FromBits(on)
  IN Result(r, ZeroFlag(r) \cup {"H"})

Xor(a, v) ==
  LET on(w) == Bit(a, w) # Bit(v, w)
      r == FromBits(on)
  IN Result(r, ZeroFlag(r))

Or(a, v) ==
  LET on(w) == Bit(a, w) = 1 \/ Bit(v, w) = 1
      r == FromBits(on)
  IN Result(r, ZeroFlag(r))

Cpl(a, fl) == Result(255 - a, fl \cup {"N", "H"})
Scf(fl) == (fl \ {"N", "H"}) \cup {"C"}
Ccf(fl) == Put(fl \ {"N", "H"}, "C", "C" \notin fl)
-----------------------------------------------------------------------------
(* Shifts and rotations: bit out goes to C, bit in comes from the byte     *)
(* itself or from C.  rlc, rrc, rl and rr leave Z to their callers.        *)

CarryFlag(bit) == IF bit = 1 THEN {"C"} ELSE {}

Rlc(v) == Result(Low(2 * v) + Bit(v, 128), CarryFlag(Bit(v, 128)))
Rrc(v) == Result((v \div 2) + 128 * Bit(v, 1), CarryFlag(Bit(v, 1)))
Rl(v, fl) == Result(Low(2 * v) + CarryIn(TRUE, fl), CarryFlag(Bit(v, 128)))
Rr_CarryOnly(v, fl) == Result((v \div 2) + 128 * Bit(v, 1), CarryFlag(Bit(v, 1)))
Rr(v, fl) == Result((v \div 2) + 128 * CarryIn(TRUE, fl), CarryFlag(Bit(v, 1)))

WithZero(r) == Result(r.val, r.fl \cup ZeroFlag(r.val))

Sla(v) == WithZero(Result(Low(2 * v), CarryFlag(Bit(v, 128))))
Sra(v) == WithZero(Result((v \div 2) + 128 * Bit(v, 128), CarryFlag(Bit(v, 1))))
Srl(v) == WithZero(Result(v \div 2, CarryFlag(Bit(v, 1))))
Swap(v) == WithZero(Result(16 * (v % 16) + (v \div 16), {}))

\* w is the weight of the bit the opcode names.
TestBit(v, w, fl) == Put((fl \ {"N"}) \cup {"H"}, "Z", Bit(v, w) = 0)
ResBit(v, w) == v - w * Bit(v, w)
SetBit(v, w) == ResBit(v, w) + w
=============================================================================
