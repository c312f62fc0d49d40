-------------------------- MODULE Datapath_proofs --------------------------
(***************************************************************************)
(* Proofs about Datapath for every program of well-formed instructions,    *)
(* every operand and every memory: its arithmetic, its rotations and       *)
(* shifts and its decimal adjustment are exact, its handlers make the      *)
(* calls and the bus accesses Opcodes gives them, and what is popped is    *)
(* what was pushed.                                                        *)
(***************************************************************************)
EXTENDS Datapath, TLAPS

Places == {16, 256, 4096}

(* What a + b + c and a - b - c leave behind the digits below w. *)
SumSplit(w, a, b, c) ==
  (a + b + c) \div w = (a \div w) + (b \div w) + (IF (a % w) + (b % w) + c > w - 1 THEN 1 ELSE 0)
DifferenceSplit(w, a, b, c) ==
  (a - b - c) \div w = (a \div w) - (b \div w) - (IF a % w < (b % w) + c THEN 1 ELSE 0)

(* How the quotients of a sum and a difference by w follow from the digits. *)
LEMMA Splits ==
  ASSUME NEW w \in Places, NEW a \in Nat, NEW b \in Nat, NEW c \in 0 .. 1
  PROVE  SumSplit(w, a, b, c) /\ DifferenceSplit(w, a, b, c)
<1> DEFINE q == a \div w
           s == a % w
           p == b \div w
           t == b % w
           high == IF s + t + c > w - 1 THEN 1 ELSE 0
           low == IF s < t + c THEN 1 ELSE 0
<1>1. CASE w = 16
  <2>1. /\ a = 16 * q + s /\ q \in Nat /\ s \in 0 .. 15
        /\ b = 16 * p + t /\ p \in Nat /\ t \in 0 .. 15
    BY <1>1
  <2> HIDE DEF q, s, p, t
  <2>2. (a + b + c) \div 16 = q + p + high /\ (a - b - c) \div 16 = q - p - low
    BY <1>1, <2>1
  <2> QED
    BY <1>1, <2>2 DEF SumSplit, DifferenceSplit, q, s, p, t
<1>2. CASE w = 256
  <2>1. /\ a = 256 * q + s /\ q \in Nat /\ s \in 0 .. 255
        /\ b = 256 * p + t /\ p \in Nat /\ t \in 0 .. 255
    BY <1>2
  <2> HIDE DEF q, s, p, t
  <2>2. (a + b + c) \div 256 = q + p + high /\ (a - b - c) \div 256 = q - p - low
    BY <1>2, <2>1
  <2> QED
    BY <1>2, <2>2 DEF SumSplit, DifferenceSplit, q, s, p, t
<1>3. CASE w = 4096
  <2>1. /\ a = 4096 * q + s /\ q \in Nat /\ s \in 0 .. 4095
        /\ b = 4096 * p + t /\ p \in Nat /\ t \in 0 .. 4095
    BY <1>3, SMTT(30)
  <2> HIDE DEF q, s, p, t
  <2>2. (a + b + c) \div 4096 = q + p + high /\ (a - b - c) \div 4096 = q - p - low
    BY <1>3, <2>1, SMTT(30)
  <2> QED
    BY <1>3, <2>2 DEF SumSplit, DifferenceSplit, q, s, p, t
<1> QED
  BY <1>1, <1>2, <1>3 DEF Places

(* The parity of two numbers and of their sum or difference with k is k. *)
LEMMA Parity ==
  ASSUME NEW x \in Int, NEW y \in Int, NEW k \in 0 .. 1
  PROVE  /\ ((x % 2) + (y % 2) + ((x + y + k) % 2)) % 2 = k
         /\ ((x % 2) + (y % 2) + ((x - y - k) % 2)) % 2 = k
OBVIOUS

(* Cutting a number to a word keeps its bits. *)
LEMMA WrapKeepsBits ==
  ASSUME NEW n \in Int, NEW w \in Places
  PROVE  Bit(Wrap(n), w) = Bit(n, w)
<1>1. Bit(Wrap(n), 16) = Bit(n, 16)
  BY DEF Bit, Wrap
<1>2. Bit(Wrap(n), 256) = Bit(n, 256)
  BY DEF Bit, Wrap
<1>3. Bit(Wrap(n), 4096) = Bit(n, 4096)
  BY DEF Bit, Wrap
<1> QED
  BY <1>1, <1>2, <1>3 DEF Places

(* CARRY_BITS & w is the carry out of, or the borrow into, the digits below w. *)
LEMMA CarryIsReal ==
  ASSUME NEW w \in Places, NEW a \in Nat, NEW b \in Nat, NEW c \in 0 .. 1
  PROVE  /\ Carry(a, b, c, a + b + c, w) <=> (a % w) + (b % w) + c > w - 1
         /\ Carry(a, b, c, a - b - c, w) <=> a % w < (b % w) + c
         /\ Carry(a, b, c, Wrap(a - b - c), w) <=> a % w < (b % w) + c
         /\ Carry(a, b, c, Wrap(a + b + c), w) <=> (a % w) + (b % w) + c > w - 1
<1> DEFINE q == a \div w
           p == b \div w
           high == IF (a % w) + (b % w) + c > w - 1 THEN 1 ELSE 0
           low == IF a % w < (b % w) + c THEN 1 ELSE 0
<1>1. q \in Int /\ p \in Int /\ high \in 0 .. 1 /\ low \in 0 .. 1 /\ Bit(c, w) = 0
  BY DEF Bit, Places
<1>2. /\ Bit(a, w) = q % 2 /\ Bit(b, w) = p % 2
      /\ Bit(a + b + c, w) = (q + p + high) % 2
      /\ Bit(a - b - c, w) = (q - p - low) % 2
  <2>1. SumSplit(w, a, b, c) /\ DifferenceSplit(w, a, b, c)
    BY Splits
  <2>2. (a + b + c) \div w = q + p + high /\ (a - b - c) \div w = q - p - low
    BY <2>1 DEF SumSplit, DifferenceSplit
  <2> QED
    BY <2>2 DEF Bit
<1>3. (high = 1 <=> (a % w) + (b % w) + c > w - 1) /\ (low = 1 <=> a % w < (b % w) + c)
  OBVIOUS
<1>4. a + b + c \in Int /\ a - b - c \in Int
  OBVIOUS
<1> HIDE DEF q, p, high, low
<1>5. /\ ((q % 2) + (p % 2) + ((q + p + high) % 2)) % 2 = high
      /\ ((q % 2) + (p % 2) + ((q - p - low) % 2)) % 2 = low
  BY <1>1, Parity
<1>6. /\ Carry(a, b, c, a + b + c, w) <=> high = 1
      /\ Carry(a, b, c, a - b - c, w) <=> low = 1
  BY <1>1, <1>2, <1>5 DEF Carry
<1>7. /\ Carry(a, b, c, Wrap(a - b - c), w) <=> Carry(a, b, c, a - b - c, w)
      /\ Carry(a, b, c, Wrap(a + b + c), w) <=> Carry(a, b, c, a + b + c, w)
  BY <1>4, WrapKeepsBits DEF Carry
<1> QED
  BY <1>3, <1>6, <1>7

(* What a word is, without the literal range. *)
LEMMA WordBounds == \A a : a \in Word <=> a \in Int /\ 0 <= a /\ a <= 65535
<1>1. WordMax \in Int
  BY DEF WordMax
<1>2. \A a : a \in Word <=> a \in Int /\ 0 <= a /\ a <= WordMax
  BY <1>1 DEF Word
<1> QED
  BY <1>2, SMT DEF WordMax

(* The places that occur, and bytes and words as numbers. *)
LEMMA Small ==
  /\ 16 \in Places /\ 256 \in Places /\ 4096 \in Places
  /\ \A a \in Byte : a \in Nat /\ a % 256 = a
  /\ \A a \in Word : a \in Nat
BY WordBounds DEF Places, Byte

(* The bit of weight 65536 of a sum of words is its carry. *)
LEMMA WordCarry ==
  ASSUME NEW a \in Word, NEW b \in Word
  PROVE  Bit(a + b, 65536) = 1 <=> a + b > 65535
<1>1. \A n \in Int : 0 <= n /\ n <= 131070 =>
        IF n > 65535 THEN n \div 65536 = 1 ELSE n \div 65536 = 0
  BY SMT
<1>2. a + b \in Int /\ 0 <= a + b /\ a + b <= 131070
  BY WordBounds, SMT
<1> QED
  BY <1>1, <1>2, SMT DEF Bit

(* H and C of Cpu::add and Cpu::sub as a reader of the numbers expects them. *)
LEMMA ByteCarries ==
  ASSUME NEW a \in Byte, NEW b \in Byte, NEW c \in 0 .. 1
  PROVE  /\ Carry(a, b, c, a + b + c, 16) <=> (a % 16) + (b % 16) + c > 15
         /\ Carry(a, b, c, a + b + c, 256) <=> a + b + c > 255
         /\ Carry(a, b, c, Wrap(a - b - c), 16) <=> a % 16 < (b % 16) + c
         /\ Carry(a, b, c, Wrap(a - b - c), 256) <=> a < b + c
<1>1. a \in Nat /\ b \in Nat /\ a % 256 = a /\ b % 256 = b
  BY Small
<1>2. \A w \in Places :
        /\ Carry(a, b, c, a + b + c, w) <=> (a % w) + (b % w) + c > w - 1
        /\ Carry(a, b, c, Wrap(a - b - c), w) <=> a % w < (b % w) + c
  BY <1>1, CarryIsReal, ZenonT(60)
<1>3. /\ Carry(a, b, c, a + b + c, 16) <=> (a % 16) + (b % 16) + c > 16 - 1
      /\ Carry(a, b, c, a + b + c, 256) <=> (a % 256) + (b % 256) + c > 256 - 1
      /\ Carry(a, b, c, Wrap(a - b - c), 16) <=> a % 16 < (b % 16) + c
      /\ Carry(a, b, c, Wrap(a - b - c), 256) <=> a % 256 < (b % 256) + c
  BY <1>2, Small
<1> QED
  BY <1>1, <1>3

(* The carries of ADD HL,r16 and of the additions to SP. *)
LEMMA WordCarries ==
  ASSUME NEW a \in Word, NEW b \in Word
  PROVE  /\ Carry(a, b, 0, Wrap(a + b), 16) <=> (a % 16) + (b % 16) > 15
         /\ Carry(a, b, 0, Wrap(a + b), 256) <=> (a % 256) + (b % 256) > 255
         /\ Carry(a, b, 0, Wrap(a + b), 4096) <=> (a % 4096) + (b % 4096) > 4095
<1>1. a \in Nat /\ b \in Nat
  BY Small
<1>2. \A w \in Places : \A c \in 0 .. 1 :
        Carry(a, b, c, Wrap(a + b + c), w) <=> (a % w) + (b % w) + c > w - 1
  BY <1>1, CarryIsReal
<1>3. a + b + 0 = a + b /\ 0 \in 0 .. 1
  BY <1>1
<1>4. \A w \in Places :
        Carry(a, b, 0, Wrap(a + b), w) <=> (a % w) + (b % w) + 0 > w - 1
  BY <1>2, <1>3
<1>5. /\ Carry(a, b, 0, Wrap(a + b), 16) <=> (a % 16) + (b % 16) + 0 > 16 - 1
      /\ Carry(a, b, 0, Wrap(a + b), 256) <=> (a % 256) + (b % 256) + 0 > 256 - 1
      /\ Carry(a, b, 0, Wrap(a + b), 4096) <=> (a % 4096) + (b % 4096) + 0 > 4096 - 1
  BY <1>4, Small
<1> QED
  BY <1>1, <1>5

(* What a reader of the numbers expects of a sum and of a difference. *)
IsSum(val, f, a, b, c) ==
  /\ val = (a + b + c) % 256
  /\ f \in SUBSET Flags
  /\ "Z" \in f <=> val = 0
  /\ "N" \notin f
  /\ "H" \in f <=> (a % 16) + (b % 16) + c > 15
  /\ "C" \in f <=> a + b + c > 255

IsDifference(val, f, a, b, c) ==
  /\ val = (256 + a - (b + c)) % 256
  /\ f \in SUBSET Flags
  /\ "Z" \in f <=> val = 0
  /\ "N" \in f
  /\ "H" \in f <=> a % 16 < (b % 16) + c
  /\ "C" \in f <=> a < b + c

IsWordSum(val, f, before, a, b) ==
  /\ val = (a + b) % 65536
  /\ f \in SUBSET Flags
  /\ "Z" \in f <=> "Z" \in before
  /\ "N" \notin f
  /\ "H" \in f <=> (a % 4096) + (b % 4096) > 4095
  /\ "C" \in f <=> a + b > 65535

(* The value and the flags Cpu::add leaves are those of the sum. *)
LEMMA SumFlags ==
  ASSUME NEW a \in Byte, NEW b \in Byte, NEW c \in 0 .. 1, NEW f \in SUBSET Flags
  PROVE  IsSum(Low(a + b + c), ArithFlags(a, b, c, a + b + c, f \ {"N"}), a, b, c)
<1> DEFINE n == Low(a + b + c)
           fs == ArithFlags(a, b, c, a + b + c, f \ {"N"})
<1>1. /\ Carry(a, b, c, a + b + c, 16) <=> (a % 16) + (b % 16) + c > 15
      /\ Carry(a, b, c, a + b + c, 256) <=> a + b + c > 255
  BY ByteCarries
<1>2. /\ fs \in SUBSET Flags
      /\ "Z" \in fs <=> n = 0
      /\ "N" \notin fs
      /\ "H" \in fs <=> Carry(a, b, c, a + b + c, 16)
      /\ "C" \in fs <=> Carry(a, b, c, a + b + c, 256)
  BY DEF ArithFlags, Put, Flags
<1>3. n = (a + b + c) % 256
  BY DEF Low
<1> HIDE DEF n, fs
<1>4. IsSum(n, fs, a, b, c)
  BY <1>1, <1>2, <1>3 DEF IsSum
<1> QED
  BY <1>4 DEF n, fs

(* The value and the flags Cpu::sub leaves are those of the difference. *)
LEMMA DifferenceFlags ==
  ASSUME NEW a \in Byte, NEW b \in Byte, NEW c \in 0 .. 1, NEW f \in SUBSET Flags
  PROVE  IsDifference(Low(Wrap(a - b - c)),
                      ArithFlags(a, b, c, Wrap(a - b - c), f \cup {"N"}), a, b, c)
<1> DEFINE m == Wrap(a - b - c)
           n == Low(Wrap(a - b - c))
           fs == ArithFlags(a, b, c, m, f \cup {"N"})
<1>1. n = (256 + a - (b + c)) % 256
  <2>1. \A i \in -256 .. 255 : (i % 65536) % 256 = (256 + i) % 256
    OBVIOUS
  <2>2. a - b - c \in -256 .. 255 /\ 256 + (a - b - c) = 256 + a - (b + c)
    BY DEF Byte
  <2> QED
    BY <2>1, <2>2 DEF Low, Wrap
<1>2. /\ Carry(a, b, c, m, 16) <=> a % 16 < (b % 16) + c
      /\ Carry(a, b, c, m, 256) <=> a < b + c
  BY ByteCarries, ZenonT(60)
<1>3. /\ fs \in SUBSET Flags
      /\ "Z" \in fs <=> n = 0
      /\ "N" \in fs
      /\ "H" \in fs <=> Carry(a, b, c, m, 16)
      /\ "C" \in fs <=> Carry(a, b, c, m, 256)
  BY DEF ArithFlags, Put, Flags
<1> HIDE DEF m, n, fs
<1>4. IsDifference(n, fs, a, b, c)
  BY <1>1, <1>2, <1>3 DEF IsDifference
<1> QED
  BY <1>4 DEF m, n, fs

(* The value and the flags ADD HL,r16 leaves are those of the sum. *)
LEMMA WordFlags ==
  ASSUME NEW a \in Word, NEW b \in Word, NEW f \in SUBSET Flags
  PROVE  IsWordSum(AddWord(a, b, f).val, AddWord(a, b, f).fl, f, a, b)
<1> DEFINE n == Wrap(a + b)
           fs == Put(Put(f \ {"N"}, "C", Bit(a + b, 65536) = 1), "H", Carry(a, b, 0, n, 4096))
<1>1. Carry(a, b, 0, n, 4096) <=> (a % 4096) + (b % 4096) > 4095
  BY WordCarries
<1>2. Bit(a + b, 65536) = 1 <=> a + b > 65535
  BY WordCarry
<1>3. /\ fs \in SUBSET Flags
      /\ "Z" \in fs <=> "Z" \in f
      /\ "N" \notin fs
      /\ "H" \in fs <=> Carry(a, b, 0, n, 4096)
      /\ "C" \in fs <=> Bit(a + b, 65536) = 1
  BY DEF Put, Flags
<1>4. n = (a + b) % 65536
  BY DEF Wrap
<1>5. AddWord(a, b, f).val = n /\ AddWord(a, b, f).fl = fs
  BY DEF AddWord, Result
<1> HIDE DEF n, fs
<1> QED
  BY <1>1, <1>2, <1>3, <1>4, <1>5 DEF IsWordSum

IsStep(val, f, before, v, up) ==
  /\ val = (IF up THEN v + 1 ELSE v + 255) % 256
  /\ f \in SUBSET Flags
  /\ "N" \in f <=> ~up
  /\ "H" \in f <=> v % 16 = (IF up THEN 15 ELSE 0)
  /\ "C" \in f <=> "C" \in before

(* A byte one up or down, cut to a byte or to a word first. *)
LEMMA StepNumbers ==
  ASSUME NEW v \in Byte
  PROVE  /\ Low(v + 1) = (v + 1) % 256 /\ Low(v - 1) = (v + 255) % 256
         /\ Low(v + 1) % 16 = 0 <=> v % 16 = 15
         /\ Low(v - 1) % 16 = 15 <=> v % 16 = 0
         /\ Low(v + 1) \in Byte /\ Low(v - 1) \in Byte
         /\ Low(Wrap(v + 1)) = (v + 1) % 256 /\ Low(Wrap(v - 1)) = (v + 255) % 256
         /\ Wrap(v + 1) % 16 = 0 <=> v % 16 = 15
         /\ Wrap(v - 1) % 16 = 15 <=> v % 16 = 0
         /\ Wrap(v + 1) # 0 /\ (Wrap(v - 1) = 0 <=> (v + 255) % 256 = 0)
<1>1. /\ Low(v + 1) = (v + 1) % 256 /\ Low(v - 1) = (v + 255) % 256
      /\ Low(v + 1) \in Byte /\ Low(v - 1) \in Byte
  BY DEF Low, Byte
<1>2. /\ Low(v + 1) % 16 = 0 <=> v % 16 = 15
      /\ Low(v - 1) % 16 = 15 <=> v % 16 = 0
  BY DEF Low, Byte
<1>3. Wrap(v + 1) = v + 1 /\ Wrap(v - 1) = IF v = 0 THEN 65535 ELSE v - 1
  BY DEF Wrap, Byte
<1>4. Low(v + 1) = (v + 1) % 256 /\ Low(IF v = 0 THEN 65535 ELSE v - 1) = (v + 255) % 256
  BY DEF Low, Byte
<1>5. /\ (v + 1) % 16 = 0 <=> v % 16 = 15
      /\ (IF v = 0 THEN 65535 ELSE v - 1) % 16 = 15 <=> v % 16 = 0
  BY DEF Byte
<1>6. v + 1 # 0 /\ ((IF v = 0 THEN 65535 ELSE v - 1) = 0 <=> (v + 255) % 256 = 0)
  BY DEF Byte
<1> DEFINE up == v + 1
           down == IF v = 0 THEN 65535 ELSE v - 1
<1> HIDE DEF up, down
<1>7. /\ Wrap(v + 1) = up /\ Wrap(v - 1) = down
      /\ Low(up) = (v + 1) % 256 /\ Low(down) = (v + 255) % 256
      /\ up % 16 = 0 <=> v % 16 = 15
      /\ down % 16 = 15 <=> v % 16 = 0
      /\ up # 0 /\ (down = 0 <=> (v + 255) % 256 = 0)
  BY <1>3, <1>4, <1>5, <1>6 DEF up, down
<1>8. /\ Low(Wrap(v + 1)) = (v + 1) % 256 /\ Low(Wrap(v - 1)) = (v + 255) % 256
      /\ Wrap(v + 1) % 16 = 0 <=> v % 16 = 15
      /\ Wrap(v - 1) % 16 = 15 <=> v % 16 = 0
      /\ Wrap(v + 1) # 0 /\ (Wrap(v - 1) = 0 <=> (v + 255) % 256 = 0)
  BY <1>7
<1> QED
  BY <1>1, <1>2, <1>8

(* The value and the flags of INC r8 and DEC r8. *)
LEMMA IncFlags ==
  ASSUME NEW v \in Byte, NEW f \in SUBSET Flags
  PROVE  /\ IsStep(Inc(v, f).val, Inc(v, f).fl, f, v, TRUE)
         /\ "Z" \in Inc(v, f).fl <=> Inc(v, f).val = 0
         /\ IsStep(Dec(v, f).val, Dec(v, f).fl, f, v, FALSE)
         /\ "Z" \in Dec(v, f).fl <=> Dec(v, f).val = 0
<1> DEFINE n == Low(v + 1)
           m == Low(v - 1)
           fs == Put(Put(f, "Z", n = 0), "H", n % 16 = 0) \ {"N"}
           gs == Put(Put(f, "Z", m = 0), "H", m % 16 = 15) \cup {"N"}
<1>1. /\ Inc(v, f).val = n /\ Inc(v, f).fl = fs
      /\ Dec(v, f).val = m /\ Dec(v, f).fl = gs
  BY DEF Inc, Dec, Result
<1>2. /\ n = (v + 1) % 256 /\ m = (v + 255) % 256
      /\ n % 16 = 0 <=> v % 16 = 15
      /\ m % 16 = 15 <=> v % 16 = 0
  BY StepNumbers
<1> HIDE DEF n, m
<1>3. /\ fs \in SUBSET Flags
      /\ "Z" \in fs <=> n = 0
      /\ "N" \notin fs
      /\ "H" \in fs <=> n % 16 = 0
      /\ "C" \in fs <=> "C" \in f
  BY DEF Put, Flags
<1>4. /\ gs \in SUBSET Flags
      /\ "Z" \in gs <=> m = 0
      /\ "N" \in gs
      /\ "H" \in gs <=> m % 16 = 15
      /\ "C" \in gs <=> "C" \in f
  BY DEF Put, Flags
<1> HIDE DEF fs, gs
<1> QED
  BY <1>1, <1>2, <1>3, <1>4 DEF IsStep

(* The value and the flags of SP plus a displacement. *)
LEMMA DisplacementFlags ==
  ASSUME NEW d \in Word, NEW sp \in Word, NEW f \in SUBSET Flags, NEW lo \in Byte,
         d % 16 = lo % 16, d % 256 = lo
  PROVE  /\ AddDisplacement(d, sp, f).val = (d + sp) % 65536
         /\ AddDisplacement(d, sp, f).fl \in SUBSET Flags
         /\ "Z" \notin AddDisplacement(d, sp, f).fl /\ "N" \notin AddDisplacement(d, sp, f).fl
         /\ "H" \in AddDisplacement(d, sp, f).fl <=> (sp % 16) + (lo % 16) > 15
         /\ "C" \in AddDisplacement(d, sp, f).fl <=> (sp % 256) + lo > 255
<1> DEFINE n == Wrap(d + sp)
           fs == Put(Put(f \ {"Z", "N"}, "H", Carry(d, sp, 0, n, 16)), "C", Carry(d, sp, 0, n, 256))
<1>1. /\ Carry(d, sp, 0, n, 16) <=> (d % 16) + (sp % 16) > 15
      /\ Carry(d, sp, 0, n, 256) <=> (d % 256) + (sp % 256) > 255
  BY WordCarries
<1>2. /\ d % 16 \in Int /\ d % 256 \in Int /\ sp % 16 \in Int /\ sp % 256 \in Int
  BY WordBounds
<1>3. /\ (d % 16) + (sp % 16) = (sp % 16) + (lo % 16)
      /\ (d % 256) + (sp % 256) = (sp % 256) + lo
  BY <1>2
<1>4. /\ fs \in SUBSET Flags
      /\ "Z" \notin fs /\ "N" \notin fs
      /\ "H" \in fs <=> Carry(d, sp, 0, n, 16)
      /\ "C" \in fs <=> Carry(d, sp, 0, n, 256)
  BY DEF Put, Flags
<1>5. n = (d + sp) % 65536
  BY DEF Wrap
<1>6. AddDisplacement(d, sp, f).val = n /\ AddDisplacement(d, sp, f).fl = fs
  BY DEF AddDisplacement, Result
<1> HIDE DEF n, fs
<1> QED
  BY <1>1, <1>3, <1>4, <1>5, <1>6

(* The displacement of ADD SP,r8, taken as a word, is its signed value. *)
LEMMA SignedDisplacement ==
  ASSUME NEW lo \in Byte
  PROVE  /\ SignExtended(lo) \in Word
         /\ SignExtended(lo) % 16 = lo % 16 /\ SignExtended(lo) % 256 = lo
         /\ \A sp \in Word : (SignExtended(lo) + sp) % 65536 = (65536 + sp + Signed(lo)) % 65536
<1>1. lo \in Int /\ 0 <= lo /\ lo <= 255
  BY DEF Byte
<1>2. SignExtended(lo) = IF lo < 128 THEN lo ELSE 65280 + lo
  BY DEF SignExtended
<1>3. SignExtended(lo) % 16 = lo % 16 /\ SignExtended(lo) % 256 = lo
  BY <1>1, <1>2
<1>4. SignExtended(lo) \in Word
  <2>1. SignExtended(lo) \in Int /\ 0 <= SignExtended(lo) /\ SignExtended(lo) <= 65535
    BY <1>1, <1>2
  <2> QED
    BY <2>1, WordBounds
<1>5. \A sp \in Int : 0 <= sp /\ sp <= 65535 =>
         (SignExtended(lo) + sp) % 65536 = (65536 + sp + Signed(lo)) % 65536
  BY <1>1, <1>2 DEF Signed
<1> QED
  BY <1>3, <1>4, <1>5, WordBounds

-----------------------------------------------------------------------------
(* Types *)

(* What cutting a number leaves. *)
LEMMA Cut == \A n \in Int : Low(n) \in Byte /\ Wrap(n) \in Word
<1>1. \A n \in Int : Low(n) \in Byte
  BY DEF Low, Byte
<1>2. \A n \in Int : n % 65536 \in Int /\ 0 <= n % 65536 /\ n % 65536 <= 65535
  BY SMT
<1> QED
  BY <1>1, <1>2, WordBounds DEF Wrap

(* Sums and differences wrap to words. *)
LEMMA WrapSum == \A a, k \in Int : Wrap(a + k) \in Word /\ Wrap(a - k) \in Word /\ Low(a - k) \in Byte
<1> SUFFICES ASSUME NEW a \in Int, NEW k \in Int
             PROVE  Wrap(a + k) \in Word /\ Wrap(a - k) \in Word /\ Low(a - k) \in Byte
  OBVIOUS
<1>1. a + k \in Int /\ a - k \in Int
  OBVIOUS
<1> DEFINE x == a + k
           y == a - k
<1> HIDE DEF x, y
<1>2. x \in Int /\ y \in Int
  BY <1>1 DEF x, y
<1>3. Wrap(x) \in Word /\ Wrap(y) \in Word /\ Low(y) \in Byte
  BY <1>2, Cut
<1> QED
  BY <1>3 DEF x, y

(* Two bytes make a word. *)
LEMMA Join == \A h \in Byte, l \in Byte : 256 * h + l \in Word /\ l + 256 * h \in Word
<1>1. \A h \in Byte, l \in Byte : 256 * h + l \in Int /\ 0 <= 256 * h + l /\ 256 * h + l <= 65535
        /\ 256 * h + l = l + 256 * h
  BY DEF Byte
<1> QED
  BY <1>1, WordBounds

(* The halves of a word are bytes. *)
LEMMA Halve == \A v \in Word : v \in Int /\ v \div 256 \in Byte /\ Low(v) \in Byte
<1>1. \A v \in Int : 0 <= v /\ v <= 65535 => v \div 256 \in Byte
  BY DEF Byte
<1> QED
  BY <1>1, WordBounds, Cut

(* Bytes are words. *)
LEMMA BytesAreWords == Byte \subseteq Word /\ Byte \subseteq Int
<1>1. \A b \in Byte : b \in Int /\ 0 <= b /\ b <= 65535
  BY DEF Byte
<1> QED
  BY <1>1, WordBounds

(* The register file is made of bytes and words and takes them. *)
LEMMA RegTyped ==
  ASSUME NEW r \in RegFile
  PROVE  /\ \A n \in Bytes8 : r[n] \in Byte /\ \A v \in Byte : [r EXCEPT ![n] = v] \in RegFile
         /\ \A n \in {"SP", "PC"} : r[n] \in Word /\ \A v \in Word : [r EXCEPT ![n] = v] \in RegFile
<1>1. r \in [Regs -> Word] /\ \A n \in Bytes8 : r[n] \in Byte
  BY DEF RegFile
<1>2. ASSUME NEW n \in Bytes8, NEW v \in Byte
      PROVE  [r EXCEPT ![n] = v] \in RegFile
  BY <1>1, <1>2, BytesAreWords DEF RegFile, Regs
<1>3. ASSUME NEW n \in {"SP", "PC"}, NEW v \in Word
      PROVE  [r EXCEPT ![n] = v] \in RegFile
  BY <1>1, <1>3 DEF RegFile, Regs, Bytes8
<1> QED
  BY <1>1, <1>2, <1>3 DEF Regs

(* Writing a byte register leaves a register file. *)
LEMMA SetByte ==
  ASSUME NEW r \in RegFile, NEW n \in Bytes8, NEW v \in Byte
  PROVE  [r EXCEPT ![n] = v] \in RegFile
BY RegTyped

(* Writing SP or PC leaves a register file. *)
LEMMA SetWord ==
  ASSUME NEW r \in RegFile, NEW n \in {"SP", "PC"}, NEW v \in Word
  PROVE  [r EXCEPT ![n] = v] \in RegFile
BY RegTyped

(* Writing a pair (Reg16::write) leaves a register file. *)
LEMMA WideTyped ==
  ASSUME NEW r \in RegFile, NEW p \in Pairs, NEW v \in Word
  PROVE  Wide(r, p, v) \in RegFile
<1> DEFINE hi == v \div 256
           lo == Low(v)
<1>1. hi \in Byte /\ lo \in Byte
  BY Halve
<1>2. /\ p \in {"SP", "PC"} => Wide(r, p, v) = [r EXCEPT ![p] = v]
      /\ p = "AF" => Wide(r, p, v) = [r EXCEPT !["A"] = hi]
      /\ p \in {"BC", "DE", "HL"} => Wide(r, p, v) = [r EXCEPT ![High[p]] = hi, ![LowOf[p]] = lo]
  BY DEF Wide
<1> HIDE DEF hi, lo
<1>3. CASE p \in {"SP", "PC"}
  BY <1>2, <1>3, SetWord
<1>4. CASE p = "AF"
  BY <1>1, <1>2, <1>4, SetByte DEF Bytes8
<1>5. CASE p \in {"BC", "DE", "HL"}
  <2> DEFINE h == High[p]
             l == LowOf[p]
  <2>1. h \in Bytes8 /\ l \in Bytes8
    BY <1>5 DEF High, LowOf, Bytes8
  <2>2. Wide(r, p, v) = [[r EXCEPT ![h] = hi] EXCEPT ![l] = lo]
    BY <1>2, <1>5
  <2> HIDE DEF h, l
  <2>3. [r EXCEPT ![h] = hi] \in RegFile
    BY <1>1, <2>1, SetByte
  <2> QED
    BY <1>1, <2>1, <2>2, <2>3, SetByte
<1> QED
  BY <1>3, <1>4, <1>5 DEF Pairs

(* F is made of its flags and its lower bits. *)
FlagsTyped == fl \in SUBSET Flags /\ fLow \in 0 .. 15

(* Reading a pair (Reg16::read) gives a word. *)
LEMMA PairTyped ==
  ASSUME NEW r \in RegFile, NEW p \in Pairs, FlagsTyped
  PROVE  Pair(r, p) \in Word
<1>1. FByte \in Byte
  BY DEF FByte, FlagsTyped, Byte
<1>2. CASE p \in {"SP", "PC"}
  BY <1>2, RegTyped DEF Pair
<1>3. CASE p = "AF"
  <2>1. Pair(r, p) = 256 * r["A"] + FByte /\ r["A"] \in Byte
    BY <1>3, RegTyped DEF Pair, High, Bytes8
  <2> QED
    BY <1>1, <2>1, Join
<1>4. CASE p \in {"BC", "DE", "HL"}
  <2> DEFINE h == High[p]
             l == LowOf[p]
  <2>1. h \in Bytes8 /\ l \in Bytes8
    BY <1>4 DEF High, LowOf, Bytes8
  <2>2. Pair(r, p) = 256 * r[h] + r[l]
    BY <1>4 DEF Pair
  <2> HIDE DEF h, l
  <2>3. r[h] \in Byte /\ r[l] \in Byte
    BY <2>1, RegTyped
  <2> QED
    BY <2>2, <2>3, Join
<1> QED
  BY <1>2, <1>3, <1>4 DEF Pairs

(* What memory holds. *)
Memory == [Ram -> Byte]

(* Memory stays made of bytes, and the stack gives words. *)
LEMMA MemoryTyped ==
  /\ \A m \in Memory, v \in Byte : \A a : Written(m, a, v) \in Memory
  /\ mem \in Memory => \A a : Read(a) \in Byte
  /\ \A m \in Memory, v \in Word : \A sp : Pushed(m, sp, v) \in Memory
  /\ mem \in Memory => \A sp : Popped(sp) \in Word
<1>1. \A m \in Memory, v \in Byte : \A a : Written(m, a, v) \in Memory
  BY DEF Written, Memory
<1>2. mem \in Memory => \A a : Read(a) \in Byte
  BY DEF Read, Memory, Byte
<1>3. ASSUME NEW m \in Memory, NEW v \in Word, NEW sp
      PROVE  Pushed(m, sp, v) \in Memory
  <2>1. Written(m, Wrap(sp - 1), v \div 256) \in Memory
    BY <1>1, Halve
  <2> QED
    BY <1>1, <2>1, Halve DEF Pushed
<1>4. mem \in Memory => \A sp : Popped(sp) \in Word
  BY <1>2, Join DEF Popped
<1> QED
  BY <1>1, <1>2, <1>3, <1>4

(* The types; a cached word is a byte until the second byte has been read. *)
Typed ==
  /\ reg \in RegFile /\ fl \in SUBSET Flags /\ fLow \in 0 .. 15 /\ mem \in Memory
  /\ mCurState \in 0 .. 4 /\ mCache \in Word /\ text \in Seq(Instr)
  /\ mCurState = 2 => mCache \in Byte

(* What a well-formed instruction has, by its operation. *)
LEMMA InstrTyped ==
  ASSUME NEW i \in Instr
  PROVE  /\ i.lo \in Byte /\ i.hi \in Byte /\ i.n \in Int /\ i.cb \in BOOLEAN
         /\ i.op \in {"LDrr", "LDrd8", "LDrm", "STmr", "INC", "DEC"} => i.p1 \in Bytes8
         /\ i.op = "LDrr" => i.p2 \in Bytes8
         /\ i.op \in {"LDr16", "INC16", "DEC16", "ADDHL"} => i.p1 \in {"BC", "DE", "HL", "SP"}
         /\ i.op \in {"STr16", "LDAr16"} => i.p1 \in {"BC", "DE", "HL"}
         /\ i.op \in {"INCm", "DECm"} => i.p1 = "m"
         /\ i.op \in {"PUSH", "POP"} => i.p1 \in {"AF", "BC", "DE", "HL"}
         /\ i.op \in Accumulate => i.p1 \in Bytes8 \cup {"d8", "m"}
         /\ i.op \in Rotate \cup BitOps => i.p1 \in Bytes8 \cup {"m"}
         /\ i.op \in Rotate /\ ~i.cb => i.op \in {"RLC", "RRC", "RL", "RR"}
         /\ i.op \in BitOps => i.n \in Weights
         /\ i.op = "RST" => i.n \in Byte
<1>1. -1 .. 255 \subseteq Int
  OBVIOUS
<1> QED
  BY <1>1 DEF Instr

(* Moving PC leaves a register file. *)
LEMMA PastTyped ==
  ASSUME NEW r \in RegFile, NEW k \in Int
  PROVE  Past(r, k) \in RegFile
<1> DEFINE pc == Wrap(r["PC"] + k)
<1>1. r["PC"] \in Word
  BY RegTyped
<1>2. pc \in Word
  BY <1>1, Cut, WordBounds
<1>3. Past(r, k) = [r EXCEPT !["PC"] = pc]
  BY <1>1 DEF Past, RegFile, Regs
<1> HIDE DEF pc
<1> QED
  BY <1>2, <1>3, SetWord

(* What every handler finds. *)
LEMMA Found ==
  ASSUME Typed, text # <<>>
  PROVE  /\ Cur \in Instr /\ Tail(text) \in Seq(Instr)
         /\ In \in RegFile /\ Past(In, 1) \in RegFile /\ Past(In, 2) \in RegFile
         /\ \A n \in Bytes8 : In[n] \in Byte
         /\ In["A"] \in Byte /\ In["SP"] \in Word /\ In["PC"] \in Word
         /\ \A p \in Pairs : Pair(In, p) \in Word
         /\ HL \in Word
         /\ \A n \in Regs \ {"PC"} : In[n] = reg[n]
<1>1. Cur \in Instr /\ Tail(text) \in Seq(Instr)
  BY DEF Typed, Cur
<1>2. In \in RegFile /\ \A n \in Regs \ {"PC"} : In[n] = reg[n]
  <2>1. \A k \in Int : Past(reg, k) \in RegFile
    BY PastTyped DEF Typed
  <2>2. In = IF mCurState = 0 THEN Past(reg, IF Cur.cb THEN 2 ELSE 1) ELSE reg
    BY DEF In, Past
  <2>3. \A k \in Int : \A n \in Regs \ {"PC"} : Past(reg, k)[n] = reg[n]
    BY DEF Typed, RegFile, Past
  <2> QED
    BY <2>1, <2>2, <2>3 DEF Typed
<1>3. Past(In, 1) \in RegFile /\ Past(In, 2) \in RegFile
  BY <1>2, PastTyped
<1>4. /\ \A n \in Bytes8 : In[n] \in Byte
      /\ In["A"] \in Byte /\ In["SP"] \in Word /\ In["PC"] \in Word
  BY <1>2, RegTyped DEF Bytes8
<1>5. \A p \in Pairs : Pair(In, p) \in Word
  BY <1>2, PairTyped DEF Typed, FlagsTyped
<1>6. HL \in Word
  BY <1>5 DEF HL, Pairs
<1> QED
  BY <1>1, <1>2, <1>3, <1>4, <1>5, <1>6

(* What every handler leaves. *)
GoodMachine == reg' \in RegFile /\ fl' \in SUBSET Flags /\ mem' \in Memory
GoodStep ==
  \/ Advance /\ mCurState \in 0 .. 3 /\ (mCurState = 1 => mCache' \in Byte)
  \/ Reset
Good == GoodMachine /\ fLow' \in 0 .. 15 /\ mCache' \in Word /\ GoodStep

(* A handler that leaves what it should keeps the types. *)
LEMMA GoodIsTyped ==
  ASSUME Typed, text # <<>>, Good
  PROVE  Typed'
<1>1. CASE Advance /\ mCurState \in 0 .. 3 /\ (mCurState = 1 => mCache' \in Byte)
  BY <1>1 DEF Typed, Good, GoodMachine, Advance
<1>2. CASE Reset
  BY <1>2, Found DEF Typed, Good, GoodMachine, Reset
<1> QED
  BY <1>1, <1>2 DEF Good, GoodStep

(* What is written is typed if the values are. *)
LEMMA Leaves ==
  /\ \A r \in RegFile, f \in SUBSET Flags, m \in Memory : Leave(r, f, m) => GoodMachine
  /\ Typed => \A r \in RegFile, f \in SUBSET Flags : SetsFlags(r, f) => GoodMachine
  /\ Typed => \A r \in RegFile : Sets(r) => GoodMachine
  /\ Typed => \A r \in RegFile, v \in Byte : \A a : Stores(r, a, v) => GoodMachine
BY MemoryTyped DEF Leave, SetsFlags, Sets, Stores, GoodMachine, Typed

(* The call that only waits keeps the types. *)
LEMMA WaitGood ==
  ASSUME Typed, text # <<>>, Wait, KeepLow
  PROVE  Good
BY Found, Leaves DEF Wait, Good, GoodStep, KeepLow, NoCache, Typed

(* The bytes behind the opcode and the address they make. *)
LEMMA Address16 ==
  ASSUME Typed, text # <<>>
  PROVE  /\ Cur.lo + 256 * Cur.hi \in Word
         /\ Cur.lo \in Byte /\ Cur.hi \in Byte /\ Cur.lo \in Word
BY Found, InstrTyped, Join, BytesAreWords, ZenonT(60)

(* The loads done in one call keep the types. *)
LEMMA LoadsGood ==
  ASSUME Typed, text # <<>>,
         LD_r16_d16 \/ LD_r8_d8 \/ LD_r8_r8 \/ LD_SP_HL \/ LD_a16_SP \/ Nop_Stop
  PROVE  GoodMachine
<1> USE Found, Address16
<1>1. CASE LD_r16_d16
  <2>1. Cur.p1 \in Pairs
    BY <1>1, InstrTyped DEF LD_r16_d16, Pairs
  <2> QED
    BY <1>1, <2>1, WideTyped, Leaves DEF LD_r16_d16
<1>2. CASE LD_r8_d8
  BY <1>2, InstrTyped, SetByte, Leaves DEF LD_r8_d8
<1>3. CASE LD_r8_r8
  <2>1. Cur.p1 \in Bytes8 /\ Cur.p2 \in Bytes8
    BY <1>3, InstrTyped DEF LD_r8_r8
  <2> QED
    BY <1>3, <2>1, SetByte, Leaves DEF LD_r8_r8
<1>4. CASE LD_SP_HL
  BY <1>4, SetWord, Leaves DEF LD_SP_HL
<1>5. CASE LD_a16_SP
  <2> DEFINE a == Cur.lo + 256 * Cur.hi
             hi == In["SP"] \div 256
             lo == Low(In["SP"])
             b == Wrap(a + 1)
  <2>1. hi \in Byte /\ lo \in Byte
    BY Halve
  <2>2. Leave(Past(In, 2), fl, Written(Written(mem, a, lo), b, hi))
    BY <1>5 DEF LD_a16_SP
  <2> HIDE DEF a, b, hi, lo
  <2>3. Written(Written(mem, a, lo), b, hi) \in Memory
    BY <2>1, MemoryTyped DEF Typed
  <2> QED
    BY <2>2, <2>3, Leaves DEF Typed
<1>6. CASE Nop_Stop
  BY <1>6, Leaves DEF Nop_Stop
<1> QED
  BY <1>1, <1>2, <1>3, <1>4, <1>5, <1>6

(* The loads and stores of the second call keep the types. *)
LEMMA TransfersGood ==
  ASSUME Typed, text # <<>>,
         LD_ar16_A \/ LD_A_ar16 \/ LD_arHL_d8 \/ LD_r8_and_arHL \/ LDH_and_LD_arC \/ LD_a16_and_A
  PROVE  GoodMachine
<1> USE Found, Address16
<1>1. \A a : Read(a) \in Byte
  BY MemoryTyped DEF Typed
<1>2. CASE LD_ar16_A \/ LD_A_ar16
  <2> DEFINE p == Cur.p1
             a == Pair(In, p)
             next == Wrap(a + Cur.n)
  <2>1. p \in Pairs /\ Cur.n \in Int
    BY <1>2, InstrTyped DEF LD_ar16_A, LD_A_ar16, Pairs
  <2>2. next \in Word
    <3>1. a \in Int
      BY <2>1, WordBounds
    <3> HIDE DEF a
    <3> QED
      BY <2>1, <3>1, WrapSum
  <2>3. [In EXCEPT !["A"] = Read(a)] \in RegFile
    BY <1>1, SetByte DEF Bytes8
  <2>4. /\ LD_ar16_A => Stores(Wide(In, p, next), a, In["A"])
        /\ LD_A_ar16 => Sets(Wide([In EXCEPT !["A"] = Read(a)], p, next))
    BY DEF LD_ar16_A, LD_A_ar16
  <2> HIDE DEF p, a, next
  <2> QED
    BY <1>2, <2>1, <2>2, <2>3, <2>4, WideTyped, Leaves
<1>3. CASE LD_arHL_d8
  BY <1>3, Leaves DEF LD_arHL_d8
<1>4. CASE LD_r8_and_arHL
  <2>1. CASE Cur.op = "LDrm"
    BY <1>1, <1>4, <2>1, InstrTyped, SetByte, Leaves DEF LD_r8_and_arHL
  <2>2. CASE Cur.op = "STmr"
    BY <1>4, <2>2, InstrTyped, Leaves DEF LD_r8_and_arHL
  <2> QED
    BY <1>4, <2>1, <2>2 DEF LD_r8_and_arHL
<1>5. CASE LDH_and_LD_arC
  <2>1. \A a : [Past(In, 1) EXCEPT !["A"] = Read(a)] \in RegFile
               /\ [In EXCEPT !["A"] = Read(a)] \in RegFile
    BY <1>1, SetByte DEF Bytes8
  <2> DEFINE a == 65280 + Cur.lo
             c == 65280 + In["C"]
  <2>2. \/ Cur.op = "STH" /\ Stores(Past(In, 1), a, In["A"])
        \/ Cur.op = "LDH" /\ Sets([Past(In, 1) EXCEPT !["A"] = Read(a)])
        \/ Cur.op = "STC" /\ Stores(In, c, In["A"])
        \/ Cur.op = "LDC" /\ Sets([In EXCEPT !["A"] = Read(c)])
    BY <1>5 DEF LDH_and_LD_arC
  <2> HIDE DEF a, c
  <2> QED
    BY <2>1, <2>2, Leaves
<1>6. CASE LD_a16_and_A
  <2>1. \A a : [Past(In, 2) EXCEPT !["A"] = Read(a)] \in RegFile
    BY <1>1, SetByte DEF Bytes8
  <2> QED
    BY <1>6, <2>1, Leaves DEF LD_a16_and_A
<1> QED
  BY <1>2, <1>3, <1>4, <1>5, <1>6

(* DAA gives a byte. *)
LEMMA DaaTyped ==
  ASSUME NEW a \in Byte, NEW f \in SUBSET Flags
  PROVE  Daa(a, f).val \in Byte /\ Daa(a, f).fl \in SUBSET Flags
<1>1. Adjusted(a, f) \in Int
  <2>1. a \in Int /\ Low(a - 6) \in Int
    BY DEF Low, Byte
  <2>2. \A n \in Int : n - 96 \in Int /\ n + 96 \in Int /\ n + 6 \in Int
    OBVIOUS
  <2> QED
    BY <2>1, <2>2 DEF Adjusted
<1>2. Daa(a, f).val = Low(Adjusted(a, f))
  BY DEF Daa, Result
<1>3. Daa(a, f).fl \in SUBSET Flags
  BY DEF Daa, Result, Put, Flags
<1> QED
  BY <1>1, <1>2, <1>3, Cut

(* CPL gives a byte. *)
LEMMA CplTyped ==
  ASSUME NEW a \in Byte, NEW f \in SUBSET Flags
  PROVE  Cpl(a, f).val \in Byte /\ Cpl(a, f).fl \in SUBSET Flags
<1>1. 255 - a \in Byte
  BY DEF Byte
<1> QED
  BY <1>1 DEF Cpl, Result, Flags

(* The arithmetic done in place keeps the types. *)
LEMMA ArithmeticGood ==
  ASSUME Typed, text # <<>>,
         Inc_Dec_r16 \/ Inc_Dec_r8 \/ ADD_HL_r16 \/ DAA_CPL_SCF_CCF \/ ADD_SP_r8
  PROVE  GoodMachine
<1> USE Found, Address16
<1>0. fl \in SUBSET Flags
  BY DEF Typed
<1>1. CASE Inc_Dec_r16
  <2> DEFINE p == Cur.p1
             up == Wrap(Pair(In, p) + 1)
             down == Wrap(Pair(In, p) - 1)
  <2>1. p \in Pairs
    BY <1>1, InstrTyped DEF Inc_Dec_r16, Pairs
  <2>2. up \in Word /\ down \in Word
    <3> DEFINE x == Pair(In, p)
    <3>1. x \in Int
      BY <2>1, WordBounds
    <3> HIDE DEF x
    <3>2. Wrap(x + 1) \in Word /\ Wrap(x - 1) \in Word
      BY <3>1, WrapSum
    <3> QED
      BY <3>2 DEF x
  <2>3. Sets(Wide(In, p, up)) \/ Sets(Wide(In, p, down))
    BY <1>1 DEF Inc_Dec_r16
  <2> HIDE DEF p, up, down
  <2> QED
    BY <2>1, <2>2, <2>3, WideTyped, Leaves
<1>2. CASE Inc_Dec_r8
  <2>1. Cur.p1 \in Bytes8
    BY <1>2, InstrTyped DEF Inc_Dec_r8
  <2> DEFINE v == In[Cur.p1]
             r == IF Cur.op = "INC" THEN Inc(v, fl) ELSE Dec(v, fl)
  <2>2. r.val \in Byte /\ r.fl \in SUBSET Flags
    BY <1>0, <2>1, IncFlags, StepNumbers DEF IsStep
  <2>3. SetsFlags([In EXCEPT ![Cur.p1] = r.val], r.fl)
    BY <1>2 DEF Inc_Dec_r8
  <2> HIDE DEF r
  <2> QED
    BY <2>1, <2>2, <2>3, SetByte, Leaves
<1>3. CASE ADD_HL_r16
  <2> DEFINE r == AddWord(HL, Pair(In, Cur.p1), fl)
  <2>1. Pair(In, Cur.p1) \in Word
    BY <1>3, InstrTyped DEF ADD_HL_r16, Pairs
  <2>2. r.val \in Word /\ r.fl \in SUBSET Flags
    <3> DEFINE x == Pair(In, Cur.p1)
    <3>1. x \in Word /\ x \in Int /\ HL \in Int
      BY <2>1, WordBounds
    <3> HIDE DEF x
    <3>2. Wrap(HL + x) \in Word
      BY <3>1, WrapSum
    <3>3. AddWord(HL, x, fl).val = Wrap(HL + x)
      BY DEF AddWord, Result
    <3>4. AddWord(HL, x, fl).fl \in SUBSET Flags
      BY <1>0, <3>1, WordFlags DEF IsWordSum
    <3> QED
      BY <3>2, <3>3, <3>4 DEF x
  <2>3. SetsFlags(Wide(In, "HL", r.val), r.fl)
    BY <1>3 DEF ADD_HL_r16
  <2> HIDE DEF r
  <2> QED
    BY <2>2, <2>3, WideTyped, Leaves DEF Pairs
<1>4. CASE DAA_CPL_SCF_CCF
  <2>1. CASE Cur.op \in {"DAA", "CPL"}
    <3> DEFINE r == IF Cur.op = "DAA" THEN Daa(In["A"], fl) ELSE Cpl(In["A"], fl)
    <3>1. Cpl(In["A"], fl).val \in Byte /\ Cpl(In["A"], fl).fl \in SUBSET Flags
      BY <1>0, CplTyped
    <3>2. r.val \in Byte /\ r.fl \in SUBSET Flags
      BY <1>0, <3>1, DaaTyped
    <3>3. SetsFlags([In EXCEPT !["A"] = r.val], r.fl)
      BY <1>4, <2>1 DEF DAA_CPL_SCF_CCF
    <3> HIDE DEF r
    <3> QED
      BY <3>2, <3>3, SetByte, Leaves DEF Bytes8
  <2>2. Scf(fl) \in SUBSET Flags /\ Ccf(fl) \in SUBSET Flags
    BY <1>0 DEF Scf, Ccf, Put, Flags
  <2> QED
    BY <1>4, <2>1, <2>2, Leaves DEF DAA_CPL_SCF_CCF
<1>5. CASE ADD_SP_r8
  <2> DEFINE d == SignExtended(Cur.lo)
             r == AddDisplacement(d, In["SP"], fl)
  <2>1. /\ d \in Word /\ d % 16 = Cur.lo % 16 /\ d % 256 = Cur.lo
    BY SignedDisplacement
  <2> HIDE DEF d
  <2>2. r.val = Wrap(d + In["SP"]) /\ r.fl \in SUBSET Flags
    BY <1>0 DEF AddDisplacement, Result, Put, Flags
  <2>3. SetsFlags([Past(In, 1) EXCEPT !["SP"] = r.val], r.fl)
    BY <1>5 DEF ADD_SP_r8, d
  <2> HIDE DEF r
  <2>4. r.val \in Word
    <3> DEFINE sp == In["SP"]
    <3>1. sp \in Int /\ d \in Int
      BY <2>1, WordBounds, SMTT(30)
    <3> HIDE DEF sp
    <3>2. Wrap(d + sp) \in Word
      BY <3>1, WrapSum
    <3> QED
      BY <2>2, <3>2 DEF sp
  <2> QED
    BY <2>2, <2>3, <2>4, SetWord, Leaves
<1> QED
  BY <1>1, <1>2, <1>3, <1>4, <1>5

(* AND, XOR and OR give a byte. *)
LEMMA LogicTyped ==
  ASSUME NEW a, NEW v
  PROVE  /\ And(a, v).val \in Byte /\ And(a, v).fl \in SUBSET Flags
         /\ Xor(a, v).val \in Byte /\ Xor(a, v).fl \in SUBSET Flags
         /\ Or(a, v).val \in Byte /\ Or(a, v).fl \in SUBSET Flags
<1>1. And(a, v).val \in Byte
  BY DEF And, FromBits, Result, Byte
<1>2. Xor(a, v).val \in Byte /\ Or(a, v).val \in Byte
  BY SMTT(30) DEF Xor, Or, FromBits, Result, Byte
<1>3. /\ And(a, v).fl \in SUBSET Flags /\ Xor(a, v).fl \in SUBSET Flags
      /\ Or(a, v).fl \in SUBSET Flags
  BY DEF And, Xor, Or, Result, ZeroFlag, Flags
<1> QED
  BY <1>1, <1>2, <1>3

(* A rotation or shift gives a byte. *)
LEMMA RotatedTyped ==
  ASSUME NEW v \in Byte, fl \in SUBSET Flags
  PROVE  Rotated(v).val \in Byte /\ Rotated(v).fl \in SUBSET Flags
<1>1. \A w \in {1, 128} : Bit(v, w) \in {0, 1}
  BY DEF Bit, Byte
<1>2. CarryIn(TRUE, fl) \in {0, 1}
  BY DEF CarryIn
<1>3. /\ \A b \in {0, 1} : (v \div 2) + 128 * b \in Byte
      /\ v \div 2 \in Byte /\ Low(2 * v) \in Byte
      /\ 16 * (v % 16) + (v \div 16) \in Byte
  BY DEF Byte, Low
<1>4. \A b \in {0, 1} : Low(2 * v) + b \in Byte
  BY DEF Byte, Low
<1> DEFINE Fine(r) == r.val \in Byte /\ r.fl \in SUBSET Flags
<1>5. \A b : CarryFlag(b) \in SUBSET Flags /\ ZeroFlag(b) \in SUBSET Flags
  BY DEF CarryFlag, ZeroFlag, Flags
<1>6. Fine(Rlc(v)) /\ Fine(Rrc(v)) /\ Fine(Rl(v, fl)) /\ Fine(Rr(v, fl))
  <2>1. Fine(Rlc(v)) /\ Fine(Rl(v, fl))
    BY <1>1, <1>2, <1>4, <1>5, ZenonT(60) DEF Rlc, Rl, Result
  <2>2. Fine(Rrc(v)) /\ Fine(Rr(v, fl))
    BY <1>1, <1>2, <1>3, <1>5, ZenonT(60) DEF Rrc, Rr, Result
  <2> QED
    BY <2>1, <2>2
<1>7. \A r : Fine(r) => Fine(WithZero(r))
  BY <1>5 DEF WithZero, Result
<1>8. Fine(Sla(v)) /\ Fine(Sra(v)) /\ Fine(Srl(v)) /\ Fine(Swap(v))
  <2>1. /\ Fine(Result(Low(2 * v), CarryFlag(Bit(v, 128))))
        /\ Fine(Result((v \div 2) + 128 * Bit(v, 128), CarryFlag(Bit(v, 1))))
        /\ Fine(Result(v \div 2, CarryFlag(Bit(v, 1))))
        /\ Fine(Result(16 * (v % 16) + (v \div 16), {}))
    BY <1>1, <1>3, <1>5 DEF Result
  <2> HIDE DEF Fine
  <2> QED
    BY <1>7, <2>1 DEF Sla, Sra, Srl, Swap
<1> HIDE DEF Fine
<1>9. Fine(Turned(v)) /\ Fine(Shifted(v))
  BY <1>6, <1>7, <1>8 DEF Turned, Shifted
<1>10. Fine(Rotated(v))
  BY <1>9 DEF Rotated
<1> QED
  BY <1>10 DEF Fine

(* Resetting and setting a bit of a byte gives a byte. *)
LEMMA BitChangedTyped ==
  ASSUME NEW v \in Byte, NEW w \in Weights
  PROVE  v - w * Bit(v, w) \in Byte /\ (v - w * Bit(v, w)) + w \in Byte
<1> USE DEF Byte, Bit
<1>1. CASE w = 1
  BY <1>1
<1>2. CASE w = 2
  BY <1>2
<1>3. CASE w = 4
  BY <1>3
<1>4. CASE w = 8
  BY <1>4
<1>5. CASE w = 16
  BY <1>5
<1>6. CASE w = 32
  BY <1>6
<1>7. CASE w = 64
  BY <1>7
<1>8. CASE w = 128
  BY <1>8
<1> QED
  BY <1>1, <1>2, <1>3, <1>4, <1>5, <1>6, <1>7, <1>8 DEF Weights

(* RES and SET give a byte and BIT gives flags. *)
LEMMA BitsTyped ==
  ASSUME NEW v \in Byte, Cur \in Instr
  PROVE  /\ Cur.op \in {"RES", "SET"} => BitChanged(v) \in Byte
         /\ fl \in SUBSET Flags => TestBit(v, Cur.n, fl) \in SUBSET Flags
<1>1. Cur.op \in {"RES", "SET"} => Cur.n \in Weights
  BY InstrTyped DEF BitOps
<1>2. fl \in SUBSET Flags => TestBit(v, Cur.n, fl) \in SUBSET Flags
  BY DEF TestBit, Put, Flags
<1> QED
  BY <1>1, <1>2, BitChangedTyped DEF BitChanged, ResBit, SetBit

(* LD HL,SP+r8 and INC/DEC (HL) keep the types in every microstep. *)
LEMMA MultiGood ==
  ASSUME Typed, text # <<>>, LD_HL_SP_p_r8 \/ Inc_Dec_arHL
  PROVE  Good
<1> USE Found, Address16
<1>0. fl \in SUBSET Flags /\ fLow \in 0 .. 15 /\ mem \in Memory /\ mCache \in Word
  BY DEF Typed
<1>1. CASE LD_HL_SP_p_r8
  <2>1. CASE Wait
    BY <1>1, <2>1, WaitGood DEF LD_HL_SP_p_r8
  <2>2. CASE mCurState = 1 /\ Sets(Past(In, 1)) /\ Carries(Cur.lo) /\ Advance
    BY <1>0, <1>1, <2>2, Leaves DEF LD_HL_SP_p_r8, Good, GoodStep, Carries, KeepLow
  <2>3. CASE mCurState = 2 /\ ~Wait
    <3> DEFINE r == AddDisplacement(mCache, In["SP"], fl)
               sp == In["SP"]
    <3>1. SetsFlags(Wide(In, "HL", r.val), r.fl) /\ NoCache /\ Reset
      BY <1>1, <2>3 DEF LD_HL_SP_p_r8, Advance, Reset
    <3>2. r.val = Wrap(mCache + sp) /\ r.fl \in SUBSET Flags
      BY <1>0 DEF AddDisplacement, Result, Put, Flags
    <3>3. sp \in Int /\ mCache \in Int
      BY <1>0, WordBounds
    <3> HIDE DEF r, sp
    <3>4. r.val \in Word
      BY <3>2, <3>3, WrapSum
    <3>5. GoodMachine
      BY <3>1, <3>2, <3>4, WideTyped, Leaves DEF Pairs
    <3> QED
      BY <1>0, <1>1, <3>1, <3>5 DEF LD_HL_SP_p_r8, Good, GoodStep, NoCache, KeepLow
  <2> QED
    BY <1>1, <2>1, <2>2, <2>3 DEF LD_HL_SP_p_r8, Wait
<1>2. CASE Inc_Dec_arHL
  <2>1. CASE Wait
    BY <1>2, <2>1, WaitGood DEF Inc_Dec_arHL
  <2>2. CASE mCurState = 1 /\ Sets(In) /\ Carries(Read(HL)) /\ Advance
    <3>1. Read(HL) \in Byte /\ Read(HL) \in Word
      BY <1>0, MemoryTyped, BytesAreWords
    <3> QED
      BY <1>0, <1>2, <2>2, <3>1, Leaves DEF Inc_Dec_arHL, Good, GoodStep, Carries, KeepLow
  <2>3. CASE mCurState = 2 /\ ~Wait
    <3> DEFINE up == Cur.op = "INCm"
               v == Wrap(IF up THEN mCache + 1 ELSE mCache - 1)
               half == v % 16 = (IF up THEN 0 ELSE 15)
               fs == Put(Put(Put(fl, "Z", v = 0), "H", half), "N", ~up)
    <3>1. Leave(In, fs, Written(mem, HL, Low(v))) /\ Carries(v) /\ Reset
      BY <1>2, <2>3 DEF Inc_Dec_arHL, Advance, Reset
    <3>2. fs \in SUBSET Flags
      BY <1>0 DEF Put, Flags
    <3>3. v \in Word
      <4>1. mCache \in Int
        BY <1>0, WordBounds
      <4> QED
        BY <4>1, WrapSum
    <3> HIDE DEF v, fs
    <3>4. Written(mem, HL, Low(v)) \in Memory
      BY <1>0, <3>3, Halve, MemoryTyped
    <3>5. GoodMachine
      BY <3>1, <3>2, <3>4, Leaves
    <3> QED
      BY <1>0, <1>2, <3>1, <3>3, <3>5 DEF Inc_Dec_arHL, Good, GoodStep, Carries, KeepLow
  <2> QED
    BY <1>2, <2>1, <2>2, <2>3 DEF Inc_Dec_arHL, Wait
<1> QED
  BY <1>1, <1>2

(* The operand of an accumulator instruction is a byte. *)
LEMMA OperandTyped ==
  ASSUME Typed, text # <<>>, Cur.op \in Accumulate
  PROVE  Operand \in Byte /\ Behind \in RegFile
<1>1. Cur.p1 \in Bytes8 \cup {"d8", "m"}
  BY Found, InstrTyped
<1>2. Read(HL) \in Byte /\ Cur.lo \in Byte
  BY Found, Address16, MemoryTyped DEF Typed
<1> QED
  BY <1>1, <1>2, Found DEF Operand, Behind, InMemory

(* Cpu::add and Cpu::sub, with and without the carry, are exact. *)
LEMMA AddIsSum ==
  ASSUME NEW a \in Byte, NEW b \in Byte, NEW f \in SUBSET Flags, NEW w
  PROVE  /\ CarryIn(w, f) \in 0 .. 1
         /\ IsSum(Add(a, b, w, f).val, Add(a, b, w, f).fl, a, b, CarryIn(w, f))
         /\ IsDifference(Sub(a, b, w, f).val, Sub(a, b, w, f).fl, a, b, CarryIn(w, f))
         /\ Add(a, b, w, f).val \in Byte /\ Add(a, b, w, f).fl \in SUBSET Flags
         /\ Sub(a, b, w, f).val \in Byte /\ Sub(a, b, w, f).fl \in SUBSET Flags
<1> DEFINE c == CarryIn(w, f)
           s == a + b + c
           d == Wrap(a - b - c)
<1>1. c \in 0 .. 1
  BY DEF CarryIn
<1>2. /\ Add(a, b, w, f).val = Low(s) /\ Add(a, b, w, f).fl = ArithFlags(a, b, c, s, f \ {"N"})
      /\ Sub(a, b, w, f).val = Low(d) /\ Sub(a, b, w, f).fl = ArithFlags(a, b, c, d, f \cup {"N"})
  BY DEF Add, Sub, Result
<1> HIDE DEF c
<1>3. /\ IsSum(Low(s), ArithFlags(a, b, c, s, f \ {"N"}), a, b, c)
      /\ IsDifference(Low(d), ArithFlags(a, b, c, d, f \cup {"N"}), a, b, c)
  BY <1>1, SumFlags, DifferenceFlags
<1>4. Low(s) \in Byte /\ Low(d) \in Byte
  <2>1. s \in Int /\ a - b - c \in Int
    BY <1>1 DEF Byte
  <2>2. d \in Int
    BY <2>1 DEF Wrap
  <2> HIDE DEF s, d
  <2> QED
    BY <2>1, <2>2, Cut
<1> HIDE DEF s, d
<1>5. ArithFlags(a, b, c, s, f \ {"N"}) \in SUBSET Flags /\ ArithFlags(a, b, c, d, f \cup {"N"}) \in SUBSET Flags
  BY <1>3 DEF IsSum, IsDifference
<1> QED
  BY <1>1, <1>2, <1>3, <1>4, <1>5 DEF c

(* The accumulator instructions keep the types. *)
LEMMA AluGood ==
  ASSUME Typed, text # <<>>, AluOp
  PROVE  Good
<1>0. fl \in SUBSET Flags /\ fLow \in 0 .. 15 /\ mCache \in Word
  BY DEF Typed
<1>1. CASE InMemory /\ Wait /\ KeepLow
  BY <1>1, WaitGood
<1>2. CASE ~(InMemory /\ Wait /\ KeepLow)
  <2> DEFINE a == In["A"]
             r == IF Cur.op \in Logic THEN Masked(a, Operand) ELSE Sum(a, Operand)
  <2>1. /\ SetsFlags(IF Cur.op = "CP" THEN Behind ELSE [Behind EXCEPT !["A"] = r.val], r.fl)
        /\ IF Cur.op \in Logic THEN DropLow ELSE KeepLow
        /\ Reset /\ NoCache /\ Cur.op \in Accumulate
    BY <1>2 DEF AluOp
  <2>2. a \in Byte /\ Operand \in Byte /\ Behind \in RegFile
    BY <2>1, Found, OperandTyped
  <2>3. r.val \in Byte /\ r.fl \in SUBSET Flags
    <3>1. /\ Masked(a, Operand).val \in Byte /\ Masked(a, Operand).fl \in SUBSET Flags
      BY LogicTyped DEF Masked
    <3>2. /\ Sum(a, Operand).val \in Byte /\ Sum(a, Operand).fl \in SUBSET Flags
      BY <1>0, <2>2, AddIsSum DEF Sum
    <3> QED
      BY <3>1, <3>2
  <2> HIDE DEF a, r
  <2>4. GoodMachine
    BY <2>1, <2>2, <2>3, SetByte, Leaves DEF Bytes8
  <2>5. fLow' \in 0 .. 15
    BY <1>0, <2>1 DEF DropLow, KeepLow
  <2> QED
    BY <1>0, <2>1, <2>4, <2>5 DEF Good, GoodStep, NoCache
<1> QED
  BY <1>1, <1>2

(* Rotations and bit operations keep the types. *)
LEMMA BitsGood ==
  ASSUME Typed, text # <<>>, OnRegister \/ ReadByte \/ RotateByte \/ ChangeBit \/ BIT_arHL
  PROVE  Good
<1>0. /\ fl \in SUBSET Flags /\ fLow \in 0 .. 15 /\ mCache \in Word /\ mem \in Memory
      /\ Cur \in Instr /\ In \in RegFile
      /\ mCurState = 2 => mCache \in Byte
  BY Found DEF Typed
<1>1. Read(HL) \in Byte /\ Read(HL) \in Word
  BY <1>0, MemoryTyped, BytesAreWords
<1>2. CASE OnRegister
  <2>1. Cur.p1 \in Bytes8 /\ In[Cur.p1] \in Byte
    <3>1. Cur.op \in Rotate \cup BitOps /\ Cur.p1 # "m"
      BY <1>2 DEF OnRegister, BitOps, InMemory
    <3>2. Cur.p1 \in Bytes8
      BY <1>0, <3>1, InstrTyped
    <3> QED
      BY <3>2, Found
  <2>2. CASE Cur.op \in Rotate
    <3>1. Rotated(In[Cur.p1]).val \in Byte /\ Rotated(In[Cur.p1]).fl \in SUBSET Flags
      BY <1>0, <2>1, RotatedTyped
    <3>2. SetsFlags([In EXCEPT ![Cur.p1] = Rotated(In[Cur.p1]).val], Rotated(In[Cur.p1]).fl) /\ DropLow
      BY <1>2, <2>2 DEF OnRegister, Rotate
    <3>3. GoodMachine
      BY <1>0, <2>1, <3>1, <3>2, SetByte, Leaves
    <3> QED
      BY <1>0, <1>2, <3>2, <3>3 DEF OnRegister, Good, GoodStep, NoCache, DropLow
  <2>3. CASE Cur.op \in {"RES", "SET"}
    <3>1. BitChanged(In[Cur.p1]) \in Byte
      BY <1>0, <2>1, <2>3, BitsTyped
    <3>2. Sets([In EXCEPT ![Cur.p1] = BitChanged(In[Cur.p1])]) /\ KeepLow
      BY <1>2, <2>3 DEF OnRegister, Rotate
    <3>3. GoodMachine
      BY <1>0, <2>1, <3>1, <3>2, SetByte, Leaves
    <3> QED
      BY <1>0, <1>2, <3>2, <3>3 DEF OnRegister, Good, GoodStep, NoCache, KeepLow
  <2>4. CASE Cur.op = "BIT"
    <3>1. SetsFlags(In, TestBit(In[Cur.p1], Cur.n, fl)) /\ KeepLow
      BY <1>2, <2>4 DEF OnRegister, Rotate
    <3>2. TestBit(In[Cur.p1], Cur.n, fl) \in SUBSET Flags
      BY <1>0, <2>1, BitsTyped
    <3>3. GoodMachine
      BY <1>0, <3>1, <3>2, Leaves
    <3> QED
      BY <1>0, <1>2, <3>1, <3>3 DEF OnRegister, Good, GoodStep, NoCache, KeepLow
  <2> QED
    BY <1>2, <2>2, <2>3, <2>4 DEF OnRegister
<1>3. CASE ReadByte
  <2>1. CASE Wait
    BY <1>3, <2>1, WaitGood DEF ReadByte
  <2>2. CASE mCurState = 1 /\ Sets(In) /\ Carries(Read(HL)) /\ Advance
    BY <1>0, <1>1, <1>3, <2>2, Leaves DEF ReadByte, Good, GoodStep, Carries, KeepLow
  <2> QED
    BY <1>3, <2>1, <2>2 DEF ReadByte
<1>4. CASE RotateByte
  <2> DEFINE r == Rotated(mCache)
  <2>1. r.val \in Byte /\ r.fl \in SUBSET Flags
    BY <1>0, <1>4, RotatedTyped DEF RotateByte
  <2>2. Leave(In, r.fl, Written(mem, HL, r.val)) /\ Carries(r.val) /\ DropLow /\ Reset
    BY <1>4 DEF RotateByte
  <2> HIDE DEF r
  <2>3. Written(mem, HL, r.val) \in Memory /\ r.val \in Word
    BY <1>0, <2>1, MemoryTyped, BytesAreWords
  <2>4. GoodMachine
    BY <1>0, <2>1, <2>2, <2>3, Leaves
  <2> QED
    BY <2>2, <2>3, <2>4 DEF Good, GoodStep, Carries, DropLow
<1>5. CASE ChangeBit
  <2> DEFINE v == BitChanged(mCache)
  <2>1. v \in Byte /\ v \in Word
    BY <1>0, <1>5, BitsTyped, BytesAreWords DEF ChangeBit
  <2>2. Stores(In, HL, v) /\ Carries(v) /\ KeepLow /\ Reset
    BY <1>5 DEF ChangeBit
  <2> HIDE DEF v
  <2>3. GoodMachine
    BY <1>0, <2>1, <2>2, Leaves
  <2> QED
    BY <1>0, <2>1, <2>2, <2>3 DEF Good, GoodStep, Carries, KeepLow
<1>6. CASE BIT_arHL
  <2>1. CASE Wait
    BY <1>6, <2>1, WaitGood DEF BIT_arHL
  <2>2. CASE mCurState = 1 /\ SetsFlags(In, TestBit(Read(HL), Cur.n, fl)) /\ Reset
    <3>1. TestBit(Read(HL), Cur.n, fl) \in SUBSET Flags
      BY <1>0, <1>1, BitsTyped
    <3>2. GoodMachine
      BY <1>0, <2>2, <3>1, Leaves
    <3> QED
      BY <1>0, <1>6, <2>2, <3>2 DEF BIT_arHL, Good, GoodStep, NoCache, KeepLow
  <2> QED
    BY <1>6, <2>1, <2>2 DEF BIT_arHL
<1> QED
  BY <1>2, <1>3, <1>4, <1>5, <1>6

(* SP moved by one or two, around its end too, stays a word. *)
LEMMA StackSteps ==
  ASSUME NEW r \in RegFile
  PROVE  /\ [r EXCEPT !["SP"] = Wrap(r["SP"] + 1)] \in RegFile
         /\ [r EXCEPT !["SP"] = Wrap(r["SP"] + 2)] \in RegFile
         /\ [r EXCEPT !["SP"] = Wrap(r["SP"] - 1)] \in RegFile
         /\ [r EXCEPT !["SP"] = Wrap(r["SP"] - 2)] \in RegFile
         /\ Wrap(r["SP"] - 1) \in Word
<1> DEFINE sp == r["SP"]
           up1 == Wrap(sp + 1)
           up2 == Wrap(sp + 2)
           down1 == Wrap(sp - 1)
           down2 == Wrap(sp - 2)
<1>1. sp \in Int
  BY RegTyped, WordBounds
<1> HIDE DEF sp
<1>2. up1 \in Word /\ up2 \in Word /\ down1 \in Word /\ down2 \in Word
  BY <1>1, WrapSum
<1> HIDE DEF up1, up2, down1, down2
<1>3. /\ [r EXCEPT !["SP"] = up1] \in RegFile /\ [r EXCEPT !["SP"] = up2] \in RegFile
      /\ [r EXCEPT !["SP"] = down1] \in RegFile /\ [r EXCEPT !["SP"] = down2] \in RegFile
  BY <1>2, SetWord
<1> QED
  BY <1>2, <1>3 DEF up1, up2, down1, down2, sp

(* The jumps and stack operations done in one call keep the types. *)
LEMMA JumpsGood ==
  ASSUME Typed, text # <<>>, JR \/ JP_arHL \/ RST_n \/ PUSH_r16 \/ POP_r16
  PROVE  GoodMachine
<1> USE Found, Address16
<1>0. fl \in SUBSET Flags /\ mem \in Memory
  BY DEF Typed
<1>1. CASE JR
  <2>1. SignExtended(Cur.lo) \in Int
    BY SignedDisplacement, WordBounds
  <2>2. Past(Past(In, 1), SignExtended(Cur.lo)) \in RegFile
    BY <2>1, PastTyped
  <2> QED
    BY <1>1, <2>2, Leaves DEF JR
<1>2. CASE JP_arHL
  BY <1>2, SetWord, Leaves DEF JP_arHL
<1>3. CASE RST_n
  <2> DEFINE r == [In EXCEPT !["SP"] = Wrap(In["SP"] - 2)]
             m == Pushed(mem, In["SP"], In["PC"])
  <2>1. Cur.n \in Word
    BY <1>3, InstrTyped, BytesAreWords DEF RST_n
  <2>2. r \in RegFile /\ m \in Memory
    BY <1>0, StackSteps, MemoryTyped
  <2>3. Leave([r EXCEPT !["PC"] = Cur.n], fl, m)
    BY <1>3 DEF RST_n
  <2> HIDE DEF r, m
  <2> QED
    BY <1>0, <2>1, <2>2, <2>3, SetWord, Leaves
<1>4. CASE PUSH_r16
  <2> DEFINE r == [In EXCEPT !["SP"] = Wrap(In["SP"] - 2)]
             m == Pushed(mem, In["SP"], Pair(In, Cur.p1))
  <2>1. Cur.p1 \in Pairs
    BY <1>4, InstrTyped DEF PUSH_r16, Pairs
  <2>2. r \in RegFile /\ m \in Memory
    BY <1>0, <2>1, StackSteps, MemoryTyped
  <2>3. Leave(r, fl, m)
    BY <1>4 DEF PUSH_r16
  <2> HIDE DEF r, m
  <2> QED
    BY <1>0, <2>2, <2>3, Leaves
<1>5. CASE POP_r16
  <2> DEFINE r == [In EXCEPT !["SP"] = Wrap(In["SP"] + 2)]
             v == Popped(In["SP"])
             f == IF Cur.p1 = "AF" THEN FlagsIn(v) ELSE fl
  <2>1. Cur.p1 \in Pairs
    BY <1>5, InstrTyped DEF POP_r16, Pairs
  <2>2. r \in RegFile /\ v \in Word
    BY <1>0, StackSteps, MemoryTyped
  <2>3. f \in SUBSET Flags
    BY <1>0 DEF FlagsIn
  <2>4. SetsFlags(Wide(r, Cur.p1, v), f)
    BY <1>5 DEF POP_r16
  <2> HIDE DEF r, v, f
  <2> QED
    BY <2>1, <2>2, <2>3, <2>4, WideTyped, Leaves
<1> QED
  BY <1>1, <1>2, <1>3, <1>4, <1>5

(* A jump's operand, collected in two calls. *)
LEMMA AddressGood ==
  ASSUME Typed, text # <<>>, Address
  PROVE  GoodMachine /\ mCache' \in Word /\ (mCurState = 1 => mCache' \in Byte)
<1>1. GoodMachine
  BY Found, Leaves DEF Address
<1>2. CASE mCurState = 1 /\ Carries(Cur.lo)
  BY <1>1, <1>2, Address16 DEF Carries
<1>3. CASE mCurState = 2 /\ Carries(mCache + 256 * Cur.hi)
  <2> DEFINE v == mCache + 256 * Cur.hi
  <2>1. v \in Word
    BY <1>3, Address16, Join DEF Typed
  <2>2. mCache' = v
    BY <1>3 DEF Carries
  <2> HIDE DEF v
  <2> QED
    BY <1>1, <1>3, <2>1, <2>2
<1> QED
  BY <1>2, <1>3 DEF Address

(* JP, CALL and RET keep the types in every microstep. *)
LEMMA CallsGood ==
  ASSUME Typed, text # <<>>, JP \/ CALL \/ RET
  PROVE  Good
<1> USE Found, Address16
<1>0. fl \in SUBSET Flags /\ fLow \in 0 .. 15 /\ mem \in Memory /\ mCache \in Word
  BY DEF Typed
<1>1. fLow' \in 0 .. 15 /\ KeepLow
  BY <1>0 DEF JP, CALL, RET, KeepLow
<1>2. CASE Wait
  BY <1>1, <1>2, WaitGood
<1>3. CASE Address
  <2>1. (Advance /\ mCurState \in {1, 2}) \/ Reset
    BY <1>3 DEF JP, CALL, RET, Address, Wait
  <2> QED
    BY <1>1, <1>3, <2>1, AddressGood DEF Good, GoodStep
<1>4. CASE JP /\ ~Wait /\ ~Address
  <2>1. [In EXCEPT !["PC"] = mCache] \in RegFile
    BY <1>0, SetWord
  <2>2. (Sets(Past(In, 2)) \/ Sets([In EXCEPT !["PC"] = mCache])) /\ NoCache /\ Reset
    BY <1>4 DEF JP
  <2>3. GoodMachine
    BY <2>1, <2>2, Leaves
  <2> QED
    BY <1>0, <1>1, <2>2, <2>3 DEF Good, GoodStep, NoCache
<1>5. CASE CALL /\ ~Wait /\ ~Address
  <2> DEFINE sp == Wrap(In["SP"] - 1)
             r == [In EXCEPT !["SP"] = sp]
  <2>1. sp \in Word /\ r \in RegFile
    BY StackSteps
  <2>2. CASE mCurState = 3
    <3> DEFINE q == [In EXCEPT !["PC"] = mCache, !["SP"] = sp]
               hi == In["PC"] \div 256
    <3>1. hi \in Byte
      BY Halve
    <3>2. Stores(q, sp, hi) /\ Carries(In["PC"]) /\ Advance
      BY <1>5, <2>2 DEF CALL
    <3> HIDE DEF sp, hi
    <3>3. [In EXCEPT !["PC"] = mCache] \in RegFile
      BY <1>0, SetWord
    <3>4. q \in RegFile
      BY <2>1, <3>3, SetWord
    <3> HIDE DEF q
    <3>5. GoodMachine
      BY <3>1, <3>2, <3>4, Leaves
    <3> QED
      BY <1>1, <2>2, <3>2, <3>5 DEF Good, GoodStep, Carries
  <2>3. CASE mCurState = 4
    <3>1. Stores(r, sp, Low(mCache)) /\ NoCache /\ Reset
      BY <1>5, <2>3 DEF CALL
    <3>2. Low(mCache) \in Byte
      BY <1>0, Halve
    <3> HIDE DEF sp, r
    <3>3. GoodMachine
      BY <2>1, <3>1, <3>2, Leaves
    <3> QED
      BY <1>0, <1>1, <3>1, <3>3 DEF Good, GoodStep, NoCache
  <2> QED
    BY <1>5, <2>2, <2>3 DEF CALL
<1>6. CASE RET /\ ~Wait
  <2>1. \A a : Read(a) \in Byte /\ Read(a) \in Word
    BY <1>0, MemoryTyped, BytesAreWords
  <2>2. CASE Sets(In) /\ NoCache /\ Reset
    BY <1>0, <1>1, <2>2, Leaves DEF Good, GoodStep, NoCache
  <2>3. CASE mCurState \in {1, 2} /\ Advance
    <3> DEFINE r == [In EXCEPT !["SP"] = Wrap(In["SP"] + 1)]
               b == Read(In["SP"])
               v == mCache + 256 * b
    <3>1. Sets(r) /\ Carries(IF mCurState = 1 THEN b ELSE v)
      BY <1>6, <2>3 DEF RET, Reset, Advance
    <3>2. r \in RegFile /\ b \in Byte /\ b \in Word
      BY <2>1, StackSteps
    <3> HIDE DEF b, r
    <3>3. mCurState = 2 => v \in Word
      BY <3>2, Join DEF Typed
    <3> HIDE DEF v
    <3>4. GoodMachine
      BY <3>1, <3>2, Leaves
    <3> QED
      BY <1>1, <2>3, <3>1, <3>2, <3>3, <3>4 DEF Good, GoodStep, Carries
  <2>4. CASE mCurState = 3 /\ Sets([In EXCEPT !["PC"] = mCache]) /\ NoCache /\ Reset
    <3>1. GoodMachine
      BY <1>0, <2>4, SetWord, Leaves
    <3> QED
      BY <1>0, <1>1, <2>4, <3>1 DEF Good, GoodStep, NoCache
  <2> QED
    BY <1>6, <2>2, <2>3, <2>4 DEF RET
<1> QED
  BY <1>2, <1>3, <1>4, <1>5, <1>6

(* Every handler keeps the types. *)
LEMMA HandlerGood ==
  ASSUME Typed, text # <<>>, Handler
  PROVE  Good
<1>0. fLow \in 0 .. 15 /\ mCache \in Word /\ mem \in Memory
  BY DEF Typed
<1>1. CASE Single
  <2>1. GoodMachine
    BY <1>1, LoadsGood, ArithmeticGood, JumpsGood DEF Single
  <2>2. fLow' \in 0 .. 15
    BY <1>0, <1>1 DEF Single, LowAfter
  <2> QED
    BY <1>0, <1>1, <2>1, <2>2 DEF Single, Good, GoodStep, NoCache
<1>2. CASE Transfer
  <2>1. CASE Wait
    BY <1>2, <2>1, WaitGood DEF Transfer
  <2>2. CASE ~Wait
    <3>1. GoodMachine
      BY <1>2, <2>2, TransfersGood, ArithmeticGood DEF Transfer
    <3> QED
      BY <1>0, <1>2, <2>2, <3>1 DEF Transfer, Good, GoodStep, NoCache, KeepLow
  <2> QED
    BY <2>1, <2>2
<1> QED
  BY <1>1, <1>2, MultiGood, AluGood, BitsGood, CallsGood DEF Handler

-----------------------------------------------------------------------------
(* The arithmetic instructions *)

(* The arithmetic instructions that take several calls. *)
Delaying == Accumulate \cup Rotate \cup {"INCm", "DECm", "ADDSP", "LDHLSP"}
Exacting == {"ADD", "ADC", "SUB", "SBC", "CP", "INC", "DEC", "INCm", "DECm", "ADDHL", "ADDSP", "LDHLSP"}

(* Nothing but PC has changed since the state s. *)
Unmoved(s) ==
  /\ \A n \in Regs \ {"PC"} : reg[n] = s.reg[n]
  /\ fl = s.fl /\ mem = s.mem

(* Between two calls: the instruction is the one last begun, and one that
   computes has moved nothing but PC and cached what it read. *)
Midway ==
  mCurState # 0 =>
    /\ text # <<>> /\ Last = Cur
    /\ Cur.op \in Delaying => Unmoved(Was)
    /\ mCurState = 2 /\ Cur.op = "LDHLSP" => mCache = Cur.lo
    /\ mCurState = 2 /\ Cur.op \in {"INCm", "DECm"} \cup Rotate => mCache = Read(HL)

(* The inductive invariant.  The two properties are about the end of an
   instruction only; Midway carries them over its microsteps. *)
IInv == Typed /\ Midway /\ ArithmeticExact /\ ShiftExact

(* After a call the history holds the current instruction, and what an instruction
   that takes several calls found is still there but for PC. *)
LEMMA Watched ==
  ASSUME Typed, Midway, text # <<>>, Watch
  PROVE  /\ Last' = Cur
         /\ mCurState = 0 \/ Cur.op \in Delaying => Unmoved(Was')
<1>1. CASE mCurState = 0
  <2>1. Last' = Cur /\ Was' = [reg |-> reg, fl |-> fl, fLow |-> fLow, mem |-> mem]
    BY <1>1 DEF Watch, Last, Was
  <2> QED
    BY <2>1 DEF Unmoved
<1>2. CASE mCurState # 0
  <2>1. Last' = Last /\ Was' = Was
    BY <1>2 DEF Watch, Last, Was
  <2> QED
    BY <1>2, <2>1 DEF Midway
<1> QED
  BY <1>1, <1>2

(* HL and the registers are as the instruction found them. *)
LEMMA HLFound ==
  ASSUME Typed, text # <<>>, NEW s, Unmoved(s)
  PROVE  /\ HL = PairWas(s, "HL")
         /\ \A n \in Regs \ {"PC"} : In[n] = s.reg[n]
         /\ Read(HL) = LET a == PairWas(s, "HL") IN IF a \in Ram THEN s.mem[a] ELSE 0
<1>1. \A n \in Regs \ {"PC"} : In[n] = s.reg[n]
  BY Found DEF Unmoved
<1>2. HL = PairWas(s, "HL")
  BY <1>1 DEF HL, Pair, PairWas, High, LowOf, Regs, Bytes8
<1> QED
  BY <1>1, <1>2 DEF Read, Unmoved

(* The operand is the byte the instruction found. *)
LEMMA OperandFound ==
  ASSUME Typed, text # <<>>, Cur.op \in Accumulate, NEW s, Unmoved(s)
  PROVE  Operand = ByteWas(Cur, s) /\ In["A"] = s.reg["A"] /\ fl = s.fl
<1>1. Cur.p1 \in Bytes8 \cup {"d8", "m"}
  BY Found, InstrTyped
<1>2. Cur.p1 = "m" => Operand = ByteWas(Cur, s)
  BY HLFound DEF Operand, InMemory, ByteWas
<1>3. Cur.p1 = "d8" => Operand = ByteWas(Cur, s)
  BY DEF Operand, InMemory, ByteWas
<1>4. Cur.p1 \in Bytes8 => Operand = ByteWas(Cur, s)
  <2>1. Cur.p1 \in Bytes8 => Cur.p1 # "m" /\ Cur.p1 # "d8" /\ Cur.p1 \in Regs \ {"PC"}
    BY DEF Bytes8, Regs
  <2>2. Cur.p1 \in Bytes8 => In[Cur.p1] = s.reg[Cur.p1]
    BY <2>1, HLFound
  <2> QED
    BY <2>1, <2>2 DEF Operand, InMemory, ByteWas
<1>5. In["A"] = s.reg["A"] /\ fl = s.fl
  BY HLFound DEF Bytes8, Regs, Unmoved
<1> QED
  BY <1>1, <1>2, <1>3, <1>4, <1>5

(* The parts of ArithmeticExact that say nothing of an instruction. *)
LEMMA NothingToShow ==
  /\ Last'.op \notin {"ADD", "ADC"} => AddsBytes'
  /\ Last'.op \notin {"SUB", "SBC", "CP"} => SubtractsBytes'
  /\ Last'.op \notin {"INC", "DEC", "INCm", "DECm"} => Steps'
  /\ Last'.op # "ADDHL" => AddsWords'
  /\ Last'.op \notin {"ADDSP", "LDHLSP"} => Displaces'
<1>1. Last'.op \notin {"ADD", "ADC"} => AddsBytes'
  BY Zenon DEF AddsBytes
<1>2. Last'.op \notin {"SUB", "SBC", "CP"} => SubtractsBytes'
  BY Zenon DEF SubtractsBytes
<1>3. Last'.op \notin {"INC", "DEC", "INCm", "DECm"} => Steps'
  BY Zenon DEF Steps
<1>4. Last'.op # "ADDHL" => AddsWords'
  BY Zenon DEF AddsWords
<1>5. Last'.op \notin {"ADDSP", "LDHLSP"} => Displaces'
  BY Zenon DEF Displaces
<1> QED
  BY <1>1, <1>2, <1>3, <1>4, <1>5

(* One part of ArithmeticExact is enough for each instruction. *)
LEMMA OnlyTheFirst ==
  /\ Last'.op \in {"ADD", "ADC"} /\ AddsBytes' => ArithmeticExact'
  /\ Last'.op \in {"SUB", "SBC", "CP"} /\ SubtractsBytes' => ArithmeticExact'
  /\ Last'.op \in {"INC", "DEC", "INCm", "DECm"} /\ Steps' => ArithmeticExact'
  /\ Last'.op = "ADDHL" /\ AddsWords' => ArithmeticExact'
  /\ Last'.op \in {"ADDSP", "LDHLSP"} /\ Displaces' => ArithmeticExact'
  /\ Last'.op \notin Exacting => ArithmeticExact'
BY NothingToShow DEF ArithmeticExact, Exacting

(* ADD, ADC, SUB, SBC and CP are exact once they are over. *)
LEMMA AluExact ==
  ASSUME Typed, Midway, text # <<>>, Watch, AluOp
  PROVE  ArithmeticExact'
<1> DEFINE a == In["A"]
           v == Operand
           s == Was'
<1>1. Last' = Cur /\ Cur.op \in Accumulate /\ fl \in SUBSET Flags
  BY Watched DEF AluOp, Typed
<1>2. v = ByteWas(Cur, s) /\ a = s.reg["A"] /\ fl = s.fl
  BY <1>1, Watched, OperandFound DEF Delaying
<1>3. a \in Byte /\ v \in Byte /\ Behind \in RegFile
  BY <1>1, Found, OperandTyped
<1>4. CASE mCurState' # 0
  BY <1>4 DEF ArithmeticExact, Done
<1>8. mCurState' = 0 /\ Cur.op \notin Logic =>
        SetsFlags(IF Cur.op = "CP" THEN Behind ELSE [Behind EXCEPT !["A"] = Sum(a, v).val], Sum(a, v).fl)
  <2>1. mCurState' = 0 => ~Wait
    BY DEF Wait, Advance, Typed
  <2> QED
    BY <2>1 DEF AluOp
<1>5. CASE Cur.op \in Logic
  BY <1>1, <1>5, OnlyTheFirst DEF Logic, Exacting
<1>6. CASE mCurState' = 0 /\ Cur.op \in {"ADD", "ADC"}
  <2> DEFINE w == Cur.op \in {"ADC", "SBC"}
             r == Add(a, v, w, fl)
             c == CarryIn(w, fl)
  <2>1. SetsFlags([Behind EXCEPT !["A"] = r.val], r.fl)
    <3>1. Sum(a, v) = r
      BY <1>6 DEF Sum
    <3>2. Cur.op \notin Logic /\ Cur.op # "CP"
      BY <1>6 DEF Logic
    <3> HIDE DEF a, v, r
    <3> QED
      BY <1>8, <1>6, <3>1, <3>2
  <2>2. IsSum(r.val, r.fl, a, v, c)
    BY <1>1, <1>3, AddIsSum
  <2>3. c = BitOf(Cur.op = "ADC" /\ "C" \in s.fl)
    BY <1>2, <1>6 DEF CarryIn, BitOf
  <2> HIDE DEF r, c, a, v, s
  <2>4. reg'["A"] = r.val /\ fl' = r.fl
    BY <1>3, <2>1 DEF SetsFlags, Leave, RegFile, Regs, Bytes8
  <2>5. /\ reg'["A"] = (a + v + c) % 256
        /\ fl' = {f \in Flags : \/ f = "Z" /\ reg'["A"] = 0
                                \/ f = "N" /\ FALSE
                                \/ f = "H" /\ (a % 16) + (v % 16) + c > 15
                                \/ f = "C" /\ a + v + c > 255}
    BY <2>2, <2>4 DEF IsSum, Flags
  <2>6. AddsBytes'
    BY <1>1, <1>2, <2>3, <2>5 DEF AddsBytes, FlagsAre, s
  <2> QED
    BY <1>1, <1>6, <2>6, OnlyTheFirst
<1>7. CASE mCurState' = 0 /\ Cur.op \in {"SUB", "SBC", "CP"}
  <2> DEFINE w == Cur.op \in {"ADC", "SBC"}
             r == Sub(a, v, w, fl)
             c == CarryIn(w, fl)
  <2>1. SetsFlags(IF Cur.op = "CP" THEN Behind ELSE [Behind EXCEPT !["A"] = r.val], r.fl)
    <3>1. Sum(a, v) = r
      BY <1>7 DEF Sum
    <3>2. Cur.op \notin Logic
      BY <1>7 DEF Logic
    <3> HIDE DEF a, v, r
    <3> QED
      BY <1>8, <1>7, <3>1, <3>2
  <2>2. IsDifference(r.val, r.fl, a, v, c)
    BY <1>1, <1>3, AddIsSum
  <2>3. c = BitOf(Cur.op = "SBC" /\ "C" \in s.fl)
    BY <1>2, <1>7 DEF CarryIn, BitOf
  <2>4. Behind["A"] = a
    <3>1. Past(In, 1)["A"] = In["A"]
      BY Found DEF Past, RegFile, Regs, Bytes8
    <3> QED
      BY <3>1 DEF Behind
  <2> HIDE DEF r, c, a, v, s
  <2>5. reg'["A"] = (IF Cur.op = "CP" THEN a ELSE r.val) /\ fl' = r.fl
    BY <1>3, <2>1, <2>4 DEF SetsFlags, Leave, RegFile, Regs, Bytes8
  <2> DEFINE d == (256 + a - (v + c)) % 256
  <2>6. r.val = d
    BY <2>2 DEF IsDifference
  <2> HIDE DEF d
  <2>7. /\ reg'["A"] = IF Cur.op = "CP" THEN a ELSE d
        /\ fl' = {f \in Flags : \/ f = "Z" /\ d = 0
                                \/ f = "N" /\ TRUE
                                \/ f = "H" /\ a % 16 < (v % 16) + c
                                \/ f = "C" /\ a < v + c}
    BY <2>2, <2>5, <2>6 DEF IsDifference, Flags
  <2>8. SubtractsBytes'
    BY <1>1, <1>2, <2>3, <2>7 DEF SubtractsBytes, FlagsAre, s, d
  <2> QED
    BY <1>1, <1>7, <2>8, OnlyTheFirst
<1> QED
  BY <1>1, <1>4, <1>5, <1>6, <1>7 DEF Accumulate, Logic

(* The flags are the set of those known to be on. *)
LEMMA FlagsRead ==
  ASSUME NEW z, NEW n, NEW h, NEW c, fl' \in SUBSET Flags,
         "Z" \in fl' <=> z, "N" \in fl' <=> n, "H" \in fl' <=> h, "C" \in fl' <=> c
  PROVE  fl' = {f \in Flags : (f = "Z" /\ z) \/ (f = "N" /\ n) \/ (f = "H" /\ h) \/ (f = "C" /\ c)}
<1> DEFINE S == {f \in Flags : (f = "Z" /\ z) \/ (f = "N" /\ n) \/ (f = "H" /\ h) \/ (f = "C" /\ c)}
<1>1. \A f \in Flags : f \in fl' <=> f \in S
  BY Zenon DEF Flags
<1>2. S \subseteq Flags /\ fl' \subseteq Flags
  OBVIOUS
<1> HIDE DEF S
<1>3. fl' = S
  BY <1>1, <1>2
<1> QED
  BY <1>3 DEF S

(* From the numbers of an increment to what Steps says of it. *)
LEMMA StepShown ==
  ASSUME NEW r, NEW v \in Byte, NEW up \in BOOLEAN, NEW zero \in BOOLEAN, NEW f,
         ByteIs(Last)' = r, ByteWas(Last, Was)' = v,
         Last'.op \in {"INC", "INCm"} <=> up,
         r = 0 /\ Last'.op # "INCm" <=> zero,
         "C" \in Was'.fl <=> "C" \in f,
         IsStep(r, fl', f, v, up), "Z" \in fl' <=> zero
  PROVE  Steps'
<1> DEFINE h == v % 16 = (IF up THEN 15 ELSE 0)
           c == "C" \in f
<1>1. r = (IF up THEN v + 1 ELSE v + 255) % 256
  BY DEF IsStep
<1>2. fl' = {g \in Flags : (g = "Z" /\ zero) \/ (g = "N" /\ ~up) \/ (g = "H" /\ h) \/ (g = "C" /\ c)}
  <2>1. /\ fl' \in SUBSET Flags /\ ("N" \in fl' <=> ~up)
        /\ "H" \in fl' <=> h
        /\ "C" \in fl' <=> c
    BY DEF IsStep
  <2> HIDE DEF h, c
  <2> QED
    BY <2>1, FlagsRead, ZenonT(60)
<1>3. SteppedIs(ByteIs(Last), ByteWas(Last, Was), Last.op \in {"INC", "INCm"}, ByteIs(Last) = 0 /\ Last.op # "INCm")'
  BY <1>1, <1>2 DEF SteppedIs, FlagsAre
<1> QED
  BY <1>3 DEF Steps

(* INC r8 and DEC r8 are exact. *)
LEMMA ByteStepped ==
  ASSUME Typed, Midway, text # <<>>, Watch, mCurState = 0, Inc_Dec_r8
  PROVE  ArithmeticExact'
<1> DEFINE p == Cur.p1
           v == In[p]
           up == Cur.op = "INC"
           r == IF up THEN Inc(v, fl) ELSE Dec(v, fl)
           s == Was'
<1>1. Last' = Cur /\ Cur.op \in {"INC", "DEC"} /\ fl \in SUBSET Flags /\ Unmoved(s)
  BY Watched DEF Inc_Dec_r8, Typed
<1>2. p \in Bytes8 /\ p # "m" /\ p # "d8" /\ p \in Regs \ {"PC"}
  <2>1. p \in Bytes8
    BY <1>1, Found, InstrTyped
  <2> QED
    BY <2>1 DEF Bytes8, Regs
<1>3. v \in Byte /\ v = s.reg[p] /\ fl = s.fl
  BY <1>1, <1>2, Found, HLFound DEF Unmoved
<1>4. v = ByteWas(Cur, s)
  BY <1>2, <1>3 DEF ByteWas
<1>5. IsStep(r.val, r.fl, fl, v, up) /\ ("Z" \in r.fl <=> r.val = 0)
  BY <1>1, <1>3, IncFlags
<1>6. SetsFlags([In EXCEPT ![p] = r.val], r.fl)
  BY DEF Inc_Dec_r8
<1> HIDE DEF r, v
<1>7. reg'[p] = r.val /\ fl' = r.fl
  BY <1>2, <1>6, Found DEF SetsFlags, Leave, RegFile
<1>8. ByteIs(Last)' = reg'[p]
  <2>1. Last'.p1 = p /\ Last'.p1 # "m"
    BY <1>1, <1>2
  <2> HIDE DEF p
  <2> QED
    BY <2>1 DEF ByteIs
<1>9. ByteWas(Last, Was)' = v
  BY <1>1, <1>4 DEF ByteWas, PairWas
<1>10. Last'.op \in {"INC", "INCm"} <=> up
  BY <1>1
<1>11. Last'.op # "INCm" /\ Was'.fl = fl
  BY <1>1, <1>3
<1> HIDE DEF p, up, s
<1>12. Steps'
  <2> DEFINE x == reg'[p]
             zero == x = 0
  <2>1. up \in BOOLEAN /\ zero \in BOOLEAN
    BY DEF up
  <2>2. IsStep(x, fl', fl, v, up) /\ ("Z" \in fl' <=> zero)
    BY <1>5, <1>7
  <2>3. x = 0 /\ Last'.op # "INCm" <=> zero
    BY <1>11
  <2> HIDE DEF x, zero
  <2> QED
    BY <1>3, <1>8, <1>9, <1>10, <1>11, <2>1, <2>2, <2>3, StepShown DEF x
<1> QED
  BY <1>1, <1>12, OnlyTheFirst

(* What a write to HL leaves in H and L. *)
LEMMA WideReads ==
  ASSUME NEW r \in RegFile, NEW v \in Word
  PROVE  /\ Wide(r, "HL", v)["H"] = v \div 256 /\ Wide(r, "HL", v)["L"] = Low(v)
         /\ 256 * (v \div 256) + Low(v) = v
<1>1. \A n \in Int : 0 <= n /\ n <= 65535 => 256 * (n \div 256) + (n % 256) = n
  OBVIOUS
<1>2. 256 * (v \div 256) + Low(v) = v
  BY <1>1, WordBounds DEF Low
<1>3. Wide(r, "HL", v) = [r EXCEPT !["H"] = v \div 256, !["L"] = Low(v)]
  BY DEF Wide, High, LowOf
<1>4. r \in [Regs -> Word] /\ "H" \in Regs /\ "L" \in Regs
  BY DEF RegFile, Regs, Bytes8
<1> DEFINE hi == v \div 256
           lo == Low(v)
<1>5. Wide(r, "HL", v) = [r EXCEPT !["H"] = hi, !["L"] = lo]
  BY <1>3
<1> HIDE DEF hi, lo
<1>6. Wide(r, "HL", v)["H"] = hi /\ Wide(r, "HL", v)["L"] = lo
  BY <1>4, <1>5
<1> QED
  BY <1>2, <1>6 DEF hi, lo

(* HL after a handler that writes it. *)
LEMMA HLWritten ==
  ASSUME NEW r \in RegFile, NEW v \in Word, reg' = Wide(r, "HL", v)
  PROVE  Pair(reg, "HL")' = v
<1>1. Pair(reg, "HL")' = 256 * reg'["H"] + reg'["L"]
  BY DEF Pair, High, LowOf
<1> QED
  BY <1>1, WideReads

(* From the numbers of a sum of words to what AddsWords says of it. *)
LEMMA WordsShown ==
  ASSUME NEW a \in Word, NEW b \in Word, NEW r, NEW f,
         Pair(reg, "HL")' = r, PairWas(Was, "HL")' = a, PairWas(Was, Last.p1)' = b,
         "Z" \in Was'.fl <=> "Z" \in f,
         IsWordSum(r, fl', f, a, b)
  PROVE  AddsWords'
<1> DEFINE z == "Z" \in f
           h == (a % 4096) + (b % 4096) > 4095
           c == a + b > 65535
<1>1. r = (a + b) % 65536
  BY DEF IsWordSum
<1>2. fl' = {g \in Flags : (g = "Z" /\ z) \/ (g = "N" /\ FALSE) \/ (g = "H" /\ h) \/ (g = "C" /\ c)}
  <2>1. /\ fl' \in SUBSET Flags /\ ("Z" \in fl' <=> z) /\ ("N" \in fl' <=> FALSE)
        /\ "H" \in fl' <=> h
        /\ "C" \in fl' <=> c
    BY DEF IsWordSum
  <2> HIDE DEF z, h, c
  <2> QED
    BY <2>1, FlagsRead
<1>3. WordSumIs(PairWas(Was, "HL"), PairWas(Was, Last.p1))'
  BY <1>1, <1>2 DEF WordSumIs, FlagsAre
<1> QED
  BY <1>3 DEF AddsWords

(* From the numbers of a displacement to what Displaces says of it. *)
LEMMA DisplacementShown ==
  ASSUME NEW sp \in Word, NEW lo \in Byte,
         fl' \in SUBSET Flags, "Z" \notin fl', "N" \notin fl',
         "H" \in fl' <=> (sp % 16) + (lo % 16) > 15,
         "C" \in fl' <=> (sp % 256) + lo > 255,
         Was'.reg["SP"] = sp, Last'.lo = lo
  PROVE  /\ /\ Last'.op = "ADDSP"
            /\ reg'["SP"] = (65536 + sp + Signed(lo)) % 65536
            => Displaces'
         /\ /\ Last'.op = "LDHLSP"
            /\ Pair(reg, "HL")' = (65536 + sp + lo) % 65536
            => Displaces'
<1> DEFINE h == (sp % 16) + (lo % 16) > 15
           c == (sp % 256) + lo > 255
<1>1. fl' = {g \in Flags : (g = "Z" /\ FALSE) \/ (g = "N" /\ FALSE) \/ (g = "H" /\ h) \/ (g = "C" /\ c)}
  <2>1. /\ fl' \in SUBSET Flags /\ ("Z" \in fl' <=> FALSE) /\ ("N" \in fl' <=> FALSE)
        /\ "H" \in fl' <=> h
        /\ "C" \in fl' <=> c
    OBVIOUS
  <2> HIDE DEF h, c
  <2> QED
    BY ONLY <2>1, FlagsRead
<1>2. ASSUME Last'.op = "ADDSP", reg'["SP"] = (65536 + sp + Signed(lo)) % 65536
      PROVE  Displaces'
  <2>1. DisplacedIs(reg["SP"], Was.reg["SP"], Signed(Last.lo), Last.lo)'
    BY <1>1, <1>2 DEF DisplacedIs, FlagsAre, Signed
  <2> QED
    BY <1>2, <2>1 DEF Displaces
<1>3. ASSUME Last'.op = "LDHLSP", Pair(reg, "HL")' = (65536 + sp + lo) % 65536
      PROVE  Displaces'
  <2>1. DisplacedIs(Pair(reg, "HL"), Was.reg["SP"], Last.lo, Last.lo)'
    BY <1>1, <1>3 DEF DisplacedIs, FlagsAre
  <2> QED
    BY <1>3, <2>1 DEF Displaces
<1> QED
  BY <1>2, <1>3

(* ADD HL,r16 is exact. *)
LEMMA WordsAdded ==
  ASSUME Typed, Midway, text # <<>>, Watch, mCurState = 0, ADD_HL_r16
  PROVE  ArithmeticExact'
<1> DEFINE x == Pair(In, Cur.p1)
           r == AddWord(HL, x, fl)
           s == Was'
<1>1. Last' = Cur /\ Cur.op = "ADDHL" /\ fl \in SUBSET Flags /\ Unmoved(s)
  BY Watched DEF ADD_HL_r16, Typed
<1>2. Cur.p1 \in {"BC", "DE", "HL", "SP"}
  BY <1>1, Found, InstrTyped
<1>3. x \in Word /\ HL \in Word /\ fl = s.fl
  BY <1>1, <1>2, Found DEF Pairs, Unmoved
<1>4. HL = PairWas(s, "HL") /\ x = PairWas(s, Cur.p1)
  <2>1. \A n \in Regs \ {"PC"} : In[n] = s.reg[n]
    BY <1>1, HLFound
  <2> QED
    BY <1>1, <1>2, <2>1, HLFound DEF Pair, PairWas, High, LowOf, Regs, Bytes8
<1>5. IsWordSum(r.val, r.fl, fl, HL, x)
  BY <1>1, <1>3, WordFlags
<1>6. SetsFlags(Wide(In, "HL", r.val), r.fl)
  BY DEF ADD_HL_r16
<1>7. r.val \in Word
  <2>1. HL \in Int /\ x \in Int
    BY <1>3, WordBounds
  <2>2. r.val = Wrap(HL + x)
    BY DEF AddWord, Result
  <2> HIDE DEF x, r
  <2> QED
    BY <2>1, <2>2, WrapSum
<1> HIDE DEF r, x
<1>8. Pair(reg, "HL")' = r.val /\ fl' = r.fl
  BY <1>6, <1>7, Found, HLWritten DEF SetsFlags, Leave
<1>9. AddsWords'
  <2> DEFINE y == r.val
             hl == HL
  <2>1. PairWas(Was, "HL")' = hl /\ PairWas(Was, Last.p1)' = x
    BY <1>1, <1>4 DEF PairWas
  <2>2. "Z" \in Was'.fl <=> "Z" \in fl
    BY <1>3
  <2>3. IsWordSum(y, fl', fl, hl, x) /\ hl \in Word
    BY <1>3, <1>5, <1>8
  <2>4. Pair(reg, "HL")' = y
    BY <1>8
  <2> HIDE DEF y, hl
  <2> QED
    BY <1>3, <2>1, <2>2, <2>3, <2>4, WordsShown
<1> QED
  BY <1>1, <1>9, OnlyTheFirst

(* ADD SP,r8 is exact, with the sign of its displacement. *)
LEMMA StackPointerMoved ==
  ASSUME Typed, Midway, text # <<>>, Watch, ADD_SP_r8
  PROVE  ArithmeticExact'
<1> DEFINE lo == Cur.lo
           d == SignExtended(lo)
           sp == In["SP"]
           r == AddDisplacement(d, sp, fl)
           s == Was'
<1>1. Last' = Cur /\ Cur.op = "ADDSP" /\ fl \in SUBSET Flags /\ Unmoved(s)
  BY Watched DEF ADD_SP_r8, Typed, Delaying
<1>2. lo \in Byte /\ sp \in Word /\ sp = s.reg["SP"]
  BY <1>1, Found, Address16, HLFound DEF Regs
<1>3. /\ d \in Word /\ d % 16 = lo % 16 /\ d % 256 = lo
      /\ \A q \in Word : (d + q) % 65536 = (65536 + q + Signed(lo)) % 65536
  BY <1>2, SignedDisplacement
<1>4. SetsFlags([Past(In, 1) EXCEPT !["SP"] = r.val], r.fl)
  BY DEF ADD_SP_r8
<1> HIDE DEF lo, d, sp
<1>5. /\ r.val = (65536 + sp + Signed(lo)) % 65536
      /\ r.fl \in SUBSET Flags
      /\ "Z" \notin r.fl /\ "N" \notin r.fl
      /\ "H" \in r.fl <=> (sp % 16) + (lo % 16) > 15
      /\ "C" \in r.fl <=> (sp % 256) + lo > 255
  BY <1>1, <1>2, <1>3, DisplacementFlags
<1> HIDE DEF r
<1>6. reg'["SP"] = r.val /\ fl' = r.fl
  BY <1>4, Found DEF SetsFlags, Leave, RegFile, Regs
<1>7. Displaces'
  <2>1. /\ fl' \in SUBSET Flags
        /\ "Z" \notin fl' /\ "N" \notin fl'
        /\ "H" \in fl' <=> (sp % 16) + (lo % 16) > 15
        /\ "C" \in fl' <=> (sp % 256) + lo > 255
    BY <1>5, <1>6
  <2>2. Was'.reg["SP"] = sp /\ Last'.lo = lo /\ Last'.op = "ADDSP"
    BY <1>1, <1>2 DEF lo
  <2>3. reg'["SP"] = (65536 + sp + Signed(lo)) % 65536
    BY <1>5, <1>6
  <2> QED
    BY ONLY <1>2, <2>1, <2>2, <2>3, DisplacementShown
<1> QED
  BY <1>1, <1>7, OnlyTheFirst

(* Between two calls of an instruction there is nothing to show. *)
LEMMA NotDone == ASSUME mCurState' # 0 PROVE ArithmeticExact'
BY DEF ArithmeticExact, Done

(* LD HL,SP+r8 is exact, without the sign of its displacement. *)
LEMMA HLMoved ==
  ASSUME Typed, Midway, text # <<>>, Watch, LD_HL_SP_p_r8
  PROVE  ArithmeticExact'
<1> DEFINE lo == Cur.lo
           sp == In["SP"]
           r == AddDisplacement(mCache, sp, fl)
           s == Was'
<1>1. Last' = Cur /\ Cur.op = "LDHLSP" /\ fl \in SUBSET Flags /\ Unmoved(s)
  BY Watched DEF LD_HL_SP_p_r8, Typed, Delaying
<1>2. lo \in Byte /\ lo \in Word /\ sp \in Word /\ sp = s.reg["SP"]
  BY <1>1, Found, Address16, HLFound DEF Regs
<1>3. CASE mCurState' # 0
  BY <1>3, NotDone
<1>4. CASE mCurState' = 0
  <2>1. mCurState = 2 /\ SetsFlags(Wide(In, "HL", r.val), r.fl)
    BY <1>4 DEF LD_HL_SP_p_r8, Wait, Advance, Typed
  <2>2. mCache = lo
    BY <1>1, <2>1 DEF Midway
  <2>3. lo % 16 = lo % 16 /\ lo % 256 = lo
    BY <1>2, Small
  <2> HIDE DEF lo, sp
  <2>4. /\ r.val = (lo + sp) % 65536
        /\ r.fl \in SUBSET Flags
        /\ "Z" \notin r.fl /\ "N" \notin r.fl
        /\ "H" \in r.fl <=> (sp % 16) + (lo % 16) > 15
        /\ "C" \in r.fl <=> (sp % 256) + lo > 255
    BY <1>1, <1>2, <2>2, <2>3, DisplacementFlags
  <2>5. r.val \in Word
    <3>1. lo \in Int /\ sp \in Int
      BY <1>2, WordBounds
    <3>2. r.val = Wrap(lo + sp)
      BY <2>4 DEF Wrap
    <3> HIDE DEF r
    <3> QED
      BY <3>1, <3>2, WrapSum
  <2>6. r.val = (65536 + sp + lo) % 65536
    <3>1. sp \in Int /\ lo \in Int
      BY <1>2, WordBounds
    <3>2. \A p, q \in Int : (p + q) % 65536 = (65536 + q + p) % 65536
      OBVIOUS
    <3> QED
      BY <2>4, <3>1, <3>2
  <2> HIDE DEF r
  <2>7. Pair(reg, "HL")' = r.val /\ fl' = r.fl
    BY <2>1, <2>5, Found, HLWritten DEF SetsFlags, Leave
  <2>8. Was'.reg["SP"] = sp /\ Last'.lo = lo /\ Last'.op = "LDHLSP"
    BY <1>1, <1>2 DEF lo
  <2>9. /\ fl' \in SUBSET Flags
        /\ "Z" \notin fl' /\ "N" \notin fl'
        /\ "H" \in fl' <=> (sp % 16) + (lo % 16) > 15
        /\ "C" \in fl' <=> (sp % 256) + lo > 255
    BY <2>4, <2>7
  <2>10. Pair(reg, "HL")' = (65536 + sp + lo) % 65536
    BY <2>6, <2>7
  <2>11. Displaces'
    BY ONLY <1>2, <2>8, <2>9, <2>10, DisplacementShown
  <2> QED
    BY <2>8, <2>11, OnlyTheFirst
<1> QED
  BY <1>3, <1>4

(* INC (HL) and DEC (HL) are exact; INC (HL) leaves Z off. *)
LEMMA StoredByteStepped ==
  ASSUME Typed, Midway, text # <<>>, Watch, Inc_Dec_arHL
  PROVE  ArithmeticExact'
<1> DEFINE b == Read(HL)
           up == Cur.op = "INCm"
           v == Wrap(IF up THEN mCache + 1 ELSE mCache - 1)
           half == v % 16 = (IF up THEN 0 ELSE 15)
           f == Put(Put(Put(fl, "Z", v = 0), "H", half), "N", ~up)
           s == Was'
<1>1. Last' = Cur /\ Cur.op \in {"INCm", "DECm"} /\ fl \in SUBSET Flags /\ Unmoved(s)
  BY Watched DEF Inc_Dec_arHL, Typed, Delaying
<1>2. /\ Cur.p1 = "m" /\ HL = PairWas(s, "HL") /\ fl = s.fl
      /\ b = ByteWas(Cur, s) /\ b \in Byte
  <2>1. Cur.p1 = "m"
    BY <1>1, Found, InstrTyped
  <2> QED
    BY <1>1, <2>1, HLFound, MemoryTyped DEF ByteWas, Unmoved, Typed
<1>3. CASE mCurState' # 0
  BY <1>3, NotDone
<1>4. CASE mCurState' = 0
  <2>1. mCurState = 2 /\ Leave(In, f, Written(mem, HL, Low(v)))
    BY <1>4 DEF Inc_Dec_arHL, Wait, Advance, Typed
  <2>2. mCache = b
    BY <1>1, <2>1 DEF Midway
  <2>3. /\ Low(v) = (IF up THEN b + 1 ELSE b + 255) % 256
        /\ half <=> b % 16 = (IF up THEN 15 ELSE 0)
        /\ v = 0 <=> ~up /\ Low(v) = 0
    <3> HIDE DEF b
    <3>1. CASE up
      BY <1>2, <2>2, <3>1, StepNumbers
    <3>2. CASE ~up
      BY <1>2, <2>2, <3>2, StepNumbers
    <3> QED
      BY <3>1, <3>2
  <2> DEFINE r == Low(v)
  <2>4. PairWas(Was, "HL")' = HL /\ ByteWas(Last, Was)' = b /\ Last'.p1 = "m"
    BY <1>1, <1>2 DEF ByteWas, PairWas
  <2>5. CASE HL \notin Ram
    <3>1. ~Stored'
      BY <2>4, <2>5 DEF Stored
    <3>2. Steps'
      BY <3>1 DEF Steps
    <3> QED
      BY <1>1, <3>2, OnlyTheFirst
  <2>6. CASE HL \in Ram
    <3>1. ByteIs(Last)' = mem'[HL]
      BY <2>4, <2>6 DEF ByteIs, Read
    <3>2. mem \in [Ram -> Byte]
      BY DEF Typed, Memory
    <3> HIDE DEF f, v, b
    <3>3. mem'[HL] = r /\ fl' = f
      BY <2>1, <2>6, <3>2 DEF Leave, Written
    <3>4. /\ f \in SUBSET Flags
          /\ "Z" \in f <=> v = 0
          /\ "H" \in f <=> half
          /\ "N" \in f <=> ~up
          /\ "C" \in f <=> "C" \in fl
      <4> HIDE DEF half, up
      <4> DEFINE zero == v = 0
      <4>1. /\ f \in SUBSET Flags
            /\ "Z" \in f <=> zero
            /\ "H" \in f <=> half
            /\ "N" \in f <=> ~up
            /\ "C" \in f <=> "C" \in fl
        BY <1>1 DEF f, Put, Flags
      <4> QED
        BY <4>1
    <3> DEFINE y == r
               zero == v = 0
    <3>5. IsStep(y, fl', fl, b, up)
      BY <2>3, <3>3, <3>4 DEF IsStep
    <3>6. "Z" \in fl' <=> zero
      BY <3>3, <3>4
    <3>7. ByteIs(Last)' = y
      BY <3>1, <3>3
    <3>8. y = 0 /\ Last'.op # "INCm" <=> zero
      BY <1>1, <2>3
    <3>9. Last'.op \in {"INC", "INCm"} <=> up
      BY <1>1
    <3>10. "C" \in Was'.fl <=> "C" \in fl
      BY <1>2
    <3>11. up \in BOOLEAN /\ zero \in BOOLEAN
      OBVIOUS
    <3> HIDE DEF y, zero, up
    <3>12. Steps'
      BY <1>2, <2>4, <3>5, <3>6, <3>7, <3>8, <3>9, <3>10, <3>11, StepShown DEF b
    <3> QED
      BY <1>1, <3>12, OnlyTheFirst
  <2> QED
    BY <2>5, <2>6
<1> QED
  BY <1>3, <1>4

(* Which handlers have an instruction ArithmeticExact or Midway speaks of. *)
LEMMA OtherOps ==
  /\ LD_r16_d16 \/ LD_r8_d8 \/ LD_r8_r8 \/ LD_SP_HL \/ LD_a16_SP \/ Nop_Stop
       \/ Inc_Dec_r16 \/ DAA_CPL_SCF_CCF
       \/ JR \/ JP_arHL \/ RST_n \/ PUSH_r16 \/ POP_r16
     => Cur.op \notin Exacting
  /\ LD_ar16_A \/ LD_A_ar16 \/ LD_arHL_d8 \/ LD_r8_and_arHL \/ LDH_and_LD_arC \/ LD_a16_and_A
     => Cur.op \notin Exacting
  /\ OnRegister \/ ReadByte \/ RotateByte \/ ChangeBit \/ BIT_arHL \/ JP \/ CALL \/ RET
     => Cur.op \notin Exacting
  /\ BIT_arHL \/ ChangeBit \/ JP \/ CALL \/ RET => Cur.op \notin Delaying
<1>1. LD_r16_d16 \/ LD_r8_d8 \/ LD_r8_r8 \/ LD_SP_HL \/ LD_a16_SP \/ Nop_Stop => Cur.op \notin Exacting
  BY DEF LD_r16_d16, LD_r8_d8, LD_r8_r8, LD_SP_HL, LD_a16_SP, Nop_Stop, Exacting
<1>2. Inc_Dec_r16 \/ DAA_CPL_SCF_CCF => Cur.op \notin Exacting
  BY DEF Inc_Dec_r16, DAA_CPL_SCF_CCF, Exacting
<1>3. JR \/ JP_arHL \/ RST_n \/ PUSH_r16 \/ POP_r16 => Cur.op \notin Exacting
  BY DEF JR, JP_arHL, RST_n, PUSH_r16, POP_r16, Exacting
<1>4. LD_ar16_A \/ LD_A_ar16 \/ LD_arHL_d8 \/ LD_r8_and_arHL \/ LDH_and_LD_arC \/ LD_a16_and_A
     => Cur.op \notin Exacting
  BY DEF LD_ar16_A, LD_A_ar16, LD_arHL_d8, LD_r8_and_arHL, LDH_and_LD_arC, LD_a16_and_A, Exacting
<1>5. OnRegister \/ ReadByte \/ RotateByte \/ ChangeBit \/ BIT_arHL => Cur.op \in Rotate \cup BitOps
  BY DEF OnRegister, ReadByte, RotateByte, ChangeBit, BIT_arHL, Rotate, BitOps
<1>6. JP \/ CALL \/ RET => Cur.op \in {"JP", "JPcc", "CALL", "CALLcc", "RET", "RETcc"}
  BY DEF JP, CALL, RET
<1>7. Cur.op \in Rotate \cup BitOps \cup {"JP", "JPcc", "CALL", "CALLcc", "RET", "RETcc"}
        => Cur.op \notin Exacting
  BY DEF Rotate, BitOps, Exacting
<1>8. BIT_arHL \/ ChangeBit => Cur.op \in BitOps
  BY DEF BIT_arHL, ChangeBit, BitOps
<1>9. Cur.op \in BitOps \cup {"JP", "JPcc", "CALL", "CALLcc", "RET", "RETcc"} => Cur.op \notin Delaying
  BY DEF Rotate, BitOps, Delaying, Accumulate
<1> QED
  BY <1>1, <1>2, <1>3, <1>4, <1>5, <1>6, <1>7, <1>8, <1>9

(* A call that only reads changes nothing but PC. *)
LEMMA StillUnmoved ==
  ASSUME Typed, text # <<>>, Unmoved(Was'), Sets(In) \/ Sets(Past(In, 1))
  PROVE  Unmoved(Was)'
<1>1. \A n \in Regs \ {"PC"} : Past(In, 1)[n] = In[n] /\ In[n] = reg[n]
  BY Found DEF Past, RegFile
<1> QED
  BY <1>1 DEF Unmoved, Sets, Leave

(* Every handler keeps what is known between two calls. *)
LEMMA MidwayKept ==
  ASSUME Typed, Midway, text # <<>>, Watch, Handler
  PROVE  Midway'
<1> SUFFICES ASSUME mCurState' # 0
             PROVE  /\ text' # <<>> /\ Last' = Cur'
                    /\ Cur'.op \in Delaying => Unmoved(Was)'
                    /\ mCurState' = 2 /\ Cur'.op = "LDHLSP" => mCache' = Cur'.lo
                    /\ mCurState' = 2 /\ Cur'.op \in {"INCm", "DECm"} \cup Rotate => mCache' = Read(HL)'
  BY DEF Midway
<1>1. Advance /\ mCurState \in 0 .. 3 /\ mCurState' = mCurState + 1
  BY HandlerGood DEF Good, GoodStep, Advance, Reset
<1>2. text' # <<>> /\ Last' = Cur /\ Cur' = Cur
  BY <1>1, Watched DEF Advance, Cur
<1>3. ASSUME Cur.op \in Delaying
      PROVE  /\ Sets(In) \/ Sets(Past(In, 1))
             /\ mCurState' = 2 /\ Cur.op = "LDHLSP" => mCache' = Cur.lo
             /\ mCurState' = 2 /\ Cur.op \in {"INCm", "DECm"} \cup Rotate => mCache' = Read(HL) /\ Sets(In)
  <2>1. CASE Single \/ AluOp \/ Transfer \/ OnRegister \/ RotateByte
    <3>1. Wait
      BY <1>1, <2>1 DEF Single, AluOp, Transfer, OnRegister, RotateByte, Reset
    <3> QED
      BY <1>1, <3>1 DEF Wait
  <2>2. CASE LD_HL_SP_p_r8
    BY <1>1, <2>2 DEF LD_HL_SP_p_r8, Wait, Reset, Carries, Rotate
  <2>3. CASE Inc_Dec_arHL
    BY <1>1, <2>3 DEF Inc_Dec_arHL, Wait, Reset, Carries
  <2>4. CASE ReadByte
    <3>1. Cur.op # "LDHLSP"
      BY <2>4 DEF ReadByte, Rotate
    <3> QED
      BY <1>1, <2>4, <3>1 DEF ReadByte, Wait, Reset, Carries
  <2>5. ~(BIT_arHL \/ ChangeBit \/ JP \/ CALL \/ RET)
    BY <1>3, OtherOps
  <2> QED
    BY <2>1, <2>2, <2>3, <2>4, <2>5 DEF Handler
<1>4. Cur.op \in Delaying => Unmoved(Was)'
  BY <1>3, Watched, StillUnmoved
<1>5. Sets(In) => Read(HL)' = Read(HL)
  <2>1. Sets(In) => reg' = In /\ mem' = mem /\ In' = In
    BY <1>1 DEF Sets, Leave, In
  <2>2. Sets(In) => HL' = HL
    BY <2>1 DEF HL, Pair, High, LowOf
  <2> QED
    BY <2>1, <2>2 DEF Read
<1>6. {"INCm", "DECm"} \cup Rotate \subseteq Delaying /\ "LDHLSP" \in Delaying
  BY DEF Delaying
<1> QED
  BY <1>2, <1>3, <1>4, <1>5, <1>6

(* Every handler leaves its arithmetic exact. *)
LEMMA ExactKept ==
  ASSUME Typed, Midway, text # <<>>, Watch, Handler
  PROVE  ArithmeticExact'
<1>1. Last' = Cur
  BY Watched
<1>2. CASE Cur.op \notin Exacting
  BY <1>1, <1>2, OnlyTheFirst
<1>3. CASE Cur.op \in Exacting
  <2>1. CASE Single
    <3>1. Inc_Dec_r8 \/ ADD_HL_r16
      BY <1>3, <2>1, OtherOps DEF Single
    <3>2. mCurState = 0
      BY <2>1 DEF Single
    <3> QED
      BY <3>1, <3>2, ByteStepped, WordsAdded
  <2>2. CASE Transfer
    <3>1. Wait \/ ADD_SP_r8
      BY <1>3, <2>2, OtherOps DEF Transfer
    <3>2. Wait => mCurState' # 0
      BY DEF Wait, Advance
    <3> QED
      BY <3>1, <3>2, StackPointerMoved, NotDone
  <2>3. CASE LD_HL_SP_p_r8 \/ Inc_Dec_arHL \/ AluOp
    BY <2>3, HLMoved, StoredByteStepped, AluExact
  <2> QED
    BY <1>3, <2>1, <2>2, <2>3, OtherOps DEF Handler
<1> QED
  BY <1>2, <1>3

-----------------------------------------------------------------------------
(* Rotations and shifts *)

(* Doubling and halving a byte, with the bit that leaves it. *)
LEMMA ShiftedNumbers ==
  ASSUME NEW v \in Byte, NEW k \in 0 .. 1
  PROVE  /\ Bit(v, 1) \in 0 .. 1 /\ Bit(v, 128) \in 0 .. 1
         /\ 256 * Bit(v, 128) + (Low(2 * v) + k) = 2 * v + k
         /\ 256 * Bit(v, 128) + Low(2 * v) = 2 * v
         /\ 2 * ((v \div 2) + 128 * k) + Bit(v, 1) = v + 256 * k
         /\ 2 * (v \div 2) + Bit(v, 1) = v
         /\ 2 * Signed((v \div 2) + 128 * Bit(v, 128)) + Bit(v, 1) = Signed(v)
<1>1. v \in Int /\ 0 <= v /\ v <= 255 /\ k \in Int
  BY DEF Byte
<1>2. Bit(v, 128) = IF v < 128 THEN 0 ELSE 1
  BY <1>1 DEF Bit
<1>3. Bit(v, 1) = v % 2
  BY <1>1 DEF Bit
<1>4. Low(2 * v) = IF v < 128 THEN 2 * v ELSE 2 * v - 256
  BY <1>1 DEF Low
<1>5. 2 * (v \div 2) + (v % 2) = v /\ v \div 2 \in Int /\ 0 <= v \div 2 /\ v \div 2 <= 127 /\ v % 2 \in 0 .. 1
  BY <1>1
<1>6. 2 * Signed((v \div 2) + 128 * Bit(v, 128)) + Bit(v, 1) = Signed(v)
  BY <1>1, <1>2, <1>3, <1>5 DEF Signed
<1> QED
  BY <1>1, <1>2, <1>3, <1>4, <1>5, <1>6

(* Swapping the halves of a byte twice gives the byte. *)
LEMMA SwappedNumbers ==
  ASSUME NEW v \in Byte
  PROVE  LET r == 16 * (v % 16) + (v \div 16)
         IN r \in Byte /\ 16 * (r % 16) + (r \div 16) = v
<1>1. v \in Int /\ 0 <= v /\ v <= 255
  BY DEF Byte
<1> DEFINE h == v \div 16
           l == v % 16
<1>2. /\ h \in Int /\ 0 <= h /\ h <= 15 /\ l \in Int /\ 0 <= l /\ l <= 15
      /\ v = 16 * h + l
  BY <1>1
<1> HIDE DEF h, l
<1>3. (16 * l + h) % 16 = h /\ (16 * l + h) \div 16 = l /\ 16 * l + h \in Byte
  BY <1>2 DEF Byte
<1> QED
  BY <1>2, <1>3 DEF h, l

(* The flags a rotation leaves, with and without Z. *)
LEMMA TurnedFlags ==
  ASSUME NEW val, NEW b, NEW zero \in BOOLEAN, NEW r,
         r = IF zero THEN WithZero(Result(val, CarryFlag(b))) ELSE Result(val, CarryFlag(b))
  PROVE  /\ r.val = val
         /\ "C" \in r.fl <=> b = 1
         /\ "Z" \in r.fl <=> zero /\ val = 0
         /\ "N" \notin r.fl /\ "H" \notin r.fl
<1>1. \A z : CarryFlag(z) = IF z = 1 THEN {"C"} ELSE {}
  BY DEF CarryFlag
<1>2. \A z : ZeroFlag(z) = IF z = 0 THEN {"Z"} ELSE {}
  BY DEF ZeroFlag
<1> QED
  BY <1>1, <1>2 DEF WithZero, Result

(* Each rotation and shift as an equation of numbers. *)
LEMMA TurnedNumbers ==
  ASSUME NEW v \in Byte, NEW k \in 0 .. 1
  PROVE  /\ TurnedIs("RL", v, Low(2 * v) + k, k, Bit(v, 128))
         /\ TurnedIs("RLC", v, Low(2 * v) + Bit(v, 128), k, Bit(v, 128))
         /\ TurnedIs("RR", v, (v \div 2) + 128 * k, k, Bit(v, 1))
         /\ TurnedIs("RRC", v, (v \div 2) + 128 * Bit(v, 1), k, Bit(v, 1))
         /\ TurnedIs("SLA", v, Low(2 * v), k, Bit(v, 128))
         /\ TurnedIs("SRL", v, v \div 2, k, Bit(v, 1))
         /\ TurnedIs("SRA", v, (v \div 2) + 128 * Bit(v, 128), k, Bit(v, 1))
         /\ TurnedIs("SWAP", v, 16 * (v % 16) + (v \div 16), k, 0)
<1> DEFINE hi == Bit(v, 128)
           lo == Bit(v, 1)
           up == Low(2 * v)
           half == v \div 2
           swap == 16 * (v % 16) + (v \div 16)
<1>1. hi \in 0 .. 1 /\ lo \in 0 .. 1
  BY ShiftedNumbers
<1>2. up \in Int /\ half \in Int /\ swap \in Int /\ v \in Int
  BY DEF Byte, Low
<1>3. /\ 256 * hi + up = 2 * v
      /\ 2 * half + lo = v
      /\ 2 * Signed(half + 128 * hi) + lo = Signed(v)
  BY ShiftedNumbers
<1>4. 16 * (swap % 16) + (swap \div 16) = v
  BY SwappedNumbers
<1> HIDE DEF hi, lo, up, half, swap
<1>5. TurnedIs("RL", v, up + k, k, hi) /\ TurnedIs("RLC", v, up + hi, k, hi)
  BY <1>1, <1>2, <1>3 DEF TurnedIs
<1>6. TurnedIs("RR", v, half + 128 * k, k, lo) /\ TurnedIs("RRC", v, half + 128 * lo, k, lo)
  BY <1>1, <1>2, <1>3 DEF TurnedIs
<1>7. TurnedIs("SLA", v, up, k, hi) /\ TurnedIs("SRL", v, half, k, lo)
  BY <1>3 DEF TurnedIs
<1>8. TurnedIs("SRA", v, half + 128 * hi, k, lo) /\ TurnedIs("SWAP", v, swap, k, 0)
  BY <1>3, <1>4 DEF TurnedIs
<1> QED
  BY <1>5, <1>6, <1>7, <1>8 DEF hi, lo, up, half, swap

(* What Rotated returns solves the equation of its instruction. *)
LEMMA RotatedIs ==
  ASSUME NEW v \in Byte, Cur.op \in Rotate, Cur.cb \in BOOLEAN,
         ~Cur.cb => Cur.op \in {"RLC", "RRC", "RL", "RR"},
         NEW cin, cin = BitOf("C" \in fl), NEW r, r = Rotated(v)
  PROVE  /\ \E c \in 0 .. 1 : TurnedIs(Cur.op, v, r.val, cin, c) /\ ("C" \in r.fl <=> c = 1)
         /\ "Z" \in r.fl <=> Cur.cb /\ r.val = 0
         /\ "N" \notin r.fl /\ "H" \notin r.fl
<1> DEFINE Shape(val, b) ==
             r = IF Cur.cb THEN WithZero(Result(val, CarryFlag(b))) ELSE Result(val, CarryFlag(b))
<1>1. cin \in 0 .. 1 /\ CarryIn(TRUE, fl) = cin
  BY DEF BitOf, CarryIn
<1>2. Bit(v, 128) \in 0 .. 1 /\ Bit(v, 1) \in 0 .. 1 /\ 0 \in 0 .. 1
  BY ShiftedNumbers
<1>3. CarryFlag(0) = {}
  BY DEF CarryFlag
<1>4. /\ Cur.op = "RL" => Shape(Low(2 * v) + cin, Bit(v, 128))
      /\ Cur.op = "RLC" => Shape(Low(2 * v) + Bit(v, 128), Bit(v, 128))
      /\ Cur.op = "RR" => Shape((v \div 2) + 128 * cin, Bit(v, 1))
      /\ Cur.op = "RRC" => Shape((v \div 2) + 128 * Bit(v, 1), Bit(v, 1))
  BY <1>1, ZenonT(60) DEF Rotated, Turned, Rl, Rlc, Rr, Rrc
<1>5. /\ Cur.op = "SLA" => Shape(Low(2 * v), Bit(v, 128))
      /\ Cur.op = "SRL" => Shape(v \div 2, Bit(v, 1))
      /\ Cur.op = "SRA" => Shape((v \div 2) + 128 * Bit(v, 128), Bit(v, 1))
      /\ Cur.op = "SWAP" => Shape(16 * (v % 16) + (v \div 16), 0)
  BY <1>3 DEF Rotated, Shifted, Sla, Srl, Sra, Swap
<1>6. \E val : \E b \in 0 .. 1 : Shape(val, b) /\ TurnedIs(Cur.op, v, val, cin, b)
  <2> HIDE DEF Shape
  <2>1. Cur.op \in {"RL", "RLC", "RR", "RRC"} => \E val : \E b \in 0 .. 1 : Shape(val, b) /\ TurnedIs(Cur.op, v, val, cin, b)
    BY <1>1, <1>2, <1>4, TurnedNumbers
  <2>2. Cur.op \in {"SLA", "SRL", "SRA", "SWAP"} => \E val : \E b \in 0 .. 1 : Shape(val, b) /\ TurnedIs(Cur.op, v, val, cin, b)
    BY <1>1, <1>2, <1>5, TurnedNumbers
  <2> QED
    BY <2>1, <2>2 DEF Rotate
<1>7. PICK val : \E b \in 0 .. 1 : Shape(val, b) /\ TurnedIs(Cur.op, v, val, cin, b)
  BY <1>6
<1>8. PICK b \in 0 .. 1 : Shape(val, b) /\ TurnedIs(Cur.op, v, val, cin, b)
  BY <1>7
<1>9. r = IF Cur.cb THEN WithZero(Result(val, CarryFlag(b))) ELSE Result(val, CarryFlag(b))
  BY <1>8
<1> DEFINE zero == Cur.cb
<1>10. r = (IF zero THEN WithZero(Result(val, CarryFlag(b))) ELSE Result(val, CarryFlag(b)))
       /\ zero \in BOOLEAN
  BY <1>9
<1> HIDE DEF zero, Shape
<1>11. /\ r.val = val
       /\ "C" \in r.fl <=> b = 1
       /\ "Z" \in r.fl <=> zero /\ val = 0
       /\ "N" \notin r.fl /\ "H" \notin r.fl
  BY <1>10, TurnedFlags
<1>12. "Z" \in r.fl <=> Cur.cb /\ r.val = 0
  BY ONLY <1>11 DEF zero
<1> QED
  BY <1>8, <1>11, <1>12

(* From the numbers of a rotation to what ShiftExact says of it. *)
LEMMA ShiftShown ==
  ASSUME NEW v, NEW r, NEW cin, NEW c \in 0 .. 1,
         ByteIs(Last)' = r, ByteWas(Last, Was)' = v,
         cin = IF "C" \in Was'.fl THEN 1 ELSE 0,
         TurnedIs(Last'.op, v, r, cin, c),
         fl' \in SUBSET Flags,
         "C" \in fl' <=> c = 1,
         "Z" \in fl' <=> Last'.cb /\ r = 0,
         "N" \notin fl', "H" \notin fl'
  PROVE  ShiftExact'
<1> DEFINE z == Last'.cb /\ r = 0
           one == c = 1
           op == Last'.op
<1>1. fl' = {g \in Flags : (g = "Z" /\ z) \/ (g = "N" /\ FALSE) \/ (g = "H" /\ FALSE) \/ (g = "C" /\ one)}
  <2>1. /\ fl' \in SUBSET Flags /\ ("Z" \in fl' <=> z) /\ ("N" \in fl' <=> FALSE)
        /\ "H" \in fl' <=> FALSE
        /\ "C" \in fl' <=> one
    OBVIOUS
  <2> HIDE DEF z, one
  <2> QED
    BY ONLY <2>1, FlagsRead
<1>2. BitOf("C" \in fl)' = c
  BY DEF BitOf
<1>3. FlagsAre(Last.cb /\ ByteIs(Last) = 0, FALSE, FALSE, BitOf("C" \in fl) = 1)'
  BY <1>1, <1>2 DEF FlagsAre
<1>4. TurnedIs(Last.op, ByteWas(Last, Was), ByteIs(Last), BitOf("C" \in Was.fl), BitOf("C" \in fl))'
  BY DEF BitOf
<1> QED
  BY <1>3, <1>4 DEF ShiftExact

(* Where ShiftExact says nothing. *)
LEMMA NoShift ==
  /\ mCurState' # 0 => ShiftExact'
  /\ Last'.op \notin Rotate => ShiftExact'
BY DEF ShiftExact, Done

(* Rotations and shifts of a register are exact. *)
LEMMA RegisterTurned ==
  ASSUME Typed, Midway, text # <<>>, Watch, OnRegister
  PROVE  ShiftExact'
<1>1. Last' = Cur
  BY Watched
<1>2. CASE Cur.op \notin Rotate
  BY <1>1, <1>2, NoShift
<1>3. CASE Cur.op \in Rotate
  <2> DEFINE p == Cur.p1
             v == In[p]
             r == Rotated(v)
             s == Was'
             cin == IF "C" \in fl THEN 1 ELSE 0
  <2>1. Unmoved(s) /\ fl \in SUBSET Flags
    BY <1>3, Watched DEF Delaying, Typed
  <2>2. p \in Bytes8 /\ p # "m" /\ p # "d8" /\ p \in Regs \ {"PC"}
    <3>1. p \in Bytes8
      BY <1>3, Found, InstrTyped DEF OnRegister, InMemory
    <3> QED
      BY <3>1 DEF Bytes8, Regs
  <2>3. v \in Byte /\ v = s.reg[p] /\ fl = s.fl
    BY <2>1, <2>2, Found, HLFound DEF Unmoved
  <2>4. SetsFlags([In EXCEPT ![p] = r.val], r.fl)
    BY <1>3 DEF OnRegister, Rotate
  <2>5. Cur.cb \in BOOLEAN /\ (~Cur.cb => Cur.op \in {"RLC", "RRC", "RL", "RR"})
    BY <1>3, Found, InstrTyped
  <2>6. cin = BitOf("C" \in fl)
    BY DEF BitOf
  <2>7. r.fl \in SUBSET Flags
    BY <2>1, <2>3, RotatedTyped
  <2>8. ByteWas(Last, Was)' = v
    BY <1>1, <2>2, <2>3 DEF ByteWas, PairWas
  <2>9. cin = IF "C" \in Was'.fl THEN 1 ELSE 0
    BY <2>3
  <2> HIDE DEF v, cin
  <2>10. /\ \E c \in 0 .. 1 : TurnedIs(Cur.op, v, r.val, cin, c) /\ ("C" \in r.fl <=> c = 1)
         /\ "Z" \in r.fl <=> Cur.cb /\ r.val = 0
         /\ "N" \notin r.fl /\ "H" \notin r.fl
    BY <1>3, <2>3, <2>5, <2>6, RotatedIs
  <2> HIDE DEF r
  <2>11. reg'[p] = r.val /\ fl' = r.fl
    BY <2>2, <2>4, Found DEF SetsFlags, Leave, RegFile
  <2>12. ByteIs(Last)' = reg'[p]
    <3>1. Last'.p1 = p /\ Last'.p1 # "m"
      BY <1>1, <2>2
    <3> HIDE DEF p
    <3> QED
      BY <3>1 DEF ByteIs
  <2>13. PICK c \in 0 .. 1 : TurnedIs(Cur.op, v, r.val, cin, c) /\ ("C" \in r.fl <=> c = 1)
    BY <2>10
  <2> DEFINE x == r.val
  <2>14. /\ TurnedIs(Last'.op, v, x, cin, c)
         /\ fl' \in SUBSET Flags
         /\ "C" \in fl' <=> c = 1
         /\ "Z" \in fl' <=> Last'.cb /\ x = 0
         /\ "N" \notin fl' /\ "H" \notin fl'
    BY <1>1, <2>7, <2>10, <2>11, <2>13
  <2>15. ByteIs(Last)' = x
    BY <2>11, <2>12
  <2> HIDE DEF x
  <2> QED
    BY <2>8, <2>9, <2>14, <2>15, ShiftShown
<1> QED
  BY <1>2, <1>3

(* Rotations and shifts of the byte at HL are exact. *)
LEMMA StoredByteTurned ==
  ASSUME Typed, Midway, text # <<>>, Watch, RotateByte
  PROVE  ShiftExact'
<1> DEFINE b == Read(HL)
           r == Rotated(mCache)
           s == Was'
           cin == IF "C" \in fl THEN 1 ELSE 0
<1>1. Last' = Cur /\ Cur.op \in Rotate /\ fl \in SUBSET Flags /\ Unmoved(s) /\ mCache = b
  BY Watched DEF RotateByte, Typed, Delaying, Midway
<1>2. /\ Cur.p1 = "m" /\ HL = PairWas(s, "HL") /\ fl = s.fl
      /\ b = ByteWas(Cur, s) /\ b \in Byte
  <2>1. Cur.p1 = "m"
    BY DEF RotateByte, InMemory
  <2> QED
    BY <1>1, <2>1, HLFound, MemoryTyped DEF ByteWas, Unmoved, Typed
<1>3. Leave(In, r.fl, Written(mem, HL, r.val))
  BY DEF RotateByte
<1>4. PairWas(Was, "HL")' = HL /\ ByteWas(Last, Was)' = b /\ Last'.p1 = "m"
  BY <1>1, <1>2 DEF ByteWas, PairWas
<1>5. CASE HL \notin Ram
  <2>1. ~Stored'
    BY <1>4, <1>5 DEF Stored
  <2> QED
    BY <2>1 DEF ShiftExact
<1>6. CASE HL \in Ram
  <2>1. ByteIs(Last)' = mem'[HL]
    BY <1>4, <1>6 DEF ByteIs, Read
  <2>2. mem \in [Ram -> Byte]
    BY DEF Typed, Memory
  <2>3. Cur.cb \in BOOLEAN /\ (~Cur.cb => Cur.op \in {"RLC", "RRC", "RL", "RR"})
    BY <1>1, Found, InstrTyped
  <2>4. cin = BitOf("C" \in fl)
    BY DEF BitOf
  <2>5. cin = IF "C" \in Was'.fl THEN 1 ELSE 0
    BY <1>2
  <2> HIDE DEF b, cin
  <2>6. r.fl \in SUBSET Flags
    BY <1>1, <1>2, RotatedTyped
  <2>7. /\ \E c \in 0 .. 1 : TurnedIs(Cur.op, b, r.val, cin, c) /\ ("C" \in r.fl <=> c = 1)
        /\ "Z" \in r.fl <=> Cur.cb /\ r.val = 0
        /\ "N" \notin r.fl /\ "H" \notin r.fl
    BY <1>1, <1>2, <2>3, <2>4, RotatedIs
  <2> HIDE DEF r
  <2>8. mem'[HL] = r.val /\ fl' = r.fl
    BY <1>3, <1>6, <2>2 DEF Leave, Written
  <2>9. PICK c \in 0 .. 1 : TurnedIs(Cur.op, b, r.val, cin, c) /\ ("C" \in r.fl <=> c = 1)
    BY <2>7
  <2> DEFINE x == r.val
  <2>10. /\ TurnedIs(Last'.op, b, x, cin, c)
         /\ fl' \in SUBSET Flags
         /\ "C" \in fl' <=> c = 1
         /\ "Z" \in fl' <=> Last'.cb /\ x = 0
         /\ "N" \notin fl' /\ "H" \notin fl'
    BY <1>1, <2>6, <2>7, <2>8, <2>9
  <2>11. ByteIs(Last)' = x
    BY <2>1, <2>8
  <2> HIDE DEF x
  <2> QED
    BY <1>4, <2>5, <2>10, <2>11, ShiftShown
<1> QED
  BY <1>5, <1>6

(* Which handlers have a rotation or shift. *)
LEMMA OnlyRotations ==
  ASSUME Handler
  PROVE  OnRegister \/ RotateByte \/ ReadByte \/ Cur.op \notin Rotate
<1>1. Single => Cur.op \notin Rotate
  <2>1. LD_r16_d16 \/ LD_r8_d8 \/ LD_r8_r8 \/ LD_SP_HL \/ LD_a16_SP \/ Nop_Stop => Cur.op \notin Rotate
    BY DEF LD_r16_d16, LD_r8_d8, LD_r8_r8, LD_SP_HL, LD_a16_SP, Nop_Stop, Rotate
  <2>2. Inc_Dec_r16 \/ Inc_Dec_r8 \/ ADD_HL_r16 \/ DAA_CPL_SCF_CCF => Cur.op \notin Rotate
    BY DEF Inc_Dec_r16, Inc_Dec_r8, ADD_HL_r16, DAA_CPL_SCF_CCF, Rotate
  <2>3. JR \/ JP_arHL \/ RST_n \/ PUSH_r16 \/ POP_r16 => Cur.op \notin Rotate
    BY DEF JR, JP_arHL, RST_n, PUSH_r16, POP_r16, Rotate
  <2> QED
    BY <2>1, <2>2, <2>3 DEF Single
<1>2. Transfer => Cur.op \notin Rotate
  BY DEF Transfer, Delayed, Rotate
<1>3. LD_HL_SP_p_r8 \/ Inc_Dec_arHL \/ AluOp => Cur.op \notin Rotate
  BY DEF LD_HL_SP_p_r8, Inc_Dec_arHL, AluOp, Accumulate, Rotate
<1>4. ChangeBit \/ BIT_arHL \/ JP \/ CALL \/ RET => Cur.op \notin Rotate
  BY DEF ChangeBit, BIT_arHL, JP, CALL, RET, Rotate
<1> QED
  BY <1>1, <1>2, <1>3, <1>4 DEF Handler

(* Every handler leaves its rotations and shifts exact. *)
LEMMA ShiftKept ==
  ASSUME Typed, Midway, text # <<>>, Watch, Handler
  PROVE  ShiftExact'
<1>1. Last' = Cur
  BY Watched
<1>2. CASE OnRegister \/ RotateByte
  BY <1>2, RegisterTurned, StoredByteTurned
<1>3. CASE ReadByte
  <2>1. mCurState' # 0
    BY <1>3 DEF ReadByte, Wait, Advance, Typed
  <2> QED
    BY <2>1, NoShift
<1>4. CASE ~(OnRegister \/ RotateByte \/ ReadByte)
  <2>1. Cur.op \notin Rotate
    BY <1>4, OnlyRotations
  <2> QED
    BY <1>1, <2>1, NoShift
<1> QED
  BY <1>2, <1>3, <1>4

-----------------------------------------------------------------------------
(* The theorems *)

(* The invariant holds of every start. *)
LEMMA StartsSafe == Init => IInv
<1> SUFFICES ASSUME Init PROVE IInv
  OBVIOUS
<1>1. Typed
  <2>1. PICK g \in DOMAIN Starts : \E s \in Starts[g] :
          /\ reg = s.state.reg /\ fl = s.state.fl /\ fLow = s.state.fLow /\ mem = s.state.mem
          /\ mCurState = 0 /\ mCache = 0
          /\ text = s.text
    BY DEF Init
  <2>2. PICK s \in Starts[g] :
          /\ reg = s.state.reg /\ fl = s.state.fl /\ fLow = s.state.fLow /\ mem = s.state.mem
          /\ mCurState = 0 /\ mCache = 0
          /\ text = s.text
    BY <2>1
  <2>3. s.state \in State /\ s.text \in Seq(Instr)
    BY StartsAssumption
  <2>4. /\ s.state.reg \in RegFile /\ s.state.fl \in SUBSET Flags
        /\ s.state.fLow \in 0 .. 15 /\ s.state.mem \in Memory
    BY <2>3 DEF State, Memory
  <2>5. 0 \in Word
    BY WordBounds
  <2> QED
    BY <2>2, <2>3, <2>4, <2>5 DEF Typed
<1>2. Midway
  BY DEF Init, Midway
<1>3. Last = Nop
  BY DEF Init, Last
<1>4. ArithmeticExact
  BY <1>3 DEF Nop, ArithmeticExact, AddsBytes, SubtractsBytes, Steps, AddsWords, Displaces
<1>5. ShiftExact
  <2>1. Last.op \notin Rotate
    BY <1>3 DEF Nop, Rotate
  <2> QED
    BY <2>1 DEF ShiftExact
<1> QED
  BY <1>1, <1>2, <1>4, <1>5 DEF IInv

(* Every step keeps the invariant. *)
LEMMA StepSafe == IInv /\ [Next]_vars => IInv'
<1> SUFFICES ASSUME IInv, [Next]_vars PROVE IInv'
  OBVIOUS
<1>1. CASE Next
  <2>1. text # <<>> /\ Handler /\ Watch
    BY <1>1 DEF Next
  <2> QED
    BY <2>1, HandlerGood, GoodIsTyped, MidwayKept, ExactKept, ShiftKept DEF IInv
<1>2. CASE UNCHANGED vars
  <2>1. Typed'
    BY <1>2 DEF IInv, Typed, vars, machine
  <2>2. Midway'
    BY <1>2 DEF IInv, Midway, vars, machine, Last, Was, Cur, Unmoved, Read, HL, In, Pair, FByte
  <2>3. ArithmeticExact'
    <3>1. /\ Last' = Last /\ Was' = Was /\ reg' = reg /\ fl' = fl /\ mem' = mem /\ mCurState' = mCurState
      BY <1>2 DEF vars, machine, Last, Was
    <3>2. /\ ByteIs(Last)' = ByteIs(Last) /\ Pair(reg, "HL")' = Pair(reg, "HL")
      BY <3>1 DEF ByteIs, Pair, Read, High, LowOf
    <3>3. (AddsBytes => AddsBytes') /\ (SubtractsBytes => SubtractsBytes')
      <4>1. AddsBytes => AddsBytes'
        BY <3>1, SMT DEF AddsBytes, FlagsAre, BitOf
      <4>2. SubtractsBytes => SubtractsBytes'
        BY <3>1, SMT DEF SubtractsBytes, FlagsAre, BitOf
      <4> QED
        BY <4>1, <4>2
    <3>4. Steps => Steps'
      <4>1. Stored' = Stored
        BY <3>1 DEF Stored, PairWas
      <4>2. ByteWas(Last, Was)' = ByteWas(Last, Was)
        BY <3>1
      <4> QED
        BY <3>1, <3>2, <4>1, <4>2, SMT DEF Steps, SteppedIs, FlagsAre
    <3>5. AddsWords => AddsWords'
      BY <3>1, <3>2, SMT DEF AddsWords, WordSumIs, FlagsAre, PairWas
    <3>6. Displaces => Displaces'
      BY <3>1, <3>2, SMT DEF Displaces, DisplacedIs, FlagsAre
    <3> QED
      BY <3>1, <3>3, <3>4, <3>5, <3>6 DEF IInv, ArithmeticExact, Done
  <2>4. ShiftExact'
    <3>1. /\ Last' = Last /\ Was' = Was /\ reg' = reg /\ fl' = fl /\ mem' = mem /\ mCurState' = mCurState
      BY <1>2 DEF vars, machine, Last, Was
    <3>2. ByteIs(Last)' = ByteIs(Last)
      BY <3>1 DEF ByteIs, Read
    <3>3. Stored' = Stored
      BY <3>1 DEF Stored, PairWas
    <3> QED
      BY <3>1, <3>2, <3>3 DEF IInv, ShiftExact, Done, FlagsAre, BitOf
  <2> QED
    BY <2>1, <2>2, <2>3, <2>4 DEF IInv
<1> QED
  BY <1>1, <1>2

(* Registers hold bytes and words, F its four flags, memory bytes, and no
   handler makes more than five calls. *)
THEOREM MachineTyped == Spec => []Typed
<1>1. IInv => Typed
  BY DEF IInv
<1> QED
  BY <1>1, StartsSafe, StepSafe, PTL DEF Spec

(* After every arithmetic instruction of every program the result and the flags
   are those of the numbers, in registers and in memory, however many microsteps
   it took and whatever its operands are. *)
THEOREM ArithmeticExactHolds == Spec => []ArithmeticExact
<1>1. IInv => ArithmeticExact
  BY DEF IInv
<1> QED
  BY <1>1, StartsSafe, StepSafe, PTL DEF Spec

(* After every rotation and shift of every program the result and C are the
   operand doubled or halved. *)
THEOREM ShiftExactHolds == Spec => []ShiftExact
<1>1. IInv => ShiftExact
  BY DEF IInv
<1> QED
  BY <1>1, StartsSafe, StepSafe, PTL DEF Spec

(* A handler keeps F's lower bits, clears them, or leaves those POP gives. *)
LEMMA LowBits == Handler => KeepLow \/ DropLow \/ fLow' = LowAfter
<1>1. Single => fLow' = LowAfter
  BY DEF Single
<1>2. Transfer \/ LD_HL_SP_p_r8 \/ Inc_Dec_arHL \/ JP \/ CALL \/ RET => KeepLow
  BY DEF Transfer, LD_HL_SP_p_r8, Inc_Dec_arHL, JP, CALL, RET
<1>3. AluOp => KeepLow \/ DropLow
  BY DEF AluOp
<1>4. OnRegister \/ ReadByte \/ RotateByte \/ ChangeBit \/ BIT_arHL => KeepLow \/ DropLow
  BY DEF OnRegister, ReadByte, RotateByte, ChangeBit, BIT_arHL
<1> QED
  BY <1>1, <1>2, <1>3, <1>4 DEF Handler

(* No handler sets the lower four bits of F once they are clear: POP AF masks
   what it takes from the stack. *)
THEOREM LowNibbleStaysHolds == Spec => LowNibbleStays
<1>1. [Next]_vars => [fLow = 0 => fLow' = 0]_vars
  BY LowBits DEF Next, KeepLow, DropLow, LowAfter
<1> QED
  BY <1>1, PTL DEF Spec, LowNibbleStays
-----------------------------------------------------------------------------
(* Decimal adjustment *)

(* DAA after the addition of the decimal digits ah al and vh vl. *)
LEMMA DecimalSum ==
  ASSUME NEW h \in 0 .. 18, NEW s \in 0 .. 19, NEW f,
         "N" \notin f,
         "H" \in f <=> s > 15,
         "C" \in f <=> 16 * h + s > 255,
         NEW a, a = (16 * h + s) % 256,
         NEW r, r = Adjusted(a, f),
         NEW q, q = 10 * h + s
  PROVE  /\ Low(r) \div 16 < 10 /\ Low(r) % 16 < 10
         /\ 10 * (Low(r) \div 16) + (Low(r) % 16) = q % 100
         /\ "C" \in f \/ Bit(r, 256) = 1 <=> q > 99
<1> DEFINE one == IF s > 9 THEN 1 ELSE 0
           ten == IF h + one > 9 THEN 1 ELSE 0
           over == IF 16 * h + s > 255 THEN 1 ELSE 0
           low == s - 10 * one
           high == h + one - 10 * ten
<1>1. /\ one \in 0 .. 1 /\ ten \in 0 .. 1 /\ over \in 0 .. 1
      /\ low \in 0 .. 9 /\ high \in 0 .. 9 /\ over <= ten
  OBVIOUS
<1>2. a = 16 * h + s - 256 * over /\ a \in 0 .. 255
  OBVIOUS
<1>3. q % 100 = 10 * high + low /\ (q > 99 <=> ten = 1)
  <2>1. q = 100 * ten + (10 * high + low) /\ 10 * high + low \in 0 .. 99
    BY <1>1
  <2> HIDE DEF one, ten, over, low, high
  <2> QED
    BY <1>1, <2>1
<1>4. "C" \in f \/ a > 153 <=> ten = 1
  BY <1>2
<1>5. "H" \in f \/ (a + 96 * ten) % 16 > 9 <=> one = 1
  <2>1. (a + 96 * ten) % 16 = s % 16
    <3>1. a + 96 * ten = 16 * (h - 16 * over + 6 * ten) + s
      BY <1>1, <1>2
    <3> HIDE DEF ten, over
    <3> QED
      BY <1>1, <3>1
  <2>2. s > 15 \/ s % 16 > 9 <=> s > 9
    OBVIOUS
  <2> QED
    BY <2>1, <2>2
<1>6. r = a + 96 * ten + 6 * one
  <2>1. r = LET x == IF "C" \in f \/ a > 153 THEN a + 96 ELSE a
            IN IF "H" \in f \/ x % 16 > 9 THEN x + 6 ELSE x
    BY DEF Adjusted
  <2>2. (IF "C" \in f \/ a > 153 THEN a + 96 ELSE a) = a + 96 * ten
    <3> HIDE DEF ten
    <3> QED
      BY <1>1, <1>2, <1>4
  <2>3. r = IF "H" \in f \/ (a + 96 * ten) % 16 > 9 THEN a + 96 * ten + 6 ELSE a + 96 * ten
    BY <2>1, <2>2
  <2> HIDE DEF one, ten
  <2> QED
    BY <1>1, <1>2, <1>5, <2>3
<1>7. r = 256 * (ten - over) + (16 * high + low)
  BY <1>1, <1>2, <1>6
<1>8. "C" \in f <=> over = 1
  OBVIOUS
<1> HIDE DEF one, ten, over, low, high
<1>9. /\ Low(r) = 16 * high + low
      /\ Bit(r, 256) = ten - over
  BY <1>1, <1>7 DEF Low, Bit
<1>10. (16 * high + low) \div 16 = high /\ (16 * high + low) % 16 = low
  BY <1>1
<1> QED
  BY <1>1, <1>3, <1>8, <1>9, <1>10

(* DAA after the subtraction of decimal digits: h and s are the differences of
   the high and of the low digits. *)
LEMMA DecimalDifference ==
  ASSUME NEW h \in -9 .. 9, NEW s \in -10 .. 9, NEW f,
         "N" \in f,
         "H" \in f <=> s < 0,
         "C" \in f <=> 16 * h + s < 0,
         NEW a, a = (256 + (16 * h + s)) % 256,
         NEW r, r = Adjusted(a, f),
         NEW q, q = 10 * h + s
  PROVE  /\ Low(r) \div 16 < 10 /\ Low(r) % 16 < 10
         /\ 10 * (Low(r) \div 16) + (Low(r) % 16) = (100 + q) % 100
         /\ "C" \in f \/ Bit(r, 256) = 1 <=> q < 0
<1> DEFINE one == IF s < 0 THEN 1 ELSE 0
           ten == IF h - one < 0 THEN 1 ELSE 0
           low == s + 10 * one
           high == h - one + 10 * ten
           under == IF a - 6 * one < 0 THEN 1 ELSE 0
<1>1. /\ one \in 0 .. 1 /\ ten \in 0 .. 1 /\ low \in 0 .. 9 /\ high \in 0 .. 9
  OBVIOUS
<1>2. (100 + q) % 100 = 10 * high + low /\ (q < 0 <=> ten = 1)
  <2>1. 100 + q = 100 * (1 - ten) + (10 * high + low) /\ 10 * high + low \in 0 .. 99
    BY <1>1
  <2> HIDE DEF one, ten, low, high
  <2> QED
    BY <1>1, <2>1
<1>3. "C" \in f <=> ten = 1
  OBVIOUS
<1>4. a = 16 * h + s + 256 * ten /\ a \in 0 .. 255
  OBVIOUS
<1>5. Low(a - 6) = IF a < 6 THEN a + 250 ELSE a - 6
  BY <1>4 DEF Low
<1>6. r = a - 6 * one - 96 * ten
  <2>1. one = 1 => a >= 6
    BY <1>1, <1>4
  <2>2. r = LET x == IF "H" \in f THEN Low(a - 6) ELSE a IN IF "C" \in f THEN x - 96 ELSE x
    BY DEF Adjusted
  <2>3. (IF "H" \in f THEN Low(a - 6) ELSE a) = a - 6 * one
    BY <1>4, <1>5, <2>1
  <2>4. r = IF ten = 1 THEN a - 6 * one - 96 ELSE a - 6 * one
    BY <1>3, <2>2, <2>3
  <2> HIDE DEF one, ten
  <2> QED
    BY <1>1, <1>4, <2>4
<1>7. r = 16 * high + low
  BY <1>1, <1>4, <1>6
<1> HIDE DEF one, ten, low, high
<1>8. Low(r) = r /\ Bit(r, 256) = 0 /\ r \div 16 = high /\ r % 16 = low
  BY <1>1, <1>7 DEF Low, Bit
<1> QED
  BY <1>1, <1>2, <1>3, <1>8

\* A number of two decimal digits, and whether a byte is one.
Decimal(b) == 10 * (b \div 16) + (b % 16)
Digits(b) == b \div 16 < 10 /\ b % 16 < 10

(* What DAA leaves: the number q of two decimal digits and its carry. *)
IsDecimal(d, q, carry) ==
  /\ Digits(d.val) /\ Decimal(d.val) = (100 + q) % 100
  /\ "C" \in d.fl <=> carry
  /\ "Z" \in d.fl <=> d.val = 0

(* The value and the flags of DAA. *)
LEMMA DaaIs ==
  ASSUME NEW a, NEW f
  PROVE  /\ Daa(a, f).val = Low(Adjusted(a, f))
         /\ "C" \in Daa(a, f).fl <=> "C" \in f \/ Bit(Adjusted(a, f), 256) = 1
         /\ "Z" \in Daa(a, f).fl <=> Low(Adjusted(a, f)) = 0
BY DEF Daa, Result, Put

(* A byte as its two digits. *)
LEMMA TwoDigits ==
  ASSUME NEW a \in Byte, Digits(a)
  PROVE  a \div 16 \in 0 .. 9 /\ a % 16 \in 0 .. 9 /\ a = 16 * (a \div 16) + (a % 16)
BY DEF Byte, Digits

(* DAA after a sum and after a difference of decimal numbers. *)
LEMMA DaaIsDecimal ==
  ASSUME NEW a \in Byte, NEW v \in Byte, NEW c \in 0 .. 1, Digits(a), Digits(v), NEW x, NEW f
  PROVE  /\ IsSum(x, f, a, v, c) =>
              IsDecimal(Daa(x, f), Decimal(a) + Decimal(v) + c, Decimal(a) + Decimal(v) + c > 99)
         /\ IsDifference(x, f, a, v, c) =>
              IsDecimal(Daa(x, f), Decimal(a) - (Decimal(v) + c), Decimal(a) - (Decimal(v) + c) < 0)
<1> DEFINE ah == a \div 16
           al == a % 16
           vh == v \div 16
           vl == v % 16
           r == Adjusted(x, f)
           plus == Decimal(a) + Decimal(v) + c
           minus == Decimal(a) - (Decimal(v) + c)
<1>1. /\ ah \in 0 .. 9 /\ al \in 0 .. 9 /\ a = 16 * ah + al
      /\ vh \in 0 .. 9 /\ vl \in 0 .. 9 /\ v = 16 * vh + vl
  BY TwoDigits
<1>2. /\ Daa(x, f).val = Low(r)
      /\ "C" \in Daa(x, f).fl <=> "C" \in f \/ Bit(r, 256) = 1
      /\ "Z" \in Daa(x, f).fl <=> Low(r) = 0
  BY DaaIs
<1>3. /\ plus = 10 * (ah + vh) + (al + vl + c)
      /\ minus = 10 * (ah - vh) + (al - (vl + c))
  <2> HIDE DEF ah, al, vh, vl
  <2>1. Decimal(a) = 10 * ah + al /\ Decimal(v) = 10 * vh + vl
    BY DEF Decimal, ah, al, vh, vl
  <2> QED
    BY <1>1, <2>1
<1>4. ASSUME IsSum(x, f, a, v, c)
      PROVE  IsDecimal(Daa(x, f), plus, plus > 99)
  <2> DEFINE h == ah + vh
             s == al + vl + c
  <2>1. h \in 0 .. 18 /\ s \in 0 .. 19 /\ a + v + c = 16 * h + s
    <3> HIDE DEF ah, al, vh, vl
    <3> QED
      BY <1>1
  <2>2. x = (16 * h + s) % 256 /\ "N" \notin f /\ ("H" \in f <=> s > 15) /\ ("C" \in f <=> 16 * h + s > 255)
    BY <1>4, <2>1 DEF IsSum
  <2>3. plus = 10 * h + s
    BY <1>3
  <2> HIDE DEF h, s, r, plus
  <2>4. /\ Low(r) \div 16 < 10 /\ Low(r) % 16 < 10
        /\ 10 * (Low(r) \div 16) + (Low(r) % 16) = plus % 100
        /\ "C" \in f \/ Bit(r, 256) = 1 <=> plus > 99
    BY <2>1, <2>2, <2>3, DecimalSum, SMTT(30) DEF r
  <2>5. plus % 100 = (100 + plus) % 100
    BY <2>1, <2>3
  <2> QED
    BY <1>2, <2>4, <2>5 DEF IsDecimal, Digits, Decimal
<1>5. ASSUME IsDifference(x, f, a, v, c)
      PROVE  IsDecimal(Daa(x, f), minus, minus < 0)
  <2> DEFINE h == ah - vh
             s == al - (vl + c)
  <2>1. h \in -9 .. 9 /\ s \in -10 .. 9 /\ 256 + a - (v + c) = 256 + (16 * h + s)
    <3> HIDE DEF ah, al, vh, vl
    <3> QED
      BY <1>1
  <2>2. al < vl + c <=> s < 0
    BY <1>1
  <2>3. a < v + c <=> 16 * h + s < 0
    <3> HIDE DEF h, s, ah, al, vh, vl
    <3> QED
      BY <1>1, <2>1
  <2>4. x = (256 + (16 * h + s)) % 256 /\ "N" \in f /\ ("H" \in f <=> s < 0) /\ ("C" \in f <=> 16 * h + s < 0)
    BY <1>5, <2>1, <2>2, <2>3 DEF IsDifference
  <2>5. minus = 10 * h + s
    BY <1>3
  <2> HIDE DEF h, s, r, minus
  <2>6. /\ Low(r) \div 16 < 10 /\ Low(r) % 16 < 10
        /\ 10 * (Low(r) \div 16) + (Low(r) % 16) = (100 + minus) % 100
        /\ "C" \in f \/ Bit(r, 256) = 1 <=> minus < 0
    BY <2>1, <2>4, <2>5, DecimalDifference, SMTT(30) DEF r
  <2> QED
    BY <1>2, <2>6 DEF IsDecimal, Digits, Decimal
<1> QED
  BY <1>4, <1>5

(* The history holds typed states and well-formed instructions. *)
Remembered == Was.reg \in RegFile /\ Was.mem \in Memory /\ Last \in Instr

(* A handler keeps the history typed. *)
LEMMA RememberedKept ==
  ASSUME Typed, Remembered, text # <<>>, Watch
  PROVE  Remembered'
<1>1. Cur \in Instr
  BY Found
<1>2. CASE mCurState = 0
  BY <1>1, <1>2 DEF Watch, Remembered, Was, Last, Typed
<1>3. CASE mCurState # 0
  BY <1>3 DEF Watch, Remembered, Was, Last
<1> QED
  BY <1>2, <1>3

(* The byte an instruction found is a byte. *)
LEMMA ByteWasTyped ==
  ASSUME Remembered, Last.op \in Accumulate
  PROVE  ByteWas(Last, Was) \in Byte /\ Was.reg["A"] \in Byte
<1>1. Last.p1 \in Bytes8 \cup {"d8", "m"} /\ Last.lo \in Byte
  BY InstrTyped DEF Remembered
<1>2. \A n \in Bytes8 : Was.reg[n] \in Byte
  BY RegTyped DEF Remembered
<1>3. \A a : (IF a \in Ram THEN Was.mem[a] ELSE 0) \in Byte
  BY DEF Remembered, Memory, Byte
<1> QED
  BY <1>1, <1>2, <1>3 DEF ByteWas, Bytes8

(* What an addition or a subtraction before left in A and F. *)
LEMMA JustDone ==
  ASSUME Remembered, ArithmeticExact, mCurState = 0, fl \in SUBSET Flags,
         NEW a, a = Was.reg["A"], NEW v, v = ByteWas(Last, Was),
         NEW c, c = BitOf(Last.op \in {"ADC", "SBC"} /\ "C" \in Was.fl)
  PROVE  /\ Last.op \in {"ADD", "ADC"} => IsSum(reg["A"], fl, a, v, c)
         /\ Last.op \in {"SUB", "SBC"} => IsDifference(reg["A"], fl, a, v, c)
<1>1. AddsBytes /\ SubtractsBytes
  BY DEF ArithmeticExact, Done
<1>2. ASSUME Last.op \in {"ADD", "ADC"}
      PROVE  IsSum(reg["A"], fl, a, v, c)
  <2>1. c = BitOf(Last.op = "ADC" /\ "C" \in Was.fl)
    BY <1>2 DEF BitOf
  <2>2. /\ reg["A"] = (a + v + c) % 256
        /\ FlagsAre(reg["A"] = 0, FALSE, (a % 16) + (v % 16) + c > 15, a + v + c > 255)
    BY <1>1, <1>2, <2>1, ZenonT(60) DEF AddsBytes
  <2> QED
    BY <2>2 DEF IsSum, FlagsAre, Flags
<1>3. ASSUME Last.op \in {"SUB", "SBC"}
      PROVE  IsDifference(reg["A"], fl, a, v, c)
  <2>1. c = BitOf(Last.op = "SBC" /\ "C" \in Was.fl)
    BY <1>3 DEF BitOf
  <2> DEFINE d == (256 + a - (v + c)) % 256
  <2>2. /\ reg["A"] = d
        /\ FlagsAre(d = 0, TRUE, a % 16 < (v % 16) + c, a < v + c)
    BY <1>1, <1>3, <2>1, ZenonT(60) DEF SubtractsBytes
  <2> QED
    BY <2>2 DEF IsDifference, FlagsAre, Flags
<1> QED
  BY <1>2, <1>3

(* DAA leaves the decimal sum or difference. *)
LEMMA BcdKept ==
  ASSUME Typed, Midway, Remembered, ArithmeticExact, text # <<>>, Watch, Handler
  PROVE  BcdExact'
<1> DEFINE i == Last
           s == Was
           a == s.reg["A"]
           v == ByteWas(i, s)
           c == BitOf(i.op \in {"ADC", "SBC"} /\ "C" \in s.fl)
           total == IF i.op \in {"ADD", "ADC"} THEN Decimal(a) + Decimal(v) + c
                                              ELSE Decimal(a) - (Decimal(v) + c)
<1>1. Last' = Cur
  BY Watched
<1>2. CASE Cur.op # "DAA"
  BY <1>1, <1>2 DEF BcdExact
<1>3. CASE Cur.op = "DAA"
  <2>1. Single /\ DAA_CPL_SCF_CCF
    <3>1. Cur.op \notin Delayed /\ Cur.op \notin Accumulate /\ Cur.op \notin Rotate /\ Cur.op \notin {"RES", "SET", "BIT"}
      BY <1>3 DEF Delayed, Accumulate, Rotate
    <3>2. Single
      BY <1>3, <3>1 DEF Handler, Transfer, LD_HL_SP_p_r8, Inc_Dec_arHL, AluOp, OnRegister, ReadByte,
                        RotateByte, ChangeBit, BIT_arHL, JP, CALL, RET
    <3>3. DAA_CPL_SCF_CCF
      BY <1>3, <3>2 DEF Single, LD_r16_d16, LD_r8_d8, LD_r8_r8, LD_SP_HL, LD_a16_SP, Nop_Stop,
                        Inc_Dec_r16, Inc_Dec_r8, ADD_HL_r16, JR, JP_arHL, RST_n, PUSH_r16, POP_r16
    <3> QED
      BY <3>2, <3>3
  <2>2. mCurState = 0 /\ fl \in SUBSET Flags /\ reg["A"] = In["A"]
    BY <2>1, Found DEF Single, Typed, Regs, Bytes8
  <2>3. /\ reg'["A"] = Daa(reg["A"], fl).val
        /\ fl' = Daa(reg["A"], fl).fl
    BY <1>3, <2>1, <2>2, Found DEF DAA_CPL_SCF_CCF, SetsFlags, Leave, RegFile, Regs, Bytes8
  <2>4. seen'[2].instr = i /\ seen'[2].state = s
    BY <2>2 DEF Watch, Last, Was
  <2> SUFFICES ASSUME i.op \in {"ADD", "ADC", "SUB", "SBC"}, Digits(a), Digits(v)
               PROVE  IsDecimal(Daa(reg["A"], fl), total, total < 0 \/ total > 99)
    <3> HIDE DEF total, i, s
    <3>1. BcdExact' =
           (Done' /\ Last'.op = "DAA" /\ i.op \in {"ADD", "ADC", "SUB", "SBC"} /\ Digits(a) /\ Digits(v) =>
              /\ Digits(reg'["A"]) /\ Decimal(reg'["A"]) = (100 + total) % 100
              /\ ("C" \in fl') <=> (total < 0 \/ total > 99)
              /\ ("Z" \in fl') <=> (reg'["A"] = 0))
      BY <2>4 DEF BcdExact, Digits, Decimal, ByteWas, total
    <3> QED
      BY <2>3, <3>1 DEF IsDecimal
  <2>5. a \in Byte /\ v \in Byte /\ c \in 0 .. 1
    BY ByteWasTyped DEF Accumulate, BitOf
  <2>6. /\ i.op \in {"ADD", "ADC"} => IsSum(reg["A"], fl, a, v, c)
        /\ i.op \in {"SUB", "SBC"} => IsDifference(reg["A"], fl, a, v, c)
    BY <2>2, JustDone
  <2> DEFINE da == Decimal(a)
             dv == Decimal(v)
  <2>7. da \in 0 .. 99 /\ dv \in 0 .. 99
    <3>1. \A b \in Byte : Digits(b) => Decimal(b) \in 0 .. 99
      BY DEF Byte, Digits, Decimal
    <3> QED
      BY <2>5, <3>1
  <2> HIDE DEF a, v, c
  <2>8. CASE i.op \in {"ADD", "ADC"}
    <3>1. IsDecimal(Daa(reg["A"], fl), da + dv + c, da + dv + c > 99)
      BY <2>5, <2>6, <2>8, DaaIsDecimal
    <3>2. total = da + dv + c
      BY <2>8
    <3> HIDE DEF da, dv, i, total
    <3>3. total > 99 <=> total < 0 \/ total > 99
      BY <2>5, <2>7, <3>2
    <3> QED
      BY <3>1, <3>2, <3>3 DEF IsDecimal
  <2>9. CASE i.op \in {"SUB", "SBC"}
    <3>1. IsDecimal(Daa(reg["A"], fl), da - (dv + c), da - (dv + c) < 0)
      BY <2>5, <2>6, <2>9, DaaIsDecimal
    <3>2. total = da - (dv + c)
      BY <2>9
    <3> HIDE DEF da, dv, i, total
    <3>3. total < 0 <=> total < 0 \/ total > 99
      BY <2>5, <2>7, <3>2
    <3> QED
      BY <3>1, <3>2, <3>3 DEF IsDecimal
  <2> QED
    BY <2>8, <2>9
<1> QED
  BY <1>2, <1>3

(* DAA after an addition or a subtraction of decimal digits leaves the decimal
   result and its carry, for every program, every pair of numbers and every
   operand, in a register, behind the opcode or in memory. *)
THEOREM BcdExactHolds == Spec => []BcdExact
<1> DEFINE Inv == IInv /\ Remembered /\ BcdExact
<1>1. Init => Inv
  <2> SUFFICES ASSUME Init PROVE Remembered /\ BcdExact
    BY StartsSafe
  <2>1. PICK g \in DOMAIN Starts : \E s \in Starts[g] :
          seen = LET none == [instr |-> Nop, state |-> s.state] IN <<none, none>>
    BY DEF Init
  <2>2. PICK s \in Starts[g] :
          seen = LET none == [instr |-> Nop, state |-> s.state] IN <<none, none>>
    BY <2>1
  <2>3. s.state \in State /\ Last = Nop /\ Was = s.state
    BY <2>2, StartsAssumption DEF Last, Was
  <2>4. Nop \in Instr
    BY DEF Nop, Instr, Ops, OneStep, Byte, Accumulate, Rotate, BitOps
  <2> QED
    BY <2>3, <2>4 DEF Remembered, State, Memory, BcdExact, Nop
<1>2. Inv /\ [Next]_vars => Inv'
  <2> SUFFICES ASSUME Inv, [Next]_vars PROVE Remembered' /\ BcdExact'
    BY StepSafe
  <2>1. CASE Next
    <3>1. text # <<>> /\ Handler /\ Watch
      BY <2>1 DEF Next
    <3> QED
      BY <3>1, RememberedKept, BcdKept DEF IInv
  <2>2. CASE UNCHANGED vars
    <3>1. /\ seen' = seen /\ reg' = reg /\ fl' = fl /\ mem' = mem /\ mCurState' = mCurState
      BY <2>2 DEF vars, machine
    <3> QED
      BY <3>1 DEF Remembered, BcdExact, Last, Was, Done
  <2> QED
    BY <2>1, <2>2
<1>3. Inv => BcdExact
  OBVIOUS
<1> QED
  BY <1>1, <1>2, <1>3, PTL DEF Spec
-----------------------------------------------------------------------------
(* Microsteps *)

(* A conditional instruction that has gone past its decision was taken. *)
Committed ==
  mCurState # 0 =>
    /\ Cur.op \in {"JPcc", "RETcc"} => Taken
    /\ Cur.op = "CALLcc" /\ mCurState > 2 => Taken

(* What a call of a handler of these microsteps may do. *)
Follows(steps) ==
  LET k == mCurState + 1
  IN \/ k < Len(steps) /\ Advance /\ (mem' = mem \/ steps[k].bus = "write")
     \/ k = Len(steps) /\ Reset /\ (mem' = mem \/ steps[k].bus = "write")

(* How often the handlers are called, by family, and when they write. *)
LEMMA OneStepPrograms ==
  \A op \in DOMAIN OneStep :
    /\ Len(Program[OneStep[op]]) = 1
    /\ op \in {"LDa16SP", "RST", "PUSH"} => Program[OneStep[op]][1].bus = "write"
BY DEF OneStep, Program, Idle, Rd, Wr

(* The same of the handlers that let the first call pass. *)
LEMMA TwoStepPrograms ==
  \A op \in Delayed :
    /\ op \in DOMAIN Stepped
    /\ Len(Program[Stepped[op]]) = 2
    /\ op \in {"STr16", "STmr", "STmd8", "STH", "STC", "STa16"} => Program[Stepped[op]][2].bus = "write"
BY DEF Delayed, Stepped, Program, Load, Store, HighLoad, HighStore, FarLoad, FarStore, AddSP, Idle, Rd, Wr

(* The same of the families left. *)
LEMMA OtherPrograms ==
  /\ Len(Program["ALU"]) = 1 /\ Len(Program["IMM"]) = 1 /\ Len(Program["LDr"]) = 2
  /\ Len(Program["BITm"]) = 2
  /\ Len(Program["CBm"]) = 3 /\ Program["CBm"][3].bus = "write"
  /\ Len(Program["INCm"]) = 3 /\ Program["INCm"][3].bus = "write"
  /\ Len(Program["LDHLSP"]) = 3
  /\ Len(Program["JR"]) = 1 /\ Len(Program["JRnot"]) = 1
  /\ Len(Program["JP"]) = 4 /\ Len(Program["JPnot"]) = 1
  /\ Len(Program["CALL"]) = 5 /\ Len(Program["CALLnot"]) = 3
  /\ Program["CALL"][4].bus = "write" /\ Program["CALL"][5].bus = "write"
  /\ Len(Program["RET"]) = 4 /\ Len(Program["RETcc"]) = 4 /\ Len(Program["RETnot"]) = 1
BY DEF Program, Load, Modify, ExtModify, ExtTest, LoadHLSP, Jump, CallTaken, CallFailed, Ret, RetTaken,
       Idle, Rd, Wr

(* The families by operation. *)
LEMMA FamilyOf ==
  /\ Cur.op \in DOMAIN OneStep => Family = OneStep[Cur.op]
  /\ Cur.op \in Delayed \cup {"LDHLSP", "INCm", "DECm", "RET", "JP", "CALL"} => Family = Stepped[Cur.op]
  /\ Cur.op \in DOMAIN IfTaken => Family = IF Taken THEN IfTaken[Cur.op] ELSE IfNot[Cur.op]
  /\ Cur.op \in Accumulate => Family = IF InMemory THEN "LDr" ELSE IF Cur.p1 = "d8" THEN "IMM" ELSE "ALU"
  /\ Cur.op = "BIT" => Family = IF InMemory THEN "BITm" ELSE "IMM"
  /\ Cur.op \in Rotate \cup {"RES", "SET"} =>
       Family = IF InMemory THEN "CBm" ELSE IF Cur.cb THEN "IMM" ELSE "ALU"
BY DEF Family, OneStep, Stepped, IfTaken, Accumulate, Rotate, BitOps, Delayed

(* The handlers done in one call follow their family. *)
LEMMA SingleFollows == Single => Follows(Program[Family])
<1> SUFFICES ASSUME Single PROVE Follows(Program[Family])
  OBVIOUS
<1>1. mCurState = 0 /\ Reset
  BY DEF Single
<1>2. CASE Cur.op \in DOMAIN OneStep
  <2>1. mem' = mem \/ Cur.op \in {"LDa16SP", "RST", "PUSH"}
    <3>1. LD_r16_d16 \/ LD_r8_d8 \/ LD_r8_r8 \/ LD_SP_HL \/ LD_a16_SP \/ Nop_Stop =>
            mem' = mem \/ Cur.op = "LDa16SP"
      BY DEF LD_r16_d16, LD_r8_d8, LD_r8_r8, LD_SP_HL, LD_a16_SP, Nop_Stop, Sets, Leave
    <3>2. Inc_Dec_r16 \/ Inc_Dec_r8 \/ ADD_HL_r16 \/ DAA_CPL_SCF_CCF => mem' = mem
      BY DEF Inc_Dec_r16, Inc_Dec_r8, ADD_HL_r16, DAA_CPL_SCF_CCF, Sets, SetsFlags, Leave
    <3>3. JR \/ JP_arHL \/ RST_n \/ PUSH_r16 \/ POP_r16 => mem' = mem \/ Cur.op \in {"RST", "PUSH"}
      BY DEF JR, JP_arHL, RST_n, PUSH_r16, POP_r16, Sets, SetsFlags, Leave
    <3> QED
      BY <3>1, <3>2, <3>3 DEF Single
  <2> QED
    BY <1>1, <1>2, <2>1, FamilyOf, OneStepPrograms DEF Follows
<1>3. CASE Cur.op = "JRcc"
  <2>1. mem' = mem
    BY <1>3 DEF Single, LD_r16_d16, LD_r8_d8, LD_r8_r8, LD_SP_HL, LD_a16_SP, Nop_Stop, Inc_Dec_r16,
                Inc_Dec_r8, ADD_HL_r16, DAA_CPL_SCF_CCF, JR, JP_arHL, RST_n, PUSH_r16, POP_r16, Sets, Leave
  <2>2. Family = IF Taken THEN "JR" ELSE "JRnot"
    BY <1>3, FamilyOf DEF IfTaken, IfNot
  <2> QED
    BY <1>1, <2>1, <2>2, OtherPrograms DEF Follows
<1>4. Cur.op \in DOMAIN OneStep \/ Cur.op = "JRcc"
  BY DEF Single, OneStep, LD_r16_d16, LD_r8_d8, LD_r8_r8, LD_SP_HL, LD_a16_SP, Nop_Stop, Inc_Dec_r16,
         Inc_Dec_r8, ADD_HL_r16, DAA_CPL_SCF_CCF, JR, JP_arHL, RST_n, PUSH_r16, POP_r16
<1> QED
  BY <1>2, <1>3, <1>4

(* A call that only lets cycles pass. *)
LEMMA WaitFollows ==
  ASSUME Wait, NEW steps, Len(steps) \in Nat, Len(steps) > 1
  PROVE  Follows(steps)
BY DEF Wait, Sets, Leave, Follows

(* The handlers of two calls follow their family. *)
LEMMA TransferFollows == Transfer => Follows(Program[Family])
<1> SUFFICES ASSUME Transfer PROVE Follows(Program[Family])
  OBVIOUS
<1> DEFINE steps == Program[Family]
<1>1. /\ Len(steps) = 2
      /\ Cur.op \in {"STr16", "STmr", "STmd8", "STH", "STC", "STa16"} => steps[2].bus = "write"
  BY FamilyOf, TwoStepPrograms DEF Transfer
<1> HIDE DEF steps
<1>2. CASE Wait
  BY <1>1, <1>2, WaitFollows DEF steps
<1>3. CASE ~Wait
  <2>1. mCurState = 1 /\ Reset
    BY <1>3 DEF Transfer
  <2>2. mem' = mem \/ Cur.op \in {"STr16", "STmr", "STmd8", "STH", "STC", "STa16"}
    BY <1>3 DEF Transfer, LD_ar16_A, LD_A_ar16, LD_arHL_d8, LD_r8_and_arHL, LDH_and_LD_arC,
                LD_a16_and_A, ADD_SP_r8, Sets, SetsFlags, Leave
  <2>3. Follows(steps)
    BY <1>1, <2>1, <2>2 DEF Follows
  <2> QED
    BY <2>3 DEF steps
<1> QED
  BY <1>2, <1>3

(* So do those of three calls. *)
LEMMA MultiFollows == LD_HL_SP_p_r8 \/ Inc_Dec_arHL => Follows(Program[Family])
<1>1. ASSUME LD_HL_SP_p_r8
      PROVE  Follows(Program[Family])
  <2>1. Cur.op = "LDHLSP"
    BY <1>1 DEF LD_HL_SP_p_r8
  <2>2. Family = "LDHLSP" /\ Len(Program["LDHLSP"]) = 3
    BY <2>1, FamilyOf, OtherPrograms DEF Stepped
  <2> QED
    BY <1>1, <2>2 DEF LD_HL_SP_p_r8, Wait, Sets, SetsFlags, Leave, Follows
<1>2. ASSUME Inc_Dec_arHL
      PROVE  Follows(Program[Family])
  <2>1. Cur.op \in {"INCm", "DECm"}
    BY <1>2 DEF Inc_Dec_arHL
  <2>2. Family = "INCm" /\ Len(Program["INCm"]) = 3 /\ Program["INCm"][3].bus = "write"
    BY <2>1, FamilyOf, OtherPrograms DEF Stepped
  <2>3. \/ mCurState \in {0, 1} /\ Advance /\ mem' = mem
        \/ mCurState = 2 /\ Reset
    BY <1>2 DEF Inc_Dec_arHL, Wait, Sets, Leave
  <2> QED
    BY <2>2, <2>3 DEF Follows
<1> QED
  BY <1>1, <1>2

(* So does the arithmetic of A, in a register and in memory. *)
LEMMA AluFollows == AluOp => Follows(Program[Family])
<1> SUFFICES ASSUME AluOp PROVE Follows(Program[Family])
  OBVIOUS
<1>1. Len(Program[Family]) = IF InMemory THEN 2 ELSE 1
  BY FamilyOf, OtherPrograms DEF AluOp
<1>2. \/ InMemory /\ mCurState = 0 /\ Advance /\ mem' = mem
      \/ mCurState = (IF InMemory THEN 1 ELSE 0) /\ Reset /\ mem' = mem
  BY DEF AluOp, Wait, Sets, SetsFlags, Leave
<1> QED
  BY <1>1, <1>2 DEF Follows

(* So do the rotations and the bit operations. *)
LEMMA BitsFollow ==
  OnRegister \/ ReadByte \/ RotateByte \/ ChangeBit \/ BIT_arHL => Follows(Program[Family])
<1>1. ASSUME OnRegister
      PROVE  Follows(Program[Family])
  <2>1. Len(Program[Family]) = 1
    BY <1>1, FamilyOf, OtherPrograms DEF OnRegister
  <2>2. mCurState = 0 /\ Reset /\ mem' = mem
    BY <1>1 DEF OnRegister, Sets, SetsFlags, Leave
  <2> QED
    BY <2>1, <2>2 DEF Follows
<1>2. ASSUME ReadByte \/ RotateByte \/ ChangeBit
      PROVE  Follows(Program[Family])
  <2>1. Cur.op \in Rotate \cup {"RES", "SET"} /\ InMemory
    BY <1>2 DEF ReadByte, RotateByte, ChangeBit
  <2>2. Len(Program[Family]) = 3 /\ Program[Family][3].bus = "write"
    BY <2>1, FamilyOf, OtherPrograms
  <2>3. \/ mCurState \in {0, 1} /\ Advance /\ mem' = mem
        \/ mCurState = 2 /\ Reset
    BY <1>2 DEF ReadByte, RotateByte, ChangeBit, Wait, Sets, Leave
  <2> QED
    BY <2>2, <2>3 DEF Follows
<1>3. ASSUME BIT_arHL
      PROVE  Follows(Program[Family])
  <2>1. Len(Program[Family]) = 2
    BY <1>3, FamilyOf, OtherPrograms DEF BIT_arHL
  <2>2. \/ mCurState = 0 /\ Advance /\ mem' = mem
        \/ mCurState = 1 /\ Reset /\ mem' = mem
    BY <1>3 DEF BIT_arHL, Wait, Sets, SetsFlags, Leave
  <2> QED
    BY <2>1, <2>2 DEF Follows
<1> QED
  BY <1>1, <1>2, <1>3

(* The families of the jumps, by operation and decision. *)
LEMMA JumpFamilies ==
  /\ Cur.op = "JP" => Family = "JP"
  /\ Cur.op = "CALL" => Family = "CALL"
  /\ Cur.op = "RET" => Family = "RET"
  /\ Cur.op = "JPcc" => Family = IF Taken THEN "JP" ELSE "JPnot"
  /\ Cur.op = "CALLcc" => Family = IF Taken THEN "CALL" ELSE "CALLnot"
  /\ Cur.op = "RETcc" => Family = IF Taken THEN "RETcc" ELSE "RETnot"
<1>1. /\ Cur.op = "JP" => Family = "JP"
      /\ Cur.op = "CALL" => Family = "CALL"
      /\ Cur.op = "RET" => Family = "RET"
  BY FamilyOf DEF Stepped
<1>2. Cur.op \in {"JPcc", "CALLcc", "RETcc"} => Family = IF Taken THEN IfTaken[Cur.op] ELSE IfNot[Cur.op]
  BY FamilyOf DEF IfTaken
<1>3. /\ IfTaken["JPcc"] = "JP" /\ IfTaken["CALLcc"] = "CALL" /\ IfTaken["RETcc"] = "RETcc"
      /\ IfNot["JPcc"] = "JPnot" /\ IfNot["CALLcc"] = "CALLnot" /\ IfNot["RETcc"] = "RETnot"
  BY DEF IfTaken, IfNot
<1> QED
  BY <1>1, <1>2, <1>3

(* A jump that was decided makes the calls of its family. *)
LEMMA JumpsFollow == ASSUME Committed, JP \/ CALL \/ RET PROVE Follows(Program[Family])
<1>1. ASSUME JP
      PROVE  Follows(Program[Family])
  <2>1. Len(Program[Family]) = IF Cur.op = "JPcc" /\ ~Taken THEN 1 ELSE 4
    BY <1>1, JumpFamilies, OtherPrograms DEF JP
  <2>2. \/ Cur.op = "JPcc" /\ ~Taken /\ mCurState = 0 /\ Reset /\ mem' = mem
        \/ ~(Cur.op = "JPcc" /\ ~Taken) /\ mCurState \in {0, 1, 2} /\ Advance /\ mem' = mem
        \/ ~(Cur.op = "JPcc" /\ ~Taken) /\ mCurState = 3 /\ Reset /\ mem' = mem
    BY <1>1 DEF JP, Committed, Wait, Address, Sets, Leave
  <2> QED
    BY <2>1, <2>2 DEF Follows
<1>2. ASSUME CALL
      PROVE  Follows(Program[Family])
  <2>1. /\ Len(Program[Family]) = IF CallNotTaken THEN 3 ELSE 5
        /\ ~CallNotTaken => Program[Family][4].bus = "write" /\ Program[Family][5].bus = "write"
    BY <1>2, JumpFamilies, OtherPrograms DEF CALL, CallNotTaken
  <2>2. \/ mCurState \in {0, 1} /\ Advance /\ mem' = mem
        \/ mCurState = 2 /\ mem' = mem /\ IF CallNotTaken THEN Reset ELSE Advance
        \/ mCurState = 3 /\ Advance
        \/ mCurState = 4 /\ Reset
    BY <1>2 DEF CALL, Wait, Address, Sets, Leave
  <2>3. mCurState \in {3, 4} => ~CallNotTaken
    BY DEF Committed, CallNotTaken
  <2> QED
    BY <2>1, <2>2, <2>3 DEF Follows
<1>3. ASSUME RET
      PROVE  Follows(Program[Family])
  <2>1. Len(Program[Family]) = IF Cur.op = "RETcc" /\ ~Taken THEN 1 ELSE 4
    BY <1>3, JumpFamilies, OtherPrograms, ZenonT(60) DEF RET
  <2>2. \/ Cur.op = "RETcc" /\ ~Taken /\ mCurState = 0 /\ Reset /\ mem' = mem
        \/ ~(Cur.op = "RETcc" /\ ~Taken) /\ mCurState \in {0, 1, 2} /\ Advance /\ mem' = mem
        \/ ~(Cur.op = "RETcc" /\ ~Taken) /\ mCurState = 3 /\ Reset /\ mem' = mem
    BY <1>3 DEF RET, Committed, Wait, Sets, Leave
  <2> QED
    BY <2>1, <2>2 DEF Follows
<1> QED
  BY <1>1, <1>2, <1>3

(* So every handler does. *)
LEMMA HandlerFollows == ASSUME Committed, Handler PROVE Follows(Program[Family])
BY SingleFollows, TransferFollows, MultiFollows, AluFollows, BitsFollow, JumpsFollow DEF Handler

(* The end of a handler is seen in the text. *)
LEMMA TextShorter ==
  ASSUME Typed, text # <<>>
  PROVE  Tail(text) # text /\ Len(Tail(text)) = Len(text) - 1
<1>1. text \in Seq(Instr) /\ Len(text) > 0
  BY DEF Typed
<1>2. Len(text) \in Nat
  BY <1>1
<1>3. Len(Tail(text)) = Len(text) - 1
  BY <1>1
<1>4. Len(text) - 1 # Len(text)
  BY <1>2
<1> QED
  BY <1>3, <1>4, Zenon

(* The flags of an instruction that is under way stay, and so does its decision. *)
LEMMA CommittedKept ==
  ASSUME Typed, Committed, text # <<>>, Handler
  PROVE  Committed'
<1> SUFFICES ASSUME mCurState' # 0
             PROVE  /\ Cur'.op \in {"JPcc", "RETcc"} => Taken'
                    /\ Cur'.op = "CALLcc" /\ mCurState' > 2 => Taken'
  BY DEF Committed
<1>1. Advance /\ Cur' = Cur
  BY HandlerGood DEF Good, GoodStep, Advance, Reset, Cur
<1>2. CASE Cur.op \in {"JPcc", "RETcc", "CALLcc"}
  <2>1. JP \/ CALL \/ RET
    <3>1. Cur.op \notin Delayed /\ Cur.op \notin Accumulate /\ Cur.op \notin Rotate /\ Cur.op \notin {"RES", "SET", "BIT"}
      BY <1>2 DEF Delayed, Accumulate, Rotate
    <3>2. ~Single
      BY <1>1 DEF Single, Advance, Reset, Typed
    <3> QED
      BY <1>2, <3>1, <3>2 DEF Handler, Transfer, LD_HL_SP_p_r8, Inc_Dec_arHL, AluOp, OnRegister, ReadByte,
                              RotateByte, ChangeBit, BIT_arHL
  <2>2. fl' = fl
    BY <2>1 DEF JP, CALL, RET, Wait, Address, Sets, Stores, Leave
  <2>3. Taken' = Taken
    BY <1>1, <2>2 DEF Taken
  <2>4. mCurState' = mCurState + 1 /\ mCurState \in 0 .. 4
    BY <1>1 DEF Advance, Typed
  <2>5. Cur.op \in {"JPcc", "RETcc"} => Taken
    BY <1>1, <2>1, <2>4 DEF JP, CALL, RET, Reset, Committed
  <2>6. Cur.op = "CALLcc" /\ mCurState' > 2 => Taken
    <3>1. CASE mCurState = 2
      BY <1>1, <2>1, <2>4, <3>1 DEF JP, CALL, RET, Reset, CallNotTaken, Wait, Address
    <3>2. CASE mCurState # 2
      BY <2>4, <3>2 DEF Committed
    <3> QED
      BY <3>1, <3>2
  <2> QED
    BY <1>1, <2>3, <2>5, <2>6
<1>3. CASE Cur.op \notin {"JPcc", "RETcc", "CALLcc"}
  BY <1>1, <1>3
<1> QED
  BY <1>2, <1>3

(* Every handler makes the calls and the bus accesses its family in Opcodes has. *)
THEOREM MicrostepsAgreeHolds == Spec => MicrostepsAgree
<1> DEFINE Inv == IInv /\ Committed
           Agrees == LET k == mCurState + 1
                         steps == Program[Family]
                     IN /\ k <= Len(steps)
                        /\ text' # text <=> k = Len(steps)
                        /\ mem' # mem => steps[k].bus = "write"
<1>1. Init => Inv
  BY StartsSafe DEF Init, Committed
<1>2. Inv /\ [Next]_vars => Inv'
  <2> SUFFICES ASSUME Inv, [Next]_vars PROVE Committed'
    BY StepSafe
  <2>1. CASE Next
    BY <2>1, CommittedKept DEF Next, IInv
  <2>2. CASE UNCHANGED vars
    BY <2>2 DEF vars, machine, Committed, Cur, Taken
  <2> QED
    BY <2>1, <2>2
<1>3. Inv /\ [Next]_vars => [Agrees]_vars
  <2> SUFFICES ASSUME Inv, Next PROVE Agrees
    OBVIOUS
  <2>1. Typed /\ text # <<>> /\ Follows(Program[Family])
    BY HandlerFollows DEF Next, IInv
  <2>2. Tail(text) # text /\ mCurState \in 0 .. 4
    BY <2>1, TextShorter DEF Typed
  <2>3. Len(Program[Family]) \in Int
    BY <2>1, <2>2 DEF Follows
  <2> QED
    BY <2>1, <2>2, <2>3 DEF Follows, Advance, Reset
<1> QED
  BY <1>1, <1>2, <1>3, PTL DEF Spec, MicrostepsAgree
-----------------------------------------------------------------------------
(* The stack *)

(* Addresses are added modulo 65536. *)
LEMMA WrapAgain ==
  /\ \A a, k \in Int : Wrap(Wrap(a) + k) = Wrap(a + k)
  /\ \A a, k \in Int : Wrap(Wrap(a) - k) = Wrap(a - k)
  /\ \A a \in Word : Wrap(a) = a
<1>1. ASSUME NEW a \in Int
      PROVE  \E q \in Int : a = 65536 * q + Wrap(a) /\ Wrap(a) \in Int
  BY DEF Wrap
<1>2. ASSUME NEW a \in Int, NEW k \in Int
      PROVE  Wrap(Wrap(a) + k) = Wrap(a + k)
  BY DEF Wrap
<1>3. ASSUME NEW a \in Int, NEW k \in Int
      PROVE  Wrap(Wrap(a) - k) = Wrap(a - k)
  BY DEF Wrap
<1>4. \A a \in Int : 0 <= a /\ a <= 65535 => Wrap(a) = a
  BY DEF Wrap
<1> QED
  BY <1>2, <1>3, <1>4, WordBounds

(* Two addresses less than 65536 apart differ. *)
LEMMA Apart ==
  ASSUME NEW a \in Int, NEW j \in Int, NEW k \in Int, j < k, k - j <= WordMax
  PROVE  Wrap(a + j) # Wrap(a + k)
BY DEF Wrap, WordMax

(* The same for an address that was moved before. *)
LEMMA Moved ==
  ASSUME NEW a \in Int, NEW d \in Int, NEW e \in Int
  PROVE  /\ Wrap(Wrap(a + d) + e) = Wrap(a + (d + e))
         /\ Wrap(Wrap(a - d) + e) = Wrap(a + (e - d))
<1>1. a + d \in Int /\ a - d \in Int /\ (a + d) + e = a + (d + e) /\ (a - d) + e = a + (e - d)
  OBVIOUS
<1> DEFINE x == a + d
           y == a - d
<1> HIDE DEF x, y
<1>2. x \in Int /\ y \in Int /\ x + e = a + (d + e) /\ y + e = a + (e - d)
  BY <1>1 DEF x, y
<1>3. Wrap(Wrap(x) + e) = Wrap(x + e) /\ Wrap(Wrap(y) + e) = Wrap(y + e)
  BY <1>2, WrapAgain
<1> QED
  BY <1>2, <1>3 DEF x, y

(* The words of g lie in memory m from the address top on. *)
Lies(m, top, g) ==
  \A i \in 1 .. Len(g) :
    LET lo == Wrap(top + (2 * i - 2))
        hi == Wrap(top + (2 * i - 1))
    IN lo \in Ram /\ hi \in Ram /\ m[lo] + 256 * m[hi] = g[i]

(* A stack is not longer than memory, which does not take all addresses: what
   is pushed next falls on none of its words. *)
LEMMA Room ==
  ASSUME NEW m, NEW top \in Word, NEW g \in Seq(Word), Lies(m, top, g)
  PROVE  2 * Len(g) <= 65534
<1>1. PICK hole \in Word : hole \notin Ram
  BY RamAssumption
<1>2. top \in Int /\ hole \in Int /\ 0 <= top /\ 0 <= hole /\ top <= 65535 /\ hole <= 65535
  BY WordBounds
<1> DEFINE j == IF hole >= top THEN hole - top ELSE hole - top + 65536
<1>3. j \in Int /\ 0 <= j /\ j <= 65535 /\ Wrap(top + j) = hole
  <2>1. j \in Int /\ 0 <= j /\ j <= 65535
    BY <1>2
  <2>2. top + j = hole \/ top + j = hole + 65536
    BY <1>2
  <2>3. \A n \in Int : 0 <= n /\ n <= 65535 => Wrap(n) = n /\ Wrap(n + 65536) = n
    BY DEF Wrap
  <2> QED
    BY <1>2, <2>1, <2>2, <2>3
<1> HIDE DEF j
<1>4. Len(g) \in Nat
  OBVIOUS
<1> SUFFICES ASSUME 2 * Len(g) > 65534 PROVE FALSE
  BY <1>4
<1> DEFINE q == j \div 2
<1>5. q \in Int /\ 0 <= q /\ q <= 32767 /\ (j = 2 * q \/ j = 2 * q + 1)
  BY <1>3
<1> HIDE DEF q
<1>6. q + 1 \in 1 .. Len(g) /\ 2 * (q + 1) - 2 = 2 * q /\ 2 * (q + 1) - 1 = 2 * q + 1
  BY <1>4, <1>5
<1>7. Wrap(top + (2 * (q + 1) - 2)) \in Ram /\ Wrap(top + (2 * (q + 1) - 1)) \in Ram
  BY <1>6 DEF Lies
<1>8. Wrap(top + 2 * q) \in Ram /\ Wrap(top + (2 * q + 1)) \in Ram
  BY <1>6, <1>7
<1> QED
  BY <1>1, <1>3, <1>5, <1>8

(* Writing one or two addresses below the stack leaves its words. *)
LEMMA WrittenBelow ==
  ASSUME NEW m \in Memory, NEW top \in Word, NEW g \in Seq(Word), Lies(m, top, g),
         NEW k \in {1, 2}, NEW v
  PROVE  Lies(Written(m, Wrap(top - k), v), top, g)
<1> DEFINE a == Wrap(top - k)
<1>1. top \in Int /\ 2 * Len(g) <= 65534 /\ Len(g) \in Nat
  BY Room, WordBounds
<1>2. ASSUME NEW i \in 1 .. Len(g)
      PROVE  Wrap(top + (2 * i - 2)) # a /\ Wrap(top + (2 * i - 1)) # a
  <2> DEFINE lo == 2 * i - 2
             hi == 2 * i - 1
             below == -k
  <2>1. /\ lo \in Int /\ hi \in Int /\ below \in Int
        /\ below < lo /\ lo - below <= WordMax /\ below < hi /\ hi - below <= WordMax
        /\ top - k = top + below
    BY <1>1 DEF WordMax
  <2> HIDE DEF lo, hi, below
  <2>2. Wrap(top + below) # Wrap(top + lo)
    <3>1. top \in Int /\ below \in Int /\ lo \in Int /\ below < lo /\ lo - below <= WordMax
      BY <1>1, <2>1
    <3> QED
      BY ONLY <3>1, Apart, Zenon
  <2>3. Wrap(top + below) # Wrap(top + hi)
    <3>1. top \in Int /\ below \in Int /\ hi \in Int /\ below < hi /\ hi - below <= WordMax
      BY <1>1, <2>1
    <3> QED
      BY ONLY <3>1, Apart, Zenon
  <2> QED
    BY <2>1, <2>2, <2>3 DEF lo, hi
<1> HIDE DEF a
<1>3. \A b \in Ram : b # a => Written(m, a, v)[b] = m[b]
  BY DEF Written, Memory
<1> QED
  BY <1>2, <1>3, ZenonT(60) DEF Lies, a

(* A word taken leaves the rest. *)
LEMMA TakenOff ==
  ASSUME NEW m, NEW top \in Word, NEW g \in Seq(Word), Lies(m, top, g), g # <<>>
  PROVE  /\ Lies(m, Wrap(top + 2), Tail(g)) /\ Tail(g) \in Seq(Word)
         /\ Head(g) \in Word /\ top \in Ram /\ Wrap(top + 1) \in Ram
         /\ m[top] + 256 * m[Wrap(top + 1)] = Head(g)
<1>1. top \in Int /\ Wrap(top) = top /\ Wrap(top + 0) = top
  BY WordBounds, WrapAgain
<1>2. /\ Len(g) \in Nat \ {0} /\ Tail(g) \in Seq(Word) /\ Head(g) \in Word /\ Head(g) = g[1]
      /\ Len(Tail(g)) = Len(g) - 1
  OBVIOUS
<1>3. \A i \in 1 .. Len(Tail(g)) : Tail(g)[i] = g[i + 1]
  BY <1>2
<1>4. ASSUME NEW i \in 1 .. Len(Tail(g))
      PROVE  LET lo == Wrap(Wrap(top + 2) + (2 * i - 2))
                 hi == Wrap(Wrap(top + 2) + (2 * i - 1))
             IN lo \in Ram /\ hi \in Ram /\ m[lo] + 256 * m[hi] = Tail(g)[i]
  <2>1. i + 1 \in 1 .. Len(g) /\ i \in Int
    BY <1>2
  <2> DEFINE lo == 2 * i - 2
             hi == 2 * i - 1
  <2>2. lo \in Int /\ hi \in Int /\ 2 + lo = 2 * (i + 1) - 2 /\ 2 + hi = 2 * (i + 1) - 1
    BY <2>1
  <2> HIDE DEF lo, hi
  <2>3. /\ Wrap(Wrap(top + 2) + lo) = Wrap(top + (2 + lo))
        /\ Wrap(Wrap(top + 2) + hi) = Wrap(top + (2 + hi))
    <3>1. 2 \in Int
      OBVIOUS
    <3> QED
      BY <1>1, <2>2, <3>1, Moved, Zenon
  <2>4. /\ Wrap(Wrap(top + 2) + lo) = Wrap(top + (2 * (i + 1) - 2))
        /\ Wrap(Wrap(top + 2) + hi) = Wrap(top + (2 * (i + 1) - 1))
    BY <2>2, <2>3
  <2> USE DEF lo, hi
  <2> QED
    BY <1>3, <2>1, <2>4 DEF Lies
<1>5. top \in Ram /\ Wrap(top + 1) \in Ram /\ m[top] + 256 * m[Wrap(top + 1)] = Head(g)
  <2>1. 1 \in 1 .. Len(g) /\ 2 * 1 - 2 = 0 /\ 2 * 1 - 1 = 1
    BY <1>2
  <2>2. /\ Wrap(top + (2 * 1 - 2)) \in Ram /\ Wrap(top + (2 * 1 - 1)) \in Ram
        /\ m[Wrap(top + (2 * 1 - 2))] + 256 * m[Wrap(top + (2 * 1 - 1))] = g[1]
    BY <2>1 DEF Lies
  <2> QED
    BY <1>1, <1>2, <2>1, <2>2
<1> QED
  BY <1>2, <1>4, <1>5 DEF Lies

(* A word written below the stack is its first. *)
LEMMA PutOn ==
  ASSUME NEW m, NEW top \in Word, NEW g \in Seq(Word), Lies(m, top, g), NEW v \in Word,
         Wrap(top - 2) \in Ram, Wrap(top - 1) \in Ram,
         m[Wrap(top - 2)] + 256 * m[Wrap(top - 1)] = v
  PROVE  Lies(m, Wrap(top - 2), <<v>> \o g) /\ <<v>> \o g \in Seq(Word)
<1> DEFINE h == <<v>> \o g
           s == Wrap(top - 2)
<1>1. top \in Int /\ s \in Word /\ Wrap(s + 0) = s /\ Wrap(s + 1) = Wrap(top - 1)
  <2>1. top \in Int
    BY WordBounds
  <2>2. s \in Word
    BY <2>1, WrapSum
  <2>3. Wrap(s + 0) = s
    BY <2>2, WordBounds, WrapAgain
  <2>4. Wrap(Wrap(top - 2) + 1) = Wrap((top - 2) + 1) /\ (top - 2) + 1 = top - 1
    BY <2>1, WrapAgain
  <2> QED
    BY <2>1, <2>2, <2>3, <2>4
<1>2. /\ h \in Seq(Word) /\ Len(h) = Len(g) + 1 /\ h[1] = v
      /\ \A i \in 2 .. Len(g) + 1 : h[i] = g[i - 1]
  OBVIOUS
<1>3. ASSUME NEW i \in 1 .. Len(h)
      PROVE  LET lo == Wrap(s + (2 * i - 2))
                 hi == Wrap(s + (2 * i - 1))
             IN lo \in Ram /\ hi \in Ram /\ m[lo] + 256 * m[hi] = h[i]
  <2>1. CASE i = 1
    BY <1>1, <1>2, <2>1
  <2>2. CASE i # 1
    <3>1. i - 1 \in 1 .. Len(g) /\ i \in 2 .. Len(g) + 1 /\ i \in Int
      BY <1>2, <2>2
    <3> DEFINE lo == 2 * i - 2
               hi == 2 * i - 1
    <3>2. lo \in Int /\ hi \in Int /\ lo - 2 = 2 * (i - 1) - 2 /\ hi - 2 = 2 * (i - 1) - 1
      BY <3>1
    <3> HIDE DEF lo, hi
    <3>3. /\ Wrap(Wrap(top - 2) + lo) = Wrap(top + (lo - 2))
          /\ Wrap(Wrap(top - 2) + hi) = Wrap(top + (hi - 2))
      <4>1. 2 \in Int
        OBVIOUS
      <4> QED
        BY <1>1, <3>2, <4>1, Moved, Zenon
    <3>4. /\ Wrap(Wrap(top - 2) + lo) = Wrap(top + (2 * (i - 1) - 2))
          /\ Wrap(Wrap(top - 2) + hi) = Wrap(top + (2 * (i - 1) - 1))
      BY <3>2, <3>3
    <3> USE DEF lo, hi
    <3> QED
      BY <1>2, <3>1, <3>4 DEF Lies
  <2> QED
    BY <2>1, <2>2
<1> HIDE DEF h, s
<1>4. Lies(m, s, h)
  BY <1>3 DEF Lies
<1> QED
  BY <1>2, <1>4 DEF h, s

(* The instruction under way is a call, or a return. *)
Calling == Cur.op \in {"CALL", "CALLcc"}
Returning == Cur.op \in {"RET", "RETcc"}

\* Where the words not yet popped begin; a CALL or a RET may be half way through one.
Top ==
  IF mCurState = 4 THEN Wrap(reg["SP"] + 1)
  ELSE IF mCurState = 2 /\ Returning THEN Wrap(reg["SP"] - 1)
  ELSE IF mCurState = 3 /\ Returning THEN Wrap(reg["SP"] - 2)
  ELSE reg["SP"]

(* What CALL and RET have done between two calls; nothing else moves the stack
   before its last call. *)
Midstack ==
  mCurState # 0 =>
    /\ Returning /\ mCurState = 2 => mCache = Read(Top)
    /\ Returning /\ mCurState = 3 => mCache = Popped(Top)
    /\ mCurState = 4 => Calling /\ (reg["SP"] \in Ram => mem[reg["SP"]] = mCache \div 256)
    /\ ~Calling /\ ~Returning => mem = Was.mem /\ reg["SP"] = Was.reg["SP"]

(* The words pushed and not yet popped lie on the stack. *)
StackInv == ghost \in Seq(Word) /\ Lies(mem, Top, ghost) /\ Midstack

(* A call that leaves memory and SP alone. *)
Still == mem' = mem /\ reg'["SP"] = reg["SP"]

(* What a handler does to the stack. *)
Quiet == Advance /\ Still /\ mCurState < 3 /\ (Returning => mCurState = 0)
Settles == Reset /\ mCurState # 4 /\ ~Pushes /\ ~Pops /\ (Calling \/ Returning => Still) /\ (Returning => mCurState = 0)
Half == CALL /\ mCurState = 3
Whole == CALL /\ mCurState = 4
Fetches == RET /\ mCurState \in {1, 2}
Jumps == RET /\ mCurState = 3
Direct == mCurState = 0 /\ Reset /\ (PUSH_r16 \/ RST_n \/ POP_r16)

(* Writes that leave the stack alone. *)
LEMMA StillWrites ==
  ASSUME Typed, text # <<>>
  PROVE  /\ Sets(In) \/ Sets(Past(In, 1)) \/ Sets(Past(In, 2)) => Still
         /\ \A v : Sets([In EXCEPT !["PC"] = v]) => Still
         /\ \A f : SetsFlags(In, f) => Still
         /\ Wait => Still /\ Advance /\ mCurState = 0
<1>1. In \in RegFile /\ In["SP"] = reg["SP"]
  BY Found DEF Regs, Bytes8
<1>2. /\ Past(In, 1)["SP"] = In["SP"] /\ Past(In, 2)["SP"] = In["SP"]
      /\ \A v : [In EXCEPT !["PC"] = v]["SP"] = In["SP"]
  BY <1>1 DEF Past, RegFile, Regs
<1>3. /\ Sets(In) \/ Sets(Past(In, 1)) \/ Sets(Past(In, 2)) => Still
      /\ \A v : Sets([In EXCEPT !["PC"] = v]) => Still
      /\ \A f : SetsFlags(In, f) => Still
  BY <1>1, <1>2 DEF Sets, SetsFlags, Leave, Still
<1>4. Wait => Still /\ Advance /\ mCurState = 0
  BY <1>3 DEF Wait
<1> QED
  BY <1>3, <1>4

(* The operations that call a handler of several microsteps or of the stack. *)
LEMMA StackOpsKnown ==
  /\ Transfer \/ LD_HL_SP_p_r8 \/ Inc_Dec_arHL \/ AluOp \/ JP => ~Calling /\ ~Returning /\ ~Pushes /\ ~Pops
  /\ OnRegister \/ ReadByte \/ RotateByte \/ ChangeBit \/ BIT_arHL => ~Calling /\ ~Returning /\ ~Pushes /\ ~Pops
  /\ Single => ~Calling /\ ~Returning
  /\ Single => PUSH_r16 \/ RST_n \/ POP_r16 \/ (~Pushes /\ ~Pops)
  /\ CALL => Calling /\ ~Returning /\ ~Pops
  /\ RET => Returning /\ ~Calling /\ ~Pushes
<1>1. Transfer \/ LD_HL_SP_p_r8 \/ Inc_Dec_arHL \/ AluOp \/ JP => ~Calling /\ ~Returning /\ ~Pushes /\ ~Pops
  BY DEF Transfer, Delayed, LD_HL_SP_p_r8, Inc_Dec_arHL, AluOp, Accumulate, JP, Calling, Returning, Pushes, Pops
<1>2. OnRegister \/ ReadByte \/ RotateByte \/ ChangeBit \/ BIT_arHL => ~Calling /\ ~Returning /\ ~Pushes /\ ~Pops
  BY DEF OnRegister, ReadByte, RotateByte, ChangeBit, BIT_arHL, Rotate, Calling, Returning, Pushes, Pops
<1>3. Single => ~Calling /\ ~Returning
  BY DEF Single, LD_r16_d16, LD_r8_d8, LD_r8_r8, LD_SP_HL, LD_a16_SP, Nop_Stop, Inc_Dec_r16, Inc_Dec_r8,
         ADD_HL_r16, DAA_CPL_SCF_CCF, JR, JP_arHL, RST_n, PUSH_r16, POP_r16, Calling, Returning
<1>4. Single => PUSH_r16 \/ RST_n \/ POP_r16 \/ (~Pushes /\ ~Pops)
  <2>1. LD_r16_d16 \/ LD_r8_d8 \/ LD_r8_r8 \/ LD_SP_HL \/ LD_a16_SP \/ Nop_Stop \/ Inc_Dec_r16 \/ Inc_Dec_r8
          \/ ADD_HL_r16 \/ DAA_CPL_SCF_CCF \/ JR \/ JP_arHL => ~Pushes /\ ~Pops
    BY DEF LD_r16_d16, LD_r8_d8, LD_r8_r8, LD_SP_HL, LD_a16_SP, Nop_Stop, Inc_Dec_r16, Inc_Dec_r8,
           ADD_HL_r16, DAA_CPL_SCF_CCF, JR, JP_arHL, Pushes, Pops
  <2> QED
    BY <2>1 DEF Single
<1>5. /\ CALL => Calling /\ ~Returning /\ ~Pops
      /\ RET => Returning /\ ~Calling /\ ~Pushes
  BY DEF CALL, RET, Calling, Returning, Pushes, Pops
<1> QED
  BY <1>1, <1>2, <1>3, <1>4, <1>5

(* Every handler does one of these things to the stack. *)
LEMMA StackKinds ==
  ASSUME Typed, Committed, text # <<>>, Handler
  PROVE  Quiet \/ Settles \/ Half \/ Whole \/ Fetches \/ Jumps \/ Direct
<1>1. CASE Single
  <2>1. mCurState = 0 /\ Reset
    BY <1>1 DEF Single
  <2> QED
    BY <1>1, <2>1, StackOpsKnown DEF Direct, Settles
<1>2. CASE Transfer
  <2>1. Wait \/ (mCurState = 1 /\ Reset)
    BY <1>2 DEF Transfer
  <2> QED
    BY <1>2, <2>1, StillWrites, StackOpsKnown DEF Quiet, Settles
<1>3. CASE LD_HL_SP_p_r8
  <2>1. Wait \/ (mCurState = 1 /\ Sets(Past(In, 1)) /\ Advance) \/ (mCurState = 2 /\ Reset)
    BY <1>3 DEF LD_HL_SP_p_r8
  <2> QED
    BY <1>3, <2>1, StillWrites, StackOpsKnown DEF Quiet, Settles
<1>4. CASE Inc_Dec_arHL
  <2>1. Wait \/ (mCurState = 1 /\ Sets(In) /\ Advance) \/ (mCurState = 2 /\ Reset)
    BY <1>4 DEF Inc_Dec_arHL
  <2> QED
    BY <1>4, <2>1, StillWrites, StackOpsKnown DEF Quiet, Settles
<1>5. CASE AluOp
  <2>1. Wait \/ (mCurState \in {0, 1} /\ Reset)
    BY <1>5 DEF AluOp
  <2> QED
    BY <1>5, <2>1, StillWrites, StackOpsKnown DEF Quiet, Settles
<1>6. CASE OnRegister \/ ReadByte \/ RotateByte \/ ChangeBit \/ BIT_arHL
  <2>1. Wait \/ (mCurState = 1 /\ Sets(In) /\ Advance) \/ (mCurState \in {0, 1, 2} /\ Reset)
    BY <1>6 DEF OnRegister, ReadByte, RotateByte, ChangeBit, BIT_arHL
  <2> QED
    BY <1>6, <2>1, StillWrites, StackOpsKnown DEF Quiet, Settles
<1>7. CASE JP
  <2>1. \/ Reset /\ mCurState # 4
        \/ Wait
        \/ mCurState \in {1, 2} /\ Sets(Past(In, 1)) /\ Advance
    <3>1. Cur.op = "JPcc" /\ ~Taken => mCurState # 4
      BY DEF Committed, Typed
    <3> QED
      BY <1>7, <3>1 DEF JP, Address
  <2> QED
    BY <1>7, <2>1, StillWrites, StackOpsKnown DEF Quiet, Settles
<1>8. CASE CALL
  <2>1. \/ Wait \/ Half \/ Whole
        \/ mCurState \in {1, 2} /\ Sets(Past(In, 1)) /\ Advance
        \/ mCurState = 2 /\ Sets(Past(In, 1)) /\ Reset
    BY <1>8 DEF CALL, Address, Half, Whole
  <2>2. mCurState # 4 => ~Pushes
    BY <1>8 DEF CALL, Pushes
  <2> QED
    BY <1>8, <2>1, <2>2, StillWrites, StackOpsKnown DEF Quiet, Settles
<1>9. CASE RET
  <2>1. \/ Wait \/ Fetches \/ Jumps
        \/ Cur.op = "RETcc" /\ ~Taken /\ Sets(In) /\ Reset
    BY <1>9 DEF RET, Fetches, Jumps
  <2>2. Cur.op = "RETcc" /\ ~Taken => mCurState = 0
    BY DEF Committed, Typed
  <2>3. mCurState # 3 => ~Pops
    BY <1>9 DEF RET, Pops
  <2> QED
    BY <1>9, <2>1, <2>2, <2>3, StillWrites, StackOpsKnown DEF Quiet, Settles
<1> QED
  BY <1>1, <1>2, <1>3, <1>4, <1>5, <1>6, <1>7, <1>8, <1>9 DEF Handler

(* Moving up and down the stack. *)
LEMMA UpAndDown ==
  ASSUME NEW a \in Word
  PROVE  /\ Wrap(Wrap(a - 1) + 1) = a /\ Wrap(Wrap(a + 1) - 1) = a /\ Wrap(Wrap(a - 2) + 2) = a
         /\ Wrap(Wrap(a + 1) - 2) = Wrap(a - 1) /\ Wrap(Wrap(a - 2) + 1) = Wrap(a - 1)
<1>1. a \in Int /\ Wrap(a) = a
  BY WordBounds, WrapAgain
<1>2. /\ a - 1 \in Int /\ a + 1 \in Int /\ a - 2 \in Int
      /\ (a - 1) + 1 = a /\ (a + 1) - 1 = a /\ (a - 2) + 2 = a
      /\ (a + 1) - 2 = a - 1 /\ (a - 2) + 1 = a - 1
  BY <1>1
<1> DEFINE d1 == a - 1
           u1 == a + 1
           d2 == a - 2
<1> HIDE DEF d1, u1, d2
<1>3. /\ d1 \in Int /\ u1 \in Int /\ d2 \in Int /\ d1 = a - 1
      /\ d1 + 1 = a /\ u1 - 1 = a /\ d2 + 2 = a /\ u1 - 2 = d1 /\ d2 + 1 = d1
  BY <1>2 DEF d1, u1, d2
<1>4. 1 \in Int /\ 2 \in Int
  OBVIOUS
<1>5. /\ Wrap(Wrap(d1) + 1) = Wrap(d1 + 1) /\ Wrap(Wrap(u1) - 1) = Wrap(u1 - 1)
      /\ Wrap(Wrap(d2) + 2) = Wrap(d2 + 2) /\ Wrap(Wrap(u1) - 2) = Wrap(u1 - 2)
      /\ Wrap(Wrap(d2) + 1) = Wrap(d2 + 1)
  BY <1>3, <1>4, WrapAgain, ZenonT(60)
<1>6. /\ Wrap(Wrap(d1) + 1) = a /\ Wrap(Wrap(u1) - 1) = a /\ Wrap(Wrap(d2) + 2) = a
      /\ Wrap(Wrap(u1) - 2) = Wrap(d1) /\ Wrap(Wrap(d2) + 1) = Wrap(d1)
  BY <1>1, <1>3, <1>5, Zenon
<1> QED
  BY <1>6, Zenon DEF d1, u1, d2

(* What a step finds and leaves of the instruction, of the history and of the words. *)
LEMMA StepOnStack ==
  ASSUME Typed, Midway, Committed, StackInv, text # <<>>, Handler, Watch, Follow
  PROVE  /\ Typed' /\ Top \in Word /\ ghost \in Seq(Word) /\ Lies(mem, Top, ghost)
         /\ mem \in Memory /\ In["SP"] = reg["SP"] /\ reg["SP"] \in Word
         /\ Advance => Cur' = Cur /\ ghost' = ghost /\ (Returning' <=> Returning) /\ (Calling' <=> Calling)
         /\ Reset => text' # text /\ mCurState' = 0
<1>1. Typed' /\ mem \in Memory /\ In["SP"] = reg["SP"] /\ reg["SP"] \in Word
  BY HandlerGood, GoodIsTyped, Found DEF Typed, Regs, Bytes8
<1>2. Top \in Word
  <2>1. reg["SP"] \in Int
    BY <1>1, WordBounds
  <2>2. /\ Wrap(reg["SP"] + 1) \in Word /\ Wrap(reg["SP"] - 1) \in Word /\ Wrap(reg["SP"] - 2) \in Word
    BY <2>1, WrapSum
  <2> QED
    BY <1>1, <2>2 DEF Top
<1>3. Advance => Cur' = Cur /\ ghost' = ghost /\ (Returning' <=> Returning) /\ (Calling' <=> Calling)
  <2>1. Advance => Cur' = Cur /\ ghost' = ghost
    BY Zenon DEF Advance, Cur, Follow
  <2> QED
    BY <2>1, Zenon DEF Returning, Calling
<1>4. Reset => text' # text /\ mCurState' = 0
  BY TextShorter, Zenon DEF Reset
<1> QED
  BY <1>1, <1>2, <1>3, <1>4 DEF StackInv

(* The state an instruction found is remembered until the next one. *)
LEMMA Recalled ==
  ASSUME Watch
  PROVE  /\ mCurState = 0 => Was'.mem = mem /\ Was'.reg = reg
         /\ mCurState # 0 => Was' = Was
BY DEF Watch, Was

(* A call that leaves the stack alone and is not the last. *)
LEMMA QuietKeeps ==
  ASSUME Typed, Midway, Committed, StackInv, text # <<>>, Handler, Watch, Follow, Quiet
  PROVE  StackInv'
<1>1. /\ Cur' = Cur /\ ghost' = ghost /\ mem' = mem /\ reg'["SP"] = reg["SP"]
      /\ (Returning' <=> Returning) /\ (Calling' <=> Calling)
  BY StepOnStack DEF Quiet, Still
<1>2. mCurState' = mCurState + 1 /\ mCurState \in {0, 1, 2} /\ (Returning => mCurState = 0)
  BY DEF Quiet, Advance, Typed
<1>3. Top = reg["SP"] /\ Top' = reg["SP"]
  BY <1>1, <1>2 DEF Top
<1>4. Lies(mem, Top, ghost)'
  BY <1>1, <1>3, StepOnStack DEF Lies
<1>5. Midstack'
  <2>1. ~Calling /\ ~Returning => mem = Was'.mem /\ reg["SP"] = Was'.reg["SP"]
    BY Recalled DEF StackInv, Midstack
  <2> QED
    BY <1>1, <1>2, <2>1 DEF Midstack
<1> QED
  BY <1>1, <1>4, <1>5, StepOnStack DEF StackInv

(* The last call of an instruction that neither pushes nor pops: the words are
   forgotten when it moved SP or wrote memory. *)
LEMMA SettlesKeeps ==
  ASSUME Typed, Midway, Committed, StackInv, text # <<>>, Handler, Watch, Follow, Settles
  PROVE  StackInv'
<1>1. mCurState' = 0 /\ text' # text /\ ~Pushes /\ ~Pops
  BY StepOnStack DEF Settles
<1>2. ghost' = IF StackMoved THEN <<>> ELSE ghost
  BY <1>1 DEF Follow
<1>3. CASE StackMoved
  BY <1>1, <1>2, <1>3 DEF StackInv, Midstack, Lies
<1>4. CASE ~StackMoved
  <2>1. mem' = Was'.mem /\ reg'["SP"] = Was'.reg["SP"]
    BY <1>4 DEF StackMoved, Was
  <2>2. mem' = mem /\ reg'["SP"] = reg["SP"]
    BY <2>1, Recalled DEF Settles, Still, StackInv, Midstack
  <2>3. Top = reg["SP"] /\ Top' = reg["SP"]
    BY <1>1, <2>2 DEF Top, Settles
  <2> QED
    BY <1>1, <1>2, <1>4, <2>2, <2>3, StepOnStack DEF StackInv, Midstack, Lies
<1> QED
  BY <1>3, <1>4

(* CALL has pushed the high byte: the word is not on the stack yet. *)
LEMMA HalfKeeps ==
  ASSUME Typed, Midway, Committed, StackInv, text # <<>>, Handler, Watch, Follow, Half
  PROVE  StackInv'
<1> DEFINE sp == Wrap(reg["SP"] - 1)
           v == In["PC"] \div 256
<1>1. /\ mCurState = 3 /\ mCurState' = 4 /\ Advance /\ mCache' = In["PC"]
      /\ Calling /\ ~Returning
      /\ reg'["SP"] = sp /\ mem' = Written(mem, sp, v)
  <2>1. mCurState = 3 /\ CALL
    BY DEF Half
  <2>2. /\ Stores([In EXCEPT !["PC"] = mCache, !["SP"] = Wrap(In["SP"] - 1)], Wrap(In["SP"] - 1), v)
        /\ Carries(In["PC"]) /\ Advance
    BY <2>1 DEF CALL, Wait, Address
  <2>3. In \in RegFile /\ In["SP"] = reg["SP"]
    BY Found, StepOnStack
  <2> QED
    BY <2>1, <2>2, <2>3, StackOpsKnown DEF Stores, Leave, Carries, Advance, RegFile, Regs
<1>2. /\ Cur' = Cur /\ ghost' = ghost /\ Calling' /\ ~Returning'
      /\ mem \in Memory /\ reg["SP"] \in Word /\ Lies(mem, Top, ghost) /\ ghost \in Seq(Word)
  BY <1>1, StepOnStack
<1> HIDE DEF v
<1>3. Top = reg["SP"] /\ Top' = reg["SP"]
  <2>1. Top = reg["SP"] /\ Top' = Wrap(sp + 1)
    BY <1>1, <1>2 DEF Top
  <2> QED
    BY <1>2, <2>1, UpAndDown
<1>4. Lies(mem', reg["SP"], ghost)
  BY <1>1, <1>2, <1>3, WrittenBelow
<1>5. sp \in Ram => mem'[sp] = v
  BY <1>1, <1>2 DEF Written, Memory
<1> QED
  BY <1>1, <1>2, <1>3, <1>4, <1>5 DEF StackInv, Midstack, Lies, v

(* The halves of a word make it again. *)
LEMMA Halves == \A v \in Word : Low(v) + 256 * (v \div 256) = v /\ 256 * (v \div 256) + Low(v) = v
<1>1. \A n \in Int : 0 <= n /\ n <= 65535 =>
        (n % 256) + 256 * (n \div 256) = n /\ 256 * (n \div 256) + (n % 256) = n
  OBVIOUS
<1> QED
  BY <1>1, WordBounds DEF Low

(* A word whose high byte is there and whose low byte is written below it. *)
LEMMA LowBytePut ==
  ASSUME NEW m \in Memory, NEW top \in Word, NEW g \in Seq(Word), Lies(m, top, g), NEW v \in Word,
         Wrap(top - 2) \in Ram, Wrap(top - 1) \in Ram, m[Wrap(top - 1)] = v \div 256
  PROVE  /\ Lies(Written(m, Wrap(top - 2), Low(v)), Wrap(top - 2), <<v>> \o g)
         /\ <<v>> \o g \in Seq(Word)
<1> DEFINE lo == Wrap(top - 2)
           hi == Wrap(top - 1)
           n == Written(m, lo, Low(v))
<1>1. Lies(n, top, g)
  BY WrittenBelow
<1>2. hi # lo
  <2>1. top \in Int /\ -2 \in Int /\ -1 \in Int /\ -2 < -1 /\ (-1) - (-2) <= WordMax
        /\ top - 2 = top + (-2) /\ top - 1 = top + (-1)
    BY WordBounds DEF WordMax
  <2>2. Wrap(top + (-2)) # Wrap(top + (-1))
    BY ONLY <2>1, Apart, Zenon
  <2> QED
    BY <2>1, <2>2
<1> HIDE DEF lo, hi
<1>3. lo \in Ram /\ hi \in Ram /\ m[hi] = v \div 256
  BY DEF lo, hi
<1>4. n[lo] = Low(v) /\ n[hi] = v \div 256
  BY <1>2, <1>3 DEF Written, Memory
<1>5. n[lo] + 256 * n[hi] = v
  BY <1>4, Halves
<1> HIDE DEF n
<1>6. Wrap(top - 2) \in Ram /\ Wrap(top - 1) \in Ram /\ n[Wrap(top - 2)] + 256 * n[Wrap(top - 1)] = v
  BY <1>3, <1>5 DEF lo, hi
<1>7. Lies(n, Wrap(top - 2), <<v>> \o g) /\ <<v>> \o g \in Seq(Word)
  BY <1>1, <1>6, PutOn
<1> QED
  BY <1>7 DEF n, lo

(* A word pushed at once. *)
LEMMA WordPut ==
  ASSUME NEW m \in Memory, NEW top \in Word, NEW g \in Seq(Word), Lies(m, top, g), NEW v \in Word,
         OnStack(Wrap(top - 2))
  PROVE  /\ Lies(Pushed(m, top, v), Wrap(top - 2), <<v>> \o g)
         /\ <<v>> \o g \in Seq(Word)
<1> DEFINE n == Written(m, Wrap(top - 1), v \div 256)
<1>1. Wrap(top - 2) \in Ram /\ Wrap(top - 1) \in Ram
  BY UpAndDown DEF OnStack
<1>2. n \in Memory /\ Lies(n, top, g)
  BY Halve, MemoryTyped, WrittenBelow
<1>3. n[Wrap(top - 1)] = v \div 256
  BY <1>1 DEF Written, Memory
<1>4. Pushed(m, top, v) = Written(n, Wrap(top - 2), Low(v))
  BY DEF Pushed
<1> HIDE DEF n
<1> QED
  BY <1>1, <1>2, <1>3, <1>4, LowBytePut

(* CALL pushes the low byte: the word joins the others. *)
LEMMA WholeKeeps ==
  ASSUME Typed, Midway, Committed, StackInv, text # <<>>, Handler, Watch, Follow, Whole
  PROVE  StackInv'
<1> DEFINE sp == Wrap(reg["SP"] - 1)
<1>1. /\ mCurState = 4 /\ Reset /\ Calling
      /\ reg'["SP"] = sp /\ mem' = Written(mem, sp, Low(mCache))
  <2>1. mCurState = 4 /\ CALL
    BY DEF Whole
  <2>2. /\ Stores([In EXCEPT !["SP"] = Wrap(In["SP"] - 1)], Wrap(In["SP"] - 1), Low(mCache))
        /\ Reset
    BY <2>1 DEF CALL, Wait, Address
  <2>3. In \in RegFile /\ In["SP"] = reg["SP"]
    BY Found, StepOnStack
  <2> QED
    BY <2>1, <2>2, <2>3, StackOpsKnown DEF Stores, Leave, RegFile, Regs
<1>2. /\ mCurState' = 0 /\ text' # text /\ mem \in Memory /\ reg["SP"] \in Word
      /\ Top \in Word /\ Lies(mem, Top, ghost) /\ ghost \in Seq(Word) /\ mCache \in Word
  BY <1>1, StepOnStack DEF Typed
<1>3. ghost' = IF OnStack(sp) THEN <<mCache>> \o ghost ELSE <<>>
  BY <1>1, <1>2 DEF Follow, Pushes, WordPushed, Calling
<1>4. Top' = sp /\ Top = Wrap(reg["SP"] + 1)
  BY <1>1, <1>2 DEF Top
<1>5. Wrap(Top - 2) = sp /\ Wrap(Top - 1) = reg["SP"] /\ Wrap(sp + 1) = reg["SP"]
  BY <1>2, <1>4, UpAndDown
<1>6. reg["SP"] \in Ram => mem[reg["SP"]] = mCache \div 256
  BY <1>1 DEF StackInv, Midstack
<1> HIDE DEF sp
<1>7. CASE OnStack(sp)
  <2>1. Lies(mem', sp, <<mCache>> \o ghost) /\ <<mCache>> \o ghost \in Seq(Word)
    BY <1>1, <1>2, <1>5, <1>6, <1>7, LowBytePut DEF OnStack
  <2> QED
    BY <1>2, <1>3, <1>4, <1>7, <2>1 DEF StackInv, Midstack, Lies
<1>8. CASE ~OnStack(sp)
  BY <1>2, <1>3, <1>8 DEF StackInv, Midstack, Lies
<1> QED
  BY <1>7, <1>8

(* RET reads a byte: the word is still to be popped. *)
LEMMA FetchesKeeps ==
  ASSUME Typed, Midway, Committed, StackInv, text # <<>>, Handler, Watch, Follow, Fetches
  PROVE  StackInv'
<1>1. /\ mCurState \in {1, 2} /\ Advance /\ Returning /\ ~Calling
      /\ reg'["SP"] = Wrap(reg["SP"] + 1) /\ mem' = mem
      /\ mCache' = IF mCurState = 1 THEN Read(reg["SP"]) ELSE mCache + 256 * Read(reg["SP"])
  <2>1. mCurState \in {1, 2} /\ RET
    BY DEF Fetches
  <2>2. ~(Cur.op = "RETcc" /\ ~Taken)
    BY <2>1 DEF Committed
  <2>3. /\ Sets([In EXCEPT !["SP"] = Wrap(In["SP"] + 1)])
        /\ Carries(IF mCurState = 1 THEN Read(In["SP"]) ELSE mCache + 256 * Read(In["SP"]))
        /\ Advance
    BY <2>1, <2>2 DEF RET, Wait
  <2>4. In \in RegFile /\ In["SP"] = reg["SP"]
    BY Found, StepOnStack
  <2> QED
    BY <2>1, <2>3, <2>4, StackOpsKnown DEF Sets, Leave, Carries, RegFile, Regs
<1>2. /\ Cur' = Cur /\ ghost' = ghost /\ Returning' /\ ~Calling'
      /\ mem \in Memory /\ reg["SP"] \in Word /\ Lies(mem, Top, ghost) /\ ghost \in Seq(Word)
      /\ mCurState' = mCurState + 1
  BY <1>1, StepOnStack DEF Advance
<1>3. CASE mCurState = 1
  <2>1. Top = reg["SP"] /\ Top' = Wrap(Wrap(reg["SP"] + 1) - 1)
    BY <1>1, <1>2, <1>3 DEF Top
  <2>2. Top' = Top
    BY <1>2, <2>1, UpAndDown
  <2>3. mCache' = Read(Top)'
    BY <1>1, <1>3, <2>1, <2>2 DEF Read
  <2> QED
    BY <1>1, <1>2, <1>3, <2>2, <2>3 DEF StackInv, Midstack, Lies
<1>4. CASE mCurState = 2
  <2>1. Top = Wrap(reg["SP"] - 1) /\ Top' = Wrap(Wrap(reg["SP"] + 1) - 2) /\ mCache = Read(Top)
    BY <1>1, <1>2, <1>4 DEF Top, StackInv, Midstack
  <2>2. Top' = Top /\ Wrap(Top + 1) = reg["SP"]
    BY <1>2, <2>1, UpAndDown
  <2>3. mCache' = Read(Top) + 256 * Read(Wrap(Top + 1))
    BY <1>1, <1>4, <2>1, <2>2
  <2>4. mCache' = Popped(Top)'
    BY <1>1, <2>2, <2>3 DEF Popped, Read
  <2> QED
    BY <1>1, <1>2, <1>4, <2>2, <2>4 DEF StackInv, Midstack, Lies
<1> QED
  BY <1>1, <1>3, <1>4

(* A word read from the stack is the last one pushed. *)
LEMMA WordTaken ==
  ASSUME mem \in Memory, NEW top \in Word, NEW g \in Seq(Word), Lies(mem, top, g), g # <<>>
  PROVE  Popped(top) = Head(g)
BY TakenOff DEF Popped, Read

(* RET jumps: the word is popped. *)
LEMMA JumpsKeeps ==
  ASSUME Typed, Midway, Committed, StackInv, text # <<>>, Handler, Watch, Follow, Jumps
  PROVE  StackInv' /\ (ghost # <<>> => reg'["PC"] = Head(ghost))
<1>1. /\ mCurState = 3 /\ Reset /\ Returning /\ ~Calling /\ ~Pushes /\ Pops
      /\ reg'["SP"] = reg["SP"] /\ mem' = mem /\ reg'["PC"] = mCache
  <2>1. mCurState = 3 /\ RET
    BY DEF Jumps
  <2>2. ~(Cur.op = "RETcc" /\ ~Taken)
    BY <2>1 DEF Committed
  <2>3. Sets([In EXCEPT !["PC"] = mCache]) /\ Reset
    BY <2>1, <2>2 DEF RET, Wait
  <2>4. In \in RegFile /\ In["SP"] = reg["SP"]
    BY Found, StepOnStack
  <2>5. Pops
    BY <2>1 DEF RET, Pops
  <2> QED
    BY <2>1, <2>3, <2>4, <2>5, StackOpsKnown DEF Sets, Leave, RegFile, Regs
<1>2. /\ mCurState' = 0 /\ text' # text /\ mem \in Memory /\ reg["SP"] \in Word
      /\ Top \in Word /\ Lies(mem, Top, ghost) /\ ghost \in Seq(Word)
  BY <1>1, StepOnStack
<1>3. ghost' = IF ghost = <<>> THEN <<>> ELSE Tail(ghost)
  BY <1>1, <1>2 DEF Follow
<1>4. Top' = reg["SP"] /\ Top = Wrap(reg["SP"] - 2) /\ mCache = Popped(Top)
  BY <1>1, <1>2 DEF Top, StackInv, Midstack
<1>5. Wrap(Top + 2) = reg["SP"]
  BY <1>2, <1>4, UpAndDown
<1>6. CASE ghost = <<>>
  BY <1>2, <1>3, <1>6 DEF StackInv, Midstack, Lies
<1>7. CASE ghost # <<>>
  <2>1. Lies(mem, reg["SP"], Tail(ghost)) /\ Tail(ghost) \in Seq(Word)
    BY <1>2, <1>5, <1>7, TakenOff
  <2>2. reg'["PC"] = Head(ghost)
    BY <1>1, <1>2, <1>4, <1>7, WordTaken
  <2> QED
    BY <1>1, <1>2, <1>3, <1>4, <1>7, <2>1, <2>2 DEF StackInv, Midstack, Lies
<1> QED
  BY <1>6, <1>7

(* PUSH and RST push a word at once. *)
LEMMA PushKeeps ==
  ASSUME Typed, Midway, Committed, StackInv, text # <<>>, Handler, Watch, Follow,
         mCurState = 0, Reset, PUSH_r16 \/ RST_n
  PROVE  StackInv'
<1> DEFINE v == WordPushed
           sp == Wrap(reg["SP"] - 2)
<1>1. /\ mCurState' = 0 /\ text' # text /\ mem \in Memory /\ reg["SP"] \in Word
      /\ Lies(mem, reg["SP"], ghost) /\ ghost \in Seq(Word) /\ In["SP"] = reg["SP"]
  BY StepOnStack DEF Top
<1>2. v \in Word
  BY Found, InstrTyped DEF PUSH_r16, RST_n, WordPushed, Pairs
<1>3. reg'["SP"] = sp /\ mem' = Pushed(mem, reg["SP"], v) /\ Pushes
  <2>1. In \in RegFile
    BY Found
  <2>2. PUSH_r16 => v = Pair(In, Cur.p1) /\ reg' = [In EXCEPT !["SP"] = Wrap(@ - 2)] /\ Pushes
                    /\ mem' = Pushed(mem, In["SP"], Pair(In, Cur.p1))
    BY DEF PUSH_r16, Leave, WordPushed, Pushes
  <2>3. RST_n => v = In["PC"] /\ reg' = [In EXCEPT !["SP"] = Wrap(@ - 2), !["PC"] = Cur.n] /\ Pushes
                 /\ mem' = Pushed(mem, In["SP"], In["PC"])
    BY DEF RST_n, Leave, WordPushed, Pushes
  <2> HIDE DEF v
  <2> QED
    BY <1>1, <2>1, <2>2, <2>3 DEF RegFile, Regs
<1>4. ghost' = IF OnStack(sp) THEN <<v>> \o ghost ELSE <<>>
  BY <1>1, <1>3 DEF Follow
<1> HIDE DEF v
<1>5. Top' = sp
  BY <1>1, <1>3 DEF Top
<1>6. CASE OnStack(sp)
  <2>1. Lies(mem', sp, <<v>> \o ghost) /\ <<v>> \o ghost \in Seq(Word)
    BY <1>1, <1>2, <1>3, <1>6, WordPut
  <2> QED
    BY <1>1, <1>4, <1>5, <1>6, <2>1 DEF StackInv, Midstack, Lies
<1>7. CASE ~OnStack(sp)
  BY <1>1, <1>4, <1>7 DEF StackInv, Midstack, Lies
<1> QED
  BY <1>6, <1>7

(* The flags of a word are those of its low byte. *)
LEMMA FlagsOfWord == \A v \in Word : FlagsIn(v) = FlagsIn(Low(v))
<1>1. \A n \in Int : 0 <= n /\ n <= 65535 =>
        /\ (n \div 16) % 2 = ((n % 256) \div 16) % 2 /\ (n \div 32) % 2 = ((n % 256) \div 32) % 2
        /\ (n \div 64) % 2 = ((n % 256) \div 64) % 2 /\ (n \div 128) % 2 = ((n % 256) \div 128) % 2
  OBVIOUS
<1>2. \A v \in Word : \A w \in {16, 32, 64, 128} : Bit(v, w) = Bit(Low(v), w)
  BY <1>1, WordBounds DEF Bit, Low
<1> QED
  BY <1>2 DEF FlagsIn, Flags

(* POP reads the word and leaves the rest. *)
LEMMA PopKeeps ==
  ASSUME Typed, Midway, Committed, StackInv, text # <<>>, Handler, Watch, Follow,
         mCurState = 0, Reset, POP_r16
  PROVE  /\ StackInv'
         /\ ghost # <<>> =>
              LET w == Head(ghost)
              IN IF Cur.p1 = "AF" THEN reg'["A"] = w \div 256 /\ fl' = FlagsIn(Low(w))
                 ELSE 256 * reg'[High[Cur.p1]] + reg'[LowOf[Cur.p1]] = w
<1> DEFINE v == Popped(reg["SP"])
           r == [In EXCEPT !["SP"] = Wrap(In["SP"] + 2)]
           sp == Wrap(reg["SP"] + 2)
<1>1. /\ mCurState' = 0 /\ text' # text /\ mem \in Memory /\ reg["SP"] \in Word
      /\ Lies(mem, reg["SP"], ghost) /\ ghost \in Seq(Word) /\ In["SP"] = reg["SP"]
  BY StepOnStack DEF Top
<1>2. /\ Cur.op = "POP" /\ Cur.p1 \in {"AF", "BC", "DE", "HL"}
      /\ r \in RegFile /\ r["SP"] = sp /\ v \in Word
  <2>1. In \in RegFile
    BY Found
  <2>2. r \in RegFile /\ v \in Word
    BY <1>1, <2>1, StackSteps, MemoryTyped
  <2>3. r["SP"] = sp
    BY <1>1, <2>1 DEF RegFile, Regs
  <2> QED
    BY <2>2, <2>3, Found, InstrTyped DEF POP_r16
<1>3. /\ reg' = Wide(r, Cur.p1, v) /\ mem' = mem
      /\ Cur.p1 = "AF" => fl' = FlagsIn(v)
  BY <1>1 DEF POP_r16, SetsFlags, Leave
<1>4. ghost' = IF ghost = <<>> THEN <<>> ELSE Tail(ghost)
  BY <1>1, <1>2 DEF Follow, Pushes, Pops
<1> DEFINE hi == v \div 256
           lo == Low(v)
<1>5. /\ Cur.p1 = "AF" => reg' = [r EXCEPT !["A"] = hi]
      /\ Cur.p1 # "AF" => reg' = [r EXCEPT ![High[Cur.p1]] = hi, ![LowOf[Cur.p1]] = lo]
  BY <1>2, <1>3 DEF Wide
<1>6. 256 * hi + lo = v /\ FlagsIn(v) = FlagsIn(lo)
  BY <1>2, Halves, FlagsOfWord
<1> HIDE DEF r, hi, lo, v
<1>7. /\ reg'["SP"] = sp
      /\ Cur.p1 = "AF" => reg'["A"] = hi
      /\ Cur.p1 # "AF" => reg'[High[Cur.p1]] = hi /\ reg'[LowOf[Cur.p1]] = lo
  <2>1. r \in [Regs -> Word] /\ {"SP", "A", "B", "C", "D", "E", "H", "L"} \subseteq Regs
    BY <1>2 DEF RegFile, Regs, Bytes8
  <2> QED
    BY <1>2, <1>5, <2>1 DEF High, LowOf
<1>8. Top' = sp
  BY <1>1, <1>7 DEF Top
<1>9. CASE ghost = <<>>
  BY <1>1, <1>4, <1>9 DEF StackInv, Midstack, Lies
<1>10. CASE ghost # <<>>
  <2>1. Lies(mem, sp, Tail(ghost)) /\ Tail(ghost) \in Seq(Word)
    BY <1>1, <1>10, TakenOff
  <2>2. v = Head(ghost)
    BY <1>1, <1>10, WordTaken DEF v
  <2>3. StackInv'
    BY <1>1, <1>3, <1>4, <1>8, <1>10, <2>1 DEF StackInv, Midstack, Lies
  <2> QED
    BY <1>3, <1>6, <1>7, <2>2, <2>3 DEF hi, lo
<1> QED
  BY <1>9, <1>10

(* Every handler keeps the words on the stack, and a pop takes the last one. *)
LEMMA StackKept ==
  ASSUME Typed, Midway, Committed, StackInv, text # <<>>, Handler, Watch, Follow
  PROVE  StackInv'
<1>1. Direct => StackInv'
  BY PushKeeps, PopKeeps DEF Direct
<1> QED
  BY <1>1, StackKinds, QuietKeeps, SettlesKeeps, HalfKeeps, WholeKeeps, FetchesKeeps, JumpsKeeps

(* POP and RET are done by their handlers alone. *)
LEMMA OnlyPop ==
  ASSUME Handler, Cur.op = "POP"
  PROVE  mCurState = 0 /\ Reset /\ POP_r16
<1>1. Cur.op \notin Delayed /\ Cur.op \notin Accumulate /\ Cur.op \notin Rotate /\ Cur.op \notin {"RES", "SET", "BIT"}
  BY DEF Delayed, Accumulate, Rotate
<1>2. Single
  BY <1>1 DEF Handler, Transfer, LD_HL_SP_p_r8, Inc_Dec_arHL, AluOp, OnRegister, ReadByte, RotateByte,
              ChangeBit, BIT_arHL, JP, CALL, RET
<1> QED
  BY <1>2 DEF Single, LD_r16_d16, LD_r8_d8, LD_r8_r8, LD_SP_HL, LD_a16_SP, Nop_Stop, Inc_Dec_r16, Inc_Dec_r8,
              ADD_HL_r16, DAA_CPL_SCF_CCF, JR, JP_arHL, RST_n, PUSH_r16

(* A return is done by RET alone. *)
LEMMA OnlyRet ==
  ASSUME Handler, Returning
  PROVE  RET
<1>1. Cur.op \notin Delayed /\ Cur.op \notin Accumulate /\ Cur.op \notin Rotate /\ Cur.op \notin {"RES", "SET", "BIT"}
  BY DEF Delayed, Accumulate, Rotate, Returning
<1>2. ~Single
  BY StackOpsKnown
<1> QED
  BY <1>1, <1>2 DEF Handler, Transfer, LD_HL_SP_p_r8, Inc_Dec_arHL, AluOp, OnRegister, ReadByte, RotateByte,
                    ChangeBit, BIT_arHL, JP, CALL, Returning

(* What an instruction pops is what the matching one pushed, for every program,
   every nesting of calls, and every memory that leaves an address empty: the
   words pushed and not yet popped lie in order on the stack, and no write can
   reach them. *)
THEOREM PopMatchesHolds == Spec => PopMatches
<1> DEFINE Inv == IInv /\ Committed /\ StackInv
           Matches ==
             text' # text /\ Pops /\ ghost # <<>> =>
               LET w == Head(ghost)
               IN IF Cur.op # "POP" THEN reg'["PC"] = w
                  ELSE IF Cur.p1 = "AF" THEN reg'["A"] = w \div 256 /\ fl' = FlagsIn(Low(w))
                  ELSE 256 * reg'[High[Cur.p1]] + reg'[LowOf[Cur.p1]] = w
<1>1. Init => Inv
  BY StartsSafe DEF Init, Committed, StackInv, Midstack, Lies
<1>2. Inv /\ [Next]_vars => Inv'
  <2> SUFFICES ASSUME Inv, [Next]_vars PROVE Committed' /\ StackInv'
    BY StepSafe
  <2>1. CASE Next
    BY <2>1, CommittedKept, StackKept DEF Next, IInv
  <2>2. CASE UNCHANGED vars
    <3>1. /\ Cur' = Cur /\ Was' = Was /\ mCurState' = mCurState /\ fl' = fl /\ reg' = reg /\ mem' = mem
          /\ ghost' = ghost /\ mCache' = mCache
      BY <2>2 DEF vars, machine, Cur, Was
    <3> QED
      BY <3>1 DEF Committed, Taken, StackInv, Midstack, Lies, Top, Calling, Returning, Read, Popped
  <2> QED
    BY <2>1, <2>2
<1>3. Inv /\ [Next]_vars => [Matches]_vars
  <2> SUFFICES ASSUME Inv, Next, text' # text, Pops, ghost # <<>> PROVE Matches
    OBVIOUS
  <2>1. Typed /\ Midway /\ Committed /\ StackInv /\ text # <<>> /\ Handler /\ Watch /\ Follow
    BY DEF Next, IInv
  <2>2. CASE Cur.op = "POP"
    <3>1. mCurState = 0 /\ Reset /\ POP_r16
      BY <2>1, <2>2, OnlyPop
    <3> QED
      BY <2>1, <2>2, <3>1, PopKeeps
  <2>3. CASE Cur.op # "POP"
    <3>1. Returning /\ mCurState = 3
      BY <2>3 DEF Pops, Returning
    <3>2. Jumps
      BY <2>1, <2>3, <3>1, OnlyRet DEF Jumps
    <3> QED
      BY <2>1, <2>3, <3>2, JumpsKeeps
  <2> QED
    BY <2>2, <2>3
<1> QED
  BY <1>1, <1>2, <1>3, PTL DEF Spec, PopMatches
=============================================================================
