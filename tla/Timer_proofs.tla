---------------------------- MODULE Timer_proofs ----------------------------
(***************************************************************************)
(* The timer of Timer.tla implements TimerSpec for every width of its      *)
(* counters and every tap of the system counter.  The arithmetic comes     *)
(* first: the falling edge of a tap is a multiple of twice its weight, and *)
(* the closed form of TimerSpec advances one cycle as the loop does.       *)
(***************************************************************************)
EXTENDS Timer, TLAPS

(* Quotient and remainder, in the form the other lemmas use. *)
LEMMA DivMod ==
  ASSUME NEW x \in Nat, NEW m \in Nat \ {0}
  PROVE  /\ x \div m \in Nat
         /\ x % m \in 0 .. m - 1
         /\ x = m * (x \div m) + (x % m)
  OBVIOUS

(* Zero is the only multiple of m strictly between -m and m. *)
LEMMA NoMultipleBetween ==
  ASSUME NEW m \in Nat \ {0}, NEW d \in Int, NEW e \in Int,
         e = m * d, -m < e, e < m
  PROVE  d = 0
<1>1. CASE d >= 1
  <2>1. m * d >= m
    BY <1>1
  <2> QED BY <2>1
<1>2. CASE d <= -1
  <2>1. m * d <= -m
    BY <1>2
  <2> QED BY <2>1
<1> QED BY <1>1, <1>2

(* Quotient and remainder are unique. *)
LEMMA ModUnique ==
  ASSUME NEW m \in Nat \ {0}, NEW q \in Nat, NEW r \in 0 .. m - 1, NEW y \in Nat, y = m * q + r
  PROVE  y % m = r /\ y \div m = q
<1> DEFINE qq == y \div m
           rr == y % m
<1>1. qq \in Nat /\ rr \in 0 .. m - 1 /\ y = m * qq + rr
  BY DivMod
<1>2. m * q - m * qq = rr - r
  BY <1>1
<1>3. m * q - m * qq = m * (q - qq)
  BY <1>1
<1> HIDE DEF qq, rr
<1>4. q - qq = 0
  BY <1>1, <1>2, <1>3, NoMultipleBetween
<1>5. qq = q /\ rr = r
  BY <1>1, <1>4, <1>2
<1> QED BY <1>5 DEF qq, rr

(* How quotient and remainder change when the dividend grows by one. *)
LEMMA NextMod ==
  ASSUME NEW x \in Nat, NEW m \in Nat \ {0}
  PROVE  /\ (x % m) + 1 = m => (x + 1) % m = 0 /\ (x + 1) \div m = (x \div m) + 1
         /\ (x % m) + 1 # m => (x + 1) % m = (x % m) + 1 /\ (x + 1) \div m = x \div m
<1> DEFINE q == x \div m
           r == x % m
<1>1. q \in Nat /\ r \in 0 .. m - 1 /\ x = m * q + r
  BY DivMod
<1> HIDE DEF q, r
<1>2. CASE r + 1 # m
  <2>1. r + 1 \in 0 .. m - 1 /\ x + 1 = m * q + (r + 1)
    BY <1>1, <1>2
  <2>2. (x + 1) % m = r + 1 /\ (x + 1) \div m = q
    BY <1>1, <2>1, ModUnique
  <2> QED BY <1>2, <2>2 DEF q, r
<1>3. CASE r + 1 = m
  <2>1. m * (q + 1) = m * q + m
    BY <1>1
  <2> DEFINE q1 == q + 1
  <2>2. x + 1 = m * q1 + 0 /\ q1 \in Nat /\ 0 \in 0 .. m - 1 /\ x + 1 \in Nat
    BY <1>1, <1>3, <2>1
  <2> HIDE DEF q1
  <2>3. (x + 1) % m = 0 /\ (x + 1) \div m = q1
    BY <2>2, ModUnique
  <2> QED BY <1>3, <2>3 DEF q, q1, r
<1> QED BY <1>2, <1>3

(* Adding one before or after taking the remainder is the same. *)
LEMMA WrapStep ==
  ASSUME NEW x \in Nat, NEW m \in Nat \ {0}
  PROVE  ((x % m) + 1) % m = (x + 1) % m
<1> DEFINE r == x % m
<1>1. r \in 0 .. m - 1
  BY DivMod
<1>2. r + 1 = m => (x + 1) % m = 0
  BY NextMod
<1>3. r + 1 # m => (x + 1) % m = r + 1
  BY NextMod
<1> HIDE DEF r
<1>4. r + 1 = m => (r + 1) % m = 0
  BY <1>1
<1>5. r + 1 # m => (r + 1) % m = r + 1
  BY <1>1
<1>6. (r + 1) % m = (x + 1) % m
  BY <1>2, <1>3, <1>4, <1>5
<1> QED BY <1>6 DEF r

(* A remainder modulo a multiple of p keeps the remainder modulo p. *)
LEMMA ModOfMod ==
  ASSUME NEW x \in Nat, NEW p \in Nat \ {0}, NEW m \in Nat \ {0}, m % p = 0
  PROVE  (x % m) % p = x % p
<1> DEFINE k == m \div p
           q == x \div m
           s == x % m
           t == s \div p
           r == s % p
<1>1. k \in Nat /\ m = p * k + 0
  BY DivMod
<1>2. q \in Nat /\ s \in Nat /\ x = m * q + s
  BY DivMod
<1>3. t \in Nat /\ r \in 0 .. p - 1 /\ s = p * t + r
  BY <1>2, DivMod
<1> HIDE DEF k, q, s, t, r
<1>4. m * q = (p * k) * q
  BY <1>1, <1>2
<1>5. (p * k) * q = p * (k * q)
  BY <1>1, <1>2
<1>6. p * (k * q + t) = p * (k * q) + p * t
  BY <1>1, <1>2, <1>3
<1>7. k * q \in Nat
  BY <1>1, <1>2
<1>8. k * q + t \in Nat /\ x = p * (k * q + t) + r
  BY <1>2, <1>3, <1>4, <1>5, <1>6, <1>7
<1>9. x % p = r
  BY <1>3, <1>8, ModUnique
<1> QED BY <1>9 DEF r, s

(* A tap of the system counter is set in the upper half of its period. *)
LEMMA BitOfPeriod ==
  ASSUME NEW b \in Nat \ {0}, NEW s \in Nat
  PROVE  BitSet(s, b) <=> s % (2 * b) >= b
<1> DEFINE q == s \div (2 * b)
           r == s % (2 * b)
<1>1. 2 * b \in Nat \ {0}
  OBVIOUS
<1>2. q \in Nat /\ r \in 0 .. 2 * b - 1 /\ s = (2 * b) * q + r
  BY <1>1, DivMod
<1> HIDE DEF q, r
<1>3. (2 * b) * q = b * (2 * q)
  BY <1>2
<1>4. b * (2 * q + 1) = b * (2 * q) + b
  BY <1>2
<1>5. CASE r < b
  <2>1. s = b * (2 * q) + r /\ r \in 0 .. b - 1 /\ 2 * q \in Nat
    BY <1>2, <1>3, <1>5
  <2>2. s \div b = 2 * q
    BY <2>1, ModUnique
  <2>3. (2 * q) % 2 = 0
    BY <1>2
  <2> QED BY <1>5, <1>2, <2>2, <2>3 DEF BitSet, r
<1>6. CASE r >= b
  <2>1. s = b * (2 * q + 1) + (r - b) /\ r - b \in 0 .. b - 1 /\ 2 * q + 1 \in Nat
    BY <1>2, <1>3, <1>4, <1>6
  <2>2. s \div b = 2 * q + 1
    BY <2>1, ModUnique
  <2>3. (2 * q + 1) % 2 = 1
    BY <1>2
  <2> QED BY <1>6, <1>2, <2>2, <2>3 DEF BitSet, r
<1> QED BY <1>2, <1>5, <1>6

(* The counter falls off a tap exactly when it reaches a multiple of the   *)
(* tap's period, the wrap of the counter itself included.                  *)
LEMMA Edge ==
  ASSUME NEW b \in MuxBits, NEW s \in Counts
  PROVE  Falling(s, Successor(s), b) <=> (s + 1) % (2 * b) = 0
<1> DEFINE p == 2 * b
<1>1. b \in Nat \ {0} /\ SysMod % p = 0 /\ SysMod \in Nat \ {0}
  BY MuxBitsAssumption, SysModAssumption
<1>2. p \in Nat \ {0} /\ s \in Nat /\ s + 1 \in Nat
  BY <1>1 DEF Counts
<1>3. Successor(s) \in Nat
  BY <1>1, <1>2, DivMod DEF Successor
<1>4. Successor(s) % p = (s + 1) % p
  BY <1>1, <1>2, ModOfMod DEF Successor
<1>5. BitSet(s, b) <=> s % p >= b
  BY <1>1, <1>2, BitOfPeriod
<1>6. BitSet(Successor(s), b) <=> (s + 1) % p >= b
  BY <1>1, <1>3, <1>4, BitOfPeriod
<1>7. s % p \in 0 .. p - 1
  BY <1>2, DivMod
<1>8. (s % p) + 1 = p => (s + 1) % p = 0
  BY <1>2, NextMod
<1>9. (s % p) + 1 # p => (s + 1) % p = (s % p) + 1
  BY <1>2, NextMod
<1>10. Falling(s, Successor(s), b) <=> (s % p >= b /\ ~((s + 1) % p >= b))
  BY <1>5, <1>6 DEF Falling
<1> DEFINE u == s % p
           v == (s + 1) % p
<1> HIDE DEF u, v
<1>11. (u >= b /\ ~(v >= b)) <=> v = 0
  <2>1. u \in 0 .. p - 1 /\ (u + 1 = p => v = 0) /\ (u + 1 # p => v = u + 1)
    BY <1>7, <1>8, <1>9 DEF u, v
  <2> QED BY <2>1, <1>1
<1> QED BY <1>10, <1>11 DEF u, v

(* One more cycle passes one more multiple exactly when it reaches one. *)
LEMMA PassedStep ==
  ASSUME NEW s \in Nat, NEW n \in Nat, NEW p \in Nat \ {0}
  PROVE  /\ Promise!Passed(s, n, p) \in Int
         /\ (s + n + 1) % p = 0 =>
              Promise!Passed(s, n + 1, p) = Promise!Passed(s, n, p) + 1
         /\ (s + n + 1) % p # 0 =>
              Promise!Passed(s, n + 1, p) = Promise!Passed(s, n, p)
<1> DEFINE x == s + n
<1>1. x \in Nat /\ x + 1 = s + (n + 1)
  OBVIOUS
<1>2. (x % p) + 1 = p => (x + 1) % p = 0 /\ (x + 1) \div p = (x \div p) + 1
  BY <1>1, NextMod
<1>3. (x % p) + 1 # p => (x + 1) % p = (x % p) + 1 /\ (x + 1) \div p = x \div p
  BY <1>1, NextMod
<1>4. x % p \in 0 .. p - 1 /\ x \div p \in Nat /\ s \div p \in Nat
  BY <1>1, DivMod
<1>5. /\ Promise!Passed(s, n, p) = (x \div p) - (s \div p)
      /\ Promise!Passed(s, n + 1, p) = ((x + 1) \div p) - (s \div p)
  BY <1>1 DEF Promise!Passed
<1>6. (x + 1) % p = 0 => (x + 1) \div p = (x \div p) + 1
  BY <1>2, <1>3, <1>4
<1>7. (x + 1) % p # 0 => (x + 1) \div p = x \div p
  BY <1>2, <1>3
<1> QED BY <1>4, <1>5, <1>6, <1>7

(* One more increment in the closed form is the increment of the loop.     *)
LEMMA CountStep ==
  ASSUME NEW t \in Values, NEW r \in Values, NEW e \in Nat
  PROVE  LET c == Promise!Count(t, r, e)
         IN /\ c \in Values
            /\ c + 1 = TimaMod => Promise!Count(t, r, e + 1) = r
            /\ c + 1 # TimaMod => Promise!Count(t, r, e + 1) = c + 1
            /\ t + (e + 1) >= TimaMod <=> (t + e >= TimaMod \/ c + 1 = TimaMod)
<1> DEFINE c == Promise!Count(t, r, e)
           c1 == Promise!Count(t, r, e + 1)
           m == TimaMod - r
           y == t + e - TimaMod
<1>1. TimaMod \in Nat \ {0} /\ t \in 0 .. TimaMod - 1 /\ r \in 0 .. TimaMod - 1 /\ e \in Nat
  BY TimaModAssumption DEF Values
<1>2. m \in Nat \ {0}
  BY <1>1
<1>3. CASE t + e + 1 < TimaMod
  <2>1. c = t + e /\ c1 = t + e + 1
    BY <1>1, <1>3 DEF Promise!Count
  <2> QED BY <1>1, <1>3, <2>1 DEF Values
<1>4. CASE t + e + 1 = TimaMod
  <2>1. c = t + e
    BY <1>1, <1>4 DEF Promise!Count
  <2>2. 0 % m = 0
    BY <1>2
  <2>3. c1 = r + ((t + (e + 1) - TimaMod) % m) /\ t + (e + 1) - TimaMod = 0
    BY <1>1, <1>4 DEF Promise!Count
  <2>4. c1 = r
    BY <2>2, <2>3, <1>1
  <2> QED BY <1>1, <1>4, <2>1, <2>4 DEF Values
<1>5. CASE t + e >= TimaMod
  <2>1. y \in Nat /\ t + (e + 1) - TimaMod = y + 1
    BY <1>1, <1>5
  <2>2. c = r + (y % m)
    BY <1>1, <1>5 DEF Promise!Count
  <2>3. c1 = r + ((y + 1) % m)
    BY <1>1, <1>5, <2>1 DEF Promise!Count
  <2>4. y % m \in 0 .. m - 1
    BY <2>1, <1>2, DivMod
  <2>5. /\ (y % m) + 1 = m => (y + 1) % m = 0
        /\ (y % m) + 1 # m => (y + 1) % m = (y % m) + 1
    BY <2>1, <1>2, NextMod
  <2> DEFINE u == y % m
             v == (y + 1) % m
  <2> HIDE DEF u, v
  <2>6. u \in 0 .. (TimaMod - r) - 1 /\ c = r + u /\ c1 = r + v
    BY <2>2, <2>3, <2>4 DEF u, v
  <2>7. /\ u + 1 = TimaMod - r => v = 0
        /\ u + 1 # TimaMod - r => v = u + 1
    BY <2>5 DEF u, v
  <2> HIDE DEF c, c1
  <2>8. c \in Values /\ (c + 1 = TimaMod => c1 = r) /\ (c + 1 # TimaMod => c1 = c + 1)
    BY <1>1, <2>6, <2>7 DEF Values
  <2>9. t + (e + 1) >= TimaMod <=> (t + e >= TimaMod \/ c + 1 = TimaMod)
    BY <1>1, <1>5
  <2> QED BY <2>8, <2>9 DEF c, c1
<1> QED BY <1>1, <1>3, <1>4, <1>5

(* Division is monotone. *)
LEMMA DivMono ==
  ASSUME NEW s \in Nat, NEW n \in Nat, NEW p \in Nat \ {0}
  PROVE  s \div p <= (s + n) \div p
<1> DEFINE a == s \div p
           ra == s % p
           b == (s + n) \div p
           rb == (s + n) % p
<1>1. a \in Nat /\ ra \in 0 .. p - 1 /\ s = p * a + ra
  BY DivMod
<1>2. b \in Nat /\ rb \in 0 .. p - 1 /\ s + n = p * b + rb
  <2>1. s + n \in Nat
    OBVIOUS
  <2> QED BY <2>1, DivMod
<1> HIDE DEF a, ra, b, rb
<1>3. SUFFICES ASSUME b < a PROVE FALSE
  BY <1>1, <1>2 DEF a, b
<1>4. a - b \in Nat /\ a - b >= 1
  BY <1>1, <1>2, <1>3
<1>5. p * (a - b) >= p
  BY <1>4
<1>6. p * (a - b) = p * a - p * b
  BY <1>1, <1>2
<1> QED BY <1>1, <1>2, <1>5, <1>6
-----------------------------------------------------------------------------
(* Between two cycles of a call the loop has done what the closed form     *)
(* says for the cycles so far, so the invariant of the call is all three.  *)
IInv == TypeOK /\ CallConsistent /\ Accumulated

(* One iteration of the loop of IoTimer::tick advances the closed form by  *)
(* one cycle.                                                              *)
LEMMA OneCycle ==
  ASSUME IInv, TickCycle
  PROVE  LET d  == start.n - cycles + 1
             e1 == Promise!Passed(start.sys, d, 2 * mMuxBit)
         IN /\ mSysTick' = (start.sys + d) % SysMod
            /\ mSysTick' \in Counts
            /\ mTIMA' \in Values
            /\ mTIMA' = Promise!Count(start.tima, mTMA, e1)
            /\ requested' \in BOOLEAN
            /\ requested' <=> (start.irq \/ start.tima + e1 >= TimaMod)
<1> DEFINE d == start.n - cycles
           p == 2 * mMuxBit
           x == start.sys + d
           e == Promise!Passed(start.sys, d, p)
           e1 == Promise!Passed(start.sys, d + 1, p)
<1>1. ~Idle /\ mStarted
  BY DEF IInv, CallConsistent, TickCycle
<1>2. mMuxBit \in MuxBits /\ mMuxBit \in Nat \ {0}
  BY <1>1, MuxBitsAssumption DEF IInv, CallConsistent, TypeOK
<1>3. p \in Nat \ {0} /\ SysMod \in Nat \ {0} /\ SysMod % p = 0
  BY <1>2, MuxBitsAssumption, SysModAssumption
<1>4. start.sys \in Counts /\ start.tima \in Values /\ start.irq \in BOOLEAN /\ start.n \in 0 .. MaxTick
  BY DEF IInv, TypeOK
<1>5. d \in Nat /\ start.sys \in Nat /\ x \in Nat
  <2>1. cycles \in Nat /\ cycles <= start.n /\ start.n \in Nat /\ start.sys \in Nat
    BY <1>1, <1>4, MaxTickAssumption, SysModAssumption DEF IInv, TypeOK, CallConsistent, Counts
  <2> QED BY <2>1
<1>6. mSysTick = x % SysMod /\ oldSysTick = mSysTick /\ mSysTick \in Counts /\ mSysTick \in Nat
  BY <1>1, SysModAssumption DEF IInv, TypeOK, CallConsistent, Counts
<1>7. e \in Nat
  <2>1. start.sys \div p <= x \div p
    BY <1>3, <1>5, DivMono
  <2>2. start.sys \div p \in Nat /\ x \div p \in Nat
    BY <1>3, <1>5, DivMod
  <2> QED BY <2>1, <2>2 DEF Promise!Passed
<1>8. mSysTick' = (x + 1) % SysMod
  <2>1. mSysTick' = (mSysTick + 1) % SysMod
    BY DEF TickCycle, Successor
  <2> QED BY <2>1, <1>3, <1>5, <1>6, WrapStep
<1>9. Falling(oldSysTick, mSysTick', mMuxBit) <=> (x + 1) % p = 0
  <2>1. Falling(mSysTick, Successor(mSysTick), mMuxBit) <=> (mSysTick + 1) % p = 0
    BY <1>2, <1>6, Edge
  <2>2. mSysTick % p = x % p
    BY <1>3, <1>5, <1>6, ModOfMod
  <2>3. ((mSysTick % p) + 1) % p = (mSysTick + 1) % p
    BY <1>3, <1>6, WrapStep
  <2>4. ((x % p) + 1) % p = (x + 1) % p
    BY <1>3, <1>5, WrapStep
  <2>5. mSysTick' = Successor(mSysTick)
    BY DEF TickCycle
  <2> QED BY <2>1, <2>2, <2>3, <2>4, <2>5, <1>6
<1>10. /\ (x + 1) % p = 0 => e1 = e + 1
       /\ (x + 1) % p # 0 => e1 = e
  BY <1>3, <1>5, PassedStep
<1>11. mTMA \in Values /\ mTIMA \in Values /\ requested \in BOOLEAN
  BY DEF IInv, TypeOK
<1>12. /\ mTIMA = Promise!Count(start.tima, mTMA, e)
       /\ requested <=> (start.irq \/ start.tima + e >= TimaMod)
  BY <1>1 DEF IInv, Accumulated
<1>13. /\ mTIMA + 1 = TimaMod => Promise!Count(start.tima, mTMA, e + 1) = mTMA
       /\ mTIMA + 1 # TimaMod => Promise!Count(start.tima, mTMA, e + 1) = mTIMA + 1
       /\ start.tima + (e + 1) >= TimaMod <=> (start.tima + e >= TimaMod \/ mTIMA + 1 = TimaMod)
  <2> DEFINE t == start.tima
  <2>1. t \in Values /\ mTMA \in Values /\ e \in Nat /\ mTIMA = Promise!Count(t, mTMA, e)
    BY <1>4, <1>7, <1>11, <1>12
  <2> HIDE DEF e, t
  <2>2. /\ mTIMA + 1 = TimaMod => Promise!Count(t, mTMA, e + 1) = mTMA
        /\ mTIMA + 1 # TimaMod => Promise!Count(t, mTMA, e + 1) = mTIMA + 1
        /\ t + (e + 1) >= TimaMod <=> (t + e >= TimaMod \/ mTIMA + 1 = TimaMod)
    BY <2>1, CountStep, ZenonT(60)
  <2> QED BY <2>2 DEF t, e
<1>14. (x + 1) % SysMod \in Counts
  <2>1. x + 1 \in Nat
    BY <1>5
  <2> QED BY <2>1, <1>3, DivMod DEF Counts
<1>15. /\ mTIMA' \in Values
       /\ mTIMA' = Promise!Count(start.tima, mTMA, e1)
       /\ requested' \in BOOLEAN
       /\ requested' <=> (start.irq \/ start.tima + e1 >= TimaMod)
  <2>1. CASE (x + 1) % p = 0
    <3>1. mTIMA' = Incremented(mTIMA) /\ requested' = Requested(mTIMA)
      BY <2>1, <1>9 DEF TickCycle
    <3>2. mTIMA' = Promise!Count(start.tima, mTMA, e + 1)
      BY <3>1, <1>13 DEF Incremented
    <3>3. mTIMA' \in Values
      BY <3>1, <1>11, TimaModAssumption DEF Incremented, Values
    <3>4. requested' <=> (start.irq \/ start.tima + (e + 1) >= TimaMod)
      BY <3>1, <1>12, <1>13 DEF Requested
    <3>5. requested' \in BOOLEAN
      BY <3>1, <1>11 DEF Requested
    <3> QED BY <2>1, <3>2, <3>3, <3>4, <3>5, <1>10
  <2>2. CASE (x + 1) % p # 0
    <3>1. mTIMA' = mTIMA /\ requested' = requested
      BY <2>2, <1>9 DEF TickCycle
    <3> QED BY <2>2, <3>1, <1>10, <1>11, <1>12
  <2> QED BY <2>1, <2>2
<1>16. start.sys + (d + 1) = x + 1
  BY <1>5
<1> QED BY <1>8, <1>14, <1>15, <1>16

(* The state the constructor leaves satisfies the invariant. *)
LEMMA InitInv == Init => IInv
<1> SUFFICES ASSUME Init PROVE IInv
  OBVIOUS
<1>1. Idle /\ ~mStarted
  BY DEF Init, Idle
<1>2. NoCall \in [sys : Counts, tima : Values, irq : BOOLEAN, n : 0 .. MaxTick]
  BY SysModAssumption, TimaModAssumption, MaxTickAssumption DEF NoCall, Counts, Values
<1>3. 0 \in Counts /\ 0 \in Values /\ 0 \in 0 .. MaxTick
  BY SysModAssumption, TimaModAssumption, MaxTickAssumption DEF Counts, Values
<1>4. TypeOK
  BY <1>2, <1>3 DEF Init, TypeOK
<1> QED BY <1>1, <1>4 DEF IInv, CallConsistent, Accumulated

(* A write of the program happens between two calls and keeps the types. *)
LEMMA ProgramInv == IInv /\ Program => IInv'
<1> SUFFICES ASSUME IInv, Program PROVE IInv'
  OBVIOUS
<1>1. /\ Idle /\ cycles' = cycles /\ oldSysTick' = oldSysTick /\ start' = start
      /\ wrote' = TRUE
  BY DEF Program, WriteDIV, WriteTIMA, WriteTMA, WriteTAC, Acknowledge, Written
<1>2. Idle'
  BY <1>1 DEF Idle
<1>3. 0 \in Counts
  BY SysModAssumption DEF Counts
<1>4. \A b \in MuxBits : b # 0
  BY MuxBitsAssumption
<1>5. TypeOK' /\ (mStarted' => mMuxBit' # 0)
  <2>1. CASE WriteDIV
    BY <2>1, <1>1, <1>3 DEF WriteDIV, IInv, TypeOK, CallConsistent
  <2>2. CASE WriteTIMA
    BY <2>2, <1>1 DEF WriteTIMA, IInv, TypeOK, CallConsistent
  <2>3. CASE WriteTMA
    BY <2>3, <1>1 DEF WriteTMA, IInv, TypeOK, CallConsistent
  <2>4. CASE WriteTAC
    BY <2>4, <1>1, <1>4 DEF WriteTAC, IInv, TypeOK, CallConsistent
  <2>5. CASE Acknowledge
    BY <2>5, <1>1 DEF Acknowledge, IInv, TypeOK, CallConsistent
  <2> QED BY <2>1, <2>2, <2>3, <2>4, <2>5 DEF Program
<1> QED BY <1>2, <1>5 DEF IInv, CallConsistent, Accumulated

(* So does a call of tick, and each of its iterations. *)
LEMMA TickInv == IInv /\ Tick => IInv'
<1> SUFFICES ASSUME IInv, Tick PROVE IInv'
  OBVIOUS
<1>1. CASE TickStopped
  <2>1. PICK n \in 1 .. MaxTick : mSysTick' = (mSysTick + n) % SysMod
    BY <1>1 DEF TickStopped
  <2>2. mSysTick + n \in Nat
    BY MaxTickAssumption, SysModAssumption DEF IInv, TypeOK, Counts
  <2>3. mSysTick' \in Counts
    BY <2>1, <2>2, SysModAssumption, DivMod DEF Counts
  <2>4. TypeOK' /\ Idle' /\ (mStarted' => mMuxBit' # 0)
    BY <1>1, <2>3 DEF TickStopped, IInv, TypeOK, CallConsistent, Idle
  <2> QED BY <2>4 DEF IInv, CallConsistent, Accumulated
<1>2. CASE TickBegin
  <2>1. PICK n \in 1 .. MaxTick :
          /\ cycles' = n
          /\ start' = [sys |-> mSysTick, tima |-> mTIMA, irq |-> requested, n |-> n]
    BY <1>2 DEF TickBegin
  <2>2. /\ mStarted' = mStarted /\ mTIMA' = mTIMA /\ mTMA' = mTMA /\ mMuxBit' = mMuxBit
        /\ mSysTick' = mSysTick /\ requested' = requested
        /\ oldSysTick' = mSysTick /\ wrote' = FALSE /\ mStarted
    BY <1>2 DEF TickBegin, registers
  <2>3. n \in 0 .. MaxTick /\ n \in Nat
    BY MaxTickAssumption
  <2>4. TypeOK'
    BY <2>1, <2>2, <2>3 DEF IInv, TypeOK
  <2>5. start'.sys = mSysTick /\ start'.tima = mTIMA /\ start'.irq = requested
        /\ start'.n - cycles' = 0 /\ cycles' <= start'.n
    BY <2>1, <2>3
  <2>6. (mSysTick + 0) % SysMod = mSysTick
    BY SysModAssumption DEF IInv, TypeOK, Counts
  <2>7. CallConsistent'
    BY <2>2, <2>5, <2>6 DEF IInv, CallConsistent, Idle
  <2>8. Promise!Passed(mSysTick, 0, 2 * mMuxBit) = 0
    <3>1. mMuxBit \in MuxBits
      BY <2>2 DEF IInv, CallConsistent, TypeOK
    <3>2. 2 * mMuxBit \in Nat \ {0} /\ mSysTick \in Nat
      BY <3>1, MuxBitsAssumption, SysModAssumption DEF IInv, TypeOK, Counts
    <3> DEFINE p == 2 * mMuxBit
    <3>3. mSysTick \div p \in Nat
      BY <3>2, DivMod
    <3>4. mSysTick + 0 = mSysTick
      BY <3>2
    <3> HIDE DEF p
    <3>5. Promise!Passed(mSysTick, 0, p) = 0
      BY <3>3, <3>4 DEF Promise!Passed
    <3> QED BY <3>5 DEF p
  <2>9. Promise!Count(mTIMA, mTMA, 0) = mTIMA /\ ~(mTIMA + 0 >= TimaMod)
    BY TimaModAssumption DEF Promise!Count, IInv, TypeOK, Values
  <2>10. Accumulated'
    BY <2>2, <2>5, <2>8, <2>9 DEF Accumulated
  <2> QED BY <2>4, <2>7, <2>10 DEF IInv
<1>3. CASE TickCycle
  <2> DEFINE d == start.n - cycles + 1
             e1 == Promise!Passed(start.sys, d, 2 * mMuxBit)
  <2>1. /\ mSysTick' = (start.sys + d) % SysMod
        /\ mSysTick' \in Counts
        /\ mTIMA' \in Values
        /\ mTIMA' = Promise!Count(start.tima, mTMA, e1)
        /\ requested' \in BOOLEAN
        /\ requested' <=> (start.irq \/ start.tima + e1 >= TimaMod)
    BY <1>3, OneCycle
  <2>2. /\ ~Idle /\ mStarted /\ mMuxBit # 0
        /\ cycles \in 0 .. MaxTick /\ start.n \in 0 .. MaxTick /\ cycles <= start.n
    BY <1>3 DEF TickCycle, IInv, TypeOK, CallConsistent
  <2>3. cycles' = cycles - 1 /\ cycles' \in 0 .. MaxTick
    BY <1>3, <2>2, MaxTickAssumption DEF TickCycle, Idle
  <2>4. /\ mStarted' = mStarted /\ mTMA' = mTMA /\ mMuxBit' = mMuxBit /\ wrote' = wrote
        /\ oldSysTick' = (IF cycles = 1 THEN 0 ELSE mSysTick')
        /\ start' = (IF cycles = 1 THEN NoCall ELSE start)
    BY <1>3 DEF TickCycle, OldAfter
  <2>5. NoCall \in [sys : Counts, tima : Values, irq : BOOLEAN, n : 0 .. MaxTick]
        /\ 0 \in Counts
    BY SysModAssumption, TimaModAssumption, MaxTickAssumption DEF NoCall, Counts, Values
  <2>6. TypeOK'
    BY <2>1, <2>3, <2>4, <2>5 DEF IInv, TypeOK
  <2>7. CASE cycles = 1
    <3>1. Idle'
      BY <2>3, <2>7 DEF Idle
    <3> QED BY <3>1, <2>2, <2>4, <2>6 DEF IInv, CallConsistent, Accumulated
  <2>8. CASE cycles # 1
    <3>1. start' = start /\ oldSysTick' = mSysTick'
      BY <2>4, <2>8
    <3>2. start.n - cycles' = d /\ cycles' <= start.n
      BY <2>2, <2>3, MaxTickAssumption
    <3>3. CallConsistent'
      BY <3>1, <3>2, <2>1, <2>2, <2>4 DEF CallConsistent
    <3>4. Accumulated'
      BY <3>1, <3>2, <2>1, <2>4 DEF Accumulated
    <3> QED BY <2>6, <3>3, <3>4 DEF IInv
  <2> QED BY <2>7, <2>8
<1> QED BY <1>1, <1>2, <1>3 DEF Tick

(* Every step keeps the invariant. *)
LEMMA NextInv == IInv /\ [Next]_vars => IInv'
<1> SUFFICES ASSUME IInv, [Next]_vars PROVE IInv'
  OBVIOUS
<1>1. CASE UNCHANGED vars
  BY <1>1 DEF vars, registers, IInv, TypeOK, CallConsistent, Accumulated, Idle
<1> QED BY <1>1, ProgramInv, TickInv DEF Next

(* In every reachable state the registers have their widths, the copy of   *)
(* the counter the loop compares with is fresh, and TIMA and the request   *)
(* are what counting multiples of the period gives.                        *)
THEOREM Invariance == Spec => [](TypeOK /\ CallConsistent /\ Accumulated)
<1> QED BY InitInv, NextInv, PTL DEF Spec, IInv
-----------------------------------------------------------------------------
(* A step of the program is the step of the same name of TimerSpec. *)
LEMMA ProgramImplements == IInv /\ Program => Promise!Next
<1> SUFFICES ASSUME IInv, Program PROVE Promise!Next
  OBVIOUS
<1>1. Idle /\ Idle'
  BY DEF Program, WriteDIV, WriteTIMA, WriteTMA, WriteTAC, Acknowledge, Written, Idle
<1>2. CASE WriteDIV
  <2>1. Promise!SetDIV
    BY <1>1, <1>2 DEF WriteDIV, Promise!SetDIV
  <2> QED BY <2>1 DEF Promise!Next
<1>3. CASE WriteTIMA
  <2>1. Promise!SetTIMA
    BY <1>1, <1>3 DEF WriteTIMA, Promise!SetTIMA, Values
  <2> QED BY <2>1 DEF Promise!Next
<1>4. CASE WriteTMA
  <2>1. Promise!SetTMA
    BY <1>1, <1>4 DEF WriteTMA, Promise!SetTMA, Values
  <2> QED BY <2>1 DEF Promise!Next
<1>5. CASE WriteTAC
  <2>1. Promise!SetTAC
    BY <1>1, <1>5 DEF WriteTAC, Promise!SetTAC
  <2> QED BY <2>1 DEF Promise!Next
<1>6. CASE Acknowledge
  <2>1. Promise!Acknowledge
    BY <1>1, <1>6 DEF Acknowledge, Promise!Acknowledge
  <2> QED BY <2>1 DEF Promise!Next
<1> QED BY <1>2, <1>3, <1>4, <1>5, <1>6 DEF Program

(* A call on a stopped timer, and the last cycle of a call on a running    *)
(* one, let the whole length of the call elapse at once; the other steps   *)
(* of a call change nothing TimerSpec sees.                                *)
LEMMA TickImplements == IInv /\ Tick => Promise!Next \/ UNCHANGED Promise!specVars
<1> SUFFICES ASSUME IInv, Tick PROVE Promise!Next \/ UNCHANGED Promise!specVars
  OBVIOUS
<1>1. CASE TickStopped
  <2>1. PICK n \in 1 .. MaxTick : mSysTick' = (mSysTick + n) % SysMod
    BY <1>1 DEF TickStopped
  <2>2. Idle /\ Idle' /\ ~mStarted
        /\ UNCHANGED <<mStarted, mTIMA, mTMA, mMuxBit, requested>>
    BY <1>1 DEF TickStopped, Idle
  <2>3. Promise!Count(mTIMA, mTMA, 0) = mTIMA /\ ~(mTIMA + 0 >= TimaMod)
    BY TimaModAssumption DEF Promise!Count, IInv, TypeOK, Values
  <2>4. requested \in BOOLEAN
    BY DEF IInv, TypeOK
  <2>5. Promise!Elapse(n)
    BY <2>1, <2>2, <2>3, <2>4 DEF Promise!Elapse
  <2> QED BY <2>5 DEF Promise!Next
<1>2. CASE TickBegin
  <2>1. Idle /\ UNCHANGED registers /\ start'.sys = mSysTick /\ start'.tima = mTIMA
        /\ start'.irq = requested
    BY <1>2 DEF TickBegin
  <2> QED BY <2>1 DEF Promise!specVars, registers
<1>3. CASE TickCycle
  <2> DEFINE d == start.n - cycles + 1
             e1 == Promise!Passed(start.sys, d, 2 * mMuxBit)
  <2>1. /\ mSysTick' = (start.sys + d) % SysMod
        /\ mTIMA' = Promise!Count(start.tima, mTMA, e1)
        /\ requested' \in BOOLEAN
        /\ requested' <=> (start.irq \/ start.tima + e1 >= TimaMod)
    BY <1>3, OneCycle
  <2>2. /\ ~Idle /\ mStarted
        /\ cycles \in 0 .. MaxTick /\ start.n \in 0 .. MaxTick /\ cycles <= start.n
        /\ start.irq \in BOOLEAN
    BY <1>3 DEF TickCycle, IInv, TypeOK, CallConsistent
  <2>3. /\ mStarted' = mStarted /\ mTMA' = mTMA /\ mMuxBit' = mMuxBit
        /\ start' = (IF cycles = 1 THEN NoCall ELSE start)
        /\ cycles' = cycles - 1
    BY <1>3 DEF TickCycle
  <2>4. CASE cycles = 1
    <3>1. Idle'
      BY <2>3, <2>4 DEF Idle
    <3>2. d = start.n /\ start.n \in 1 .. MaxTick
      BY <2>2, <2>4, MaxTickAssumption
    <3>3. requested' = (start.irq \/ start.tima + e1 >= TimaMod)
      BY <2>1, <2>2
    <3> DEFINE n == start.n
    <3>4. Promise!Elapse(n)
      BY <3>1, <3>2, <3>3, <2>1, <2>2, <2>3 DEF Promise!Elapse
    <3> QED BY <3>2, <3>4 DEF Promise!Next
  <2>5. CASE cycles # 1
    <3>1. ~Idle' /\ start' = start
      BY <2>2, <2>3, <2>5, MaxTickAssumption DEF Idle
    <3> QED BY <3>1, <2>2, <2>3 DEF Promise!specVars
  <2> QED BY <2>4, <2>5
<1> QED BY <1>1, <1>2, <1>3 DEF Tick

(* The cycle loop of IoTimer::tick, at any tap and any length of call,     *)
(* implements the closed form: no edge is missed or counted twice.         *)
THEOREM Implements == Spec => ImplementsTimerSpec
<1>1. Init => Promise!Init
  BY DEF Init, Promise!Init, Idle
<1>2. IInv /\ [Next]_vars => [Promise!Next]_(Promise!specVars)
  <2>1. CASE UNCHANGED vars
    BY <2>1 DEF vars, registers, Promise!specVars, Idle
  <2>2. CASE Next
    <3>1. IInv /\ Program => Promise!Next
      BY ProgramImplements
    <3>2. IInv /\ Tick => Promise!Next \/ UNCHANGED Promise!specVars
      BY TickImplements
    <3> QED BY <2>2, <3>1, <3>2 DEF Next
  <2> QED BY <2>1, <2>2
<1> QED BY <1>1, <1>2, InitInv, NextInv, PTL DEF Spec, ImplementsTimerSpec, Promise!Spec
=============================================================================
