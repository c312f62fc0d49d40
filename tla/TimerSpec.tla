----------------------------- MODULE TimerSpec -----------------------------
(***************************************************************************)
(* What the timer promises: TIMA counts the multiples of the selected      *)
(* period that the system counter passes, however many of them fall in one *)
(* step of the machine, and each overflow reloads TMA and asks for an      *)
(* interrupt.                                                              *)
(***************************************************************************)
EXTENDS Integers

CONSTANTS SysMod,   \* the system counter counts modulo SysMod
          TimaMod,  \* TIMA counts modulo TimaMod
          Periods,  \* cycles per TIMA increment the program can select
          MaxTick   \* longest step of the machine, in cycles

VARIABLES running, period, sys, tima, tma, irq

specVars == <<running, period, sys, tima, tma, irq>>

Init ==
  /\ running = FALSE /\ period = 0
  /\ sys = 0 /\ tima = 0 /\ tma = 0 /\ irq = FALSE

\* Multiples of p in (s, s + n].
Passed(s, n, p) == ((s + n) \div p) - (s \div p)

\* TIMA after e increments from t when every overflow reloads r.
Count(t, r, e) ==
  IF t + e < TimaMod THEN t + e
  ELSE r + ((t + e - TimaMod) % (TimaMod - r))

Elapse(n) ==
  LET e == IF running THEN Passed(sys, n, period) ELSE 0
  IN /\ sys' = (sys + n) % SysMod
     /\ tima' = Count(tima, tma, e)
     /\ irq' = (irq \/ tima + e >= TimaMod)
     /\ UNCHANGED <<running, period, tma>>

SetDIV  == sys' = 0 /\ UNCHANGED <<running, period, tima, tma, irq>>
SetTIMA == tima' \in 0 .. TimaMod - 1 /\ UNCHANGED <<running, period, sys, tma, irq>>
SetTMA  == tma' \in 0 .. TimaMod - 1 /\ UNCHANGED <<running, period, sys, tima, irq>>
SetTAC  == /\ running' \in BOOLEAN /\ period' \in Periods
           /\ UNCHANGED <<sys, tima, tma, irq>>
Acknowledge == irq' = FALSE /\ UNCHANGED <<running, period, sys, tima, tma>>

Next ==
  \/ \E n \in 1 .. MaxTick : Elapse(n)
  \/ SetDIV \/ SetTIMA \/ SetTMA \/ SetTAC \/ Acknowledge

Spec == Init /\ [][Next]_specVars
=============================================================================
