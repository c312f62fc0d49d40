------------------------ MODULE InterruptController ------------------------
(***************************************************************************)
(* The interrupt controller (core/src/cpu/int_controller.cpp).  IE and IF  *)
(* are sets of bit numbers; the lowest NumIrqs bits have a service routine *)
(* and the remaining ones exist only as register bits.                     *)
(***************************************************************************)
EXTENDS Integers, FiniteSets

CONSTANTS NumIrqs,   \* itNone: 5 in the program
          NumBits    \* width of IE and IF: 8 in the program

ASSUME NumIrqsAssumption == NumIrqs \in Nat \ {0}
ASSUME NumBitsAssumption == NumBits \in Nat /\ NumIrqs <= NumBits

VARIABLES mEnabled,  \* IME
          mIE,       \* interrupt enable register
          mIF        \* interrupt flag register

icVars == <<mEnabled, mIE, mIF>>

Bits   == 0 .. NumBits - 1
Irqs   == 0 .. NumIrqs - 1
itNone == NumIrqs

IcTypeOK ==
  /\ mEnabled \in BOOLEAN
  /\ mIE \in SUBSET Bits
  /\ mIF \in SUBSET Bits

IcInit == mEnabled = FALSE /\ mIE = {} /\ mIF = {}

\* isPending looks at the whole byte, bits without a service routine included.
IsPending == mIF \cap mIE # {}

\* The interrupts getPending may return: enabled, requested, with a routine.
Serviceable == mIF \cap mIE \cap Irqs

\* getPending with the IME value ime: the lowest bit wins.
GetPending(ime) ==
  IF ime /\ Serviceable # {}
    THEN CHOOSE t \in Serviceable : \A u \in Serviceable : t <= u
    ELSE itNone

ClearInterrupt_All(t) == {}
ClearInterrupt(t) == mIF \ {t}

\* A device raises interrupt t.
RequestInterrupt(t) == mIF' = mIF \cup {t}
=============================================================================
