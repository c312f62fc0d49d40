------------------------------- MODULE Joypad -------------------------------
(***************************************************************************)
(* The joypad (core/src/io/io_joypad.cpp).  A button has a pin and a group *)
(* that selects it; mMask is the set of the buttons that are pressed.      *)
(***************************************************************************)
EXTENDS Integers

\* IoJoypad::Button: the direction keys are read with P14, the others with P15.
PinOf ==
  [RIGHT |-> 0, LEFT |-> 1, UP |-> 2, DOWN |-> 3, A |-> 0, B |-> 1, SELECT |-> 2, START |-> 3]
P14 == {"RIGHT", "LEFT", "UP", "DOWN"}
P15 == {"A", "B", "SELECT", "START"}
Button == P14 \cup P15

ButtonPressed(mask, b) == mask \cup {b}

ButtonReleased_SamePin(mask, b) == {c \in mask : PinOf[c] # PinOf[b]}
ButtonReleased(mask, b) == mask \ {b}

\* readAddr: the pins that are low when the groups in selected are driven.
\* Each group flips the pins of its pressed buttons, so two buttons of one pin
\* cancel each other when both groups are selected.
LowPins(mask, selected) ==
  LET low(group) == {PinOf[b] : b \in mask \cap group}
      flipped(group) == IF group \in selected THEN low(group) ELSE {}
  IN (flipped(P14) \ flipped(P15)) \cup (flipped(P15) \ flipped(P14))
=============================================================================
