----------------------------- MODULE MCFrontEnd -----------------------------
EXTENDS FrontEnd

\* Two buttons of one pin and two of one group.
MCKeys == {"A", "RIGHT", "B"}
=============================================================================
