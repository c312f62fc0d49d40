------------------------------ MODULE OamSearch ------------------------------
(***************************************************************************)
(* The object search at the end of mode 2 (core/src/ppu/ppu.cpp, the       *)
(* OAM_SEARCH case of Ppu::tick): the scan of OAM for the objects of the   *)
(* line and the exchange sort of what it found.  One action is one         *)
(* iteration of a loop.  An OAMEntry is named by its index in OAM.  The    *)
(* whole search happens inside one call, so OAM and the registers change   *)
(* only before it, by the CPU or the OAM DMA.                              *)
(***************************************************************************)
EXTENDS Integers, Sequences

CONSTANTS NumEntries,  \* 40
          MaxObjs,     \* MAX_NUM_OBJS: 10
          XValues,     \* the bytes an entry can hold as x
          YValues,     \* and as y
          LineValues   \* the lines LY can be at

ASSUME EntriesAssumption == NumEntries \in Nat \ {0} /\ MaxObjs \in Nat \ {0}
ASSUME BytesAssumption == XValues \subseteq 0 .. 255 /\ YValues \subseteq 0 .. 255
ASSUME LinesAssumption == LineValues \subseteq 0 .. 143

VARIABLES oam,         \* entry -> its x and y
          mLY, tall,   \* LY; LCDC selects objects of 16 lines
          mFoundObjs,  \* the first mNumObjs entries of mFoundObjs
          oamPtr,      \* the next entry to look at
          idx, idx2,   \* the loops of the sort, from 1
          pc           \* "scan", "sort" or "done"

input == <<oam, mLY, tall>>
vars == <<input, mFoundObjs, oamPtr, idx, idx2, pc>>

Entries == 0 .. NumEntries - 1
Oams == [Entries -> [x : XValues, y : YValues]]

TypeOK ==
  /\ oam \in Oams /\ mLY \in LineValues /\ tall \in BOOLEAN
  /\ mFoundObjs \in Seq(Entries) /\ Len(mFoundObjs) <= MaxObjs
  /\ oamPtr \in 0 .. NumEntries
  /\ idx \in Nat \ {0} /\ idx2 \in Nat \ {0}
  /\ pc \in {"scan", "sort", "done"}

Init ==
  /\ oam \in Oams /\ mLY \in LineValues /\ tall \in BOOLEAN
  /\ mFoundObjs = <<>> /\ oamPtr = 0 /\ idx = 1 /\ idx2 = 2
  /\ pc = "scan"
-----------------------------------------------------------------------------
(* The scan *)

Height == IF tall THEN 16 ELSE 8

\* An object's y is the line 16 below its first one.
OnLine_OneMore(e) == oam[e].y <= mLY + 16 /\ oam[e].y + Height >= mLY + 16
OnLine(e) == oam[e].y <= mLY + 16 /\ oam[e].y + Height > mLY + 16

Room == Len(mFoundObjs) < MaxObjs

ScanEntry ==
  /\ pc = "scan" /\ oamPtr < NumEntries /\ Room
  /\ mFoundObjs' = IF OnLine(oamPtr) THEN Append(mFoundObjs, oamPtr) ELSE mFoundObjs
  /\ oamPtr' = oamPtr + 1
  /\ UNCHANGED <<input, idx, idx2, pc>>

ScanEnds ==
  /\ pc = "scan" /\ ~(oamPtr < NumEntries /\ Room)
  /\ pc' = "sort" /\ idx' = 1 /\ idx2' = 2
  /\ UNCHANGED <<input, mFoundObjs, oamPtr>>
-----------------------------------------------------------------------------
(* The sort *)

\* Entry e is to be drawn before entry f; their objects are exchanged when e
\* stands behind f.
Misplaced_XOnly(e, f) == oam[e].x < oam[f].x
Misplaced(e, f) == oam[e].x < oam[f].x \/ (oam[e].x = oam[f].x /\ e < f)

CompareAndExchange ==
  /\ pc = "sort" /\ idx < Len(mFoundObjs) /\ idx2 <= Len(mFoundObjs)
  /\ mFoundObjs' =
       IF Misplaced(mFoundObjs[idx2], mFoundObjs[idx])
         THEN [mFoundObjs EXCEPT ![idx] = mFoundObjs[idx2], ![idx2] = mFoundObjs[idx]]
         ELSE mFoundObjs
  /\ idx2' = idx2 + 1
  /\ UNCHANGED <<input, oamPtr, idx, pc>>

NextPass ==
  /\ pc = "sort" /\ idx < Len(mFoundObjs) /\ idx2 > Len(mFoundObjs)
  /\ idx' = idx + 1 /\ idx2' = idx + 2
  /\ UNCHANGED <<input, mFoundObjs, oamPtr, pc>>

\* Mode 3 begins.
SortEnds ==
  /\ pc = "sort" /\ idx >= Len(mFoundObjs)
  /\ pc' = "done"
  /\ UNCHANGED <<input, mFoundObjs, oamPtr, idx, idx2>>

\* The search of another line.  Init starts from every OAM and a search keeps
\* nothing of the one before, so one rewritten entry stands for any number.
NextSearch ==
  /\ pc = "done"
  /\ mLY' \in LineValues /\ tall' \in BOOLEAN
  /\ \E e \in Entries, obj \in [x : XValues, y : YValues] : oam' = [oam EXCEPT ![e] = obj]
  /\ mFoundObjs' = <<>> /\ oamPtr' = 0
  /\ pc' = "scan"
  /\ UNCHANGED <<idx, idx2>>

Next == ScanEntry \/ ScanEnds \/ CompareAndExchange \/ NextPass \/ SortEnds \/ NextSearch

Spec == Init /\ [][Next]_vars
-----------------------------------------------------------------------------
(* The reference: line mLY is one of the Height lines of the object, and    *)
(* objects are drawn from left to right, at one place in the order of OAM.  *)

Shows(e) == mLY + 16 \in oam[e].y .. oam[e].y + Height - 1

DrawnBefore(e, f) ==
  IF oam[e].x = oam[f].x THEN e < f ELSE oam[e].x < oam[f].x

Found == {mFoundObjs[i] : i \in 1 .. Len(mFoundObjs)}

(* The order in which mode 3 draws the objects it found (and which lets it *)
(* look at one object only, the next): each is drawn before all behind it. *)
Sorted ==
  pc = "done" =>
    \A i, j \in 1 .. Len(mFoundObjs) :
      i < j => DrawnBefore(mFoundObjs[i], mFoundObjs[j])

(* The objects found are the first of the line in OAM, and all of them     *)
(* unless there are more than MaxObjs: neither the limit nor the exchanges *)
(* lose or double one.                                                     *)
Selection ==
  pc = "done" =>
    /\ \A e \in Found : Shows(e) /\ \A f \in 0 .. e - 1 : Shows(f) => f \in Found
    /\ \A i, j \in 1 .. Len(mFoundObjs) : i # j => mFoundObjs[i] # mFoundObjs[j]
    /\ Len(mFoundObjs) < MaxObjs => \A e \in Entries : Shows(e) => e \in Found
=============================================================================
