------------------------------ MODULE PixelOps ------------------------------
(***************************************************************************)
(* The pixel FIFO (core/src/ppu/pixelfifo.cpp) as two queues, background   *)
(* and objects.  A pixel records where it comes from (src, col), whether   *)
(* its colour is other than 0 (opaque) and the object's priority bit       *)
(* (below); the colours themselves are abstracted away.                    *)
(***************************************************************************)
EXTENDS Integers, Sequences

CONSTANT TileLen  \* pixels of a line of a tile: 8

ASSUME TileLenAssumption == TileLen \in Nat \ {0}

\* The state after PixelFIFO::reset.
ResetQueue == [bg |-> <<>>, obj |-> <<>>, locked |-> FALSE, bgEnabled |-> FALSE]

\* The background pixel as LCDC lets it through: colour 0 when switched off.
Filtered(b, lcdc) ==
  IF (b.src = "bg" /\ ~lcdc.bg) \/ (b.src = "win" /\ ~lcdc.win)
    THEN [b EXCEPT !.opaque = FALSE]
    ELSE b

\* Which of the two pixels at the heads is drawn.
ObjectWins(o, b) == o.opaque /\ (~o.below \/ ~b.opaque)

\* The pixel tick returns when there is a background pixel.
Shown(q, lcdc) ==
  LET b == Filtered(Head(q.bg), lcdc)
  IN IF q.obj # <<>> /\ lcdc.obj /\ ObjectWins(Head(q.obj), b)
       THEN Head(q.obj)
       ELSE b

PopBG(q) == [q EXCEPT !.bg = Tail(@)]
PopObj(q) == IF q.obj = <<>> THEN q ELSE [q EXCEPT !.obj = Tail(@)]

\* The queue after tick.  With no background pixel only the object is popped,
\* with objects off only the background is.
Popped(q, lcdc) ==
  IF q.locked THEN q
  ELSE IF q.bg = <<>> THEN PopObj(q)
  ELSE IF lcdc.obj THEN PopObj(PopBG(q)) ELSE PopBG(q)

CanLoadBG(q) == Len(q.bg) <= TileLen /\ q.bgEnabled
LoadBG(q, line) == [q EXCEPT !.bg = @ \o line]

\* A sprite line goes over the object pixels already queued: an opaque pixel
\* stays, a transparent one gives way.
Mixed_NewWins(old, new) == IF new.opaque THEN new ELSE old
Mixed(old, new) == IF new.opaque /\ ~old.opaque THEN new ELSE old

MixSprite(q, line) ==
  LET n == Len(q.obj)
  IN [q EXCEPT
       !.obj = [i \in 1 .. (IF n > TileLen THEN n ELSE TileLen) |->
                 IF i > n THEN line[i]
                 ELSE IF i > TileLen THEN q.obj[i]
                 ELSE Mixed(q.obj[i], line[i])]]

\* clear(false): the window throws the queued background away.
ClearBG(q) == [q EXCEPT !.bg = <<>>]

Lock(q) == [q EXCEPT !.locked = TRUE]
Unlock(q) == [q EXCEPT !.locked = FALSE]
EnableBG(q) == [q EXCEPT !.bgEnabled = TRUE]
=============================================================================
