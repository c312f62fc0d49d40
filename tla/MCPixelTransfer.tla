--------------------------- MODULE MCPixelTransfer ---------------------------
(* Instances of PixelTransfer for TLC: tiles of 8 pixels, a screen a little *)
(* wider than two tiles, a map of 4 tiles.                                  *)
EXTENDS PixelTransfer

MCOpaqueCols == {c \in 0 .. MapTiles * TileLen - 1 : c % 3 # 0}

Kinds == {[opaque |-> 1 .. 8, below |-> FALSE, xFlip |-> FALSE],
          [opaque |-> 1 .. 8, below |-> TRUE, xFlip |-> FALSE],
          [opaque |-> {1, 2, 5}, below |-> FALSE, xFlip |-> TRUE]}

At(k, p) == [x |-> p, opaque |-> k.opaque, below |-> k.below, xFlip |-> k.xFlip]

Positions == 0 .. Width + TileLen - 1

Line(objs, s, w, l) == [objs |-> objs, scx |-> s, wx |-> w, lcdc |-> l]
Display(b, w, o) == [bg |-> b, win |-> w, obj |-> o]

\* No window; at most two objects, close enough to meet in the FIFO.
TwoObjects ==
  UNION {{<<At(k, p), At(l, r)>> : k, l \in Kinds, r \in {q \in p .. p + 8 : q \in Positions}}
           : p \in Positions}
ObjectLines ==
  {Line(objs, s, 0, Display(TRUE, FALSE, TRUE)) :
     s \in {0, 13}, objs \in {<<>>} \cup TwoObjects}

\* The window at every alignment with tiles and scroll, an object over it or none.
Mirrored == [opaque |-> {1, 2, 5}, below |-> TRUE, xFlip |-> TRUE]
WindowLines ==
  {Line(objs, s, w, Display(b, TRUE, TRUE)) :
     s \in {0, 5, 31}, w \in {0, 7, 12, 16, 25}, b \in BOOLEAN,
     objs \in {<<>>} \cup {<<At(Mirrored, p)>> : p \in Positions}}

MCLines == ObjectLines \cup WindowLines

\* Two objects over the place where the window begins, or none.
Solid == [opaque |-> 1 .. 8, below |-> FALSE, xFlip |-> FALSE]
AnySwitch == {Display(TRUE, w, o) : w, o \in BOOLEAN}
LiveLines ==
  {Line(objs, 5, 7, l) :
     l \in AnySwitch, objs \in {<<>>, <<At(Solid, 7), At(Solid, 8)>>}}

NoSwitch == {Display(TRUE, FALSE, TRUE)}
ScxLines ==
  {Line(objs, s, 0, Display(TRUE, FALSE, TRUE)) :
     s \in {0, 5}, objs \in {<<>>, <<At(Solid, 4), At(Solid, 4)>>}}
=============================================================================
