------------------------------ MODULE Fetcher ------------------------------
(***************************************************************************)
(* The tile fetcher (core/src/ppu/fetcher.cpp) as operators on a record:   *)
(* one FetcherTick is one call of Fetcher::tick, which may also load the   *)
(* FIFO.  A fetched line is named by its tile column in the map; the row   *)
(* and the tile data are abstracted away.                                  *)
(***************************************************************************)
EXTENDS PixelOps

CONSTANTS MapTiles,   \* tiles of a row of the map: 32
          OpaqueCols  \* the pixel columns of the map whose colour is not 0

ASSUME MapTilesAssumption == MapTiles \in Nat \ {0}
ASSUME OpaqueColsAssumption == OpaqueCols \subseteq 0 .. MapTiles * TileLen - 1

fsReadNum0 == 0
fsReadNum1 == 1
fsReadHigh0 == 2
fsReadHigh1 == 3
fsReadLow0 == 4
fsReadLow1 == 5
fsWriteLine0 == 6
fsWriteLine1 == 7
fsIdle == 8

NoSprite == 0  \* mSprite is NULL; otherwise it is an index into mFoundObjs

\* reset leaves mTileNum and mLine alone; both are written before they are
\* read again, so they are given a fixed value here.
FetcherReset ==
  [state |-> fsReadNum0, spriteState |-> fsIdle, mode |-> "bg",
   sprite |-> NoSprite, tileCnt |-> 0, tileNum |-> 0, line |-> <<>>]

NextState(s) == IF s < fsWriteLine1 THEN s + 1 ELSE s

\* The line of the tile in column n of the map of mode m.
TileLine(m, n) ==
  [i \in 1 .. TileLen |->
    [src |-> m, col |-> n * TileLen + i - 1,
     opaque |-> n * TileLen + i - 1 \in OpaqueCols, below |-> FALSE]]

\* The line of entry i of mFoundObjs: object o, whose tile has colours other
\* than 0 at the positions in o.opaque.
SpriteLine(o, i) ==
  [k \in 1 .. TileLen |->
    LET j == IF o.xFlip THEN TileLen + 1 - k ELSE k
    IN [src |-> "obj", col |-> i * TileLen + j - 1, opaque |-> j \in o.opaque, below |-> o.below]]

TileColumn(f, scx) ==
  (f.tileCnt + (IF f.mode = "bg" THEN scx \div TileLen ELSE 0)) % MapTiles

\* tryWriteLine: the line is handed over only to an empty queue.
TryWriteLine(f, q) ==
  IF q.bg = <<>> /\ CanLoadBG(q)
    THEN [f |-> [f EXCEPT !.state = IF f.spriteState = fsIdle THEN fsReadNum0 ELSE fsIdle],
          q |-> LoadBG(q, f.line)]
    ELSE [f |-> [f EXCEPT !.state = NextState(@)], q |-> q]

\* mTileCnt is a byte and is used only modulo the tiles of a row, a divisor
\* of 256, so it is kept modulo that.
NextTile(f) == [f EXCEPT !.tileCnt = (@ + 1) % MapTiles]

\* A cycle of a state that fetches; in fsIdle nothing changes.
Fetching(f, scx) ==
  [f EXCEPT !.state = NextState(@),
            !.tileNum = IF f.state = fsReadNum1 THEN TileColumn(f, scx) ELSE @,
            !.line = IF f.state = fsReadLow1 THEN TileLine(f.mode, f.tileNum) ELSE @]

TickBackground(f, q, scx) ==
  IF f.state = fsWriteLine0 THEN TryWriteLine(NextTile(f), q)
  ELSE IF f.state = fsWriteLine1 THEN TryWriteLine(f, q)
  ELSE [f |-> Fetching(f, scx), q |-> q]

\* The sprite's line is complete: mix it in and let the background go on.
SpriteDone_StaysIdle(f) == [f EXCEPT !.spriteState = fsIdle, !.sprite = NoSprite]
SpriteDone(f) ==
  [f EXCEPT !.state = IF @ = fsIdle THEN fsReadNum0 ELSE @,
            !.spriteState = fsIdle, !.sprite = NoSprite]

SpriteLoaded_Locked(q, line) == MixSprite(q, line)
SpriteLoaded(q, line) == Unlock(MixSprite(q, line))

\* The sprite fetch runs only once the background fetch has its data.
TickSprite(f, q, objs) ==
  IF f.spriteState = fsIdle \/ f.state < fsReadLow1 THEN [f |-> f, q |-> q]
  ELSE IF f.spriteState < fsReadLow1
    THEN [f |-> [f EXCEPT !.spriteState = NextState(@)], q |-> q]
    ELSE [f |-> SpriteDone(f),
          q |-> SpriteLoaded(q, SpriteLine(objs[f.sprite], f.sprite))]

FetcherTick(f, q, scx, objs) ==
  LET b == TickBackground(f, q, scx) IN TickSprite(b.f, b.q, objs)

StartSprite(f, i) == [f EXCEPT !.sprite = i, !.spriteState = fsReadNum0]

\* setMode(fmWindow, winY), called only while the mode is another one.
EnterWindow(f) == [f EXCEPT !.state = fsReadNum0, !.mode = "win", !.tileCnt = 0]
=============================================================================
