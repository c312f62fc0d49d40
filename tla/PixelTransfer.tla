--------------------------- MODULE PixelTransfer ---------------------------
(***************************************************************************)
(* Mode 3 of the PPU (the DATA_XFER case of Ppu::tick) for one line after  *)
(* another, with the fetcher and the FIFO it drives.  One Dot action is    *)
(* one iteration of the inner loop, one cycle of the LCD.  The window is   *)
(* taken to be enabled (lcdc.win) only on lines it reaches.  Registers are *)
(* written between two calls of tick, every Granule cycles.                *)
(***************************************************************************)
EXTENDS Fetcher

CONSTANTS Width,     \* 160
          Lines,     \* what a line can begin with: records [objs, scx, wx, lcdc] of
                     \* the objects found, SCX, WX and LCDC's display bits
          ScxValues, \* what the program writes to SCX, to WX and to LCDC
          WxValues,
          LcdcValues,
          Granule,   \* 4: every Cpu::tick takes a multiple of it
          MaxDots,   \* bound of the history variable dots
          Writes     \* registers the program writes in the middle of a line

ASSUME WidthAssumption == Width \in Nat \ {0}
ASSUME DotsAssumption == Granule \in Nat \ {0} /\ MaxDots \in Nat /\ MaxDots > Granule
\* OamSearch: what the search leaves is sorted by position.
ASSUME ObjListsAssumption ==
  \A l \in Lines : \A i, j \in 1 .. Len(l.objs) : i < j => l.objs[i].x <= l.objs[j].x
\* An entry of mFoundObjs: the object's X byte, the positions of its tile's line
\* with a colour other than 0, its priority and its flip bit.
ObjEntry == [x : Nat, opaque : SUBSET (1 .. TileLen), below : BOOLEAN, xFlip : BOOLEAN]
ASSUME ObjEntriesAssumption == \A l \in Lines : l.objs \in Seq(ObjEntry)
\* Registers are bytes; only that they are numbers is used.
ASSUME ScxAssumption == ScxValues \subseteq Nat /\ \A l \in Lines : l.scx \in Nat
ASSUME WxAssumption == WxValues \subseteq Nat /\ \A l \in Lines : l.wx \in Nat
ASSUME WritesAssumption == Writes \subseteq {"SCX", "WX", "LCDC", "LCD"}

VARIABLES mode,       \* "search", "xfer", "hblank" or, with the LCD off, "off"
          mLineXPos, mMode3DelayCycles, mCurObj, mNumObjs, mFoundObjs,
          mFetcher, mFIFO,
          scx, wx, lcdc,
          dots,       \* history: cycles of this transfer, up to MaxDots
          out,        \* history: the position and pixel last drawn, or none
          clean       \* history: the line began with fetcher and FIFO reset,
                      \* and no register was written since

pipe == <<mLineXPos, mMode3DelayCycles, mCurObj, mFetcher, mFIFO>>
config == <<mNumObjs, mFoundObjs, scx, wx, lcdc>>
vars == <<mode, pipe, config, dots, out, clean>>

Nothing == [x |-> -TileLen, pix |-> <<>>]

TypeOK ==
  /\ mode \in {"search", "xfer", "hblank", "off"}
  /\ mLineXPos \in -TileLen .. Width
  /\ mMode3DelayCycles \in 0 .. TileLen - 1
  /\ mCurObj \in 0 .. mNumObjs
  /\ mFetcher.state \in fsReadNum0 .. fsIdle
  /\ mFetcher.spriteState \in (fsReadNum0 .. fsReadLow1) \cup {fsIdle}
  /\ mFetcher.sprite \in 0 .. Len(mFoundObjs)
  /\ Len(mFIFO.bg) <= TileLen /\ Len(mFIFO.obj) <= TileLen
  /\ out.x \in -TileLen .. Width - 1
  /\ dots \in 0 .. MaxDots /\ clean \in BOOLEAN

\* The FIFO's constructor leaves mBgEnabled uninitialized.
Init ==
  /\ mode = "off"
  /\ mLineXPos = -TileLen /\ mMode3DelayCycles = 0
  /\ mCurObj = 0 /\ mNumObjs = 0 /\ mFoundObjs = <<>>
  /\ mFetcher = FetcherReset
  /\ \E b \in BOOLEAN : mFIFO = [ResetQueue EXCEPT !.bgEnabled = b]
  /\ \E l \in Lines : scx = l.scx /\ wx = l.wx /\ lcdc = l.lcdc
  /\ dots = 0 /\ out = Nothing /\ clean = FALSE
-----------------------------------------------------------------------------
FineScroll == scx % TileLen

\* Entries past the ones found survive only where the fetcher points to one.
FoundObjs(list) ==
  IF mFetcher.sprite > Len(list)
    THEN list \o SubSeq(mFoundObjs, Len(list) + 1, mFetcher.sprite)
    ELSE list

\* The end of mode 2.  Registers and objects of the line are chosen here.
StartLine ==
  /\ mode \in {"search", "hblank"}
  /\ mode' = "xfer"
  /\ \E l \in Lines :
       /\ mNumObjs' = Len(l.objs) /\ mFoundObjs' = FoundObjs(l.objs)
       /\ scx' = l.scx /\ wx' = l.wx /\ lcdc' = l.lcdc
  /\ mCurObj' = 0 /\ mLineXPos' = -TileLen
  /\ mMode3DelayCycles' = scx' % TileLen
  /\ clean' = (mFetcher = FetcherReset /\ mFIFO = ResetQueue)
  /\ dots' = 0 /\ out' = Nothing
  /\ UNCHANGED <<mFetcher, mFIFO>>

\* The fetcher runs ahead for the scrolled pixels; no cycle is consumed.
Delay ==
  /\ mode = "xfer" /\ mMode3DelayCycles > 0
  /\ mMode3DelayCycles' = mMode3DelayCycles - 1
  /\ LET t == FetcherTick(mFetcher, mFIFO, scx, mFoundObjs)
     IN mFetcher' = t.f /\ mFIFO' = t.q
  /\ UNCHANGED <<mode, mLineXPos, mCurObj, config, dots, out, clean>>

\* The next object, given that cur have been started, begins at this pixel.
ObjectHere(cur) ==
  lcdc.obj /\ cur < mNumObjs /\ mFoundObjs[cur + 1].x = mLineXPos + TileLen

\* At the bound the count keeps its residue modulo Granule.
NextDot == IF dots = MaxDots THEN MaxDots - Granule + 1 ELSE dots + 1

Tick(f, q) == FetcherTick(f, q, scx, mFoundObjs)

\* The fetcher's cycle: finish the pending sprite and start the next one at
\* the same pixel, or start a sprite and tick.  eaten: the cycle ends here.
Chained(f) == f.sprite = NoSprite /\ ObjectHere(mCurObj)

Fetched ==
  IF mFetcher.sprite # NoSprite
    THEN LET t == Tick(mFetcher, mFIFO)
         IN IF Chained(t.f)
              THEN [f |-> StartSprite(t.f, mCurObj + 1), q |-> Lock(t.q),
                    cur |-> mCurObj + 1, eaten |-> TRUE]
              ELSE [f |-> t.f, q |-> t.q, cur |-> mCurObj, eaten |-> FALSE]
    ELSE IF ObjectHere(mCurObj)
      THEN LET t == Tick(StartSprite(mFetcher, mCurObj + 1), Lock(mFIFO))
           IN [f |-> t.f, q |-> t.q, cur |-> mCurObj + 1, eaten |-> FALSE]
      ELSE LET t == Tick(mFetcher, mFIFO)
           IN [f |-> t.f, q |-> t.q, cur |-> mCurObj, eaten |-> FALSE]

WindowHere(f) == lcdc.win /\ mLineXPos >= wx - 7 /\ f.mode # "win"

Windowed ==
  LET p == Fetched
  IN IF ~p.eaten /\ WindowHere(p.f)
       THEN [p EXCEPT !.f = EnterWindow(@), !.q = ClearBG(@), !.eaten = TRUE]
       ELSE p

\* Locked, or empty where a pixel has to be drawn.
Stalled(p) == p.eaten \/ p.q.locked \/ (p.q.bg = <<>> /\ mLineXPos >= 0)

DotEaten ==
  /\ mode = "xfer" /\ mMode3DelayCycles = 0
  /\ Stalled(Windowed)
  /\ LET p == Windowed IN mFetcher' = p.f /\ mFIFO' = p.q /\ mCurObj' = p.cur
  /\ dots' = NextDot /\ out' = Nothing
  /\ UNCHANGED <<mode, mLineXPos, mMode3DelayCycles, config, clean>>

AtScroll(x) == x = -FineScroll

\* A pixel leaves the FIFO: dropped while off the screen, drawn on it.
DotShifted ==
  /\ mode = "xfer" /\ mMode3DelayCycles = 0
  /\ ~Stalled(Windowed)
  /\ LET p == Windowed
         q == Popped(p.q, lcdc)
         x == mLineXPos + 1
     IN /\ out' = IF mLineXPos >= 0
                    THEN [x |-> mLineXPos, pix |-> Shown(p.q, lcdc)] ELSE Nothing
        /\ mLineXPos' = x
        /\ mCurObj' = p.cur
        /\ IF x = Width
             THEN mode' = "hblank" /\ mFetcher' = FetcherReset /\ mFIFO' = ResetQueue
             ELSE /\ UNCHANGED mode
                  /\ mFetcher' = p.f
                  /\ mFIFO' = IF AtScroll(x) THEN EnableBG(q) ELSE q
  /\ dots' = NextDot
  /\ UNCHANGED <<mMode3DelayCycles, config, clean>>

Dot == Delay \/ DotEaten \/ DotShifted
-----------------------------------------------------------------------------
(* The program, between two calls of tick *)

\* A call that ends with the search leaves all of the delay to the next one, as
\* many cycles as SCX scrolled; no other leaves a part of it.
BetweenCalls ==
  mode = "xfer" => dots % Granule = 0 /\ mMode3DelayCycles \in {0, FineScroll}

WriteSCX ==
  /\ "SCX" \in Writes /\ mode = "xfer" /\ BetweenCalls
  /\ scx' \in ScxValues /\ clean' = FALSE
  /\ UNCHANGED <<mode, pipe, mNumObjs, mFoundObjs, wx, lcdc, dots, out>>

WriteWX ==
  /\ "WX" \in Writes /\ mode = "xfer" /\ BetweenCalls
  /\ wx' \in WxValues /\ clean' = FALSE
  /\ UNCHANGED <<mode, pipe, mNumObjs, mFoundObjs, scx, lcdc, dots, out>>

WriteLCDC ==
  /\ "LCDC" \in Writes /\ mode = "xfer" /\ BetweenCalls
  /\ lcdc' \in LcdcValues /\ clean' = FALSE
  /\ UNCHANGED <<mode, pipe, mNumObjs, mFoundObjs, scx, wx, dots, out>>

LcdOn ==
  /\ mode = "off"
  /\ mode' = "search"
  /\ UNCHANGED <<pipe, config, dots, out, clean>>

\* The LCD switched off: the fetcher and the FIFO are left as they are.
LcdOff ==
  /\ "LCD" \in Writes /\ mode # "off" /\ BetweenCalls
  /\ mode' = "off" /\ out' = Nothing
  /\ UNCHANGED <<pipe, config, dots, clean>>

Next == StartLine \/ Dot \/ WriteSCX \/ WriteWX \/ WriteLCDC \/ LcdOn \/ LcdOff

\* Boldboy::tick drives the PPU; nothing obliges the program to write.
Spec == Init /\ [][Next]_vars /\ WF_vars(Dot)
-----------------------------------------------------------------------------
(* The reference: which pixel belongs at position x of the line. *)

Columns == MapTiles * TileLen

InWindow(x) == lcdc.win /\ x >= wx - 7

Background(x) ==
  LET col == IF InWindow(x) THEN x - (wx - 7) ELSE (scx + x) % Columns
  IN Filtered([src |-> IF InWindow(x) THEN "win" ELSE "bg", col |-> col,
               opaque |-> col \in OpaqueCols, below |-> FALSE], lcdc)

\* Object i's pixel at position x, when it covers x.
Covers(i, x) == x + TileLen \in mFoundObjs[i].x .. mFoundObjs[i].x + TileLen - 1
ObjectPixel(i, x) ==
  SpriteLine(mFoundObjs[i], i)[x + TileLen - mFoundObjs[i].x + 1]

Opaque(x) == {i \in 1 .. mNumObjs : Covers(i, x) /\ ObjectPixel(i, x).opaque}

\* The first opaque object in order of position wins, unless its priority
\* bit puts it below a background pixel with a colour.
Reference(x) ==
  LET b == Background(x)
  IN IF ~lcdc.obj \/ Opaque(x) = {} THEN b
     ELSE LET first == CHOOSE i \in Opaque(x) : \A j \in Opaque(x) : i <= j
              o == ObjectPixel(first, x)
          IN IF o.below /\ b.opaque THEN b ELSE o
-----------------------------------------------------------------------------
(* On a line whose registers are left alone, every pixel drawn is the one  *)
(* of the reference.  A window to the left of the screen (WX < 7) is out   *)
(* of the scope of the background part.                                    *)
PixelCorrect ==
  clean /\ out # Nothing /\ (lcdc.win => wx >= 7) => out.pix = Reference(out.x)

(* A locked FIFO has a sprite fetch under way that will unlock it.         *)
LockedForSprite ==
  mFIFO.locked <=> mFetcher.sprite # NoSprite

(* How long a line takes: one cycle for each pixel shifted out, none for   *)
(* the scrolled ones, at most 9 for every object started and at most 7 for *)
(* the fetch the window begins again.                                      *)
ObjCost == 9
WinCost == 7
XferBounded ==
  clean =>
    dots <= (mLineXPos + TileLen) + mCurObj * ObjCost + (IF lcdc.win THEN WinCost ELSE 0)

(* Every transfer ends, whatever LCDC bits the program flips and whenever  *)
(* the LCD was last switched off.                                          *)
LineEnds == mode = "xfer" ~> mode # "xfer"

(* ppu.cpp:234: at the position that matches the scroll the background is  *)
(* enabled, so on the screen it always is.                                 *)
EnabledOnScreen == mode = "xfer" /\ mLineXPos >= 0 => mFIFO.bgEnabled
=============================================================================
