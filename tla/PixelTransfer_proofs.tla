------------------------ MODULE PixelTransfer_proofs ------------------------
(***************************************************************************)
(* Proofs about PixelTransfer, for every width of the screen, every list   *)
(* of objects and every choice of register writes.                         *)
(***************************************************************************)
EXTENDS PixelTransfer, TLAPS

FetcherFields ==
  {"state", "spriteState", "mode", "sprite", "tileCnt", "tileNum", "line"}
QueueFields == {"bg", "obj", "locked", "bgEnabled"}

(* A fetcher and a queue whose lock stands for a pending sprite.           *)
Paired(f, q) ==
  /\ f = [x \in FetcherFields |-> f[x]]
  /\ q = [x \in QueueFields |-> q[x]]
  /\ q.locked \in BOOLEAN
  /\ q.locked <=> f.sprite # NoSprite

IInv == Paired(mFetcher, mFIFO) /\ mCurObj \in Nat

(* tryWriteLine keeps lock and sprite as they are.                         *)
LEMMA WritePaired ==
  ASSUME NEW f, NEW q, Paired(f, q)
  PROVE  Paired(TryWriteLine(f, q).f, TryWriteLine(f, q).q)
<1>1. CASE q.bg = <<>> /\ CanLoadBG(q)
  BY <1>1 DEF TryWriteLine, LoadBG, Paired, FetcherFields, QueueFields
<1>2. CASE ~(q.bg = <<>> /\ CanLoadBG(q))
  BY <1>2 DEF TryWriteLine, Paired, FetcherFields, QueueFields
<1> QED
  BY <1>1, <1>2

(* The background half of Fetcher::tick keeps lock and sprite as they are. *)
LEMMA BackgroundPaired ==
  ASSUME NEW f, NEW q, NEW s, Paired(f, q)
  PROVE  Paired(TickBackground(f, q, s).f, TickBackground(f, q, s).q)
<1>1. Paired(NextTile(f), q)
  BY DEF NextTile, Paired, FetcherFields
<1>2. Paired(Fetching(f, s), q)
  BY DEF Fetching, Paired, FetcherFields
<1> QED
  BY <1>1, <1>2, WritePaired DEF TickBackground

(* The sprite half releases the lock when it gives the sprite up.          *)
LEMMA SpritePaired ==
  ASSUME NEW f, NEW q, NEW objs, Paired(f, q)
  PROVE  Paired(TickSprite(f, q, objs).f, TickSprite(f, q, objs).q)
<1>1. Paired([f EXCEPT !.spriteState = NextState(@)], q)
  BY DEF Paired, FetcherFields
<1>2. ASSUME NEW line PROVE Paired(SpriteDone(f), SpriteLoaded(q, line))
  <2>1. MixSprite(q, line) = [x \in QueueFields |-> MixSprite(q, line)[x]]
    BY DEF MixSprite, Paired, QueueFields
  <2> QED
    BY <2>1 DEF SpriteDone, SpriteLoaded, Unlock, Paired, FetcherFields, QueueFields
<1> QED
  BY <1>1, <1>2 DEF TickSprite

(* One call of Fetcher::tick.                                              *)
LEMMA TickPaired ==
  ASSUME NEW f, NEW q, NEW s, NEW objs, Paired(f, q)
  PROVE  Paired(FetcherTick(f, q, s, objs).f, FetcherTick(f, q, s, objs).q)
BY BackgroundPaired, SpritePaired DEF FetcherTick

(* Starting a sprite locks the queue.                                      *)
LEMMA StartPaired ==
  ASSUME NEW f, NEW q, NEW i \in Nat \ {0}, Paired(f, q)
  PROVE  Paired(StartSprite(f, i), Lock(q))
BY DEF StartSprite, Lock, Paired, FetcherFields, QueueFields, NoSprite

(* The fetcher's part of a cycle, with the sprite it ends or starts.       *)
LEMMA FetchedPaired ==
  ASSUME IInv
  PROVE  Paired(Fetched.f, Fetched.q) /\ Fetched.cur \in Nat
<1>1. ASSUME NEW f, NEW q, Paired(f, q) PROVE Paired(Tick(f, q).f, Tick(f, q).q)
  BY <1>1, TickPaired DEF Tick
<1>2. mCurObj + 1 \in Nat \ {0} /\ mCurObj \in Nat /\ Paired(mFetcher, mFIFO)
  BY DEF IInv
<1>3. CASE mFetcher.sprite # NoSprite
  <2> DEFINE t == Tick(mFetcher, mFIFO)
  <2>1. Paired(t.f, t.q)
    BY <1>1, <1>2
  <2>2. Paired(StartSprite(t.f, mCurObj + 1), Lock(t.q))
    BY <1>2, <2>1, StartPaired
  <2> HIDE DEF t
  <2>3. Fetched = IF Chained(t.f)
              THEN [f |-> StartSprite(t.f, mCurObj + 1), q |-> Lock(t.q),
                    cur |-> mCurObj + 1, eaten |-> TRUE]
              ELSE [f |-> t.f, q |-> t.q, cur |-> mCurObj, eaten |-> FALSE]
    BY <1>3 DEF Fetched, t
  <2> QED
    BY <1>2, <2>1, <2>2, <2>3
<1>4. CASE mFetcher.sprite = NoSprite /\ ObjectHere(mCurObj)
  <2> DEFINE t == Tick(StartSprite(mFetcher, mCurObj + 1), Lock(mFIFO))
  <2>1. Paired(t.f, t.q)
    BY <1>1, <1>2, StartPaired
  <2> HIDE DEF t
  <2>2. Fetched = [f |-> t.f, q |-> t.q, cur |-> mCurObj + 1, eaten |-> FALSE]
    BY <1>4 DEF Fetched, t
  <2> QED
    BY <1>2, <2>1, <2>2
<1>5. CASE mFetcher.sprite = NoSprite /\ ~ObjectHere(mCurObj)
  <2> DEFINE t == Tick(mFetcher, mFIFO)
  <2>1. Paired(t.f, t.q)
    BY <1>1, <1>2
  <2> HIDE DEF t
  <2>2. Fetched = [f |-> t.f, q |-> t.q, cur |-> mCurObj, eaten |-> FALSE]
    BY <1>5 DEF Fetched, t
  <2> QED
    BY <1>2, <2>1, <2>2
<1> QED
  BY <1>3, <1>4, <1>5

(* Entering the window touches neither lock nor sprite.                    *)
LEMMA WindowedPaired ==
  ASSUME IInv
  PROVE  Paired(Windowed.f, Windowed.q) /\ Windowed.cur \in Nat
<1> DEFINE p == Fetched
<1>1. Paired(p.f, p.q) /\ p.cur \in Nat
  BY FetchedPaired
<1>2. Paired(EnterWindow(p.f), ClearBG(p.q))
  BY <1>1 DEF EnterWindow, ClearBG, Paired, FetcherFields, QueueFields
<1>3. p = [x \in {"f", "q", "cur", "eaten"} |-> p[x]]
  BY DEF Fetched
<1>4. Windowed = IF ~p.eaten /\ WindowHere(p.f)
       THEN [p EXCEPT !.f = EnterWindow(@), !.q = ClearBG(@), !.eaten = TRUE]
       ELSE p
  BY DEF Windowed
<1> HIDE DEF p
<1> QED
  BY <1>1, <1>2, <1>3, <1>4

(* The state after the constructors, whatever mBgEnabled holds.            *)
LEMMA InitInv == Init => IInv
BY DEF Init, IInv, Paired, FetcherReset, ResetQueue, FetcherFields, QueueFields, NoSprite

(* Every step keeps lock and pending sprite together.                      *)
LEMMA NextInv == IInv /\ [Next]_vars => IInv'
<1> SUFFICES ASSUME IInv, [Next]_vars PROVE IInv'
  OBVIOUS
<1>1. CASE StartLine
  BY <1>1 DEF StartLine, IInv
<1>2. CASE Delay
  BY <1>2, TickPaired DEF Delay, IInv
<1>3. CASE DotEaten
  BY <1>3, WindowedPaired DEF DotEaten, IInv
<1>4. CASE DotShifted
  <2> DEFINE p == Windowed
             q == Popped(p.q, lcdc)
  <2>1. Paired(p.f, p.q) /\ p.cur \in Nat
    BY WindowedPaired
  <2>2. Paired(p.f, q) /\ Paired(p.f, EnableBG(q))
    BY <2>1 DEF Popped, PopObj, PopBG, EnableBG, Paired, QueueFields
  <2>3. Paired(FetcherReset, ResetQueue)
    BY DEF Paired, FetcherReset, ResetQueue, FetcherFields, QueueFields, NoSprite
  <2>4. /\ mCurObj' = p.cur
        /\ \/ mFetcher' = FetcherReset /\ mFIFO' = ResetQueue
           \/ mFetcher' = p.f /\ mFIFO' = EnableBG(q)
           \/ mFetcher' = p.f /\ mFIFO' = q
    BY <1>4 DEF DotShifted
  <2> HIDE DEF p, q
  <2> QED
    BY <2>1, <2>2, <2>3, <2>4 DEF IInv
<1>5. CASE WriteSCX \/ WriteWX \/ WriteLCDC \/ LcdOn \/ LcdOff \/ UNCHANGED vars
  BY <1>5 DEF WriteSCX, WriteWX, WriteLCDC, LcdOn, LcdOff, vars, pipe, IInv
<1> QED
  BY <1>1, <1>2, <1>3, <1>4, <1>5 DEF Next, Dot

(* A locked FIFO always has the sprite under way that will unlock it,      *)
(* whatever the program writes and whenever it switches the LCD off.       *)
THEOREM LockedForSpriteHolds == Spec => []LockedForSprite
<1>1. IInv => LockedForSprite
  BY DEF IInv, Paired, LockedForSprite
<1> QED
  BY <1>1, InitInv, NextInv, PTL DEF Spec
-----------------------------------------------------------------------------
(* Pixels by their sort: where from, which column, opaque, priority.       *)
Pixel == [src : {"bg", "win", "obj"}, col : Int, opaque : BOOLEAN, below : BOOLEAN]

(* The shape of fetcher and queue at any time.                             *)
Piped(f, q) ==
  /\ Paired(f, q)
  /\ f.state \in 0 .. 8 /\ f.spriteState \in 0 .. 5 \cup {8} /\ f.mode \in {"bg", "win"}
  /\ f.spriteState = 8 <=> f.sprite = NoSprite
  /\ f.state = 8 => f.sprite # NoSprite
  /\ f.tileCnt \in Nat /\ f.tileNum \in Nat
  /\ f.line \in Seq(Pixel) /\ (f.state \in {6, 7} => Len(f.line) = TileLen)
  /\ q.bg \in Seq(Pixel)

(* The fetched line goes into the queue.                                   *)
Loads(f, q) == f.state \in {6, 7} /\ q.bg = <<>> /\ q.bgEnabled

(* What the background half of a tick does to states and queue.            *)
BgState(f, q) ==
  IF Loads(f, q) THEN (IF f.sprite = NoSprite THEN 0 ELSE 8) ELSE NextState(f.state)

(* The fetcher's states are the numbers 0 to 8, and tiles are not empty.   *)
LEMMA Numbers ==
  /\ fsReadNum0 = 0 /\ fsReadNum1 = 1 /\ fsReadHigh0 = 2 /\ fsReadHigh1 = 3 /\ fsReadLow0 = 4
  /\ fsReadLow1 = 5 /\ fsWriteLine0 = 6 /\ fsWriteLine1 = 7 /\ fsIdle = 8
  /\ TileLen \in Nat \ {0} /\ MapTiles \in Nat \ {0}
BY TileLenAssumption, MapTilesAssumption
   DEF fsReadNum0, fsReadNum1, fsReadHigh0, fsReadHigh1, fsReadLow0, fsReadLow1, fsWriteLine0, fsWriteLine1, fsIdle

(* A state moves on until the line waits to be written.                    *)
LEMMA NextStates ==
  \A s \in 0 .. 8 : NextState(s) = IF s < 7 THEN s + 1 ELSE s
BY Numbers DEF NextState

(* A function on 1 .. n is a sequence of length n.                         *)
LEMMA FunctionIsSeq ==
  ASSUME NEW S, NEW n \in Nat, NEW F \in [1 .. n -> S]
  PROVE  F \in Seq(S) /\ Len(F) = n
<1>1. F \in Seq(S)
  OBVIOUS
<1>2. Len(F) \in Nat /\ DOMAIN F = 1 .. Len(F) /\ DOMAIN F = 1 .. n
  BY <1>1
<1> QED
  BY <1>1, <1>2

(* A line of the background has the width of a tile.                       *)
LEMMA LineTyped ==
  ASSUME NEW m \in {"bg", "win"}, NEW n \in Nat
  PROVE  TileLine(m, n) \in Seq(Pixel) /\ Len(TileLine(m, n)) = TileLen
<1>1. TileLen \in Nat /\ \A i \in 1 .. TileLen : n * TileLen + i - 1 \in Int
  BY Numbers
<1>2. \A i \in 1 .. TileLen :
        [src |-> m, col |-> n * TileLen + i - 1,
         opaque |-> n * TileLen + i - 1 \in OpaqueCols, below |-> FALSE] \in Pixel
  BY <1>1 DEF Pixel
<1>3. TileLine(m, n) \in [1 .. TileLen -> Pixel]
  BY <1>2 DEF TileLine
<1> HIDE DEF TileLine
<1> QED
  BY <1>1, <1>3, FunctionIsSeq

(* Tile numbers and the tile counter stay natural numbers.                 *)
LEMMA ColumnTyped ==
  ASSUME NEW f, NEW s \in Nat, f.tileCnt \in Nat
  PROVE  TileColumn(f, s) \in Nat /\ (f.tileCnt + 1) % MapTiles \in Nat
<1>1. /\ s \div TileLen \in Nat
  BY Numbers
<1>2. f.tileCnt + (IF f.mode = "bg" THEN s \div TileLen ELSE 0) \in Nat
  BY <1>1
<1>3. \A a \in Nat : a % MapTiles \in Nat
  BY Numbers
<1> QED
  BY <1>2, <1>3 DEF TileColumn

(* tryWriteLine                                                            *)
LEMMA WriteIs ==
  ASSUME NEW f, NEW q, Piped(f, q), f.state \in {6, 7}
  PROVE  LET b == TryWriteLine(f, q)
         IN /\ Piped(b.f, b.q) /\ b.f.state = BgState(f, q)
            /\ b.f = [f EXCEPT !.state = BgState(f, q)]
            /\ b.q = [q EXCEPT !.bg = IF Loads(f, q) THEN f.line ELSE q.bg]
<1>1. Paired(f, q) /\ f.line \in Seq(Pixel) /\ q.bg \in Seq(Pixel) /\ Len(f.line) = TileLen
  BY DEF Piped
<1>2. q.bg = <<>> => (CanLoadBG(q) <=> q.bgEnabled) /\ q.bg \o f.line = f.line
  <2>1. <<>> \o f.line = f.line
    BY <1>1
  <2>2. Len(<<>>) <= TileLen
    BY Numbers
  <2> QED
    BY <2>1, <2>2 DEF CanLoadBG
<1>3. (f.spriteState = fsIdle) = (f.sprite = NoSprite)
  BY Numbers DEF Piped
<1>4. TryWriteLine(f, q) =
        [f |-> [f EXCEPT !.state = BgState(f, q)],
         q |-> [q EXCEPT !.bg = IF Loads(f, q) THEN f.line ELSE q.bg]]
  <2>1. CASE Loads(f, q)
    <3>1. q.bg = <<>> /\ CanLoadBG(q)
      BY <1>2, <2>1 DEF Loads
    <3>2. LoadBG(q, f.line) = [q EXCEPT !.bg = f.line]
      BY <1>2, <3>1 DEF LoadBG
    <3> QED
      BY <1>3, <2>1, <3>1, <3>2, Numbers DEF TryWriteLine, BgState
  <2>2. CASE ~Loads(f, q)
    <3>1. ~(q.bg = <<>> /\ CanLoadBG(q))
      BY <1>2, <2>2 DEF Loads
    <3>2. [q EXCEPT !.bg = q.bg] = q
      BY <1>1 DEF Paired, QueueFields
    <3> QED
      BY <2>2, <3>1, <3>2 DEF TryWriteLine, BgState
  <2> QED
    BY <2>1, <2>2
<1>5. BgState(f, q) \in {0, 7, 8} /\ (BgState(f, q) = 8 => f.sprite # NoSprite)
  BY NextStates DEF BgState
<1> DEFINE s == BgState(f, q)
           l == IF Loads(f, q) THEN f.line ELSE q.bg
<1>6. l \in Seq(Pixel) /\ s \in {0, 7, 8} /\ (s = 8 => f.sprite # NoSprite)
  BY <1>1, <1>5
<1>9. TryWriteLine(f, q).f = [f EXCEPT !.state = s] /\ TryWriteLine(f, q).q = [q EXCEPT !.bg = l]
  BY <1>4
<1> HIDE DEF s, l
<1>7. Piped([f EXCEPT !.state = s], [q EXCEPT !.bg = l])
  <2> DEFINE g == [f EXCEPT !.state = s]
             r == [q EXCEPT !.bg = l]
  <2>1. Paired(g, r)
    BY <1>1 DEF Paired, FetcherFields, QueueFields
  <2>2. /\ g.state = s /\ g.spriteState = f.spriteState /\ g.mode = f.mode /\ g.sprite = f.sprite
        /\ g.tileCnt = f.tileCnt /\ g.tileNum = f.tileNum /\ g.line = f.line /\ r.bg = l
    BY <1>1 DEF Paired, FetcherFields, QueueFields
  <2> HIDE DEF g, r
  <2>3. Piped(g, r)
    BY <1>1, <1>6, <2>1, <2>2 DEF Piped
  <2> QED
    BY <2>3 DEF g, r
<1>8. [f EXCEPT !.state = s].state = s
  BY <1>1 DEF Paired, FetcherFields
<1> DEFINE b == TryWriteLine(f, q)
<1> HIDE DEF b
<1>10. Piped(b.f, b.q) /\ b.f.state = s /\ b.f = [f EXCEPT !.state = s] /\ b.q = [q EXCEPT !.bg = l]
  BY <1>7, <1>8, <1>9 DEF b
<1> QED
  BY <1>10 DEF b, s, l

(* The background half of Fetcher::tick.                                   *)
LEMMA BackgroundIs ==
  ASSUME NEW f, NEW q, NEW s \in Nat, Piped(f, q)
  PROVE  LET b == TickBackground(f, q, s)
         IN /\ Piped(b.f, b.q) /\ b.f.state = BgState(f, q)
            /\ b.f.sprite = f.sprite /\ b.f.spriteState = f.spriteState /\ b.f.mode = f.mode
            /\ b.q = [q EXCEPT !.bg = IF Loads(f, q) THEN f.line ELSE q.bg]
<1>1. Paired(f, q) /\ f.state \in 0 .. 8
  BY DEF Piped
<1>2. CASE f.state = 6
  <2>1. Piped(NextTile(f), q) /\ Loads(NextTile(f), q) = Loads(f, q) /\ BgState(NextTile(f), q) = BgState(f, q)
        /\ NextTile(f).state = 6 /\ NextTile(f).line = f.line
        /\ NextTile(f).sprite = f.sprite /\ NextTile(f).spriteState = f.spriteState /\ NextTile(f).mode = f.mode
    <3> DEFINE n == (f.tileCnt + 1) % MapTiles
    <3>1. n \in Nat /\ NextTile(f) = [f EXCEPT !.tileCnt = n]
      BY ColumnTyped DEF Piped, NextTile
    <3> HIDE DEF n
    <3> QED
      BY <1>2, <3>1 DEF Piped, Paired, FetcherFields, Loads, BgState
  <2>2. TickBackground(f, q, s) = TryWriteLine(NextTile(f), q)
    BY <1>2, Numbers DEF TickBackground
  <2> DEFINE g == NextTile(f)
  <2> HIDE DEF g
  <2> DEFINE b == TryWriteLine(g, q)
             k == BgState(g, q)
  <2>3. Paired(g, q) /\ Piped(g, q) /\ g.state \in {6, 7}
    BY <2>1 DEF Piped, g
  <2>4. /\ Piped(b.f, b.q) /\ b.f.state = k /\ b.f = [g EXCEPT !.state = k]
        /\ b.q = [q EXCEPT !.bg = IF Loads(g, q) THEN g.line ELSE q.bg]
    BY <2>3, WriteIs
  <2> HIDE DEF b, k
  <2>5. b.f.sprite = g.sprite /\ b.f.spriteState = g.spriteState /\ b.f.mode = g.mode
    BY <2>3, <2>4 DEF Paired, FetcherFields
  <2>6. TickBackground(f, q, s) = b /\ k = BgState(f, q) /\ (Loads(g, q) <=> Loads(f, q)) /\ g.line = f.line
        /\ g.sprite = f.sprite /\ g.spriteState = f.spriteState /\ g.mode = f.mode
    BY <2>1, <2>2 DEF b, g, k
  <2> QED
    BY <2>4, <2>5, <2>6
<1>3. CASE f.state = 7
  <2>1. TickBackground(f, q, s) = TryWriteLine(f, q)
    BY <1>3, Numbers DEF TickBackground
  <2> DEFINE b == TryWriteLine(f, q)
             k == BgState(f, q)
  <2>2. /\ Piped(b.f, b.q) /\ b.f.state = k /\ b.f = [f EXCEPT !.state = k]
        /\ b.q = [q EXCEPT !.bg = IF Loads(f, q) THEN f.line ELSE q.bg]
    BY <1>3, WriteIs
  <2> HIDE DEF b, k
  <2>3. b.f.sprite = f.sprite /\ b.f.spriteState = f.spriteState /\ b.f.mode = f.mode
    BY <1>1, <2>2 DEF Paired, FetcherFields
  <2>4. TickBackground(f, q, s) = b
    BY <2>1 DEF b
  <2> QED
    BY <2>2, <2>3, <2>4 DEF k
<1>4. CASE f.state \notin {6, 7}
  <2> DEFINE n == IF f.state = fsReadNum1 THEN TileColumn(f, s) ELSE f.tileNum
             l == IF f.state = fsReadLow1 THEN TileLine(f.mode, f.tileNum) ELSE f.line
             k == NextState(f.state)
  <2>1. TickBackground(f, q, s) = [f |-> [f EXCEPT !.state = k, !.tileNum = n, !.line = l], q |-> q]
    BY <1>4, Numbers DEF TickBackground, Fetching
  <2>2. n \in Nat /\ l \in Seq(Pixel) /\ (f.state = 5 => Len(l) = TileLen)
    BY ColumnTyped, LineTyped, Numbers DEF Piped
  <2>3. k = (IF f.state < 7 THEN f.state + 1 ELSE f.state) /\ k = BgState(f, q) /\ ~Loads(f, q)
    BY <1>1, <1>4, NextStates DEF BgState, Loads
  <2>4. k \in 0 .. 8 /\ (k \in {6, 7} => f.state = 5) /\ (k = 8 => f.state = 8)
    BY <1>1, <1>4, <2>3
  <2> HIDE DEF n, l, k
  <2>5. Piped([f EXCEPT !.state = k, !.tileNum = n, !.line = l], q)
    BY <2>2, <2>4 DEF Piped, Paired, FetcherFields
  <2>6. q = [q EXCEPT !.bg = q.bg]
    BY <1>1 DEF Paired, QueueFields
  <2> DEFINE g == [f EXCEPT !.state = k, !.tileNum = n, !.line = l]
  <2>7. g.state = k /\ g.sprite = f.sprite /\ g.spriteState = f.spriteState /\ g.mode = f.mode
    BY <1>1 DEF Paired, FetcherFields
  <2>8. TickBackground(f, q, s).f = g /\ TickBackground(f, q, s).q = q
    BY <2>1
  <2> HIDE DEF g
  <2> QED
    BY <2>3, <2>5, <2>6, <2>7, <2>8 DEF g
<1> QED
  BY <1>2, <1>3, <1>4

(* One call of Fetcher::tick, in numbers.                                  *)
LEMMA TickIs ==
  ASSUME NEW f, NEW q, NEW s \in Nat, NEW objs, Piped(f, q)
  PROVE  LET t == FetcherTick(f, q, s, objs)
             k == BgState(f, q)
             ends == k >= 5 /\ f.spriteState = 5
         IN /\ Piped(t.f, t.q) /\ t.f.mode = f.mode /\ t.q.bgEnabled = q.bgEnabled
            /\ t.q.bg = IF Loads(f, q) THEN f.line ELSE q.bg
            /\ f.sprite = NoSprite => t.f.sprite = NoSprite /\ t.f.state = k
            /\ f.sprite # NoSprite /\ ~ends =>
                 /\ t.f.sprite = f.sprite /\ t.f.state = k
                 /\ t.f.spriteState = IF k >= 5 THEN f.spriteState + 1 ELSE f.spriteState
            /\ f.sprite # NoSprite /\ ends =>
                 t.f.sprite = NoSprite /\ t.f.state = IF k = 8 THEN 0 ELSE k
<1> DEFINE t == FetcherTick(f, q, s, objs)
           k == BgState(f, q)
           b == TickBackground(f, q, s)
           g == b.f
           r == b.q
           bg == IF Loads(f, q) THEN f.line ELSE q.bg
           ends == k >= 5 /\ f.spriteState = 5
<1>1. /\ Piped(g, r) /\ g.state = k
      /\ g.sprite = f.sprite /\ g.spriteState = f.spriteState /\ g.mode = f.mode
      /\ r = [q EXCEPT !.bg = bg]
  BY BackgroundIs
<1>2. t = TickSprite(g, r, objs)
  BY DEF FetcherTick
<1>3. r.bg = bg /\ r.bgEnabled = q.bgEnabled
  BY <1>1 DEF Piped, Paired, QueueFields
<1> HIDE DEF t, k, b, g, r, bg
<1>4. Paired(g, r) /\ g.state \in 0 .. 8 /\ g.spriteState \in 0 .. 5 \cup {8} /\ (g.spriteState = 8 <=> g.sprite = NoSprite)
  BY <1>1 DEF Piped
<1>5. CASE f.sprite = NoSprite \/ k < 5
  <2>1. t.f = g /\ t.q = r
    BY <1>1, <1>2, <1>4, <1>5, Numbers DEF TickSprite
  <2>2. ~ends \/ f.sprite = NoSprite
    BY <1>1, <1>4, <1>5
  <2> QED
    BY <1>1, <1>3, <1>4, <1>5, <2>1, <2>2 DEF t, k, bg
<1>6. CASE f.sprite # NoSprite /\ k >= 5 /\ f.spriteState < 5
  <2> DEFINE h == [g EXCEPT !.spriteState = f.spriteState + 1]
  <2>1. t.f = h /\ t.q = r
    <3>1. NextState(g.spriteState) = f.spriteState + 1
      BY <1>1, <1>4, <1>6, NextStates
    <3> QED
      BY <1>1, <1>2, <1>4, <1>6, <3>1, Numbers DEF TickSprite
  <2>2. /\ h.state = g.state /\ h.spriteState = f.spriteState + 1 /\ h.mode = g.mode /\ h.sprite = g.sprite
        /\ h.tileCnt = g.tileCnt /\ h.tileNum = g.tileNum /\ h.line = g.line
    BY <1>4 DEF Paired, FetcherFields
  <2>3. Paired(h, r)
    BY <1>4 DEF Paired, FetcherFields
  <2> HIDE DEF h
  <2>6. h.spriteState \in 0 .. 5 /\ h.spriteState # 8 /\ h.sprite # NoSprite
    BY <1>1, <1>4, <1>6, <2>2
  <2>4. Piped(h, r)
    BY <1>1, <2>2, <2>3, <2>6 DEF Piped
  <2>5. ~ends
    BY <1>6
  <2> QED
    BY <1>1, <1>3, <1>6, <2>1, <2>2, <2>4, <2>5 DEF t, k, bg
<1>7. CASE f.sprite # NoSprite /\ k >= 5 /\ f.spriteState >= 5
  <2> DEFINE line == SpriteLine(objs[g.sprite], g.sprite)
             h == SpriteDone(g)
             m == SpriteLoaded(r, line)
  <2>1. t.f = h /\ t.q = m
    BY <1>1, <1>2, <1>4, <1>7, Numbers DEF TickSprite
  <2>2. /\ h.state = (IF k = 8 THEN 0 ELSE k) /\ h.spriteState = 8 /\ h.mode = g.mode /\ h.sprite = NoSprite
        /\ h.tileCnt = g.tileCnt /\ h.tileNum = g.tileNum /\ h.line = g.line
    BY <1>1, <1>4, Numbers DEF SpriteDone, Paired, FetcherFields
  <2>3. m.bg = bg /\ m.bgEnabled = q.bgEnabled
    BY <1>3, <1>4 DEF SpriteLoaded, MixSprite, Unlock, Paired, QueueFields
  <2>4. Paired(h, m)
    <3>1. MixSprite(r, line) = [x \in QueueFields |-> MixSprite(r, line)[x]]
      BY <1>4 DEF MixSprite, Paired, QueueFields
    <3> QED
      BY <1>4, <3>1 DEF SpriteDone, SpriteLoaded, Unlock, Paired, FetcherFields, QueueFields
  <2>5. ends
    BY <1>1, <1>4, <1>7
  <2> HIDE DEF h, m, line
  <2>6. Piped(h, m)
    BY <1>1, <1>3, <1>4, <1>7, <2>2, <2>3, <2>4 DEF Piped
  <2> QED
    BY <1>1, <1>7, <2>1, <2>2, <2>3, <2>5, <2>6 DEF t, k, bg
<1> QED
  BY <1>1, <1>4, <1>5, <1>6, <1>7

(* The next line will be there when n pixels from now the queue is empty.  *)
Lead(f, q, n) == f.state >= 6 \/ f.state + Len(q.bg) >= n

(* The fetcher is never late but in the window it has just entered, and a  *)
(* sprite fetch is not ahead of the background's.                          *)
Steady(f, q) ==
  /\ f.state = 8 => Len(q.bg) = TileLen
  /\ ~q.bgEnabled => q.bg = <<>>
  /\ f.mode = "bg" /\ q.bgEnabled => Lead(f, q, 6)
  /\ f.mode = "win" => Lead(f, q, 6) \/ q.bg = <<>>
  /\ f.sprite # NoSprite =>
       \/ f.spriteState <= 1
       \/ f.state = 5 /\ f.spriteState <= 2
       \/ f.state = 6 /\ f.spriteState <= 3
       \/ f.state >= 7

(* Before the queue is enabled the fetcher has had n cycles.               *)
Early(f, q, n) == ~q.bgEnabled /\ f.mode = "bg" => f.state >= 6 \/ f.state >= n

(* The cycles a pending sprite still takes; one more for the next if the   *)
(* line is handed over meanwhile, when the fetch begins again after the    *)
(* sprite.                                                                 *)
SpriteOwes(f, q) ==
  (IF f.state >= 4 THEN 5 - f.spriteState ELSE 9 - f.state - f.spriteState)
    + (IF f.state = 8 \/ (q.bg = <<>> /\ q.bgEnabled) THEN 1 ELSE 0)

(* The cycles until a pixel is there.                                      *)
Owed(f, q) ==
  IF f.sprite # NoSprite THEN SpriteOwes(f, q)
  ELSE IF f.mode = "bg" \/ Lead(f, q, 6) THEN 0 ELSE 6 - f.state

(* What a tick does, in numbers.                                           *)
LEMMA TickNumbers ==
  ASSUME NEW f, NEW q, NEW s \in Nat, NEW objs, Piped(f, q)
  PROVE  LET t == FetcherTick(f, q, s, objs)
             n == Len(q.bg)
             loads == f.state \in {6, 7} /\ n = 0 /\ q.bgEnabled
             k == IF loads THEN (IF f.sprite = NoSprite THEN 0 ELSE 8)
                  ELSE IF f.state < 7 THEN f.state + 1 ELSE f.state
             ends == k >= 5 /\ f.spriteState = 5
         IN /\ n \in Nat /\ (q.bg = <<>> <=> n = 0) /\ (t.q.bg = <<>> <=> Len(t.q.bg) = 0)
            /\ Len(t.q.bg) = IF loads THEN TileLen ELSE n
            /\ f.sprite = NoSprite => t.f.sprite = NoSprite /\ t.f.state = k
            /\ f.sprite # NoSprite /\ ~ends =>
                 /\ t.f.sprite # NoSprite /\ t.f.sprite = f.sprite /\ t.f.state = k
                 /\ t.f.spriteState = IF k >= 5 THEN f.spriteState + 1 ELSE f.spriteState
            /\ f.sprite # NoSprite /\ ends =>
                 t.f.sprite = NoSprite /\ t.f.state = IF k = 8 THEN 0 ELSE k
<1> DEFINE t == FetcherTick(f, q, s, objs)
           n == Len(q.bg)
           loads == f.state \in {6, 7} /\ n = 0 /\ q.bgEnabled
           k == IF loads THEN (IF f.sprite = NoSprite THEN 0 ELSE 8)
                ELSE IF f.state < 7 THEN f.state + 1 ELSE f.state
           ends == k >= 5 /\ f.spriteState = 5
<1>1. n \in Nat /\ (q.bg = <<>> <=> n = 0) /\ f.state \in 0 .. 8 /\ q.bg \in Seq(Pixel)
      /\ f.line \in Seq(Pixel) /\ (f.state \in {6, 7} => Len(f.line) = TileLen)
  BY DEF Piped
<1>2. Loads(f, q) <=> loads
  BY <1>1 DEF Loads
<1>3. BgState(f, q) = k
  BY <1>1, <1>2, NextStates DEF BgState
<1>4. /\ Piped(t.f, t.q) /\ t.q.bg = IF loads THEN f.line ELSE q.bg
      /\ f.sprite = NoSprite => t.f.sprite = NoSprite /\ t.f.state = k
      /\ f.sprite # NoSprite /\ ~ends =>
           /\ t.f.sprite = f.sprite /\ t.f.state = k
           /\ t.f.spriteState = IF k >= 5 THEN f.spriteState + 1 ELSE f.spriteState
      /\ f.sprite # NoSprite /\ ends =>
           t.f.sprite = NoSprite /\ t.f.state = IF k = 8 THEN 0 ELSE k
  BY <1>2, <1>3, TickIs
<1> HIDE DEF t, k, ends
<1>5. (t.q.bg = <<>> <=> Len(t.q.bg) = 0)
  <2>1. t.q.bg \in Seq(Pixel)
    BY <1>4 DEF Piped
  <2> QED
    BY <2>1
<1>6. Len(t.q.bg) = IF loads THEN TileLen ELSE n
  BY <1>1, <1>4
<1> QED
  BY <1>1, <1>4, <1>5, <1>6 DEF t, k, ends

(* A tick of a sprite's fetch: one cycle less is owed, until the sprite is *)
(* there and the next line as well.                                        *)
LEMMA SpriteTick ==
  ASSUME TileLen >= 7, NEW f, NEW q, NEW s \in Nat, NEW objs, Piped(f, q), Steady(f, q), f.sprite # NoSprite
  PROVE  LET t == FetcherTick(f, q, s, objs)
         IN /\ Steady(t.f, t.q) /\ Owed(f, q) \in Nat
            /\ t.f.sprite # NoSprite => Owed(t.f, t.q) = Owed(f, q) - 1
            /\ t.f.sprite = NoSprite =>
                 /\ t.f.state \in {0, 6, 7} /\ (t.f.state = 0 => Owed(f, q) >= 1) /\ Lead(t.f, t.q, 7)
                 /\ t.q.bg # <<>> \/ ~t.q.bgEnabled
<1> DEFINE t == FetcherTick(f, q, s, objs)
           n == Len(q.bg)
           loads == f.state \in {6, 7} /\ n = 0 /\ q.bgEnabled
           k == IF loads THEN 8 ELSE IF f.state < 7 THEN f.state + 1 ELSE f.state
           ends == k >= 5 /\ f.spriteState = 5
<1>1. /\ n \in Nat /\ (q.bg = <<>> <=> n = 0) /\ (t.q.bg = <<>> <=> Len(t.q.bg) = 0)
      /\ Len(t.q.bg) = IF loads THEN TileLen ELSE n
      /\ ~ends =>
           /\ t.f.sprite # NoSprite /\ t.f.sprite = f.sprite /\ t.f.state = k
           /\ t.f.spriteState = IF k >= 5 THEN f.spriteState + 1 ELSE f.spriteState
      /\ ends => t.f.sprite = NoSprite /\ t.f.state = IF k = 8 THEN 0 ELSE k
  BY TickNumbers
<1>2. t.f.mode = f.mode /\ t.q.bgEnabled = q.bgEnabled
  BY TickIs
<1>3. f.state \in 0 .. 8 /\ f.spriteState \in 0 .. 5 /\ TileLen \in Nat /\ f.mode \in {"bg", "win"}
  BY Numbers DEF Piped
<1> HIDE DEF t, n
<1>4. /\ f.state = 8 => n = TileLen
      /\ ~q.bgEnabled => n = 0
      /\ f.mode = "bg" /\ q.bgEnabled => f.state >= 6 \/ f.state + n >= 6
      /\ f.mode = "win" => f.state >= 6 \/ f.state + n >= 6 \/ n = 0
      /\ \/ f.spriteState <= 1
         \/ f.state = 5 /\ f.spriteState <= 2
         \/ f.state = 6 /\ f.spriteState <= 3
         \/ f.state >= 7
  BY <1>1 DEF Steady, Lead, n
<1> DEFINE st == f.state
           sp == f.spriteState
           st2 == t.f.state
           sp2 == t.f.spriteState
           n2 == Len(t.q.bg)
           w == IF st = 8 \/ (n = 0 /\ q.bgEnabled) THEN 1 ELSE 0
           w2 == IF st2 = 8 \/ (n2 = 0 /\ q.bgEnabled) THEN 1 ELSE 0
           o == (IF st >= 4 THEN 5 - sp ELSE 9 - st - sp) + w
           o2 == (IF st2 >= 4 THEN 5 - sp2 ELSE 9 - st2 - sp2) + w2
<1>5. Owed(f, q) = o
  BY <1>1 DEF Owed, SpriteOwes
<1>6. t.f.sprite # NoSprite => Owed(t.f, t.q) = o2
  BY <1>1, <1>2 DEF Owed, SpriteOwes
<1>7. /\ n \in Nat /\ n2 = (IF loads THEN TileLen ELSE n)
      /\ st \in 0 .. 8 /\ sp \in 0 .. 5 /\ TileLen \in Nat /\ TileLen >= 7
      /\ st2 = (IF ends /\ k = 8 THEN 0 ELSE k)
      /\ ~ends => sp2 = IF k >= 5 THEN sp + 1 ELSE sp
      /\ st = 8 => n = TileLen
      /\ sp <= 1 \/ (st = 5 /\ sp <= 2) \/ (st = 6 /\ sp <= 3) \/ st >= 7
  BY <1>1, <1>3, <1>4
<1>8. ~q.bgEnabled => n = 0
  BY <1>4
<1>9. (q.bgEnabled <=> TRUE) \/ (q.bgEnabled <=> FALSE)
  OBVIOUS
<1> HIDE DEF st, sp, st2, sp2, n2
<1>10. o \in Nat
  BY <1>7
<1>11. ~ends => o2 = o - 1
  <2> SUFFICES ASSUME ~ends PROVE o2 = o - 1
    OBVIOUS
  <2>1. CASE loads
    <3>1. k = 8 /\ st2 = 8 /\ n2 = TileLen /\ sp2 = sp + 1 /\ w2 = 1 /\ w = 1
      BY <1>7, <2>1 DEF st
    <3> QED
      BY <1>7, <2>1, <3>1 DEF st
  <2>2. CASE ~loads
    <3>1. st2 = (IF st < 7 THEN st + 1 ELSE st) /\ n2 = n /\ sp2 = (IF st2 >= 5 THEN sp + 1 ELSE sp)
      BY <1>7, <2>2 DEF st
    <3>2. w2 = w
      BY <1>7, <3>1
    <3> HIDE DEF w, w2
    <3> QED
      BY <1>7, <3>1, <3>2 DEF w
  <2> QED
    BY <2>1, <2>2
<1>12. ends => st >= 7
  BY <1>7 DEF sp, st
<1>13. ends => /\ st2 \in {0, 7} /\ (st2 = 0 => o >= 1 /\ n2 >= 7)
               /\ n2 > 0 \/ ~q.bgEnabled
  <2> SUFFICES ASSUME ends PROVE st2 \in {0, 7} /\ (st2 = 0 => o >= 1 /\ n2 >= 7) /\ (n2 > 0 \/ ~q.bgEnabled)
    OBVIOUS
  <2>1. CASE loads
    BY <1>7, <1>12, <2>1 DEF st, sp
  <2>2. CASE ~loads
    BY <1>7, <1>12, <2>2 DEF st, sp
  <2> QED
    BY <2>1, <2>2
<1>14. Steady(t.f, t.q)
  <2>1. st2 = 8 => n2 = TileLen
    BY <1>7 DEF st, sp
  <2>2. ~t.q.bgEnabled => t.q.bg = <<>>
    BY <1>1, <1>2, <1>8
  <2>3. f.mode = "bg" /\ q.bgEnabled => st2 >= 6 \/ st2 + n2 >= 6
    <3>1. f.mode = "bg" /\ q.bgEnabled => st >= 6 \/ st + n >= 6
      BY <1>4 DEF st
    <3>2. CASE ends
      BY <1>7, <1>12, <1>13, <3>2 DEF st
    <3>3. CASE ~ends
      BY <1>7, <3>1, <3>3 DEF st
    <3> QED
      BY <3>2, <3>3
  <2>4. f.mode = "win" => st2 >= 6 \/ st2 + n2 >= 6 \/ n2 = 0
    <3>1. f.mode = "win" => st >= 6 \/ st + n >= 6 \/ n = 0
      BY <1>4 DEF st
    <3>2. CASE ends
      BY <1>7, <1>12, <1>13, <3>2 DEF st
    <3>3. CASE ~ends
      BY <1>7, <3>1, <3>3 DEF st
    <3> QED
      BY <3>2, <3>3
  <2>5. ~ends => sp2 <= 1 \/ (st2 = 5 /\ sp2 <= 2) \/ (st2 = 6 /\ sp2 <= 3) \/ st2 >= 7
    <3> SUFFICES ASSUME ~ends PROVE sp2 <= 1 \/ (st2 = 5 /\ sp2 <= 2) \/ (st2 = 6 /\ sp2 <= 3) \/ st2 >= 7
      OBVIOUS
    <3>1. CASE loads
      BY <1>7, <3>1 DEF st
    <3>2. CASE ~loads
      BY <1>7, <3>2 DEF st
    <3> QED
      BY <3>1, <3>2
  <2> QED
    BY <1>1, <1>2, <2>1, <2>2, <2>3, <2>4, <2>5 DEF Steady, Lead, st2, sp2, n2
<1>15. t.f.sprite # NoSprite => Owed(t.f, t.q) = Owed(f, q) - 1
  <2>1. t.f.sprite # NoSprite => ~ends
    BY <1>1
  <2> HIDE DEF o, o2, ends
  <2> QED
    BY <1>5, <1>6, <1>11, <2>1
<1>16. t.f.sprite = NoSprite => ends
  BY <1>1
<1>17. ends => /\ t.f.state \in {0, 6, 7} /\ (t.f.state = 0 => Owed(f, q) >= 1) /\ Lead(t.f, t.q, 7)
               /\ t.q.bg # <<>> \/ ~t.q.bgEnabled
  <2> HIDE DEF o, ends
  <2>1. ends /\ n2 > 0 => t.q.bg # <<>>
    BY <1>1 DEF n2
  <2>2. ends => Lead(t.f, t.q, 7)
    BY <1>13, <1>7 DEF Lead, st2, n2
  <2> QED
    BY <1>2, <1>5, <1>13, <2>1, <2>2 DEF st2
<1> HIDE DEF o, ends
<1> QED
  BY <1>5, <1>10, <1>14, <1>15, <1>16, <1>17 DEF t

(* The numbers a fetcher and its queue are described by.                   *)
LEMMA PipedNumbers ==
  ASSUME NEW f, NEW q, Piped(f, q)
  PROVE  /\ f.state \in 0 .. 8 /\ f.mode \in {"bg", "win"} /\ Len(q.bg) \in Nat
         /\ (q.bg = <<>> <=> Len(q.bg) = 0)
         /\ f.sprite = NoSprite => f.state \in 0 .. 7
         /\ f.sprite # NoSprite => f.spriteState \in 0 .. 5
         /\ q.locked <=> f.sprite # NoSprite
<1>1. q.bg \in Seq(Pixel) /\ f.state \in 0 .. 8
  BY DEF Piped
<1>2. f.sprite = NoSprite => f.state \in 0 .. 7
  BY <1>1 DEF Piped
<1>3. f.sprite # NoSprite => f.spriteState \in 0 .. 5
  BY DEF Piped
<1>4. q.bg = <<>> <=> Len(q.bg) = 0
  BY <1>1
<1> QED
  BY <1>1, <1>2, <1>3, <1>4 DEF Piped, Paired

(* A tick without a sprite: the line is one cycle nearer, and a queue that *)
(* is enabled and empty owes that cycle.                                   *)
LEMMA PlainTick ==
  ASSUME TileLen >= 7, NEW f, NEW q, NEW s \in Nat, NEW objs, Piped(f, q), Steady(f, q), f.sprite = NoSprite
  PROVE  LET t == FetcherTick(f, q, s, objs)
         IN /\ Steady(t.f, t.q) /\ t.f.sprite = NoSprite
            /\ Lead(t.f, t.q, 7) \/ t.q.bg = <<>>
            /\ Owed(f, q) \in Nat /\ Owed(t.f, t.q) \in Nat /\ Owed(t.f, t.q) <= Owed(f, q)
            /\ t.q.bg = <<>> /\ t.q.bgEnabled => Owed(t.f, t.q) + 1 <= Owed(f, q)
            /\ \A n \in Int : Early(f, q, n) => Early(t.f, t.q, n + 1)
<1> DEFINE t == FetcherTick(f, q, s, objs)
           n == Len(q.bg)
           loads == f.state \in {6, 7} /\ n = 0 /\ q.bgEnabled
           k == IF loads THEN 0 ELSE IF f.state < 7 THEN f.state + 1 ELSE f.state
           n2 == Len(t.q.bg)
           st == f.state
           st2 == t.f.state
<1>1. /\ n \in Nat /\ (q.bg = <<>> <=> n = 0) /\ (t.q.bg = <<>> <=> n2 = 0)
      /\ n2 = (IF loads THEN TileLen ELSE n)
      /\ t.f.sprite = NoSprite /\ st2 = k
  BY TickNumbers
<1>2. t.f.mode = f.mode /\ t.q.bgEnabled = q.bgEnabled
  BY TickIs
<1>3. f.mode \in {"bg", "win"} /\ st \in 0 .. 7 /\ TileLen \in Nat
  BY Numbers, PipedNumbers
<1> HIDE DEF t, n
<1>4. /\ ~q.bgEnabled => n = 0
      /\ f.mode = "bg" /\ q.bgEnabled => st >= 6 \/ st + n >= 6
      /\ f.mode = "win" => st >= 6 \/ st + n >= 6 \/ n = 0
  BY <1>1 DEF Steady, Lead, n
<1> DEFINE lead == st >= 6 \/ st + n >= 6
           lead2 == st2 >= 6 \/ st2 + n2 >= 6
           late2 == st2 >= 6 \/ st2 + n2 >= 7
<1>5. lead => late2
  BY <1>1, <1>3
<1>6. late2 => lead2
  BY <1>1, <1>3
<1>7. ~lead /\ n = 0 => n2 = 0 /\ st2 = st + 1 /\ st < 6
  BY <1>1, <1>3
<1>8. lead /\ q.bgEnabled => n2 > 0
  BY <1>1, <1>3
<1>9. st2 # 8
  BY <1>1, <1>3
<1>10. ~q.bgEnabled => n2 = 0 /\ st2 = (IF st < 7 THEN st + 1 ELSE st)
  BY <1>1, <1>4
<1>11. st2 \in 0 .. 7
  BY <1>1, <1>3
<1>12. Lead(f, q, 6) = lead /\ Lead(t.f, t.q, 6) = lead2 /\ Lead(t.f, t.q, 7) = late2
  BY DEF Lead, n
<1> HIDE DEF st, st2, n2, k, loads
<1>13. \A m \in Int : Early(f, q, m) => Early(t.f, t.q, m + 1)
  <2> TAKE m \in Int
  <2>1. (st >= 6 \/ st >= m) /\ ~q.bgEnabled => st2 >= 6 \/ st2 >= m + 1
    BY <1>3, <1>10
  <2> QED
    BY <1>2, <2>1 DEF Early, st, st2
<1> HIDE DEF lead, lead2, late2
<1>14. Owed(f, q) = IF f.mode = "bg" \/ lead THEN 0 ELSE 6 - st
  BY <1>12 DEF Owed, st
<1>15. Owed(t.f, t.q) = IF f.mode = "bg" \/ lead2 THEN 0 ELSE 6 - st2
  BY <1>1, <1>2, <1>12 DEF Owed, st2
<1>16. Steady(t.f, t.q)
  <2>1. f.mode = "bg" /\ q.bgEnabled => lead2
    BY <1>4, <1>5, <1>6 DEF lead
  <2>2. f.mode = "win" => lead2 \/ n2 = 0
    BY <1>4, <1>5, <1>6, <1>7 DEF lead
  <2> QED
    BY <1>1, <1>2, <1>9, <1>10, <1>12, <2>1, <2>2 DEF Steady, st2
<1>17. late2 \/ n2 = 0
  BY <1>3, <1>4, <1>5, <1>7, <1>10 DEF lead
<1>18. CASE f.mode = "bg" \/ lead
  <2>1. Owed(f, q) = 0
    BY <1>14, <1>18
  <2>2. Owed(t.f, t.q) = 0
    BY <1>5, <1>6, <1>15, <1>18
  <2>3. q.bgEnabled => n2 > 0
    BY <1>4, <1>8, <1>18 DEF lead
  <2> QED
    BY <1>1, <1>2, <1>12, <1>13, <1>16, <1>17, <2>1, <2>2, <2>3 DEF t
<1>19. CASE f.mode = "win" /\ ~lead
  <2>1. n2 = 0 /\ st2 = st + 1 /\ st < 6
    BY <1>4, <1>7, <1>19 DEF lead
  <2>2. Owed(f, q) = 6 - st
    BY <1>14, <1>19
  <2>3. Owed(t.f, t.q) = 6 - st2
    <3>1. lead2 => st2 = 6
      BY <1>3, <2>1 DEF lead2
    <3> QED
      BY <1>15, <1>19, <3>1
  <2>4. /\ Owed(f, q) \in Nat /\ Owed(t.f, t.q) \in Nat /\ Owed(t.f, t.q) + 1 <= Owed(f, q)
        /\ Owed(t.f, t.q) <= Owed(f, q)
    BY <1>3, <2>1, <2>2, <2>3
  <2> QED
    BY <1>1, <1>2, <1>12, <1>13, <1>16, <1>17, <2>4 DEF t
<1> QED
  BY <1>3, <1>18, <1>19

(* What a fetcher without a sprite owes is a natural number.               *)
LEMMA OwedTyped ==
  ASSUME NEW f, NEW q, Piped(f, q), Steady(f, q)
  PROVE  Owed(f, q) \in Nat
<1>1. f.state \in 0 .. 8 /\ Len(q.bg) \in Nat /\ (f.sprite # NoSprite => f.spriteState \in 0 .. 5)
  BY PipedNumbers
<1>2. CASE f.sprite = NoSprite
  <2>1. Owed(f, q) = IF f.mode = "bg" \/ Lead(f, q, 6) THEN 0 ELSE 6 - f.state
    BY <1>2 DEF Owed
  <2>2. ~Lead(f, q, 6) => 6 - f.state \in Nat
    BY <1>1 DEF Lead
  <2> QED
    BY <2>1, <2>2
<1>3. CASE f.sprite # NoSprite
  <2> DEFINE a == IF f.state >= 4 THEN 5 - f.spriteState ELSE 9 - f.state - f.spriteState
             b == IF f.state = 8 \/ (q.bg = <<>> /\ q.bgEnabled) THEN 1 ELSE 0
  <2>1. Owed(f, q) = a + b
    BY <1>3 DEF Owed, SpriteOwes
  <2>2. a \in Nat
    BY <1>1, <1>3
  <2>3. b \in Nat
    OBVIOUS
  <2> HIDE DEF a, b
  <2> QED
    BY <2>1, <2>2, <2>3
<1> QED
  BY <1>2, <1>3

(* mFetcher.startSprite and mFIFO.lock: the object's cost, less the cycle  *)
(* of the tick that follows.                                               *)
LEMMA StartIs ==
  ASSUME NEW f, NEW q, NEW i \in Nat \ {0}, Piped(f, q), Steady(f, q), f.sprite = NoSprite
  PROVE  LET g == StartSprite(f, i)
             r == Lock(q)
         IN /\ Piped(g, r) /\ Steady(g, r) /\ g.sprite = i /\ i # NoSprite /\ g.spriteState = 0
            /\ g.mode = f.mode /\ g.state = f.state /\ r.bg = q.bg /\ r.bgEnabled = q.bgEnabled
            /\ Owed(g, r) <= Owed(f, q) + ObjCost
            /\ f.state \in {0, 6, 7} /\ (q.bg # <<>> \/ ~q.bgEnabled)
                 => Owed(g, r) + (IF f.state = 0 THEN 0 ELSE 1) <= ObjCost
<1> DEFINE g == StartSprite(f, i)
           r == Lock(q)
<1>1. Paired(f, q)
  BY DEF Piped
<1>2. /\ g.sprite = i /\ g.spriteState = 0 /\ g.mode = f.mode /\ g.state = f.state /\ g.tileCnt = f.tileCnt
      /\ g.tileNum = f.tileNum /\ g.line = f.line /\ r.bg = q.bg /\ r.bgEnabled = q.bgEnabled
  BY <1>1, Numbers DEF StartSprite, Lock, Paired, FetcherFields, QueueFields
<1>3. Paired(g, r)
  BY <1>1, StartPaired
<1>4. i # NoSprite
  BY DEF NoSprite
<1> HIDE DEF g, r
<1>5. Piped(g, r)
  BY <1>2, <1>3, <1>4 DEF Piped
<1>6. Steady(g, r)
  BY <1>2 DEF Steady, Lead
<1> DEFINE st == f.state
           n == Len(q.bg)
           w == IF n = 0 /\ q.bgEnabled THEN 1 ELSE 0
<1>7. st \in 0 .. 7 /\ n \in Nat /\ (q.bg = <<>> <=> n = 0) /\ f.mode \in {"bg", "win"}
  BY PipedNumbers
<1>8. Owed(g, r) = (IF st >= 4 THEN 5 ELSE 9 - st) + w
  BY <1>2, <1>4, <1>7 DEF Owed, SpriteOwes
<1>9. Owed(f, q) \in Nat
  BY OwedTyped
<1>10. w = 1 => st >= 6 \/ Owed(f, q) = 6 - st
  <2> SUFFICES ASSUME w = 1, ~(st >= 6) PROVE Owed(f, q) = 6 - st
    OBVIOUS
  <2>1. n = 0 /\ q.bgEnabled
    OBVIOUS
  <2>2. ~Lead(f, q, 6)
    BY <1>7, <2>1 DEF Lead
  <2>3. f.mode # "bg"
    BY <2>1, <2>2 DEF Steady
  <2> QED
    BY <2>2, <2>3 DEF Owed
<1>11. w \in {0, 1}
  OBVIOUS
<1>12. q.bg # <<>> \/ ~q.bgEnabled => w = 0
  BY <1>7
<1> HIDE DEF st, n, w
<1>13. Owed(g, r) <= Owed(f, q) + 9
  <2> DEFINE o == Owed(f, q)
             o2 == Owed(g, r)
  <2>1. o2 = (IF st >= 4 THEN 5 ELSE 9 - st) + w /\ o \in Nat /\ w \in {0, 1} /\ st \in 0 .. 7
        /\ (w = 1 => st >= 6 \/ o = 6 - st)
    BY <1>7, <1>8, <1>9, <1>10, <1>11
  <2> HIDE DEF o, o2
  <2>2. o2 <= o + 9
    BY <2>1
  <2> QED
    BY <2>2 DEF o, o2
<1>14. st \in {0, 6, 7} /\ w = 0 => Owed(g, r) + (IF st = 0 THEN 0 ELSE 1) <= 9
  BY <1>8
<1> QED
  BY <1>2, <1>4, <1>5, <1>6, <1>12, <1>13, <1>14 DEF ObjCost, g, r, st

(* setMode and clear(false): the window begins with an empty queue.        *)
LEMMA WindowIs ==
  ASSUME NEW f, NEW q, Piped(f, q), f.sprite # NoSprite => f.spriteState <= 1, ~q.bgEnabled => q.bg = <<>>
  PROVE  LET g == EnterWindow(f)
             r == ClearBG(q)
         IN /\ Piped(g, r) /\ Steady(g, r) /\ g.sprite = f.sprite /\ g.mode = "win"
            /\ r.bgEnabled = q.bgEnabled /\ r.locked = q.locked
            /\ Owed(g, r) <= IF f.sprite = NoSprite THEN 6 ELSE 10
<1> DEFINE g == EnterWindow(f)
           r == ClearBG(q)
<1>1. Paired(f, q)
  BY DEF Piped
<1>2. /\ g.sprite = f.sprite /\ g.spriteState = f.spriteState /\ g.mode = "win" /\ g.state = 0 /\ g.tileCnt = 0
      /\ g.tileNum = f.tileNum /\ g.line = f.line /\ r.bg = <<>> /\ r.bgEnabled = q.bgEnabled /\ r.locked = q.locked
  BY <1>1, Numbers DEF EnterWindow, ClearBG, Paired, FetcherFields, QueueFields
<1>3. Paired(g, r)
  BY <1>1 DEF EnterWindow, ClearBG, Paired, FetcherFields, QueueFields
<1> HIDE DEF g, r
<1>4. <<>> \in Seq(Pixel) /\ Len(<<>>) = 0
  OBVIOUS
<1>5. Piped(g, r)
  BY <1>2, <1>3, <1>4 DEF Piped
<1>6. Steady(g, r)
  BY <1>2 DEF Steady
<1>7. CASE f.sprite = NoSprite
  <2>1. Owed(g, r) = IF Lead(g, r, 6) THEN 0 ELSE 6
    BY <1>2, <1>7 DEF Owed
  <2> QED
    BY <1>2, <1>5, <1>6, <1>7, <2>1 DEF g, r
<1>8. CASE f.sprite # NoSprite
  <2>1. Owed(g, r) = (9 - 0 - f.spriteState) + (IF q.bgEnabled THEN 1 ELSE 0)
    BY <1>2, <1>8 DEF Owed, SpriteOwes
  <2>2. f.spriteState \in 0 .. 5
    BY <1>8, PipedNumbers
  <2>3. Owed(g, r) <= 10
    BY <2>1, <2>2
  <2> QED
    BY <1>2, <1>5, <1>6, <1>8, <2>3 DEF g, r
<1> QED
  BY <1>7, <1>8

(* A sprite's tick leaves the fetcher no earlier than it was.              *)
LEMMA SpriteEarly ==
  ASSUME TileLen >= 7, NEW f, NEW q, NEW s \in Nat, NEW objs, Piped(f, q), Steady(f, q), f.sprite # NoSprite
  PROVE  LET t == FetcherTick(f, q, s, objs)
         IN \A n \in Int : Early(f, q, n) => Early(t.f, t.q, n)
<1> DEFINE t == FetcherTick(f, q, s, objs)
<1>1. t.f.mode = f.mode /\ t.q.bgEnabled = q.bgEnabled
  BY TickIs
<1>2. f.state \in 0 .. 8 /\ Len(q.bg) \in Nat /\ TileLen \in Nat
  BY PipedNumbers, Numbers
<1>3. CASE q.bgEnabled
  BY <1>1, <1>3 DEF Early
<1>4. CASE ~q.bgEnabled
  <2>1. q.bg = <<>> /\ f.state # 8
    BY <1>2, <1>4, PipedNumbers DEF Steady
  <2> DEFINE k == IF f.state < 7 THEN f.state + 1 ELSE f.state
  <2>2. t.f.state = k
    BY <1>4, <1>2, <2>1, TickNumbers
  <2>3. k >= f.state
    BY <1>2
  <2> HIDE DEF t, k
  <2>4. k \in 0 .. 8
    BY <1>2, <2>1 DEF k
  <2> QED
    BY <1>1, <1>2, <2>2, <2>3, <2>4 DEF Early, t
<1> QED
  BY <1>3, <1>4

(* FIFO.tick takes at most one pixel from the background.                  *)
LEMMA PoppedIs ==
  ASSUME NEW f, NEW q, NEW l, Piped(f, q), Steady(f, q), f.sprite = NoSprite,
         Lead(f, q, 7) \/ q.bg = <<>>
  PROVE  LET r == Popped(q, l)
         IN /\ Piped(f, r) /\ r.bgEnabled = q.bgEnabled /\ Steady(f, r) /\ Owed(f, r) <= Owed(f, q)
            /\ r.bg = <<>> \/ Lead(f, r, 6)
<1> DEFINE r == Popped(q, l)
<1>1. Paired(f, q) /\ q.locked = FALSE /\ q.bg \in Seq(Pixel)
  BY DEF Piped, Paired
<1>2. Paired(f, r)
  BY <1>1 DEF Popped, PopObj, PopBG, Paired, QueueFields
<1>3. r.bgEnabled = q.bgEnabled /\ r.bg = IF q.bg = <<>> THEN <<>> ELSE Tail(q.bg)
  BY <1>1 DEF Popped, PopObj, PopBG, Paired, QueueFields
<1> HIDE DEF r
<1>4. q.bg # <<>> => Tail(q.bg) \in Seq(Pixel) /\ Len(Tail(q.bg)) = Len(q.bg) - 1 /\ Len(q.bg) >= 1
  BY <1>1
<1>5. <<>> \in Seq(Pixel) /\ Len(<<>>) = 0
  OBVIOUS
<1>6. Piped(f, r)
  BY <1>1, <1>2, <1>3, <1>4, <1>5 DEF Piped
<1>7. f.state \in 0 .. 7 /\ Len(q.bg) \in Nat /\ f.mode \in {"bg", "win"}
  BY PipedNumbers
<1>8. CASE q.bg = <<>>
  <2>1. r.bg = q.bg
    BY <1>3, <1>8
  <2>2. Steady(f, r) /\ Owed(f, r) = Owed(f, q) /\ Owed(f, q) \in Nat
    BY <1>3, <2>1, OwedTyped DEF Steady, Lead, Owed
  <2>3. Owed(f, r) <= Owed(f, q)
    BY <2>2
  <2> QED
    BY <1>3, <1>6, <1>8, <2>1, <2>2, <2>3 DEF r
<1>9. CASE q.bg # <<>>
  <2>1. Lead(f, q, 7) /\ Len(r.bg) = Len(q.bg) - 1 /\ Len(q.bg) >= 1
    BY <1>3, <1>4, <1>9
  <2>2. Lead(f, r, 6)
    <3> DEFINE st == f.state
               n == Len(q.bg)
    <3>1. st \in 0 .. 7 /\ n \in Nat /\ n >= 1 /\ (st >= 6 \/ st + n >= 7)
      BY <1>7, <2>1 DEF Lead
    <3> HIDE DEF st, n
    <3>2. st >= 6 \/ st + (n - 1) >= 6
      BY <3>1
    <3> QED
      BY <2>1, <3>2 DEF Lead, st, n
  <2>3. q.bgEnabled
    BY <1>9 DEF Steady
  <2>4. Steady(f, r)
    BY <1>3, <1>7, <2>2, <2>3 DEF Steady
  <2>5. Owed(f, r) = 0 /\ Owed(f, q) \in Nat
    BY <2>2, OwedTyped DEF Owed
  <2>6. Owed(f, r) <= Owed(f, q)
    BY <2>5
  <2> QED
    BY <1>3, <1>6, <2>2, <2>4, <2>6 DEF r
<1> QED
  BY <1>8, <1>9

(* What the window has paid in, once it has begun.                         *)
WinPaid(f) == IF f.mode = "win" THEN WinCost ELSE 0

(* The cycles the fetcher has had before pixels are let in.                *)
Position == mLineXPos + TileLen + FineScroll - mMode3DelayCycles

(* What a transfer of an untouched line keeps. The last conjunct is the    *)
(* budget: the cycles spent and those still owed are paid for by pixels,   *)
(* objects and the window.                                                 *)
CleanLine ==
  /\ Piped(mFetcher, mFIFO) /\ Steady(mFetcher, mFIFO)
  /\ Early(mFetcher, mFIFO, Position)
  /\ mFIFO.bgEnabled <=> mLineXPos >= -FineScroll
  /\ mMode3DelayCycles > 0 =>
       mFetcher.mode = "bg" /\ mFetcher.sprite = NoSprite /\ mLineXPos = -TileLen
  /\ mFetcher.sprite # NoSprite => ~WindowHere(mFetcher)
  /\ mFetcher.mode = "win" => lcdc.win
  /\ dots + Owed(mFetcher, mFIFO)
       <= mLineXPos + TileLen + mCurObj * ObjCost + WinPaid(mFetcher)

(* Counters and bytes are numbers.                                         *)
Numeric ==
  /\ mCurObj \in Nat /\ mLineXPos \in Int /\ dots \in Nat
  /\ mMode3DelayCycles \in Nat /\ scx \in Nat

(* The inductive invariant of XferBounded.                                 *)
BudgetInv ==
  /\ Numeric
  /\ clean /\ mode = "xfer" => CleanLine
  /\ mode # "xfer" => XferBounded

(* What the fetcher's part of a cycle makes of the pipe, whatever comes of *)
(* it.                                                                     *)
Kept(p) ==
  /\ Piped(p.f, p.q) /\ Steady(p.f, p.q) /\ p.q.bgEnabled = mFIFO.bgEnabled
  /\ p.cur \in {mCurObj, mCurObj + 1} /\ p.eaten \in BOOLEAN

(* A sprite is waited for, and its cycles are paid for.                    *)
Waits(p) ==
  /\ p.f.sprite # NoSprite /\ p.f.mode = mFetcher.mode
  /\ Early(p.f, p.q, Position)
  /\ Owed(p.f, p.q) + 1 <= Owed(mFetcher, mFIFO) + (p.cur - mCurObj) * ObjCost
  /\ ~WindowHere(p.f) \/ (~p.eaten /\ p.f.spriteState <= 1 /\ p.cur = mCurObj + 1)

(* A pixel may leave, or the empty queue owes the cycle.                   *)
Ready(p) ==
  /\ ~p.eaten /\ p.cur = mCurObj
  /\ p.f.sprite = NoSprite /\ p.f.mode = mFetcher.mode
  /\ Lead(p.f, p.q, 7) \/ p.q.bg = <<>>
  /\ Owed(p.f, p.q) <= Owed(mFetcher, mFIFO)
  /\ p.q.bg = <<>> /\ p.q.bgEnabled => Owed(p.f, p.q) + 1 <= Owed(mFetcher, mFIFO)
  /\ Early(p.f, p.q, Position + 1)

(* The fetcher's part of a cycle, on a line within its budget, either has  *)
(* a sprite to wait for or is ready for a pixel.                           *)
LEMMA FetchedIs ==
  ASSUME TileLen >= 7, Numeric, CleanLine, mMode3DelayCycles = 0
  PROVE  Kept(Fetched) /\ (Waits(Fetched) \/ Ready(Fetched))
<1> DEFINE f == mFetcher
           q == mFIFO
           o == Owed(f, q)
<1>1. /\ Piped(f, q) /\ Steady(f, q) /\ Early(f, q, Position) /\ scx \in Nat /\ mCurObj \in Nat
      /\ (f.sprite # NoSprite => ~WindowHere(f)) /\ o \in Nat
  BY OwedTyped DEF Numeric, CleanLine
<1>2. Position \in Int /\ ObjCost = 9 /\ mCurObj + 1 \in Nat \ {0}
  <2>1. FineScroll \in Int /\ TileLen \in Int
    BY Numbers DEF FineScroll, Numeric
  <2> QED
    BY <2>1 DEF Position, Numeric, ObjCost
<1> HIDE DEF f, q, o
<1>3. CASE f.sprite # NoSprite
  <2> DEFINE t == Tick(f, q)
  <2>1. /\ Steady(t.f, t.q)
        /\ t.f.sprite # NoSprite => Owed(t.f, t.q) = o - 1
        /\ t.f.sprite = NoSprite =>
             /\ t.f.state \in {0, 6, 7} /\ (t.f.state = 0 => o >= 1) /\ Lead(t.f, t.q, 7)
             /\ t.q.bg # <<>> \/ ~t.q.bgEnabled
    BY <1>1, <1>3, SpriteTick DEF Tick, o
  <2>2. Piped(t.f, t.q) /\ t.f.mode = f.mode /\ t.q.bgEnabled = q.bgEnabled
    BY <1>1, TickIs DEF Tick
  <2>3. Early(t.f, t.q, Position)
    BY <1>1, <1>2, <1>3, SpriteEarly DEF Tick
  <2>4. ~WindowHere(t.f)
    BY <1>1, <1>3, <2>2 DEF WindowHere
  <2> DEFINE g == StartSprite(t.f, mCurObj + 1)
             r == Lock(t.q)
  <2>5. Fetched = IF Chained(t.f)
              THEN [f |-> g, q |-> r, cur |-> mCurObj + 1, eaten |-> TRUE]
              ELSE [f |-> t.f, q |-> t.q, cur |-> mCurObj, eaten |-> FALSE]
    BY <1>3 DEF Fetched, f, q
  <2> HIDE DEF t, g, r
  <2>6. CASE Chained(t.f)
    <3>1. t.f.sprite = NoSprite
      BY <2>6 DEF Chained
    <3>2. /\ Piped(g, r) /\ Steady(g, r) /\ g.sprite = mCurObj + 1 /\ mCurObj + 1 # NoSprite
          /\ g.mode = t.f.mode /\ g.state = t.f.state /\ r.bg = t.q.bg /\ r.bgEnabled = t.q.bgEnabled
          /\ Owed(g, r) + (IF t.f.state = 0 THEN 0 ELSE 1) <= 9
      <4> DEFINE i == mCurObj + 1
      <4>1. i \in Nat \ {0}
        BY <1>2
      <4> HIDE DEF i
      <4> DEFINE u == t.f
                 v == t.q
                 a == StartSprite(u, i)
                 b == Lock(v)
      <4>2. u.state \in {0, 6, 7} /\ (v.bg # <<>> \/ ~v.bgEnabled) /\ Steady(u, v) /\ Piped(u, v) /\ u.sprite = NoSprite
        BY <2>1, <2>2, <3>1
      <4> HIDE DEF u, v
      <4>3. /\ Piped(a, b) /\ Steady(a, b) /\ a.sprite = i /\ i # NoSprite
            /\ a.mode = u.mode /\ a.state = u.state /\ b.bg = v.bg /\ b.bgEnabled = v.bgEnabled
            /\ u.state \in {0, 6, 7} /\ (v.bg # <<>> \/ ~v.bgEnabled)
                 => Owed(a, b) + (IF u.state = 0 THEN 0 ELSE 1) <= ObjCost
        BY <4>1, <4>2, StartIs
      <4> HIDE DEF a, b
      <4>4. Owed(a, b) + (IF u.state = 0 THEN 0 ELSE 1) <= 9
        BY <1>2, <4>2, <4>3
      <4> QED
        BY <4>3, <4>4 DEF i, g, r, u, v, a, b
    <3>3. Owed(g, r) \in Nat
      BY <3>2, OwedTyped
    <3>4. Owed(g, r) + 1 <= o + 9
      BY <1>1, <1>2, <2>1, <3>1, <3>2, <3>3
    <3>5. Early(g, r, Position) /\ ~WindowHere(g)
      BY <2>2, <2>3, <2>4, <3>2 DEF Early, WindowHere
    <3> DEFINE p == Fetched
    <3>6. p.f = g /\ p.q = r /\ p.cur = mCurObj + 1 /\ p.eaten = TRUE
      BY <2>5, <2>6
    <3> HIDE DEF p
    <3>7. Kept(p)
      BY <2>2, <3>2, <3>6 DEF Kept, q
    <3>8. Owed(p.f, p.q) + 1 <= o + (p.cur - mCurObj) * ObjCost
      <4>1. Owed(p.f, p.q) = Owed(g, r) /\ p.cur = mCurObj + 1
        BY <3>6
      <4>2. (p.cur - mCurObj) * ObjCost = 9
        BY <1>1, <1>2, <4>1
      <4> QED
        BY <3>4, <4>1, <4>2
    <3>9. p.f.sprite # NoSprite /\ p.f.mode = f.mode /\ Early(p.f, p.q, Position) /\ ~WindowHere(p.f)
      BY <2>2, <3>2, <3>5, <3>6
    <3>10. Waits(p)
      BY <3>8, <3>9, Zenon DEF Waits, f, q, o
    <3> QED
      BY <3>7, <3>10 DEF p
  <2>7. CASE ~Chained(t.f)
    <3> DEFINE p == Fetched
    <3>1. p.f = t.f /\ p.q = t.q /\ p.cur = mCurObj /\ p.eaten = FALSE
      BY <2>5, <2>7
    <3> HIDE DEF p
    <3>2. Kept(p)
      BY <2>1, <2>2, <3>1 DEF Kept, q
    <3>3. CASE t.f.sprite # NoSprite
      <4>1. Owed(p.f, p.q) + 1 <= o + (mCurObj - mCurObj) * ObjCost
        BY <1>1, <1>2, <2>1, <3>1, <3>3
      <4>2. Waits(p)
        BY <2>2, <2>3, <2>4, <3>1, <3>3, <4>1 DEF Waits, f, o, q
      <4> QED
        BY <3>2, <4>2 DEF p
    <3>4. CASE t.f.sprite = NoSprite
      <4>1. Owed(t.f, t.q) = 0
        <5>1. Lead(t.f, t.q, 6)
          <6>1. Len(t.q.bg) \in Nat /\ t.f.state \in 0 .. 8
            BY <2>2, PipedNumbers
          <6> QED
            BY <2>1, <3>4, <6>1 DEF Lead
        <5> QED
          BY <3>4, <5>1 DEF Owed
      <4>2. Owed(t.f, t.q) <= o
        BY <1>1, <4>1
      <4>3. Early(t.f, t.q, Position + 1)
        <5>1. CASE t.q.bgEnabled
          BY <5>1 DEF Early
        <5>2. CASE ~t.q.bgEnabled
          <6>1. t.q.bg = <<>> /\ Len(<<>>) = 0
            BY <2>1, <5>2 DEF Steady
          <6>2. t.f.state >= 6
            BY <2>1, <3>4, <6>1 DEF Lead
          <6> QED
            BY <6>2 DEF Early
        <5> QED
          BY <5>1, <5>2
      <4>4. Ready(p)
        BY <2>1, <2>2, <3>1, <3>4, <4>2, <4>3 DEF Ready, f, o, q
      <4> QED
        BY <3>2, <4>4 DEF p
    <3> QED
      BY <3>3, <3>4
  <2> QED
    BY <2>6, <2>7
<1>4. CASE f.sprite = NoSprite /\ ObjectHere(mCurObj)
  <2> DEFINE g == StartSprite(f, mCurObj + 1)
             r == Lock(q)
             t == Tick(g, r)
             p == Fetched
  <2>1. /\ Piped(g, r) /\ Steady(g, r) /\ g.sprite = mCurObj + 1 /\ mCurObj + 1 # NoSprite /\ g.spriteState = 0
        /\ g.mode = f.mode /\ g.state = f.state /\ r.bg = q.bg /\ r.bgEnabled = q.bgEnabled
        /\ Owed(g, r) <= o + ObjCost
    <3> DEFINE i == mCurObj + 1
    <3>1. i \in Nat \ {0}
      BY <1>2
    <3> HIDE DEF i
    <3>2. LET a == StartSprite(f, i)
              b == Lock(q)
          IN /\ Piped(a, b) /\ Steady(a, b) /\ a.sprite = i /\ i # NoSprite /\ a.spriteState = 0
             /\ a.mode = f.mode /\ a.state = f.state /\ b.bg = q.bg /\ b.bgEnabled = q.bgEnabled
             /\ Owed(a, b) <= Owed(f, q) + ObjCost
      BY <1>1, <1>4, <3>1, StartIs
    <3> QED
      BY <3>2 DEF i, o
  <2>2. p.f = t.f /\ p.q = t.q /\ p.cur = mCurObj + 1 /\ p.eaten = FALSE
    BY <1>4 DEF Fetched, f, q
  <2> HIDE DEF g, r, p
  <2>3. /\ Piped(t.f, t.q) /\ t.f.mode = g.mode /\ t.q.bgEnabled = r.bgEnabled
        /\ t.f.sprite = g.sprite /\ t.f.spriteState \in {0, 1}
    <3> DEFINE k == BgState(g, r)
               u == FetcherTick(g, r, scx, mFoundObjs)
    <3>1. t = u
      BY DEF Tick
    <3>2. ~(k >= 5 /\ g.spriteState = 5) /\ g.sprite # NoSprite
      BY <2>1
    <3>3. Piped(u.f, u.q) /\ u.f.mode = g.mode /\ u.q.bgEnabled = r.bgEnabled
          /\ u.f.sprite = g.sprite /\ u.f.spriteState = IF k >= 5 THEN g.spriteState + 1 ELSE g.spriteState
      <4> HIDE DEF k, u
      <4>1. /\ Piped(u.f, u.q) /\ u.f.mode = g.mode /\ u.q.bgEnabled = r.bgEnabled
            /\ g.sprite # NoSprite /\ ~(k >= 5 /\ g.spriteState = 5) =>
                 /\ u.f.sprite = g.sprite
                 /\ u.f.spriteState = IF k >= 5 THEN g.spriteState + 1 ELSE g.spriteState
        BY <1>1, <2>1, TickIs DEF k, u
      <4> QED
        BY <3>2, <4>1
    <3> HIDE DEF k, u
    <3>4. u.f.spriteState \in {0, 1}
      BY <2>1, <3>3
    <3> QED
      BY <3>1, <3>3, <3>4
  <2>4. Steady(t.f, t.q) /\ Owed(g, r) \in Nat /\ (t.f.sprite # NoSprite => Owed(t.f, t.q) = Owed(g, r) - 1)
    BY <1>1, <2>1, SpriteTick DEF Tick
  <2>5. Early(g, r, Position)
    BY <1>1, <2>1 DEF Early
  <2>6. Early(t.f, t.q, Position)
    BY <1>1, <1>2, <2>1, <2>5, SpriteEarly DEF Tick
  <2> HIDE DEF t
  <2>7. Owed(t.f, t.q) = Owed(g, r) - 1 /\ t.f.sprite # NoSprite
    BY <2>1, <2>3, <2>4
  <2>8. Owed(t.f, t.q) + 1 <= o + 9
    BY <1>1, <1>2, <2>1, <2>4, <2>7
  <2>9. Kept(p)
    BY <2>1, <2>2, <2>3, <2>4 DEF Kept, q
  <2>10. Waits(p)
    <3>1. t.f.spriteState <= 1
      BY <2>3
    <3>2. Owed(p.f, p.q) + 1 <= o + (p.cur - mCurObj) * ObjCost
      <4>1. Owed(p.f, p.q) = Owed(t.f, t.q) /\ p.cur = mCurObj + 1
        BY <2>2
      <4>2. (p.cur - mCurObj) * ObjCost = 9
        BY <1>1, <1>2, <4>1
      <4> QED
        BY <2>8, <4>1, <4>2
    <3>3. p.f.sprite # NoSprite /\ p.f.mode = f.mode /\ Early(p.f, p.q, Position)
          /\ ~p.eaten /\ p.f.spriteState <= 1 /\ p.cur = mCurObj + 1
      BY <2>1, <2>2, <2>3, <2>6, <3>1
    <3> QED
      BY <3>2, <3>3, Zenon DEF Waits, f, o, q
  <2> QED
    BY <2>9, <2>10 DEF p
<1>5. CASE f.sprite = NoSprite /\ ~ObjectHere(mCurObj)
  <2> DEFINE t == Tick(f, q)
             p == Fetched
  <2>1. /\ Steady(t.f, t.q) /\ t.f.sprite = NoSprite
        /\ Lead(t.f, t.q, 7) \/ t.q.bg = <<>>
        /\ Owed(t.f, t.q) <= o
        /\ t.q.bg = <<>> /\ t.q.bgEnabled => Owed(t.f, t.q) + 1 <= o
        /\ Early(t.f, t.q, Position + 1)
    BY <1>1, <1>2, <1>5, PlainTick DEF Tick, o
  <2>2. Piped(t.f, t.q) /\ t.f.mode = f.mode /\ t.q.bgEnabled = q.bgEnabled
    BY <1>1, TickIs DEF Tick
  <2>3. p.f = t.f /\ p.q = t.q /\ p.cur = mCurObj /\ p.eaten = FALSE
    BY <1>5 DEF Fetched, f, q
  <2> HIDE DEF t, p
  <2>4. Kept(p) /\ Ready(p)
    BY <2>1, <2>2, <2>3 DEF Kept, Ready, f, o, q
  <2> QED
    BY <2>4 DEF p
<1> QED
  BY <1>3, <1>4, <1>5

(* A sprite or the window's first line is waited for, and its cycles are   *)
(* paid for.                                                               *)
Held(p) ==
  /\ p.eaten \/ p.q.locked
  /\ p.f.mode = "win" => lcdc.win
  /\ p.f.sprite # NoSprite => ~WindowHere(p.f)
  /\ Early(p.f, p.q, Position)
  /\ Owed(p.f, p.q) + 1 + WinPaid(mFetcher)
       <= Owed(mFetcher, mFIFO) + (p.cur - mCurObj) * ObjCost + WinPaid(p.f)

(* The cycle with the window's beginning in it.                            *)
LEMMA WindowedIs ==
  ASSUME TileLen >= 7, Numeric, CleanLine, mMode3DelayCycles = 0
  PROVE  Kept(Windowed) /\ (Held(Windowed) \/ Ready(Windowed))
<1> DEFINE p == Fetched
           w == Windowed
           o == Owed(mFetcher, mFIFO)
           a == WinPaid(mFetcher)
<1>1. Kept(p) /\ (Waits(p) \/ Ready(p))
  BY FetchedIs
<1>2. o \in Nat /\ mCurObj \in Nat /\ (mFetcher.mode = "win" => lcdc.win)
  BY OwedTyped DEF CleanLine, Numeric
<1>3. p = [x \in {"f", "q", "cur", "eaten"} |-> p[x]]
  BY DEF Fetched
<1>4. w = IF ~p.eaten /\ WindowHere(p.f)
       THEN [p EXCEPT !.f = EnterWindow(@), !.q = ClearBG(@), !.eaten = TRUE]
       ELSE p
  BY DEF Windowed
<1>5. ObjCost = 9 /\ WinCost = 7 /\ a \in {0, 7}
  BY DEF ObjCost, WinCost, WinPaid
<1>6. Owed(p.f, p.q) \in Nat /\ p.cur \in Nat /\ (p.cur - mCurObj) * ObjCost \in Nat
  <2>1. Owed(p.f, p.q) \in Nat
    BY <1>1, OwedTyped DEF Kept
  <2>2. p.cur = mCurObj \/ p.cur = mCurObj + 1
    BY <1>1 DEF Kept
  <2>3. (mCurObj - mCurObj) * ObjCost = 0 /\ (mCurObj + 1 - mCurObj) * ObjCost = 9
    BY <1>2, <1>5
  <2> QED
    BY <1>2, <2>1, <2>2, <2>3
<1> HIDE DEF p, w, o, a
<1>7. CASE ~(~p.eaten /\ WindowHere(p.f))
  <2>1. w = p
    BY <1>4, <1>7
  <2>2. CASE Ready(p)
    BY <1>1, <2>1, <2>2 DEF w
  <2>3. CASE Waits(p)
    <3>1. p.q.locked
      BY <1>1, <2>3, PipedNumbers DEF Kept, Waits
    <3>2. WinPaid(p.f) = a
      BY <2>3 DEF Waits, WinPaid, a
    <3>3. Owed(p.f, p.q) + 1 + a <= o + (p.cur - mCurObj) * ObjCost + a
      <4> DEFINE c == (p.cur - mCurObj) * ObjCost
                 u == Owed(p.f, p.q)
      <4>1. u + 1 <= o + c /\ u \in Nat /\ c \in Nat
        BY <1>6, <2>3 DEF Waits, o
      <4> HIDE DEF c, u
      <4>2. u + 1 + a <= o + c + a
        BY <1>2, <1>5, <4>1
      <4> QED
        BY <4>2 DEF c, u
    <3>4. /\ p.f.mode = "win" => lcdc.win
          /\ ~WindowHere(p.f) /\ Early(p.f, p.q, Position)
      BY <1>2, <1>7, <2>3 DEF Waits
    <3>5. Held(p)
      BY <3>1, <3>2, <3>3, <3>4 DEF Held, a, o
    <3> QED
      BY <1>1, <2>1, <3>5 DEF w
  <2> QED
    BY <1>1, <2>2, <2>3
<1>8. CASE ~p.eaten /\ WindowHere(p.f)
  <2> DEFINE g == EnterWindow(p.f)
             r == ClearBG(p.q)
  <2>1. w.f = g /\ w.q = r /\ w.eaten = TRUE /\ w.cur = p.cur
    BY <1>3, <1>4, <1>8
  <2>2. p.f.sprite # NoSprite => p.f.spriteState <= 1 /\ p.cur = mCurObj + 1
    BY <1>1, <1>8 DEF Waits, Ready
  <2>3. ~p.q.bgEnabled => p.q.bg = <<>>
    BY <1>1 DEF Kept, Steady
  <2>4. /\ Piped(g, r) /\ Steady(g, r) /\ g.sprite = p.f.sprite /\ g.mode = "win"
        /\ r.bgEnabled = p.q.bgEnabled /\ r.locked = p.q.locked
        /\ Owed(g, r) <= IF p.f.sprite = NoSprite THEN 6 ELSE 10
    BY <1>1, <2>2, <2>3, WindowIs DEF Kept
  <2>5. lcdc.win /\ mFetcher.mode # "win"
    BY <1>1, <1>8 DEF WindowHere, Waits, Ready
  <2>6. Owed(g, r) \in Nat
    BY <2>4, OwedTyped
  <2> HIDE DEF g, r
  <2>7. WinPaid(g) = 7 /\ a = 0
    BY <1>5, <2>4, <2>5 DEF WinPaid, a
  <2>8. Owed(g, r) + 1 + a <= o + (p.cur - mCurObj) * ObjCost + WinPaid(g)
    <3> DEFINE c == (p.cur - mCurObj) * ObjCost
               u == Owed(g, r)
    <3>1. u \in Nat /\ c \in Nat /\ (u <= 6 \/ (u <= 10 /\ c = 9))
      <4>1. CASE p.f.sprite = NoSprite
        BY <1>6, <2>4, <2>6, <4>1
      <4>2. CASE p.f.sprite # NoSprite
        <5>1. c = 9
          BY <1>2, <1>5, <2>2, <4>2
        <5> QED
          BY <1>6, <2>4, <2>6, <4>2, <5>1
      <4> QED
        BY <4>1, <4>2
    <3> HIDE DEF c, u
    <3>2. u + 1 + 0 <= o + c + 7
      BY <1>2, <3>1
    <3> QED
      BY <2>7, <3>2 DEF c, u
  <2>9. Kept(w)
    BY <1>1, <2>1, <2>4 DEF Kept
  <2>10. Early(g, r, Position) /\ ~WindowHere(g)
    BY <2>4 DEF Early, WindowHere
  <2>11. Owed(w.f, w.q) + 1 + a <= o + (w.cur - mCurObj) * ObjCost + WinPaid(w.f)
    <3>1. w.cur = p.cur /\ Owed(w.f, w.q) = Owed(g, r) /\ WinPaid(w.f) = WinPaid(g)
      BY <2>1
    <3> QED
      BY <2>8, <3>1
  <2>12. Held(w)
    <3>1. w.eaten /\ lcdc.win /\ ~WindowHere(w.f) /\ Early(w.f, w.q, Position)
      BY <2>1, <2>5, <2>10
    <3> QED
      BY <2>11, <3>1 DEF Held, a, o
  <2> QED
    BY <2>9, <2>12 DEF w
<1> QED
  BY <1>7, <1>8

(* The budget is the bound.                                                *)
LEMMA BoundFromBudget == ASSUME BudgetInv PROVE XferBounded
<1> SUFFICES ASSUME clean, CleanLine
             PROVE  dots <= (mLineXPos + TileLen) + mCurObj * ObjCost + (IF lcdc.win THEN WinCost ELSE 0)
  BY DEF BudgetInv, XferBounded
<1> DEFINE o == Owed(mFetcher, mFIFO)
           b == mLineXPos + TileLen + mCurObj * ObjCost
<1>1. o \in Nat
  BY OwedTyped DEF CleanLine, BudgetInv, Numeric
<1>2. b \in Int /\ dots \in Nat
  BY Numbers DEF ObjCost, BudgetInv, Numeric
<1>3. dots + o <= b + WinPaid(mFetcher)
  BY DEF CleanLine
<1>4. WinPaid(mFetcher) \in Nat /\ WinPaid(mFetcher) <= (IF lcdc.win THEN WinCost ELSE 0)
  BY DEF CleanLine, WinPaid, WinCost
<1>5. (IF lcdc.win THEN WinCost ELSE 0) \in Nat
  BY DEF WinCost
<1> HIDE DEF o, b
<1>6. dots <= b + (IF lcdc.win THEN WinCost ELSE 0)
  BY <1>1, <1>2, <1>3, <1>4, <1>5
<1> QED
  BY <1>6 DEF b

(* The fetcher and the queue after their resets.                           *)
LEMMA ResetPiped ==
  ASSUME NEW q, Paired(FetcherReset, q), q.bg = <<>>
  PROVE  Piped(FetcherReset, q)
<1> DEFINE f == FetcherReset
<1>1. /\ f.state = 0 /\ f.spriteState = 8 /\ f.mode = "bg" /\ f.sprite = NoSprite /\ f.tileCnt = 0 /\ f.tileNum = 0
      /\ f.line = <<>>
  BY Numbers DEF FetcherReset
<1> HIDE DEF f
<1>2. <<>> \in Seq(Pixel)
  OBVIOUS
<1>3. Piped(f, q)
  BY <1>1, <1>2 DEF Piped, f
<1> QED
  BY <1>3 DEF f

(* A line that begins with fetcher and queue reset owes nothing.           *)
LEMMA ResetIs ==
  /\ Piped(FetcherReset, ResetQueue) /\ Steady(FetcherReset, ResetQueue)
  /\ Early(FetcherReset, ResetQueue, 0) /\ Owed(FetcherReset, ResetQueue) = 0
  /\ FetcherReset.sprite = NoSprite /\ FetcherReset.mode = "bg" /\ ResetQueue.bgEnabled = FALSE
<1>1. Paired(FetcherReset, ResetQueue) /\ ResetQueue.bg = <<>>
  BY DEF Paired, FetcherReset, ResetQueue, FetcherFields, QueueFields, NoSprite
<1>2. Piped(FetcherReset, ResetQueue)
  BY <1>1, ResetPiped
<1>3. /\ FetcherReset.state = 0 /\ FetcherReset.mode = "bg" /\ FetcherReset.sprite = NoSprite
      /\ ResetQueue.bg = <<>> /\ ResetQueue.bgEnabled = FALSE
  BY Numbers DEF FetcherReset, ResetQueue
<1> QED
  BY <1>2, <1>3 DEF Steady, Early, Owed

(* The fine scroll is less than a tile.                                    *)
LEMMA ScrollIs ==
  ASSUME NEW s \in Nat
  PROVE  s % TileLen \in 0 .. TileLen - 1
BY Numbers

(* At its bound the count goes down, never up.                             *)
LEMMA NextDotIs ==
  ASSUME Numeric
  PROVE  NextDot \in Nat /\ NextDot <= dots + 1
BY DotsAssumption DEF Numeric, NextDot

(* The machine is switched on with no line under way.                      *)
LEMMA InitBudget == Init => BudgetInv
<1> SUFFICES ASSUME Init PROVE BudgetInv
  OBVIOUS
<1>1. Numeric
  <2>1. mCurObj = 0 /\ mLineXPos = -TileLen /\ dots = 0 /\ mMode3DelayCycles = 0
    BY DEF Init
  <2>2. scx \in Nat
    BY ScxAssumption DEF Init
  <2> QED
    BY <2>1, <2>2, Numbers DEF Numeric
<1>2. clean = FALSE
  BY DEF Init
<1> QED
  BY <1>1, <1>2 DEF BudgetInv, XferBounded

(* The end of mode 2.                                                      *)
LEMMA StartLineBudget == ASSUME BudgetInv, StartLine PROVE BudgetInv'
<1>1. /\ mode' = "xfer" /\ mCurObj' = 0 /\ mLineXPos' = -TileLen /\ mMode3DelayCycles' = scx' % TileLen
      /\ clean' = (mFetcher = FetcherReset /\ mFIFO = ResetQueue)
      /\ dots' = 0 /\ mFetcher' = mFetcher /\ mFIFO' = mFIFO
  BY DEF StartLine
<1>2. scx' \in Nat
  BY ScxAssumption DEF StartLine
<1>3. scx' % TileLen \in 0 .. TileLen - 1 /\ TileLen \in Nat \ {0}
  BY <1>2, Numbers, ScrollIs
<1>4. Numeric'
  <2>1. mMode3DelayCycles' \in Nat /\ mLineXPos' \in Int /\ mCurObj' \in Nat /\ dots' \in Nat
    BY <1>1, <1>3
  <2> QED
    BY <1>2, <2>1 DEF Numeric
<1>5. clean' => CleanLine'
  <2> SUFFICES ASSUME clean' PROVE CleanLine'
    OBVIOUS
  <2>1. mFetcher' = FetcherReset /\ mFIFO' = ResetQueue
    BY <1>1
  <2>2. FineScroll' = scx' % TileLen
    BY DEF FineScroll
  <2>3. Position' = 0
    BY <1>1, <1>3, <2>2 DEF Position
  <2>4. ~(mLineXPos' >= -FineScroll')
    BY <1>1, <1>3, <2>2
  <2>5. WinPaid(FetcherReset) = 0
    BY ResetIs DEF WinPaid
  <2>6. mLineXPos' + TileLen + mCurObj' * ObjCost + 0 = 0
    BY <1>1, <1>3 DEF ObjCost
  <2> QED
    BY <1>1, <2>1, <2>3, <2>4, <2>5, <2>6, ResetIs DEF CleanLine
<1> QED
  BY <1>1, <1>4, <1>5 DEF BudgetInv

(* The fetcher runs ahead and no cycle is counted.                         *)
LEMMA DelayBudget == ASSUME TileLen >= 7, BudgetInv, Delay PROVE BudgetInv'
<1> DEFINE t == FetcherTick(mFetcher, mFIFO, scx, mFoundObjs)
           n == mMode3DelayCycles
<1>1. /\ mode = "xfer" /\ n > 0 /\ mMode3DelayCycles' = n - 1
      /\ mFetcher' = t.f /\ mFIFO' = t.q
      /\ UNCHANGED <<mode, mLineXPos, mCurObj, scx, wx, lcdc, dots, clean>>
  BY DEF Delay, config
<1>3. Numeric'
  BY <1>1 DEF BudgetInv, Numeric
<1>4. clean' => CleanLine'
  <2> SUFFICES ASSUME clean, CleanLine PROVE CleanLine'
    BY <1>1 DEF BudgetInv
  <2>1. mFetcher.mode = "bg" /\ mFetcher.sprite = NoSprite /\ mLineXPos = -TileLen
    BY <1>1 DEF CleanLine
  <2>10. Piped(t.f, t.q) /\ t.f.mode = mFetcher.mode /\ t.q.bgEnabled = mFIFO.bgEnabled
    BY TickIs DEF CleanLine, BudgetInv, Numeric
  <2>2. Position \in Int /\ Position' = Position + 1
    <3>1. FineScroll \in Int /\ FineScroll' = FineScroll /\ TileLen \in Int /\ mLineXPos \in Int /\ n \in Nat
      BY <1>1, Numbers DEF FineScroll, BudgetInv, Numeric
    <3>2. mLineXPos' = mLineXPos
      BY <1>1
    <3> QED
      BY <1>1, <3>1, <3>2 DEF Position
  <2>3. /\ Steady(t.f, t.q) /\ t.f.sprite = NoSprite
        /\ Owed(mFetcher, mFIFO) \in Nat /\ Owed(t.f, t.q) \in Nat /\ Owed(t.f, t.q) <= Owed(mFetcher, mFIFO)
        /\ Early(t.f, t.q, Position + 1)
    BY <2>1, <2>2, PlainTick DEF BudgetInv, Numeric, CleanLine
  <2> HIDE DEF t
  <2>4. Early(mFetcher', mFIFO', Position')
    BY <1>1, <2>2, <2>3
  <2>5. WinPaid(mFetcher') = WinPaid(mFetcher) /\ WinPaid(mFetcher) \in Int
    BY <1>1, <2>10 DEF WinPaid, WinCost
  <2>6. dots' + Owed(mFetcher', mFIFO') <= mLineXPos' + TileLen + mCurObj' * ObjCost + WinPaid(mFetcher')
    <3> DEFINE b == mLineXPos + TileLen + mCurObj * ObjCost + WinPaid(mFetcher)
               o == Owed(mFetcher, mFIFO)
               o2 == Owed(t.f, t.q)
    <3>1. dots + o <= b /\ b \in Int /\ dots \in Nat /\ o \in Nat /\ o2 \in Nat /\ o2 <= o
      BY <2>3, <2>5, Numbers DEF CleanLine, ObjCost, BudgetInv, Numeric
    <3> HIDE DEF b, o, o2
    <3>2. dots + o2 <= b
      BY <3>1
    <3>3. dots' = dots /\ mLineXPos' = mLineXPos /\ mCurObj' = mCurObj
      BY <1>1
    <3> QED
      BY <1>1, <2>5, <3>2, <3>3 DEF b, o2
  <2>7. mFIFO'.bgEnabled <=> mLineXPos' >= -FineScroll'
    BY <1>1, <2>10 DEF CleanLine, FineScroll
  <2>8. mFetcher'.mode = "bg" /\ mFetcher'.sprite = NoSprite /\ mLineXPos' = -TileLen
    BY <1>1, <2>1, <2>3, <2>10
  <2>9. Steady(mFetcher', mFIFO')
    BY <1>1, <2>3
  <2> QED
    BY <1>1, <2>4, <2>6, <2>7, <2>8, <2>9, <2>10 DEF CleanLine
<1> QED
  BY <1>1, <1>3, <1>4 DEF BudgetInv

(* The bytes and counters.                                                 *)
LEMMA NumericNext == ASSUME IInv, Numeric, Next PROVE Numeric'
<1>1. mCurObj' \in Nat
  BY NextInv DEF IInv
<1>2. NextDot \in Nat
  BY NextDotIs
<1>3. CASE StartLine
  <2>1. scx' \in Nat
    BY <1>3, ScxAssumption DEF StartLine
  <2>2. scx' % TileLen \in Nat /\ -TileLen \in Int
    <3>1. TileLen \in Nat \ {0}
      BY Numbers
    <3>2. scx' % TileLen \in 0 .. TileLen - 1
      BY <2>1, ScrollIs
    <3> QED
      BY <3>1, <3>2
  <2>3. mLineXPos' = -TileLen /\ mMode3DelayCycles' = scx' % TileLen /\ dots' = 0
    BY <1>3 DEF StartLine
  <2> QED
    BY <1>1, <2>1, <2>2, <2>3 DEF Numeric
<1>4. CASE Delay
  BY <1>1, <1>4 DEF Delay, config, Numeric
<1>5. CASE DotEaten
  BY <1>1, <1>2, <1>5 DEF DotEaten, config, Numeric
<1>6. CASE DotShifted
  <2>1. mLineXPos' = mLineXPos + 1 /\ dots' = NextDot /\ scx' = scx /\ mMode3DelayCycles' = mMode3DelayCycles
    BY <1>6 DEF DotShifted, config
  <2> QED
    BY <1>1, <1>2, <2>1 DEF Numeric
<1>7. CASE WriteSCX
  BY <1>1, <1>7, ScxAssumption DEF WriteSCX, pipe, Numeric
<1>8. CASE WriteWX \/ WriteLCDC \/ LcdOn \/ LcdOff
  BY <1>1, <1>8 DEF WriteWX, WriteLCDC, LcdOn, LcdOff, pipe, config, Numeric
<1> QED
  BY <1>3, <1>4, <1>5, <1>6, <1>7, <1>8 DEF Next, Dot

(* A cycle without a pixel.                                                *)
LEMMA EatenClean ==
  ASSUME TileLen >= 7, Numeric, CleanLine, DotEaten
  PROVE  CleanLine'
<1> DEFINE p == Windowed
           o == Owed(mFetcher, mFIFO)
           o2 == Owed(p.f, p.q)
           a == WinPaid(mFetcher)
           a2 == WinPaid(p.f)
           e == (p.cur - mCurObj) * ObjCost
           b == mLineXPos + TileLen
<1>1. /\ mode = "xfer" /\ mMode3DelayCycles = 0 /\ Stalled(p)
      /\ mFetcher' = p.f /\ mFIFO' = p.q /\ mCurObj' = p.cur /\ dots' = NextDot
      /\ mLineXPos' = mLineXPos /\ mMode3DelayCycles' = mMode3DelayCycles
      /\ scx' = scx /\ wx' = wx /\ lcdc' = lcdc
  BY DEF DotEaten, config
<1>2. Kept(p) /\ (Held(p) \/ Ready(p))
  BY <1>1, WindowedIs
<1>3. NextDot \in Nat /\ NextDot <= dots + 1
  BY NextDotIs
<1>4. o \in Nat /\ o2 \in Nat
  BY <1>2, OwedTyped DEF CleanLine, Kept
<1>5. a \in Nat /\ a2 \in Nat
  BY DEF WinPaid, WinCost
<1>6. b \in Int /\ dots \in Nat /\ mCurObj \in Nat /\ FineScroll \in 0 .. TileLen - 1 /\ TileLen \in Nat
  BY Numbers, ScrollIs DEF Numeric, FineScroll
<1>7. FineScroll' = FineScroll /\ Position' = Position /\ Position \in Int
  BY <1>1, <1>6 DEF FineScroll, Position, Numeric
<1>8. e \in Nat /\ p.cur * ObjCost = mCurObj * ObjCost + e /\ mCurObj * ObjCost \in Nat /\ (p.cur = mCurObj => e = 0)
  <2>1. p.cur = mCurObj \/ p.cur = mCurObj + 1
    BY <1>2 DEF Kept
  <2>2. (mCurObj - mCurObj) * ObjCost = 0 /\ (mCurObj + 1 - mCurObj) * ObjCost = 9
        /\ (mCurObj + 1) * ObjCost = mCurObj * ObjCost + 9 /\ mCurObj * ObjCost \in Nat
    BY <1>6 DEF ObjCost
  <2> QED
    BY <1>6, <2>1, <2>2
<1>9. dots + o <= b + mCurObj * ObjCost + a
  BY DEF CleanLine
<1> DEFINE c == mCurObj * ObjCost
<1>13. c \in Nat /\ c = mCurObj * ObjCost /\ dots + o <= b + c + a
  BY <1>8, <1>9
<1> HIDE DEF p, o, o2, a, a2, b, e, c
<1>10. /\ o2 + 1 + a <= o + e + a2
       /\ p.f.mode = "win" => lcdc.win
       /\ p.f.sprite # NoSprite => ~WindowHere(p.f)
       /\ Early(p.f, p.q, Position)
  <2>1. CASE Held(p)
    BY <2>1 DEF Held, o, o2, a, a2, e
  <2>2. CASE Ready(p)
    <3>1. p.q.bg = <<>> /\ mLineXPos >= 0
      <4>1. ~p.q.locked
        BY <1>2, <2>2, PipedNumbers DEF Kept, Ready
      <4> QED
        BY <1>1, <2>2, <4>1 DEF Stalled, Ready
    <3>2. p.q.bgEnabled
      <4>1. mLineXPos >= -FineScroll
        BY <1>6, <3>1 DEF Numeric
      <4> QED
        BY <1>2, <4>1 DEF CleanLine, Kept
    <3>3. o2 + 1 <= o /\ a2 = a /\ e = 0
      BY <1>8, <2>2, <3>1, <3>2 DEF Ready, o, o2, a, a2, WinPaid
    <3>4. o2 + 1 + a <= o + e + a2
      BY <1>4, <1>5, <3>3
    <3>5. Early(p.f, p.q, Position)
      <4>1. Early(p.f, p.q, Position + 1) /\ p.f.state \in 0 .. 8
        BY <1>2, <2>2, PipedNumbers DEF Ready, Kept
      <4> QED
        BY <1>7, <4>1 DEF Early
    <3>6. (p.f.mode = "win" => lcdc.win) /\ p.f.sprite = NoSprite
      BY <2>2 DEF Ready, CleanLine
    <3> QED
      BY <3>4, <3>5, <3>6
  <2> QED
    BY <1>2, <2>1, <2>2
<1>11. NextDot + o2 <= b + p.cur * ObjCost + a2
  <2>1. NextDot + o2 <= b + (c + e) + a2
    BY <1>3, <1>4, <1>5, <1>6, <1>8, <1>10, <1>13
  <2> QED
    BY <1>8, <2>1 DEF c
<1>12. dots' + Owed(mFetcher', mFIFO') <= mLineXPos' + TileLen + mCurObj' * ObjCost + WinPaid(mFetcher')
  BY <1>1, <1>11 DEF o2, a2, b
<1>14. /\ Piped(mFetcher', mFIFO') /\ Steady(mFetcher', mFIFO') /\ Early(mFetcher', mFIFO', Position')
       /\ mFetcher'.mode = "win" => lcdc'.win
  BY <1>1, <1>2, <1>7, <1>10 DEF Kept
<1>15. mFIFO'.bgEnabled <=> mLineXPos' >= -FineScroll'
  BY <1>1, <1>2, <1>7 DEF CleanLine, Kept
<1>16. mFetcher'.sprite # NoSprite => ~WindowHere(mFetcher)'
  BY <1>1, <1>10 DEF WindowHere
<1>17. ~(mMode3DelayCycles' > 0)
  BY <1>1
<1> QED
  BY <1>12, <1>14, <1>15, <1>16, <1>17 DEF CleanLine

(* A pixel leaves the queue, and on the way the queue may be enabled.      *)
LEMMA ShiftedClean ==
  ASSUME TileLen >= 7, Numeric, CleanLine, DotShifted
  PROVE  IF mode' = "xfer" THEN CleanLine' ELSE XferBounded'
<1> DEFINE p == Windowed
           q == Popped(p.q, lcdc)
           r == IF AtScroll(mLineXPos + 1) THEN EnableBG(q) ELSE q
           o == Owed(mFetcher, mFIFO)
           o2 == Owed(p.f, q)
           a == WinPaid(mFetcher)
           b == mLineXPos + TileLen
           c == mCurObj * ObjCost
<1>1. /\ mode = "xfer" /\ mMode3DelayCycles = 0 /\ ~Stalled(p)
      /\ mCurObj' = p.cur /\ dots' = NextDot
      /\ mLineXPos' = mLineXPos + 1 /\ mMode3DelayCycles' = mMode3DelayCycles
      /\ scx' = scx /\ wx' = wx /\ lcdc' = lcdc /\ clean' = clean
      /\ mode' = "xfer" => mFetcher' = p.f /\ mFIFO' = r
  <2>1. /\ mode = "xfer" /\ mMode3DelayCycles = 0 /\ ~Stalled(p)
        /\ mCurObj' = p.cur /\ dots' = NextDot /\ mLineXPos' = mLineXPos + 1
        /\ UNCHANGED <<mMode3DelayCycles, config, clean>>
    BY DEF DotShifted
  <2>2. IF mLineXPos + 1 = Width THEN mode' = "hblank"
        ELSE mFetcher' = p.f /\ mFIFO' = r
    BY DEF DotShifted
  <2> QED
    BY <2>1, <2>2 DEF config
<1>2. Kept(p) /\ Ready(p)
  <2>1. Kept(p) /\ (Held(p) \/ Ready(p))
    BY <1>1, WindowedIs
  <2>2. ~Held(p)
    BY <1>1 DEF Held, Stalled
  <2> QED
    BY <2>1, <2>2
<1>3. NextDot \in Nat /\ NextDot <= dots + 1
  BY NextDotIs
<1>4. /\ Piped(p.f, q) /\ q.bgEnabled = mFIFO.bgEnabled /\ Steady(p.f, q) /\ o2 <= Owed(p.f, p.q)
      /\ q.bg = <<>> \/ Lead(p.f, q, 6)
  BY <1>2, PoppedIs DEF Kept, Ready
<1>5. o \in Nat /\ o2 \in Nat /\ o2 <= o
  <2>1. o \in Nat /\ o2 \in Nat /\ Owed(p.f, p.q) \in Nat /\ Owed(p.f, p.q) <= o
    BY <1>2, <1>4, OwedTyped DEF CleanLine, Kept, Ready
  <2> HIDE DEF o, o2, p
  <2> QED
    BY <1>4, <2>1
<1>6. b \in Int /\ dots \in Nat /\ c \in Nat /\ FineScroll \in 0 .. TileLen - 1 /\ TileLen \in Nat /\ a \in Nat
  BY Numbers, ScrollIs DEF Numeric, FineScroll, ObjCost, WinPaid, WinCost
<1>7. FineScroll' = FineScroll /\ Position' = Position + 1 /\ Position \in Int /\ Position = b + FineScroll
  BY <1>1, <1>6 DEF FineScroll, Position, Numeric
<1>8. dots + o <= b + c + a
  BY DEF CleanLine
<1>9. p.cur = mCurObj /\ p.f.mode = mFetcher.mode /\ p.f.sprite = NoSprite
  BY <1>2 DEF Ready
<1>10. Early(p.f, q, Position + 1)
  BY <1>2, <1>4 DEF Ready, Early, Kept
<1> HIDE DEF p, q, r, o, o2, a, b, c
<1>11. NextDot + o2 <= (b + 1) + c + a
  BY <1>3, <1>5, <1>6, <1>8
<1>12. b + 1 = mLineXPos + 1 + TileLen
  BY <1>6 DEF b, Numeric
<1>13. CASE mode' # "xfer"
  <2>1. NextDot <= (b + 1) + c + a
    BY <1>3, <1>5, <1>6, <1>11
  <2>2. a <= (IF lcdc.win THEN WinCost ELSE 0) /\ (IF lcdc.win THEN WinCost ELSE 0) \in Nat
    BY DEF CleanLine, a, WinPaid, WinCost
  <2>3. NextDot <= (b + 1) + c + (IF lcdc.win THEN WinCost ELSE 0)
    BY <1>3, <1>6, <2>1, <2>2
  <2>4. dots' <= (mLineXPos' + TileLen) + mCurObj' * ObjCost + (IF lcdc'.win THEN WinCost ELSE 0)
    BY <1>1, <1>9, <1>12, <2>3 DEF c
  <2> QED
    BY <1>13, <2>4 DEF XferBounded
<1>14. CASE mode' = "xfer"
  <2> DEFINE x == mLineXPos + 1
  <2>1. mFetcher' = p.f /\ mFIFO' = r
    BY <1>1, <1>14
  <2>2. x \in Int /\ AtScroll(x) = (x = -FineScroll)
    BY DEF AtScroll, Numeric
  <2>3. mFIFO.bgEnabled <=> mLineXPos >= -FineScroll
    BY DEF CleanLine
  <2>4. /\ Piped(p.f, r) /\ Steady(p.f, r) /\ Owed(p.f, r) = o2 /\ (r.bgEnabled <=> x >= -FineScroll)
        /\ Early(p.f, r, Position + 1)
    <3>1. CASE ~AtScroll(x)
      <4>1. x # -FineScroll
        BY <2>2, <3>1
      <4>2. mLineXPos >= -FineScroll <=> x >= -FineScroll
        BY <1>6, <4>1 DEF Numeric
      <4>3. r = q
        BY <3>1 DEF r
      <4> QED
        BY <1>4, <1>10, <2>3, <4>2, <4>3 DEF o2
    <3>2. CASE AtScroll(x)
      <4>1. x = -FineScroll
        BY <2>2, <3>2
      <4>2. ~q.bgEnabled
        BY <1>4, <1>6, <2>3, <4>1 DEF Numeric
      <4>3. r = EnableBG(q) /\ Paired(p.f, q) /\ q.bg = <<>>
        BY <1>4, <3>2, <4>2 DEF r, Piped, Steady
      <4>4. r.bg = q.bg /\ r.bgEnabled = TRUE /\ Paired(p.f, r)
        BY <4>3 DEF EnableBG, Paired, QueueFields
      <4>5. Piped(p.f, r)
        BY <1>4, <4>4 DEF Piped
      <4>6. p.f.mode = "bg" => p.f.state >= 6
        <5>1. Position + 1 >= 7
          <6>1. x + TileLen + FineScroll = TileLen
            BY <1>6, <4>1
          <6>2. Position + 1 = x + TileLen + FineScroll
            BY <1>6, <1>7 DEF b, Numeric
          <6> QED
            BY <1>6, <6>1, <6>2
        <5>2. p.f.mode = "bg" => p.f.state >= 6 \/ p.f.state >= Position + 1
          BY <1>10, <4>2 DEF Early
        <5>3. p.f.state \in 0 .. 8
          BY <1>4, PipedNumbers
        <5> QED
          BY <1>7, <5>1, <5>2, <5>3
      <4>7. Steady(p.f, r)
        <5>1. p.f.state # 8
          BY <1>9, <4>5, PipedNumbers
        <5> QED
          BY <1>9, <4>3, <4>4, <4>6, <5>1 DEF Steady, Lead
      <4>8. Owed(p.f, r) = o2
        BY <1>9, <4>4 DEF Owed, o2, Lead
      <4>9. r.bgEnabled <=> x >= -FineScroll
        BY <2>2, <4>1, <4>4
      <4>10. Early(p.f, r, Position + 1)
        BY <4>4 DEF Early
      <4> QED
        BY <4>5, <4>7, <4>8, <4>9, <4>10
    <3> QED
      BY <3>1, <3>2
  <2>5. WinPaid(p.f) = a
    BY <1>9 DEF WinPaid, a
  <2>6. dots' + Owed(mFetcher', mFIFO') <= mLineXPos' + TileLen + mCurObj' * ObjCost + WinPaid(mFetcher')
    BY <1>1, <1>9, <1>11, <1>12, <2>1, <2>4, <2>5 DEF c
  <2>7. /\ Piped(mFetcher', mFIFO') /\ Steady(mFetcher', mFIFO') /\ Early(mFetcher', mFIFO', Position')
        /\ mFetcher'.mode = "win" => lcdc'.win
    BY <1>1, <1>7, <1>9, <2>1, <2>4 DEF CleanLine
  <2>8. mFIFO'.bgEnabled <=> mLineXPos' >= -FineScroll'
    BY <1>1, <1>7, <2>1, <2>4
  <2>9. mFetcher'.sprite = NoSprite /\ ~(mMode3DelayCycles' > 0)
    BY <1>1, <1>9, <2>1
  <2> QED
    BY <1>14, <2>6, <2>7, <2>8, <2>9 DEF CleanLine
<1> QED
  BY <1>13, <1>14

(* The budget survives every step.                                         *)
LEMMA NextBudget == ASSUME TileLen >= 7, IInv, BudgetInv, [Next]_vars PROVE BudgetInv'
<1>1. CASE StartLine
  BY <1>1, StartLineBudget
<1>2. CASE Delay
  BY <1>2, DelayBudget
<1>3. CASE DotEaten \/ DotShifted
  <2>1. Numeric'
    BY <1>3, NumericNext DEF BudgetInv, Next, Dot
  <2>2. mode = "xfer" /\ clean' = clean
    BY <1>3 DEF DotEaten, DotShifted
  <2>3. CASE clean
    <3>1. CASE DotEaten
      BY <2>1, <2>2, <2>3, <3>1, EatenClean DEF BudgetInv, DotEaten
    <3>2. CASE DotShifted
      <4>1. IF mode' = "xfer" THEN CleanLine' ELSE XferBounded'
        BY <2>2, <2>3, <3>2, ShiftedClean DEF BudgetInv
      <4> QED
        BY <2>1, <4>1 DEF BudgetInv
    <3> QED
      BY <1>3, <3>1, <3>2
  <2>4. CASE ~clean
    BY <2>1, <2>2, <2>4 DEF BudgetInv, XferBounded
  <2> QED
    BY <2>3, <2>4
<1>4. CASE WriteSCX \/ WriteWX \/ WriteLCDC
  <2>1. Numeric' /\ clean' = FALSE
    BY <1>4, NumericNext DEF BudgetInv, Next, WriteSCX, WriteWX, WriteLCDC
  <2> QED
    BY <2>1 DEF BudgetInv, XferBounded
<1>5. CASE LcdOn \/ LcdOff \/ UNCHANGED vars
  <2>1. Numeric'
    BY <1>5 DEF LcdOn, LcdOff, vars, pipe, config, BudgetInv, Numeric
  <2>2. XferBounded'
    BY <1>5, BoundFromBudget DEF LcdOn, LcdOff, vars, pipe, config, XferBounded
  <2>3. CASE LcdOn \/ LcdOff
    BY <2>1, <2>2, <2>3 DEF LcdOn, LcdOff, BudgetInv
  <2>4. CASE UNCHANGED vars
    <3>1. CleanLine => CleanLine'
      BY <2>4 DEF vars, pipe, config, CleanLine, Position, FineScroll, WindowHere
    <3> QED
      BY <2>1, <2>2, <2>4, <3>1 DEF vars, BudgetInv
  <2> QED
    BY <1>5, <2>3, <2>4
<1> QED
  BY <1>1, <1>2, <1>3, <1>4, <1>5 DEF Next, Dot

(* No transfer of an untouched line takes longer than its pixels, 9 cycles *)
(* for each object started and 7 for the window, whatever the width, the   *)
(* scroll, the objects and the place of the window. The tiles of the code  *)
(* are 8 pixels wide; 7 are enough to keep the fetcher ahead.              *)
THEOREM XferBoundedHolds == ASSUME TileLen >= 7 PROVE Spec => []XferBounded
<1>1. Init => IInv /\ BudgetInv
  BY InitInv, InitBudget
<1>2. IInv /\ BudgetInv /\ [Next]_vars => (IInv /\ BudgetInv)'
  BY NextInv, NextBudget
<1>3. BudgetInv => XferBounded
  BY BoundFromBudget
<1> QED
  BY <1>1, <1>2, <1>3, PTL DEF Spec
-----------------------------------------------------------------------------
(* Division of a number by a positive one.                                 *)
LEMMA Divided ==
  ASSUME NEW a \in Int, NEW m \in Nat \ {0}
  PROVE  a = m * (a \div m) + (a % m) /\ a \div m \in Int /\ a % m \in 0 .. m - 1
OBVIOUS

(* Quotient and remainder are unique.                                      *)
LEMMA Remainder ==
  ASSUME NEW m \in Nat \ {0}, NEW k \in Int, NEW r \in 0 .. m - 1
  PROVE  (m * k + r) % m = r
<1> DEFINE a == m * k + r
           d == a \div m
           e == a % m
<1>1. a \in Int /\ a = m * d + e /\ d \in Int /\ e \in 0 .. m - 1
  BY Divided
<1>2. m * (k - d) = e - r
  BY <1>1
<1> HIDE DEF d, e, a
<1> DEFINE c == k - d
<1>3. c \in Int /\ m * c = e - r /\ e - r < m /\ e - r > -m
  BY <1>1, <1>2
<1> HIDE DEF c
<1>4. c = 0
  <2>1. CASE c >= 1
    <3>1. m * c >= m
      BY <1>3, <2>1
    <3> QED
      BY <1>3, <3>1
  <2>2. CASE c <= -1
    <3>1. m * c <= -m
      BY <1>3, <2>2
    <3> QED
      BY <1>3, <3>1
  <2> QED
    BY <1>3, <2>1, <2>2
<1>5. e = r
  BY <1>1, <1>3, <1>4
<1> QED
  BY <1>5 DEF a, e

(* The successor of a remainder.                                           *)
LEMMA NextRemainder ==
  ASSUME NEW m \in Nat \ {0}, NEW n \in Nat
  PROVE  ((n % m) + 1) % m = (n + 1) % m
<1> DEFINE d == n \div m
           e == n % m
           s == (e + 1) \div m
           t == (e + 1) % m
<1>1. n = m * d + e /\ d \in Int /\ e \in 0 .. m - 1
  BY Divided
<1>2. e + 1 = m * s + t /\ s \in Int /\ t \in 0 .. m - 1
  <2>1. e + 1 \in Int
    BY <1>1
  <2> HIDE DEF e
  <2> QED
    BY <2>1, Divided
<1> HIDE DEF d, e, s, t
<1>3. n + 1 = m * (d + s) + t /\ d + s \in Int
  BY <1>1, <1>2
<1>4. (n + 1) % m = t
  <2> DEFINE k == d + s
  <2> HIDE DEF k
  <2>1. k \in Int /\ n + 1 = m * k + t
    BY <1>3 DEF k
  <2> QED
    BY <1>2, <2>1, Remainder
<1> QED
  BY <1>4 DEF e, t

(* Adding before or after the remainder is taken.                          *)
LEMMA SumRemainder ==
  ASSUME NEW m \in Nat \ {0}, NEW a \in Nat, NEW b \in Nat
  PROVE  ((a % m) + b) % m = (a + b) % m
<1> DEFINE d == a \div m
           e == a % m
           s == (e + b) \div m
           t == (e + b) % m
<1>1. a = m * d + e /\ d \in Int /\ e \in 0 .. m - 1
  BY Divided
<1>2. e + b = m * s + t /\ s \in Int /\ t \in 0 .. m - 1
  <2>1. e + b \in Int
    BY <1>1
  <2> HIDE DEF e
  <2> QED
    BY <2>1, Divided
<1> HIDE DEF d, e, s, t
<1> DEFINE k == d + s
<1>3. a + b = m * k + t /\ k \in Int
  BY <1>1, <1>2
<1> HIDE DEF k
<1>4. (a + b) % m = t
  BY <1>2, <1>3, Remainder
<1> QED
  BY <1>4 DEF e, t

(* The columns of a tile, in a map that repeats.                           *)
LEMMA TileRemainder ==
  ASSUME NEW t \in Nat \ {0}, NEW m \in Nat \ {0}, NEW n \in Nat, NEW r \in 0 .. t - 1
  PROVE  (t * n + r) % (m * t) = (n % m) * t + r
<1> DEFINE d == n \div m
           e == n % m
           w == m * t
           c == e * t + r
<1>1. n = m * d + e /\ d \in Int /\ e \in 0 .. m - 1
  BY Divided
<1> HIDE DEF d, e
<1>2. w \in Nat \ {0}
  OBVIOUS
<1>3. c \in 0 .. w - 1
  <2>1. e * t <= (m - 1) * t
    BY <1>1
  <2>2. (m - 1) * t = m * t - t /\ e * t \in Nat
    BY <1>1
  <2> QED
    BY <2>1, <2>2
<1>4. t * n + r = w * d + c
  BY <1>1
<1> HIDE DEF w, c
<1>5. (w * d + c) % w = c
  BY <1>1, <1>2, <1>3, Remainder
<1> QED
  BY <1>4, <1>5 DEF w, c, e

(* tryWriteLine changes no more than the state and the background.         *)
LEMMA WriteKeeps ==
  ASSUME NEW f, NEW q, Paired(f, q)
  PROVE  LET b == TryWriteLine(f, q)
         IN /\ b.f.tileCnt = f.tileCnt /\ b.f.tileNum = f.tileNum /\ b.f.line = f.line
            /\ b.q.obj = q.obj
<1>1. CASE q.bg = <<>> /\ CanLoadBG(q)
  BY <1>1 DEF TryWriteLine, LoadBG, Paired, FetcherFields, QueueFields
<1>2. CASE ~(q.bg = <<>> /\ CanLoadBG(q))
  BY <1>2 DEF TryWriteLine, Paired, FetcherFields, QueueFields
<1> QED
  BY <1>1, <1>2

(* What the background half of Fetcher::tick counts, reads and keeps.      *)
LEMMA BackgroundReads ==
  ASSUME NEW f, NEW q, NEW s, Paired(f, q)
  PROVE  LET b == TickBackground(f, q, s)
         IN /\ b.f.tileCnt = IF f.state = 6 THEN (f.tileCnt + 1) % MapTiles ELSE f.tileCnt
            /\ b.f.tileNum = IF f.state = 1 THEN TileColumn(f, s) ELSE f.tileNum
            /\ b.f.line = IF f.state = 5 THEN TileLine(f.mode, f.tileNum) ELSE f.line
            /\ b.q.obj = q.obj
<1> DEFINE b == TickBackground(f, q, s)
<1>1. CASE f.state = 6
  <2> DEFINE g == NextTile(f)
  <2>1. /\ Paired(g, q) /\ g.tileCnt = (f.tileCnt + 1) % MapTiles
        /\ g.tileNum = f.tileNum /\ g.line = f.line
    BY DEF NextTile, Paired, FetcherFields
  <2>2. b = TryWriteLine(g, q)
    BY <1>1, Numbers DEF TickBackground
  <2> HIDE DEF g, b
  <2> QED
    BY <1>1, <2>1, <2>2, WriteKeeps DEF b
<1>2. CASE f.state = 7
  <2>1. b = TryWriteLine(f, q)
    BY <1>2, Numbers DEF TickBackground
  <2> HIDE DEF b
  <2> QED
    BY <1>2, <2>1, WriteKeeps DEF b
<1>3. CASE f.state \notin {6, 7}
  <2>1. b = [f |-> Fetching(f, s), q |-> q]
    BY <1>3, Numbers DEF TickBackground
  <2>2. /\ Fetching(f, s).tileCnt = f.tileCnt
        /\ Fetching(f, s).tileNum = IF f.state = 1 THEN TileColumn(f, s) ELSE f.tileNum
        /\ Fetching(f, s).line = IF f.state = 5 THEN TileLine(f.mode, f.tileNum) ELSE f.line
    BY Numbers DEF Fetching, Paired, FetcherFields
  <2> HIDE DEF b
  <2> QED
    BY <1>3, <2>1, <2>2 DEF b
<1> QED
  BY <1>1, <1>2, <1>3

(* The sprite half leaves what the background half has read, and mixes the *)
(* sprite's line in when it is complete.                                   *)
LEMMA SpriteMixes ==
  ASSUME NEW f, NEW q, NEW objs, Paired(f, q), f.spriteState = 8 <=> f.sprite = NoSprite,
         f.spriteState \in 0 .. 5 \cup {8}
  PROVE  LET t == TickSprite(f, q, objs)
         IN /\ t.f.tileCnt = f.tileCnt /\ t.f.tileNum = f.tileNum /\ t.f.line = f.line
            /\ t.q.bg = q.bg
            /\ t.q.obj = IF f.sprite # NoSprite /\ t.f.sprite = NoSprite
                           THEN MixSprite(q, SpriteLine(objs[f.sprite], f.sprite)).obj
                           ELSE q.obj
<1> DEFINE t == TickSprite(f, q, objs)
           line == SpriteLine(objs[f.sprite], f.sprite)
<1>1. CASE f.spriteState = 8 \/ f.state < 5
  <2>1. t = [f |-> f, q |-> q] /\ (f.spriteState = 8 => f.sprite = NoSprite)
    BY <1>1, Numbers DEF TickSprite
  <2> HIDE DEF t, line
  <2> QED
    BY <2>1 DEF t
<1>2. CASE ~(f.spriteState = 8 \/ f.state < 5) /\ f.spriteState < 5
  <2> DEFINE g == [f EXCEPT !.spriteState = NextState(@)]
  <2>1. t = [f |-> g, q |-> q]
    BY <1>2, Numbers DEF TickSprite
  <2>2. g.tileCnt = f.tileCnt /\ g.tileNum = f.tileNum /\ g.line = f.line /\ g.sprite = f.sprite
    BY DEF Paired, FetcherFields
  <2> HIDE DEF t, g, line
  <2> QED
    BY <2>1, <2>2 DEF t
<1>3. CASE ~(f.spriteState = 8 \/ f.state < 5) /\ ~(f.spriteState < 5)
  <2> DEFINE g == SpriteDone(f)
             r == SpriteLoaded(q, line)
  <2>1. t = [f |-> g, q |-> r]
    BY <1>3, Numbers DEF TickSprite
  <2>2. /\ g.tileCnt = f.tileCnt /\ g.tileNum = f.tileNum /\ g.line = f.line
        /\ g.sprite = NoSprite
    BY DEF Paired, FetcherFields, SpriteDone
  <2>3. f.sprite # NoSprite
    BY <1>3
  <2>4. r.obj = MixSprite(q, line).obj /\ r.bg = q.bg
    <3>1. MixSprite(q, line) = [x \in QueueFields |-> MixSprite(q, line)[x]] /\ MixSprite(q, line).bg = q.bg
      BY DEF MixSprite, Paired, QueueFields
    <3> DEFINE w == MixSprite(q, line)
    <3> HIDE DEF w
    <3>2. Unlock(w).obj = w.obj /\ Unlock(w).bg = w.bg
      BY <3>1 DEF w, Unlock, QueueFields
    <3> QED
      BY <3>1, <3>2 DEF w, SpriteLoaded
  <2> HIDE DEF t, g, r, line
  <2> QED
    BY <2>1, <2>2, <2>3, <2>4 DEF t, line
<1> QED
  BY <1>1, <1>2, <1>3

(* What a call of Fetcher::tick that leaves t counts, reads and mixes in.  *)
Reads(f, q, s, objs, t) ==
  /\ t.f.tileCnt = IF f.state = 6 THEN (f.tileCnt + 1) % MapTiles ELSE f.tileCnt
  /\ t.f.tileNum = IF f.state = 1 THEN TileColumn(f, s) ELSE f.tileNum
  /\ t.f.line = IF f.state = 5 THEN TileLine(f.mode, f.tileNum) ELSE f.line
  /\ t.q.obj = IF f.sprite # NoSprite /\ t.f.sprite = NoSprite
                 THEN MixSprite(q, SpriteLine(objs[f.sprite], f.sprite)).obj
                 ELSE q.obj

(* One call of Fetcher::tick, in tiles and pixels.                         *)
LEMMA TickReads ==
  ASSUME NEW f, NEW q, NEW s \in Nat, NEW objs, Piped(f, q)
  PROVE  Reads(f, q, s, objs, FetcherTick(f, q, s, objs))
<1> DEFINE b == TickBackground(f, q, s)
           t == FetcherTick(f, q, s, objs)
           line == SpriteLine(objs[f.sprite], f.sprite)
<1>1. Paired(f, q) /\ t = TickSprite(b.f, b.q, objs)
  BY DEF Piped, FetcherTick
<1> HIDE DEF t
<1>2. /\ b.f.tileCnt = IF f.state = 6 THEN (f.tileCnt + 1) % MapTiles ELSE f.tileCnt
      /\ b.f.tileNum = IF f.state = 1 THEN TileColumn(f, s) ELSE f.tileNum
      /\ b.f.line = IF f.state = 5 THEN TileLine(f.mode, f.tileNum) ELSE f.line
      /\ b.q.obj = q.obj
  BY <1>1, BackgroundReads
<1>3. Piped(b.f, b.q) /\ b.f.sprite = f.sprite
  <2> HIDE DEF line
  <2>1. /\ Piped(b.f, b.q) /\ b.f.state = BgState(f, q)
        /\ b.f.sprite = f.sprite /\ b.f.spriteState = f.spriteState /\ b.f.mode = f.mode
        /\ b.q = [q EXCEPT !.bg = IF Loads(f, q) THEN f.line ELSE q.bg]
    BY ONLY BackgroundIs, Piped(f, q), s \in Nat
  <2> QED
    BY <2>1
<1>6. Paired(b.f, b.q) /\ (b.f.spriteState = 8 <=> b.f.sprite = NoSprite) /\ b.f.spriteState \in 0 .. 5 \cup {8}
  BY <1>3 DEF Piped
<1> HIDE DEF b
<1>4. /\ t.f.tileCnt = b.f.tileCnt /\ t.f.tileNum = b.f.tileNum /\ t.f.line = b.f.line
      /\ t.q.obj = IF b.f.sprite # NoSprite /\ t.f.sprite = NoSprite
                     THEN MixSprite(b.q, SpriteLine(objs[b.f.sprite], b.f.sprite)).obj
                     ELSE b.q.obj
  BY <1>1, <1>6, SpriteMixes
<1>5. MixSprite(b.q, line).obj = MixSprite(q, line).obj
  BY <1>1, <1>2, <1>6 DEF MixSprite, Paired, QueueFields
<1> HIDE DEF line
<1> QED
  <2>1. Reads(f, q, s, objs, t)
    BY <1>2, <1>3, <1>4, <1>5 DEF line, Reads
  <2> QED
    BY <2>1 DEF t

(* Where position 0 of the screen lies in the map of mode m.               *)
Offset(m) == IF m = "bg" THEN scx ELSE 7 - wx

(* The pixel of that map at position x.                                    *)
MapPixel(m, x) ==
  LET c == (x + Offset(m)) % Columns
  IN [src |-> m, col |-> c, opaque |-> c \in OpaqueCols, below |-> FALSE]

(* The fetcher is about to hand over tile n of its map.                    *)
Fetches(f, n) ==
  /\ TileColumn(f, scx) = (IF f.state = 7 THEN n + 1 ELSE n) % MapTiles
  /\ f.state \in 2 .. 7 => f.tileNum = n % MapTiles
  /\ f.state \in {6, 7} => f.line = TileLine(f.mode, n % MapTiles)

(* The position of the next tile, when x is that of the next pixel.        *)
NextPos(q, x) == IF q.bgEnabled THEN x + Len(q.bg) ELSE -FineScroll

(* The queue holds the pixels from position x on, the fetcher the next.    *)
Follows(f, q, x) ==
  /\ \A i \in 1 .. Len(q.bg) : q.bg[i] = MapPixel(f.mode, x + i - 1)
  /\ \E n \in Nat : NextPos(q, x) + Offset(f.mode) = TileLen * n /\ Fetches(f, n)

(* The pixels of tile n of the map, wherever it is repeated.               *)
LEMMA TilePixels ==
  ASSUME NEW m \in {"bg", "win"}, NEW n \in Nat, NEW x \in Int, Offset(m) \in Int,
         x + Offset(m) = TileLen * n, NEW i \in 1 .. TileLen
  PROVE  TileLine(m, n % MapTiles)[i] = MapPixel(m, x + i - 1)
<1> DEFINE k == n % MapTiles
           o == Offset(m)
           c == (x + i - 1 + o) % Columns
<1>1. TileLen \in Nat \ {0} /\ MapTiles \in Nat \ {0} /\ i - 1 \in 0 .. TileLen - 1 /\ i \in Int /\ o \in Int
  BY Numbers
<1>2. (TileLen * n + (i - 1)) % (MapTiles * TileLen) = k * TileLen + (i - 1)
  BY <1>1, TileRemainder
<1>3. x + o = TileLen * n /\ TileLen * n \in Int /\ k \in Int
  BY <1>1
<1> HIDE DEF k
<1>4. x + i - 1 + o = TileLen * n + (i - 1)
  <2> HIDE DEF o
  <2> QED
    BY <1>1, <1>3
<1>5. k * TileLen \in Int
  BY <1>1, <1>3
<1>6. c = k * TileLen + i - 1
  BY <1>1, <1>2, <1>4, <1>5 DEF Columns
<1>7. TileLine(m, k)[i] = [src |-> m, col |-> k * TileLen + i - 1,
                           opaque |-> k * TileLen + i - 1 \in OpaqueCols, below |-> FALSE]
  BY DEF TileLine
<1>8. MapPixel(m, x + i - 1) = [src |-> m, col |-> c, opaque |-> c \in OpaqueCols, below |-> FALSE]
  BY DEF MapPixel
<1> HIDE DEF c
<1> QED
  BY <1>6, <1>7, <1>8 DEF k

(* mTileCnt goes round the map.                                            *)
LEMMA NextColumn ==
  ASSUME NEW f, NEW g, NEW s \in Nat, NEW n \in Nat, f.tileCnt \in Nat, g.mode = f.mode,
         g.tileCnt = (f.tileCnt + 1) % MapTiles, TileColumn(f, s) = n % MapTiles
  PROVE  TileColumn(g, s) = (n + 1) % MapTiles
<1> DEFINE b == IF f.mode = "bg" THEN s \div TileLen ELSE 0
           c == f.tileCnt
<1>1. b \in Nat /\ c \in Nat /\ MapTiles \in Nat \ {0}
  BY Numbers
<1>2. TileColumn(g, s) = (((c + 1) % MapTiles) + b) % MapTiles /\ (c + b) % MapTiles = n % MapTiles
  BY DEF TileColumn
<1> HIDE DEF b, c
<1>3. (((c + 1) % MapTiles) + b) % MapTiles = (c + 1 + b) % MapTiles
  <2>1. c + 1 \in Nat
    BY <1>1
  <2> QED
    BY <1>1, <2>1, SumRemainder
<1>4. (((c + b) % MapTiles) + 1) % MapTiles = (c + b + 1) % MapTiles
  <2> DEFINE a == c + b
  <2>1. a \in Nat
    BY <1>1
  <2> HIDE DEF a
  <2>2. ((a % MapTiles) + 1) % MapTiles = (a + 1) % MapTiles
    BY <1>1, <2>1, NextRemainder
  <2> QED
    BY <2>2 DEF a
<1>5. ((n % MapTiles) + 1) % MapTiles = (n + 1) % MapTiles
  BY <1>1, NextRemainder
<1>6. c + 1 + b = c + b + 1
  BY <1>1
<1> QED
  BY <1>2, <1>3, <1>4, <1>5, <1>6

(* A call of Fetcher::tick keeps queue and fetcher on their way through    *)
(* the map.                                                                *)
LEMMA TickFollows ==
  ASSUME NEW f, NEW q, NEW objs, NEW x \in Int, scx \in Nat, wx \in Nat,
         Piped(f, q), Follows(f, q, x)
  PROVE  LET t == FetcherTick(f, q, scx, objs)
         IN Follows(t.f, t.q, x)
<1> DEFINE t == FetcherTick(f, q, scx, objs)
           k == BgState(f, q)
           o == Offset(f.mode)
<1>1. /\ Piped(t.f, t.q) /\ t.f.mode = f.mode /\ t.q.bgEnabled = q.bgEnabled
      /\ t.q.bg = IF Loads(f, q) THEN f.line ELSE q.bg
      /\ t.f.state = k \/ (k = 8 /\ t.f.state = 0)
  <2>1. LET ends == k >= 5 /\ f.spriteState = 5
         IN /\ Piped(t.f, t.q) /\ t.f.mode = f.mode /\ t.q.bgEnabled = q.bgEnabled
            /\ t.q.bg = IF Loads(f, q) THEN f.line ELSE q.bg
            /\ f.sprite = NoSprite => t.f.sprite = NoSprite /\ t.f.state = k
            /\ f.sprite # NoSprite /\ ~ends =>
                 /\ t.f.sprite = f.sprite /\ t.f.state = k
                 /\ t.f.spriteState = IF k >= 5 THEN f.spriteState + 1 ELSE f.spriteState
            /\ f.sprite # NoSprite /\ ends =>
                 t.f.sprite = NoSprite /\ t.f.state = IF k = 8 THEN 0 ELSE k
    BY TickIs
  <2> HIDE DEF t, k
  <2> QED
    BY <2>1
<1>2. /\ t.f.tileCnt = IF f.state = 6 THEN (f.tileCnt + 1) % MapTiles ELSE f.tileCnt
      /\ t.f.tileNum = IF f.state = 1 THEN TileColumn(f, scx) ELSE f.tileNum
      /\ t.f.line = IF f.state = 5 THEN TileLine(f.mode, f.tileNum) ELSE f.line
  <2>1. Reads(f, q, scx, objs, t)
    BY TickReads
  <2> HIDE DEF t
  <2> QED
    BY <2>1 DEF Reads
<1> HIDE DEF t
<1>3. /\ f.state \in 0 .. 8 /\ f.mode \in {"bg", "win"} /\ Len(q.bg) \in Nat /\ f.tileCnt \in Nat
      /\ (q.bg = <<>> <=> Len(q.bg) = 0) /\ TileLen \in Nat \ {0} /\ o \in Int
      /\ (f.state \in {6, 7} => Len(f.line) = TileLen)
  BY PipedNumbers, Numbers DEF Piped, Offset
<1> HIDE DEF o
<1>4. PICK n \in Nat : NextPos(q, x) + o = TileLen * n /\ Fetches(f, n)
  BY DEF Follows, o
<1>5. f.state # 6 => TileColumn(t.f, scx) = TileColumn(f, scx)
  BY <1>1, <1>2 DEF TileColumn
<1>6. f.state = 6 => TileColumn(t.f, scx) = (n + 1) % MapTiles
  <2>1. f.state = 6 => TileColumn(f, scx) = n % MapTiles
    BY <1>4 DEF Fetches
  <2> QED
    BY <1>1, <1>2, <1>3, <2>1, NextColumn
<1>7. CASE Loads(f, q)
  <2>1. f.state \in {6, 7} /\ Len(q.bg) = 0 /\ q.bgEnabled /\ t.q.bg = f.line /\ Len(t.q.bg) = TileLen
    BY <1>1, <1>3, <1>7 DEF Loads
  <2>2. t.f.state \in {0, 8}
    BY <1>1, <1>7 DEF k, BgState
  <2>3. x + o = TileLen * n
    <3>1. x + Len(q.bg) = x
      BY <2>1
    <3> QED
      BY <1>4, <2>1, <3>1 DEF NextPos
  <2>4. f.line = TileLine(f.mode, n % MapTiles)
    BY <1>4, <2>1 DEF Fetches
  <2>5. \A i \in 1 .. Len(t.q.bg) : t.q.bg[i] = MapPixel(t.f.mode, x + i - 1)
    <3>1. ASSUME NEW i \in 1 .. TileLen PROVE TileLine(f.mode, n % MapTiles)[i] = MapPixel(f.mode, x + i - 1)
      BY <1>3, <2>3, TilePixels DEF o
    <3> QED
      BY <1>1, <2>1, <2>4, <3>1
  <2>6. TileColumn(t.f, scx) = (n + 1) % MapTiles
    <3>1. f.state = 7 => TileColumn(f, scx) = (n + 1) % MapTiles
      BY <1>4 DEF Fetches
    <3> QED
      BY <1>5, <1>6, <2>1, <3>1
  <2>7. Fetches(t.f, n + 1)
    BY <2>2, <2>6 DEF Fetches
  <2>8. NextPos(t.q, x) + Offset(t.f.mode) = TileLen * (n + 1)
    <3>1. NextPos(t.q, x) = x + TileLen /\ Offset(t.f.mode) = o
      BY <1>1, <2>1 DEF NextPos, o
    <3>2. TileLen * (n + 1) = TileLen * n + TileLen
      BY <1>3
    <3> QED
      BY <1>3, <2>3, <3>1, <3>2
  <2> QED
    BY <2>5, <2>7, <2>8 DEF Follows, t
<1>8. CASE ~Loads(f, q)
  <2>1. t.q.bg = q.bg /\ NextPos(t.q, x) = NextPos(q, x) /\ Offset(t.f.mode) = o
    BY <1>1, <1>8 DEF NextPos, o
  <2>2. t.f.state = IF f.state < 7 THEN f.state + 1 ELSE IF t.f.state = 0 THEN 0 ELSE f.state
    BY <1>1, <1>3, <1>8, NextStates DEF k, BgState
  <2>3. f.state \in {6, 7} => t.f.state = 7
    <3>1. f.state \in {6, 7} => k = 7
      BY <1>8, NextStates DEF k, BgState
    <3> QED
      BY <1>1, <3>1
  <2>4. Fetches(t.f, n)
    <3>1. TileColumn(t.f, scx) = (IF t.f.state = 7 THEN n + 1 ELSE n) % MapTiles
      <4>1. TileColumn(f, scx) = (IF f.state = 7 THEN n + 1 ELSE n) % MapTiles
        BY <1>4 DEF Fetches
      <4>2. CASE f.state \in {6, 7}
        <5>1. t.f.state = 7
          BY <2>3, <4>2
        <5> QED
          BY <1>5, <1>6, <4>1, <4>2, <5>1
      <4>3. CASE f.state \notin {6, 7}
        <5>1. t.f.state # 7
          BY <1>3, <2>2, <4>3
        <5> QED
          BY <1>5, <4>1, <4>3, <5>1
      <4> QED
        BY <4>2, <4>3
    <3>2. t.f.state \in 2 .. 7 => t.f.tileNum = n % MapTiles
      <4>1. t.f.state \in 2 .. 7 => f.state \in 1 .. 7
        BY <1>3, <2>2
      <4>2. f.state = 1 => TileColumn(f, scx) = n % MapTiles
        BY <1>4 DEF Fetches
      <4>3. f.state \in 2 .. 7 => f.tileNum = n % MapTiles
        BY <1>4 DEF Fetches
      <4> QED
        BY <1>2, <1>3, <4>1, <4>2, <4>3
    <3>3. t.f.state \in {6, 7} => t.f.line = TileLine(t.f.mode, n % MapTiles)
      <4>1. t.f.state \in {6, 7} => f.state \in {5, 6, 7}
        BY <1>3, <2>2
      <4>2. f.state = 5 => f.tileNum = n % MapTiles
        BY <1>4 DEF Fetches
      <4>3. f.state \in {6, 7} => f.line = TileLine(f.mode, n % MapTiles)
        BY <1>4 DEF Fetches
      <4> QED
        BY <1>1, <1>2, <4>1, <4>2, <4>3
    <3> QED
      BY <3>1, <3>2, <3>3 DEF Fetches
  <2>5. \A i \in 1 .. Len(q.bg) : q.bg[i] = MapPixel(f.mode, x + i - 1)
    BY DEF Follows
  <2> QED
    BY <1>1, <1>4, <2>1, <2>4, <2>5 DEF Follows, t
<1> QED
  BY <1>7, <1>8

(* A sprite's beginning leaves the background alone.                       *)
LEMMA StartFollows ==
  ASSUME NEW f, NEW q, NEW i, NEW x, Piped(f, q), Follows(f, q, x)
  PROVE  Follows(StartSprite(f, i), Lock(q), x)
<1> DEFINE g == StartSprite(f, i)
           r == Lock(q)
<1>1. /\ g.state = f.state /\ g.mode = f.mode /\ g.tileCnt = f.tileCnt
      /\ g.tileNum = f.tileNum /\ g.line = f.line /\ r.bg = q.bg /\ r.bgEnabled = q.bgEnabled
  BY DEF Piped, Paired, FetcherFields, QueueFields, StartSprite, Lock
<1> HIDE DEF g, r
<1>2. NextPos(r, x) = NextPos(q, x) /\ \A n \in Nat : Fetches(f, n) => Fetches(g, n)
  BY <1>1 DEF NextPos, Fetches, TileColumn
<1>3. Follows(g, r, x)
  <2>1. \A i_1 \in 1 .. Len(r.bg) : r.bg[i_1] = MapPixel(g.mode, x + i_1 - 1)
    BY <1>1 DEF Follows
  <2>2. PICK n \in Nat : NextPos(q, x) + Offset(f.mode) = TileLen * n /\ Fetches(f, n)
    BY DEF Follows
  <2> QED
    BY <1>1, <1>2, <2>1, <2>2 DEF Follows
<1> QED
  BY <1>3 DEF g, r

(* setMode and clear(false) at the window's first pixel: tile 0 is next.   *)
LEMMA WindowFollows ==
  ASSUME NEW f, NEW q, wx \in Nat, Piped(f, q), q.bgEnabled
  PROVE  Follows(EnterWindow(f), ClearBG(q), wx - 7)
<1> DEFINE g == EnterWindow(f)
           r == ClearBG(q)
<1>1. /\ g.state = 0 /\ g.mode = "win" /\ g.tileCnt = 0 /\ r.bg = <<>> /\ r.bgEnabled = q.bgEnabled
  BY Numbers DEF Piped, Paired, FetcherFields, QueueFields, EnterWindow, ClearBG
<1> HIDE DEF g, r
<1>2. NextPos(r, wx - 7) + Offset(g.mode) = TileLen * 0
  <2>1. Len(r.bg) = 0 /\ Offset(g.mode) = 7 - wx
    BY <1>1 DEF Offset
  <2>2. TileLen * 0 = 0
    BY Numbers
  <2> QED
    BY <1>1, <2>1, <2>2 DEF NextPos
<1>3. Fetches(g, 0)
  <2>1. TileColumn(g, scx) = (0 + 0) % MapTiles
    BY <1>1 DEF TileColumn
  <2> QED
    BY <1>1, <2>1 DEF Fetches
<1>4. Follows(g, r, wx - 7)
  <2>1. Len(r.bg) = 0
    BY <1>1
  <2> QED
    BY <1>2, <1>3, <2>1 DEF Follows
<1> QED
  BY <1>4 DEF g, r

(* What FIFO.tick takes from the background.                               *)
LEMMA PoppedBG ==
  ASSUME NEW q, NEW l, q = [y \in QueueFields |-> q[y]], ~q.locked
  PROVE  LET r == Popped(q, l)
         IN r.bgEnabled = q.bgEnabled /\ r.bg = IF q.bg = <<>> THEN <<>> ELSE Tail(q.bg)
<1>1. PopObj(q).bg = q.bg /\ PopObj(q).bgEnabled = q.bgEnabled
  BY DEF PopObj, QueueFields
<1>2. CASE q.bg = <<>>
  BY <1>1, <1>2 DEF Popped
<1>3. CASE q.bg # <<>>
  <2> DEFINE w == PopBG(q)
  <2>1. w = [y \in QueueFields |-> w[y]] /\ w.bg = Tail(q.bg) /\ w.bgEnabled = q.bgEnabled
    BY DEF PopBG, QueueFields
  <2> HIDE DEF w
  <2>2. PopObj(w).bg = w.bg /\ PopObj(w).bgEnabled = w.bgEnabled
    BY <2>1 DEF PopObj, QueueFields
  <2> QED
    BY <1>3, <2>1, <2>2 DEF Popped, w
<1> QED
  BY <1>2, <1>3

(* FIFO.tick: a pixel leaves, or nothing was let in yet.                   *)
LEMMA PoppedFollows ==
  ASSUME NEW f, NEW q, NEW l, NEW x \in Int, Piped(f, q), Follows(f, q, x), ~q.locked,
         q.bgEnabled <=> q.bg # <<>>
  PROVE  Follows(f, Popped(q, l), x + 1)
<1> DEFINE r == Popped(q, l)
<1>1. r.bgEnabled = q.bgEnabled /\ r.bg = IF q.bg = <<>> THEN <<>> ELSE Tail(q.bg)
  BY PoppedBG DEF Piped, Paired
<1> HIDE DEF r
<1>2. q.bg \in Seq(Pixel)
  BY DEF Piped
<1>3. NextPos(r, x + 1) = NextPos(q, x)
  <2>1. CASE q.bg = <<>>
    BY <1>1, <2>1 DEF NextPos
  <2>2. CASE q.bg # <<>>
    <3>1. Len(r.bg) = Len(q.bg) - 1 /\ Len(q.bg) \in Nat
      BY <1>1, <1>2, <2>2
    <3>2. NextPos(r, x + 1) = x + 1 + Len(r.bg) /\ NextPos(q, x) = x + Len(q.bg)
      BY <1>1, <2>2 DEF NextPos
    <3> DEFINE a == Len(r.bg)
               b == Len(q.bg)
    <3>3. x + 1 + a = x + b
      <4>1. a = b - 1 /\ b \in Nat
        BY <3>1
      <4> HIDE DEF a, b
      <4> QED
        BY <4>1
    <3> QED
      BY <3>2, <3>3
  <2> QED
    BY <2>1, <2>2
<1>4. ASSUME NEW i \in 1 .. Len(r.bg) PROVE r.bg[i] = MapPixel(f.mode, x + 1 + i - 1)
  <2>1. q.bg # <<>> /\ r.bg = Tail(q.bg)
    BY <1>1
  <2>2. i + 1 \in 1 .. Len(q.bg) /\ r.bg[i] = q.bg[i + 1]
    BY <1>2, <2>1
  <2>3. q.bg[i + 1] = MapPixel(f.mode, x + (i + 1) - 1)
    BY <2>2 DEF Follows
  <2>4. x + (i + 1) - 1 = x + 1 + i - 1
    OBVIOUS
  <2> QED
    BY <2>2, <2>3, <2>4
<1> QED
  BY <1>3, <1>4 DEF Follows, r

(* At the position that matches the scroll the pixels are let in.          *)
LEMMA EnabledFollows ==
  ASSUME NEW f, NEW q, Piped(f, q), Follows(f, q, -FineScroll), q.bg = <<>>, scx \in Nat
  PROVE  Follows(f, EnableBG(q), -FineScroll)
<1> DEFINE r == EnableBG(q)
           x == -FineScroll
<1>1. r.bg = <<>> /\ r.bgEnabled = TRUE
  BY DEF EnableBG, Piped, Paired, QueueFields
<1> HIDE DEF r
<1>2. Len(r.bg) = 0 /\ Len(q.bg) = 0 /\ x \in Int
  BY <1>1, ScrollIs, Numbers DEF FineScroll
<1> HIDE DEF x
<1>3. NextPos(r, x) = x /\ NextPos(q, x) = x
  BY <1>1, <1>2 DEF NextPos, x
<1> QED
  BY <1>2, <1>3 DEF Follows, x, r

(* After the resets the first tile of the line is next.                    *)
LEMMA ResetFollows ==
  ASSUME NEW x, scx \in Nat
  PROVE  Follows(FetcherReset, ResetQueue, x)
<1> DEFINE n == scx \div TileLen
<1>1. /\ FetcherReset.state = 0 /\ FetcherReset.mode = "bg" /\ FetcherReset.tileCnt = 0
      /\ ResetQueue.bg = <<>> /\ ResetQueue.bgEnabled = FALSE
  BY Numbers DEF FetcherReset, ResetQueue
<1>2. scx = TileLen * n + FineScroll /\ n \in Nat /\ FineScroll \in Int
  <2>1. TileLen \in Nat \ {0} /\ scx \in Int
    BY Numbers
  <2>2. scx = TileLen * n + (scx % TileLen) /\ n \in Int /\ scx % TileLen \in 0 .. TileLen - 1
    BY <2>1, Divided
  <2>3. n \in Nat
    BY <2>1
  <2> QED
    BY <2>1, <2>2, <2>3 DEF FineScroll
<1>3. TileColumn(FetcherReset, scx) = n % MapTiles
  <2>1. TileColumn(FetcherReset, scx) = (0 + n) % MapTiles
    BY <1>1 DEF TileColumn
  <2>2. 0 + n = n
    BY <1>2
  <2> QED
    BY <2>1, <2>2
<1> HIDE DEF n
<1>4. Fetches(FetcherReset, n)
  BY <1>1, <1>3 DEF Fetches
<1>5. NextPos(ResetQueue, x) + Offset(FetcherReset.mode) = TileLen * n
  <2>1. NextPos(ResetQueue, x) = -FineScroll /\ Offset(FetcherReset.mode) = scx
    BY <1>1 DEF NextPos, Offset
  <2>2. TileLen * n \in Int
    BY <1>2, Numbers
  <2> QED
    BY <1>2, <2>1, <2>2
<1>6. Len(ResetQueue.bg) = 0
  BY <1>1
<1> QED
  BY <1>2, <1>4, <1>5, <1>6 DEF Follows

-----------------------------------------------------------------------------
(* A sprite's line has the width of a tile.                                *)
LEMMA SpriteLineTyped ==
  ASSUME NEW o, NEW i \in Nat, o.below \in BOOLEAN
  PROVE  SpriteLine(o, i) \in Seq(Pixel) /\ Len(SpriteLine(o, i)) = TileLen
<1>1. TileLen \in Nat
  BY Numbers
<1>2. ASSUME NEW k \in 1 .. TileLen
      PROVE  LET j == IF o.xFlip THEN TileLen + 1 - k ELSE k
             IN [src |-> "obj", col |-> i * TileLen + j - 1, opaque |-> j \in o.opaque, below |-> o.below] \in Pixel
  <2> DEFINE j == IF o.xFlip THEN TileLen + 1 - k ELSE k
             c == i * TileLen + j - 1
  <2>1. c \in Int
    BY <1>1
  <2>2. (j \in o.opaque) \in BOOLEAN
    OBVIOUS
  <2> HIDE DEF j, c
  <2>3. [src |-> "obj", col |-> c, opaque |-> j \in o.opaque, below |-> o.below] \in Pixel
    BY <2>1, <2>2 DEF Pixel
  <2> QED
    BY <2>3 DEF j, c
<1>3. SpriteLine(o, i) \in [1 .. TileLen -> Pixel]
  BY <1>2 DEF SpriteLine
<1> HIDE DEF SpriteLine
<1> QED
  BY <1>1, <1>3, FunctionIsSeq

(* The objects among the first m with an opaque pixel at position x.       *)
Seen(m, x) == {j \in 1 .. m : Covers(j, x) /\ ObjectPixel(j, x).opaque}

(* o is the object pixel that m objects leave at x: the first opaque one.  *)
Tops(o, m, x) ==
  \/ Seen(m, x) = {} /\ o.opaque = FALSE
  \/ \E j \in Seen(m, x) : (\A k \in Seen(m, x) : j <= k) /\ o = ObjectPixel(j, x)

(* The queue holds the object pixels of m objects from position x on.      *)
Layered(q, m, x) ==
  /\ \A i \in 1 .. Len(q.obj) : Tops(q.obj[i], m, x + i - 1)
  /\ \A y \in Int : y >= x + Len(q.obj) => Seen(m, y) = {}

(* One more object, away from position y or transparent there.             *)
LEMMA SeenKept ==
  ASSUME NEW m \in Nat, NEW y, ~(Covers(m + 1, y) /\ ObjectPixel(m + 1, y).opaque)
  PROVE  Seen(m + 1, y) = Seen(m, y)
<1>1. \A j : j \in 1 .. m + 1 <=> j \in 1 .. m \/ j = m + 1
  OBVIOUS
<1> QED
  BY <1>1 DEF Seen

(* One more object with an opaque pixel at position y.                     *)
LEMMA SeenMore ==
  ASSUME NEW m \in Nat, NEW y, Covers(m + 1, y), ObjectPixel(m + 1, y).opaque
  PROVE  Seen(m + 1, y) = Seen(m, y) \cup {m + 1}
<1>1. \A j : j \in 1 .. m + 1 <=> j \in 1 .. m \/ j = m + 1
  OBVIOUS
<1> QED
  BY <1>1 DEF Seen

(* A pixel over nothing.                                                   *)
LEMMA FirstTop ==
  ASSUME NEW m \in Nat, NEW y, Covers(m + 1, y), ObjectPixel(m + 1, y).opaque \in BOOLEAN,
         Seen(m, y) = {}
  PROVE  Tops(ObjectPixel(m + 1, y), m + 1, y)
<1>1. CASE ObjectPixel(m + 1, y).opaque
  <2>1. Seen(m + 1, y) = {m + 1}
    BY <1>1, SeenMore
  <2> QED
    BY <2>1 DEF Tops
<1>2. CASE ~ObjectPixel(m + 1, y).opaque
  <2>1. Seen(m + 1, y) = {}
    BY <1>2, SeenKept
  <2> QED
    BY <1>2, <2>1 DEF Tops
<1> QED
  BY <1>1, <1>2

(* Mixed, the opaque pixel already there stays.                            *)
LEMMA MixedTop ==
  ASSUME NEW m \in Nat, NEW y, NEW old, Covers(m + 1, y), ObjectPixel(m + 1, y).opaque \in BOOLEAN,
         Tops(old, m, y)
  PROVE  Tops(Mixed(old, ObjectPixel(m + 1, y)), m + 1, y)
<1> DEFINE new == ObjectPixel(m + 1, y)
<1>1. CASE Seen(m, y) = {}
  <2>1. old.opaque = FALSE
    BY <1>1 DEF Tops
  <2>2. CASE new.opaque
    <3>1. Mixed(old, new) = new
      BY <2>1, <2>2 DEF Mixed
    <3> QED
      BY <1>1, <3>1, FirstTop
  <2>3. CASE ~new.opaque
    <3>1. Mixed(old, new) = old /\ Seen(m + 1, y) = {}
      BY <1>1, <2>3, SeenKept DEF Mixed
    <3> QED
      BY <2>1, <3>1 DEF Tops
  <2> QED
    BY <2>2, <2>3
<1>2. CASE Seen(m, y) # {}
  <2>1. PICK j \in Seen(m, y) : (\A k \in Seen(m, y) : j <= k) /\ old = ObjectPixel(j, y)
    BY <1>2 DEF Tops
  <2>2. old.opaque /\ j \in 1 .. m
    BY <2>1 DEF Seen
  <2>3. Mixed(old, new) = old
    BY <2>2 DEF Mixed
  <2>4. Seen(m + 1, y) \subseteq Seen(m, y) \cup {m + 1} /\ Seen(m, y) \subseteq Seen(m + 1, y)
    BY SeenKept, SeenMore
  <2>5. \A k \in Seen(m + 1, y) : j <= k
    BY <2>1, <2>2, <2>4
  <2> HIDE DEF new
  <2> QED
    BY <2>1, <2>3, <2>4, <2>5 DEF Tops, new
<1> QED
  BY <1>1, <1>2

(* PixelFIFO::mixSprite, pixel by pixel.                                   *)
LEMMA MixedPixels ==
  ASSUME NEW q, q = [y \in QueueFields |-> q[y]], q.obj \in Seq(Pixel),
         NEW line \in Seq(Pixel), Len(line) = TileLen
  PROVE  LET r == MixSprite(q, line)
             n == Len(q.obj)
             d == IF n > TileLen THEN n ELSE TileLen
         IN /\ r.obj \in Seq(Pixel) /\ Len(r.obj) = d
            /\ \A i \in 1 .. d :
                 r.obj[i] = IF i > n THEN line[i]
                            ELSE IF i > TileLen THEN q.obj[i] ELSE Mixed(q.obj[i], line[i])
<1> DEFINE n == Len(q.obj)
           d == IF n > TileLen THEN n ELSE TileLen
           w == [i \in 1 .. d |-> IF i > n THEN line[i]
                                  ELSE IF i > TileLen THEN q.obj[i] ELSE Mixed(q.obj[i], line[i])]
<1>1. n \in Nat /\ TileLen \in Nat /\ d \in Nat /\ d >= n /\ d >= TileLen /\ (d = n \/ d = TileLen)
  BY Numbers
<1>2. MixSprite(q, line).obj = w
  BY DEF MixSprite, QueueFields
<1> HIDE DEF n, d
<1>3. ASSUME NEW i \in 1 .. d PROVE w[i] \in Pixel
  <2>1. i \in 1 .. n \/ i > n
    BY <1>1
  <2>2. i > n => i \in 1 .. TileLen
    BY <1>1
  <2>3. i \in 1 .. n => q.obj[i] \in Pixel
    BY DEF n
  <2>4. i \in 1 .. TileLen => line[i] \in Pixel
    OBVIOUS
  <2>5. i > TileLen \/ i \in 1 .. TileLen
    BY <1>1
  <2> QED
    BY <2>1, <2>2, <2>3, <2>4, <2>5 DEF Mixed
<1>4. w \in [1 .. d -> Pixel]
  BY <1>3
<1>5. w \in Seq(Pixel) /\ Len(w) = d
  BY <1>1, <1>4, FunctionIsSeq
<1> QED
  BY <1>2, <1>5 DEF n, d

(* The sprite that begins at the queue's position is mixed in.             *)
LEMMA MixLayered ==
  ASSUME NEW q, q = [y \in QueueFields |-> q[y]], q.obj \in Seq(Pixel),
         NEW m \in Nat, NEW x \in Int, mFoundObjs[m + 1].x = x + TileLen,
         mFoundObjs[m + 1].below \in BOOLEAN
  PROVE  LET r == MixSprite(q, SpriteLine(mFoundObjs[m + 1], m + 1))
         IN r.obj \in Seq(Pixel) /\ (Layered(q, m, x) => Layered(r, m + 1, x))
<1> DEFINE line == SpriteLine(mFoundObjs[m + 1], m + 1)
           r == MixSprite(q, line)
           n == Len(q.obj)
           d == IF n > TileLen THEN n ELSE TileLen
<1>1. line \in Seq(Pixel) /\ Len(line) = TileLen
  <2> DEFINE i == m + 1
             o == mFoundObjs[m + 1]
  <2>1. i \in Nat /\ o.below \in BOOLEAN
    OBVIOUS
  <2> HIDE DEF i, o
  <2>2. SpriteLine(o, i) \in Seq(Pixel) /\ Len(SpriteLine(o, i)) = TileLen
    BY <2>1, SpriteLineTyped
  <2> QED
    BY <2>2 DEF i, o
<1>2. TileLen \in Nat \ {0} /\ n \in Nat
  BY Numbers
<1>3. \A y \in Int : Covers(m + 1, y) <=> y \in x .. x + TileLen - 1
  BY <1>2 DEF Covers
<1>4. ASSUME NEW k \in 1 .. TileLen
      PROVE  /\ ObjectPixel(m + 1, x + k - 1) = line[k] /\ Covers(m + 1, x + k - 1)
             /\ ObjectPixel(m + 1, x + k - 1).opaque \in BOOLEAN
  <2>1. x + k - 1 + TileLen - (x + TileLen) + 1 = k
    BY <1>2
  <2>2. ObjectPixel(m + 1, x + k - 1) = line[k]
    BY <2>1 DEF ObjectPixel
  <2>3. x + k - 1 \in x .. x + TileLen - 1
    BY <1>2
  <2>4. line[k].opaque \in BOOLEAN
    <3>1. line[k] \in Pixel
      BY <1>1
    <3> HIDE DEF line
    <3> QED
      BY <3>1 DEF Pixel
  <2> QED
    BY <1>3, <2>2, <2>3, <2>4
<1>5. /\ r.obj \in Seq(Pixel) /\ Len(r.obj) = d
      /\ \A i \in 1 .. d :
           r.obj[i] = IF i > n THEN line[i]
                      ELSE IF i > TileLen THEN q.obj[i] ELSE Mixed(q.obj[i], line[i])
  <2> HIDE DEF line
  <2> QED
    BY <1>1, MixedPixels
<1> HIDE DEF line, r
<1>6. ASSUME Layered(q, m, x), NEW i \in 1 .. Len(r.obj) PROVE Tops(r.obj[i], m + 1, x + i - 1)
  <2>1. i \in 1 .. d /\ x + i - 1 \in Int
    BY <1>2, <1>5
  <2>2. CASE i > n
    <3>1. i \in 1 .. TileLen /\ x + i - 1 >= x + n
      BY <1>2, <2>1, <2>2
    <3>2. Seen(m, x + i - 1) = {}
      BY <1>6, <2>1, <3>1 DEF Layered
    <3>3. r.obj[i] = ObjectPixel(m + 1, x + i - 1)
      BY <1>4, <1>5, <2>1, <2>2, <3>1
    <3> QED
      BY <1>4, <3>1, <3>2, <3>3, FirstTop
  <2>3. CASE ~(i > n) /\ i > TileLen
    <3>1. i \in 1 .. n /\ r.obj[i] = q.obj[i]
      <4>1. i \in 1 .. n
        BY <1>2, <2>1, <2>3
      <4>2. r.obj[i] = IF i > n THEN line[i]
                       ELSE IF i > TileLen THEN q.obj[i] ELSE Mixed(q.obj[i], line[i])
        BY <1>5, <2>1
      <4> QED
        BY <2>3, <4>1, <4>2
    <3>2. ~Covers(m + 1, x + i - 1)
      BY <1>2, <1>3, <2>1, <2>3
    <3>3. Seen(m + 1, x + i - 1) = Seen(m, x + i - 1)
      BY <3>2, SeenKept
    <3> QED
      BY <1>6, <3>1, <3>3 DEF Layered, Tops
  <2>4. CASE ~(i > n) /\ ~(i > TileLen)
    <3>1. i \in 1 .. n /\ i \in 1 .. TileLen /\ r.obj[i] = Mixed(q.obj[i], line[i])
      <4>1. i \in 1 .. n /\ i \in 1 .. TileLen
        BY <1>2, <2>1, <2>4
      <4>2. r.obj[i] = IF i > n THEN line[i]
                       ELSE IF i > TileLen THEN q.obj[i] ELSE Mixed(q.obj[i], line[i])
        BY <1>5, <2>1
      <4> QED
        BY <2>4, <4>1, <4>2
    <3>2. Tops(q.obj[i], m, x + i - 1)
      BY <1>6, <3>1 DEF Layered
    <3>3. r.obj[i] = Mixed(q.obj[i], ObjectPixel(m + 1, x + i - 1))
      BY <1>4, <3>1
    <3> QED
      BY <1>4, <3>1, <3>2, <3>3, MixedTop
  <2> QED
    BY <2>2, <2>3, <2>4
<1>7. ASSUME Layered(q, m, x), NEW y \in Int, y >= x + Len(r.obj) PROVE Seen(m + 1, y) = {}
  <2>1. y >= x + n /\ y >= x + TileLen
    BY <1>2, <1>5, <1>7
  <2>2. ~Covers(m + 1, y)
    BY <1>2, <1>3, <2>1
  <2>3. Seen(m + 1, y) = Seen(m, y)
    BY <2>2, SeenKept
  <2> QED
    BY <1>7, <2>1, <2>3 DEF Layered
<1> QED
  BY <1>5, <1>6, <1>7 DEF Layered, r, line

(* The line's objects, in order of position.                               *)
Listed ==
  /\ mNumObjs \in Nat
  /\ \A j \in 1 .. mNumObjs : mFoundObjs[j] \in ObjEntry
  /\ \A i, j \in 1 .. mNumObjs : i < j => mFoundObjs[i].x <= mFoundObjs[j].x

(* cur objects have been started, the pending one at position x; the       *)
(* others begin no earlier.                                                *)
Started(f, cur, x) ==
  /\ cur \in 0 .. mNumObjs
  /\ f.sprite # NoSprite => f.sprite = cur /\ mFoundObjs[cur].x = x + TileLen
  /\ lcdc.obj => \A j \in cur + 1 .. mNumObjs : mFoundObjs[j].x >= x + TileLen

(* The objects whose pixels are in the queue.                              *)
MixedIn(f, cur) == IF f.sprite = NoSprite THEN cur ELSE cur - 1

(* The queue holds the line's pixels from position x on, of background and *)
(* objects.                                                                *)
Composed(f, q, cur, x) ==
  /\ Follows(f, q, x) /\ Started(f, cur, x)
  /\ q.obj \in Seq(Pixel)
  /\ lcdc.obj => Layered(q, MixedIn(f, cur), x)

(* The fields of an object's entry.                                        *)
LEMMA EntryFields ==
  ASSUME Listed, NEW j \in 1 .. mNumObjs
  PROVE  mFoundObjs[j].x \in Nat /\ mFoundObjs[j].below \in BOOLEAN
BY DEF Listed, ObjEntry

(* A call of Fetcher::tick.                                                *)
LEMMA TickComposed ==
  ASSUME NEW f, NEW q, NEW cur, NEW x \in Int, scx \in Nat, wx \in Nat,
         Piped(f, q), Listed, Composed(f, q, cur, x)
  PROVE  LET t == FetcherTick(f, q, scx, mFoundObjs)
         IN Composed(t.f, t.q, cur, x)
<1> DEFINE t == FetcherTick(f, q, scx, mFoundObjs)
<1>1. Follows(t.f, t.q, x)
  BY TickFollows DEF Composed
<1>2. t.f.sprite = f.sprite \/ (f.sprite # NoSprite /\ t.f.sprite = NoSprite)
  <2> DEFINE k == BgState(f, q)
             ends == k >= 5 /\ f.spriteState = 5
  <2>1. /\ Piped(t.f, t.q) /\ t.f.mode = f.mode /\ t.q.bgEnabled = q.bgEnabled
        /\ t.q.bg = IF Loads(f, q) THEN f.line ELSE q.bg
        /\ f.sprite = NoSprite => t.f.sprite = NoSprite /\ t.f.state = k
        /\ f.sprite # NoSprite /\ ~ends =>
             /\ t.f.sprite = f.sprite /\ t.f.state = k
             /\ t.f.spriteState = IF k >= 5 THEN f.spriteState + 1 ELSE f.spriteState
        /\ f.sprite # NoSprite /\ ends =>
             t.f.sprite = NoSprite /\ t.f.state = IF k = 8 THEN 0 ELSE k
    BY TickIs
  <2> HIDE DEF t, k, ends
  <2> QED
    BY <2>1
<1>3. Reads(f, q, scx, mFoundObjs, t)
  BY TickReads
<1> HIDE DEF t
<1>4. /\ cur \in 0 .. mNumObjs /\ mNumObjs \in Nat /\ TileLen \in Nat
      /\ q = [y \in QueueFields |-> q[y]] /\ q.obj \in Seq(Pixel)
  BY Numbers DEF Composed, Started, Listed, Piped, Paired
<1>5. CASE t.f.sprite = f.sprite
  <2>1. t.q.obj = q.obj
    BY <1>3, <1>5 DEF Reads
  <2>2. Started(t.f, cur, x)
    BY <1>5 DEF Composed, Started
  <2>3. MixedIn(t.f, cur) = MixedIn(f, cur)
    BY <1>5 DEF MixedIn
  <2>4. \A m : Layered(q, m, x) => Layered(t.q, m, x)
    BY <2>1 DEF Layered
  <2> QED
    BY <1>1, <2>1, <2>2, <2>3, <2>4 DEF Composed, t
<1>6. CASE f.sprite # NoSprite /\ t.f.sprite = NoSprite
  <2> DEFINE m == cur - 1
  <2>1. f.sprite = cur /\ mFoundObjs[cur].x = x + TileLen /\ cur # 0
    BY <1>6 DEF Composed, Started, NoSprite
  <2>2. m \in Nat /\ m + 1 = cur /\ cur \in 1 .. mNumObjs
    BY <1>4, <2>1
  <2> DEFINE r == MixSprite(q, SpriteLine(mFoundObjs[m + 1], m + 1))
  <2>3. t.q.obj = r.obj
    BY <1>3, <1>6, <2>1, <2>2 DEF Reads
  <2>4. mFoundObjs[m + 1].below \in BOOLEAN /\ mFoundObjs[m + 1].x = x + TileLen
    BY <2>1, <2>2, EntryFields
  <2> HIDE DEF m
  <2>5. r.obj \in Seq(Pixel) /\ (Layered(q, m, x) => Layered(r, m + 1, x))
    BY <1>4, <2>2, <2>4, MixLayered
  <2> HIDE DEF r
  <2>6. Layered(r, m + 1, x) => Layered(t.q, m + 1, x)
    BY <2>3 DEF Layered
  <2>7. MixedIn(t.f, cur) = m + 1 /\ MixedIn(f, cur) = m
    BY <1>6, <2>2 DEF MixedIn, m
  <2>8. Started(t.f, cur, x)
    BY <1>6 DEF Composed, Started
  <2> QED
    BY <1>1, <2>3, <2>5, <2>6, <2>7, <2>8 DEF Composed, t
<1> QED
  BY <1>2, <1>5, <1>6

(* startSprite and lock, for the next object at the queue's position.      *)
LEMMA StartComposed ==
  ASSUME NEW f, NEW q, NEW cur, mLineXPos \in Int,
         Piped(f, q), Listed, Composed(f, q, cur, mLineXPos), f.sprite = NoSprite, ObjectHere(cur)
  PROVE  Composed(StartSprite(f, cur + 1), Lock(q), cur + 1, mLineXPos)
<1> DEFINE g == StartSprite(f, cur + 1)
           r == Lock(q)
           x == mLineXPos
<1>1. /\ cur \in Nat /\ cur < mNumObjs /\ mNumObjs \in Nat /\ TileLen \in Nat /\ x \in Int
      /\ mFoundObjs[cur + 1].x = x + TileLen
  BY Numbers DEF Composed, Started, Listed, ObjectHere
<1>2. Follows(g, r, x)
  BY StartFollows DEF Composed
<1>3. g.sprite = cur + 1 /\ r.obj = q.obj
  BY DEF Piped, Paired, FetcherFields, QueueFields, StartSprite, Lock
<1> HIDE DEF g, r
<1>4. Started(g, cur + 1, x)
  <2>1. cur + 1 \in 0 .. mNumObjs
    BY <1>1
  <2>2. lcdc.obj => \A j \in (cur + 1) + 1 .. mNumObjs : mFoundObjs[j].x >= x + TileLen
    <3>1. \A j \in (cur + 1) + 1 .. mNumObjs : j \in cur + 1 .. mNumObjs
      BY <1>1
    <3> QED
      BY <3>1 DEF Composed, Started
  <2> QED
    BY <1>1, <1>3, <2>1, <2>2 DEF Started
<1>5. MixedIn(g, cur + 1) = cur /\ MixedIn(f, cur) = cur
  BY <1>1, <1>3 DEF MixedIn, NoSprite
<1>6. Layered(q, cur, x) => Layered(r, cur, x)
  BY <1>3 DEF Layered
<1> QED
  BY <1>2, <1>3, <1>4, <1>5, <1>6 DEF Composed, g, r

(* The fetcher's part of a cycle, with the sprite it ends or starts.       *)
LEMMA FetchedComposed ==
  ASSUME mLineXPos \in Int, scx \in Nat, wx \in Nat, Listed, Piped(mFetcher, mFIFO),
         Composed(mFetcher, mFIFO, mCurObj, mLineXPos)
  PROVE  Composed(Fetched.f, Fetched.q, Fetched.cur, mLineXPos)
<1> DEFINE x == mLineXPos
<1>1. ASSUME NEW f, NEW q, NEW cur, Piped(f, q), Composed(f, q, cur, x)
      PROVE  Composed(Tick(f, q).f, Tick(f, q).q, cur, x)
  BY <1>1, TickComposed DEF Tick
<1>2. CASE mFetcher.sprite # NoSprite
  <2> DEFINE t == Tick(mFetcher, mFIFO)
  <2>1. Composed(t.f, t.q, mCurObj, x)
    BY <1>1
  <2>2. Piped(t.f, t.q)
    <3> DEFINE u == FetcherTick(mFetcher, mFIFO, scx, mFoundObjs)
    <3>1. Piped(u.f, u.q)
      BY TickIs
    <3> QED
      BY <3>1 DEF Tick
  <2> HIDE DEF t
  <2>3. Fetched = IF Chained(t.f)
              THEN [f |-> StartSprite(t.f, mCurObj + 1), q |-> Lock(t.q),
                    cur |-> mCurObj + 1, eaten |-> TRUE]
              ELSE [f |-> t.f, q |-> t.q, cur |-> mCurObj, eaten |-> FALSE]
    BY <1>2 DEF Fetched, t
  <2>4. Chained(t.f) => Composed(StartSprite(t.f, mCurObj + 1), Lock(t.q), mCurObj + 1, x)
    BY <2>1, <2>2, StartComposed DEF Chained
  <2> QED
    BY <2>1, <2>3, <2>4
<1>3. CASE mFetcher.sprite = NoSprite /\ ObjectHere(mCurObj)
  <2> DEFINE g == StartSprite(mFetcher, mCurObj + 1)
             r == Lock(mFIFO)
             t == Tick(g, r)
  <2>1. Composed(g, r, mCurObj + 1, x)
    BY <1>3, StartComposed
  <2>2. Piped(g, r)
    <3> DEFINE i == mCurObj + 1
    <3>1. Paired(mFetcher, mFIFO) /\ i \in Nat \ {0} /\ i # NoSprite
      BY DEF Composed, Started, Listed, Piped, NoSprite
    <3> HIDE DEF i
    <3>2. Paired(StartSprite(mFetcher, i), Lock(mFIFO))
      BY <3>1, StartPaired
    <3> DEFINE h == StartSprite(mFetcher, i)
               w == Lock(mFIFO)
    <3>3. /\ h.state = mFetcher.state /\ h.mode = mFetcher.mode /\ h.tileCnt = mFetcher.tileCnt
          /\ h.tileNum = mFetcher.tileNum /\ h.line = mFetcher.line /\ w.bg = mFIFO.bg
          /\ h.sprite = i /\ h.spriteState = 0
      BY <3>1, Numbers DEF StartSprite, Lock, Paired, FetcherFields, QueueFields
    <3>5. Paired(h, w)
      BY <3>2
    <3> HIDE DEF h, w
    <3>6. Piped(h, w)
      BY <3>1, <3>3, <3>5 DEF Piped
    <3>4. Piped(StartSprite(mFetcher, i), Lock(mFIFO))
      BY <3>6 DEF h, w
    <3> QED
      BY <3>4 DEF i
  <2> HIDE DEF g, r
  <2>3. Composed(t.f, t.q, mCurObj + 1, x)
    BY <1>1, <2>1, <2>2
  <2>4. Fetched = [f |-> t.f, q |-> t.q, cur |-> mCurObj + 1, eaten |-> FALSE]
    BY <1>3 DEF Fetched, g, r
  <2> HIDE DEF t
  <2> QED
    BY <2>3, <2>4
<1>4. CASE mFetcher.sprite = NoSprite /\ ~ObjectHere(mCurObj)
  <2> DEFINE t == Tick(mFetcher, mFIFO)
  <2>1. Composed(t.f, t.q, mCurObj, x)
    BY <1>1
  <2>2. Fetched = [f |-> t.f, q |-> t.q, cur |-> mCurObj, eaten |-> FALSE]
    BY <1>4 DEF Fetched
  <2> HIDE DEF t
  <2> QED
    BY <2>1, <2>2
<1> QED
  BY <1>2, <1>3, <1>4

(* When a pixel may leave, no object begins at it, and on the line's own   *)
(* background there is one.                                                *)
LEMMA ReadyIs ==
  ASSUME TileLen >= 7, Numeric, CleanLine, Ready(Fetched)
  PROVE  /\ ~ObjectHere(mCurObj)
         /\ Fetched.f.mode = "bg" /\ Fetched.q.bgEnabled => Fetched.q.bg # <<>>
<1> DEFINE t == Tick(mFetcher, mFIFO)
<1>1. Piped(mFetcher, mFIFO) /\ Steady(mFetcher, mFIFO) /\ mCurObj \in Nat /\ scx \in Nat
  BY DEF CleanLine, Numeric
<1>2. Fetched.cur = mCurObj /\ ~Fetched.eaten /\ Fetched.f.sprite = NoSprite /\ Fetched.f.mode = mFetcher.mode
  BY DEF Ready
<1>3. CASE mFetcher.sprite # NoSprite
  <2>1. /\ t.f.sprite = NoSprite => t.q.bg # <<>> \/ ~t.q.bgEnabled
    <3> DEFINE u == FetcherTick(mFetcher, mFIFO, scx, mFoundObjs)
    <3>1. /\ Steady(u.f, u.q) /\ Owed(mFetcher, mFIFO) \in Nat
          /\ u.f.sprite # NoSprite => Owed(u.f, u.q) = Owed(mFetcher, mFIFO) - 1
          /\ u.f.sprite = NoSprite =>
               /\ u.f.state \in {0, 6, 7} /\ (u.f.state = 0 => Owed(mFetcher, mFIFO) >= 1) /\ Lead(u.f, u.q, 7)
               /\ u.q.bg # <<>> \/ ~u.q.bgEnabled
      BY <1>1, <1>3, SpriteTick
    <3> HIDE DEF u
    <3>2. u.f.sprite = NoSprite => u.q.bg # <<>> \/ ~u.q.bgEnabled
      BY <3>1
    <3> QED
      BY <3>2 DEF Tick, u
  <2> HIDE DEF t
  <2>2. Fetched = IF Chained(t.f)
              THEN [f |-> StartSprite(t.f, mCurObj + 1), q |-> Lock(t.q),
                    cur |-> mCurObj + 1, eaten |-> TRUE]
              ELSE [f |-> t.f, q |-> t.q, cur |-> mCurObj, eaten |-> FALSE]
    BY <1>3 DEF Fetched, t
  <2>3. Fetched.f = t.f /\ Fetched.q = t.q /\ ~Chained(t.f)
    BY <1>2, <2>2
  <2> QED
    BY <1>2, <2>1, <2>3 DEF Chained
<1>4. CASE mFetcher.sprite = NoSprite /\ ObjectHere(mCurObj)
  <2>1. Fetched.cur = mCurObj + 1
    BY <1>4 DEF Fetched
  <2> QED
    BY <1>1, <1>2, <2>1
<1>5. CASE mFetcher.sprite = NoSprite /\ ~ObjectHere(mCurObj)
  <2> DEFINE o == Owed(mFetcher, mFIFO)
             o2 == Owed(Fetched.f, Fetched.q)
  <2>1. mFetcher.mode = "bg" => o = 0
    BY <1>5 DEF Owed
  <2>2. Fetched.q.bg = <<>> /\ Fetched.q.bgEnabled => o2 + 1 <= o
    BY DEF Ready
  <2>3. mFetcher.mode = "bg" => o2 = 0
    BY <1>2 DEF Owed
  <2> HIDE DEF o, o2
  <2> QED
    BY <1>2, <1>5, <2>1, <2>2, <2>3
<1> QED
  BY <1>3, <1>4, <1>5

(* The mode is the window's from the window's first pixel on.              *)
InMode(f, x) == lcdc.win => IF f.mode = "win" THEN x >= wx - 7 ELSE x <= wx - 7

(* What a transfer of an untouched line keeps of its pixels.               *)
LineInv ==
  /\ Listed /\ Composed(mFetcher, mFIFO, mCurObj, mLineXPos)
  /\ InMode(mFetcher, mLineXPos) /\ mLineXPos < Width

(* The cycle with the window's beginning in it.                            *)
LEMMA WindowedComposed ==
  ASSUME TileLen >= 7, Numeric, CleanLine, LineInv, mMode3DelayCycles = 0,
         wx \in Nat, lcdc.win => wx >= 7
  PROVE  /\ Composed(Windowed.f, Windowed.q, Windowed.cur, mLineXPos)
         /\ InMode(Windowed.f, mLineXPos)
         /\ ~Windowed.eaten => Windowed = Fetched /\ ~WindowHere(Windowed.f)
<1> DEFINE p == Fetched
           x == mLineXPos
<1>1. x \in Int /\ scx \in Nat /\ Piped(mFetcher, mFIFO)
  BY DEF Numeric, CleanLine
<1>2. Composed(p.f, p.q, p.cur, x)
  BY <1>1, FetchedComposed DEF LineInv
<1>3. Kept(p) /\ p.f.mode = mFetcher.mode
  BY FetchedIs DEF Waits, Ready
<1>4. p = [y \in {"f", "q", "cur", "eaten"} |-> p[y]]
  BY DEF Fetched
<1>5. Windowed = IF ~p.eaten /\ WindowHere(p.f)
       THEN [p EXCEPT !.f = EnterWindow(@), !.q = ClearBG(@), !.eaten = TRUE]
       ELSE p
  BY DEF Windowed
<1> HIDE DEF p
<1>6. CASE ~(~p.eaten /\ WindowHere(p.f))
  <2>1. Windowed = p
    BY <1>5, <1>6
  <2>2. InMode(p.f, x)
    BY <1>3 DEF LineInv, InMode
  <2> QED
    BY <1>2, <1>6, <2>1, <2>2 DEF p
<1>7. CASE ~p.eaten /\ WindowHere(p.f)
  <2> DEFINE g == EnterWindow(p.f)
             r == ClearBG(p.q)
  <2>1. Windowed.f = g /\ Windowed.q = r /\ Windowed.cur = p.cur /\ Windowed.eaten
    BY <1>4, <1>5, <1>7
  <2>2. Piped(p.f, p.q) /\ Paired(p.f, p.q)
    BY <1>3 DEF Kept, Piped
  <2>3. x = wx - 7 /\ wx >= 7
    BY <1>1, <1>3, <1>7 DEF WindowHere, LineInv, InMode
  <2>4. p.q.bgEnabled
    <3>1. FineScroll \in Nat
      BY <1>1, ScrollIs, Numbers DEF FineScroll
    <3>2. x >= -FineScroll
      BY <2>3, <3>1
    <3> QED
      BY <1>3, <3>2 DEF Kept, CleanLine
  <2>5. Follows(g, r, x)
    BY <2>2, <2>3, <2>4, WindowFollows
  <2>6. g.sprite = p.f.sprite /\ r.obj = p.q.obj /\ g.mode = "win"
    BY <2>2 DEF EnterWindow, ClearBG, Paired, FetcherFields, QueueFields
  <2> HIDE DEF g, r
  <2>7. Started(g, p.cur, x) /\ MixedIn(g, p.cur) = MixedIn(p.f, p.cur)
    BY <1>2, <2>6 DEF Composed, Started, MixedIn
  <2>8. \A m : Layered(p.q, m, x) => Layered(r, m, x)
    BY <2>6 DEF Layered
  <2>9. Composed(g, r, p.cur, x)
    BY <1>2, <2>5, <2>6, <2>7, <2>8 DEF Composed
  <2>10. InMode(g, x)
    BY <1>1, <2>3, <2>6 DEF InMode
  <2> QED
    BY <2>1, <2>9, <2>10
<1> QED
  BY <1>6, <1>7

(* What is known when a pixel leaves the queue.                            *)
Drawable(p) ==
  /\ Piped(p.f, p.q) /\ Composed(p.f, p.q, mCurObj, mLineXPos) /\ p.f.sprite = NoSprite
  /\ p.cur = mCurObj /\ ~ObjectHere(mCurObj)
  /\ p.f.mode = mFetcher.mode /\ p.q.bgEnabled = mFIFO.bgEnabled
  /\ lcdc.win => (p.f.mode = "win" <=> mLineXPos >= wx - 7)
  /\ ~p.q.locked /\ (p.q.bgEnabled <=> p.q.bg # <<>>)

(* A cycle that is not stalled has its pixel ready.                        *)
LEMMA ShiftDrawable ==
  ASSUME TileLen >= 7, Numeric, CleanLine, LineInv, mMode3DelayCycles = 0,
         wx \in Nat, lcdc.win => wx >= 7, ~Stalled(Windowed)
  PROVE  Drawable(Windowed)
<1> DEFINE p == Windowed
           x == mLineXPos
<1>1. x \in Int /\ scx \in Nat /\ wx \in Int
  BY DEF Numeric
<1>2. Composed(p.f, p.q, p.cur, x) /\ InMode(p.f, x) /\ (~p.eaten => p = Fetched /\ ~WindowHere(p.f))
  BY WindowedComposed
<1>3. Kept(p) /\ (Held(p) \/ Ready(p))
  BY WindowedIs
<1>4. ~p.eaten /\ ~p.q.locked /\ ~(p.q.bg = <<>> /\ x >= 0) /\ Ready(p)
  BY <1>3 DEF Stalled, Held
<1>5. ~ObjectHere(mCurObj) /\ (p.f.mode = "bg" /\ p.q.bgEnabled => p.q.bg # <<>>)
  BY <1>2, <1>4, ReadyIs
<1> HIDE DEF p
<1>6. /\ p.f.sprite = NoSprite /\ p.cur = mCurObj /\ p.f.mode = mFetcher.mode
      /\ Piped(p.f, p.q) /\ Steady(p.f, p.q) /\ p.q.bgEnabled = mFIFO.bgEnabled
      /\ p.f.mode \in {"bg", "win"}
  BY <1>3, <1>4 DEF Ready, Kept, Piped
<1>7. p.f.mode = "win" => lcdc.win /\ x >= wx - 7
  BY <1>2, <1>6 DEF CleanLine, InMode
<1>8. lcdc.win => (p.f.mode = "win" <=> x >= wx - 7)
  BY <1>2, <1>4, <1>7 DEF WindowHere
<1>9. p.q.bgEnabled <=> p.q.bg # <<>>
  <2>1. ~p.q.bgEnabled => p.q.bg = <<>>
    BY <1>6 DEF Steady
  <2>2. p.f.mode = "win" => x >= 0
    BY <1>1, <1>7
  <2> QED
    BY <1>4, <1>5, <1>6, <2>1, <2>2
<1> QED
  BY <1>2, <1>4, <1>5, <1>6, <1>8, <1>9 DEF Drawable, p

(* What FIFO.tick takes from the objects.                                  *)
LEMMA PoppedObj ==
  ASSUME NEW q, NEW l, q = [y \in QueueFields |-> q[y]], q.obj \in Seq(Pixel), ~q.locked
  PROVE  LET r == Popped(q, l)
         IN /\ r.obj \in Seq(Pixel) /\ r = [y \in QueueFields |-> r[y]]
            /\ l.obj => r.obj = IF q.obj = <<>> THEN <<>> ELSE Tail(q.obj)
<1>1. ASSUME NEW w, w = [y \in QueueFields |-> w[y]]
      PROVE  /\ PopObj(w).obj = IF w.obj = <<>> THEN <<>> ELSE Tail(w.obj)
             /\ PopObj(w) = [y \in QueueFields |-> PopObj(w)[y]]
  BY <1>1 DEF PopObj, QueueFields
<1>2. q.obj # <<>> => Tail(q.obj) \in Seq(Pixel)
  OBVIOUS
<1> DEFINE b == PopBG(q)
<1>3. b = [y \in QueueFields |-> b[y]] /\ b.obj = q.obj
  BY DEF PopBG, QueueFields
<1> HIDE DEF b
<1>4. Popped(q, l) = IF q.bg = <<>> THEN PopObj(q) ELSE IF l.obj THEN PopObj(b) ELSE b
  BY DEF Popped, b
<1>5. CASE q.bg = <<>>
  BY <1>1, <1>2, <1>4, <1>5
<1>6. CASE q.bg # <<>> /\ l.obj
  BY <1>1, <1>2, <1>3, <1>4, <1>6
<1>7. CASE q.bg # <<>> /\ ~l.obj
  BY <1>2, <1>3, <1>4, <1>7
<1> QED
  BY <1>5, <1>6, <1>7

(* The object pixels after one of them has left.                           *)
LEMMA TailLayered ==
  ASSUME NEW q, NEW r, NEW m, NEW x \in Int, q.obj \in Seq(Pixel),
         r.obj = IF q.obj = <<>> THEN <<>> ELSE Tail(q.obj), Layered(q, m, x)
  PROVE  Layered(r, m, x + 1)
<1>1. CASE q.obj = <<>>
  <2>1. Len(r.obj) = 0 /\ Len(q.obj) = 0
    BY <1>1
  <2>2. ASSUME NEW y \in Int, y >= x + 1 + Len(r.obj) PROVE Seen(m, y) = {}
    <3> DEFINE k == Len(r.obj)
               n == Len(q.obj)
    <3>1. y >= x + n
      <4>1. k = 0 /\ n = 0 /\ y >= x + 1 + k
        BY <2>1, <2>2
      <4> HIDE DEF k, n
      <4> QED
        BY <4>1
    <3> QED
      BY <3>1 DEF Layered
  <2>3. 1 .. Len(r.obj) = {}
    BY <2>1
  <2> QED
    BY <2>2, <2>3 DEF Layered
<1>2. CASE q.obj # <<>>
  <2> DEFINE n == Len(q.obj)
             k == Len(r.obj)
  <2>1. n \in Nat /\ k = n - 1 /\ \A i \in 1 .. k : i + 1 \in 1 .. n /\ r.obj[i] = q.obj[i + 1]
    BY <1>2
  <2> HIDE DEF n, k
  <2>2. ASSUME NEW i \in 1 .. k PROVE Tops(r.obj[i], m, x + 1 + i - 1)
    <3>1. Tops(q.obj[i + 1], m, x + (i + 1) - 1)
      BY <2>1 DEF Layered, n
    <3>2. x + (i + 1) - 1 = x + 1 + i - 1
      BY <2>1
    <3> QED
      BY <2>1, <3>1, <3>2
  <2>3. ASSUME NEW y \in Int, y >= x + 1 + k PROVE Seen(m, y) = {}
    <3>1. y >= x + n
      BY <2>1, <2>3
    <3> QED
      BY <3>1 DEF Layered, n
  <2> QED
    BY <2>2, <2>3 DEF Layered, k
<1> QED
  BY <1>1, <1>2

(* The objects not yet started begin after the pixel that leaves.          *)
LEMMA OthersLater ==
  ASSUME Numeric, Listed, NEW f, Started(f, mCurObj, mLineXPos), lcdc.obj, ~ObjectHere(mCurObj)
  PROVE  \A j \in mCurObj + 1 .. mNumObjs : mFoundObjs[j].x >= mLineXPos + 1 + TileLen
<1> SUFFICES ASSUME NEW j \in mCurObj + 1 .. mNumObjs
             PROVE  mFoundObjs[j].x >= mLineXPos + 1 + TileLen
  OBVIOUS
<1> DEFINE i == mCurObj + 1
           a == mFoundObjs[i].x
           b == mFoundObjs[j].x
<1>1. mLineXPos \in Int /\ TileLen \in Nat /\ mCurObj \in Nat /\ mNumObjs \in Nat
  BY Numbers DEF Numeric, Listed
<1>2. i \in 1 .. mNumObjs /\ j \in 1 .. mNumObjs /\ i \in mCurObj + 1 .. mNumObjs /\ mCurObj < mNumObjs
  BY <1>1
<1>3. a \in Nat /\ b \in Nat
  BY <1>2, EntryFields
<1>4. a >= mLineXPos + TileLen
  BY <1>2 DEF Started
<1>5. a # mLineXPos + TileLen
  BY <1>2 DEF ObjectHere
<1>6. a <= b
  <2>1. i < j \/ i = j
    BY <1>1
  <2>2. i < j => a <= b
    BY <1>2 DEF Listed
  <2> HIDE DEF i
  <2>3. i = j => a = b
    OBVIOUS
  <2> HIDE DEF a, b
  <2> QED
    BY <1>3, <2>1, <2>2, <2>3
<1> HIDE DEF a, b
<1>7. b >= mLineXPos + 1 + TileLen
  BY <1>1, <1>3, <1>4, <1>5, <1>6
<1> QED
  BY <1>7 DEF b

(* FIFO.tick: what is queued then follows from the next position on.       *)
LEMMA PoppedComposed ==
  ASSUME Numeric, Listed, NEW p, Drawable(p)
  PROVE  Composed(p.f, Popped(p.q, lcdc), mCurObj, mLineXPos + 1)
<1> DEFINE r == Popped(p.q, lcdc)
           x == mLineXPos
           m == MixedIn(p.f, mCurObj)
<1>1. x \in Int
  BY DEF Numeric
<1>2. /\ Piped(p.f, p.q) /\ Composed(p.f, p.q, mCurObj, x) /\ p.f.sprite = NoSprite
      /\ ~ObjectHere(mCurObj) /\ ~p.q.locked /\ (p.q.bgEnabled <=> p.q.bg # <<>>)
  BY DEF Drawable
<1>3. Follows(p.f, r, x + 1)
  BY <1>1, <1>2, PoppedFollows DEF Composed
<1>4. r.obj \in Seq(Pixel) /\ (lcdc.obj => r.obj = IF p.q.obj = <<>> THEN <<>> ELSE Tail(p.q.obj))
  BY <1>2, PoppedObj DEF Composed, Piped, Paired
<1> HIDE DEF r, m
<1>5. Started(p.f, mCurObj, x + 1)
  <2>1. Started(p.f, mCurObj, x)
    BY <1>2 DEF Composed
  <2>2. lcdc.obj => \A j \in mCurObj + 1 .. mNumObjs : mFoundObjs[j].x >= x + 1 + TileLen
    BY <1>2, <2>1, OthersLater
  <2> QED
    BY <1>2, <2>1, <2>2 DEF Started
<1>6. lcdc.obj => Layered(r, m, x + 1)
  <2>1. lcdc.obj => Layered(p.q, m, x) /\ p.q.obj \in Seq(Pixel)
    BY <1>2 DEF Composed, m
  <2> QED
    BY <1>1, <1>4, <2>1, TailLayered
<1> QED
  BY <1>3, <1>4, <1>5, <1>6 DEF Composed, r, m

(* The background pixel at the head of the queue is the reference's.       *)
LEMMA HeadBackground ==
  ASSUME Width <= Columns, Numeric, wx \in Nat, lcdc.win => wx >= 7, NEW p, Drawable(p),
         mLineXPos >= 0, mLineXPos < Width, p.f.mode = "win" => lcdc.win, p.q.bg # <<>>
  PROVE  Filtered(Head(p.q.bg), lcdc) = Background(mLineXPos)
<1> DEFINE x == mLineXPos
           m == p.f.mode
<1>1. x \in Nat /\ scx \in Nat /\ wx \in Nat /\ Columns \in Nat \ {0} /\ Width \in Nat
  BY Numbers, WidthAssumption DEF Numeric, Columns
<1>2. Head(p.q.bg) = MapPixel(m, x)
  <2>1. p.q.bg \in Seq(Pixel) /\ p.q.bg # <<>>
    BY DEF Drawable, Piped
  <2>2. Head(p.q.bg) = p.q.bg[1] /\ 1 \in 1 .. Len(p.q.bg)
    BY <2>1
  <2>3. p.q.bg[1] = MapPixel(m, x + 1 - 1)
    BY <2>2 DEF Drawable, Composed, Follows
  <2>4. x + 1 - 1 = x
    BY <1>1
  <2> QED
    BY <2>2, <2>3, <2>4
<1>3. m \in {"bg", "win"} /\ (m = "win" <=> InWindow(x))
  BY DEF Drawable, Piped, InWindow
<1> HIDE DEF m
<1> DEFINE c == IF InWindow(x) THEN x - (wx - 7) ELSE (scx + x) % Columns
<1>4. (x + Offset(m)) % Columns = c
  <2>1. CASE m = "win"
    <3> DEFINE a == x - (wx - 7)
    <3>1. lcdc.win /\ x >= wx - 7 /\ wx >= 7
      BY <1>3, <2>1 DEF InWindow
    <3>2. a \in 0 .. Columns - 1 /\ x + (7 - wx) = a
      BY <1>1, <3>1
    <3>3. x + Offset(m) = a /\ c = a
      BY <1>3, <2>1, <3>2 DEF Offset
    <3> HIDE DEF a, c
    <3>4. (Columns * 0 + a) % Columns = a
      BY <1>1, <3>2, Remainder
    <3>5. Columns * 0 + a = a
      BY <1>1, <3>2
    <3> QED
      BY <3>3, <3>4, <3>5
  <2>2. CASE m = "bg"
    <3>1. Offset(m) = scx /\ ~InWindow(x)
      BY <1>3, <2>2 DEF Offset
    <3>2. x + scx = scx + x
      BY <1>1
    <3> QED
      BY <3>1, <3>2
  <2> QED
    BY <1>3, <2>1, <2>2
<1> HIDE DEF c
<1>5. MapPixel(m, x) = [src |-> m, col |-> c, opaque |-> c \in OpaqueCols, below |-> FALSE]
  BY <1>4 DEF MapPixel
<1>6. Background(x) = Filtered([src |-> IF InWindow(x) THEN "win" ELSE "bg", col |-> c,
                                opaque |-> c \in OpaqueCols, below |-> FALSE], lcdc)
  BY DEF Background, c
<1>7. m = IF InWindow(x) THEN "win" ELSE "bg"
  BY <1>3
<1> QED
  BY <1>2, <1>5, <1>6, <1>7

(* The objects not yet started do not reach the pixel that leaves.         *)
LEMMA OpaqueSeen ==
  ASSUME Numeric, Listed, NEW f, Started(f, mCurObj, mLineXPos), lcdc.obj, ~ObjectHere(mCurObj)
  PROVE  Opaque(mLineXPos) = Seen(mCurObj, mLineXPos)
<1> DEFINE x == mLineXPos
<1>1. x \in Int /\ TileLen \in Nat /\ mCurObj \in Nat /\ mNumObjs \in Nat /\ mCurObj <= mNumObjs
  BY Numbers DEF Numeric, Listed, Started
<1>2. ASSUME NEW j \in 1 .. mNumObjs, Covers(j, x) PROVE j \in 1 .. mCurObj
  <2> DEFINE b == mFoundObjs[j].x
  <2>1. b \in Nat
    BY EntryFields
  <2>2. j \in mCurObj + 1 .. mNumObjs => b >= x + 1 + TileLen
    BY OthersLater
  <2>3. x + TileLen >= b
    BY <1>1, <1>2, <2>1 DEF Covers
  <2> HIDE DEF b
  <2>4. ~(b >= x + 1 + TileLen)
    BY <1>1, <2>1, <2>3
  <2>5. j \notin mCurObj + 1 .. mNumObjs
    BY <2>2, <2>4
  <2> QED
    BY <1>1, <2>5
<1>3. \A j \in 1 .. mCurObj : j \in 1 .. mNumObjs
  BY <1>1
<1> QED
  BY <1>2, <1>3 DEF Opaque, Seen

(* The reference in terms of the objects seen.                             *)
LEMMA ReferenceIs ==
  ASSUME NEW x, NEW j \in Opaque(x), \A k \in Opaque(x) : j <= k, lcdc.obj, Opaque(x) \subseteq Nat
  PROVE  Reference(x) = IF ObjectPixel(j, x).below /\ Background(x).opaque
                          THEN Background(x) ELSE ObjectPixel(j, x)
<1> DEFINE first == CHOOSE i \in Opaque(x) : \A k \in Opaque(x) : i <= k
<1>1. first \in Opaque(x) /\ \A k \in Opaque(x) : first <= k
  OBVIOUS
<1>2. first = j
  <2>1. first <= j /\ j <= first /\ first \in Nat /\ j \in Nat
    BY <1>1
  <2> HIDE DEF first
  <2> QED
    BY <2>1
<1>3. Reference(x) = LET o == ObjectPixel(first, x)
                     IN IF o.below /\ Background(x).opaque THEN Background(x) ELSE o
  BY DEF Reference
<1> QED
  BY <1>2, <1>3

(* The pixel that leaves is the one the reference has at its position.     *)
LEMMA DrawnIs ==
  ASSUME Width <= Columns, Numeric, Listed, wx \in Nat, lcdc.win => wx >= 7, NEW p, Drawable(p),
         mLineXPos >= 0, mLineXPos < Width, p.f.mode = "win" => lcdc.win, p.q.bg # <<>>
  PROVE  Shown(p.q, lcdc) = Reference(mLineXPos)
<1> DEFINE x == mLineXPos
           q == p.q
           b == Background(x)
           o == Head(q.obj)
<1>1. Filtered(Head(q.bg), lcdc) = b
  BY HeadBackground
<1>2. Shown(q, lcdc) = IF q.obj # <<>> /\ lcdc.obj /\ ObjectWins(o, b) THEN o ELSE b
  BY <1>1 DEF Shown
<1>3. /\ x \in Int /\ q.obj \in Seq(Pixel) /\ Started(p.f, mCurObj, x) /\ ~ObjectHere(mCurObj)
      /\ lcdc.obj => Layered(q, mCurObj, x)
  BY DEF Numeric, Drawable, Composed, MixedIn
<1>4. CASE ~lcdc.obj
  BY <1>2, <1>4 DEF Reference
<1>5. CASE lcdc.obj
  <2>1. Opaque(x) = Seen(mCurObj, x)
    BY <1>3, <1>5, OpaqueSeen
  <2>2. Opaque(x) = {} => Reference(x) = b
    BY DEF Reference
  <2>3. CASE q.obj = <<>>
    <3>1. Seen(mCurObj, x) = {}
      <4> DEFINE n == Len(q.obj)
      <4>1. n = 0
        BY <2>3
      <4> HIDE DEF n
      <4>2. x >= x + n
        BY <1>3, <4>1
      <4> QED
        BY <1>3, <1>5, <4>2 DEF Layered, n
    <3> QED
      BY <1>2, <2>1, <2>2, <2>3, <3>1
  <2>4. CASE q.obj # <<>>
    <3>1. Tops(o, mCurObj, x)
      <4>1. o = q.obj[1] /\ 1 \in 1 .. Len(q.obj)
        BY <1>3, <2>4
      <4>2. Tops(q.obj[1], mCurObj, x + 1 - 1)
        BY <1>3, <1>5, <4>1 DEF Layered
      <4>3. x + 1 - 1 = x
        BY <1>3
      <4> HIDE DEF o, q, x
      <4> QED
        BY <4>1, <4>2, <4>3
    <3> HIDE DEF o, b, q
    <3>2. CASE Seen(mCurObj, x) = {}
      <4>1. o.opaque = FALSE
        BY <3>1, <3>2 DEF Tops
      <4>2. ~ObjectWins(o, b)
        BY <4>1 DEF ObjectWins
      <4>3. Reference(x) = b
        BY <2>1, <2>2, <3>2
      <4> QED
        BY <1>2, <4>2, <4>3 DEF q
    <3>3. CASE Seen(mCurObj, x) # {}
      <4>1. PICK j \in Seen(mCurObj, x) : (\A k \in Seen(mCurObj, x) : j <= k) /\ o = ObjectPixel(j, x)
        BY <3>1, <3>3 DEF Tops
      <4>2. o.opaque
        BY <4>1 DEF Seen
      <4>3. Opaque(x) \subseteq Nat
        BY DEF Opaque
      <4>4. Reference(x) = IF o.below /\ b.opaque THEN b ELSE o
        <5>1. Reference(x) = IF ObjectPixel(j, x).below /\ Background(x).opaque
                               THEN Background(x) ELSE ObjectPixel(j, x)
          BY <1>5, <2>1, <4>1, <4>3, ReferenceIs
        <5> QED
          BY <4>1, <5>1 DEF b
      <4>5. ObjectWins(o, b) <=> ~(o.below /\ b.opaque)
        BY <4>2 DEF ObjectWins
      <4> QED
        BY <1>2, <1>5, <2>4, <4>4, <4>5 DEF q
    <3> QED
      BY <3>2, <3>3
  <2> QED
    BY <2>3, <2>4
<1> QED
  BY <1>4, <1>5

(* With the registers left alone the reference stays what it was.          *)
LEMMA ReferenceKept ==
  ASSUME UNCHANGED config, NEW x, (out.x)' = x
  PROVE  Reference(out.x)' = Reference(x)
<1>1. scx' = scx /\ wx' = wx /\ lcdc' = lcdc /\ mNumObjs' = mNumObjs /\ mFoundObjs' = mFoundObjs
  BY DEF config
<1>2. Background(out.x)' = Background(x)
  BY <1>1 DEF Background, InWindow
<1>3. \A i : ObjectPixel(i, out.x)' = ObjectPixel(i, x)
  BY <1>1 DEF ObjectPixel
<1>4. Opaque(out.x)' = Opaque(x)
  BY <1>1, <1>3 DEF Opaque, Covers
<1>5. lcdc'.obj = lcdc.obj
  BY <1>1
<1> QED
  BY <1>2, <1>3, <1>4, <1>5 DEF Reference

(* A line whose registers are left alone, after a step.                    *)
LEMMA LineKept ==
  ASSUME UNCHANGED config, NEW f, NEW q, NEW cur, NEW x,
         mFetcher' = f, mFIFO' = q, mCurObj' = cur, mLineXPos' = x,
         Listed, Composed(f, q, cur, x), InMode(f, x), x < Width
  PROVE  LineInv'
<1>1. scx' = scx /\ wx' = wx /\ lcdc' = lcdc /\ mNumObjs' = mNumObjs /\ mFoundObjs' = mFoundObjs
  BY DEF config
<1>2. Listed'
  BY <1>1 DEF Listed
<1>3. Follows(mFetcher, mFIFO, mLineXPos)'
  <2>1. Follows(f, q, x)
    BY DEF Composed
  <2> QED
    BY <1>1, <2>1 DEF Follows, MapPixel, Offset, NextPos, Fetches, FineScroll
<1>4. Started(mFetcher, mCurObj, mLineXPos)'
  <2>1. Started(f, cur, x)
    BY DEF Composed
  <2> QED
    BY <1>1, <2>1 DEF Started
<1>5. (lcdc.obj => Layered(mFIFO, MixedIn(mFetcher, mCurObj), mLineXPos))'
  <2>1. lcdc.obj => Layered(q, MixedIn(f, cur), x)
    BY DEF Composed
  <2> DEFINE m == MixedIn(f, cur)
  <2>2. MixedIn(mFetcher, mCurObj)' = m
    BY DEF MixedIn
  <2> HIDE DEF m
  <2>3. lcdc.obj => Layered(q, m, x)
    BY <2>1 DEF m
  <2> QED
    BY <1>1, <2>2, <2>3 DEF Layered, Tops, Seen, Covers, ObjectPixel
<1>6. (mFIFO.obj \in Seq(Pixel))' /\ (mLineXPos < Width)'
  BY DEF Composed, Pixel
<1>7. InMode(mFetcher, mLineXPos)'
  BY <1>1 DEF InMode
<1> QED
  BY <1>2, <1>3, <1>4, <1>5, <1>6, <1>7 DEF LineInv, Composed

(* After the resets the next line's first tile is next.                    *)
LEMMA ResetFollowsLater == (scx \in Nat => \A x \in Int : Follows(FetcherReset, ResetQueue, x))'
<1>1. scx \in Nat => \A x \in Int : Follows(FetcherReset, ResetQueue, x)
  BY ResetFollows
<1> QED
  BY <1>1, PTL

(* The inductive invariant of PixelCorrect.                                *)
PixelInv ==
  /\ wx \in Nat /\ PixelCorrect
  /\ clean /\ mode = "xfer" /\ (lcdc.win => wx >= 7) => LineInv

(* The machine is switched on with no line under way.                      *)
LEMMA InitPixel == Init => PixelInv
BY WxAssumption DEF Init, PixelInv, PixelCorrect

(* With nothing new drawn the last pixel stays right.                      *)
LEMMA CorrectKept ==
  ASSUME PixelCorrect, UNCHANGED <<config, clean>>, out' = out \/ out' = Nothing
  PROVE  PixelCorrect'
<1>1. CASE out' = Nothing
  BY <1>1 DEF PixelCorrect, Nothing
<1>2. CASE out' = out
  <2> DEFINE x == out.x
  <2>1. Nothing' = Nothing /\ lcdc' = lcdc /\ wx' = wx /\ clean' = clean
    BY DEF Nothing, config
  <2>2. (out.x)' = x
    BY <1>2
  <2> HIDE DEF x
  <2>3. Reference(out.x)' = Reference(x)
    BY <2>2, ReferenceKept
  <2> QED
    BY <1>2, <2>1, <2>3 DEF PixelCorrect, x
<1> QED
  BY <1>1, <1>2

(* A line begins with the queue empty.                                     *)
LEMMA StartLinePixel == ASSUME Numeric', StartLine PROVE PixelInv'
<1>1. PICK l \in Lines :
        /\ mNumObjs' = Len(l.objs) /\ mFoundObjs' = FoundObjs(l.objs)
        /\ scx' = l.scx /\ wx' = l.wx /\ lcdc' = l.lcdc
  BY DEF StartLine
<1>2. /\ mCurObj' = 0 /\ mLineXPos' = -TileLen /\ out' = Nothing
      /\ mFetcher' = mFetcher /\ mFIFO' = mFIFO
      /\ clean' = (mFetcher = FetcherReset /\ mFIFO = ResetQueue)
  BY DEF StartLine
<1>3. wx' \in Nat /\ l.objs \in Seq(ObjEntry) /\ TileLen \in Nat \ {0} /\ Width \in Nat
  BY <1>1, WxAssumption, ObjEntriesAssumption, WidthAssumption, Numbers
<1>4. PixelCorrect'
  BY <1>2 DEF PixelCorrect, Nothing
<1>5. ASSUME clean', lcdc'.win => wx' >= 7 PROVE LineInv'
  <2> DEFINE n == Len(l.objs)
  <2>1. mFetcher' = FetcherReset /\ mFIFO' = ResetQueue /\ mFetcher = FetcherReset
    BY <1>2, <1>5
  <2>2. n \in Nat /\ \A j \in 1 .. n : l.objs[j] \in ObjEntry /\ l.objs[j].x \in Nat
    <3>1. n \in Nat /\ \A j \in 1 .. n : l.objs[j] \in ObjEntry
      BY <1>3
    <3>2. \A o \in ObjEntry : o.x \in Nat
      BY DEF ObjEntry
    <3> QED
      BY <3>1, <3>2
  <2>3. mFoundObjs' = l.objs /\ mNumObjs' = n
    <3>1. mFetcher.sprite = 0
      BY <2>1 DEF FetcherReset, NoSprite
    <3>2. ~(mFetcher.sprite > n)
      BY <2>2, <3>1
    <3> QED
      BY <1>1, <3>2 DEF FoundObjs
  <2> HIDE DEF n
  <2>4. Listed'
    <3>1. \A i, j \in 1 .. n : i < j => l.objs[i].x <= l.objs[j].x
      BY ObjListsAssumption DEF n
    <3> QED
      BY <2>2, <2>3, <3>1 DEF Listed
  <2>5. Follows(mFetcher, mFIFO, mLineXPos)'
    <3>1. scx' \in Nat /\ mLineXPos' \in Int
      BY DEF Numeric
    <3>2. \A x \in Int : Follows(FetcherReset, ResetQueue, x)'
      BY <3>1, ResetFollowsLater
    <3>3. Follows(FetcherReset, ResetQueue, mLineXPos)'
      BY <3>1, <3>2 DEF Follows, NextPos
    <3> QED
      BY <2>1, <3>3 DEF Follows, NextPos, FetcherReset, ResetQueue
  <2>6. mFetcher'.sprite = NoSprite /\ mFetcher'.mode = "bg" /\ mFIFO'.obj = <<>>
    BY <2>1 DEF FetcherReset, ResetQueue
  <2>7. Started(mFetcher, mCurObj, mLineXPos)'
    <3>1. \A j \in 1 .. n : l.objs[j].x >= -TileLen + TileLen
      BY <1>3, <2>2
    <3>2. 0 \in 0 .. n
      BY <2>2
    <3> QED
      BY <1>2, <2>3, <2>6, <3>1, <3>2 DEF Started
  <2>8. Layered(mFIFO, MixedIn(mFetcher, mCurObj), mLineXPos)'
    <3>1. MixedIn(mFetcher, mCurObj)' = 0 /\ Len(mFIFO'.obj) = 0
      BY <1>2, <2>6 DEF MixedIn
    <3>2. \A y : Seen(0, y)' = {}
      BY DEF Seen
    <3> QED
      BY <3>1, <3>2 DEF Layered, Seen
  <2>9. InMode(mFetcher, mLineXPos)' /\ (mLineXPos < Width)'
    <3>1. lcdc'.win => -TileLen <= wx' - 7
      <4>1. \A t, w \in Nat : w >= 7 => -t <= w - 7
        OBVIOUS
      <4> QED
        BY <1>3, <1>5, <4>1
    <3>2. -TileLen < Width
      BY <1>3, WidthAssumption
    <3> QED
      BY <1>2, <2>6, <3>1, <3>2 DEF InMode
  <2>10. (mFIFO.obj \in Seq(Pixel))'
    BY <2>6 DEF Pixel
  <2> QED
    BY <2>4, <2>5, <2>7, <2>8, <2>9, <2>10 DEF LineInv, Composed
<1> QED
  BY <1>3, <1>4, <1>5 DEF PixelInv

(* The fetcher runs ahead.                                                 *)
LEMMA DelayPixel == ASSUME BudgetInv, PixelInv, Delay PROVE PixelInv'
<1> DEFINE t == FetcherTick(mFetcher, mFIFO, scx, mFoundObjs)
           x == mLineXPos
<1>1. /\ mode = "xfer" /\ mFetcher' = t.f /\ mFIFO' = t.q /\ mCurObj' = mCurObj /\ mLineXPos' = x
      /\ out' = out
      /\ UNCHANGED <<config, clean>>
  BY DEF Delay
<1>2. PixelCorrect' /\ wx' \in Nat
  BY <1>1, CorrectKept DEF PixelInv, config
<1>3. ASSUME clean', lcdc'.win => wx' >= 7 PROVE LineInv'
  <2>1. clean /\ (lcdc.win => wx >= 7)
    BY <1>1, <1>3 DEF config
  <2>2. LineInv /\ CleanLine /\ Numeric /\ wx \in Nat
    BY <1>1, <2>1 DEF PixelInv, BudgetInv
  <2>3. Listed /\ Composed(mFetcher, mFIFO, mCurObj, x) /\ InMode(mFetcher, x) /\ x < Width
        /\ x \in Int /\ scx \in Nat /\ Piped(mFetcher, mFIFO)
    BY <2>2 DEF LineInv, Numeric, CleanLine
  <2>4. Composed(t.f, t.q, mCurObj, x)
    BY <2>2, <2>3, TickComposed
  <2>5. t.f.mode = mFetcher.mode
    BY <2>3, TickIs
  <2>6. InMode(t.f, x)
    BY <2>3, <2>5 DEF InMode
  <2> HIDE DEF t
  <2> QED
    BY <1>1, <2>3, <2>4, <2>6, LineKept
<1> QED
  BY <1>2, <1>3 DEF PixelInv

(* A cycle without a pixel.                                                *)
LEMMA EatenPixel == ASSUME TileLen >= 7, BudgetInv, PixelInv, DotEaten PROVE PixelInv'
<1> DEFINE p == Windowed
           x == mLineXPos
<1>1. /\ mode = "xfer" /\ mMode3DelayCycles = 0
      /\ mFetcher' = p.f /\ mFIFO' = p.q /\ mCurObj' = p.cur /\ mLineXPos' = x
      /\ out' = Nothing
      /\ UNCHANGED <<config, clean>>
  BY DEF DotEaten
<1>2. PixelCorrect' /\ wx' \in Nat
  BY <1>1, CorrectKept DEF PixelInv, config
<1>3. ASSUME clean', lcdc'.win => wx' >= 7 PROVE LineInv'
  <2>1. clean /\ (lcdc.win => wx >= 7)
    BY <1>1, <1>3 DEF config
  <2>2. LineInv /\ CleanLine /\ Numeric /\ wx \in Nat
    BY <1>1, <2>1 DEF PixelInv, BudgetInv
  <2>3. Composed(p.f, p.q, p.cur, x) /\ InMode(p.f, x)
    BY <1>1, <2>1, <2>2, WindowedComposed
  <2>4. Listed /\ x < Width
    BY <2>2 DEF LineInv
  <2> HIDE DEF p
  <2> QED
    BY <1>1, <2>3, <2>4, LineKept
<1> QED
  BY <1>2, <1>3 DEF PixelInv

(* A pixel leaves the queue, and on the way the queue may be enabled.      *)
LEMMA ShiftedPixel ==
  ASSUME TileLen >= 7, Width <= Columns, BudgetInv, PixelInv, DotShifted
  PROVE  PixelInv'
<1> DEFINE p == Windowed
           q == Popped(p.q, lcdc)
           r == IF AtScroll(mLineXPos + 1) THEN EnableBG(q) ELSE q
           x == mLineXPos
<1>1. /\ mode = "xfer" /\ mMode3DelayCycles = 0 /\ ~Stalled(p)
      /\ mCurObj' = p.cur /\ mLineXPos' = x + 1
      /\ out' = IF x >= 0 THEN [x |-> x, pix |-> Shown(p.q, lcdc)] ELSE Nothing
      /\ UNCHANGED <<config, clean>>
      /\ mode' = "xfer" => x + 1 # Width /\ mFetcher' = p.f /\ mFIFO' = r
  BY DEF DotShifted
<1>2. wx' = wx /\ lcdc' = lcdc /\ clean' = clean /\ wx \in Nat
  BY <1>1 DEF config, PixelInv
<1>3. CASE ~(clean /\ (lcdc.win => wx >= 7))
  BY <1>2, <1>3 DEF PixelInv, PixelCorrect
<1>4. CASE clean /\ (lcdc.win => wx >= 7)
  <2>1. LineInv /\ CleanLine /\ Numeric
    BY <1>1, <1>4 DEF PixelInv, BudgetInv
  <2>2. Listed /\ x < Width /\ x \in Int /\ scx \in Nat /\ Width \in Nat /\ InMode(mFetcher, x)
    BY <2>1, WidthAssumption DEF LineInv, Numeric
  <2>3. Drawable(p)
    BY <1>1, <1>2, <1>4, <2>1, ShiftDrawable
  <2> HIDE DEF p
  <2>4. /\ Piped(p.f, p.q) /\ p.cur = mCurObj /\ p.f.mode = mFetcher.mode
        /\ p.q.bgEnabled = mFIFO.bgEnabled /\ (p.q.bgEnabled <=> p.q.bg # <<>>) /\ ~p.q.locked
        /\ lcdc.win => (p.f.mode = "win" <=> x >= wx - 7)
    BY <2>3 DEF Drawable
  <2>5. PixelCorrect'
    <3>1. CASE ~(x >= 0)
      BY <1>1, <3>1 DEF PixelCorrect, Nothing
    <3>2. CASE x >= 0
      <4>1. p.f.mode = "win" => lcdc.win
        BY <2>1, <2>4 DEF CleanLine
      <4>2. p.q.bg # <<>>
        <5>1. FineScroll \in Nat
          BY <2>2, ScrollIs, Numbers DEF FineScroll
        <5>2. x >= -FineScroll
          BY <2>2, <3>2, <5>1
        <5> QED
          BY <2>1, <2>4, <5>2 DEF CleanLine
      <4>3. Shown(p.q, lcdc) = Reference(x)
        BY <1>2, <1>4, <2>1, <2>2, <2>3, <3>2, <4>1, <4>2, DrawnIs
      <4>4. out'.x = x /\ out'.pix = Shown(p.q, lcdc)
        BY <1>1, <3>2
      <4>5. Reference(out.x)' = Reference(x)
        BY <1>1, <4>4, ReferenceKept
      <4> QED
        BY <4>3, <4>4, <4>5 DEF PixelCorrect
    <3> QED
      BY <3>1, <3>2
  <2>6. ASSUME mode' = "xfer" PROVE LineInv'
    <3>1. Composed(p.f, q, mCurObj, x + 1)
      BY <2>1, <2>2, <2>3, PoppedComposed
    <3>2. Composed(p.f, r, mCurObj, x + 1)
      <4>1. CASE ~AtScroll(x + 1)
        BY <3>1, <4>1
      <4>2. CASE AtScroll(x + 1)
        <5>1. x + 1 = -FineScroll
          BY <4>2 DEF AtScroll
        <5>2. FineScroll \in Nat
          BY <2>2, ScrollIs, Numbers DEF FineScroll
        <5>3. ~p.q.bgEnabled
          <6>1. ~(x >= -FineScroll)
            BY <2>2, <5>1, <5>2
          <6> QED
            BY <2>1, <2>4, <6>1 DEF CleanLine
        <5>4. q = [y \in QueueFields |-> q[y]] /\ q.bg = <<>> /\ q.bgEnabled = p.q.bgEnabled
          BY <2>3, <2>4, <5>3, PoppedBG, PoppedObj DEF Drawable, Composed, Piped, Paired
        <5> HIDE DEF q
        <5> DEFINE w == EnableBG(q)
        <5>5. w.obj = q.obj /\ w.locked = q.locked /\ w.bg = q.bg /\ w = [y \in QueueFields |-> w[y]]
          BY <5>4 DEF EnableBG, QueueFields
        <5>6. Piped(p.f, q)
          <6>1. p.q.bg = <<>> /\ Paired(p.f, p.q)
            BY <2>4, <5>3 DEF Piped
          <6>2. q = PopObj(p.q)
            BY <2>4, <6>1 DEF q, Popped
          <6>3. PopObj(p.q).locked = p.q.locked
            BY <6>1 DEF PopObj, Paired, QueueFields
          <6>4. Paired(p.f, q)
            BY <5>4, <6>1, <6>2, <6>3 DEF Paired
          <6>5. <<>> \in Seq(Pixel)
            OBVIOUS
          <6> QED
            BY <2>4, <5>4, <6>4, <6>5 DEF Piped
        <5>7. Follows(p.f, w, x + 1)
          <6>1. Follows(p.f, q, -FineScroll)
            BY <3>1, <5>1 DEF Composed
          <6> QED
            BY <2>2, <5>1, <5>4, <5>6, <6>1, EnabledFollows
        <5> HIDE DEF w
        <5>8. \A m : Layered(q, m, x + 1) => Layered(w, m, x + 1)
          BY <5>5 DEF Layered
        <5>9. Composed(p.f, w, mCurObj, x + 1)
          BY <3>1, <5>5, <5>7, <5>8 DEF Composed
        <5> QED
          BY <4>2, <5>9 DEF w
      <4> QED
        BY <4>1, <4>2
    <3>3. InMode(p.f, x + 1)
      <4>1. wx \in Int /\ x \in Int
        BY <1>2, <2>2
      <4> QED
        BY <2>4, <4>1 DEF InMode
    <3>4. x + 1 < Width
      BY <1>1, <2>2, <2>6
    <3>5. mFetcher' = p.f /\ mFIFO' = r /\ mCurObj' = mCurObj /\ mLineXPos' = x + 1 /\ UNCHANGED config
      BY <1>1, <2>4, <2>6
    <3> DEFINE z == x + 1
    <3>6. Composed(p.f, r, mCurObj, z) /\ InMode(p.f, z) /\ z < Width /\ mLineXPos' = z
      BY <3>2, <3>3, <3>4, <3>5
    <3> HIDE DEF z, r
    <3> QED
      BY <2>2, <3>5, <3>6, LineKept
  <2> QED
    BY <1>2, <2>5, <2>6 DEF PixelInv
<1> QED
  BY <1>3, <1>4

(* Every pixel of the queue stays in its place.                            *)
LEMMA NextPixel ==
  ASSUME TileLen >= 7, Width <= Columns, BudgetInv, BudgetInv', PixelInv, [Next]_vars
  PROVE  PixelInv'
<1>1. CASE StartLine
  BY <1>1, StartLinePixel DEF BudgetInv
<1>2. CASE Delay
  BY <1>2, DelayPixel
<1>3. CASE DotEaten
  BY <1>3, EatenPixel
<1>4. CASE DotShifted
  BY <1>4, ShiftedPixel
<1>5. CASE WriteSCX \/ WriteWX \/ WriteLCDC
  <2>1. wx' \in Nat /\ clean' = FALSE
    BY <1>5, WxAssumption DEF WriteSCX, WriteWX, WriteLCDC, PixelInv
  <2> QED
    BY <2>1 DEF PixelInv, PixelCorrect
<1>6. CASE LcdOn \/ LcdOff
  <2>1. UNCHANGED <<config, clean>> /\ (out' = out \/ out' = Nothing) /\ mode' # "xfer" /\ wx' = wx
    BY <1>6 DEF LcdOn, LcdOff, config
  <2> QED
    BY <2>1, CorrectKept DEF PixelInv
<1>7. CASE UNCHANGED vars
  <2>1. /\ UNCHANGED <<config, clean>> /\ out' = out /\ mode' = mode /\ wx' = wx /\ lcdc' = lcdc /\ clean' = clean
        /\ mFetcher' = mFetcher /\ mFIFO' = mFIFO /\ mCurObj' = mCurObj /\ mLineXPos' = mLineXPos
    BY <1>7 DEF vars, pipe, config
  <2>2. LineInv => LineInv'
    BY <2>1, LineKept DEF LineInv
  <2> QED
    BY <2>1, <2>2, CorrectKept DEF PixelInv
<1> QED
  BY <1>1, <1>2, <1>3, <1>4, <1>5, <1>6, <1>7 DEF Next, Dot

(* On a line whose registers are left alone every pixel drawn is the one   *)
(* the reference puts there, whatever the scroll, the window's place and   *)
(* the objects. The code's tiles are 8 pixels, its screen 160 and its map  *)
(* 256.                                                                    *)
THEOREM PixelCorrectHolds ==
  ASSUME TileLen >= 7, Width <= Columns
  PROVE  Spec => []PixelCorrect
<1>1. Init => IInv /\ BudgetInv /\ PixelInv
  BY InitInv, InitBudget, InitPixel
<1>2. IInv /\ BudgetInv /\ PixelInv /\ [Next]_vars => (IInv /\ BudgetInv /\ PixelInv)'
  BY NextInv, NextBudget, NextPixel
<1>3. PixelInv => PixelCorrect
  BY DEF PixelInv
<1> QED
  BY <1>1, <1>2, <1>3, PTL DEF Spec
-----------------------------------------------------------------------------
(* Fetcher and queue within their sizes, the sprite one of the entries.    *)
Sized(f, q) ==
  /\ Piped(f, q)
  /\ Len(q.bg) <= TileLen /\ q.obj \in Seq(Pixel) /\ Len(q.obj) <= TileLen
  /\ f.sprite \in 0 .. Len(mFoundObjs)

(* Counters and lists within their ranges.                                 *)
Ranges ==
  /\ mode \in {"search", "xfer", "hblank", "off"} /\ clean \in BOOLEAN
  /\ mLineXPos \in -TileLen .. Width /\ (mode = "xfer" => mLineXPos < Width)
  /\ mMode3DelayCycles \in 0 .. TileLen - 1
  /\ mFoundObjs \in Seq(ObjEntry) /\ mNumObjs \in 0 .. Len(mFoundObjs)
  /\ mCurObj \in 0 .. mNumObjs
  /\ scx \in Nat
  /\ out.x \in -TileLen .. Width - 1
  /\ dots \in 0 .. MaxDots

(* The inductive invariant of TypeOK.                                      *)
TypeInv == Sized(mFetcher, mFIFO) /\ Ranges

(* A call of Fetcher::tick: a line goes only into an empty queue, and a    *)
(* sprite's line is mixed into the pixels already there.                   *)
LEMMA TickSized ==
  ASSUME Ranges, NEW f, NEW q, Sized(f, q)
  PROVE  Sized(Tick(f, q).f, Tick(f, q).q)
<1> DEFINE t == FetcherTick(f, q, scx, mFoundObjs)
<1>1. Piped(f, q) /\ scx \in Nat /\ TileLen \in Nat
  BY Numbers DEF Sized, Ranges
<1>2. /\ Piped(t.f, t.q) /\ t.q.bg = IF Loads(f, q) THEN f.line ELSE q.bg
      /\ f.sprite = NoSprite => t.f.sprite = NoSprite
      /\ t.f.sprite = f.sprite \/ t.f.sprite = NoSprite
  <2> DEFINE k == BgState(f, q)
             ends == k >= 5 /\ f.spriteState = 5
  <2>1. /\ Piped(t.f, t.q) /\ t.f.mode = f.mode /\ t.q.bgEnabled = q.bgEnabled
        /\ t.q.bg = IF Loads(f, q) THEN f.line ELSE q.bg
        /\ f.sprite = NoSprite => t.f.sprite = NoSprite /\ t.f.state = k
        /\ f.sprite # NoSprite /\ ~ends =>
             /\ t.f.sprite = f.sprite /\ t.f.state = k
             /\ t.f.spriteState = IF k >= 5 THEN f.spriteState + 1 ELSE f.spriteState
        /\ f.sprite # NoSprite /\ ends =>
             t.f.sprite = NoSprite /\ t.f.state = IF k = 8 THEN 0 ELSE k
    BY <1>1, TickIs
  <2> HIDE DEF t, k, ends
  <2> QED
    BY <2>1
<1>3. Reads(f, q, scx, mFoundObjs, t)
  BY <1>1, TickReads
<1> HIDE DEF t
<1>4. Len(t.q.bg) <= TileLen
  <2>1. Loads(f, q) => Len(f.line) = TileLen
    BY <1>1 DEF Loads, Piped
  <2> QED
    BY <1>1, <1>2, <2>1 DEF Sized
<1>5. t.f.sprite \in 0 .. Len(mFoundObjs)
  BY <1>2 DEF Sized, Ranges, NoSprite
<1>6. t.q.obj \in Seq(Pixel) /\ Len(t.q.obj) <= TileLen
  <2>1. CASE f.sprite # NoSprite /\ t.f.sprite = NoSprite
    <3> DEFINE o == mFoundObjs[f.sprite]
               line == SpriteLine(o, f.sprite)
               r == MixSprite(q, line)
    <3>1. t.q.obj = r.obj
      BY <1>3, <2>1 DEF Reads
    <3>2. f.sprite \in Nat /\ o.below \in BOOLEAN
      <4>1. f.sprite \in 1 .. Len(mFoundObjs)
        BY <2>1 DEF Sized, Ranges, NoSprite
      <4>2. o \in ObjEntry
        BY <4>1 DEF Ranges
      <4> QED
        BY <4>1, <4>2 DEF ObjEntry
    <3> HIDE DEF o
    <3>3. line \in Seq(Pixel) /\ Len(line) = TileLen
      BY <3>2, SpriteLineTyped
    <3> HIDE DEF line
    <3> DEFINE n == Len(q.obj)
               d == IF n > TileLen THEN n ELSE TileLen
    <3>4. q = [y \in QueueFields |-> q[y]] /\ q.obj \in Seq(Pixel) /\ n <= TileLen /\ n \in Nat
      BY <1>1 DEF Sized, Piped, Paired
    <3>5. r.obj \in Seq(Pixel) /\ Len(r.obj) = d
      BY <3>3, <3>4, MixedPixels
    <3>6. d = TileLen
      BY <1>1, <3>4
    <3> HIDE DEF r, d
    <3> QED
      BY <1>1, <3>1, <3>5, <3>6
  <2>2. CASE ~(f.sprite # NoSprite /\ t.f.sprite = NoSprite)
    <3>1. t.q.obj = q.obj
      BY <1>3, <2>2 DEF Reads
    <3> QED
      BY <3>1 DEF Sized
  <2> QED
    BY <2>1, <2>2
<1>7. Sized(t.f, t.q)
  BY <1>2, <1>4, <1>5, <1>6 DEF Sized
<1> QED
  BY <1>7 DEF Tick, t

(* startSprite and lock, for an entry of the list.                         *)
LEMMA StartSized ==
  ASSUME Ranges, NEW f, NEW q, Sized(f, q), f.sprite = NoSprite, mCurObj < mNumObjs
  PROVE  Sized(StartSprite(f, mCurObj + 1), Lock(q))
<1> DEFINE i == mCurObj + 1
<1>1. i \in Nat \ {0} /\ i # NoSprite /\ i \in 0 .. Len(mFoundObjs)
  BY DEF Ranges, NoSprite
<1> HIDE DEF i
<1>2. Paired(f, q) /\ Piped(f, q)
  BY DEF Sized, Piped
<1> DEFINE h == StartSprite(f, i)
           w == Lock(q)
<1>3. Paired(h, w)
  BY <1>1, <1>2, StartPaired
<1>4. /\ h.state = f.state /\ h.mode = f.mode /\ h.tileCnt = f.tileCnt
      /\ h.tileNum = f.tileNum /\ h.line = f.line /\ w.bg = q.bg /\ w.obj = q.obj
      /\ h.sprite = i /\ h.spriteState = 0
  BY <1>2, Numbers DEF StartSprite, Lock, Paired, FetcherFields, QueueFields
<1> HIDE DEF h, w
<1>5. Piped(h, w)
  BY <1>1, <1>2, <1>3, <1>4 DEF Piped
<1>6. Sized(h, w)
  BY <1>1, <1>4, <1>5 DEF Sized
<1> QED
  BY <1>6 DEF h, w, i

(* The fetcher's part of a cycle.                                          *)
LEMMA FetchedSized ==
  ASSUME TypeInv
  PROVE  Sized(Fetched.f, Fetched.q) /\ Fetched.cur \in 0 .. mNumObjs
<1>1. Ranges /\ Sized(mFetcher, mFIFO) /\ mCurObj \in 0 .. mNumObjs /\ mNumObjs \in Nat
  BY DEF TypeInv, Ranges
<1>2. ObjectHere(mCurObj) => mCurObj < mNumObjs /\ mCurObj + 1 \in 0 .. mNumObjs
  BY <1>1 DEF ObjectHere
<1>3. CASE mFetcher.sprite # NoSprite
  <2> DEFINE t == Tick(mFetcher, mFIFO)
  <2>1. Sized(t.f, t.q)
    BY <1>1, TickSized
  <2> HIDE DEF t
  <2>2. Chained(t.f) => Sized(StartSprite(t.f, mCurObj + 1), Lock(t.q))
    BY <1>1, <1>2, <2>1, StartSized DEF Chained
  <2>3. Fetched = IF Chained(t.f)
              THEN [f |-> StartSprite(t.f, mCurObj + 1), q |-> Lock(t.q),
                    cur |-> mCurObj + 1, eaten |-> TRUE]
              ELSE [f |-> t.f, q |-> t.q, cur |-> mCurObj, eaten |-> FALSE]
    BY <1>3 DEF Fetched, t
  <2> QED
    BY <1>1, <1>2, <2>1, <2>2, <2>3 DEF Chained
<1>4. CASE mFetcher.sprite = NoSprite /\ ObjectHere(mCurObj)
  <2> DEFINE g == StartSprite(mFetcher, mCurObj + 1)
             r == Lock(mFIFO)
             t == Tick(g, r)
  <2>1. Sized(g, r)
    BY <1>1, <1>2, <1>4, StartSized
  <2> HIDE DEF g, r
  <2>2. Sized(t.f, t.q)
    BY <1>1, <2>1, TickSized
  <2>3. Fetched = [f |-> t.f, q |-> t.q, cur |-> mCurObj + 1, eaten |-> FALSE]
    BY <1>4 DEF Fetched, g, r
  <2> HIDE DEF t
  <2> QED
    BY <1>2, <1>4, <2>2, <2>3
<1>5. CASE mFetcher.sprite = NoSprite /\ ~ObjectHere(mCurObj)
  <2> DEFINE t == Tick(mFetcher, mFIFO)
  <2>1. Sized(t.f, t.q)
    BY <1>1, TickSized
  <2>2. Fetched = [f |-> t.f, q |-> t.q, cur |-> mCurObj, eaten |-> FALSE]
    BY <1>5 DEF Fetched
  <2> HIDE DEF t
  <2> QED
    BY <1>1, <2>1, <2>2
<1> QED
  BY <1>3, <1>4, <1>5

(* setMode and clear(false).                                               *)
LEMMA WindowSized ==
  ASSUME NEW f, NEW q, Sized(f, q)
  PROVE  Sized(EnterWindow(f), ClearBG(q))
<1> DEFINE g == EnterWindow(f)
           r == ClearBG(q)
<1>1. Piped(f, q) /\ Paired(f, q) /\ TileLen \in Nat
  BY Numbers DEF Sized, Piped
<1>2. Paired(g, r)
  BY <1>1 DEF EnterWindow, ClearBG, Paired, FetcherFields, QueueFields
<1>3. /\ g.state = 0 /\ g.spriteState = f.spriteState /\ g.mode = "win" /\ g.sprite = f.sprite
      /\ g.tileCnt = 0 /\ g.tileNum = f.tileNum /\ g.line = f.line
      /\ r.bg = <<>> /\ r.obj = q.obj
  BY <1>1, Numbers DEF EnterWindow, ClearBG, Paired, FetcherFields, QueueFields
<1> HIDE DEF g, r
<1>4. r.bg \in Seq(Pixel) /\ Len(r.bg) <= TileLen
  BY <1>1, <1>3
<1>5. Piped(g, r)
  BY <1>1, <1>2, <1>3, <1>4 DEF Piped
<1>6. Sized(g, r)
  BY <1>3, <1>4, <1>5 DEF Sized
<1> QED
  BY <1>6 DEF g, r

(* The cycle with the window's beginning in it.                            *)
LEMMA WindowedSized ==
  ASSUME TypeInv
  PROVE  Sized(Windowed.f, Windowed.q) /\ Windowed.cur \in 0 .. mNumObjs
<1> DEFINE p == Fetched
<1>1. Sized(p.f, p.q) /\ p.cur \in 0 .. mNumObjs
  BY FetchedSized
<1>2. Sized(EnterWindow(p.f), ClearBG(p.q))
  BY <1>1, WindowSized
<1>3. p = [x \in {"f", "q", "cur", "eaten"} |-> p[x]]
  BY DEF Fetched
<1>4. Windowed = IF ~p.eaten /\ WindowHere(p.f)
       THEN [p EXCEPT !.f = EnterWindow(@), !.q = ClearBG(@), !.eaten = TRUE]
       ELSE p
  BY DEF Windowed
<1> HIDE DEF p
<1> QED
  BY <1>1, <1>2, <1>3, <1>4

(* FIFO.tick makes both queues no longer.                                  *)
LEMMA PoppedSized ==
  ASSUME NEW f, NEW q, NEW l, Sized(f, q), ~q.locked
  PROVE  Sized(f, Popped(q, l)) /\ Sized(f, EnableBG(Popped(q, l)))
<1> DEFINE r == Popped(q, l)
           w == EnableBG(r)
<1>1. Piped(f, q) /\ Paired(f, q) /\ q.obj \in Seq(Pixel) /\ q.bg \in Seq(Pixel) /\ TileLen \in Nat
  BY Numbers DEF Sized, Piped
<1>2. r.bgEnabled = q.bgEnabled /\ r.bg = IF q.bg = <<>> THEN <<>> ELSE Tail(q.bg)
  BY <1>1, PoppedBG DEF Paired
<1>3. Paired(f, r)
  BY <1>1 DEF Popped, PopObj, PopBG, Paired, QueueFields
<1>4. r.obj = q.obj \/ (q.obj # <<>> /\ r.obj = Tail(q.obj))
  <2> DEFINE b == PopBG(q)
  <2>1. b.obj = q.obj /\ b = [y \in QueueFields |-> b[y]]
    BY <1>1 DEF PopBG, Paired, QueueFields
  <2> HIDE DEF b
  <2>2. r = IF q.bg = <<>> THEN PopObj(q) ELSE IF l.obj THEN PopObj(b) ELSE b
    BY DEF Popped, b
  <2>3. ASSUME NEW v, v = [y \in QueueFields |-> v[y]]
        PROVE  PopObj(v).obj = IF v.obj = <<>> THEN v.obj ELSE Tail(v.obj)
    BY <2>3 DEF PopObj, QueueFields
  <2> HIDE DEF r
  <2>4. /\ PopObj(q).obj = IF q.obj = <<>> THEN q.obj ELSE Tail(q.obj)
        /\ PopObj(b).obj = IF b.obj = <<>> THEN b.obj ELSE Tail(b.obj)
    BY <1>1, <2>1, <2>3 DEF Paired
  <2> QED
    BY <2>1, <2>2, <2>4
<1> HIDE DEF r
<1>5. \A s \in Seq(Pixel) : s # <<>> /\ Len(s) <= TileLen => Tail(s) \in Seq(Pixel) /\ Len(Tail(s)) <= TileLen
  <2> SUFFICES ASSUME NEW s \in Seq(Pixel), s # <<>>, Len(s) <= TileLen
               PROVE  Tail(s) \in Seq(Pixel) /\ Len(Tail(s)) <= TileLen
    OBVIOUS
  <2>1. Tail(s) \in Seq(Pixel) /\ Len(Tail(s)) = Len(s) - 1 /\ Len(s) \in Nat
    OBVIOUS
  <2> DEFINE a == Len(s)
             c == Len(Tail(s))
  <2>2. c = a - 1 /\ a \in Nat /\ a <= TileLen
    BY <2>1
  <2> HIDE DEF a, c
  <2>3. c <= TileLen
    BY <1>1, <2>2
  <2> QED
    BY <2>1, <2>3 DEF c
<1>6. /\ r.bg \in Seq(Pixel) /\ Len(r.bg) <= TileLen /\ r.obj \in Seq(Pixel) /\ Len(r.obj) <= TileLen
  <2>1. q.bg = <<>> => r.bg = q.bg
    BY <1>2
  <2> QED
    BY <1>1, <1>2, <1>4, <1>5, <2>1 DEF Sized
<1>7. Sized(f, r)
  <2>1. Piped(f, r)
    BY <1>1, <1>3, <1>6 DEF Piped
  <2> QED
    BY <1>6, <2>1 DEF Sized
<1>8. w.bg = r.bg /\ w.obj = r.obj /\ Paired(f, w)
  BY <1>3 DEF EnableBG, Paired, QueueFields
<1> HIDE DEF w
<1>9. Sized(f, w)
  <2>1. Piped(f, w)
    BY <1>7, <1>8 DEF Piped, Sized
  <2> QED
    BY <1>7, <1>8, <2>1 DEF Sized
<1> QED
  BY <1>7, <1>9 DEF r, w

(* Before the first line, and after a line, the queue is empty.            *)
LEMMA ResetSized ==
  ASSUME NEW q, Paired(FetcherReset, q), q.bg = <<>>, q.obj = <<>>, Len(mFoundObjs) \in Nat
  PROVE  Sized(FetcherReset, q)
<1> DEFINE f == FetcherReset
<1>1. f.sprite = 0 /\ Piped(f, q)
  BY ResetPiped DEF FetcherReset, NoSprite
<1> HIDE DEF f
<1>2. <<>> \in Seq(Pixel) /\ Len(<<>>) <= TileLen
  BY Numbers
<1>3. Sized(f, q)
  BY <1>1, <1>2 DEF Sized
<1> QED
  BY <1>3 DEF f

(* Every state starts within the ranges.                                   *)
LEMMA InitTypes == Init => TypeInv
<1> SUFFICES ASSUME Init PROVE TypeInv
  OBVIOUS
<1>1. mFoundObjs = <<>> /\ Len(mFoundObjs) = 0 /\ mFoundObjs \in Seq(ObjEntry)
  BY DEF Init
<1>2. Sized(mFetcher, mFIFO)
  <2>1. PICK b \in BOOLEAN : mFIFO = [ResetQueue EXCEPT !.bgEnabled = b]
    BY DEF Init
  <2>2. mFIFO.bg = <<>> /\ mFIFO.obj = <<>> /\ Paired(FetcherReset, mFIFO)
    BY <2>1 DEF ResetQueue, FetcherReset, Paired, FetcherFields, QueueFields, NoSprite
  <2> QED
    BY <1>1, <2>2, ResetSized DEF Init
<1>3. PICK l \in Lines : scx = l.scx
  BY DEF Init
<1>4. scx \in Nat
  BY <1>3, ScxAssumption
<1>5. Ranges
  <2>1. /\ mode = "off" /\ clean = FALSE /\ mLineXPos = -TileLen /\ mMode3DelayCycles = 0
        /\ mCurObj = 0 /\ mNumObjs = 0 /\ out.x = -TileLen /\ dots = 0
    BY DEF Init, Nothing
  <2>2. /\ -TileLen \in -TileLen .. Width /\ -TileLen < Width /\ -TileLen \in -TileLen .. Width - 1
        /\ 0 \in 0 .. MaxDots /\ 0 \in 0 .. TileLen - 1 /\ 0 \in 0 .. 0
    BY Numbers, WidthAssumption, DotsAssumption
  <2> QED
    BY <1>1, <1>4, <2>1, <2>2 DEF Ranges
<1> QED
  BY <1>2, <1>5 DEF TypeInv

(* A step that leaves the objects alone and ends with such a fetcher and   *)
(* queue.                                                                  *)
LEMMA SizedAfter ==
  ASSUME NEW f, NEW q, Sized(f, q), mFetcher' = f, mFIFO' = q, mFoundObjs' = mFoundObjs
  PROVE  Sized(mFetcher, mFIFO)'
BY DEF Sized

(* The entries a new line leaves: those found, and behind them the ones up *)
(* to a sprite still pending.                                              *)
LEMMA FoundTyped ==
  ASSUME TypeInv, NEW list \in Seq(ObjEntry)
  PROVE  /\ FoundObjs(list) \in Seq(ObjEntry)
         /\ Len(list) <= Len(FoundObjs(list))
         /\ mFetcher.sprite \in 0 .. Len(FoundObjs(list))
<1> DEFINE s == mFetcher.sprite
           n == Len(list)
           rest == SubSeq(mFoundObjs, n + 1, s)
<1>1. /\ mFoundObjs \in Seq(ObjEntry) /\ s \in Nat /\ s <= Len(mFoundObjs)
      /\ Len(mFoundObjs) \in Nat /\ n \in Nat
  BY DEF TypeInv, Ranges, Sized
<1>2. CASE s > n
  <2>1. \A i \in n + 1 .. s : i \in 1 .. Len(mFoundObjs)
    BY <1>1
  <2>2. rest \in Seq(ObjEntry) /\ Len(rest) = s - n
    <3>1. n + 1 \in 1 .. Len(mFoundObjs) + 1 /\ s \in n .. Len(mFoundObjs)
      BY <1>1, <1>2
    <3> HIDE DEF s, n
    <3> QED
      BY <1>1, <1>2, <3>1
  <2> DEFINE all == list \o rest
  <2>3. all \in Seq(ObjEntry) /\ Len(all) = n + Len(rest)
    <3> HIDE DEF rest
    <3> QED
      BY <2>2
  <2>4. FoundObjs(list) = all
    BY <1>2 DEF FoundObjs
  <2>5. Len(all) = s
    <3> DEFINE a == Len(all)
               c == Len(rest)
    <3>1. a = n + c /\ c = s - n
      BY <2>2, <2>3
    <3> HIDE DEF a, c, n, s
    <3>2. a = s
      BY <1>1, <3>1
    <3> QED
      BY <3>2 DEF a
  <2> HIDE DEF all
  <2>6. n <= s /\ s \in 0 .. s
    BY <1>1, <1>2
  <2> QED
    BY <2>3, <2>4, <2>5, <2>6
<1>3. CASE ~(s > n)
  <2>1. FoundObjs(list) = list
    BY <1>3 DEF FoundObjs
  <2>2. s \in 0 .. n /\ n <= n
    BY <1>1, <1>3
  <2> QED
    BY <2>1, <2>2
<1> QED
  BY <1>2, <1>3

(* Every step stays within the ranges.                                     *)
LEMMA NextTypes == TypeInv /\ [Next]_vars => TypeInv'
<1> SUFFICES ASSUME TypeInv, [Next]_vars PROVE TypeInv'
  OBVIOUS
<1>1. Ranges /\ Sized(mFetcher, mFIFO)
  BY DEF TypeInv
<1>2. NextDot \in 0 .. MaxDots
  BY <1>1, DotsAssumption DEF NextDot, Ranges
<1>3. CASE StartLine
  <2>1. PICK l \in Lines :
          /\ mNumObjs' = Len(l.objs) /\ mFoundObjs' = FoundObjs(l.objs) /\ scx' = l.scx
    BY <1>3 DEF StartLine
  <2>2. l.objs \in Seq(ObjEntry) /\ scx' \in Nat
    BY <2>1, ObjEntriesAssumption, ScxAssumption
  <2>3. /\ mFoundObjs' \in Seq(ObjEntry) /\ mNumObjs' <= Len(mFoundObjs')
        /\ mFetcher.sprite \in 0 .. Len(mFoundObjs')
    BY <2>1, <2>2, FoundTyped
  <2>4. mNumObjs' \in 0 .. Len(mFoundObjs') /\ 0 \in 0 .. mNumObjs'
    <3>1. mNumObjs' \in Nat /\ Len(mFoundObjs') \in Nat
      BY <2>1, <2>2, <2>3
    <3> QED
      BY <2>3, <3>1
  <2>5. mMode3DelayCycles' \in 0 .. TileLen - 1
    BY <1>3, <2>2, Numbers DEF StartLine
  <2>6. Sized(mFetcher, mFIFO)'
    BY <1>1, <1>3, <2>3 DEF StartLine, Sized
  <2>7. (mFetcher = FetcherReset /\ mFIFO = ResetQueue) \in BOOLEAN
    OBVIOUS
  <2>8. /\ mode' = "xfer" /\ mCurObj' = 0 /\ mLineXPos' = -TileLen
        /\ dots' = 0 /\ out'.x = -TileLen /\ clean' \in BOOLEAN
    BY <1>3, <2>7 DEF StartLine, Nothing
  <2>9. Ranges'
    <3>1. /\ -TileLen \in -TileLen .. Width /\ -TileLen < Width /\ -TileLen \in -TileLen .. Width - 1
          /\ 0 \in 0 .. MaxDots
      BY Numbers, WidthAssumption, DotsAssumption
    <3> QED
      BY <2>2, <2>3, <2>4, <2>5, <2>8, <3>1 DEF Ranges
  <2> QED
    BY <2>6, <2>9 DEF TypeInv
<1>4. CASE Delay
  <2> DEFINE t == Tick(mFetcher, mFIFO)
  <2>1. Sized(t.f, t.q)
    BY <1>1, TickSized
  <2>2. mFetcher' = t.f /\ mFIFO' = t.q
    BY <1>4 DEF Delay, Tick
  <2> HIDE DEF t
  <2>3. Sized(mFetcher, mFIFO)'
    BY <1>4, <2>1, <2>2, SizedAfter DEF Delay, config
  <2>4. Ranges'
    BY <1>1, <1>4, Numbers DEF Delay, Ranges, config
  <2> QED
    BY <2>3, <2>4 DEF TypeInv
<1>5. CASE DotEaten
  <2> DEFINE p == Windowed
  <2>1. Sized(p.f, p.q) /\ p.cur \in 0 .. mNumObjs
    BY WindowedSized
  <2>2. mFetcher' = p.f /\ mFIFO' = p.q /\ mCurObj' = p.cur
    BY <1>5 DEF DotEaten
  <2> HIDE DEF p
  <2>3. Sized(mFetcher, mFIFO)'
    BY <1>5, <2>1, <2>2, SizedAfter DEF DotEaten, config
  <2>4. out'.x \in -TileLen .. Width - 1
    BY <1>5, Numbers, WidthAssumption DEF DotEaten, Nothing
  <2>5. Ranges'
    BY <1>1, <1>2, <1>5, <2>1, <2>2, <2>4 DEF DotEaten, Ranges, config
  <2> QED
    BY <2>3, <2>5 DEF TypeInv
<1>6. CASE DotShifted
  <2> DEFINE p == Windowed
             q == Popped(p.q, lcdc)
             x == mLineXPos + 1
  <2>1. Sized(p.f, p.q) /\ p.cur \in 0 .. mNumObjs
    BY WindowedSized
  <2>2. ~p.q.locked
    <3>1. p.q.locked \in BOOLEAN
      BY <2>1 DEF Sized, Piped, Paired
    <3> QED
      BY <1>6, <3>1 DEF DotShifted, Stalled
  <2>3. Sized(p.f, q) /\ Sized(p.f, EnableBG(q))
    BY <2>1, <2>2, PoppedSized
  <2>4. /\ mCurObj' = p.cur /\ mLineXPos' = x
        /\ x = Width => mode' = "hblank" /\ mFetcher' = FetcherReset /\ mFIFO' = ResetQueue
        /\ x # Width => mode' = mode /\ mFetcher' = p.f /\ (mFIFO' = EnableBG(q) \/ mFIFO' = q)
    BY <1>6 DEF DotShifted
  <2>5. mode = "xfer" /\ mLineXPos \in -TileLen .. Width /\ mLineXPos < Width
    BY <1>1, <1>6 DEF Ranges, DotShifted
  <2>6. out'.x \in -TileLen .. Width - 1
    <3>1. out'.x = IF mLineXPos >= 0 THEN mLineXPos ELSE -TileLen
      BY <1>6 DEF DotShifted, Nothing
    <3> QED
      BY <2>5, <3>1, Numbers, WidthAssumption
  <2>7. mFoundObjs' = mFoundObjs
    BY <1>6 DEF DotShifted, config
  <2>8. Sized(FetcherReset, ResetQueue)
    <3>1. ResetQueue.bg = <<>> /\ ResetQueue.obj = <<>> /\ Paired(FetcherReset, ResetQueue)
      BY DEF ResetQueue, FetcherReset, Paired, FetcherFields, QueueFields, NoSprite
    <3>2. Len(mFoundObjs) \in Nat
      BY <1>1 DEF Ranges
    <3> QED
      BY <3>1, <3>2, ResetSized
  <2> HIDE DEF p, q
  <2>9. Sized(mFetcher, mFIFO)'
    <3>1. CASE x = Width
      BY <2>4, <2>7, <2>8, <3>1, SizedAfter
    <3>2. CASE x # Width
      BY <2>3, <2>4, <2>7, <3>2, SizedAfter
    <3> QED
      BY <3>1, <3>2
  <2>10. /\ x \in -TileLen .. Width /\ mode' \in {"search", "xfer", "hblank", "off"}
         /\ mode' = "xfer" => x < Width
    BY <2>4, <2>5, Numbers, WidthAssumption
  <2> HIDE DEF x
  <2>11. Ranges'
    BY <1>1, <1>2, <1>6, <2>1, <2>4, <2>6, <2>10 DEF DotShifted, Ranges, config
  <2> QED
    BY <2>9, <2>11 DEF TypeInv
<1>7. CASE WriteSCX
  <2>1. scx' \in Nat
    BY <1>7, ScxAssumption DEF WriteSCX
  <2> QED
    BY <1>1, <1>7, <2>1 DEF WriteSCX, TypeInv, Ranges, Sized, pipe
<1>8. CASE WriteWX \/ WriteLCDC
  BY <1>1, <1>8 DEF WriteWX, WriteLCDC, TypeInv, Ranges, Sized, pipe
<1>9. CASE LcdOn
  BY <1>1, <1>9 DEF LcdOn, TypeInv, Ranges, Sized, pipe, config
<1>10. CASE LcdOff
  BY <1>1, <1>10, Numbers, WidthAssumption DEF LcdOff, TypeInv, Ranges, Sized, pipe, config, Nothing
<1>11. CASE UNCHANGED vars
  BY <1>1, <1>11 DEF vars, TypeInv, Ranges, Sized, pipe, config
<1> QED
  BY <1>3, <1>4, <1>5, <1>6, <1>7, <1>8, <1>9, <1>10, <1>11 DEF Next, Dot

(* Positions, counters and states keep to their ranges, neither queue ever *)
(* holds more than a tile's pixels, and the fetcher's sprite is always an  *)
(* entry of the list, even where a new search has shortened it.            *)
THEOREM TypesHold == Spec => []TypeOK
<1>1. TypeInv => TypeOK
  BY Numbers DEF TypeInv, Sized, Piped, Ranges, TypeOK
<1> QED
  BY <1>1, InitTypes, NextTypes, PTL DEF Spec
=============================================================================
