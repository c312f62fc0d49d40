# A verification model of boldboy

boldboy is a Game Boy emulator: a C++ core (`src/core`) that interprets the CPU
instruction by instruction and drives the machine's devices with the cycles each
step took, and two front ends (`src/app`). These modules model the parts of the
core where order, timing and interleaving decide what the machine does, check
them with TLC on small instances and prove the main results with TLAPS.

## The system

`Boldboy::tick` (`src/core/src/boldboy.cpp:52`) is the scheduler. It calls
`Cpu::tick`, which performs one step and returns how many cycles it took, then
`IoController::tick` (serial, timer, OAM DMA) and `Ppu::tick` with that number.
Everything is sequential, yet every device observes the machine only at these
points: between two CPU steps the timer and the PPU raise interrupts, and
between two calls of a device the program may have written its registers. That
interleaving is what the modules model.

| Part | State it keeps | Operations | Talks to |
|---|---|---|---|
| CPU control (`cpu/cpu.cpp`) | EI flags, HALT, current opcode and microstep | `tick`, handlers with microsteps | interrupt controller, MMU |
| CPU arithmetic (`cpu/cpu_opcodes.cpp`, `reg8/16.cpp`) | registers, flags | one handler per opcode | MMU |
| Interrupt controller (`cpu/int_controller.cpp`) | IME, IE, IF | request, clear, getPending | all devices, CPU |
| Timer (`io/io_timer.cpp`) | system counter, TIMA, TMA, TAC | register writes, `tick` | interrupt controller |
| PPU clock (`ppu/ppu.cpp`) | mode, LY, LYC, line counter, window line | LCDC/STAT/LYC writes, `tick`, `setMode`, `setLine` | interrupt controller |
| PPU pixel transfer (`ppu/ppu.cpp`, `fetcher.cpp`, `pixelfifo.cpp`, `tileline.cpp`) | pixel position, fetcher state, two pixel queues, lock | one dot of mode 3 | VRAM, registers |
| PPU object search (`ppu/ppu.cpp`, `oamentry.cpp`) | the objects of the line | end of mode 2 | OAM |
| VRAM/OAM access, OAM DMA (`ppu.cpp`, `upperregion.cpp`, `io_oam_dma.cpp`) | memory, DMA delay | reads, writes, start, restart, copy | CPU, cartridge, RAM |
| Joypad, serial (`io_joypad.cpp`, `io_serial.cpp`) | selection, mask; SB, SC | register accesses, press, release | front end |
| Memory map (`mmu.cpp`, `upperregion.cpp`, `io_controller.cpp`) | region table, boot ROM switch | routing | every device |
| Cartridges (`cart/*.cpp`) | bank registers, RAM enable, ROM, RAM | validate, load, read, write | memory map, DMA |
| Front ends (`app/`) | worker thread, timer, key state | open, pause, draw frame | `Boldboy` |

What makes the parts correct:

* CPU control: interrupts are taken between instructions, all of them, by
  priority, one instruction late after EI; nothing else loses a request; HALT is
  left; every instruction takes the time the opcode table says.
* CPU arithmetic: results and flags are those of the numbers, for every operand;
  what is popped is what was pushed; decimal adjustment gives decimal sums.
* Timer: no edge of the counter missed or counted twice, whatever the length of
  a CPU step, and no overflow without its interrupt.
* PPU clock: LY never drifts from the cycles consumed; modes keep to their
  windows; one VBlank per frame; frames keep coming.
* Pixel transfer: every pixel drawn is the right one; no object is lost; the
  three-way wait of FIFO, sprite and background fetch never deadlocks; mode 3
  ends in time for its line.
* Object search: at most ten, in order of position and index.
* DMA and access rules: the copy is complete and of the bytes the CPU would read;
  the CPU is blocked while it must be, and what it writes meanwhile is overwritten.
* Cartridges: banks share no memory; the bank shown is the one asked for; each byte of
  RAM stays what was stored; a cartridge that was deleted is not used.
* Front end: each emulator sees the keys in order; a pause ends the frames;
  closing terminates.

The hard behaviours, each at its line, are the `hazards` of `PROJECT.json`,
with the properties that cover them.

## Modules

| Module | Models | Kind |
|---|---|---|
| `InterruptController` | IE, IF, IME and their operations | operators over shared variables |
| `Opcodes` | microsteps of each family of instructions, durations of the opcode table | constants |
| `CpuControl` | `Cpu::tick` on those two | state machine |
| `TimerSpec` | what the timer promises, in closed form | abstract specification |
| `Timer` | `IoTimer`, cycle by cycle | state machine refining `TimerSpec` |
| `PpuTiming` | `Ppu::tick`, what mode 3 draws left open | state machine |
| `OamSearch` | the scan and the sort at the end of mode 2 | state machine |
| `PixelOps` | `PixelFIFO` as operators on two queues | operators |
| `Fetcher` | `Fetcher` as operators on a record | operators |
| `PixelTransfer` | mode 3 on the two | state machine |
| `Cartridge` | loading an image, the bank registers and RAM of every controller | state machine |
| `Alu` | arithmetic, logic and shifts as functions of bytes and flags | operators |
| `Datapath` | the opcode handlers on registers, flags, memory and stack, call by call | state machine |
| `Bus` | `Boldboy::tick` and `loadCart` around the CPU: memory map, access rules, OAM DMA | state machine |
| `Joypad` | button mask and selection | operators |
| `FrontEnd` | the Qt window, its timers and the worker thread, on `Joypad` | state machine |
| `CpuControl_proofs`, `Timer_proofs`, `PpuTiming_proofs`, `OamSearch_proofs`, `PixelTransfer_proofs`, `Cartridge_proofs`, `Machine_proofs`, `Datapath_proofs` | theorems | proofs |
| `MCCpuControl`, `MCDatapath`, `MCTimer`, `MCPpuTiming`, `MCOamSearch`, `MCPixelTransfer`, `MCCartridge`, `MCBus`, `MCFrontEnd` | the instances TLC checks | model checking |

How they fit: `CpuControl` runs on `InterruptController` and `Opcodes`, and
`Datapath` checks `Opcodes` against the handlers; what `OamSearch` proves is what
`PixelTransfer` assumes of its objects, and what `PixelTransfer` bounds is what
`PpuTiming` assumes of mode 3; `Bus` takes from `PpuTiming` which mode follows
which and from `CpuControl` what a tick returns; `FrontEnd` takes from
`FramesKeepComing` that a ROM with its LCD on ends its frames.

Operators and variables keep the source's names. A definition that ends in an
underscore and a word (`Falling_Rising`, `IsActive_NotOnRestart`) is a variant of the
definition below it with one mistake in it; it is used nowhere in the model and
is there so that the properties can be shown to notice the mistake.

### CPU control

One `Tick` is one call of `Cpu::tick`, in the order of the source: the delayed EI
(`EnableDue`, `ImeNow`), waking from HALT (`Woken`), `Dispatch`, `HaltedTick`,
then `Fetch` or `Resume`, which run one microstep. `Opcodes` lists the microsteps
of every family of handlers as the cycles each consumes and the bus access it
makes; single-step instructions are one family each for what they do to the
flags. `DeviceTick` is the request of any device between two ticks. Registers and
memory are abstracted to what can matter to interrupts: a memory write may hit IE,
IF or neither. The history variables `event`, `afterEi`, `spent` and `hit` say what
the last tick did.

* `cpu_control`: over all families, the flags, `EiShadow`, `BoundaryDecision`,
  `RequestsKept` and `NestedEntryNeedsEi`; HALT is left, EI takes effect, and each
  instruction has taken the duration of `tools/opcodes.json`
  (`DurationExact`; the history variable `spent` stops at `SpentBound`, above the
  longest instruction). Two serviced bits and one without a routine are enough
  for every comparison of priorities and for the "pending but not serviceable"
  path, and the proofs cover every number. The fairness is `WF_vars(Tick)`:
  `Boldboy::run` calls tick for ever. Nothing is assumed of the devices.
* `cpu_nested`: shows that the comment at `cpu.cpp:80-81` does not hold (below).

### What instructions compute

`Alu` holds the functions of `cpu.cpp` from `add` on as the code writes them: H and
C from the parity of bits, `Adjusted` with the widths of its `int`. `Datapath` has
one action for each handler, or for each group of handlers that differ only in
their operand; `mCurState` and `mCache` carry a handler from one call to the next.
An instruction is a record with the parameters of the opcode table and the bytes
behind the opcode; fetching moves PC and takes them from the record instead of
decoding memory. `Starts` gives the programs and the states they begin in.

* `datapath`: `ArithmeticExact`, `ShiftExact` and `BcdExact` compare results and
  flags with arithmetic on integers: every byte and carry for INC, DEC and the
  shifts, every pair of two-digit decimals with and without carry for DAA, and for
  two operands all pairs of 14 edge values (both sides of 0, of the nibble, of the
  sign and of 255), since each flag depends on the operands at one bit position and
  the carry into it. `PopMatches` and `LowNibbleStays` run every program of four
  stack instructions out of nine, pushes and pops of AF, calls taken and not taken,
  returns. `MicrostepsAgree`: the handler takes the calls, and writes memory in
  the calls, that `Opcodes` lists for its family, each conditional both ways;
  the microsteps `CpuControl` runs are thereby those of the code. The cycles of each
  microstep are the model's reading of the handlers; only their sum is compared, with
  the opcode table, by `DurationExact`.

The programs end, so deadlock is not checked. There is no fairness: all these are
safety properties.

### Timer

`TimerSpec` has one step per call: in n cycles TIMA advances by the number of
multiples of the selected period passed, and each overflow reloads TMA and
requests an interrupt. `Timer` is the code: `TickBegin` opens a call,
each `TickCycle` is an iteration of the loop comparing the selected bit of the old
and new counter, and the program writes between calls. The refinement maps the
registers in the middle of a call to their values at its beginning, so the whole
call is one step of `TimerSpec`.

* `timer`: `Accumulated`, `ImplementsTimerSpec`, with
  a 4-bit counter, taps of period 2, 4 and 8 and calls of up to six cycles, enough
  to pass several periods, to wrap the counter and to overflow TIMA more than
  once. `OverflowComes`: a started timer left alone raises its interrupt; fairness
  is that `IoController::tick` keeps being called.

Writes of DIV and TAC do not cause the extra increment real hardware has; the
code says so in TODOs, and the model follows the code.

### PPU clock

One action is one iteration of the `while` loop of `Ppu::tick`, with the loop
variable as `cycles`; register writes happen between calls. Mode 3 ends after any
number of cycles between `MinXfer` and `MaxXfer`, and the assumption that the
longest one fits the line (`LengthsAssumption`) is what the pixel transfer's
`XferBounded` justifies: 168 cycles, at most 9 for each of ten objects and 7 for
the window are 265, and the line has 376 left after the search. `XferBounded` is
about lines whose registers are left alone, so for any other line the assumption
stays an assumption; the finding about SCX below is a line that violates it.

* `ppu_clock`: `ClockExact` (LY and the line counter are the cycles since
  the frame began), `ModeWindow`, `WindowLine`, `CoincidenceFresh`, `VBlankOnEntry`
  on two visible and two blank lines, with tick lengths that do and do not
  divide the line, so that every transition is met on its cycle and across it.
  `FramesKeepComing`: while the LCD is on frames keep coming, hence
  `Boldboy::waitForFrame` returns. Fairness: `Boldboy::tick` calls the PPU.

### Object search

One action is one iteration of the scan over OAM or of the two loops of the
exchange sort; an entry is named by its index, and only its x and y matter. The
search is inside one call of `tick`, so nothing interleaves with it; OAM is
rewritten between searches.

* `oam_search`: `Selection` and `Sorted`, for every OAM of four entries of which
  three can be found, with values of y at all four edges of the line for both
  object sizes and three values of x, so that any mix of ties is sorted.

### Pixel transfer

`Dot` is one iteration of the loop of the `DATA_XFER` case; `Delay` the cycles the
fetcher runs ahead for the scrolled pixels. `FetcherTick` is the whole of
`Fetcher::tick`: the background half, then the sprite half, which may run in the
same call. A pixel is named by where it comes from (map column, window column,
object and column) and whether its colour is 0, so `PixelCorrect` can compare
every pixel drawn with `Reference`, which says what belongs there without fetcher
or FIFO. Rows, tile data, palettes and tile addressing are abstracted. The two
16-entry rings are sequences; that they never hold more than 8 is part of `TypeOK`,
which is proved.
What the object search found is an input: any list sorted by position
(`ObjListsAssumption`, which `OamSearch` proves of the code).

* `pixel`: an 18-pixel screen, which has two tile boundaries and both edges, over a
  map of 4 tiles. Pairs of three kinds of objects (solid, below the background,
  partly transparent and flipped) at every position and up to 8 pixels apart, the
  distances at which they can meet in the FIFO, with scrolls 0 and 13; and windows at
  WX 0, 7, 12, 16 and 25 (left of the screen, at its edge, inside a tile, near its end,
  beyond it) with scrolls 0, 5 and 31, alone or with one object at every position.
  `PixelCorrect` and `XferBounded`.
* `pixel_live`: `LineEnds` and `LockedForSprite`, with LCDC, WX, SCX and the LCD
  switch written every 8 cycles of a line, and before its scroll delay. The screen is
  of two pixels on a map of one tile, with the window at its edge (WX 7) and moved by
  the writes (WX 8), and two objects over it: a line cut short leaves its queues to
  the next one, which multiplies the states. A write of SCX stores the value it has:
  on a map of one tile whole tiles of scroll are the same, and a change of the three
  low bits is the subject of `pixel_scx`. Fairness is on `Dot` alone; the program may
  write or not. `LockedForSprite` is proved for every value written.
* `pixel_scx`: a finding.

The counter `dots` is a history variable; `MaxDots` bounds it, beyond the bound it
keeps its residue modulo `Granule` (4, since every CPU step takes a multiple of
four cycles), which is all the guards use. `XferBounded` is checked with the bound
above every value it allows.

`PixelCorrect` speaks of lines begun with a reset fetcher and FIFO on which no
register is written (`clean`), and not of windows with WX below 7, whose alignment
follows the scroll in this code and for which the repository states no intent.

### Cartridges

A behaviour is the life of one cartridge object: an image that passes `validate`
and that the factory has a class for, the constructor, then calls of `writeAddr`,
one action for each controller with the cases of its `switch` as disjuncts. Reads
change nothing: `ReadRam` is an operator. RAM is a function from offsets to bytes,
unset before its first write because the constructors do not clear it; the
contents of the ROM are left out, only which bank shows. The history variables
`chosen` (the halves of the bank number last written) and `lastWritten` (the byte
last stored in each bank and address) are what the registers and the RAM are
compared with.

* `cartridge`: `HalvesKept` and `RamHolds` for
  images of every header type, with no RAM, 2 kB and 32 kB, whole, cut off and
  refused. One address stands for each register (MBC2 decodes bit 8, so two), the
  two RAM addresses are half a bank apart, and the four register values are one
  that is 0, one that enables RAM, and one with bits above the fifth.

MBC3's RAM enable has no effect in the code and MBC3 and MBC5 read RAM that is
disabled; the model follows the code. `ReadRam` is the set of bytes a read can
return: one, but for MBC2, whose `readAddr` takes the address as an index without
asking whether its 512 bytes reach that far (`Behind`). `RamHolds` claims nothing of
those addresses.

### Memory map, access rules and OAM DMA

A round of `Boldboy::tick` is three steps (`at`): the accesses of the CPU (`Write`,
any number, then `CpuDone` with the cycles they took), the DMA's tick (`DmaWaits`,
`DmaCopies`) and the PPU's, which may end a mode. `Route`, `Upper` and `Device` are
the address decoding of `Mmu`, `UpperRegion` and `IoController`, whose reads are
operators (`CpuRead`) because they change nothing. `LoadCart` and `LoadFails` are
the two ends of `Boldboy::loadCart` between two rounds; a pointer to a cartridge
that was deleted is `"freed"`, and using it or a null one sets `undefined`, after
which the model claims nothing. `age` and `intruded` are history variables: the
cycles since the DMA became active, and the OAM bytes written in modes 2 and 3.

* `bus`: one page for each kind of memory the DMA can meet (fixed and switched ROM, VRAM,
  RAM, echo), two of its 160 bytes (the first and the last), a delay of 12 cycles of
  which 8 block OAM with ticks of 4 and 8, so that transfers begin on, before and
  across the boundary and are restarted in either phase; every mode, the LCD on and
  off, two banks to tell a bank switch in the delay. `SafeWithCart`, `OamBlocked`,
  `IntrusionsOverwritten`, `DmaReadsAsCpu`, and `DmaEnds`: a transfer ends unless
  restarted for ever. Fairness is on `Round`: `run` and `waitForFrame` call `tick`
  in a loop, and each call of `Cpu::tick` makes finitely many accesses. A use of a
  deleted cartridge stops the model, so deadlock is not checked.

The boot ROM lies over page 0 for the CPU and not for the DMA, so `DmaReadsAsCpu`
leaves that page out while it does (`Overlaid`); only the boot ROM's own code runs
then, and it starts no DMA.

`OamBlocked` counts from the start of the first transfer. The code blocks OAM at
once when a DMA is restarted within its first two machine cycles, that is before
any transfer has begun; the property allows it.

### Qt front end

The window's thread runs one handler at a time; so does the worker thread, which
serves `queue`. Emitting a signal appends an event for every emulator ever
connected, because opening a second ROM disconnects nothing. `Timeout` is the
timer of any ROM whose timer is active. A frame of a ROM whose LCD is on ends
(`lit`); of any other it never does. Cancelling the open dialog, or a file that is
no ROM, gives a worker whose emulator has no cartridge: an unlit one.

* `frontend`: two ROMs, a queue of three events, two buttons of one pin and two of
  one group. `PadMatchesKeys` compares what a program will read with the keys held;
  `PauseStopsFrames`; `CloseReturns`, with the one exception of a worker inside
  a ROM that shows no frame. Fairness is on the worker thread: Qt runs its event
  loop. Nothing is assumed of the user or of the timers. The window may stay open
  with nothing to do or crash (`UseNull`), so deadlock is not checked.

## Findings

* `cpu_nested`: an EI executed while IME is set leaves its request pending; if
  an interrupt is dispatched first, the next tick sets IME again and may dispatch
  another before the first handler's first instruction. The comment promises that
  the next tick begins handling it.
* `pixel_scx`: the position at which the background is enabled is compared for
  equality with the current SCX; a change of its low bits just after mode 3 begins
  steps over it, and the line never ends.

Switching the LCD off in mode 3 (`ppu.cpp:62`) leaves fetcher, FIFO and pending
sprite for the next line; `pixel_live` shows that this line nevertheless ends.

Behaviour of the code that no comment, doc or test contradicts, or that no run is
spent on, and that the models keep as it is:

* `mBgEnabled` of the FIFO is not set by the constructor (`pixelfifo.cpp:7`): on the
  first line after power-on the background may be loaded early.
* MBC1 asks whether RAM is enabled when it reads, not when it writes
  (`cart_mbc1.cpp:37`). `tests/cart_tests.cpp:165` says that a write to RAM that is off
  on power up does nothing; the test reads while RAM is still off and so cannot see the
  stored byte. MBC2 and MBC5 do ask (`cart_mbc2.cpp:30`, `cart_mbc5.cpp:25`). No run is
  spent on it: the model stores as the code does.
* MBC2 reads RAM without checking the address against its 512 bytes
  (`cart_mbc2.cpp:46`), which its writes do check.
* DI does not drop the request of an EI before it (`cpu_opcodes.cpp:60`): after
  EI; DI interrupts are on again two ticks later.
* `INC (HL)` of 0xff stores 0 with Z off, for its cache is a word
  (`cpu_opcodes.cpp:131`), and `LD HL,SP+r8` takes its displacement without a sign
  (`:800`) where `ADD SP,r8` extends it. `ArithmeticExact` states both.
* A DMA from 0xa0-0xbf or from 0xe0 on copies 0xff: the code looks in RAM, which
  begins at 0xc0 and is not echoed there (`io_oam_dma.cpp:73`).
* A failed load leaves the memory map and the DMA with the deleted cartridge
  (`boldboy.cpp:39`): `UseDeleted` and `DmaUsesDeleted` are reachable, and
  `SafeWithCart` says that only a failed load leads there.
* With both groups of buttons selected the two halves of the mask are combined by
  exclusive or (`io_joypad.cpp:25`), so two held buttons of one pin read as none.
* Before the first ROM `mRunning` is not initialised and timer and worker are null:
  pressing Z, T or L and releasing T may use them (`boldboyqt.cpp:50-63`, `:71`).

## Proofs

All theorems hold for every value of the constants that satisfies the named
assumptions of the modules.

* `CpuControl_proofs`. `Invariance` proves the types, `Consistent` and `ImeInv`.
  The invariant has to say when the DELAY flag can be set (only right after an EI
  has retired) and that `event` tells whether an instruction is under way; without
  them the EI shadow is not inductive. From it follow `EiShadowHolds`,
  `NestedEntryHolds`, `RequestsKeptHolds` and `BoundaryDecisionHolds`, each an action
  property proved with one case per action. `LowestFound` supplies that a nonempty
  set of interrupts has a lowest. `DurationExactHolds` needs `OnTime`: the cycles
  spent and those the remaining microsteps take add up to the duration of the table,
  which holds at the first microstep because the two tables agree (`TableFits`).
* `Timer_proofs`. `Invariance` proves that in the middle of a call TIMA and the
  request are already what the closed form gives for the cycles done
  (`Accumulated`). The step needs two facts: the selected bit falls exactly at
  the multiples of the period (`SysMod` is a multiple of it, so also across the
  wrap), and counting e + 1 increments is counting e and incrementing, through any
  number of reloads. `Implements` is the refinement `Spec => ImplementsTimerSpec`:
  the last cycle of a call is an `Elapse` step, every other cycle a stutter, and
  every write the write of the abstract register.
* `PpuTiming_proofs`. `ClockInvariance` proves `ClockExact` and `ModeWindow`
  together: the end of a line consumes exactly what is left of it because the mode
  windows say which mode it ends in. `ModeWindowHolds` states the second;
  `WindowLineHolds` and `VBlankOnEntryHolds` use both; `CoincidenceFreshHolds` is
  inductive by itself, every `setLine` comparing anew.
* `OamSearch_proofs`. `Inv` says what the scan has found among the entries it has
  looked at and which places the sort has settled; `CompareInv` is the step that
  exchanges two objects, where the ones behind keep their elements and the one at
  `idx` stays first of those compared because the comparison is a strict total
  order. `SortedHolds` and `SelectionHolds` follow.
* `PixelTransfer_proofs`. `LockedForSpriteHolds`: fetcher and queue are `Paired`
  (their shape, and lock if and only if a sprite is pending) through each
  operator of `Fetcher` and `PixelOps`, hence through each action.
  `XferBoundedHolds` is for tiles of at least 7 pixels (the code's have 8) and an
  inductive budget (`BudgetInv`): on a line whose registers are left alone, the
  cycles spent and those still `Owed` are paid for by pixels shifted, objects
  started and the window. `Steady` is why: the fetcher has the next line ready
  before the queue runs dry (`Lead`) except in the window it has just entered, and
  no sprite's fetch gets ahead of the background's. `TickIs` and `TickNumbers` say
  what one call of `Fetcher::tick` does to states and lengths, `PlainTick`,
  `SpriteTick`, `StartIs`, `WindowIs` and `PoppedIs` what each operation owes
  afterwards, and `WindowedIs` splits a cycle into the two outcomes that
  `EatenClean` and `ShiftedClean` then balance. With it the assumption on the
  length of mode 3 in `PpuTiming` rests on a theorem for these
  lines; of the others only `LineEnds` is checked.

  `PixelCorrectHolds` adds a description of the line in the pipe (`LineInv`, with
  `Composed` for fetcher and queues): the background queue holds the map's pixels
  from the next position on and the fetcher the tile after them (`Follows`), each
  place of the object queue shows the first opaque one of the objects mixed in so far
  (`Layered`), objects have been started in order of position up to the present one
  (`Started`), and the window is in force from WX - 7 on and not before (`InMode`).
  `TickFollows` and `MixLayered` carry them through a call of `Fetcher::tick`,
  `WindowFollows` through the window's beginning, `PoppedComposed` through a pixel
  shifted out; `HeadBackground` and `DrawnIs` then read off that the pixel drawn is
  `Reference`. A fetched tile is named by its column, so the proof needs what
  remainders do under addition (`Divided`, `SumRemainder`, `TileRemainder`). It is for
  screens no wider than the map (160 and 256) and, like the property, for windows
  with WX of at least 7. From the object search it takes only that the list is
  sorted (`ObjListsAssumption`); `ObjEntriesAssumption`, `ScxAssumption` and
  `WxAssumption` say that entries and the registers' values have their types.

  `TypesHold` rests on `TypeInv`: a line is loaded only into an empty queue, a
  sprite's line is mixed into the places already there, and a search that finds fewer
  objects keeps the entries up to the one the fetcher still points to.
* `Cartridge_proofs`. `Inv` says that the halves asked for have the widths of the
  class's registers and make the bank number, and that every cell agrees with the
  one place it belongs to; one lemma for each effect of a write, then one for
  each controller. `OffsetInjective` is why banks do not share memory. `TypesHold`,
  `HalvesKeptHolds`, `SwitchedSlotHolds` and `RamIsHeld` follow.
* `Machine_proofs`. `IInv` joins the types, `SafeWithCart` and `IntrusionsOverwritten`
  with what makes them inductive: `CartsAgree` (memory map and DMA point to the same
  cartridge, so a load repairs both or a failed one spoils both) and `DmaFollowed`
  (the PPU's flag is the DMA's activity, and until a restart the cycles left and the
  age add up to the delay), from which `OamBlocked` follows. `DmaReadsAsCpuHolds` goes
  through the decoding: each page the DMA takes from a region by itself is one that
  `Route` sends to the same region (`CartRoute`, `VramRoute`, `RamRoute`).
  Its second part is about `FrontEnd`. `PadMatchesKeysHolds` rests on `PadInv`: for
  every ROM and button, what the last event under way decides, or the mask if there
  is none (`Down`), is what has been held since the ROM was opened. `ConcatDown` says
  what events posted behind the queue change, `TailDown` what serving its first one
  does; a ROM just opened has no event under way because every event is for a ROM
  that was opened before it.
* `Datapath_proofs`. For every program of well-formed instructions (`Instr`) and
  every operand. `IInv` joins the types, `ArithmeticExact`, `ShiftExact` and `Midway`:
  between two calls of an instruction that is still to compute nothing but PC has
  moved, and the byte it keeps is the one memory holds, so what the last call computes
  from the cache is what the instruction was asked for. That the parity of three bits
  is the carry out of the digits below them (`Parity`, `CarryIsReal`) is proved for the
  half and the full carry of bytes and words; one lemma per kind of instruction turns
  it into the flags. `MachineTyped`, `ArithmeticExactHolds`, `ShiftExactHolds` and
  `LowNibbleStaysHolds` follow. Three more properties need more of the history:
  * `BcdExactHolds` adds `Remembered` (the history holds typed states and well-formed
    instructions). That `ArithmeticExact` holds of the instruction before DAA says what
    DAA finds in A, H and C (`JustDone`); `DecimalSum` and `DecimalDifference` are the
    arithmetic of the two digits.
  * `MicrostepsAgreeHolds` adds `Committed`: a conditional instruction past its first
    decision was taken, which stays so because no flag changes before its last call.
    It is what makes the handler of JP cc, which tests the flags on every call, keep to
    one family; RET cc decides in its first call and CALL cc in its third.
  * `PopMatchesHolds` adds `StackInv`: the words pushed and not yet popped lie in
    memory from `Top` on, where `Top` allows for a CALL or a RET half way through a
    word and `Midstack` says which half. A write below the stack meets none of its
    words (`WrittenBelow`) because the stack cannot fill the address space
    (`Room`), and that rests on `RamAssumption`: some address has no memory behind it.

Model-checked only: all liveness (fairness and ENABLED are beyond the prover).

## Not modelled

* Rows, tile addressing, palettes, SCY and WY in the pixel transfer: functions of
  registers that no order of events changes within a line. The two ring buffers of
  the FIFO are sequences; `TypesHold` of `PixelTransfer_proofs` shows that they never
  hold more than 8 of the 16 they have room for.
* All devices together in one state machine: `Bus` composes the CPU's accesses, the
  DMA, the PPU's modes and the cartridge; timer and interrupt requests meet the CPU
  as `DeviceTick` in `CpuControl`, which allows every order, so a larger product would
  add states and no interleaving.
* High RAM's contents, the boot ROM's, the clock of MBC3 (a TODO in the code).
* The serial port (a transfer is completed inside the register write), the logger
  and the serial console (output only), the command line front end (a terminal
  around `run`), the table generator (a build-time text transformation), the tests
  and their harness.
