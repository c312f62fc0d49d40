------------------------------ MODULE FrontEnd ------------------------------
(***************************************************************************)
(* The Qt front end (app/qt/BoldboyQT): the window with its timer, which   *)
(* live in the main thread, and the emulators, which all live in one       *)
(* worker thread and are called through its event queue.  An action of the *)
(* window is one event handler; the worker takes one event at a time.      *)
(* A ROM is lit when its program keeps reaching VBlank: waitForFrame of    *)
(* any other, one that failed to load included, never returns.  Its Init   *)
(* and Next carry the module's name: Machine_proofs extends Bus as well.   *)
(***************************************************************************)
EXTENDS Joypad, Sequences

CONSTANTS Keys,      \* the buttons of which keys are pressed
          MaxRoms,   \* bound: ROMs opened
          MaxQueue   \* bound: events waiting for the worker thread

ASSUME KeysAssumption == Keys \subseteq Button
ASSUME BoundsAssumption == MaxRoms \in Nat /\ MaxQueue \in Nat

VARIABLES mRunning,  \* uninitialised before the first ROM
          mTimer,    \* the last ROM opened, with mWorker; 0 is NULL
          timers,    \* for each ROM opened: is its timer active
          workers,   \* for each ROM opened: [lit, mMask]
          queue,     \* events posted to the worker thread
          drawing,   \* the worker whose drawFrame is running, or 0
          window,    \* "open", "waiting" for the thread, "closed", "crashed"
          held,      \* the keys that are down
          heldBy     \* history: for each ROM, those pressed since it was opened

roms == <<timers, workers, heldBy>>
frontEndVars == <<mRunning, mTimer, roms, queue, drawing, window, held>>

Opened == DOMAIN workers

\* key is, for a frame, who asks for it: the timer or F.
Draw(w, by) == [to |-> w, call |-> "draw", key |-> by, pressed |-> FALSE]
Key(w, k, pressed) == [to |-> w, call |-> "key", key |-> k, pressed |-> pressed]

FrontEndInit ==
  /\ mRunning \in BOOLEAN /\ mTimer = 0
  /\ timers = <<>> /\ workers = <<>> /\ heldBy = <<>>
  /\ queue = <<>> /\ drawing = 0 /\ window = "open" /\ held = {}
-----------------------------------------------------------------------------
(* The window *)

Open == window = "open"

\* A signal reaches every worker it was ever connected to, in that order.
Emit(event(_)) ==
  /\ Len(queue) + Len(workers) <= MaxQueue
  /\ queue' = queue \o [w \in Opened |-> event(w)]

\* on_actionOpen_triggered and loadRom; the file may be no ROM, or none at
\* all when the dialog is cancelled.  The ROM opened before stays connected.
LoadRom ==
  /\ Open /\ Len(workers) < MaxRoms
  /\ \E lit \in BOOLEAN : workers' = Append(workers, [lit |-> lit, mMask |-> {}])
  /\ timers' = Append(timers, TRUE)
  /\ mTimer' = Len(workers) + 1 /\ mRunning' = TRUE
  /\ heldBy' = Append(heldBy, {})
  /\ UNCHANGED <<queue, drawing, window, held>>

\* Z, L and T, pressed while mRunning is not initialised, and T when it is
\* released: before the first ROM there is neither a timer nor a worker.
UseNull ==
  /\ Open /\ mTimer = 0
  /\ window' = "crashed"
  /\ UNCHANGED <<mRunning, mTimer, roms, queue, drawing, held>>

TimersAfter_NotStopped == timers
TimersAfter == [timers EXCEPT ![mTimer] = ~mRunning]

TogglePause ==
  /\ Open /\ mTimer # 0
  /\ mRunning' = ~mRunning /\ timers' = TimersAfter
  /\ UNCHANGED <<mTimer, workers, heldBy, queue, drawing, window, held>>

SingleFrame ==
  /\ Open /\ ~mRunning
  /\ LET event(w) == Draw(w, "F") IN Emit(event)
  /\ UNCHANGED <<mRunning, mTimer, roms, drawing, window, held>>

\* A key that is a button, with the repetitions of the keyboard.
KeyEvent(k, pressed) ==
  /\ Open
  /\ LET event(w) == Key(w, k, pressed) IN Emit(event)
  /\ held' = IF pressed THEN held \cup {k} ELSE held \ {k}
  /\ heldBy' = [w \in Opened |-> IF pressed THEN heldBy[w] \cup {k} ELSE heldBy[w] \ {k}]
  /\ UNCHANGED <<mRunning, mTimer, timers, workers, drawing, window>>

\* The timer of ROM w: the window's thread delivers no timeout in wait().
Timeout(w) ==
  /\ Open /\ timers[w] /\ Len(queue) < MaxQueue
  /\ queue' = Append(queue, Draw(w, "timer"))
  /\ UNCHANGED <<mRunning, mTimer, roms, drawing, window, held>>

\* The destructor, up to wait().
Close ==
  /\ Open
  /\ window' = IF mTimer = 0 THEN "closed" ELSE "waiting"
  /\ timers' = IF mTimer = 0 THEN timers ELSE [timers EXCEPT ![mTimer] = FALSE]
  /\ UNCHANGED <<mRunning, mTimer, workers, heldBy, queue, drawing, held>>
-----------------------------------------------------------------------------
(* The worker thread; it is running from the first ROM on *)

Takes(call) ==
  /\ window \in {"open", "waiting"}
  /\ drawing = 0 /\ queue # <<>> /\ Head(queue).call = call
  /\ queue' = Tail(queue)

BeginFrame ==
  /\ Takes("draw")
  /\ drawing' = Head(queue).to
  /\ UNCHANGED <<mRunning, mTimer, roms, window, held>>

\* waitForFrame has seen VBlank.
Returns(w) == workers[w].lit

\* The worker would hand the frame to the window's thread and wait for it.
EndFrame_Blocking ==
  /\ window = "open"
  /\ drawing # 0 /\ Returns(drawing)
  /\ drawing' = 0
  /\ UNCHANGED <<mRunning, mTimer, roms, queue, window, held>>
EndFrame ==
  /\ window \in {"open", "waiting"}
  /\ drawing # 0 /\ Returns(drawing)
  /\ drawing' = 0
  /\ UNCHANGED <<mRunning, mTimer, roms, queue, window, held>>

KeyPressed ==
  /\ Takes("key")
  /\ LET e == Head(queue)
     IN workers' = [workers EXCEPT ![e.to].mMask =
                      IF e.pressed THEN ButtonPressed(@, e.key) ELSE ButtonReleased(@, e.key)]
  /\ UNCHANGED <<mRunning, mTimer, timers, heldBy, drawing, window, held>>

\* quit() takes effect between two events, and wait() returns; the rest of
\* the queue may have been served or not.
ThreadEnds ==
  /\ window = "waiting" /\ drawing = 0
  /\ window' = "closed"
  /\ UNCHANGED <<mRunning, mTimer, roms, queue, drawing, held>>
-----------------------------------------------------------------------------
Worker == BeginFrame \/ EndFrame \/ KeyPressed \/ ThreadEnds

FrontEndNext ==
  \/ LoadRom \/ UseNull \/ TogglePause \/ SingleFrame \/ Close
  \/ \E k \in Keys, pressed \in BOOLEAN : KeyEvent(k, pressed)
  \/ \E w \in Opened : Timeout(w)
  \/ Worker

\* The thread runs its event loop and ends it after quit().
FrontEndSpec == FrontEndInit /\ [][FrontEndNext]_frontEndVars /\ WF_frontEndVars(Worker)
-----------------------------------------------------------------------------
(* Correctness *)

Stuck == drawing # 0 /\ ~workers[drawing].lit

\* Closing the window ends the program, whatever is queued and however many
\* ROMs were opened, unless the thread is inside a ROM that shows no frame.
CloseReturns == (window = "waiting") ~> (window = "closed" \/ Stuck)

\* With one ROM open, a pause that lasts ends the frames the timer asks for,
\* those that were queued before it included.
Paused == window = "open" /\ Len(workers) = 1 /\ workers[1].lit /\ ~mRunning
TimerQuiet == \A i \in DOMAIN queue : queue[i].key # "timer"
PauseStopsFrames == <>[]Paused => <>[]TimerQuiet

\* The events of button k still to be served to worker w.
Posted(w, k) ==
  {i \in DOMAIN queue : queue[i].call = "key" /\ queue[i].to = w /\ queue[i].key = k}

\* The mask worker w will have once its events are served: the last event
\* of each button decides.
Served(w) ==
  {k \in Button :
    IF Posted(w, k) = {} THEN k \in workers[w].mMask
    ELSE \E i \in Posted(w, k) : queue[i].pressed /\ \A j \in Posted(w, k) : j <= i}

\* Each emulator sees the keys in the order they were pressed and released:
\* when its events are served, what a program reads with either group of
\* buttons selected is what has been held down since the ROM was opened.
PadMatchesKeys ==
  window = "open" =>
    \A w \in Opened :
      \A group \in {P14, P15} :
        LowPins(Served(w), {group}) = {PinOf[b] : b \in heldBy[w] \cap group}
=============================================================================
