------------------------------ MODULE InputLoop ------------------------------
(***************************************************************************)
(* src/src/main.c, sdv_run_input_loop: the main thread polls the controller*)
(* each 8 ms and turns its state into key edges, into touches at a cursor  *)
(* of its own and into camera zoom, while the game runs in other threads.  *)
(*                                                                         *)
(* A tick is cut where the loop calls out, so the game may move between    *)
(* two of its steps.  The screen has one axis; an input is a button or a   *)
(* direction of a stick beyond its dead zone.  SDV_TEST_KEY is not set.    *)
(***************************************************************************)
EXTENDS Integers, FiniteSets

CONSTANTS Inputs,        \* what the controller has, a subset of AllInputs
          CursorEnabled, \* there is a touch callback and SDV_RIGHT_CURSOR is not 0
          DpadZoom,      \* SDV_DPAD_ZOOM is not 0
          Disconnects,   \* the controller may go away
          Width,         \* bound: cursor positions, for the pixels of a line
          HideAfter,     \* bound: elapsed time in steps, for 2 s
          Period,        \* bound: the same for SDV_ZOOM_PERIOD
          ZoomMax        \* bound: zoom levels, for 0.40 to 2.5

AllInputs == {"a", "select", "start", "r3", "cursorLeft", "cursorRight", "stickUp", "up", "down"}

ASSUME InputAssumption ==
  /\ Inputs \subseteq AllInputs
  /\ {CursorEnabled, DpadZoom, Disconnects} \subseteq BOOLEAN
  /\ Width \in Nat \ {0} /\ HideAfter \in Nat \ {0}
  /\ Period \in Nat \ {0} /\ ZoomMax \in Nat \ {0}

VARIABLES
  pc, pad, connected,         \* where the tick stands, and what it polled
  previous,                   \* logical keys of the last tick
  cursor, visible, touchDown, \* cursor_x, cursor_visible, cursor_touch_down
  r3Was, r3Mode,              \* r3_was_down and the role of the current press
  idle,                       \* now - last_cursor_activity
  zoomPrev,                   \* zoom_prev_dir
  zoomState, level, sinceApply,  \* g_zoom.state, g_zoom.level, now - last_apply
  exitRequested,              \* g_exit_requested
  drawn,                      \* the bridge's cursor, as the next swap draws it
  held, touch,                \* what the game believes is pressed and touched
  game, desired,              \* how far its boot is, and its own zoom level
  menu                        \* history: it changed its zoom while none was held

loop == <<previous, cursor, visible, touchDown, r3Was, r3Mode, idle>>
zoom == <<zoomPrev, zoomState, level, sinceApply>>
outside == <<exitRequested, game>>
vars == <<pc, pad, connected, loop, zoom, outside, drawn, held, touch, desired, menu>>

PC == {"poll", "cursor", "r3", "zoom", "step", "gone", "hide", "keys", "ended", "exited"}
Position == 0..(Width - 1)
Key == {"a", "select", "start", "keyUp", "keyDown", "map"}
Role == {"none", "button", "click"}

LeastOf(a, b) == IF a < b THEN a ELSE b
Clamp(x, lo, hi) == IF x < lo THEN lo ELSE IF x > hi THEN hi ELSE x
Goto(from, to) == pc = from /\ pc' = to

-----------------------------------------------------------------------------
\* The game's touch dispatcher: no touch, a touch at a position, or a stream of
\* events that is not DOWN, MOVE ... MOVE, UP or CANCEL.
NoTouch == [state |-> "up", at |-> 0]

\* What it reads from the event by getAction and getX, getY.
Touched(event) ==
  IF (event.action = "down") = (touch.state = "up") /\ touch.state # "broken"
  THEN IF event.action \in {"down", "move"} THEN [state |-> "down", at |-> event.x] ELSE NoTouch
  ELSE [state |-> "broken", at |-> 0]

\* The one motion event of the shim: the callback reads it before the next is sent.
MotionEvent(action) == [action |-> action, x |-> cursor']

SendTouch(action) == touch' = Touched(MotionEvent(action))

SetRightCursor(x, v) == drawn' = [x |-> Clamp(x, 0, Width - 1), visible |-> v]

-----------------------------------------------------------------------------
\* The loop's exit, on SDL_QUIT or a signal seen at the head of the loop.
End ==
  /\ Goto("poll", "ended")
  /\ UNCHANGED cursor
  /\ IF touchDown THEN SendTouch("cancel") ELSE UNCHANGED touch
  /\ SetRightCursor(cursor, FALSE)
  /\ UNCHANGED <<pad, connected, previous, visible, touchDown, r3Was, r3Mode, idle,
                 zoom, outside, held, desired, menu>>

\* sdv_egl_poll_gamepad: the state of a controller, or none.
Poll ==
  /\ pc = "poll" /\ ~exitRequested
  /\ \/ /\ pc' = "cursor" /\ connected' = TRUE
        /\ \E p \in SUBSET Inputs : {"cursorLeft", "cursorRight"} \ p # {} /\ pad' = p
     \/ Disconnects /\ pad' = {} /\ connected' = FALSE /\ pc' = "gone"
  /\ \E elapsed \in 1..HideAfter : /\ idle' = LeastOf(idle + elapsed, HideAfter)
                                   /\ sinceApply' = LeastOf(sinceApply + elapsed, Period)
  /\ UNCHANGED <<previous, cursor, visible, touchDown, r3Was, r3Mode, zoomPrev, zoomState,
                 level, outside, drawn, held, touch, desired, menu>>

\* The right stick: how far depends on its tilt and on the time that passed.
MoveCursor ==
  /\ Goto("cursor", "r3")
  /\ IF CursorEnabled /\ pad \cap {"cursorLeft", "cursorRight"} # {}
     THEN /\ \E n \in Position : cursor' = Clamp(IF "cursorLeft" \in pad THEN cursor - n
                                                 ELSE cursor + n, 0, Width - 1)
          /\ visible' = TRUE /\ idle' = 0
          /\ SetRightCursor(cursor', TRUE)
          /\ IF touchDown THEN SendTouch("move") ELSE UNCHANGED touch
     ELSE UNCHANGED <<cursor, visible, idle, drawn, touch>>
  /\ UNCHANGED <<pad, connected, previous, touchDown, r3Was, r3Mode, zoom, outside,
                 held, desired, menu>>

\* A variant in which the role follows the cursor instead of the edge.
R3ByCursor ==
  /\ Goto("r3", "zoom")
  /\ UNCHANGED cursor
  /\ IF CursorEnabled /\ "r3" \in pad
     THEN IF visible
          THEN /\ r3Mode' = IF r3Was THEN r3Mode ELSE "click"
               /\ touchDown' = TRUE /\ idle' = 0
               /\ IF touchDown THEN UNCHANGED touch ELSE SendTouch("down")
          ELSE r3Mode' = "button" /\ UNCHANGED <<touchDown, idle, touch>>
     ELSE IF CursorEnabled /\ r3Was
          THEN /\ r3Mode' = "none" /\ touchDown' = FALSE
               /\ IF touchDown THEN SendTouch("up") /\ idle' = 0 ELSE UNCHANGED <<touch, idle>>
          ELSE UNCHANGED <<r3Mode, touchDown, idle, touch>>
  /\ UNCHANGED <<pad, connected, previous, visible, r3Was, zoom, outside, drawn, held, desired, menu>>

\* R3 by its edges: a click while the cursor is visible, else the native button.
R3 ==
  /\ pc = "r3"
  /\ UNCHANGED cursor
  /\ IF CursorEnabled /\ "r3" \in pad /\ ~r3Was
     THEN IF visible
          THEN r3Mode' = "click" /\ touchDown' = TRUE /\ idle' = 0 /\ SendTouch("down")
          ELSE r3Mode' = "button" /\ UNCHANGED <<touchDown, idle, touch>>
     ELSE IF CursorEnabled /\ "r3" \notin pad /\ r3Was
          THEN /\ r3Mode' = "none"
               /\ IF r3Mode = "click"
                  THEN touchDown' = FALSE /\ idle' = 0 /\ SendTouch("up")
                  ELSE UNCHANGED <<touchDown, idle, touch>>
          ELSE UNCHANGED <<r3Mode, touchDown, idle, touch>>
  /\ pc' = IF {"select", "start"} \subseteq pad THEN "exited" ELSE "zoom"
  /\ UNCHANGED <<pad, connected, previous, visible, r3Was, zoom, outside, drawn, held, desired, menu>>

-----------------------------------------------------------------------------
Direction == IF "up" \in pad /\ "down" \notin pad THEN 1
             ELSE IF "down" \in pad /\ "up" \notin pad THEN -1 ELSE 0

PressBegins == DpadZoom /\ Direction # 0 /\ zoomPrev = 0

\* A direction is held: noted by an earlier tick, or begun in this one.
Pressed == zoomPrev # 0 \/ (pc = "step" /\ PressBegins)

\* sdv_zoom_init: the class lookups wait for the assembly; a member that is
\* missing turns the zoom off for good.
ZoomStates == IF zoomState = "new" /\ game # "booting" THEN {"ok", "failed"} ELSE {zoomState}

\* sdv_zoom_begin, at the start of a press.
LevelAtBegin(s) == IF s = "ok" /\ game = "options" THEN desired ELSE level

\* A variant that keeps the level of the last press.
BeginCached ==
  /\ Goto("zoom", "step")
  /\ IF PressBegins
     THEN \E s \in ZoomStates : /\ zoomState' = s
                               /\ level' = IF level = 0 THEN LevelAtBegin(s) ELSE level
     ELSE UNCHANGED <<zoomState, level>>
  /\ UNCHANGED <<pad, connected, loop, zoomPrev, sinceApply, outside, drawn, held, touch, desired,
                 menu>>

\* The D-pad as zoom.  A press reads the game's level once.
ZoomBegin ==
  /\ Goto("zoom", "step")
  /\ IF PressBegins
     THEN \E s \in ZoomStates : /\ zoomState' = s /\ level' = LevelAtBegin(s)
                               /\ menu' = (menu /\ ~(s = "ok" /\ game = "options"))
     ELSE UNCHANGED <<zoomState, level, menu>>
  /\ UNCHANGED <<pad, connected, loop, zoomPrev, sinceApply, outside, drawn, held, touch, desired>>

\* Each application (sdv_zoom_step) goes on from the level that the loop has read or
\* written last, whatever the game does meanwhile.
ZoomStep ==
  /\ Goto("step", "hide")
  /\ IF DpadZoom
     THEN LET apply == Direction # 0 /\ zoomState = "ok" /\ level > 0 /\ sinceApply >= Period
              to == IF apply THEN Clamp(level + Direction, 1, ZoomMax) ELSE level
          IN /\ zoomPrev' = Direction /\ level' = to
             /\ sinceApply' = IF apply THEN 0 ELSE sinceApply
             /\ desired' = IF to # level /\ game = "options" THEN to ELSE desired
     ELSE UNCHANGED <<zoomPrev, level, sinceApply, desired>>
  /\ UNCHANGED <<pad, connected, loop, zoomState, outside, drawn, held, touch, menu>>

\* A variant that cancels the touch but does not note it.
GoneForgetting ==
  /\ Goto("gone", "hide")
  /\ UNCHANGED cursor
  /\ IF CursorEnabled /\ r3Was
     THEN /\ r3Mode' = "none" /\ UNCHANGED touchDown
          /\ IF r3Mode = "click" THEN SendTouch("cancel") ELSE UNCHANGED touch
     ELSE UNCHANGED <<r3Mode, touchDown, touch>>
  /\ UNCHANGED <<pad, connected, previous, visible, r3Was, idle, zoom, outside, drawn,
                 held, desired, menu>>

\* No controller: a click in progress is cancelled.
Gone ==
  /\ Goto("gone", "hide")
  /\ UNCHANGED cursor
  /\ IF CursorEnabled /\ r3Was
     THEN /\ r3Mode' = "none"
          /\ IF r3Mode = "click" THEN touchDown' = FALSE /\ SendTouch("cancel")
                                 ELSE UNCHANGED <<touchDown, touch>>
     ELSE UNCHANGED <<r3Mode, touchDown, touch>>
  /\ UNCHANGED <<pad, connected, previous, visible, r3Was, idle, zoom, outside, drawn,
                 held, desired, menu>>

\* A variant that hides the cursor under a touch as well.
HideAlways ==
  /\ Goto("hide", "keys")
  /\ r3Was' = ("r3" \in pad)
  /\ IF CursorEnabled /\ visible /\ idle >= HideAfter
     THEN visible' = FALSE /\ SetRightCursor(cursor, FALSE)
     ELSE UNCHANGED <<visible, drawn>>
  /\ UNCHANGED <<pad, connected, previous, cursor, touchDown, r3Mode, idle, zoom, outside,
                 held, touch, desired, menu>>

\* The cursor goes when it was not used for a while.
Hide ==
  /\ Goto("hide", "keys")
  /\ r3Was' = ("r3" \in pad)
  /\ IF CursorEnabled /\ visible /\ ~touchDown /\ idle >= HideAfter
     THEN visible' = FALSE /\ SetRightCursor(cursor, FALSE)
     ELSE UNCHANGED <<visible, drawn>>
  /\ UNCHANGED <<pad, connected, previous, cursor, touchDown, r3Mode, idle, zoom, outside,
                 held, touch, desired, menu>>

\* The Android keys of the inputs.  R3 is a key only in its role as a button.
Logical ==
  (pad \cap {"a", "select", "start"})
    \cup (IF "stickUp" \in pad \/ (~DpadZoom /\ "up" \in pad) THEN {"keyUp"} ELSE {})
    \cup (IF ~DpadZoom /\ "down" \in pad THEN {"keyDown"} ELSE {})
    \cup (IF connected /\ (r3Mode = "button" \/ (~CursorEnabled /\ "r3" \in pad))
          THEN {"map"} ELSE {})

\* A variant that sends keys only while there is a controller.
SendKeysConnected ==
  /\ Goto("keys", "poll")
  /\ IF connected
     THEN held' = (held \cup (Logical \ previous)) \ (previous \ Logical) /\ previous' = Logical
     ELSE UNCHANGED <<held, previous>>
  /\ pad' = {}
  /\ UNCHANGED <<connected, cursor, visible, touchDown, r3Was, r3Mode, idle, zoom, outside,
                 drawn, touch, desired, menu>>

\* The edges since the last tick go to the game.
SendKeys ==
  /\ Goto("keys", "poll")
  /\ held' = (held \cup (Logical \ previous)) \ (previous \ Logical)
  /\ previous' = Logical
  /\ pad' = {}                  \* the poll's result is not used again
  /\ UNCHANGED <<connected, cursor, visible, touchDown, r3Was, r3Mode, idle, zoom, outside,
                 drawn, touch, desired, menu>>

-----------------------------------------------------------------------------
\* SIGTERM or SIGINT
Signal ==
  /\ ~exitRequested /\ exitRequested' = TRUE
  /\ UNCHANGED <<pc, pad, connected, loop, zoom, game, drawn, held, touch, desired, menu>>

\* The game's boot, first its assembly and then its options.
GameBoots ==
  /\ \/ game = "booting" /\ game' = "loaded"
     \/ game = "loaded" /\ game' = "options"
  /\ UNCHANGED <<pc, pad, connected, loop, zoom, exitRequested, drawn, held, touch, desired, menu>>

\* The options menu, or a loaded save, sets another zoom level.
GameZooms ==
  /\ game = "options"
  /\ \E z \in 1..ZoomMax : z # desired /\ desired' = z
  /\ menu' = (menu \/ ~Pressed)
  /\ UNCHANGED <<pc, pad, connected, loop, zoom, outside, drawn, held, touch>>

Init ==
  /\ pc = "poll" /\ pad = {} /\ connected = FALSE
  /\ previous = {} /\ cursor = Width \div 2 /\ visible = FALSE /\ touchDown = FALSE
  /\ r3Was = FALSE /\ r3Mode = "none" /\ idle = HideAfter
  /\ zoomPrev = 0 /\ zoomState = "new" /\ level = 0 /\ sinceApply = Period
  /\ exitRequested = FALSE
  /\ drawn = [x |-> Width \div 2, visible |-> FALSE]
  /\ held = {} /\ touch = NoTouch
  /\ game = "booting" /\ desired = 1 /\ menu = FALSE

Tick == Poll \/ MoveCursor \/ R3 \/ ZoomBegin \/ ZoomStep \/ Gone \/ Hide \/ SendKeys
Next == Tick \/ End \/ Signal \/ GameBoots \/ GameZooms

Spec == Init /\ [][Next]_vars

\* The loop goes on; callbacks into the game return.
FairSpec == Spec /\ WF_vars(Tick) /\ WF_vars(exitRequested /\ End)

-----------------------------------------------------------------------------
TypeOK ==
  /\ pc \in PC /\ pad \subseteq Inputs /\ connected \in BOOLEAN
  /\ previous \subseteq Key /\ held \subseteq Key /\ cursor \in Position
  /\ visible \in BOOLEAN /\ touchDown \in BOOLEAN
  /\ r3Was \in BOOLEAN /\ r3Mode \in Role /\ idle \in 0..HideAfter
  /\ zoomPrev \in -1..1 /\ zoomState \in {"new", "ok", "failed"}
  /\ level \in 0..ZoomMax /\ sinceApply \in 0..Period
  /\ exitRequested \in BOOLEAN
  /\ drawn \in [x : Position, visible : BOOLEAN]
  /\ touch \in [state : {"up", "down", "broken"}, at : Position]
  /\ game \in {"booting", "loaded", "options"} /\ desired \in 1..ZoomMax /\ menu \in BOOLEAN

\* The game sees whole touches only, DOWN, MOVEs, then UP or CANCEL, through
\* every order of presses, disconnects and exits (main.c:661-682, 727-734).
TouchWellFormed ==
  /\ touch.state # "broken"
  /\ pc = "ended" => touch.state = "up" /\ ~drawn.visible

\* A touch lies under the tip of a cursor that the player can see.
TouchAtTip == touch.state = "down" => drawn.visible /\ drawn.x = touch.at

\* One press of R3 is a click or a button, never both ("decidido na borda").
R3OneRole == ~(touch.state = "down" /\ "map" \in held)

\* A controller that is gone leaves nothing pressed behind.
GoneReleasesAll == pc = "poll" /\ ~connected => held = {} /\ touch.state = "up"

\* A step of zoom never discards a level that the game set while the D-pad was
\* released (main.c:434-436).  What the game sets between the getter and the setter is set
\* during the press.  A direction held when the controller goes away is
\* not released: the loop leaves zoom_prev_dir alone until the next controller.
ZoomKeepsMenuChange == [][pc = "step" /\ pc' = "hide" /\ desired' # desired => ~menu']_vars

\* The cursor hides when it is left alone ("auto-hides after 2 s").
CursorHides == <>[](idle # 0 /\ touch.state = "up") => <>[](~drawn.visible \/ pc = "exited")
=============================================================================
