-------------------------- MODULE InputLoop_proofs --------------------------
(***************************************************************************)
(* Theorems about the input loop: its invariant ties the role of R3 to the *)
(* press that chose it, at each point of the tick, and what the game saw   *)
(* of touches and keys to the loop's own variables.                        *)
(***************************************************************************)
EXTENDS InputLoop, TLAPS

\* The role belongs to the press: of the last tick before R3 has looked at the pad,
\* of this tick after it.
RoleOfPress ==
  IF ~CursorEnabled THEN r3Mode = "none"
  ELSE /\ pc \in {"poll", "cursor", "r3", "gone", "keys"} => (r3Was <=> r3Mode # "none")
       /\ pc \in {"zoom", "step", "hide"} => ("r3" \in pad <=> r3Mode # "none")

\* Without a controller nothing is on the pad.
Unplugged ==
  /\ pc \in {"cursor", "r3", "zoom", "step"} => connected
  /\ pc = "gone" => ~connected
  /\ ~connected => pad = {}
  /\ pc = "keys" => (r3Was <=> "r3" \in pad)
  /\ pc = "poll" /\ ~connected => ~r3Was /\ held = {}

\* The loop and the game agree about the touch, and about the cursor over it.
TouchAgrees ==
  IF pc = "ended" THEN touch.state = "up" /\ ~drawn.visible
  ELSE /\ touch.state = (IF r3Mode = "click" THEN "down" ELSE "up")
       /\ touchDown <=> r3Mode = "click"
       /\ touchDown => visible /\ touch.at = cursor
       /\ drawn.visible = visible
       /\ visible => drawn.x = cursor

\* The key of R3 is down only while R3 is a button, or was until this tick.
KeyAgrees ==
  /\ held = previous
  /\ CursorEnabled /\ "map" \in held /\ pc # "ended" =>
       IF pc \in {"poll", "cursor", "r3", "gone"} THEN r3Mode = "button" ELSE r3Mode # "click"

\* A press that may change the zoom has looked at the level that the game set before it.
PressIsFresh ==
  /\ menu => game = "options"
  /\ Pressed /\ zoomState = "ok" => ~menu

LoopInv == RoleOfPress /\ Unplugged /\ TouchAgrees /\ KeyAgrees

-----------------------------------------------------------------------------
\* What is sent to the bridge or to the game keeps its type.
LEMMA DrawnTyped ==
  ASSUME NEW x \in Position, NEW v \in BOOLEAN, SetRightCursor(x, v)
  PROVE  drawn' = [x |-> x, visible |-> v] /\ drawn' \in [x : Position, visible : BOOLEAN]
BY InputAssumption DEF SetRightCursor, Clamp, Position

LEMMA TouchTyped ==
  ASSUME NEW action \in {"down", "move", "up", "cancel"}, cursor' \in Position, SendTouch(action)
  PROVE  touch' \in [state : {"up", "down", "broken"}, at : Position]
<1>1. 0 \in Position
  BY InputAssumption DEF Position
<1> QED BY <1>1 DEF SendTouch, Touched, MotionEvent, NoTouch

LEMMA LogicalTyped == Logical \subseteq Key
BY DEF Logical, Key

\* The types of the loop's, the bridge's and the game's state.
THEOREM TypeCorrect == Spec => []TypeOK
<1>1. Init => TypeOK
  <2> SUFFICES ASSUME Init PROVE TypeOK
    OBVIOUS
  <2>1. Width \div 2 \in Position /\ 0 \in Position
    BY InputAssumption DEF Position
  <2>2. 1 \in 1..ZoomMax /\ 0 \in 0..ZoomMax /\ HideAfter \in 0..HideAfter /\ Period \in 0..Period
    BY InputAssumption
  <2>3. /\ drawn \in [x : Position, visible : BOOLEAN]
        /\ touch \in [state : {"up", "down", "broken"}, at : Position]
    BY <2>1 DEF Init, NoTouch
  <2>4. visible \in BOOLEAN /\ touchDown \in BOOLEAN /\ r3Was \in BOOLEAN /\ connected \in BOOLEAN
        /\ exitRequested \in BOOLEAN /\ menu \in BOOLEAN
    BY DEF Init
  <2>5. pad \subseteq Inputs /\ previous \subseteq Key /\ held \subseteq Key
    BY DEF Init
  <2>6. zoomPrev \in -1..1 /\ level \in 0..ZoomMax /\ desired \in 1..ZoomMax
        /\ idle \in 0..HideAfter /\ sinceApply \in 0..Period
    BY <2>2 DEF Init
  <2> QED BY <2>1, <2>3, <2>4, <2>5, <2>6 DEF Init, TypeOK, PC, Role
<1>2. TypeOK /\ [Next]_vars => TypeOK'
  <2> SUFFICES ASSUME TypeOK, [Next]_vars PROVE TypeOK'
    OBVIOUS
  <2> USE InputAssumption DEF TypeOK, loop, zoom, outside
  <2>1. CASE Poll
    <3>1. idle' \in 0..HideAfter /\ sinceApply' \in 0..Period
      BY <2>1 DEF Poll, LeastOf
    <3>2. pc' \in PC /\ pad' \subseteq Inputs /\ connected' \in BOOLEAN
      BY <2>1 DEF Poll, Goto, PC
    <3> QED BY <2>1, <3>1, <3>2 DEF Poll
  <2>2. CASE MoveCursor
    <3>1. cursor' \in Position
      <4>1. \A n \in Position : Clamp(cursor - n, 0, Width - 1) \in Position
                             /\ Clamp(cursor + n, 0, Width - 1) \in Position
        BY DEF Clamp, Position
      <4> QED BY <2>2, <4>1 DEF MoveCursor
    <3>2. drawn' \in [x : Position, visible : BOOLEAN]
      BY <2>2, <3>1, DrawnTyped DEF MoveCursor
    <3>3. touch' \in [state : {"up", "down", "broken"}, at : Position]
      BY <2>2, <3>1, TouchTyped DEF MoveCursor
    <3>4. visible' \in BOOLEAN
      BY <2>2 DEF MoveCursor
    <3>5. idle' \in 0..HideAfter
      <4>1. idle' \in {0, idle}
        BY <2>2 DEF MoveCursor
      <4> QED BY <4>1
    <3>6. pc' \in PC
      BY <2>2 DEF MoveCursor, Goto, PC
    <3> QED BY <2>2, <3>1, <3>2, <3>3, <3>4, <3>5, <3>6 DEF MoveCursor
  <2>3. CASE R3
    <3>1. cursor' \in Position /\ touch' \in [state : {"up", "down", "broken"}, at : Position]
      BY <2>3, TouchTyped DEF R3
    <3>2. r3Mode' \in Role /\ idle' \in 0..HideAfter
      BY <2>3 DEF R3, Role
    <3>3. touchDown' \in BOOLEAN
      BY <2>3 DEF R3
    <3>4. pc' \in PC
      BY <2>3 DEF R3, PC
    <3> QED BY <2>3, <3>1, <3>2, <3>3, <3>4 DEF R3
  <2>4. CASE Gone
    <3>1. cursor' \in Position /\ touch' \in [state : {"up", "down", "broken"}, at : Position]
      BY <2>4, TouchTyped DEF Gone
    <3>2. r3Mode' \in Role
      BY <2>4 DEF Gone, Role
    <3>3. touchDown' \in BOOLEAN
      BY <2>4 DEF Gone
    <3>4. pc' \in PC
      BY <2>4 DEF Gone, Goto, PC
    <3> QED BY <2>4, <3>1, <3>2, <3>3, <3>4 DEF Gone
  <2>5. CASE Hide
    <3>1. drawn' \in [x : Position, visible : BOOLEAN]
      BY <2>5, DrawnTyped DEF Hide
    <3>2. visible' \in BOOLEAN
      BY <2>5 DEF Hide
    <3>3. r3Was' \in BOOLEAN
      BY <2>5 DEF Hide
    <3>4. pc' \in PC
      BY <2>5 DEF Hide, Goto, PC
    <3> QED BY <2>5, <3>1, <3>2, <3>3, <3>4 DEF Hide
  <2>6. CASE SendKeys
    BY <2>6, LogicalTyped DEF SendKeys, Goto, PC
  <2>7. CASE End
    BY <2>7, TouchTyped, DrawnTyped DEF End, Goto, PC
  <2>8. CASE Signal
    BY <2>8 DEF Signal
  <2>9. CASE GameBoots
    BY <2>9 DEF GameBoots
  <2>10. CASE GameZooms
    BY <2>10 DEF GameZooms
  <2>11. CASE ZoomBegin
    <3>1. \A s \in ZoomStates : s \in {"new", "ok", "failed"} /\ LevelAtBegin(s) \in 0..ZoomMax
      BY DEF ZoomStates, LevelAtBegin
    <3>2. zoomState' \in {"new", "ok", "failed"} /\ level' \in 0..ZoomMax
      BY <2>11, <3>1 DEF ZoomBegin
    <3>3. menu' \in BOOLEAN
      BY <2>11 DEF ZoomBegin
    <3>4. pc' \in PC
      BY <2>11 DEF ZoomBegin, Goto, PC
    <3> QED BY <2>11, <3>2, <3>3, <3>4 DEF ZoomBegin
  <2>12. CASE ZoomStep
    <3>1. Direction \in -1..1
      BY DEF Direction
    <3>2. Clamp(level + Direction, 1, ZoomMax) \in 1..ZoomMax
      BY <3>1 DEF Clamp
    <3>3. zoomPrev' \in -1..1 /\ level' \in 0..ZoomMax
      BY <2>12, <3>1, <3>2 DEF ZoomStep
    <3>4. desired' \in 1..ZoomMax /\ sinceApply' \in 0..Period
      BY <2>12, <3>2 DEF ZoomStep
    <3>5. pc' \in PC
      BY <2>12 DEF ZoomStep, Goto, PC
    <3> QED BY <2>12, <3>3, <3>4, <3>5 DEF ZoomStep
  <2>13. CASE UNCHANGED vars
    BY <2>13 DEF vars
  <2> QED
    BY <2>1, <2>2, <2>3, <2>4, <2>5, <2>6, <2>7, <2>8, <2>9, <2>10, <2>11, <2>12, <2>13
    DEF Next, Tick
<1> QED BY <1>1, <1>2, PTL DEF Spec

-----------------------------------------------------------------------------
LEMMA LoopInvInit == Init => LoopInv
BY DEF Init, LoopInv, RoleOfPress, Unplugged, TouchAgrees, KeyAgrees

LEMMA PollPreserves ==
  ASSUME TypeOK, TypeOK', LoopInv, Poll
  PROVE  LoopInv'
<1> USE DEF TypeOK, LoopInv, Poll, Goto, loop, zoom, outside
<1>1. RoleOfPress'
  BY DEF RoleOfPress
<1>2. Unplugged'
  BY DEF Unplugged
<1>3. TouchAgrees'
  BY DEF TouchAgrees
<1>4. KeyAgrees'
  BY DEF KeyAgrees
<1> QED BY <1>1, <1>2, <1>3, <1>4

LEMMA MoveCursorPreserves ==
  ASSUME TypeOK, TypeOK', LoopInv, MoveCursor
  PROVE  LoopInv'
<1> USE DEF TypeOK, LoopInv, MoveCursor, Goto, loop, zoom, outside
<1>1. RoleOfPress'
  BY DEF RoleOfPress
<1>2. Unplugged'
  BY DEF Unplugged
<1>3. TouchAgrees'
  <2>1. CASE CursorEnabled /\ pad \cap {"cursorLeft", "cursorRight"} # {}
    <3>1. drawn' = [x |-> cursor', visible |-> TRUE]
      BY <2>1, DrawnTyped
    <3>2. touchDown => touch' = [state |-> "down", at |-> cursor']
      BY DEF TouchAgrees, SendTouch, Touched, MotionEvent
    <3> QED BY <2>1, <3>1, <3>2 DEF TouchAgrees
  <2>2. CASE ~(CursorEnabled /\ pad \cap {"cursorLeft", "cursorRight"} # {})
    BY <2>2 DEF TouchAgrees
  <2> QED BY <2>1, <2>2
<1>4. KeyAgrees'
  BY DEF KeyAgrees
<1> QED BY <1>1, <1>2, <1>3, <1>4

LEMMA R3Preserves ==
  ASSUME TypeOK, TypeOK', LoopInv, R3
  PROVE  LoopInv'
<1> USE DEF TypeOK, LoopInv, R3, loop, zoom, outside
<1>1. RoleOfPress'
  BY DEF RoleOfPress
<1>2. Unplugged'
  BY DEF Unplugged
<1>3. TouchAgrees'
  BY DEF TouchAgrees, RoleOfPress, SendTouch, Touched, MotionEvent, NoTouch
<1>4. KeyAgrees'
  BY DEF KeyAgrees, RoleOfPress
<1> QED BY <1>1, <1>2, <1>3, <1>4

LEMMA ZoomPreserves ==
  ASSUME TypeOK, TypeOK', LoopInv, ZoomBegin \/ ZoomStep
  PROVE  LoopInv'
<1> USE DEF TypeOK, LoopInv, ZoomBegin, ZoomStep, Goto, loop, zoom, outside
<1>1. RoleOfPress'
  BY DEF RoleOfPress
<1>2. Unplugged'
  BY DEF Unplugged
<1>3. TouchAgrees'
  BY DEF TouchAgrees
<1>4. KeyAgrees'
  BY DEF KeyAgrees
<1> QED BY <1>1, <1>2, <1>3, <1>4

LEMMA GonePreserves ==
  ASSUME TypeOK, TypeOK', LoopInv, Gone
  PROVE  LoopInv'
<1> USE DEF TypeOK, LoopInv, Gone, Goto, loop, zoom, outside
<1>1. RoleOfPress'
  BY DEF RoleOfPress, Unplugged
<1>2. Unplugged'
  BY DEF Unplugged
<1>3. TouchAgrees'
  BY DEF TouchAgrees, SendTouch, Touched, MotionEvent, NoTouch
<1>4. KeyAgrees'
  BY DEF KeyAgrees
<1> QED BY <1>1, <1>2, <1>3, <1>4

LEMMA HidePreserves ==
  ASSUME TypeOK, TypeOK', LoopInv, Hide
  PROVE  LoopInv'
<1> USE DEF TypeOK, LoopInv, Hide, Goto, loop, zoom, outside
<1>1. RoleOfPress'
  BY DEF RoleOfPress
<1>2. Unplugged'
  BY DEF Unplugged
<1>3. TouchAgrees'
  <2>1. CASE CursorEnabled /\ visible /\ ~touchDown /\ idle >= HideAfter
    <3>1. drawn' = [x |-> cursor, visible |-> FALSE]
      BY <2>1, DrawnTyped
    <3> QED BY <2>1, <3>1 DEF TouchAgrees
  <2>2. CASE ~(CursorEnabled /\ visible /\ ~touchDown /\ idle >= HideAfter)
    BY <2>2 DEF TouchAgrees
  <2> QED BY <2>1, <2>2
<1>4. KeyAgrees'
  BY DEF KeyAgrees
<1> QED BY <1>1, <1>2, <1>3, <1>4

LEMMA SendKeysPreserves ==
  ASSUME TypeOK, TypeOK', LoopInv, SendKeys
  PROVE  LoopInv'
<1> USE DEF TypeOK, LoopInv, SendKeys, Goto, loop, zoom, outside
<1>1. RoleOfPress'
  BY DEF RoleOfPress
<1>2. Unplugged'
  BY DEF Unplugged, KeyAgrees, Logical
<1>3. TouchAgrees'
  BY DEF TouchAgrees
<1>4. KeyAgrees'
  BY DEF KeyAgrees, Logical
<1> QED BY <1>1, <1>2, <1>3, <1>4

LEMMA EndPreserves ==
  ASSUME TypeOK, TypeOK', LoopInv, End
  PROVE  LoopInv'
<1> USE DEF TypeOK, LoopInv, End, Goto, loop, zoom, outside
<1>1. RoleOfPress'
  BY DEF RoleOfPress
<1>2. Unplugged'
  BY DEF Unplugged
<1>3. TouchAgrees'
  <2>1. drawn' = [x |-> cursor, visible |-> FALSE]
    BY DrawnTyped
  <2>2. touch'.state = "up"
    BY DEF TouchAgrees, SendTouch, Touched, MotionEvent, NoTouch
  <2> QED BY <2>1, <2>2 DEF TouchAgrees
<1>4. KeyAgrees'
  BY DEF KeyAgrees
<1> QED BY <1>1, <1>2, <1>3, <1>4

\* The inductive invariant behind the four theorems below.
THEOREM LoopInvariant == Spec => []LoopInv
<1>1. TypeOK /\ TypeOK' /\ LoopInv /\ [Next]_vars => LoopInv'
  <2> SUFFICES ASSUME TypeOK, TypeOK', LoopInv, [Next]_vars PROVE LoopInv'
    OBVIOUS
  <2>1. CASE Poll
    BY <2>1, PollPreserves
  <2>2. CASE MoveCursor
    BY <2>2, MoveCursorPreserves
  <2>3. CASE R3
    BY <2>3, R3Preserves
  <2>4. CASE ZoomBegin \/ ZoomStep
    BY <2>4, ZoomPreserves
  <2>5. CASE Gone
    BY <2>5, GonePreserves
  <2>6. CASE Hide
    BY <2>6, HidePreserves
  <2>7. CASE SendKeys
    BY <2>7, SendKeysPreserves
  <2>8. CASE End
    BY <2>8, EndPreserves
  <2>9. CASE Signal \/ GameBoots \/ GameZooms \/ UNCHANGED vars
    BY <2>9
    DEF Signal, GameBoots, GameZooms, vars, LoopInv, RoleOfPress, Unplugged, TouchAgrees,
        KeyAgrees, loop
  <2> QED
    BY <2>1, <2>2, <2>3, <2>4, <2>5, <2>6, <2>7, <2>8, <2>9 DEF Next, Tick
<1> QED BY <1>1, TypeCorrect, LoopInvInit, PTL DEF Spec

\* The game never gets a touch event out of order, and none is left when the loop ends
\* (main.c:661-682, 727-734).
THEOREM TouchesAreWhole == Spec => []TouchWellFormed
<1>1. TypeOK /\ LoopInv => TouchWellFormed
  BY DEF LoopInv, TouchAgrees, TouchWellFormed
<1> QED BY <1>1, TypeCorrect, LoopInvariant, PTL

\* A touch lies under a cursor that the player can see.
THEOREM TouchUnderCursor == Spec => []TouchAtTip
<1>1. TypeOK /\ LoopInv => TouchAtTip
  BY DEF LoopInv, TouchAgrees, TouchAtTip
<1> QED BY <1>1, TypeCorrect, LoopInvariant, PTL

\* A press of R3 is never a click and a key at once, whatever the width, the timers and
\* the order of disconnects.
THEOREM OneRolePerPress == Spec => []R3OneRole
<1>1. TypeOK /\ LoopInv => R3OneRole
  BY DEF LoopInv, TouchAgrees, RoleOfPress, KeyAgrees, R3OneRole
<1> QED BY <1>1, TypeCorrect, LoopInvariant, PTL

\* After the tick that finds no controller, no key is down and no touch either.
THEOREM NothingHeldWhenGone == Spec => []GoneReleasesAll
<1>1. TypeOK /\ LoopInv => GoneReleasesAll
  BY DEF LoopInv, TouchAgrees, RoleOfPress, Unplugged, GoneReleasesAll
<1> QED BY <1>1, TypeCorrect, LoopInvariant, PTL

-----------------------------------------------------------------------------
LEMMA PressStaysFresh ==
  ASSUME TypeOK, PressIsFresh, [Next]_vars
  PROVE  PressIsFresh'
<1> USE DEF TypeOK, PressIsFresh, loop, zoom, outside
<1>1. CASE ZoomBegin
  <2>1. game' = game /\ (menu' => menu)
    BY <1>1 DEF ZoomBegin
  <2>2. ASSUME Pressed', zoomState' = "ok" PROVE ~menu'
    <3>1. CASE PressBegins
      <4>1. menu' = (menu /\ ~(zoomState' = "ok" /\ game = "options"))
        BY <1>1, <3>1 DEF ZoomBegin
      <4> QED BY <2>2, <4>1
    <3>2. CASE ~PressBegins
      <4>1. ~PressBegins'
        BY <1>1, <3>2 DEF ZoomBegin, PressBegins, Direction
      <4>2. zoomPrev # 0 /\ zoomState = "ok"
        BY <1>1, <2>2, <3>2, <4>1 DEF ZoomBegin, Pressed
      <4> QED BY <2>1, <4>2 DEF Pressed
    <3> QED BY <3>1, <3>2
  <2> QED BY <2>1, <2>2
<1>2. CASE ZoomStep
  <2>1. UNCHANGED <<game, menu, zoomState>>
    BY <1>2 DEF ZoomStep
  <2>2. Pressed' => Pressed
    BY <1>2 DEF ZoomStep, Goto, Pressed, PressBegins
  <2> QED BY <2>1, <2>2
<1>3. CASE GameZooms
  <2>1. Pressed' <=> Pressed
    BY <1>3 DEF GameZooms, Pressed, PressBegins, Direction
  <2> QED BY <1>3, <2>1 DEF GameZooms
<1>4. CASE GameBoots
  <2>1. Pressed' <=> Pressed
    BY <1>4 DEF GameBoots, Pressed, PressBegins, Direction
  <2> QED BY <1>4, <2>1 DEF GameBoots
<1>5. CASE ~(ZoomBegin \/ ZoomStep \/ GameZooms \/ GameBoots)
  <2>1. UNCHANGED <<menu, game, zoomPrev, zoomState>>
    <3>1. CASE Poll
      BY <3>1 DEF Poll
    <3>2. CASE MoveCursor
      BY <3>2 DEF MoveCursor
    <3>3. CASE R3
      BY <3>3 DEF R3
    <3>4. CASE Gone
      BY <3>4 DEF Gone
    <3>5. CASE Hide
      BY <3>5 DEF Hide
    <3>6. CASE SendKeys
      BY <3>6 DEF SendKeys
    <3>7. CASE End
      BY <3>7 DEF End
    <3>8. CASE Signal
      BY <3>8 DEF Signal
    <3>9. CASE UNCHANGED vars
      BY <3>9 DEF vars
    <3> QED
      BY <1>5, <3>1, <3>2, <3>3, <3>4, <3>5, <3>6, <3>7, <3>8, <3>9 DEF Next, Tick
  <2>2. Pressed' => Pressed
    BY <2>1, <1>5 DEF Pressed, Next, Tick, Poll, MoveCursor, R3, Gone, Hide, SendKeys, End, Signal, vars,
                      Goto, PressBegins, Direction
  <2> QED BY <2>1, <2>2
<1> QED BY <1>1, <1>2, <1>3, <1>4, <1>5 DEF Next, Tick

\* No step of zoom writes over a level that the game set while the D-pad was released,
\* for any number of levels and whatever the game's boot and the timers do.
THEOREM ZoomKeepsChange == Spec => ZoomKeepsMenuChange
<1>1. Init => PressIsFresh
  BY DEF Init, PressIsFresh
<1>2. TypeOK /\ PressIsFresh /\ [Next]_vars
        => [pc = "step" /\ pc' = "hide" /\ desired' # desired => ~menu']_vars
  <2> SUFFICES ASSUME TypeOK, PressIsFresh, Next, pc = "step", pc' = "hide", desired' # desired
               PROVE  ~menu'
    OBVIOUS
  <2>1. CASE ZoomStep
    <3>1. DpadZoom /\ Direction # 0 /\ zoomState = "ok"
      BY <2>1 DEF ZoomStep, TypeOK
    <3>2. Pressed
      BY <3>1 DEF Pressed, PressBegins
    <3> QED BY <2>1, <3>1, <3>2 DEF ZoomStep, PressIsFresh
  <2>2. CASE ~ZoomStep
    BY <2>2 DEF Next, Tick, Poll, ZoomBegin, MoveCursor, R3, Gone, Hide, SendKeys, End, Signal, GameBoots,
                GameZooms, Goto, outside
  <2> QED BY <2>1, <2>2
<1> QED BY <1>1, <1>2, PressStaysFresh, TypeCorrect, PTL DEF Spec, ZoomKeepsMenuChange
=============================================================================
