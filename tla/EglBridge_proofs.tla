--------------------------- MODULE EglBridge_proofs ---------------------------
(***************************************************************************)
(* Proofs about EglBridge: for any number of threads, rungs and surfaces,  *)
(* nothing that SDL gave is lost, the thread that holds the context is the *)
(* one that was told so, and a frame is shown as it should be.             *)
(*                                                                         *)
(* What ties the three together is that the context is made on the ladder  *)
(* only, before a thread of the game runs: a thread that was ever told of  *)
(* a context was told of the one there is, if there still is one.          *)
(***************************************************************************)
EXTENDS EglBridge, TLAPS

\* On the ladder no thread of the game has run.
Alone == pc[Main] \in InInit =>
           /\ payload = NULL
           /\ \A u \in Users : pc[u] = "idle"
           /\ \A t \in Threads : told[t] = NULL
           /\ \A u \in Users : current[u] = NULL

\* The globals at each step of the ladder.
OnRung ==
  /\ pc[Main] \in {"start", "window"} => window = NULL /\ context = NULL
  /\ pc[Main] = "start" => owned = {}
  /\ pc[Main] = "context" => window = rung /\ context = NULL
  /\ pc[Main] \in {"current", "version", "release"} => window = rung /\ context = rung
  /\ pc[Main] \in {"window", "context", "current", "version", "release"} => rung \in Rung

\* The main thread is in its own part of the program, the others in theirs.
Parts == /\ pc[Main] \in InInit \cup {"idle", "exited"} /\ told[Main] = NULL
         /\ \A u \in Users : pc[u] \notin InInit

\* A thread that was told of a context was told of the one there is.
ToldOfContext == \A t \in Threads : told[t] # NULL /\ context # NULL => told[t] = context

\* Only a thread that was told of a context presents; the cursor is drawn by a swap only.
Presenting == /\ \A t \in Threads : pc[t] = "swap" => told[t] # NULL
              /\ gl.arrow = FALSE

EglInv == /\ TypeOK /\ NothingLeaks /\ HolderKnows /\ PresentsCleanly
          /\ Alone /\ OnRung /\ Parts /\ ToldOfContext /\ Presenting

-----------------------------------------------------------------------------
\* What the alpha pass and the arrow do to the back buffer, and that they restore the rest.
LEMMA SwapRestores ==
  ASSUME NEW g \in [fbo : {0, 1}, scissor : BOOLEAN, mask : {"all"}, clear : {"game"},
                    box : {"game"}, opaque : BOOLEAN, arrow : BOOLEAN],
         visible \in BOOLEAN, g.arrow = FALSE
  PROVE  LET h == DrawCursor(PreparePresent(g))
         IN /\ h = [g EXCEPT !.opaque = h.opaque, !.arrow = h.arrow]
            /\ h.opaque \in BOOLEAN /\ h.arrow \in BOOLEAN
            /\ g.fbo = 0 => h.opaque = TRUE /\ h.arrow = visible
<1> DEFINE p == PreparePresent(g)
<1>1. p = IF g.fbo # 0 THEN g ELSE [g EXCEPT !.opaque = TRUE]
  BY DEF PreparePresent, Clear
<1>2. p \in [fbo : {0, 1}, scissor : BOOLEAN, mask : {"all"}, clear : {"game"},
             box : {"game"}, opaque : BOOLEAN, arrow : BOOLEAN]
      /\ p.arrow = FALSE /\ p.fbo = g.fbo
  BY <1>1
<1> HIDE DEF p
<1>3. DrawCursor(p) = IF ~visible \/ p.fbo # 0 THEN p ELSE [p EXCEPT !.arrow = TRUE]
  BY <1>2 DEF DrawCursor, Clear
<1>4. DrawCursor(p) = [g EXCEPT !.opaque = DrawCursor(p).opaque, !.arrow = DrawCursor(p).arrow]
  BY <1>1, <1>3
<1> QED
  BY <1>1, <1>3 DEF p

-----------------------------------------------------------------------------
LEMMA InitInv == Init => EglInv
<1> SUFFICES ASSUME Init PROVE EglInv
  OBVIOUS
<1> USE EglAssumption DEF Init, Threads, Rung
<1>1. gl = [fbo |-> 0, scissor |-> FALSE, mask |-> "all", clear |-> "game", box |-> "game",
            opaque |-> FALSE, arrow |-> FALSE]
  BY DEF GameState, BackBuffer, With
<1>2. TypeOK
  <2>1. NoArg \in [ctx : Rung \cup {NULL}, surf : Surface \cup {NULL}]
    BY DEF NoArg
  <2>2. sdl \in [up : SUBSET {"video", "gamecontroller"}, windows : SUBSET Rung, contexts : SUBSET Rung]
    OBVIOUS
  <2>3. wanted \in [fbo : {0, 1}, scissor : BOOLEAN, mask : {"all"}, clear : {"game"}, box : {"game"}]
    BY DEF GameState
  <2>4. shown \in [fbo : {0, 1}, opaque : BOOLEAN, arrow : BOOLEAN, asked : BOOLEAN, live : BOOLEAN]
    OBVIOUS
  <2>5. gl \in [fbo : {0, 1}, scissor : BOOLEAN, mask : {"all"}, clear : {"game"}, box : {"game"},
               opaque : BOOLEAN, arrow : BOOLEAN]
    BY <1>1
  <2>6. arg \in [Threads -> [ctx : Rung \cup {NULL}, surf : Surface \cup {NULL}]]
    BY <2>1
  <2>7. pc \in [Threads -> {"start", "idle"}]
    OBVIOUS
  <2>8. /\ surface \in [Surface -> {NULL}] /\ maker \in [Surface -> {NULL}]
        /\ current \in [Threads -> {NULL}] /\ told \in [Threads -> {NULL}]
    OBVIOUS
  <2>9. rung \in 0..Rungs
    OBVIOUS
  <2>12. visible \in BOOLEAN
    BY Zenon
  <2>10. /\ window \in Rung \cup {NULL} /\ context \in Rung \cup {NULL}
         /\ payload \in Rung \cup {NULL}
    OBVIOUS
  <2>11. owned \subseteq {"video", "gamecontroller"} /\ heap \subseteq Surface
    OBVIOUS
  <2> HIDE DEF Init
  <2> QED
    BY <2>2, <2>3, <2>4, <2>5, <2>6, <2>7, <2>8, <2>9, <2>10, <2>11, <2>12 DEF TypeOK, InInit
<1>3. PresentsCleanly /\ Presenting
  <2>1. wanted = [fbo |-> 0, scissor |-> FALSE, mask |-> "all", clear |-> "game", box |-> "game"]
    BY DEF GameState
  <2>2. DOMAIN wanted = {"fbo", "scissor", "mask", "clear", "box"}
    BY <2>1
  <2>3. /\ gl["fbo"] = wanted["fbo"] /\ gl["scissor"] = wanted["scissor"]
        /\ gl["mask"] = wanted["mask"] /\ gl["clear"] = wanted["clear"] /\ gl["box"] = wanted["box"]
    BY <1>1, <2>1
  <2>4. \A k \in DOMAIN wanted : gl[k] = wanted[k]
    BY <2>2, <2>3
  <2> QED
    BY <1>1, <2>4 DEF PresentsCleanly, Presenting
<1> QED
  BY <1>2, <1>3 DEF EglInv, NothingLeaks, HolderKnows, Alone, OnRung, Parts, ToldOfContext, InInit

LEMMA InitStartInv == ASSUME EglInv, InitStart PROVE EglInv'
BY EglAssumption
DEF InitStart, Rung, At, Goto, java, drawing, EglInv, TypeOK, NothingLeaks, HolderKnows,
    PresentsCleanly, Alone, OnRung, Parts, ToldOfContext, Presenting, Threads, InInit

LEMMA MakeWindowInv == ASSUME EglInv, MakeWindow PROVE EglInv'
<1> USE DEF EglInv
<1>0. /\ pc[Main] = "window" /\ window = NULL /\ context = NULL /\ rung \in Rung
      /\ sdl.windows = {} /\ sdl.contexts = {}
  BY DEF MakeWindow, At, OnRung, NothingLeaks
<1>1. CASE NextRung /\ UNCHANGED <<window, sdl>>
  <2>1. /\ rung' \in 0..Rungs /\ (pc'[Main] = "window" => rung' \in Rung)
        /\ pc' \in {[pc EXCEPT ![Main] = "window"], [pc EXCEPT ![Main] = "idle"]}
    BY <1>1, <1>0, EglAssumption DEF NextRung, Goto, Rung
  <2>2. TypeOK'
    BY <1>1, <2>1 DEF MakeWindow, TypeOK, InInit, drawing, java
  <2>3. NothingLeaks' /\ OnRung'
    BY <1>1, <1>0, <2>1 DEF MakeWindow, NothingLeaks, OnRung, TypeOK
  <2> QED
    BY <1>0, <2>1, <2>3
    DEF MakeWindow, TypeOK, HolderKnows, PresentsCleanly, Alone, Parts, ToldOfContext,
        Presenting, Threads, drawing, java
<1>2. CASE /\ window' = rung /\ sdl' = [sdl EXCEPT !.windows = @ \cup {rung}]
           /\ Goto(Main, "context") /\ UNCHANGED rung
  <2>1. sdl' = [up |-> sdl.up, windows |-> {rung}, contexts |-> {}]
    BY <1>2, <1>0 DEF TypeOK
  <2>2. TypeOK'
    BY <1>2, <1>0 DEF MakeWindow, Goto, TypeOK, Threads, InInit, drawing, java
  <2>3. NothingLeaks' /\ OnRung'
    BY <1>2, <1>0, EglAssumption DEF MakeWindow, Goto, NothingLeaks, OnRung, TypeOK, Threads
  <2> QED
    BY <1>2, <1>0, <2>1, <2>2, <2>3
    DEF MakeWindow, Goto, TypeOK, HolderKnows, PresentsCleanly, Alone, Parts, ToldOfContext,
        Presenting, drawing, java
<1> QED
  BY <1>1, <1>2 DEF MakeWindow

LEMMA MakeContextInv == ASSUME EglInv, MakeContext PROVE EglInv'
<1> USE DEF EglInv
<1>1. /\ pc[Main] = "context" /\ window = rung /\ context = NULL /\ rung \in Rung
      /\ sdl.contexts = {} /\ \A u \in Users : current[u] = NULL
  BY DEF MakeContext, At, OnRung, NothingLeaks, Alone, InInit
<1>2. sdl' = [up |-> sdl.up, windows |-> sdl.windows, contexts |-> {rung}]
  BY <1>1 DEF MakeContext, TypeOK
<1>3. TypeOK'
  BY <1>1 DEF MakeContext, Goto, TypeOK, Threads, InInit, java, drawing
<1>4. NothingLeaks'
  BY <1>1, EglAssumption DEF MakeContext, NothingLeaks, Rung
<1>5. PresentsCleanly'
  BY DEF MakeContext, drawing, PresentsCleanly
<1> QED
  BY <1>1, <1>2, <1>3, <1>4, <1>5
  DEF MakeContext, Goto, TypeOK, HolderKnows, Alone, OnRung, Parts, ToldOfContext, Presenting,
      java, drawing

LEMMA AcceptsInv == ASSUME EglInv, Accepts PROVE EglInv'
BY DEF Accepts, At, Goto, bridge, java, drawing, EglInv, TypeOK, NothingLeaks, HolderKnows,
   PresentsCleanly, Alone, OnRung, Parts, ToldOfContext, Presenting, Threads, InInit

LEMMA RejectsInv == ASSUME EglInv, Rejects PROVE EglInv'
<1> USE DEF EglInv
<1>1. /\ pc[Main] \in {"context", "current", "version"} /\ rung \in Rung
      /\ window = rung /\ context \in {NULL, rung}
      /\ \A u \in Users : current[u] = NULL
  BY DEF Rejects, OnRung, Alone, InInit
<1>2. /\ sdl' = [up |-> sdl.up, windows |-> {}, contexts |-> {}]
      /\ window' = NULL /\ context' = NULL
      /\ current' \in [Threads -> Rung \cup {NULL}] /\ \A u \in Users : current'[u] = NULL
  BY <1>1, EglAssumption DEF Rejects, DropCandidate, TypeOK, NothingLeaks, Threads
<1>3. /\ rung' \in 0..Rungs /\ (pc'[Main] = "window" => rung' \in Rung)
      /\ pc' \in {[pc EXCEPT ![Main] = "window"], [pc EXCEPT ![Main] = "idle"]}
  BY <1>1, EglAssumption DEF Rejects, NextRung, Goto, Rung
<1>4. TypeOK'
  BY <1>2, <1>3 DEF Rejects, TypeOK, InInit, java, drawing
<1>5. PresentsCleanly'
  BY DEF Rejects, drawing, PresentsCleanly
<1> QED
  BY <1>2, <1>3, <1>4, <1>5
  DEF Rejects, TypeOK, NothingLeaks, HolderKnows, Alone, OnRung, Parts, ToldOfContext,
      Presenting, Threads, java, drawing

LEMMA ReleaseInv == ASSUME EglInv, Release PROVE EglInv'
<1> USE DEF EglInv
<1>1. /\ pc[Main] = "release" /\ rung \in Rung /\ window = rung /\ context = rung
      /\ \A u \in Users : current[u] = NULL /\ told[u] = NULL
      /\ pc' = [pc EXCEPT ![Main] = "idle"]
  BY DEF Release, At, Goto, OnRung, Alone, InInit, Threads
<1>2. current' \in [Threads -> Rung \cup {NULL}] /\ \A t \in Threads : current'[t] = NULL
  BY <1>1, EglAssumption DEF Release, DropCandidate, TypeOK, Threads
<1>3. \/ UNCHANGED <<window, context, sdl>>
      \/ /\ sdl' = [up |-> sdl.up, windows |-> {}, contexts |-> {}]
         /\ window' = NULL /\ context' = NULL
  <2>1. CASE DropCandidate(Main)
    <3>1. sdl.windows \ {window} = {} /\ sdl.contexts \ {context} = {}
      BY DEF NothingLeaks
    <3> QED
      BY <2>1, <3>1 DEF DropCandidate, TypeOK
  <2> QED
    BY <2>1 DEF Release
<1>4. TypeOK'
  BY <1>1, <1>2, <1>3 DEF Release, TypeOK, Threads, java, drawing
<1>5. PresentsCleanly'
  BY DEF Release, drawing, PresentsCleanly
<1>6. NothingLeaks'
  BY <1>3 DEF Release, NothingLeaks
<1> QED
  BY <1>1, <1>2, <1>4, <1>5, <1>6
  DEF Release, TypeOK, HolderKnows, Alone, OnRung, Parts, ToldOfContext, Presenting, InInit,
      drawing

LEMMA SetRightCursorInv == ASSUME EglInv, SetRightCursor PROVE EglInv'
BY DEF SetRightCursor, bridge, java, drawing, EglInv, TypeOK, NothingLeaks, HolderKnows,
   PresentsCleanly, Alone, OnRung, Parts, ToldOfContext, Presenting

LEMMA ExitInv == ASSUME EglInv, Exit PROVE EglInv'
<1> USE EglAssumption DEF EglInv, Exit, bridge, java, drawing
<1>1. \A t \in Threads : pc'[t] = "exited" /\ pc[Main] = "idle" /\ Main \in Threads
  BY DEF At, Threads
<1>2. TypeOK'
  <2>1. /\ pc' \in [Threads -> InInit \cup {"idle", "exited", "setPayload", "askContext",
                            "makeCurrent", "swap", "free", "clearSurface", "destroy", "clearContext"}]
        /\ arg' \in [Threads -> [ctx : Rung \cup {NULL}, surf : Surface \cup {NULL}]]
    BY DEF NoArg
  <2> QED BY <2>1 DEF TypeOK
<1>3. NothingLeaks' /\ PresentsCleanly'
  BY DEF NothingLeaks, PresentsCleanly
<1>4. HolderKnows'
  BY <1>1 DEF HolderKnows, InInit
<1>5. Alone' /\ OnRung' /\ Parts'
  BY <1>1 DEF Alone, OnRung, Parts, InInit, Threads
<1>6. ToldOfContext' /\ Presenting'
  BY <1>1 DEF ToldOfContext, Presenting
<1> QED BY <1>2, <1>3, <1>4, <1>5, <1>6

LEMMA CreateContextInv == ASSUME EglInv, NEW t \in Users, CreateContext(t) PROVE EglInv'
BY EglAssumption
DEF CreateContext, Goto, Runs, Call, bridge, java, drawing, NoArg, EglInv, TypeOK, NothingLeaks,
    HolderKnows, PresentsCleanly, Alone, OnRung, Parts, ToldOfContext, Presenting, Threads,
    InInit

LEMMA SetPayloadInv == ASSUME EglInv, NEW t \in Users, SetPayload(t) PROVE EglInv'
BY DEF SetPayload, At, Goto, Return, bridge, drawing, NoArg, EglInv, TypeOK, NothingLeaks,
   HolderKnows, PresentsCleanly, Alone, OnRung, Parts, ToldOfContext, Presenting, Threads,
   InInit

LEMMA CreateSurfaceInv == ASSUME EglInv, NEW t \in Users, CreateSurface(t) PROVE EglInv'
BY DEF CreateSurface, bridge, drawing, EglInv, TypeOK, NothingLeaks, HolderKnows,
   PresentsCleanly, Alone, OnRung, Parts, ToldOfContext, Presenting

LEMMA AskSurfaceInv == ASSUME EglInv, NEW t \in Users, AskSurface(t) PROVE EglInv'
<1> USE DEF EglInv
<1>1. PICK a \in [ctx : Rung \cup {NULL}, surf : Surface \cup {NULL}] :
        Call(t, "askContext", a)
  <2>1. PICK s \in {NULL} \cup {surface[x] : x \in Surface} :
          Call(t, "askContext", [NoArg EXCEPT !.surf = s])
    BY DEF AskSurface
  <2>2. s \in Surface \cup {NULL}
    BY DEF TypeOK
  <2> QED
    BY <2>1, <2>2 DEF NoArg
<1>2. TypeOK'
  <2>1. arg' \in [Threads -> [ctx : Rung \cup {NULL}, surf : Surface \cup {NULL}]]
    BY <1>1 DEF Call, TypeOK
  <2>2. pc' = [pc EXCEPT ![t] = "askContext"]
    BY <1>1 DEF Call, Goto
  <2> QED
    BY <2>1, <2>2 DEF AskSurface, TypeOK, Threads, bridge, java, drawing
<1> QED
  BY <1>2, EglAssumption
  DEF AskSurface, Call, Runs, Goto, NothingLeaks, HolderKnows, PresentsCleanly, Alone, OnRung,
      Parts, ToldOfContext, Presenting, InInit, bridge, drawing

LEMMA AskContextInv == ASSUME EglInv, NEW t \in Users, AskContext(t) PROVE EglInv'
<1> USE DEF EglInv
<1>1. PICK c \in Rung \cup {NULL} : arg' = [arg EXCEPT ![t].ctx = c]
  BY DEF AskContext, TypeOK
<1>2. TypeOK'
  BY <1>1 DEF AskContext, At, Goto, TypeOK, Threads, bridge, java, drawing
<1> QED
  BY <1>2, EglAssumption
  DEF AskContext, At, Goto, NothingLeaks, HolderKnows, PresentsCleanly, Alone, OnRung,
      Parts, ToldOfContext, Presenting, Threads, InInit, bridge, drawing

LEMMA MakeCurrentInv == ASSUME EglInv, NEW t \in Users, MakeCurrent(t) PROVE EglInv'
<1> USE DEF EglInv
<1>0. arg' = [arg EXCEPT ![t] = NoArg] /\ NoArg \in [ctx : Rung \cup {NULL}, surf : Surface \cup {NULL}]
  BY DEF MakeCurrent, Return, NoArg
<1>1. \/ UNCHANGED <<current, told>>
      \/ /\ current' = [current EXCEPT ![t] = arg[t].ctx] /\ told' = [told EXCEPT ![t] = arg[t].ctx]
         /\ arg[t].ctx \in {NULL, context}
  BY DEF MakeCurrent, Refused, NoArg
<1>2. TypeOK'
  <2>1. arg' \in [Threads -> [ctx : Rung \cup {NULL}, surf : Surface \cup {NULL}]]
    BY <1>0 DEF TypeOK
  <2> QED
    BY <2>1 DEF MakeCurrent, Return, Goto, TypeOK, Threads, bridge, java, drawing
<1> QED
  BY <1>1, <1>2
  DEF MakeCurrent, Return, At, Goto, TypeOK, NothingLeaks, HolderKnows, PresentsCleanly, Alone,
      OnRung, Parts, ToldOfContext, Presenting, Threads, InInit, bridge, drawing

LEMMA AskSwapInv == ASSUME EglInv, NEW t \in Users, AskSwap(t) PROVE EglInv'
BY DEF AskSwap, Goto, Call, bridge, java, drawing, NoArg, EglInv, TypeOK, NothingLeaks,
   HolderKnows, PresentsCleanly, Alone, OnRung, Parts, ToldOfContext, Presenting, Threads,
   InInit

LEMMA SwapInv == ASSUME EglInv, NEW t \in Users, Swap(t) PROVE EglInv'
<1> USE DEF EglInv
<1> DEFINE g == DrawCursor(PreparePresent(gl))
<1>1. /\ g = [gl EXCEPT !.opaque = g.opaque, !.arrow = g.arrow]
      /\ g.opaque \in BOOLEAN /\ g.arrow \in BOOLEAN
      /\ gl.fbo = 0 => g.opaque = TRUE /\ g.arrow = visible
  BY SwapRestores DEF TypeOK, Presenting
<1>2. /\ gl' \in [fbo : {0, 1}, scissor : BOOLEAN, mask : {"all"}, clear : {"game"},
                  box : {"game"}, opaque : BOOLEAN, arrow : BOOLEAN]
      /\ shown' \in [fbo : {0, 1}, opaque : BOOLEAN, arrow : BOOLEAN, asked : BOOLEAN,
                     live : BOOLEAN]
      /\ gl'.arrow = FALSE /\ PresentsCleanly'
  <2>1. CASE Ready
    <3>1. /\ shown' = [fbo |-> g.fbo, opaque |-> g.opaque, arrow |-> g.arrow, asked |-> visible,
                       live |-> current[t] \in sdl.contexts /\ window \in sdl.windows]
          /\ gl' = NextBuffer(g)
      BY <2>1 DEF Swap
    <3> HIDE DEF g
    <3>2. gl' = [fbo |-> gl.fbo, scissor |-> gl.scissor, mask |-> gl.mask, clear |-> gl.clear,
                 box |-> gl.box, opaque |-> FALSE, arrow |-> FALSE] /\ g.fbo = gl.fbo
      BY <1>1, <3>1 DEF NextBuffer, TypeOK
    <3>3. current[t] \in sdl.contexts /\ window \in sdl.windows
      <4>1. told[t] = context /\ context \in sdl.contexts /\ window \in sdl.windows
        BY <2>1 DEF Swap, At, Presenting, ToldOfContext, Ready, NothingLeaks, Threads
      <4>2. pc[Main] \notin InInit
        BY DEF Swap, At, Alone
      <4> QED
        BY <4>1, <4>2 DEF HolderKnows, Threads
    <3>4. gl' \in [fbo : {0, 1}, scissor : BOOLEAN, mask : {"all"}, clear : {"game"},
                   box : {"game"}, opaque : BOOLEAN, arrow : BOOLEAN] /\ gl'.arrow = FALSE
      BY <3>2 DEF TypeOK
    <3>5. shown' \in [fbo : {0, 1}, opaque : BOOLEAN, arrow : BOOLEAN, asked : BOOLEAN,
                      live : BOOLEAN]
      BY <1>1, <3>1 DEF TypeOK
    <3>6. PresentsCleanly'
      BY <1>1, <3>1, <3>2, <3>3 DEF Swap, TypeOK, PresentsCleanly
    <3> QED
      BY <3>4, <3>5, <3>6
  <2>2. CASE ~Ready
    BY <2>2 DEF Swap, TypeOK, PresentsCleanly, Presenting
  <2> QED
    BY <2>1, <2>2
<1>3. arg' \in [Threads -> [ctx : Rung \cup {NULL}, surf : Surface \cup {NULL}]]
  <2>1. NoArg \in [ctx : Rung \cup {NULL}, surf : Surface \cup {NULL}]
    BY DEF NoArg
  <2> QED
    BY <2>1 DEF Swap, Return, TypeOK
<1>4. TypeOK'
  BY <1>2, <1>3 DEF Swap, Return, Goto, TypeOK, bridge, java
<1> QED
  BY <1>2, <1>4
  DEF Swap, Return, Goto, At, NothingLeaks, HolderKnows, Alone, OnRung, Parts, ToldOfContext,
      Presenting, InInit, bridge

LEMMA GameDrawsInv == ASSUME EglInv, NEW t \in Users, GameDraws(t) PROVE EglInv'
<1> USE DEF EglInv
<1>1. PICK f \in {0, 1}, s \in BOOLEAN :
        /\ gl' = [gl EXCEPT !.fbo = f, !.scissor = s]
        /\ wanted' = [wanted EXCEPT !.fbo = f, !.scissor = s]
  BY DEF GameDraws
<1>2. gl' = [fbo |-> f, scissor |-> s, mask |-> gl.mask, clear |-> gl.clear, box |-> gl.box,
             opaque |-> gl.opaque, arrow |-> gl.arrow]
      /\ wanted' = [fbo |-> f, scissor |-> s, mask |-> wanted.mask, clear |-> wanted.clear,
                    box |-> wanted.box]
  BY <1>1 DEF TypeOK
<1>3. TypeOK' /\ PresentsCleanly' /\ Presenting'
  BY <1>2 DEF GameDraws, TypeOK, PresentsCleanly, Presenting, bridge, java
<1> QED
  BY <1>3 DEF GameDraws, NothingLeaks, HolderKnows, Alone, OnRung, Parts, ToldOfContext, bridge

LEMMA DestroySurfaceInv == ASSUME EglInv, NEW t \in Users, DestroySurface(t) PROVE EglInv'
BY EglAssumption
DEF DestroySurface, Goto, Runs, Call, bridge, java, drawing, NoArg, EglInv, TypeOK,
    NothingLeaks, HolderKnows, PresentsCleanly, Alone, OnRung, Parts, ToldOfContext, Presenting,
    Threads, InInit

LEMMA FreeSurfaceInv == ASSUME EglInv, NEW t \in Users, FreeSurface(t) PROVE EglInv'
<1> USE DEF EglInv
<1>1. TypeOK'
  <2>1. heap' \subseteq Surface
    BY DEF FreeSurface, TypeOK
  <2> QED
    BY DEF FreeSurface, Goto, TypeOK, Threads, bridge, drawing
<1> QED
  BY <1>1
  DEF FreeSurface, Goto, At, NothingLeaks, HolderKnows, PresentsCleanly, Alone, OnRung, Parts,
      ToldOfContext, Presenting, InInit, bridge, drawing

LEMMA ClearSurfaceInv == ASSUME EglInv, NEW t \in Users, ClearSurface(t) PROVE EglInv'
<1> USE DEF EglInv
<1>1. TypeOK'
  <2>1. NoArg \in [ctx : Rung \cup {NULL}, surf : Surface \cup {NULL}]
    BY DEF NoArg
  <2>2. arg' \in [Threads -> [ctx : Rung \cup {NULL}, surf : Surface \cup {NULL}]]
    BY <2>1 DEF ClearSurface, Return, TypeOK
  <2>3. surface' \in [Surface -> Surface \cup {NULL}]
    BY DEF ClearSurface, TypeOK
  <2> QED
    BY <2>2, <2>3 DEF ClearSurface, Return, Goto, TypeOK, bridge, drawing
<1> QED
  BY <1>1
  DEF ClearSurface, Return, Goto, NothingLeaks, HolderKnows, PresentsCleanly, Alone, OnRung,
      Parts, ToldOfContext, Presenting, InInit, bridge, drawing

LEMMA AskDestroyInv == ASSUME EglInv, NEW t \in Users, AskDestroy(t) PROVE EglInv'
BY EglAssumption
DEF AskDestroy, Goto, Call, bridge, java, drawing, NoArg, EglInv, TypeOK, NothingLeaks,
    HolderKnows, PresentsCleanly, Alone, OnRung, Parts, ToldOfContext, Presenting, Threads,
    InInit

LEMMA DestroyContextInv == ASSUME EglInv, NEW t \in Users, DestroyContext(t) PROVE EglInv'
BY DEF DestroyContext, EglInv, TypeOK, NothingLeaks, HolderKnows, PresentsCleanly, Alone,
   OnRung, Parts, ToldOfContext, Presenting, Threads, InInit, At, Goto, java, drawing

LEMMA ClearContextInv == ASSUME EglInv, NEW t \in Users, ClearContext(t) PROVE EglInv'
BY DEF ClearContext, Goto, Return, bridge, drawing, NoArg, EglInv, TypeOK, NothingLeaks,
   HolderKnows, PresentsCleanly, Alone, OnRung, Parts, ToldOfContext, Presenting, Threads,
   InInit

LEMMA TerminateInv == ASSUME EglInv, NEW t \in Users, Terminate(t) PROVE EglInv'
<1> USE DEF EglInv
<1>1. sdl' = [up |-> {}, windows |-> {}, contexts |-> {}]
  BY DEF Terminate, NothingLeaks
<1>2. TypeOK'
  <2>1. sdl' \in [up : SUBSET {"video", "gamecontroller"}, windows : SUBSET Rung, contexts : SUBSET Rung]
    BY <1>1
  <2>2. current' \in [Threads -> Rung \cup {NULL}]
    BY DEF Terminate, TypeOK
  <2>3. /\ window' \in Rung \cup {NULL} /\ context' \in Rung \cup {NULL}
        /\ owned' \subseteq {"video", "gamecontroller"} /\ visible' \in BOOLEAN
        /\ UNCHANGED <<pc, arg, rung, payload, surface, maker, heap, gl, wanted, shown, told>>
    BY DEF Terminate, java, drawing
  <2> QED
    BY <2>1, <2>2, <2>3 DEF TypeOK
<1> QED
  BY <1>2
  DEF Terminate, Runs, NothingLeaks, HolderKnows, PresentsCleanly, Alone, OnRung, Parts,
      ToldOfContext, Presenting, drawing

-----------------------------------------------------------------------------
LEMMA NextInv == EglInv /\ [Next]_vars => EglInv'
<1> SUFFICES ASSUME EglInv, [Next]_vars PROVE EglInv'
  OBVIOUS
<1>1. CASE Next
  BY <1>1, InitStartInv, MakeWindowInv, MakeContextInv, AcceptsInv, RejectsInv, ReleaseInv,
     SetRightCursorInv, ExitInv, CreateContextInv, SetPayloadInv, CreateSurfaceInv,
     AskSurfaceInv, AskContextInv, MakeCurrentInv, AskSwapInv, SwapInv, GameDrawsInv,
     DestroySurfaceInv,
     FreeSurfaceInv, ClearSurfaceInv, AskDestroyInv, DestroyContextInv, ClearContextInv,
     TerminateInv
  DEF Next, Ladder
<1>2. CASE UNCHANGED vars
  BY <1>2
  DEF EglInv, TypeOK, NothingLeaks, HolderKnows, PresentsCleanly, Alone, OnRung, Parts,
      ToldOfContext, Presenting, vars, bridge, java, drawing
<1> QED
  BY <1>1, <1>2

\* The variables keep their types.
THEOREM TypeCorrect == Spec => []TypeOK
<1>1. EglInv => TypeOK
  BY DEF EglInv
<1> QED
  BY <1>1, InitInv, NextInv, PTL DEF Spec

\* Whatever fails on the ladder, and whoever destroys the context or terminates EGL:
\* no window, context or subsystem of SDL is lost (sdv_egl_bridge.c:380-391).
THEOREM NothingIsLost == Spec => []NothingLeaks
<1>1. EglInv => NothingLeaks
  BY DEF EglInv
<1> QED
  BY <1>1, InitInv, NextInv, PTL DEF Spec

\* However many threads ask, the context is current on the one that was told so.
THEOREM HolderIsTold == Spec => []HolderKnows
<1>1. EglInv => HolderKnows
  BY DEF EglInv
<1> QED
  BY <1>1, InitInv, NextInv, PTL DEF Spec

\* Each frame is shown opaque and with the arrow that was asked for, and the state of
\* the game's drawing survives it (sdv_egl_bridge.c:658).
THEOREM FramesAreClean == Spec => []PresentsCleanly
<1>1. EglInv => PresentsCleanly
  BY DEF EglInv
<1> QED
  BY <1>1, InitInv, NextInv, PTL DEF Spec
=============================================================================
