------------------------------ MODULE EglBridge ------------------------------
(***************************************************************************)
(* src/src/sdv_egl_bridge.c: the one SDL window and GLES context behind    *)
(* EGL10, and the egl* calls of src/src/jni_shim.c that lead there.        *)
(* main() makes both and releases the context; threads of the game take    *)
(* it, present frames, and give it back or destroy it.                     *)
(*                                                                         *)
(* All of sdv_egl_init runs under g_lock, before any thread of the game    *)
(* exists; every other function of the bridge is one section, so one step. *)
(* The Java side reads each payload in a step of its own before it.  SDL   *)
(* is complete or not there.  A thread presents after a successful         *)
(* eglMakeCurrent, and a surface is destroyed by the thread that made it.  *)
(***************************************************************************)
EXTENDS Naturals, FiniteSets

CONSTANTS Users,        \* threads of the game that call EGL
          Main,
          Rungs,        \* length of the ladder of attributes
          MaxSurfaces,  \* bound: surfaces created
          NULL

ASSUME EglAssumption ==
  /\ Main \notin Users /\ Rungs \in Nat \ {0} /\ MaxSurfaces \in Nat
  /\ NULL \notin 0..Rungs /\ NULL \notin 1..MaxSurfaces

VARIABLES
  pc, arg,          \* per thread: where it is, and the payloads it read
  rung,             \* rung of the ladder
  window, context,  \* g_window, g_context
  owned,            \* g_video_owned, g_gamecontroller_owned
  visible,          \* g_right_cursor_visible
  payload,          \* payload of g_egl_context
  surface, maker,   \* payload of each Java surface, and who made it
  heap,             \* logical surfaces allocated
  sdl,              \* SDL: subsystems up, windows and contexts alive
  current,          \* SDL: the context current on each thread
  gl,               \* GL: state and back buffer of the context
  told,             \* history: what the last eglMakeCurrent made each thread believe
  wanted,           \* history: GL state as the game left it
  shown             \* history: the last frame presented

bridge == <<window, context, owned>>
java == <<payload, surface, maker, heap>>
drawing == <<gl, wanted, shown>>
vars == <<pc, arg, rung, bridge, visible, java, sdl, current, drawing, told>>

Threads == Users \cup {Main}

\* A window and a context are named after the rung they were made on.
Rung == 1..Rungs
Surface == 1..MaxSurfaces
NoArg == [ctx |-> NULL, surf |-> NULL]

InInit == {"start", "window", "context", "current", "version", "release"}
Goto(t, to) == pc' = [pc EXCEPT ![t] = to]
At(t, from) == pc[t] = from
Ready == window # NULL /\ context # NULL

-----------------------------------------------------------------------------
\* A variant that forgets the window.
DropContextOnly(t) ==
  /\ current' = IF context = NULL THEN current ELSE [current EXCEPT ![t] = NULL]
  /\ sdl' = [sdl EXCEPT !.contexts = @ \ {context}]
  /\ context' = NULL /\ window' = NULL

\* sdv_drop_candidate.  SDL releases a context that it deletes in the calling thread.
DropCandidate(t) ==
  /\ current' = IF context = NULL THEN current ELSE [current EXCEPT ![t] = NULL]
  /\ sdl' = [sdl EXCEPT !.contexts = @ \ {context}, !.windows = @ \ {window}]
  /\ context' = NULL /\ window' = NULL

\* The next rung, or 0 after the last.
NextRung == IF rung < Rungs THEN rung' = rung + 1 /\ Goto(Main, "window")
                            ELSE UNCHANGED rung /\ Goto(Main, "idle")

\* sdv_egl_init before its ladder: SDL, its video, and the controllers if they come up.
InitStart ==
  /\ At(Main, "start")
  /\ \/ Goto(Main, "idle") /\ UNCHANGED <<rung, owned, sdl>>
     \/ /\ Goto(Main, "window") /\ rung' = 1
        /\ owned' \in {{"video"}, {"video", "gamecontroller"}}
        /\ sdl' = [sdl EXCEPT !.up = owned']
  /\ UNCHANGED <<arg, window, context, visible, java, current, drawing, told>>

\* Fullscreen of either kind fails, or there is a window.
MakeWindow ==
  /\ At(Main, "window")
  /\ \/ NextRung /\ UNCHANGED <<window, sdl>>
     \/ /\ window' = rung /\ sdl' = [sdl EXCEPT !.windows = @ \cup {rung}]
        /\ Goto(Main, "context") /\ UNCHANGED rung
  /\ UNCHANGED <<arg, context, owned, visible, java, current, drawing, told>>

MakeContext ==
  /\ At(Main, "context")
  /\ context' = rung /\ sdl' = [sdl EXCEPT !.contexts = @ \cup {rung}]
  /\ current' = [current EXCEPT ![Main] = rung]
  /\ Goto(Main, "current")
  /\ UNCHANGED <<arg, rung, window, owned, visible, java, drawing, told>>

\* gl_make_current succeeds, then GL_VERSION is that of a GLES context.
Accepts ==
  /\ \/ At(Main, "current") /\ Goto(Main, "version")
     \/ At(Main, "version") /\ Goto(Main, "release")
  /\ UNCHANGED <<arg, rung, bridge, visible, java, sdl, current, drawing, told>>

\* There is no context, it does not become current, or it is not GLES.
Rejects ==
  /\ pc[Main] \in {"context", "current", "version"}
  /\ DropCandidate(Main) /\ NextRung
  /\ UNCHANGED <<arg, owned, visible, java, drawing, told>>

\* The context is released for the render thread, or given up.
Release ==
  /\ At(Main, "release") /\ Goto(Main, "idle")
  /\ \/ current' = [current EXCEPT ![Main] = NULL] /\ UNCHANGED <<window, context, sdl>>
     \/ DropCandidate(Main)
  /\ UNCHANGED <<arg, rung, owned, visible, java, drawing, told>>

-----------------------------------------------------------------------------
\* A thread of the game runs while main() is in its loop or on the way to it.
Runs(t) == At(t, "idle") /\ pc[Main] \notin InInit

\* It calls the Java side.
Call(t, to, a) ==
  /\ Runs(t) /\ Goto(t, to) /\ arg' = [arg EXCEPT ![t] = a]

Return(t) == Goto(t, "idle") /\ arg' = [arg EXCEPT ![t] = NoArg]

\* eglCreateContext, first sdv_egl_create_context, then the payload.
CreateContext(t) ==
  /\ Ready /\ Call(t, "setPayload", [NoArg EXCEPT !.ctx = context])
  /\ UNCHANGED <<rung, bridge, visible, java, sdl, current, drawing, told>>

SetPayload(t) ==
  /\ At(t, "setPayload") /\ Return(t)
  /\ payload' = arg[t].ctx
  /\ UNCHANGED <<rung, bridge, visible, surface, maker, heap, sdl, current, drawing, told>>

\* eglCreateWindowSurface, eglCreatePbufferSurface; nobody else knows the object yet.
CreateSurface(t) ==
  /\ Ready /\ Runs(t)
  /\ \E s \in Surface :
       /\ maker[s] = NULL /\ \A r \in 1..(s - 1) : maker[r] # NULL
       /\ maker' = [maker EXCEPT ![s] = t] /\ surface' = [surface EXCEPT ![s] = s]
       /\ heap' = heap \cup {s}
  /\ UNCHANGED <<pc, arg, rung, bridge, visible, payload, sdl, current, drawing, told>>

\* eglMakeCurrent reads the payload of a surface, or EGL_NO_SURFACE has none, ...
AskSurface(t) ==
  /\ \E s \in {NULL} \cup {surface[x] : x \in Surface} :
       Call(t, "askContext", [NoArg EXCEPT !.surf = s])
  /\ UNCHANGED <<rung, bridge, visible, java, sdl, current, drawing, told>>

\* ... and after it that of the context, or EGL_NO_CONTEXT has none.
AskContext(t) ==
  /\ At(t, "askContext") /\ Goto(t, "makeCurrent")
  /\ \E c \in {NULL, payload} : arg' = [arg EXCEPT ![t].ctx = c]
  /\ UNCHANGED <<rung, bridge, visible, java, sdl, current, drawing, told>>

\* sdv_egl_make_current answers 0.
Refused(a) == IF a = NoArg THEN window = NULL
              ELSE window = NULL \/ a.ctx # context \/ a.surf = NULL

\* A variant that does not compare the context.
MakeCurrentAny(t) ==
  /\ At(t, "makeCurrent") /\ Return(t)
  /\ LET a == arg[t]
         c == IF a = NoArg THEN NULL ELSE context
     IN \/ UNCHANGED <<current, told>>
        \/ /\ ~(window = NULL \/ (a # NoArg /\ a.surf = NULL))
           /\ c = NULL \/ \A u \in Threads \ {t} : current[u] # c
           /\ current' = [current EXCEPT ![t] = c]
           /\ told' = [told EXCEPT ![t] = a.ctx]
  /\ UNCHANGED <<rung, bridge, visible, java, sdl, drawing>>

\* sdv_egl_make_current: refused, failing in SDL (which it does when another thread
\* has the context), or done.
MakeCurrent(t) ==
  /\ At(t, "makeCurrent") /\ Return(t)
  /\ LET a == arg[t]
         c == IF a = NoArg THEN NULL ELSE context
     IN \/ UNCHANGED <<current, told>>
        \/ /\ ~Refused(a)
           /\ c = NULL \/ \A u \in Threads \ {t} : current[u] # c
           /\ current' = [current EXCEPT ![t] = c]
           /\ told' = [told EXCEPT ![t] = a.ctx]
  /\ UNCHANGED <<rung, bridge, visible, java, sdl, drawing>>

-----------------------------------------------------------------------------
\* glClear of the colour buffer: what it writes depends on mask and scissor.
Clear(g) == IF g.mask = "alpha" THEN [g EXCEPT !.opaque = @ \/ ~g.scissor]
            ELSE IF g.scissor /\ g.box = "arrow" THEN [g EXCEPT !.arrow = TRUE]
            ELSE [g EXCEPT !.arrow = FALSE, !.opaque = TRUE]

\* sdv_prepare_present: alpha 1 all over the default framebuffer.
PreparePresent(g) ==
  IF g.fbo # 0 THEN g
  ELSE [Clear([g EXCEPT !.scissor = FALSE, !.mask = "alpha", !.clear = "one"])
          EXCEPT !.clear = g.clear, !.mask = g.mask, !.scissor = g.scissor]

\* A variant that leaves the scissor test on.
DrawCursorUnrestored(g) ==
  IF ~visible \/ g.fbo # 0 THEN g
  ELSE [Clear([g EXCEPT !.scissor = TRUE, !.mask = "all", !.box = "arrow", !.clear = "arrow"])
          EXCEPT !.clear = g.clear, !.mask = g.mask, !.box = g.box]

\* sdv_draw_right_cursor: rectangles cleared under the scissor.
DrawCursor(g) ==
  IF ~visible \/ g.fbo # 0 THEN g
  ELSE [Clear([g EXCEPT !.scissor = TRUE, !.mask = "all", !.box = "arrow", !.clear = "arrow"])
          EXCEPT !.clear = g.clear, !.mask = g.mask, !.box = g.box, !.scissor = g.scissor]

\* SDL_GL_SwapWindow: the back buffer is shown; the next one is the game's again.
NextBuffer(g) == [g EXCEPT !.opaque = FALSE, !.arrow = FALSE]

\* eglSwapBuffers of a surface.
AskSwap(t) ==
  /\ told[t] # NULL
  /\ \E s \in Surface : /\ surface[s] # NULL
                        /\ Call(t, "swap", [NoArg EXCEPT !.surf = surface[s]])
  /\ UNCHANGED <<rung, bridge, visible, java, sdl, current, drawing, told>>

\* sdv_egl_swap.  The capture of a frame on demand restores the pack alignment, the one
\* state it sets.
Swap(t) ==
  /\ At(t, "swap") /\ Return(t)
  /\ IF Ready
     THEN LET g == DrawCursor(PreparePresent(gl))
          IN /\ shown' = [fbo |-> g.fbo, opaque |-> g.opaque, arrow |-> g.arrow, asked |-> visible,
                          live |-> current[t] \in sdl.contexts /\ window \in sdl.windows]
             /\ gl' = NextBuffer(g)
     ELSE UNCHANGED <<gl, shown>>
  /\ UNCHANGED <<rung, bridge, visible, java, sdl, current, wanted, told>>

\* The game draws: it binds a framebuffer and sets the scissor.
GameDraws(t) ==
  /\ Runs(t) /\ told[t] # NULL /\ current[t] \in sdl.contexts
  /\ \E f \in {0, 1}, s \in BOOLEAN :
       /\ gl' = [gl EXCEPT !.fbo = f, !.scissor = s]
       /\ wanted' = [wanted EXCEPT !.fbo = f, !.scissor = s]
  /\ UNCHANGED <<pc, arg, rung, bridge, visible, java, sdl, current, shown, told>>

\* sdv_egl_set_right_cursor, from the input loop.
SetRightCursor ==
  /\ At(Main, "idle") /\ visible' \in BOOLEAN
  /\ UNCHANGED <<pc, arg, rung, bridge, java, sdl, current, drawing, told>>

-----------------------------------------------------------------------------
\* eglDestroySurface: the payload is read, its block freed, and the payload cleared.
DestroySurface(t) ==
  /\ \E s \in Surface : /\ maker[s] = t /\ surface[s] # NULL
                        /\ Call(t, "free", [NoArg EXCEPT !.surf = s])
  /\ UNCHANGED <<rung, bridge, visible, java, sdl, current, drawing, told>>

FreeSurface(t) ==
  /\ At(t, "free") /\ Goto(t, "clearSurface")
  /\ heap' = heap \ {arg[t].surf}
  /\ UNCHANGED <<arg, rung, bridge, visible, payload, surface, maker, sdl, current, drawing, told>>

ClearSurface(t) ==
  /\ At(t, "clearSurface") /\ Return(t)
  /\ surface' = [surface EXCEPT ![arg[t].surf] = NULL]
  /\ UNCHANGED <<rung, bridge, visible, payload, maker, heap, sdl, current, drawing, told>>

\* eglDestroyContext, in the same three steps.
AskDestroy(t) ==
  /\ payload # NULL /\ Call(t, "destroy", [NoArg EXCEPT !.ctx = payload])
  /\ UNCHANGED <<rung, bridge, visible, java, sdl, current, drawing, told>>

DestroyContext(t) ==
  /\ At(t, "destroy") /\ Goto(t, "clearContext")
  /\ IF arg[t].ctx = context
     THEN /\ current' = [current EXCEPT ![t] = NULL]
          /\ sdl' = [sdl EXCEPT !.contexts = @ \ {context}] /\ context' = NULL
     ELSE UNCHANGED <<current, sdl, context>>
  /\ UNCHANGED <<arg, rung, window, owned, visible, java, drawing, told>>

ClearContext(t) ==
  /\ At(t, "clearContext") /\ Return(t) /\ payload' = NULL
  /\ UNCHANGED <<rung, bridge, visible, surface, maker, heap, sdl, current, drawing, told>>

\* eglTerminate: sdv_egl_destroy gives everything back.  Nothing makes it anew.
Terminate(t) ==
  /\ Runs(t)
  /\ current' = IF context = NULL THEN current ELSE [current EXCEPT ![t] = NULL]
  /\ window' = NULL /\ context' = NULL /\ owned' = {} /\ visible' = FALSE
  /\ sdl' = [up |-> sdl.up \ owned, windows |-> sdl.windows \ {window},
             contexts |-> sdl.contexts \ {context}]
  /\ UNCHANGED <<pc, arg, rung, java, drawing, told>>

\* The input loop ends, and main() with _exit, which stops the threads wherever they are.
Exit ==
  /\ At(Main, "idle")
  /\ pc' = [t \in Threads |-> "exited"] /\ arg' = [t \in Threads |-> NoArg]
  /\ UNCHANGED <<rung, bridge, visible, java, sdl, current, drawing, told>>

-----------------------------------------------------------------------------
GameState == [fbo |-> 0, scissor |-> FALSE, mask |-> "all", clear |-> "game", box |-> "game"]
BackBuffer == [opaque |-> FALSE, arrow |-> FALSE]
With(g, b) == [k \in DOMAIN g \cup DOMAIN b |-> IF k \in DOMAIN g THEN g[k] ELSE b[k]]

Init ==
  /\ pc = [t \in Threads |-> IF t = Main THEN "start" ELSE "idle"]
  /\ arg = [t \in Threads |-> NoArg] /\ rung = 0
  /\ window = NULL /\ context = NULL /\ owned = {} /\ visible = FALSE
  /\ payload = NULL /\ heap = {}
  /\ surface = [s \in Surface |-> NULL] /\ maker = [s \in Surface |-> NULL]
  /\ sdl = [up |-> {}, windows |-> {}, contexts |-> {}]
  /\ current = [t \in Threads |-> NULL] /\ told = [t \in Threads |-> NULL]
  /\ gl = With(GameState, BackBuffer) /\ wanted = GameState
  /\ shown = [fbo |-> 1, opaque |-> FALSE, arrow |-> FALSE, asked |-> FALSE, live |-> TRUE]

Ladder == InitStart \/ MakeWindow \/ MakeContext \/ Accepts \/ Rejects \/ Release

Next ==
  \/ Ladder \/ SetRightCursor \/ Exit
  \/ \E t \in Users :
       \/ CreateContext(t) \/ SetPayload(t) \/ CreateSurface(t)
       \/ AskSurface(t) \/ AskContext(t) \/ MakeCurrent(t) \/ AskSwap(t) \/ Swap(t) \/ GameDraws(t)
       \/ DestroySurface(t) \/ FreeSurface(t) \/ ClearSurface(t)
       \/ AskDestroy(t) \/ DestroyContext(t) \/ ClearContext(t) \/ Terminate(t)

Spec == Init /\ [][Next]_vars

-----------------------------------------------------------------------------
TypeOK ==
  /\ pc \in [Threads -> InInit \cup {"idle", "exited", "setPayload", "askContext", "makeCurrent",
                                    "swap", "free", "clearSurface", "destroy", "clearContext"}]
  /\ arg \in [Threads -> [ctx : Rung \cup {NULL}, surf : Surface \cup {NULL}]]
  /\ rung \in 0..Rungs
  /\ window \in Rung \cup {NULL} /\ context \in Rung \cup {NULL}
  /\ owned \subseteq {"video", "gamecontroller"} /\ visible \in BOOLEAN
  /\ payload \in Rung \cup {NULL}
  /\ surface \in [Surface -> Surface \cup {NULL}] /\ maker \in [Surface -> Users \cup {NULL}]
  /\ heap \subseteq Surface
  /\ sdl \in [up : SUBSET {"video", "gamecontroller"}, windows : SUBSET Rung, contexts : SUBSET Rung]
  /\ current \in [Threads -> Rung \cup {NULL}] /\ told \in [Threads -> Rung \cup {NULL}]
  /\ gl \in [fbo : {0, 1}, scissor : BOOLEAN, mask : {"all"}, clear : {"game"}, box : {"game"},
             opaque : BOOLEAN, arrow : BOOLEAN]
  /\ wanted \in [fbo : {0, 1}, scissor : BOOLEAN, mask : {"all"}, clear : {"game"}, box : {"game"}]
  /\ shown \in [fbo : {0, 1}, opaque : BOOLEAN, arrow : BOOLEAN, asked : BOOLEAN, live : BOOLEAN]

\* Whatever fails on the ladder, is destroyed or shut down: the windows, contexts and
\* subsystems that SDL keeps for the bridge are those its globals name, and the
\* context belongs to the window (sdv_egl_bridge.c:380-391).
NothingLeaks ==
  /\ sdl.windows = {window} \ {NULL} /\ sdl.contexts = {context} \ {NULL}
  /\ sdl.up = owned /\ context \in {NULL, window}

\* The context is released for the render thread after its creation (:585), and from
\* then on is current on the one thread that a successful eglMakeCurrent told so and
\* on no other, whatever calls of other threads come between.
HolderKnows ==
  pc[Main] \notin InInit =>
    \A t \in Threads : {current[t], told[t]} \cap sdl.contexts # {} => current[t] = told[t]

\* "Preservamos todo o estado tocado" (:658): a swap leaves the GL state as the game
\* set it.  A frame from the default framebuffer is shown opaque, with the arrow as the
\* input loop last asked, through a context and a window that are alive.
PresentsCleanly ==
  /\ \A k \in DOMAIN wanted : gl[k] = wanted[k]
  /\ shown.live
  /\ shown.fbo = 0 => shown.opaque /\ shown.arrow = shown.asked
=============================================================================
