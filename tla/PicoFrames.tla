------------------------------ MODULE PicoFrames ------------------------------
(***************************************************************************)
(* Frames between the cores, and the game actions that come between frames *)
(* (src/src/pd_render.cpp, src/src/pico/i_video.c, src/src/doom/g_game.c,  *)
(* src/src/doom/d_main.c, src/src/pico/i_system.c).                        *)
(*                                                                         *)
(* Core 0 runs tics and draws; core 1 displays.  They share two frame      *)
(* buffers and, while the screen melts from one picture into the next (a   *)
(* wipe), tables at the end of core 0's work area.  (The two lists of      *)
(* overlays, which alternate with every frame, are left out.)  Two         *)
(* semaphores hand a frame over and back: core 0 takes                     *)
(* display_frame_freed, draws, gives render_frame_ready; core 1 takes that *)
(* one, notes what to display from now on, and gives the first one back.   *)
(*                                                                         *)
(* Saving a game takes a second frame to park core 1 on, with a time-out;  *)
(* quitting takes one for the text screen.  Both are game actions: they    *)
(* wait for the next tic in a single variable, gameaction, that menus,     *)
(* tics and demos all assign.                                              *)
(***************************************************************************)
EXTENDS Naturals

VARIABLES
  render_frame_ready, display_frame_freed,     \* the semaphores
  next,                  \* next_video_type, next_frame_index
  display,               \* display_video_type, display_frame_index
  render_frame_index,
  wipestate, wipe_min, wipegamestate,
  kept_tail,             \* last_list_buffer_limit is below the wipe tables
  draws_tail,            \* this frame of core 0 writes where the tables are
  gamestate, gameaction, pre_wipe_state, advancedemo,
  inhelpscreens, was_in_help, sub_gamestate,
  fading, old_video_type, paused,
  pc0,                   \* where core 0 is
  picked                 \* core 1 has taken a frame that it has not given back

permits == <<render_frame_ready, display_frame_freed>>
render  == <<render_frame_index, was_in_help, sub_gamestate, kept_tail, draws_tail>>
wiping  == <<wipestate, wipegamestate>>
game    == <<gamestate, gameaction, pre_wipe_state, advancedemo>>
saving  == <<fading, old_video_type, paused>>
vars    == <<permits, next, display, render, wiping, wipe_min, game, inhelpscreens,
             saving, pc0, picked>>

\* the maximum of both semaphores
SemMax == 2
Release(n) == IF n < SemMax THEN n + 1 ELSE n

VideoTypes == {"none", "text", "saving", "double", "single", "wipe"}
Frame      == [type : VideoTypes, frame : 0 .. 1]
NoFrame    == [type |-> "none", frame |-> 0]
Nothing    == "nothing"

\* GS_FINALE is an intermission here: both are pages in SINGLE mode.
GameStates  == {"level", "intermission", "demoscreen"}
\* newgame stands for the actions that load a level after an extra frame
\* (loadlevel, newgame, worlddone), loadgame for those that do so at once
\* (loadgame, playdemo, newgamenet).
GameActions == {"nothing", "newgame", "completed", "loadgame", "savegame", "deferredquit"}
WipeStates  == {"none", "skip1", "redraw1", "skip2", "redraw2", "skip3"}
\* wipe_min, as far as it is compared: up to 32, up to 64, below 200, 200.
WipeMins    == 0 .. 3
Places      == {"tics", "action", "ticker", "frame", "draw", "pause", "parking", "late",
                "write", "fadein", "quit", "prompt"}

Init ==
  /\ render_frame_ready = 0 /\ display_frame_freed = 1
  /\ next = NoFrame /\ display = NoFrame
  /\ render_frame_index = 0
  /\ was_in_help = FALSE /\ sub_gamestate = 0 /\ kept_tail = FALSE /\ draws_tail = FALSE
  /\ wipestate = "none" /\ wipe_min = 0 /\ wipegamestate = "demoscreen"
  /\ gamestate = "demoscreen" /\ gameaction = Nothing
  /\ pre_wipe_state = "none" /\ advancedemo = FALSE
  /\ inhelpscreens = FALSE
  /\ fading = FALSE /\ old_video_type = "none" /\ paused = FALSE
  /\ pc0 = "tics" /\ picked = FALSE

-----------------------------------------------------------------------------
(* Core 1: new_frame_stuff, once per vsync, and the fill that follows it.   *)

\* Core 1 looks once per vsync: once at most in the moment between the time-out of a
\* pause and the first statement that follows it.
PickUp ==
  /\ ~ picked /\ render_frame_ready > 0
  /\ pc0 = "late" => display_frame_freed = 0
  /\ render_frame_ready' = render_frame_ready - 1
  /\ picked' = TRUE
  /\ UNCHANGED <<display_frame_freed, next, display, render, wiping, wipe_min, game,
                 inhelpscreens, saving, pc0>>

Note ==
  /\ picked
  /\ display' = next
  /\ picked' = FALSE
  /\ display_frame_freed' = Release(display_frame_freed)
  /\ UNCHANGED <<render_frame_ready, next, render, wiping, wipe_min, game, inhelpscreens,
                 saving, pc0>>

\* new_frame_init_overlays_palette_and_wipe: the columns of a wipe move down by
\* a few lines in every frame displayed, the slowest one past a threshold.  After
\* the wipe nobody reads wipe_min.
MoveColumns ==
  /\ ~ picked /\ display.type = "wipe" /\ wipestate # "none" /\ wipe_min < 3
  /\ wipe_min' = wipe_min + 1
  /\ UNCHANGED <<permits, next, display, render, wiping, game, inhelpscreens, saving, pc0,
                 picked>>

-----------------------------------------------------------------------------
(* Core 0: a frame (D_Display, pd_end_frame).                               *)

\* The video type of the plain pages and of a level.
PlainType == IF gamestate = "level" THEN "double" ELSE "single"

\* Mutant: the first frame of help is drawn into the buffer on display.
FlipsKept == gamestate = "level" /\ wipestate = "none" /\ ~ inhelpscreens

\* The buffers are swapped for a frame of a level, and for the first of help.
Flips == /\ gamestate = "level" /\ wipestate = "none"
         /\ ~ inhelpscreens \/ ~ was_in_help

LeavesHelp == ~ inhelpscreens /\ was_in_help

\* Mutant: leaving help changes the video type and forgets the wipe.
WipeStateKept == wipestate

\* Leaving help ends a wipe at once.
WipeStateNow == IF LeavesHelp THEN "none" ELSE wipestate

\* D_Display asks for a wipe when the game state has changed.
StartsWipe == ~ inhelpscreens /\ WipeStateNow = "none" /\ gamestate # wipegamestate

\* The switch on wipestate, which help skips.
NextWipeState ==
  IF inhelpscreens THEN wipestate
  ELSE CASE StartsWipe                                  -> "skip1"
         [] WipeStateNow = "skip1" /\ wipe_min >= 1     -> "redraw1"
         [] WipeStateNow = "redraw1"                    -> "skip2"
         [] WipeStateNow = "skip2" /\ wipe_min >= 2     -> "redraw2"
         [] WipeStateNow = "redraw2"                    -> "skip3"
         [] WipeStateNow = "skip3" /\ wipe_min >= 3     -> "none"
         [] OTHER                                       -> WipeStateNow

EndsWipe == ~ inhelpscreens /\ WipeStateNow = "skip3" /\ wipe_min >= 3

\* Mutant: only the current limit is kept, not the last one as well.
SparesTailNow == NextWipeState # "none"

\* this_time_limit, the lower limit of this frame and the last one, spares the
\* wipe tables.
SparesTail == NextWipeState # "none" \/ kept_tail

\* pd_end_frame up to the drawing: core 0 waits for a frame and takes it.
BeginDraw ==
  /\ pc0 = "frame" /\ display_frame_freed > 0
  /\ display_frame_freed' = display_frame_freed - 1
  /\ render_frame_index' = IF Flips \/ (StartsWipe /\ gamestate # "level")
                           THEN 1 - render_frame_index ELSE render_frame_index
  /\ next' = [next EXCEPT !.type = IF StartsWipe THEN "wipe"
                                   ELSE IF LeavesHelp \/ EndsWipe THEN PlainType ELSE @]
  /\ wipegamestate' = IF wipestate \in {"none", "redraw1"} THEN gamestate ELSE wipegamestate
  /\ wipestate' = NextWipeState
  /\ wipe_min' = IF StartsWipe \/ NextWipeState = "none" THEN 0 ELSE wipe_min
  /\ sub_gamestate' = IF LeavesHelp THEN 0 ELSE sub_gamestate
  /\ kept_tail' = (NextWipeState # "none")
  /\ draws_tail' = (StartsWipe \/ ~ SparesTail)
  /\ pc0' = "draw"
  /\ UNCHANGED <<render_frame_ready, display, was_in_help, game, inhelpscreens, saving,
                 picked>>

\* Mutant: the first frame of a page keeps the video type.
DrawPageUntyped(drawn) ==
  /\ sub_gamestate' = 1
  /\ next' = [next EXCEPT !.frame = render_frame_index]

\* maybe_draw_single_screen: a page is drawn in two frames, of which the first sets
\* the video type (sub_gamestate 1 stands for 1 and 2).
DrawPage(drawn) ==
  /\ sub_gamestate' = 1
  /\ next' = [type  |-> IF drawn = 0 THEN "single" ELSE next.type,
              frame |-> render_frame_index]

\* The rest of pd_end_frame: the video type that goes with what was drawn, the
\* menus, which may put up or take away the help pages, and the hand-over.
EndDraw ==
  /\ pc0 = "draw"
  /\ CASE inhelpscreens -> DrawPage(IF was_in_help THEN sub_gamestate ELSE 0)
       [] ~ inhelpscreens /\ gamestate = "demoscreen" /\ wipestate = "none" ->
            DrawPage(sub_gamestate)
       [] ~ inhelpscreens /\ gamestate = "level" /\ wipestate = "none" ->
            /\ sub_gamestate' = 0
            /\ next' = [type |-> "double", frame |-> render_frame_index]
       [] OTHER ->
            /\ sub_gamestate' = sub_gamestate
            /\ next' = [next EXCEPT !.frame = render_frame_index]
  /\ was_in_help' = inhelpscreens
  /\ inhelpscreens' \in BOOLEAN
  /\ pre_wipe_state' = IF pre_wipe_state = "needed" THEN "done" ELSE pre_wipe_state
  /\ render_frame_ready' = Release(render_frame_ready)
  /\ draws_tail' = FALSE
  /\ pc0' = IF wipestate = "none" THEN "tics" ELSE "frame"
  /\ UNCHANGED <<display_frame_freed, display, render_frame_index, wiping, wipe_min, kept_tail,
                 gamestate, gameaction, advancedemo, saving, picked>>

-----------------------------------------------------------------------------
(* Core 0: the tics (TryRunTics, RunTic, G_Ticker) and the menus.           *)

\* RunTic advances the demo loop before G_Ticker: the next page or demo.
RunTic ==
  /\ pc0 = "tics"
  /\ pc0' = "action"
  /\ advancedemo' = FALSE
  /\ IF advancedemo
     THEN \/ gamestate' = "demoscreen" /\ gameaction' = Nothing
          \/ gamestate' = gamestate /\ gameaction' = "loadgame"
     ELSE UNCHANGED <<gamestate, gameaction>>
  /\ UNCHANGED <<permits, next, display, render, wiping, wipe_min, pre_wipe_state,
                 inhelpscreens, saving, picked>>

\* TryRunTics gives up on a stalled net game, so that the menus go on.
StalledTics ==
  /\ pc0 = "tics" /\ gamestate # "demoscreen"
  /\ pc0' = "frame"
  /\ UNCHANGED <<permits, next, display, render, wiping, wipe_min, game, inhelpscreens,
                 saving, picked>>

\* An extra frame is shown before a level is left or entered.
NeedsExtraFrame == gameaction \in {"newgame", "completed"} /\ pre_wipe_state # "done"

ExtraFrame ==
  /\ pc0 = "action" /\ NeedsExtraFrame
  /\ pre_wipe_state' = "needed"
  /\ pc0' = "ticker"
  /\ UNCHANGED <<permits, next, display, render, wiping, wipe_min, gamestate, gameaction,
                 advancedemo, inhelpscreens, saving, picked>>

\* G_DoLoadLevel: a level after a level forces a wipe.
LoadLevel ==
  /\ pc0 = "action" /\ gameaction \in {"newgame", "loadgame"} /\ ~ NeedsExtraFrame
  /\ pre_wipe_state' = IF gameaction = "newgame" THEN "none" ELSE pre_wipe_state
  /\ wipegamestate' = IF wipegamestate = "level" THEN "forced" ELSE wipegamestate
  /\ gamestate' = "level"
  /\ gameaction' = Nothing
  /\ UNCHANGED <<permits, next, display, render, wipestate, wipe_min, advancedemo,
                 inhelpscreens, saving, pc0, picked>>

Completed ==
  /\ pc0 = "action" /\ gameaction = "completed" /\ ~ NeedsExtraFrame
  /\ pre_wipe_state' = "none"
  /\ gamestate' = "intermission"
  /\ gameaction' = Nothing
  /\ UNCHANGED <<permits, next, display, render, wiping, wipe_min, advancedemo, inhelpscreens,
                 saving, pc0, picked>>

NoAction ==
  /\ pc0 = "action" /\ gameaction = Nothing
  /\ pc0' = "ticker"
  /\ UNCHANGED <<permits, next, display, render, wiping, wipe_min, game, inhelpscreens,
                 saving, picked>>

\* The rest of G_Ticker: a save command in the tic, then what runs in the game
\* state.  A level may be completed or its demo end; an intermission ends; a page
\* of the demo loop has been up long enough.  save: the tic holds the command of a
\* save menu, which has been displayed.
Ticker(save) ==
  /\ pc0 = "ticker"
  /\ save => gamestate # "demoscreen" /\ next.type # "none"
  /\ LET act == IF save THEN "savegame" ELSE gameaction IN
     \/ gameaction' = act /\ UNCHANGED advancedemo
     \/ gamestate = "level" /\ gameaction' = "completed" /\ UNCHANGED advancedemo
     \/ gamestate = "intermission" /\ gameaction' = "newgame" /\ UNCHANGED advancedemo
     \/ gamestate # "intermission" /\ gameaction' = act /\ advancedemo' = TRUE
  /\ pc0' \in {"tics", "frame"}
  /\ UNCHANGED <<permits, next, display, render, wiping, wipe_min, gamestate, pre_wipe_state,
                 inhelpscreens, saving, picked>>

\* The menus run in NetUpdate: between tics, and in the middle of a frame.
InNetUpdate == pc0 \in {"tics", "frame", "draw"}

\* Mutant: the menu quits at once.
ConfirmQuitNow ==
  /\ InNetUpdate
  /\ gameaction' = "deferredquit" /\ pc0' = "quit"
  /\ UNCHANGED <<permits, next, display, render, wiping, wipe_min, gamestate, pre_wipe_state,
                 advancedemo, inhelpscreens, saving, picked>>

\* M_QuitResponse, which may hold a frame: it leaves the quitting to G_Ticker.
ConfirmQuit ==
  /\ InNetUpdate
  /\ gameaction' = "deferredquit"
  /\ UNCHANGED <<permits, next, display, render, wiping, wipe_min, gamestate, pre_wipe_state,
                 advancedemo, inhelpscreens, saving, pc0, picked>>

\* M_ChooseSkill and M_LoadSelect
ChooseGame ==
  /\ InNetUpdate
  /\ gameaction' \in {"newgame", "loadgame"}
  /\ UNCHANGED <<permits, next, display, render, wiping, wipe_min, gamestate, pre_wipe_state,
                 advancedemo, inhelpscreens, saving, pc0, picked>>

\* M_EndGameResponse: D_StartTitle
EndGame ==
  /\ InNetUpdate /\ gamestate # "demoscreen"
  /\ gameaction' = Nothing
  /\ advancedemo' = TRUE
  /\ UNCHANGED <<permits, next, display, render, wiping, wipe_min, gamestate, pre_wipe_state,
                 inhelpscreens, saving, pc0, picked>>

-----------------------------------------------------------------------------
(* Core 0: saving a game (G_DoSaveGame, pd_start_save_pause,                *)
(* pd_end_save_pause) and quitting (I_Quit).                                *)

SaveGame ==
  /\ pc0 = "action" /\ gameaction = "savegame"
  /\ fading' = TRUE
  /\ pc0' = "pause"
  /\ UNCHANGED <<permits, next, display, render, wiping, wipe_min, game, inhelpscreens,
                 old_video_type, paused, picked>>

\* wait_for_free_frame
FrameIsFree == display_frame_freed > 0

\* The frame that core 1 is to park on.
PauseHandOver ==
  /\ pc0 = "pause" /\ FrameIsFree /\ ~ fading
  /\ display_frame_freed' = display_frame_freed - 1
  /\ old_video_type' = next.type
  /\ next' = [next EXCEPT !.type = "saving"]
  /\ render_frame_ready' = Release(render_frame_ready)
  /\ pc0' = "parking"
  /\ UNCHANGED <<display, render, wiping, wipe_min, game, inhelpscreens, fading, paused,
                 picked>>

\* The time-out of the first wait: nothing to give back.
PauseRefused ==
  /\ pc0 = "pause" /\ (~ FrameIsFree \/ fading)
  /\ fading' = FALSE
  /\ paused' = FALSE
  /\ pc0' = "write"
  /\ UNCHANGED <<permits, next, display, render, wiping, wipe_min, game, inhelpscreens,
                 old_video_type, picked>>

\* Core 1 has freed the frame it displayed before, and so displays this one.
PauseTaken ==
  /\ pc0 = "parking" /\ FrameIsFree
  /\ display_frame_freed' = display_frame_freed - 1
  /\ paused' = TRUE
  /\ pc0' = "write"
  /\ UNCHANGED <<render_frame_ready, next, display, render, wiping, wipe_min, game,
                 inhelpscreens, fading, old_video_type, picked>>

\* The time-out of the second wait, decided on before anything is taken back.
PauseLate ==
  /\ pc0 = "parking" /\ ~ FrameIsFree
  /\ pc0' = "late"
  /\ UNCHANGED <<permits, next, display, render, wiping, wipe_min, game, inhelpscreens, saving,
                 picked>>

\* Mutant: the permit of the hand-over is not given back.
PauseBackOutKept ==
  /\ pc0 = "late"
  /\ next' = [next EXCEPT !.type = old_video_type]
  /\ render_frame_ready' = IF render_frame_ready > 0 THEN render_frame_ready - 1
                           ELSE render_frame_ready
  /\ fading' = FALSE
  /\ old_video_type' = "none"
  /\ paused' = FALSE
  /\ pc0' = "write"
  /\ UNCHANGED <<display_frame_freed, display, render, wiping, wipe_min, game, inhelpscreens, picked>>

\* The frame is taken back unless core 1 has it by now (sem_try_acquire), and the
\* permit taken in PauseHandOver is given back either way.
PauseBackOut ==
  /\ pc0 = "late"
  /\ next' = [next EXCEPT !.type = old_video_type]
  /\ render_frame_ready' = IF render_frame_ready > 0 THEN render_frame_ready - 1
                           ELSE render_frame_ready
  /\ display_frame_freed' = Release(display_frame_freed)
  /\ fading' = FALSE
  /\ old_video_type' = "none"
  /\ paused' = FALSE
  /\ pc0' = "write"
  /\ UNCHANGED <<display, render, wiping, wipe_min, game, inhelpscreens, picked>>

\* Mutant: a paused save never resumes the display.
WriteSaveKept ==
  /\ pc0 = "write"
  /\ IF paused
     THEN /\ next' = [next EXCEPT !.type = old_video_type]
          /\ old_video_type' = "none"
          /\ fading' = TRUE
          /\ pc0' = "fadein"
          /\ UNCHANGED <<render_frame_ready, gameaction>>
     ELSE /\ gameaction' = Nothing
          /\ pc0' = "action"
          /\ UNCHANGED <<next, render_frame_ready, fading, old_video_type>>
  /\ UNCHANGED <<display_frame_freed, display, render, wiping, wipe_min, gamestate,
                 pre_wipe_state, advancedemo, inhelpscreens, paused, picked>>

\* The file is written, paused or not, and the pause ends if there is one.
WriteSave ==
  /\ pc0 = "write"
  /\ IF paused
     THEN /\ next' = [next EXCEPT !.type = old_video_type]
          /\ render_frame_ready' = Release(render_frame_ready)
          /\ old_video_type' = "none"
          /\ fading' = TRUE
          /\ pc0' = "fadein"
          /\ UNCHANGED gameaction
     ELSE /\ gameaction' = Nothing
          /\ pc0' = "action"
          /\ UNCHANGED <<next, render_frame_ready, fading, old_video_type>>
  /\ UNCHANGED <<display_frame_freed, display, render, wiping, wipe_min, gamestate,
                 pre_wipe_state, advancedemo, inhelpscreens, paused, picked>>

SaveDone ==
  /\ pc0 = "fadein" /\ ~ fading
  /\ paused' = FALSE
  /\ gameaction' = Nothing
  /\ pc0' = "action"
  /\ UNCHANGED <<permits, next, display, render, wiping, wipe_min, gamestate, pre_wipe_state,
                 advancedemo, inhelpscreens, fading, old_video_type, picked>>

\* The mixer, which core 0 runs wherever it waits, ends the fade it waits for.
FadeEnds ==
  /\ fading /\ pc0 \in {"pause", "fadein"}
  /\ fading' = FALSE
  /\ UNCHANGED <<permits, next, display, render, wiping, wipe_min, game, inhelpscreens,
                 old_video_type, paused, pc0, picked>>

\* G_Ticker calls I_Quit, which waits for a frame ...
Quit ==
  /\ pc0 = "action" /\ gameaction = "deferredquit"
  /\ pc0' = "quit"
  /\ UNCHANGED <<permits, next, display, render, wiping, wipe_min, game, inhelpscreens, saving,
                 picked>>

\* ... and hands it over as the text screen, for good.
ShowText ==
  /\ pc0 = "quit" /\ FrameIsFree
  /\ display_frame_freed' = display_frame_freed - 1
  /\ next' = [next EXCEPT !.type = "text"]
  /\ render_frame_ready' = Release(render_frame_ready)
  /\ pc0' = "prompt"
  /\ UNCHANGED <<display, render, wiping, wipe_min, game, inhelpscreens, saving, picked>>

-----------------------------------------------------------------------------
Core1 == PickUp \/ Note

Core0 == \/ BeginDraw \/ EndDraw
         \/ RunTic \/ StalledTics
         \/ ExtraFrame \/ LoadLevel \/ Completed \/ NoAction
         \/ \E save \in BOOLEAN : Ticker(save)
         \/ SaveGame \/ PauseHandOver \/ PauseRefused \/ PauseTaken \/ PauseLate
         \/ PauseBackOut \/ WriteSave \/ SaveDone
         \/ Quit \/ ShowText

Menus == ConfirmQuit \/ ChooseGame \/ EndGame

Next == Core1 \/ MoveColumns \/ Core0 \/ FadeEnds \/ Menus

\* Core 1 displays at every vsync and core 0 does not stop.  TryRunTics runs tics
\* as they become due, a few before each frame; sound and columns move on.
Fairness ==
  /\ WF_vars(Core1) /\ WF_vars(Core0)
  /\ WF_vars(FadeEnds) /\ SF_vars(MoveColumns)
  /\ SF_vars(RunTic) /\ SF_vars(\E save \in BOOLEAN : Ticker(save) /\ pc0' = "frame")

Spec == Init /\ [][Next]_vars /\ Fairness

-----------------------------------------------------------------------------
(* Properties.                                                              *)

\* Every variable keeps its type; no finished frame is without a video type.
TypeOK ==
  /\ render_frame_ready \in 0 .. SemMax /\ display_frame_freed \in 0 .. SemMax
  /\ next \in Frame /\ display \in Frame /\ picked \in BOOLEAN
  /\ render_frame_index \in 0 .. 1
  /\ wipestate \in WipeStates /\ wipe_min \in WipeMins
  /\ wipegamestate \in GameStates \cup {"forced"}
  /\ kept_tail \in BOOLEAN /\ draws_tail \in BOOLEAN
  /\ gamestate \in GameStates /\ gameaction \in GameActions
  /\ pre_wipe_state \in {"none", "needed", "done"} /\ advancedemo \in BOOLEAN
  /\ inhelpscreens \in BOOLEAN /\ was_in_help \in BOOLEAN /\ sub_gamestate \in 0 .. 1
  /\ fading \in BOOLEAN
  /\ old_video_type \in VideoTypes /\ paused \in BOOLEAN
  /\ pc0 \in Places
  /\ render_frame_ready > 0 => next.type # "none"

\* The frames in the handshake: the semaphores' and those a core holds.
Held    == IF pc0 = "draw" \/ (pc0 = "write" /\ paused) THEN 1 ELSE 0
Permits == render_frame_ready + display_frame_freed + Held + (IF picked THEN 1 ELSE 0)
InStep  == Permits = 1

\* No frame is lost, whenever a pause gives up: one is always under way, and a pick-up
\* that races the time-out leaves one too many, however often that happens.
NoFrameLost == Permits \in 1 .. 2

\* While the handshake is in step core 0 does not draw a level into the buffer
\* that core 1 displays of a level: not after a save, a page or help either.
NoTear ==
  pc0 = "draw" /\ InStep /\ gamestate = "level" /\ display.type = "double" =>
    render_frame_index # display.frame

\* What core 0 draws does not reach the tables of a wipe that core 1 still
\* displays, in the last frame of the wipe as in the one after it.
TailKept == draws_tail /\ InStep => display.type # "wipe"

\* A save that is paused is written while core 1 rests on the "saving" frame.
SaveParked == pc0 = "write" /\ paused /\ InStep => display.type = "saving"

\* What core 1 displays keeps what it is drawn from: in a wipe the tables at the
\* end of the work area, in a save the "saving" frame, which needs none of it
\* (pd_end_frame, pd_start_save_pause).
ShownKept == TailKept /\ SaveParked

\* Core 0 never waits for ever for a frame: not after a pause that was given up,
\* not in the fades, not in a wipe, wherever the menus break in.
FramesFlow == []<>(pc0 \in {"draw", "prompt"})

\* A wipe ends, unless the user keeps the help pages up.
WipeEnds == []<>(~ inhelpscreens) => (wipestate # "none" ~> wipestate = "none")

\* A confirmed quit reaches the text screen, from wherever it was confirmed, unless
\* the demo loop was about to go on or the user chooses something else instead.
QuitShown ==
  []<>(~ inhelpscreens) =>
    (gameaction = "deferredquit" /\ ~ advancedemo
       ~> display.type = "text" \/ gameaction # "deferredquit")
=============================================================================
