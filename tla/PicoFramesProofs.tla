-------------------------- MODULE PicoFramesProofs --------------------------
(***************************************************************************)
(* Proofs about the frames between the cores (PicoFrames), for every       *)
(* interleaving of core 0, core 1, the menus and the time-outs of a pause. *)
(*                                                                         *)
(* Both semaphores are counted with the frames that a core holds: a pause  *)
(* that is given up too late adds one to them, and only if there was one   *)
(* (CountSound).  As long as there is one, whoever holds it is alone, and  *)
(* core 1 displays what core 0 handed over last (HandoverSound).  What     *)
(* that was is known from the wipe and the help pages (TypesSound), and    *)
(* from this follows what core 0 may draw next.                            *)
(***************************************************************************)
EXTENDS PicoFrames, TLAPS

\* next.type, but for a save that has put its own in place of it.
InPause  == pc0 \in {"parking", "late"} \/ (pc0 = "write" /\ paused)
KeptType == IF InPause THEN old_video_type ELSE next.type

\* A pause that was given up has a frame to take back if there is one too many.
CountSound ==
  /\ Permits \in 1 .. 2
  /\ pc0 = "late" /\ Permits = 2 => render_frame_ready >= 1

\* A frame has been drawn by then, so there is a video type.
Begun ==
  \/ gameaction = "savegame" \/ pc0 \in {"pause", "parking", "late", "write", "fadein"}
  \/ sub_gamestate = 1 \/ pre_wipe_state = "done" \/ gamestate = "intermission"
  \/ render_frame_ready > 0

\* The video type goes with the wipe and the help pages.
TypesSound ==
  /\ pc0 # "draw" => next.frame = render_frame_index
  /\ kept_tail = (wipestate # "none")
  /\ draws_tail => pc0 = "draw"
  /\ pc0 \in {"parking", "late"} => next.type = "saving"
  /\ pc0 # "prompt" =>
       /\ was_in_help /\ (pc0 = "draw" => inhelpscreens) => KeptType = "single"
       /\ wipestate # "none" => KeptType \in {"wipe", "single"}
       /\ KeptType = "wipe" => wipestate # "none"
       /\ Begun => KeptType # "none"

\* What core 1 displays while the handshake is in step.
HandoverSound ==
  InStep =>
    /\ display_frame_freed = 1 => display = next
    /\ pc0 \in {"parking", "late"} /\ render_frame_ready = 1 =>
         display = [next EXCEPT !.type = old_video_type]

\* A pause is given up after core 1 has taken the frame to park on.
TooLate == PauseBackOut /\ render_frame_ready = 0

FramesInv == TypeOK /\ CountSound /\ TypesSound /\ HandoverSound /\ NoTear /\ ShownKept


LEMMA InitSound == Init => FramesInv
<1> SUFFICES ASSUME Init PROVE FramesInv
  OBVIOUS
<1> USE DEF Init
<1>1. TypeOK
  <2>1. NoFrame \in Frame
    BY DEF NoFrame, Frame, VideoTypes
  <2>2. /\ {picked, kept_tail, draws_tail, advancedemo} \subseteq BOOLEAN
        /\ {inhelpscreens, was_in_help, fading, paused} \subseteq BOOLEAN
    BY Zenon
  <2> QED
    BY <2>1, <2>2 DEF TypeOK, SemMax, Nothing, VideoTypes, WipeStates, WipeMins, GameStates,
                      GameActions, Places
<1>2. Permits = 1
  BY DEF Permits, Held
<1>3. CountSound /\ NoTear /\ ShownKept
  BY <1>2 DEF CountSound, NoTear, ShownKept, TailKept, SaveParked
<1>4. TypesSound
  <2>1. kept_tail = (wipestate # "none")
    BY Zenon
  <2>2. ~ Begun /\ ~ was_in_help /\ ~ draws_tail /\ KeptType = "none"
    BY DEF Begun, Nothing, KeptType, InPause, NoFrame
  <2> QED
    BY <2>1, <2>2 DEF TypesSound, NoFrame
<1>5. HandoverSound
  BY DEF HandoverSound
<1> QED
  BY <1>1, <1>3, <1>4, <1>5 DEF FramesInv

-----------------------------------------------------------------------------
(* Steps that hand no frame over and draw nothing.                          *)

Drawn == <<permits, next, display, render, wipestate, old_video_type, picked>>

\* Tics, menus and fades only move core 0 and choose what it does next.
LEMMA QuietStep ==
  ASSUME FramesInv, TypeOK', UNCHANGED Drawn,
         pc0 # "prompt", Held' = Held, InPause' = InPause,
         pc0' = pc0 \/ {pc0, pc0'} \cap {"draw", "parking", "late", "write", "prompt"} = {},
         pc0 = "write" => paused' = paused,
         inhelpscreens' = inhelpscreens,
         pc0 = "draw" => gamestate' = gamestate,
         Begun' => KeptType # "none"
  PROVE  FramesInv' /\ Permits' = Permits
<1>1. KeptType' = KeptType /\ Permits' = Permits /\ InStep' = InStep
  BY DEF Drawn, permits, KeptType, Permits, InStep
<1>2. pc0' = pc0 \/ pc0' \notin {"draw", "parking", "late", "write", "prompt"}
  OBVIOUS
<1>3. CountSound'
  BY <1>1, <1>2 DEF FramesInv, CountSound, Drawn, permits
<1>4. TypesSound'
  BY <1>1, <1>2 DEF FramesInv, TypesSound, Drawn, render
<1>5. HandoverSound'
  BY <1>1, <1>2 DEF FramesInv, HandoverSound, Drawn, permits
<1>6. NoTear'
  BY <1>1, <1>2 DEF FramesInv, NoTear, Drawn, render
<1>7. ShownKept'
  BY <1>1, <1>2 DEF FramesInv, ShownKept, TailKept, SaveParked, Drawn, render
<1> QED
  BY <1>1, <1>3, <1>4, <1>5, <1>6, <1>7 DEF FramesInv


\* The steps that only move core 0, the menus and the fades.
TicStep ==
  \/ MoveColumns \/ RunTic \/ StalledTics \/ ExtraFrame \/ LoadLevel \/ Completed \/ NoAction
  \/ (\E save \in BOOLEAN : Ticker(save)) \/ SaveGame \/ Quit \/ FadeEnds
  \/ ConfirmQuit \/ ChooseGame \/ EndGame

LEMMA TicTypes == TypeOK /\ TicStep => TypeOK'
<1> SUFFICES ASSUME TypeOK, TicStep PROVE TypeOK'
  OBVIOUS
<1> USE DEF TypeOK, permits, render, wiping, game, saving, Nothing, GameActions, GameStates,
            Places, WipeMins
<1>1. CASE MoveColumns
  BY <1>1 DEF MoveColumns
<1>2. CASE RunTic
  <2>1. advancedemo' \in BOOLEAN
    BY <1>2, Zenon DEF RunTic
  <2> QED
    BY <1>2, <2>1 DEF RunTic
<1>3. CASE StalledTics \/ ExtraFrame \/ NoAction
  BY <1>3 DEF StalledTics, ExtraFrame, NoAction
<1>4. CASE LoadLevel \/ Completed
  BY <1>4 DEF LoadLevel, Completed
<1>5. ASSUME NEW save \in BOOLEAN, Ticker(save) PROVE TypeOK'
  <2>1. advancedemo' \in BOOLEAN
    BY <1>5, Zenon DEF Ticker
  <2> QED
    BY <1>5, <2>1 DEF Ticker
<1>6. CASE SaveGame \/ Quit \/ FadeEnds
  <2>1. fading' \in BOOLEAN
    BY <1>6, Zenon DEF SaveGame, Quit, FadeEnds
  <2> QED
    BY <1>6, <2>1 DEF SaveGame, Quit, FadeEnds
<1>7. CASE ConfirmQuit \/ ChooseGame \/ EndGame
  <2>1. advancedemo' \in BOOLEAN
    BY <1>7, Zenon DEF ConfirmQuit, ChooseGame, EndGame
  <2> QED
    BY <1>7, <2>1 DEF ConfirmQuit, ChooseGame, EndGame
<1> QED
  BY <1>1, <1>2, <1>3, <1>4, <1>5, <1>6, <1>7 DEF TicStep

LEMMA TicSound == FramesInv /\ TicStep => FramesInv' /\ Permits' = Permits
<1> SUFFICES ASSUME FramesInv, TicStep PROVE FramesInv' /\ Permits' = Permits
  OBVIOUS
<1>1. TypeOK /\ TypeOK'
  BY TicTypes DEF FramesInv
<1>2. pc0 # "prompt" /\ Begun => KeptType # "none"
  BY DEF FramesInv, TypesSound
<1> USE DEF permits, render, wiping, game, saving, Drawn, Held, InPause, Begun, KeptType
<1>3. CASE MoveColumns /\ pc0 # "prompt"
  BY <1>1, <1>2, <1>3, QuietStep DEF MoveColumns
<1>4. CASE RunTic
  BY <1>1, <1>2, <1>4, QuietStep DEF RunTic, Nothing
<1>5. CASE StalledTics
  BY <1>1, <1>2, <1>5, QuietStep DEF StalledTics
<1>6. CASE ExtraFrame \/ NoAction
  BY <1>1, <1>2, <1>6, QuietStep DEF ExtraFrame, NoAction
<1>7. CASE LoadLevel
  BY <1>1, <1>2, <1>7, QuietStep DEF LoadLevel, Nothing
<1>8. CASE Completed
  BY <1>1, <1>2, <1>8, QuietStep DEF Completed, NeedsExtraFrame, Nothing
<1>9. ASSUME NEW save \in BOOLEAN, Ticker(save) PROVE FramesInv' /\ Permits' = Permits
  BY <1>1, <1>2, <1>9, QuietStep DEF Ticker
<1>10. CASE SaveGame \/ Quit
  BY <1>1, <1>2, <1>10, QuietStep DEF SaveGame, Quit
<1>11. CASE FadeEnds
  BY <1>1, <1>2, <1>11, QuietStep DEF FadeEnds
<1>12. CASE ConfirmQuit \/ ChooseGame \/ EndGame
  BY <1>1, <1>2, <1>12, QuietStep DEF ConfirmQuit, ChooseGame, EndGame, InNetUpdate, Nothing
<1>13. CASE MoveColumns /\ pc0 = "prompt"
  BY <1>1, <1>13 DEF MoveColumns, FramesInv, CountSound, TypesSound, HandoverSound, NoTear,
                     ShownKept, TailKept, SaveParked, InStep, Permits
<1> QED
  BY <1>3, <1>4, <1>5, <1>6, <1>7, <1>8, <1>9, <1>10, <1>11, <1>12, <1>13 DEF TicStep


-----------------------------------------------------------------------------
(* Core 1.                                                                  *)

LEMMA PickUpSound == FramesInv /\ PickUp => FramesInv' /\ Permits' = Permits
<1> SUFFICES ASSUME FramesInv, PickUp PROVE FramesInv' /\ Permits' = Permits
  OBVIOUS
<1> USE DEF FramesInv, PickUp, permits, render, wiping, game, saving
<1>1. TypeOK'
  <2>1. picked' \in BOOLEAN
    BY Zenon
  <2> QED
    BY <2>1 DEF TypeOK, SemMax
<1>2. Permits' = Permits
  BY DEF Permits, Held, TypeOK, SemMax
<1>3. CountSound'
  <2>1. pc0 = "late" => Permits = render_frame_ready
    BY DEF Permits, Held, TypeOK, SemMax
  <2> QED
    BY <1>2, <2>1 DEF CountSound, TypeOK, SemMax
<1>4. TypesSound'
  BY DEF TypesSound, KeptType, InPause, Begun, TypeOK, SemMax
<1>5. HandoverSound'
  <2>1. InStep => render_frame_ready = 1 /\ display_frame_freed = 0
    BY DEF InStep, Permits, Held, TypeOK, SemMax
  <2> QED
    BY <1>2, <2>1 DEF HandoverSound, InStep
<1>6. NoTear' /\ ShownKept'
  BY <1>2 DEF NoTear, ShownKept, TailKept, SaveParked, InStep
<1> QED
  BY <1>1, <1>2, <1>3, <1>4, <1>5, <1>6

LEMMA NoteSound == FramesInv /\ Note => FramesInv' /\ Permits' = Permits
<1> SUFFICES ASSUME FramesInv, Note PROVE FramesInv' /\ Permits' = Permits
  OBVIOUS
<1> USE DEF FramesInv, Note, permits, render, wiping, game, saving
<1>1. TypeOK'
  <2>1. picked' \in BOOLEAN
    BY Zenon
  <2> QED
    BY <2>1 DEF TypeOK, SemMax, Release
<1>2. Permits' = Permits /\ display_frame_freed' = display_frame_freed + 1
  BY DEF Permits, Held, TypeOK, SemMax, CountSound, Release
<1>3. CountSound'
  BY <1>2 DEF CountSound
<1>4. TypesSound'
  BY DEF TypesSound, KeptType, InPause, Begun
<1>5. InStep => render_frame_ready = 0 /\ Held = 0
  BY DEF InStep, Permits, Held, TypeOK, SemMax
<1>6. HandoverSound'
  BY <1>2, <1>5 DEF HandoverSound, InStep
<1>7. NoTear' /\ ShownKept'
  BY <1>2, <1>5 DEF NoTear, ShownKept, TailKept, SaveParked, InStep, Held, TypesSound
<1> QED
  BY <1>1, <1>2, <1>3, <1>4, <1>6, <1>7

-----------------------------------------------------------------------------
(* Core 0 draws.                                                            *)

\* In step the frame that core 0 takes is the only one: core 1 displays the last one.
LEMMA LastOnDisplay ==
  ASSUME FramesInv, InStep, display_frame_freed > 0
  PROVE  display = next /\ display_frame_freed = 1 /\ render_frame_ready = 0 /\ ~ picked
  BY DEF FramesInv, TypeOK, SemMax, InStep, Permits, Held, HandoverSound

LEMMA BeginDrawTypes == FramesInv /\ BeginDraw => TypeOK'
<1> SUFFICES ASSUME FramesInv, BeginDraw PROVE TypeOK'
  OBVIOUS
<1> USE DEF FramesInv, BeginDraw, game, saving
<1>1. kept_tail' \in BOOLEAN /\ draws_tail' \in BOOLEAN
  BY Zenon DEF SparesTail
<1>2. next' \in Frame /\ (next'.type = "none" => next.type = "none")
  BY DEF TypeOK, Frame, VideoTypes, PlainType
<1>3. wipestate' \in WipeStates
  BY DEF TypeOK, WipeStates, NextWipeState, WipeStateNow
<1>4. render_frame_index' \in 0 .. 1 /\ display_frame_freed' \in 0 .. SemMax
  BY DEF TypeOK, SemMax
<1>5. /\ wipegamestate' \in GameStates \cup {"forced"} /\ wipe_min' \in WipeMins
      /\ sub_gamestate' \in 0 .. 1 /\ pc0' \in Places
  BY DEF TypeOK, WipeMins, Places
<1> QED
  BY <1>1, <1>2, <1>3, <1>4, <1>5 DEF TypeOK

LEMMA BeginDrawSound == FramesInv /\ BeginDraw => FramesInv' /\ Permits' = Permits
<1> SUFFICES ASSUME FramesInv, BeginDraw PROVE FramesInv' /\ Permits' = Permits
  OBVIOUS
<1>1. TypeOK /\ TypeOK'
  BY BeginDrawTypes DEF FramesInv
<1>2. Permits' = Permits
  BY <1>1 DEF BeginDraw, Permits, Held, TypeOK, SemMax
<1>3. CountSound'
  BY <1>2 DEF CountSound, FramesInv, BeginDraw
<1>4. KeptType = next.type /\ KeptType' = next'.type
  BY DEF KeptType, InPause, BeginDraw
<1>5. \* the wipe goes with the video type
      /\ wipestate' # "none" => next'.type \in {"wipe", "single"}
      /\ next'.type = "wipe" => wipestate' # "none"
  <2>1. next'.type = IF StartsWipe THEN "wipe"
                     ELSE IF LeavesHelp \/ EndsWipe THEN PlainType ELSE next.type
    BY <1>1 DEF BeginDraw, TypeOK, Frame
  <2>2. wipestate' = NextWipeState
    BY DEF BeginDraw
  <2>3. CASE inhelpscreens
    BY <1>4, <2>1, <2>2, <2>3 DEF FramesInv, TypesSound, BeginDraw, NextWipeState, StartsWipe,
                                  EndsWipe, LeavesHelp
  <2>4. CASE ~ inhelpscreens /\ StartsWipe
    BY <2>1, <2>2, <2>4 DEF NextWipeState, StartsWipe
  <2>5. CASE ~ inhelpscreens /\ ~ StartsWipe /\ (was_in_help \/ EndsWipe)
    <3>1. next'.type \in {"double", "single"}
      BY <2>1, <2>5 DEF LeavesHelp, PlainType
    <3>2. wipestate' = "none"
      BY <2>2, <2>5 DEF NextWipeState, WipeStateNow, LeavesHelp, EndsWipe
    <3> QED
      BY <3>1, <3>2
  <2>6. CASE ~ inhelpscreens /\ ~ StartsWipe /\ ~ was_in_help /\ ~ EndsWipe
    <3>1. next'.type = next.type
      BY <2>1, <2>6 DEF LeavesHelp
    <3>2. wipestate' = "none" <=> wipestate = "none"
      BY <2>2, <2>6 DEF NextWipeState, WipeStateNow, LeavesHelp, EndsWipe
    <3> QED
      BY <1>4, <3>1, <3>2 DEF FramesInv, TypesSound, BeginDraw
  <2> QED
    BY <2>3, <2>4, <2>5, <2>6
<1>6. was_in_help /\ inhelpscreens => next'.type = "single"
  BY <1>1, <1>4 DEF BeginDraw, FramesInv, TypesSound, TypeOK, Frame,
                    StartsWipe, EndsWipe, LeavesHelp
<1>7. Begun' => next'.type # "none"
  <2>1. Begun' => Begun
    BY <1>1 DEF BeginDraw, Begun, game, saving
  <2> QED
    BY <1>1, <1>4, <2>1 DEF BeginDraw, FramesInv, TypesSound, TypeOK, Frame, PlainType
<1>8. TypesSound'
  <2>1. kept_tail' = (wipestate' # "none")
    BY Zenon DEF BeginDraw
  <2> QED
    BY <1>4, <1>5, <1>6, <1>7, <2>1 DEF TypesSound, BeginDraw
<1>9. InStep' => /\ InStep
                 /\ display = next /\ display' = display /\ display_frame_freed' = 0
                 /\ next.frame = render_frame_index
  BY <1>1, <1>2, LastOnDisplay DEF InStep, BeginDraw, TypeOK, FramesInv, TypesSound
<1>10. HandoverSound'
  BY <1>9 DEF HandoverSound, BeginDraw
<1>11. NoTear'
  <2> SUFFICES ASSUME InStep', gamestate = "level", next.type = "double"
               PROVE  render_frame_index' # render_frame_index
    BY <1>9 DEF NoTear, BeginDraw, game
  <2>1. wipestate = "none" /\ ~ (inhelpscreens /\ was_in_help)
    BY <1>4 DEF FramesInv, TypesSound, BeginDraw
  <2>2. Flips
    BY <2>1 DEF Flips
  <2> QED
    BY <1>1, <2>2 DEF BeginDraw, TypeOK
<1>12. ShownKept'
  <2>1. draws_tail' => next.type # "wipe"
    <3>1. CASE StartsWipe
      BY <1>4, <3>1 DEF FramesInv, TypesSound, BeginDraw, StartsWipe, WipeStateNow, LeavesHelp
    <3>2. CASE ~ SparesTail
      BY <1>4, <3>2 DEF FramesInv, TypesSound, BeginDraw, SparesTail
    <3> QED
      BY <3>1, <3>2 DEF BeginDraw
  <2> QED
    BY <1>9, <2>1 DEF ShownKept, TailKept, SaveParked, BeginDraw
<1> QED
  BY <1>1, <1>2, <1>3, <1>8, <1>10, <1>11, <1>12 DEF FramesInv


LEMMA EndDrawTypes == FramesInv /\ EndDraw => TypeOK'
<1> SUFFICES ASSUME FramesInv, EndDraw PROVE TypeOK'
  OBVIOUS
<1> USE DEF FramesInv, EndDraw, wiping, saving
<1>1. draws_tail' \in BOOLEAN /\ was_in_help' \in BOOLEAN /\ inhelpscreens' \in BOOLEAN
  BY Zenon DEF TypeOK
<1>2. KeptType = next.type
  BY DEF KeptType, InPause
<1>3. /\ next' \in Frame /\ next'.type # "none"
      /\ sub_gamestate' \in 0 .. 1
  <2>1. wipestate # "none" => next.type # "none"
    BY <1>2 DEF TypesSound
  <2>2. sub_gamestate = 1 \/ gamestate = "intermission" => next.type # "none"
    BY <1>2 DEF TypesSound, Begun
  <2> QED
    BY <2>1, <2>2 DEF TypeOK, Frame, VideoTypes, GameStates, DrawPage
<1>4. render_frame_ready' \in 0 .. SemMax /\ pc0' \in Places
  BY DEF TypeOK, Release, SemMax, Places
<1> QED
  BY <1>1, <1>3, <1>4 DEF TypeOK

LEMMA EndDrawSound == FramesInv /\ EndDraw => FramesInv' /\ Permits' = Permits
<1> SUFFICES ASSUME FramesInv, EndDraw PROVE FramesInv' /\ Permits' = Permits
  OBVIOUS
<1>1. TypeOK /\ TypeOK'
  BY EndDrawTypes DEF FramesInv
<1>2. KeptType = next.type /\ KeptType' = next'.type
  BY DEF KeptType, InPause, EndDraw
<1>3. Permits' = Permits /\ render_frame_ready' = render_frame_ready + 1
  BY <1>1 DEF EndDraw, Permits, Held, FramesInv, CountSound, TypeOK, SemMax, Release
<1>4. CountSound'
  BY <1>3 DEF CountSound, FramesInv, EndDraw
<1>5. /\ next'.frame = render_frame_index
      /\ next'.type # "none"
      /\ inhelpscreens => next'.type = "single"
      /\ wipestate # "none" => next'.type \in {"wipe", "single"}
      /\ next'.type = "wipe" => wipestate # "none"
  <2>1. CASE inhelpscreens
    BY <1>1, <1>2, <2>1 DEF EndDraw, DrawPage, FramesInv, TypesSound, TypeOK, Frame, Begun
  <2>2. CASE ~ inhelpscreens /\ wipestate = "none" /\ gamestate = "demoscreen"
    BY <1>1, <1>2, <2>2 DEF EndDraw, DrawPage, FramesInv, TypesSound, TypeOK, Frame, Begun
  <2>3. CASE ~ inhelpscreens /\ wipestate = "none" /\ gamestate = "level"
    BY <2>3 DEF EndDraw
  <2>4. CASE ~ inhelpscreens /\ wipestate = "none" /\ gamestate = "intermission"
    BY <1>1, <1>2, <2>4 DEF EndDraw, FramesInv, TypesSound, TypeOK, Frame, Begun
  <2>5. CASE ~ inhelpscreens /\ wipestate # "none"
    BY <1>1, <1>2, <2>5 DEF EndDraw, FramesInv, TypesSound, TypeOK, Frame
  <2> QED
    BY <1>1, <2>1, <2>2, <2>3, <2>4, <2>5 DEF TypeOK, GameStates
<1>6. TypesSound'
  BY <1>2, <1>5 DEF TypesSound, EndDraw, FramesInv, render, wiping
<1>7. InStep' => InStep /\ display_frame_freed' = 0
  BY <1>1, <1>3 DEF InStep, EndDraw, Permits, Held, TypeOK, SemMax
<1>8. HandoverSound' /\ NoTear' /\ ShownKept'
  BY <1>7 DEF HandoverSound, NoTear, ShownKept, TailKept, SaveParked, EndDraw
<1> QED
  BY <1>1, <1>3, <1>4, <1>6, <1>8 DEF FramesInv

-----------------------------------------------------------------------------
(* Core 0 saves a game, and quits.                                          *)

LEMMA PauseHandOverSound == FramesInv /\ PauseHandOver => FramesInv' /\ Permits' = Permits
<1> SUFFICES ASSUME FramesInv, PauseHandOver PROVE FramesInv' /\ Permits' = Permits
  OBVIOUS
<1> USE DEF FramesInv, PauseHandOver, render, wiping, game
<1>1. KeptType = next.type /\ KeptType' = next.type /\ next' = [next EXCEPT !.type = "saving"]
  BY DEF KeptType, InPause
<1>2. TypeOK'
  BY DEF TypeOK, FrameIsFree, Release, SemMax, Frame, VideoTypes, Places
<1>3. /\ Permits' = Permits
      /\ render_frame_ready' = render_frame_ready + 1
  BY DEF Permits, Held, FrameIsFree, Release, TypeOK, SemMax, CountSound
<1>4. CountSound'
  BY <1>3 DEF CountSound
<1>5. TypesSound'
  BY <1>1 DEF TypesSound, Begun, TypeOK, Frame
<1>6. InStep' => InStep /\ display = next /\ display_frame_freed' = 0
  BY <1>3, LastOnDisplay DEF InStep, FrameIsFree, TypeOK
<1>7. HandoverSound'
  <2>1. next = [next' EXCEPT !.type = old_video_type']
    BY <1>2 DEF TypeOK, Frame
  <2> QED
    BY <1>6, <2>1 DEF HandoverSound
<1>8. NoTear' /\ ShownKept'
  BY DEF NoTear, ShownKept, TailKept, SaveParked, TypesSound
<1> QED
  BY <1>2, <1>3, <1>4, <1>5, <1>7, <1>8

LEMMA PauseRefusedSound == FramesInv /\ PauseRefused => FramesInv' /\ Permits' = Permits
<1> SUFFICES ASSUME FramesInv, PauseRefused PROVE FramesInv' /\ Permits' = Permits
  OBVIOUS
<1> USE DEF FramesInv, PauseRefused, permits, render, wiping, game
<1>1. fading' \in BOOLEAN /\ paused' \in BOOLEAN /\ ~ paused'
  BY Zenon
<1>2. TypeOK'
  BY <1>1 DEF TypeOK, Places
<1>3. Permits' = Permits /\ KeptType' = KeptType
  BY <1>1 DEF Permits, Held, KeptType, InPause
<1>4. CountSound' /\ HandoverSound'
  BY <1>3 DEF CountSound, HandoverSound, InStep
<1>5. TypesSound'
  BY <1>3 DEF TypesSound, Begun
<1>6. NoTear' /\ ShownKept'
  BY <1>1 DEF NoTear, ShownKept, TailKept, SaveParked, TypesSound
<1> QED
  BY <1>2, <1>3, <1>4, <1>5, <1>6

LEMMA PauseTakenSound == FramesInv /\ PauseTaken => FramesInv' /\ Permits' = Permits
<1> SUFFICES ASSUME FramesInv, PauseTaken PROVE FramesInv' /\ Permits' = Permits
  OBVIOUS
<1> USE DEF FramesInv, PauseTaken, render, wiping, game
<1>1. paused' \in BOOLEAN /\ paused'
  BY Zenon
<1>2. TypeOK'
  BY <1>1 DEF TypeOK, FrameIsFree, SemMax, Places
<1>3. Permits' = Permits /\ KeptType' = KeptType
  BY <1>1 DEF Permits, Held, FrameIsFree, TypeOK, SemMax, KeptType, InPause
<1>4. CountSound'
  BY <1>3 DEF CountSound
<1>5. TypesSound'
  BY <1>3 DEF TypesSound, Begun
<1>6. InStep' => display = next /\ display_frame_freed' = 0
  BY <1>3, LastOnDisplay DEF InStep, FrameIsFree, TypeOK
<1>7. HandoverSound' /\ NoTear'
  BY <1>6 DEF HandoverSound, NoTear
<1>8. ShownKept'
  BY <1>6 DEF ShownKept, TailKept, SaveParked, TypesSound
<1> QED
  BY <1>2, <1>3, <1>4, <1>5, <1>7, <1>8

LEMMA PauseLateSound == FramesInv /\ PauseLate => FramesInv' /\ Permits' = Permits
<1> SUFFICES ASSUME FramesInv, PauseLate PROVE FramesInv' /\ Permits' = Permits
  OBVIOUS
<1> USE DEF FramesInv, PauseLate, permits, render, wiping, game, saving
<1>1. TypeOK'
  BY DEF TypeOK, Places
<1>2. Permits' = Permits /\ KeptType' = KeptType
  BY DEF Permits, Held, KeptType, InPause
<1>3. CountSound'
  BY <1>2 DEF CountSound, FrameIsFree, Permits, Held, TypeOK, SemMax
<1>4. TypesSound'
  BY <1>2 DEF TypesSound, Begun
<1>5. HandoverSound' /\ NoTear' /\ ShownKept'
  BY <1>2 DEF HandoverSound, InStep, NoTear, ShownKept, TailKept, SaveParked, TypesSound
<1> QED
  BY <1>1, <1>2, <1>3, <1>4, <1>5


\* The permit that is given back is a second one, if core 1 has the frame by now.
LEMMA PauseBackOutSound == FramesInv /\ PauseBackOut => FramesInv' /\ (Permits' = Permits \/ TooLate)
<1> SUFFICES ASSUME FramesInv, PauseBackOut PROVE FramesInv' /\ (Permits' = Permits \/ TooLate)
  OBVIOUS
<1> USE DEF FramesInv, PauseBackOut, render, wiping, game
<1>1. fading' \in BOOLEAN /\ paused' \in BOOLEAN /\ ~ paused'
  BY Zenon
<1>2. KeptType = old_video_type /\ KeptType' = next'.type
  BY <1>1 DEF KeptType, InPause
<1>3. next' \in Frame /\ next'.type = old_video_type /\ next'.frame = next.frame
  BY DEF TypeOK, Frame
<1>4. next'.type # "none"
  BY <1>2, <1>3 DEF TypesSound, Begun
<1>5. TypeOK'
  BY <1>1, <1>3, <1>4 DEF TypeOK, SemMax, Release, Places, VideoTypes
<1>6. \/ render_frame_ready > 0 /\ Permits' = Permits
      \/ render_frame_ready = 0 /\ Permits = 1 /\ Permits' = 2
  BY <1>1 DEF CountSound, Permits, Held, TypeOK, SemMax, Release
<1>7. CountSound'
  BY <1>6 DEF CountSound
<1>8. TypesSound'
  BY <1>2, <1>3, <1>4 DEF TypesSound
<1>9. InStep' => render_frame_ready = 1 /\ InStep
  BY <1>1, <1>6 DEF InStep, Permits, Held, TypeOK, SemMax
<1>10. HandoverSound'
  BY <1>9 DEF HandoverSound
<1>11. NoTear' /\ ShownKept'
  BY <1>1 DEF NoTear, ShownKept, TailKept, SaveParked, TypesSound
<1> QED
  BY <1>5, <1>6, <1>7, <1>8, <1>10, <1>11 DEF TooLate

LEMMA WriteSaveSound == FramesInv /\ WriteSave => FramesInv' /\ Permits' = Permits
<1> SUFFICES ASSUME FramesInv, WriteSave PROVE FramesInv' /\ Permits' = Permits
  OBVIOUS
<1> USE DEF FramesInv, WriteSave, render, wiping, Nothing
<1>1. KeptType' = KeptType /\ next'.frame = next.frame /\ next' \in Frame
  BY DEF KeptType, InPause, TypeOK, Frame
<1>2. TypeOK'
  <2>1. fading' \in BOOLEAN
    BY Zenon DEF TypeOK
  <2>2. CASE paused
    <3>1. next'.type # "none"
      BY <2>2 DEF TypesSound, Begun, KeptType, InPause, TypeOK, Frame
    <3> QED
      BY <1>1, <2>1, <2>2, <3>1 DEF TypeOK, Release, SemMax, Places, VideoTypes
  <2>3. CASE ~ paused
    BY <2>3 DEF TypeOK, Places, GameActions
  <2> QED
    BY <2>2, <2>3
<1>3. Permits' = Permits
  BY DEF Permits, Held, Release, TypeOK, SemMax, CountSound
<1>4. CountSound'
  BY <1>3 DEF CountSound
<1>5. TypesSound'
  BY <1>1 DEF TypesSound, Begun
<1>6. HandoverSound'
  <2>1. paused /\ InStep => display_frame_freed = 0
    BY DEF InStep, Permits, Held, TypeOK, SemMax
  <2> QED
    BY <1>3, <2>1 DEF HandoverSound, InStep
<1>7. NoTear' /\ ShownKept'
  BY DEF NoTear, ShownKept, TailKept, SaveParked, TypesSound
<1> QED
  BY <1>2, <1>3, <1>4, <1>5, <1>6, <1>7

LEMMA SaveDoneSound == FramesInv /\ SaveDone => FramesInv' /\ Permits' = Permits
<1> SUFFICES ASSUME FramesInv, SaveDone PROVE FramesInv' /\ Permits' = Permits
  OBVIOUS
<1> USE DEF FramesInv, SaveDone, permits, render, wiping, Nothing
<1>1. paused' \in BOOLEAN
  BY Zenon
<1>2. TypeOK'
  BY <1>1 DEF TypeOK, Places, GameActions
<1>3. Permits' = Permits /\ KeptType' = KeptType
  BY DEF Permits, Held, KeptType, InPause
<1>4. CountSound' /\ HandoverSound'
  BY <1>3 DEF CountSound, HandoverSound, InStep
<1>5. TypesSound'
  BY <1>3 DEF TypesSound, Begun
<1>6. NoTear' /\ ShownKept'
  BY DEF NoTear, ShownKept, TailKept, SaveParked, TypesSound
<1> QED
  BY <1>2, <1>3, <1>4, <1>5, <1>6

LEMMA ShowTextSound == FramesInv /\ ShowText => FramesInv' /\ Permits' = Permits
<1> SUFFICES ASSUME FramesInv, ShowText PROVE FramesInv' /\ Permits' = Permits
  OBVIOUS
<1> USE DEF FramesInv, ShowText, render, wiping, game, saving
<1>1. TypeOK'
  BY DEF TypeOK, FrameIsFree, Release, SemMax, Frame, VideoTypes, Places
<1>2. Permits' = Permits
  BY DEF Permits, Held, FrameIsFree, Release, TypeOK, SemMax, CountSound
<1>3. CountSound'
  BY <1>2 DEF CountSound
<1>4. TypesSound'
  BY DEF TypesSound, TypeOK, Frame
<1>5. InStep' => display_frame_freed' = 0
  BY <1>2, LastOnDisplay DEF InStep, FrameIsFree, TypeOK
<1>6. HandoverSound' /\ NoTear' /\ ShownKept'
  BY <1>5 DEF HandoverSound, NoTear, ShownKept, TailKept, SaveParked, TypesSound
<1> QED
  BY <1>1, <1>2, <1>3, <1>4, <1>6

-----------------------------------------------------------------------------
\* Every step keeps the invariant: the rest of core 0 and the menus quietly.
LEMMA NextSound ==
  FramesInv /\ [Next]_vars => FramesInv' /\ (Permits' = Permits \/ TooLate)
<1> SUFFICES ASSUME FramesInv, [Next]_vars
             PROVE  FramesInv' /\ (Permits' = Permits \/ TooLate)
  OBVIOUS
<1>1. CASE TicStep
  BY <1>1, TicSound
<1>2. CASE Core1
  BY <1>2, PickUpSound, NoteSound DEF Core1
<1>3. CASE BeginDraw \/ EndDraw
  BY <1>3, BeginDrawSound, EndDrawSound
<1>4. CASE PauseHandOver \/ PauseRefused \/ PauseTaken \/ PauseLate \/ PauseBackOut
  BY <1>4, PauseHandOverSound, PauseRefusedSound, PauseTakenSound, PauseLateSound,
     PauseBackOutSound
<1>5. CASE WriteSave \/ SaveDone \/ ShowText
  BY <1>5, WriteSaveSound, SaveDoneSound, ShowTextSound
<1>6. CASE UNCHANGED vars
  BY <1>6 DEF vars, permits, render, wiping, game, saving, FramesInv, TypeOK, CountSound,
              TypesSound, HandoverSound, NoTear, ShownKept, TailKept, SaveParked, InStep,
              Permits, Held, KeptType, InPause, Begun
<1> QED
  BY <1>1, <1>2, <1>3, <1>4, <1>5, <1>6 DEF Next, Core0, Menus, TicStep

LEMMA FramesKept == Spec => []FramesInv
  BY InitSound, NextSound, PTL DEF Spec

\* However often a pause is given up at the moment core 1 takes its frame, a frame
\* is always under way and at most one too many (pd_start_save_pause, pd_end_frame,
\* new_frame_stuff).
THEOREM FramesNeverLost == Spec => []NoFrameLost
<1>1. FramesInv => NoFrameLost
  BY DEF FramesInv, CountSound, NoFrameLost
<1> QED
  BY <1>1, FramesKept, PTL

\* As long as no frame is one too many, core 0 draws a level beside the buffer that
\* core 1 displays of one, after saves, wipes, pages and help alike (pd_end_frame).
THEOREM LevelNeverTorn == Spec => []NoTear
<1>1. FramesInv => NoTear
  BY DEF FramesInv
<1> QED
  BY <1>1, FramesKept, PTL

\* As long as no frame is one too many, core 0 leaves alone the tables of a wipe that
\* core 1 still displays, and writes a paused save only while core 1 rests.
THEOREM DisplayKeepsItsData == Spec => []ShownKept
<1>1. FramesInv => ShownKept
  BY DEF FramesInv
<1> QED
  BY <1>1, FramesKept, PTL


\* No other step than a pause given up too late changes the number of frames in the
\* handshake: not the fades, not a save that is written, not the text screen.
THEOREM OnlyLatePausesAdd == Spec => [][Permits' = Permits \/ TooLate]_vars
<1>1. FramesInv /\ [Next]_vars => [Permits' = Permits \/ TooLate]_vars
  BY NextSound
<1> QED
  BY <1>1, FramesKept, PTL DEF Spec

\* NoTear and ShownKept for cores that are in step.
CoresApart ==
  /\ pc0 = "draw" /\ gamestate = "level" /\ display.type = "double" =>
       render_frame_index # display.frame
  /\ draws_tail => display.type # "wipe"
  /\ pc0 = "write" /\ paused => display.type = "saving"

\* As long as no pause is given up too late, the two cores are in step, and what they
\* keep from each other holds without condition.
THEOREM InStepUntilTooLate == Spec /\ [][~ TooLate]_vars => [](InStep /\ CoresApart)
<1>1. Init => InStep
  BY DEF Init, InStep, Permits, Held
<1>2. FramesInv /\ InStep /\ [Next]_vars /\ [~ TooLate]_vars => InStep'
  <2>1. UNCHANGED vars => Permits' = Permits
    BY DEF vars, permits, saving, Permits, Held
  <2> QED
    BY <2>1, NextSound DEF InStep
<1>3. FramesInv /\ InStep => CoresApart
  BY DEF FramesInv, NoTear, ShownKept, TailKept, SaveParked, CoresApart
<1> QED
  BY <1>1, <1>2, <1>3, FramesKept, PTL DEF Spec


\* Whenever core 0 would have to wait for a frame, core 1 holds one or has one to pick
\* up: the handshake never comes to a halt by itself.  What is left of FramesFlow is
\* that core 1 goes on displaying (pd_end_frame, I_Quit).
THEOREM SomeoneHasAFrame ==
  Spec => [](Held = 0 /\ ~ FrameIsFree => picked \/ render_frame_ready > 0)
<1>1. FramesInv => (Held = 0 /\ ~ FrameIsFree => picked \/ render_frame_ready > 0)
  BY DEF FramesInv, TypeOK, SemMax, CountSound, Permits, FrameIsFree
<1> QED
  BY <1>1, FramesKept, PTL
=============================================================================
