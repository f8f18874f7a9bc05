----------------------------- MODULE PicoStorage -----------------------------
(***************************************************************************)
(* The SD card of the port: the mount and its back-off and the whole-file  *)
(* helpers of doom_sdcard.c, the settings of doom_settings.c and the saved *)
(* games as the menus and G_Ticker use them.                               *)
(*                                                                         *)
(* Core 0 runs one operation at a time; `at` is how far it has come.  What *)
(* can come between two of its steps is the outside world: the card is     *)
(* pulled, put back or exchanged, an access fails, the card is full or     *)
(* write protected, the power goes, the back-off runs out.  A write is the *)
(* four calls of FatFs that it is, because each can fail on its own; a     *)
(* read, which leaves the card alone, is one step.                         *)
(***************************************************************************)
EXTENDS Naturals

CONSTANTS NumSlots,  \* save game slots of the menus
          Games,     \* states of the game that a save can hold
          Settings,  \* settings the menus can reach
          Default,   \* the compiled-in ones
          Edited,    \* records the loader accepts that are no such settings:
                     \* edited by hand, or of version 1
          Clamped    \* what the engine makes of an edited record

ASSUME StorageAssumption ==
  /\ NumSlots \in Nat \ {0}
  /\ Default \in Settings /\ Clamped \in Settings
  /\ Settings \cap Edited = {}
  /\ {"none", "short", "garbage"} \cap (Games \cup Settings \cup Edited) = {}

Slots   == 1 .. NumSlots
Cfg     == 0                      \* the file of the settings
Files   == Slots \cup {Cfg}
Records == Settings \cup Edited   \* what doom_settings_load accepts

VARIABLES
  files,    \* what the card holds: "none", "short" (truncated) or the content
  bus,      \* [card, mounted, waiting, probes]: the card is "out", "asleep"
            \* (not initialised yet) or "awake"; sd_mounted; sd_next_retry_ms
            \* is yet to come; mounts that failed since it last came
  calm,     \* from now on the card stays in and its accesses succeed
  at,       \* where core 0 is
  op,       \* [file, data, failed]: the write that is under way
  setting,  \* the engine's settings
  shadow,   \* what doom_settings.c believes the file holds
  game,     \* the state of the game
  shown,    \* slots the menu shows a name for, LoadMenu[].status
  peek,     \* the slot that M_ReadSaveStrings is at
  todo,     \* [what, slot]: what the menus have asked for
  told,     \* slot |-> what the player was last told is saved there
  doubt,    \* a settings write failed, or the card is another one
  harmed    \* a write was cut off by the power or the card

vars == <<files, bus, calm, at, op, setting, shadow, game, shown, peek, todo,
          told, doubt, harmed>>

\* Between these two points a file is truncated and not yet whole again.
InFile == {"write", "close", "unlink"}

Buses == [card : {"out", "asleep", "awake"}, mounted : BOOLEAN,
          waiting : BOOLEAN, probes : 0 .. 2]

NoOp   == [file |-> Cfg, data |-> "none", failed |-> "no"]
NoTodo == [what |-> "nothing", slot |-> 1]

Init ==
  /\ files \in [Files -> Games \cup Records \cup {"none"}]
  /\ \A s \in Slots : files[s] \notin Records
  /\ files[Cfg] \notin Games
  /\ \E c \in {"out", "asleep"} :
       bus = [card |-> c, mounted |-> FALSE, waiting |-> FALSE, probes |-> 0]
  /\ calm = FALSE
  /\ at = "boot" /\ op = NoOp
  /\ setting = Default /\ shadow = "none"
  /\ game \in Games
  /\ shown = {} /\ peek = 1 /\ todo = NoTodo
  /\ told = [s \in Slots |-> "none"]
  /\ doubt = FALSE /\ harmed = FALSE

-----------------------------------------------------------------------------
(***************************************************************************)
(* The mount.                                                              *)
(***************************************************************************)

\* FatFs gives up on a card that is not there or not initialised, and on any
\* card now and then.
Fails(b) == b.card # "awake" \/ ~ calm

\* Mutant: doom_sd_mount leaves the back-off to doom_sd_ready.
VainUnarmed(b) == [b EXCEPT !.probes = IF @ = 0 THEN 1 ELSE 2]

\* Probing a slot in vain is what the back-off is there to limit.
Vain(b) == [card    |-> b.card, mounted |-> b.mounted, waiting |-> TRUE,
            probes  |-> IF b.probes = 0 THEN 1 ELSE 2]

Mounted(b) == [card    |-> "awake", mounted |-> TRUE, waiting |-> b.waiting,
               probes  |-> b.probes]

\* f_mount, with what doom_sd_mount makes of it.
Mount(b) ==
  (IF b.card # "out" THEN {Mounted(b)} ELSE {})
    \cup (IF b.card = "out" \/ ~ calm THEN {Vain(b)} ELSE {})

\* doom_sd_ready.  It arms the back-off before it probes.
Ready(b) ==
  IF b.mounted \/ b.waiting THEN {b} ELSE Mount([b EXCEPT !.waiting = TRUE])

\* Mutant: the mount of a card that went away is kept.
DropKept(b) == [b EXCEPT !.waiting = TRUE]

\* sd_note_result of a result that means the card went away.
Drop(b) == [card    |-> b.card, mounted |-> FALSE, waiting |-> TRUE,
            probes  |-> b.probes]

\* sd_note_result: a refused request says nothing of the card.
NoteResult(b, result) == IF result = "lost" THEN Drop(b) ELSE b

\* doom_sd_read_file and doom_sd_peek_file: the outcomes of reading f.
ReadFile(f) ==
  {[bus |-> b, got |-> "none"]        : b \in {c \in Ready(bus) : ~ c.mounted}}
    \cup {[bus |-> b, got |-> files[f]] :
            b \in {c \in Ready(bus) : c.mounted /\ c.card = "awake"}}
    \cup {[bus |-> Drop(b), got |-> "none"] :
            b \in {c \in Ready(bus) : c.mounted /\ Fails(c)}}

\* sd_next_retry_ms has come.
Elapse ==
  /\ bus.waiting
  /\ bus' = [card |-> bus.card, mounted |-> bus.mounted, waiting |-> FALSE, probes |-> 0]
  /\ UNCHANGED <<files, calm, at, op, setting, shadow, game, shown, peek, todo,
                 told, doubt, harmed>>

-----------------------------------------------------------------------------
(***************************************************************************)
(* Writing a file, and what becomes of the writer.                         *)
(***************************************************************************)

\* The writer gets FR_OK: the settings are what the file holds, the player
\* reads that the game is saved.
Written ==
  /\ at' = "play"
  /\ op' = NoOp
  /\ IF op.file = Cfg
     THEN /\ shadow' = op.data
          /\ doubt' = FALSE
          /\ UNCHANGED <<told, todo>>
     ELSE /\ told' = [told EXCEPT ![op.file] = op.data]
          /\ todo' = NoTodo
          /\ UNCHANGED <<shadow, doubt>>

\* The writer gets an error: the settings count as written all the same, the
\* player is asked whether to clear the slot.
NotWritten ==
  /\ op' = NoOp
  /\ IF op.file = Cfg
     THEN /\ at' = "play"
          /\ shadow' = op.data
          /\ doubt' = TRUE
          /\ UNCHANGED told
     ELSE /\ at' = "ask"
          /\ UNCHANGED <<shadow, doubt, told>>
  /\ UNCHANGED todo

\* f_open with FA_CREATE_ALWAYS, which truncates the file.
OpenFile ==
  /\ at = "open"
  /\ \/ /\ bus.card = "awake"
        /\ files' = [files EXCEPT ![op.file] = "short"]
        /\ at' = "write"
        /\ told' = [s \in Slots |-> IF s = op.file THEN "none" ELSE told[s]]
        /\ UNCHANGED <<bus, op, shadow, todo, doubt, harmed>>
     \/ /\ bus.card = "awake"
        /\ NotWritten
        /\ UNCHANGED <<files, bus, harmed>>
     \/ /\ Fails(bus)
        /\ bus' = Drop(bus)
        /\ NotWritten
        /\ UNCHANGED <<files, harmed>>
  /\ UNCHANGED <<calm, setting, game, shown, peek>>

\* f_write: all of it, as much as fits, or an error.
WriteData ==
  /\ at = "write"
  /\ \E result \in {"no", "refused", "lost"} :
       /\ result \in {"no", "refused"} => bus.card = "awake"
       /\ result = "lost" => Fails(bus)
       /\ op' = [op EXCEPT !.failed = result]
  /\ at' = "close"
  /\ UNCHANGED <<files, bus, calm, setting, shadow, game, shown, peek, todo,
                 told, doubt, harmed>>

\* Mutant: the result of closing the file is not looked at.
CloseFileUnchecked ==
  /\ at = "close"
  /\ \/ /\ op.failed = "no"
        /\ files' = [files EXCEPT ![op.file] = IF Fails(bus) THEN @ ELSE op.data]
        /\ Written
     \/ /\ op.failed # "no"
        /\ at' = "unlink"
        /\ UNCHANGED <<files, op, shadow, told, todo, doubt>>
  /\ UNCHANGED <<bus, calm, setting, game, shown, peek, harmed>>

\* f_close: only it makes the file as long as what was written.
CloseFile ==
  /\ at = "close"
  /\ \/ /\ bus.card = "awake" /\ op.failed = "no"
        /\ files' = [files EXCEPT ![op.file] = op.data]
        /\ Written
     \/ /\ bus.card = "awake" /\ op.failed # "no"
        /\ at' = "unlink"
        /\ UNCHANGED <<files, op, shadow, told, todo, doubt>>
     \/ /\ Fails(bus)
        /\ op' = [op EXCEPT !.failed = IF @ = "no" THEN "lost" ELSE @]
        /\ at' = "unlink"
        /\ UNCHANGED <<files, shadow, told, todo, doubt>>
  /\ UNCHANGED <<bus, calm, setting, game, shown, peek, harmed>>

\* Mutant: a write that failed leaves the file as it is.
UnlinkFileSkipped ==
  /\ at = "unlink"
  /\ bus' = NoteResult(bus, op.failed)
  /\ NotWritten
  /\ UNCHANGED <<files, calm, setting, game, shown, peek, harmed>>

\* f_unlink of the truncated file; nobody looks at its result, and what is
\* noted of the card is the result of the write.
UnlinkFile ==
  /\ at = "unlink"
  /\ \/ /\ bus.card = "awake"
        /\ files' = [files EXCEPT ![op.file] = "none"]
        /\ UNCHANGED harmed
     \/ /\ Fails(bus)
        /\ harmed' = TRUE
        /\ UNCHANGED files
  /\ bus' = NoteResult(bus, op.failed)
  /\ NotWritten
  /\ UNCHANGED <<calm, setting, game, shown, peek>>

-----------------------------------------------------------------------------
(***************************************************************************)
(* The settings.                                                           *)
(***************************************************************************)

\* settings_apply: nothing the menus could not reach.
Apply(rec) == IF rec \in Settings THEN rec ELSE Clamped

\* Mutant: the shadow is what was applied, and not what the file holds.
LoadSettingsApplied ==
  /\ at = "load"
  /\ at' = "play"
  /\ \E r \in ReadFile(Cfg) :
       /\ bus' = r.bus
       /\ IF r.got \in Records
          THEN /\ setting' = Apply(r.got)
               /\ shadow' = Apply(r.got)
               /\ doubt' = FALSE
          ELSE UNCHANGED <<setting, shadow, doubt>>
  /\ UNCHANGED <<files, calm, op, game, shown, peek, todo, told, harmed>>

\* doom_settings_load, which keeps the record as it was read.
LoadSettings ==
  /\ at = "load"
  /\ at' = "play"
  /\ \E r \in ReadFile(Cfg) :
       /\ bus' = r.bus
       /\ IF r.got \in Records
          THEN /\ setting' = Apply(r.got)
               /\ shadow' = r.got
               /\ doubt' = FALSE
          ELSE UNCHANGED <<setting, shadow, doubt>>
  /\ UNCHANGED <<files, calm, op, game, shown, peek, todo, told, harmed>>

\* An option of the menus, or a hot key.
ChangeSetting ==
  /\ at \in {"play", "menu"}
  /\ \E v \in Settings \ {setting} : setting' = v
  /\ UNCHANGED <<files, bus, calm, at, op, shadow, game, shown, peek, todo,
                 told, doubt, harmed>>

\* doom_settings_flush, as M_ClearMenus, I_Quit and doom_reboot_to_bootsel
\* call it.
FlushSettings ==
  /\ at = "flush"
  /\ \/ /\ shadow = setting
        /\ at' = "play"
        /\ UNCHANGED <<bus, op>>
     \/ /\ shadow # setting
        /\ \E b \in Ready(bus) :
             /\ bus' = b
             /\ IF b.mounted
                THEN /\ at' = "open"
                     /\ op' = [file |-> Cfg, data |-> setting, failed |-> "no"]
                ELSE /\ at' = "play"
                     /\ UNCHANGED op
  /\ UNCHANGED <<files, calm, setting, shadow, game, shown, peek, todo, told,
                 doubt, harmed>>

-----------------------------------------------------------------------------
(***************************************************************************)
(* The menus and the saved games.                                          *)
(***************************************************************************)

\* M_LoadGame and M_SaveGame put up the slots.
OpenMenu ==
  /\ at = "play" /\ todo = NoTodo
  /\ at' = "peek"
  /\ peek' = 1
  /\ UNCHANGED <<files, bus, calm, op, setting, shadow, game, shown, todo, told,
                 doubt, harmed>>

\* One slot of M_ReadSaveStrings.  A truncated file may still have its name.
PeekSlot ==
  /\ at = "peek"
  /\ \E r \in ReadFile(peek) :
       /\ bus' = r.bus
       /\ \/ r.got # "none" /\ shown' = shown \cup {peek}
          \/ r.got \in {"none", "short"} /\ shown' = shown \ {peek}
  /\ IF peek = NumSlots
     THEN at' = "menu" /\ peek' = 1
     ELSE at' = at /\ peek' = peek + 1
  /\ UNCHANGED <<files, calm, op, setting, shadow, game, todo, told, doubt, harmed>>

\* M_ClearMenus, alone or on the way to what was chosen: a slot, quick save and
\* quick load, which use the slot they used last, or one of the ways out.
LeaveMenu(what, slot) ==
  /\ at \in {"play", "menu"} /\ todo = NoTodo
  /\ at = "menu" /\ what = "load" => slot \in shown
  /\ at' = "flush"
  /\ todo' = IF what = "nothing" THEN NoTodo ELSE [what |-> what, slot |-> slot]
  /\ UNCHANGED <<files, bus, calm, op, setting, shadow, game, shown, peek, told,
                 doubt, harmed>>

\* G_DoSaveGame.
SaveGame ==
  /\ at = "play" /\ todo.what = "save"
  /\ \E b \in Ready(bus) :
       /\ bus' = b
       /\ IF b.mounted
          THEN /\ at' = "open"
               /\ op' = [file |-> todo.slot, data |-> game, failed |-> "no"]
          ELSE /\ at' = "ask"
               /\ UNCHANGED op
  /\ UNCHANGED <<files, calm, setting, shadow, game, shown, peek, todo, told,
                 doubt, harmed>>

\* save_game_clear and M_SaveGame if the player says yes.  Whether the file
\* could be deleted does not matter to it.
ClearSlot ==
  /\ at = "ask"
  /\ \/ \E b \in Ready(bus) :
          \/ /\ b.mounted /\ b.card = "awake"
             /\ bus' = b
             /\ files' = [files EXCEPT ![todo.slot] = "none"]
             /\ told' = [told EXCEPT ![todo.slot] = "none"]
          \/ /\ b.mounted => b.card = "awake"
             /\ bus' = b
             /\ UNCHANGED <<files, told>>
          \/ /\ b.mounted /\ Fails(b)
             /\ bus' = Drop(b)
             /\ UNCHANGED <<files, told>>
  /\ at' = "peek"
  /\ peek' = 1
  /\ todo' = NoTodo
  /\ UNCHANGED <<calm, op, setting, shadow, game, shown, doubt, harmed>>

\* The player says no.
LeaveSlot ==
  /\ at = "ask"
  /\ at' = "play"
  /\ todo' = NoTodo
  /\ UNCHANGED <<files, bus, calm, op, setting, shadow, game, shown, peek, told,
                 doubt, harmed>>

\* G_DoLoadGame.  A truncated file that has a header is taken for a whole one:
\* what it lacks is read from what the work area held before.
LoadGame ==
  /\ at = "play" /\ todo.what = "load"
  /\ \E r \in ReadFile(todo.slot) :
       /\ bus' = r.bus
       /\ \/ r.got \in {"none", "short"} /\ UNCHANGED game
          \/ r.got = "short" /\ game' = "garbage"
          \/ r.got \notin {"none", "short"} /\ game' = r.got
  /\ todo' = NoTodo
  /\ UNCHANGED <<files, calm, at, op, setting, shadow, shown, peek, told, doubt,
                 harmed>>

\* The game goes on.
Play ==
  /\ at = "play"
  /\ \E g \in Games \ {game} : game' = g
  /\ UNCHANGED <<files, bus, calm, at, op, setting, shadow, shown, peek, todo,
                 told, doubt, harmed>>

-----------------------------------------------------------------------------
(***************************************************************************)
(* Boot, and the outside world.                                            *)
(***************************************************************************)

\* doom_sd_mount in main, before anything else asks for the card.
BootMount ==
  /\ at = "boot"
  /\ at' = "load"
  /\ bus' \in Mount(bus)
  /\ UNCHANGED <<files, calm, op, setting, shadow, game, shown, peek, todo, told,
                 doubt, harmed>>

\* What a reset leaves: the card, and what the player remembers.
Reset ==
  /\ at' = "boot" /\ op' = NoOp
  /\ bus' = [card    |-> IF bus.card = "out" THEN "out" ELSE "asleep",
             mounted |-> FALSE, waiting |-> FALSE, probes |-> 0]
  /\ setting' = Default /\ shadow' = "none"
  /\ game' \in Games
  /\ shown' = {} /\ peek' = 1 /\ todo' = NoTodo
  /\ UNCHANGED <<files, calm, told, doubt>>

\* I_Quit and doom_reboot_to_bootsel have flushed the settings.
Reboot ==
  /\ at = "play" /\ todo.what = "quit"
  /\ Reset
  /\ UNCHANGED harmed

PowerCut ==
  /\ ~ calm
  /\ Reset
  /\ harmed' = (harmed \/ at \in InFile)

Pull ==
  /\ ~ calm /\ bus.card # "out"
  /\ bus' = [bus EXCEPT !.card = "out"]
  /\ UNCHANGED <<files, calm, at, op, setting, shadow, game, shown, peek, todo,
                 told, doubt, harmed>>

\* The same card comes back, or one with no games on it.
Insert ==
  /\ bus.card = "out"
  /\ bus' = [bus EXCEPT !.card = "asleep"]
  /\ \/ UNCHANGED <<files, told, doubt>>
     \/ /\ \E v \in Records \cup {"none"} :
             files' = [f \in Files |-> IF f = Cfg THEN v ELSE "none"]
        /\ told' = [s \in Slots |-> "none"]
        /\ doubt' = TRUE
  /\ UNCHANGED <<calm, at, op, setting, shadow, game, shown, peek, todo, harmed>>

\* The card is in and gives no more trouble.
CalmDown ==
  /\ ~ calm /\ bus.card # "out"
  /\ calm' = TRUE
  /\ UNCHANGED <<files, bus, at, op, setting, shadow, game, shown, peek, todo,
                 told, doubt, harmed>>

-----------------------------------------------------------------------------
\* What core 0 does of itself.
Core ==
  \/ BootMount \/ LoadSettings \/ FlushSettings \/ PeekSlot \/ SaveGame \/ LoadGame
  \/ OpenFile \/ WriteData \/ CloseFile \/ UnlinkFile \/ Reboot

Player ==
  \/ OpenMenu \/ ChangeSetting \/ Play \/ ClearSlot \/ LeaveSlot
  \/ \E what \in {"nothing", "load", "save", "quit"}, s \in Slots : LeaveMenu(what, s)

World == Elapse \/ Pull \/ Insert \/ PowerCut \/ CalmDown

Next == Core \/ Player \/ World

Spec == Init /\ [][Next]_vars

\* Core 0 does not stop in the middle of an operation, and time goes on.
FairSpec == Spec /\ WF_vars(Core) /\ WF_vars(Elapse)

-----------------------------------------------------------------------------
(***************************************************************************)
(* Properties.                                                             *)
(***************************************************************************)

\* Every variable holds what the code can put there.
TypeOK ==
  /\ files \in [Files -> Games \cup Records \cup {"none", "short", "garbage"}]
  /\ bus \in Buses
  /\ at \in {"boot", "load", "play", "peek", "menu", "flush", "ask", "open"}
            \cup InFile
  /\ op \in [file : Files, data : Games \cup Settings \cup {"none", "garbage"},
             failed : {"no", "refused", "lost"}]
  /\ setting \in Settings
  /\ shadow \in Records \cup {"none"}
  /\ game \in Games \cup {"garbage"}
  /\ shown \in SUBSET Slots /\ peek \in Slots
  /\ todo \in [what : {"nothing", "load", "save", "quit"}, slot : Slots]
  /\ told \in [Slots -> Games \cup {"none", "garbage"}]
  /\ calm \in BOOLEAN /\ doubt \in BOOLEAN /\ harmed \in BOOLEAN

\* A game that the player was told is saved is on the card, whole, until it is
\* replaced or cleared: G_DoSaveGame says so only when writing and closing the
\* file both went well, and no failure of another file touches it.
SavedKept ==
  \A s \in Slots : told[s] # "none" => files[s] = told[s]

\* As long as no write was cut off by the power or the card, a card that is
\* full or refuses a write leaves no truncated file, and no game is ever loaded
\* from one (doom_sdcard.c: don't leave a truncated file where a good one used
\* to be).
WholeUnlessCut ==
  ~ harmed =>
    /\ game # "garbage"
    /\ \A f \in Files : files[f] = "short" => at \in InFile /\ op.file = f

\* Unless a write of the settings failed or the card was exchanged, what
\* doom_settings.c believes of the file is so: a flush it skips had nothing to
\* write, and one that finds a record to correct does not skip it.
ShadowTrue ==
  shadow # "none" /\ ~ doubt /\ ~ (at \in InFile /\ op.file = Cfg)
    => files[Cfg] = shadow

\* However many calls ask for it, a slot without a card is probed once per
\* back-off, the mount at boot included.
OneProbe == bus.probes <= 1

\* README.md: insert a card and it starts working.  Once the card gives no more
\* trouble, and if the player keeps looking, the menu comes to show every game
\* that is on it, whatever state the driver was left in.
Recovers ==
  []<>(at = "peek") /\ <>calm =>
    <>[](at = "menu" => \A s \in Slots : files[s] \in Games => s \in shown)
=============================================================================
