-------------------------- MODULE PicoStorageProofs --------------------------
(***************************************************************************)
(* The safety of the storage for any number of slots, games and settings.  *)
(*                                                                         *)
(* One inductive invariant carries all of it: besides the properties it    *)
(* says which content belongs to which file, that the slot being written   *)
(* is one the player has been told nothing about, and that a vain probe    *)
(* has armed the back-off.                                                 *)
(***************************************************************************)
EXTENDS PicoStorage, TLAPS

\* Saved games are in the slots and settings in the other file, and what is
\* being written belongs where it goes.
Sorted ==
  /\ \A s \in Slots : files[s] \in Games \cup {"none", "short", "garbage"}
  /\ files[Cfg] \in Records \cup {"none", "short"}
  /\ at \in InFile \cup {"open"} =>
       IF op.file = Cfg THEN op.data \in Settings ELSE op.data \in Games \cup {"garbage"}

\* A slot whose file is truncated is not one that the player takes for saved.
Untold == at \in InFile => op.file = Cfg \/ told[op.file] = "none"

\* As long as no write was cut off, there is no such game to save.
NoGarbage ==
  ~ harmed =>
    /\ \A s \in Slots : files[s] # "garbage"
    /\ at \in InFile \cup {"open"} => op.data # "garbage"

\* A probe in vain is followed by a back-off.
Armed == bus.probes # 0 => bus.waiting

\* The mount at boot is the first to ask.
Fresh == at = "boot" => ~ bus.waiting

StorageInv ==
  /\ TypeOK /\ Sorted
  /\ SavedKept /\ Untold
  /\ WholeUnlessCut /\ NoGarbage
  /\ ShadowTrue
  /\ OneProbe /\ Armed /\ Fresh

-----------------------------------------------------------------------------
(***************************************************************************)
(* The card.                                                               *)
(***************************************************************************)

\* The probes that the back-off has to limit.
SoundBus(b) == b \in Buses /\ b.probes <= 1 /\ (b.probes # 0 => b.waiting)

\* A mount is only tried where no vain probe is on record.
LEMMA MountSound ==
  ASSUME NEW b, b \in Buses, b.probes = 0, NEW c \in Mount(b)
  PROVE  SoundBus(c)
<1>1. b.card \in {"out", "asleep", "awake"} /\ b.mounted \in BOOLEAN /\ b.waiting \in BOOLEAN
  BY DEF Buses
<1>2. SoundBus(Mounted(b))
  BY <1>1 DEF Mounted, Buses, SoundBus
<1>3. SoundBus(Vain(b))
  BY <1>1 DEF Vain, Buses, SoundBus
<1> QED BY <1>2, <1>3 DEF Mount

LEMMA ReadySound ==
  ASSUME NEW b, SoundBus(b), NEW c \in Ready(b)
  PROVE  SoundBus(c)
<1>1. CASE b.mounted \/ b.waiting
  BY <1>1 DEF Ready
<1>2. CASE ~ (b.mounted \/ b.waiting)
  <2> DEFINE a == [b EXCEPT !.waiting = TRUE]
  <2>1. a \in Buses /\ a.probes = 0
    BY <1>2 DEF SoundBus, Buses
  <2>2. c \in Mount(a)
    BY <1>2 DEF Ready
  <2> QED BY <2>1, <2>2, MountSound
<1> QED BY <1>1, <1>2

LEMMA DropSound ==
  ASSUME NEW b, SoundBus(b)
  PROVE  SoundBus(Drop(b)) /\ \A r : SoundBus(NoteResult(b, r))
BY DEF SoundBus, Drop, NoteResult, Buses

\* What reading a file returns is nothing or what is in it.
LEMMA ReadSound ==
  ASSUME SoundBus(bus), NEW f \in Files, NEW r \in ReadFile(f)
  PROVE  SoundBus(r.bus) /\ r.got \in {"none", files[f]}
<1>1. CASE \E b \in Ready(bus) : r = [bus |-> b, got |-> "none"]
  BY <1>1, ReadySound
<1>2. CASE \E b \in Ready(bus) : r = [bus |-> b, got |-> files[f]]
  BY <1>2, ReadySound
<1>3. CASE \E b \in Ready(bus) : r = [bus |-> Drop(b), got |-> "none"]
  BY <1>3, ReadySound, DropSound
<1> QED BY <1>1, <1>2, <1>3 DEF ReadFile

LEMMA BusOfInv ==
  ASSUME StorageInv
  PROVE  SoundBus(bus)
BY DEF StorageInv, SoundBus, TypeOK, OneProbe, Armed

LEMMA FilesTyped == /\ Cfg \in Files /\ Slots \subseteq Files /\ Cfg \notin Slots
                    /\ 1 \in Slots
BY StorageAssumption DEF Cfg, Files, Slots

-----------------------------------------------------------------------------
(***************************************************************************)
(* One step.                                                               *)
(***************************************************************************)

\* The part of the type invariant that does not concern the card.
TypesOfRest ==
  /\ files \in [Files -> Games \cup Records \cup {"none", "short", "garbage"}]
  /\ at \in {"boot", "load", "play", "peek", "menu", "flush", "ask", "open"}
            \cup InFile
  /\ op \in [file : Files, data : Games \cup Settings \cup {"none", "garbage"},
             failed : {"no", "refused", "lost"}]
  /\ setting \in Settings
  /\ shadow \in Records \cup {"none"}
  /\ game \in Games \cup {"garbage"}
  /\ shown \in SUBSET Slots /\ peek \in Slots
  /\ todo \in [what : {"nothing", "load", "save", "quit"}, slot : Slots]
  /\ told \in [Slots -> Games \cup {"none", "garbage"}]
  /\ calm \in BOOLEAN /\ doubt \in BOOLEAN /\ harmed \in BOOLEAN

LEMMA BusStep ==
  ASSUME StorageInv, [Next]_vars
  PROVE  SoundBus(bus)' /\ Fresh'
<1>0. SoundBus(bus) /\ Fresh
  BY BusOfInv DEF StorageInv
<1>a. \A b \in Ready(bus) : SoundBus(b) /\ SoundBus(Drop(b))
  BY <1>0, ReadySound, DropSound
<1>b. \A f \in Files : \A r \in ReadFile(f) : SoundBus(r.bus)
  BY <1>0, ReadSound
<1>c. Cfg \in Files /\ peek \in Files /\ todo.slot \in Files
  BY FilesTyped DEF StorageInv, TypeOK
<1>1. CASE BootMount
  BY <1>0, <1>1, MountSound DEF BootMount, SoundBus, Fresh
<1>2. CASE LoadSettings
  BY <1>0, <1>2, <1>b, <1>c DEF LoadSettings, Fresh
<1>3. CASE FlushSettings
  BY <1>0, <1>3, <1>a DEF FlushSettings, Fresh
<1>4. CASE PeekSlot
  BY <1>0, <1>4, <1>b, <1>c DEF PeekSlot, Fresh
<1>5. CASE SaveGame
  BY <1>0, <1>5, <1>a DEF SaveGame, Fresh
<1>6. CASE LoadGame
  BY <1>0, <1>6, <1>b, <1>c DEF LoadGame, Fresh
<1>7. CASE OpenFile
  BY <1>0, <1>7, DropSound DEF OpenFile, NotWritten, Fresh
<1>8. CASE WriteData
  BY <1>0, <1>8 DEF WriteData, Fresh
<1>9. CASE CloseFile
  BY <1>0, <1>9 DEF CloseFile, Written, Fresh
<1>10. CASE UnlinkFile
  BY <1>0, <1>10, DropSound DEF UnlinkFile, NotWritten, Fresh
<1>11. CASE Reboot
  BY <1>0, <1>11 DEF Reboot, Reset, SoundBus, Buses, Fresh
<1>12. CASE OpenMenu
  BY <1>0, <1>12 DEF OpenMenu, Fresh
<1>13. CASE ChangeSetting
  BY <1>0, <1>13 DEF ChangeSetting, Fresh
<1>14. CASE Play
  BY <1>0, <1>14 DEF Play, Fresh
<1>15. CASE ClearSlot
  BY <1>0, <1>15, <1>a DEF ClearSlot, Fresh
<1>16. CASE LeaveSlot
  BY <1>0, <1>16 DEF LeaveSlot, Fresh
<1>17. ASSUME NEW what \in {"nothing", "load", "save", "quit"}, NEW s \in Slots, LeaveMenu(what, s)
      PROVE  SoundBus(bus)' /\ Fresh'
  BY <1>0, <1>17 DEF LeaveMenu, Fresh
<1>18. CASE Elapse
  BY <1>0, <1>18 DEF Elapse, SoundBus, Buses, Fresh
<1>19. CASE Pull
  BY <1>0, <1>19 DEF Pull, SoundBus, Buses, Fresh
<1>20. CASE Insert
  BY <1>0, <1>20 DEF Insert, SoundBus, Buses, Fresh
<1>21. CASE PowerCut
  BY <1>0, <1>21 DEF PowerCut, Reset, SoundBus, Buses, Fresh
<1>22. CASE CalmDown
  BY <1>0, <1>22 DEF CalmDown, Fresh
<1>23. CASE UNCHANGED vars
  BY <1>0, <1>23 DEF vars, Fresh, SoundBus
<1> QED BY <1>1, <1>2, <1>3, <1>4, <1>5, <1>6, <1>7, <1>8, <1>9, <1>10, <1>11, <1>12, <1>13, <1>14, <1>15, <1>16, <1>17, <1>18, <1>19, <1>20, <1>21, <1>22, <1>23 DEF Next, Core, Player, World

LEMMA TypeStep ==
  ASSUME StorageInv, [Next]_vars
  PROVE  TypesOfRest' /\ Sorted'
<1> USE FilesTyped, StorageAssumption DEF StorageInv
<1>1. CASE BootMount
  BY <1>1 DEF BootMount, TypeOK, TypesOfRest, Sorted, InFile, Records
<1>2. CASE LoadSettings
  <2>1. PICK r \in ReadFile(Cfg) :
          IF r.got \in Records THEN setting' = Apply(r.got) /\ shadow' = r.got /\ doubt' = FALSE
                               ELSE UNCHANGED <<setting, shadow, doubt>>
    BY <1>2 DEF LoadSettings
  <2>2. setting' \in Settings /\ shadow' \in Records \cup {"none"} /\ doubt' \in BOOLEAN
    <3>1. CASE r.got \in Records
      BY <2>1, <3>1 DEF Apply, TypeOK, Records
    <3>2. CASE r.got \notin Records
      BY <2>1, <3>2 DEF TypeOK
    <3> QED BY <3>1, <3>2
  <2>3. at' = "play" /\ UNCHANGED <<files, calm, op, game, shown, peek, todo, told, harmed>>
    BY <1>2 DEF LoadSettings
  <2> QED BY <2>2, <2>3 DEF TypeOK, TypesOfRest, Sorted, InFile
<1>3. CASE FlushSettings
  BY <1>3 DEF FlushSettings, TypeOK, TypesOfRest, Sorted, InFile, Records
<1>4. CASE PeekSlot
  <2>1. shown' \in SUBSET Slots
    BY <1>4 DEF PeekSlot, TypeOK
  <2>2. peek' \in Slots /\ at' \in {"peek", "menu"}
    BY <1>4 DEF PeekSlot, TypeOK, Slots
  <2>3. UNCHANGED <<files, calm, op, setting, shadow, game, todo, told, doubt, harmed>>
    BY <1>4 DEF PeekSlot
  <2> QED BY <2>1, <2>2, <2>3 DEF TypeOK, TypesOfRest, Sorted, InFile
<1>5. CASE SaveGame
  BY <1>5 DEF SaveGame, TypeOK, TypesOfRest, Sorted, InFile, Records
<1>6. CASE LoadGame
  BY <1>6, BusOfInv, ReadSound DEF LoadGame, TypeOK, TypesOfRest, Sorted, InFile, Records, NoTodo
<1>7. CASE OpenFile
  <2>1. files' \in [Files -> Games \cup Records \cup {"none", "short", "garbage"}]
    BY <1>7 DEF OpenFile, TypeOK, TypesOfRest, Sorted, InFile, Records
  <2>2. op' \in [file : Files, data : Games \cup Settings \cup {"none", "garbage"},
                failed : {"no", "refused", "lost"}]
    BY <1>7 DEF OpenFile, NotWritten, TypeOK, TypesOfRest, Sorted, InFile, Records, NoOp
  <2>3. told' \in [Slots -> Games \cup {"none", "garbage"}]
    BY <1>7 DEF OpenFile, NotWritten, TypeOK, TypesOfRest, Sorted, InFile, Records, Files
  <2>4. shadow' \in Records \cup {"none"} /\ doubt' \in BOOLEAN /\ harmed' \in BOOLEAN
    BY <1>7 DEF OpenFile, NotWritten, TypeOK, TypesOfRest, Sorted, InFile, Records
  <2>5. todo' \in [what : {"nothing", "load", "save", "quit"}, slot : Slots]
    BY <1>7 DEF OpenFile, NotWritten, TypeOK, NoTodo
  <2>6. at' \in {"play", "ask", "write", "unlink"}
    BY <1>7 DEF OpenFile, NotWritten
  <2>7. UNCHANGED <<setting, game, shown, peek, calm>>
    BY <1>7 DEF OpenFile
  <2>8. TypesOfRest'
    BY <2>1, <2>2, <2>3, <2>4, <2>5, <2>6, <2>7 DEF TypeOK, TypesOfRest, InFile
  <2>9. Sorted'
    BY <1>7 DEF OpenFile, NotWritten, TypeOK, TypesOfRest, Sorted, InFile, Records, NoOp
  <2> QED BY <2>8, <2>9
<1>8. CASE WriteData
  BY <1>8 DEF WriteData, TypeOK, TypesOfRest, Sorted, InFile, Records
<1>9. CASE CloseFile
  <2>1. files' \in [Files -> Games \cup Records \cup {"none", "short", "garbage"}]
    BY <1>9 DEF CloseFile, TypeOK, TypesOfRest, Sorted, InFile, Records
  <2>2. op' \in [file : Files, data : Games \cup Settings \cup {"none", "garbage"},
                failed : {"no", "refused", "lost"}]
    BY <1>9 DEF CloseFile, Written, TypeOK, TypesOfRest, Sorted, InFile, Records, NoOp
  <2>3. told' \in [Slots -> Games \cup {"none", "garbage"}]
    BY <1>9 DEF CloseFile, Written, TypeOK, TypesOfRest, Sorted, InFile, Records, Files
  <2>4. shadow' \in Records \cup {"none"} /\ doubt' \in BOOLEAN /\ harmed' \in BOOLEAN
    BY <1>9 DEF CloseFile, Written, TypeOK, TypesOfRest, Sorted, InFile, Records
  <2>5. todo' \in [what : {"nothing", "load", "save", "quit"}, slot : Slots]
    BY <1>9 DEF CloseFile, Written, TypeOK, NoTodo
  <2>6. at' \in {"play", "ask", "write", "unlink"}
    BY <1>9 DEF CloseFile, Written
  <2>7. UNCHANGED <<setting, game, shown, peek, calm>>
    BY <1>9 DEF CloseFile
  <2>8. TypesOfRest'
    BY <2>1, <2>2, <2>3, <2>4, <2>5, <2>6, <2>7 DEF TypeOK, TypesOfRest, InFile
  <2>9. Sorted'
    BY <1>9 DEF CloseFile, Written, TypeOK, TypesOfRest, Sorted, InFile, Records, NoOp
  <2> QED BY <2>8, <2>9
<1>10. CASE UnlinkFile
  <2>1. files' \in [Files -> Games \cup Records \cup {"none", "short", "garbage"}]
    BY <1>10 DEF UnlinkFile, TypeOK, TypesOfRest, Sorted, InFile, Records
  <2>2. op' \in [file : Files, data : Games \cup Settings \cup {"none", "garbage"},
                failed : {"no", "refused", "lost"}]
    BY <1>10 DEF UnlinkFile, NotWritten, TypeOK, TypesOfRest, Sorted, InFile, Records, NoOp
  <2>3. told' \in [Slots -> Games \cup {"none", "garbage"}]
    BY <1>10 DEF UnlinkFile, NotWritten, TypeOK, TypesOfRest, Sorted, InFile, Records, Files
  <2>4. shadow' \in Records \cup {"none"} /\ doubt' \in BOOLEAN /\ harmed' \in BOOLEAN
    BY <1>10 DEF UnlinkFile, NotWritten, TypeOK, TypesOfRest, Sorted, InFile, Records
  <2>5. todo' \in [what : {"nothing", "load", "save", "quit"}, slot : Slots]
    BY <1>10 DEF UnlinkFile, NotWritten, TypeOK, NoTodo
  <2>6. at' \in {"play", "ask", "write", "unlink"}
    BY <1>10 DEF UnlinkFile, NotWritten
  <2>7. UNCHANGED <<setting, game, shown, peek, calm>>
    BY <1>10 DEF UnlinkFile
  <2>8. TypesOfRest'
    BY <2>1, <2>2, <2>3, <2>4, <2>5, <2>6, <2>7 DEF TypeOK, TypesOfRest, InFile
  <2>9. Sorted'
    BY <1>10 DEF UnlinkFile, NotWritten, TypeOK, TypesOfRest, Sorted, InFile, Records, NoOp
  <2> QED BY <2>8, <2>9
<1>11. CASE Reboot
  BY <1>11 DEF Reboot, Reset, TypeOK, TypesOfRest, Sorted, InFile, Records, NoOp, NoTodo
<1>12. CASE OpenMenu
  BY <1>12 DEF OpenMenu, TypeOK, TypesOfRest, Sorted, InFile, Records
<1>13. CASE ChangeSetting
  BY <1>13 DEF ChangeSetting, TypeOK, TypesOfRest, Sorted, InFile, Records
<1>14. CASE Play
  BY <1>14 DEF Play, TypeOK, TypesOfRest, Sorted, InFile, Records
<1>15. CASE ClearSlot
  BY <1>15 DEF ClearSlot, TypeOK, TypesOfRest, Sorted, InFile, Records, NoTodo
<1>16. CASE LeaveSlot
  BY <1>16 DEF LeaveSlot, TypeOK, TypesOfRest, Sorted, InFile, Records, NoTodo
<1>17. ASSUME NEW what \in {"nothing", "load", "save", "quit"}, NEW s \in Slots, LeaveMenu(what, s)
      PROVE  TypesOfRest' /\ Sorted'
  BY <1>17 DEF LeaveMenu, TypeOK, TypesOfRest, Sorted, InFile, Records, NoTodo
<1>18. CASE Elapse
  BY <1>18 DEF Elapse, TypeOK, TypesOfRest, Sorted, InFile, Records
<1>19. CASE Pull
  BY <1>19 DEF Pull, TypeOK, TypesOfRest, Sorted, InFile, Records
<1>20. CASE Insert
  <2>1. CASE UNCHANGED <<files, told, doubt>>
    BY <1>20, <2>1 DEF Insert, TypeOK, TypesOfRest, Sorted, InFile
  <2>2. ASSUME NEW v \in Records \cup {"none"},
               files' = [f \in Files |-> IF f = Cfg THEN v ELSE "none"],
               told' = [s \in Slots |-> "none"], doubt' = TRUE
        PROVE  TypesOfRest' /\ Sorted'
    <3>1. files' \in [Files -> Games \cup Records \cup {"none", "short", "garbage"}]
      BY <2>2
    <3>2. told' \in [Slots -> Games \cup {"none", "garbage"}]
      BY <2>2
    <3>3. UNCHANGED <<calm, at, op, setting, shadow, game, shown, peek, todo, harmed>>
      BY <1>20 DEF Insert
    <3>4. TypesOfRest'
      BY <2>2, <3>1, <3>2, <3>3 DEF TypeOK, TypesOfRest
    <3>5. files'[Cfg] = v /\ \A s \in Slots : files'[s] = "none"
      BY <2>2
    <3> QED BY <3>3, <3>4, <3>5 DEF Sorted, InFile
  <2> QED BY <1>20, <2>1, <2>2 DEF Insert
<1>21. CASE PowerCut
  BY <1>21 DEF PowerCut, Reset, TypeOK, TypesOfRest, Sorted, InFile, Records, NoOp, NoTodo
<1>22. CASE CalmDown
  BY <1>22 DEF CalmDown, TypeOK, TypesOfRest, Sorted, InFile, Records
<1>23. CASE UNCHANGED vars
  BY <1>23 DEF vars, TypeOK, TypesOfRest, Sorted, InFile, Records
<1> QED BY <1>1, <1>2, <1>3, <1>4, <1>5, <1>6, <1>7, <1>8, <1>9, <1>10, <1>11, <1>12, <1>13, <1>14, <1>15, <1>16, <1>17, <1>18, <1>19, <1>20, <1>21, <1>22, <1>23 DEF Next, Core, Player, World

LEMMA SavedStep ==
  ASSUME StorageInv, [Next]_vars
  PROVE  SavedKept' /\ Untold'
<1> USE FilesTyped, StorageAssumption DEF StorageInv
<1>1. CASE BootMount
  BY <1>1 DEF BootMount, TypeOK, SavedKept, Untold, InFile
<1>2. CASE LoadSettings
  BY <1>2, BusOfInv, ReadSound DEF LoadSettings, TypeOK, SavedKept, Untold, InFile
<1>3. CASE FlushSettings
  BY <1>3 DEF FlushSettings, TypeOK, SavedKept, Untold, InFile
<1>4. CASE PeekSlot
  BY <1>4, BusOfInv, ReadSound DEF PeekSlot, TypeOK, SavedKept, Untold, InFile
<1>5. CASE SaveGame
  BY <1>5 DEF SaveGame, TypeOK, SavedKept, Untold, InFile
<1>6. CASE LoadGame
  BY <1>6, BusOfInv, ReadSound DEF LoadGame, TypeOK, SavedKept, Untold, InFile
<1>7. CASE OpenFile
  <2>1. CASE files' = [files EXCEPT ![op.file] = "short"] /\ at' = "write" /\ UNCHANGED op
             /\ told' = [s \in Slots |-> IF s = op.file THEN "none" ELSE told[s]]
    <3>1. op.file = Cfg \/ op.file \in Slots
      BY DEF TypeOK, Files
    <3>2. Untold'
      BY <2>1, <3>1 DEF Untold
    <3>3. SavedKept'
      BY <2>1 DEF SavedKept, TypeOK
    <3> QED BY <3>2, <3>3
  <2>2. CASE NotWritten /\ UNCHANGED files
    BY <2>2 DEF NotWritten, SavedKept, Untold, InFile
  <2> QED BY <1>7, <2>1, <2>2 DEF OpenFile
<1>8. CASE WriteData
  BY <1>8 DEF WriteData, TypeOK, SavedKept, Untold, InFile
<1>9. CASE CloseFile
  BY <1>9 DEF CloseFile, Written, TypeOK, SavedKept, Untold, InFile
<1>10. CASE UnlinkFile
  BY <1>10 DEF UnlinkFile, NotWritten, TypeOK, SavedKept, Untold, InFile
<1>11. CASE Reboot
  BY <1>11 DEF Reboot, Reset, TypeOK, SavedKept, Untold, InFile
<1>12. CASE OpenMenu
  BY <1>12 DEF OpenMenu, TypeOK, SavedKept, Untold, InFile
<1>13. CASE ChangeSetting
  BY <1>13 DEF ChangeSetting, TypeOK, SavedKept, Untold, InFile
<1>14. CASE Play
  BY <1>14 DEF Play, TypeOK, SavedKept, Untold, InFile
<1>15. CASE ClearSlot
  BY <1>15 DEF ClearSlot, TypeOK, SavedKept, Untold, InFile
<1>16. CASE LeaveSlot
  BY <1>16 DEF LeaveSlot, TypeOK, SavedKept, Untold, InFile
<1>17. ASSUME NEW what \in {"nothing", "load", "save", "quit"}, NEW s \in Slots, LeaveMenu(what, s)
      PROVE  SavedKept' /\ Untold'
  BY <1>17 DEF LeaveMenu, TypeOK, SavedKept, Untold, InFile
<1>18. CASE Elapse
  BY <1>18 DEF Elapse, TypeOK, SavedKept, Untold, InFile
<1>19. CASE Pull
  BY <1>19 DEF Pull, TypeOK, SavedKept, Untold, InFile
<1>20. CASE Insert
  <2>1. CASE UNCHANGED <<files, told>>
    BY <1>20, <2>1 DEF Insert, SavedKept, Untold, InFile
  <2>2. CASE told' = [s \in Slots |-> "none"]
    BY <1>20, <2>2 DEF Insert, SavedKept, Untold, InFile, TypeOK, Files
  <2> QED BY <1>20, <2>1, <2>2 DEF Insert
<1>21. CASE PowerCut
  BY <1>21 DEF PowerCut, Reset, TypeOK, SavedKept, Untold, InFile
<1>22. CASE CalmDown
  BY <1>22 DEF CalmDown, TypeOK, SavedKept, Untold, InFile
<1>23. CASE UNCHANGED vars
  BY <1>23 DEF vars, TypeOK, SavedKept, Untold, InFile
<1> QED BY <1>1, <1>2, <1>3, <1>4, <1>5, <1>6, <1>7, <1>8, <1>9, <1>10, <1>11, <1>12, <1>13, <1>14, <1>15, <1>16, <1>17, <1>18, <1>19, <1>20, <1>21, <1>22, <1>23 DEF Next, Core, Player, World

LEMMA WholeStep ==
  ASSUME StorageInv, [Next]_vars
  PROVE  WholeUnlessCut' /\ NoGarbage'
<1> USE FilesTyped, StorageAssumption DEF StorageInv
<1>1. CASE BootMount
  BY <1>1 DEF BootMount, TypeOK, Sorted, WholeUnlessCut, NoGarbage, InFile, Records
<1>2. CASE LoadSettings
  BY <1>2, BusOfInv, ReadSound DEF LoadSettings, TypeOK, Sorted, WholeUnlessCut, NoGarbage, InFile, Records
<1>3. CASE FlushSettings
  BY <1>3 DEF FlushSettings, TypeOK, Sorted, WholeUnlessCut, NoGarbage, InFile, Records
<1>4. CASE PeekSlot
  BY <1>4, BusOfInv, ReadSound DEF PeekSlot, TypeOK, Sorted, WholeUnlessCut, NoGarbage, InFile, Records
<1>5. CASE SaveGame
  BY <1>5 DEF SaveGame, TypeOK, Sorted, WholeUnlessCut, NoGarbage, InFile, Records
<1>6. CASE LoadGame
  BY <1>6, BusOfInv, ReadSound DEF LoadGame, TypeOK, Sorted, WholeUnlessCut, NoGarbage, InFile, Records
<1>7. CASE OpenFile
  BY <1>7 DEF OpenFile, NotWritten, TypeOK, Sorted, WholeUnlessCut, NoGarbage, InFile, Records
<1>8. CASE WriteData
  BY <1>8 DEF WriteData, TypeOK, Sorted, WholeUnlessCut, NoGarbage, InFile, Records
<1>9. CASE CloseFile
  BY <1>9 DEF CloseFile, Written, TypeOK, Sorted, WholeUnlessCut, NoGarbage, InFile, Records
<1>10. CASE UnlinkFile
  BY <1>10 DEF UnlinkFile, NotWritten, TypeOK, Sorted, WholeUnlessCut, NoGarbage, InFile, Records
<1>11. CASE Reboot
  BY <1>11 DEF Reboot, Reset, TypeOK, Sorted, WholeUnlessCut, NoGarbage, InFile, Records
<1>12. CASE OpenMenu
  BY <1>12 DEF OpenMenu, TypeOK, Sorted, WholeUnlessCut, NoGarbage, InFile, Records
<1>13. CASE ChangeSetting
  BY <1>13 DEF ChangeSetting, TypeOK, Sorted, WholeUnlessCut, NoGarbage, InFile, Records
<1>14. CASE Play
  BY <1>14 DEF Play, TypeOK, Sorted, WholeUnlessCut, NoGarbage, InFile, Records
<1>15. CASE ClearSlot
  BY <1>15 DEF ClearSlot, TypeOK, Sorted, WholeUnlessCut, NoGarbage, InFile, Records
<1>16. CASE LeaveSlot
  BY <1>16 DEF LeaveSlot, TypeOK, Sorted, WholeUnlessCut, NoGarbage, InFile, Records
<1>17. ASSUME NEW what \in {"nothing", "load", "save", "quit"}, NEW s \in Slots, LeaveMenu(what, s)
      PROVE  WholeUnlessCut' /\ NoGarbage'
  BY <1>17 DEF LeaveMenu, TypeOK, Sorted, WholeUnlessCut, NoGarbage, InFile, Records
<1>18. CASE Elapse
  BY <1>18 DEF Elapse, TypeOK, Sorted, WholeUnlessCut, NoGarbage, InFile, Records
<1>19. CASE Pull
  BY <1>19 DEF Pull, TypeOK, Sorted, WholeUnlessCut, NoGarbage, InFile, Records
<1>20. CASE Insert
  BY <1>20 DEF Insert, TypeOK, Sorted, WholeUnlessCut, NoGarbage, InFile, Records
<1>21. CASE PowerCut
  BY <1>21 DEF PowerCut, Reset, TypeOK, Sorted, WholeUnlessCut, NoGarbage, InFile, Records
<1>22. CASE CalmDown
  BY <1>22 DEF CalmDown, TypeOK, Sorted, WholeUnlessCut, NoGarbage, InFile, Records
<1>23. CASE UNCHANGED vars
  BY <1>23 DEF vars, TypeOK, Sorted, WholeUnlessCut, NoGarbage, InFile, Records
<1> QED BY <1>1, <1>2, <1>3, <1>4, <1>5, <1>6, <1>7, <1>8, <1>9, <1>10, <1>11, <1>12, <1>13, <1>14, <1>15, <1>16, <1>17, <1>18, <1>19, <1>20, <1>21, <1>22, <1>23 DEF Next, Core, Player, World

LEMMA ShadowStep ==
  ASSUME StorageInv, [Next]_vars
  PROVE  ShadowTrue'
<1> USE FilesTyped, StorageAssumption DEF StorageInv
<1>1. CASE BootMount
  BY <1>1 DEF BootMount, TypeOK, Sorted, ShadowTrue, InFile, Records
<1>2. CASE LoadSettings
  BY <1>2, BusOfInv, ReadSound DEF LoadSettings, TypeOK, Sorted, ShadowTrue, InFile, Records
<1>3. CASE FlushSettings
  BY <1>3 DEF FlushSettings, TypeOK, Sorted, ShadowTrue, InFile, Records
<1>4. CASE PeekSlot
  BY <1>4, BusOfInv, ReadSound DEF PeekSlot, TypeOK, Sorted, ShadowTrue, InFile, Records
<1>5. CASE SaveGame
  BY <1>5 DEF SaveGame, TypeOK, Sorted, ShadowTrue, InFile, Records
<1>6. CASE LoadGame
  BY <1>6, BusOfInv, ReadSound DEF LoadGame, TypeOK, Sorted, ShadowTrue, InFile, Records
<1>7. CASE OpenFile
  BY <1>7 DEF OpenFile, NotWritten, TypeOK, Sorted, ShadowTrue, InFile, Records
<1>8. CASE WriteData
  BY <1>8 DEF WriteData, TypeOK, Sorted, ShadowTrue, InFile, Records
<1>9. CASE CloseFile
  BY <1>9 DEF CloseFile, Written, TypeOK, Sorted, ShadowTrue, InFile, Records
<1>10. CASE UnlinkFile
  BY <1>10 DEF UnlinkFile, NotWritten, TypeOK, Sorted, ShadowTrue, InFile, Records
<1>11. CASE Reboot
  BY <1>11 DEF Reboot, Reset, TypeOK, Sorted, ShadowTrue, InFile, Records
<1>12. CASE OpenMenu
  BY <1>12 DEF OpenMenu, TypeOK, Sorted, ShadowTrue, InFile, Records
<1>13. CASE ChangeSetting
  BY <1>13 DEF ChangeSetting, TypeOK, Sorted, ShadowTrue, InFile, Records
<1>14. CASE Play
  BY <1>14 DEF Play, TypeOK, Sorted, ShadowTrue, InFile, Records
<1>15. CASE ClearSlot
  BY <1>15 DEF ClearSlot, TypeOK, Sorted, ShadowTrue, InFile, Records
<1>16. CASE LeaveSlot
  BY <1>16 DEF LeaveSlot, TypeOK, Sorted, ShadowTrue, InFile, Records
<1>17. ASSUME NEW what \in {"nothing", "load", "save", "quit"}, NEW s \in Slots, LeaveMenu(what, s)
      PROVE  ShadowTrue'
  BY <1>17 DEF LeaveMenu, TypeOK, Sorted, ShadowTrue, InFile, Records
<1>18. CASE Elapse
  BY <1>18 DEF Elapse, TypeOK, Sorted, ShadowTrue, InFile, Records
<1>19. CASE Pull
  BY <1>19 DEF Pull, TypeOK, Sorted, ShadowTrue, InFile, Records
<1>20. CASE Insert
  BY <1>20 DEF Insert, TypeOK, Sorted, ShadowTrue, InFile, Records
<1>21. CASE PowerCut
  BY <1>21 DEF PowerCut, Reset, TypeOK, Sorted, ShadowTrue, InFile, Records
<1>22. CASE CalmDown
  BY <1>22 DEF CalmDown, TypeOK, Sorted, ShadowTrue, InFile, Records
<1>23. CASE UNCHANGED vars
  BY <1>23 DEF vars, TypeOK, Sorted, ShadowTrue, InFile, Records
<1> QED BY <1>1, <1>2, <1>3, <1>4, <1>5, <1>6, <1>7, <1>8, <1>9, <1>10, <1>11, <1>12, <1>13, <1>14, <1>15, <1>16, <1>17, <1>18, <1>19, <1>20, <1>21, <1>22, <1>23 DEF Next, Core, Player, World

-----------------------------------------------------------------------------
(***************************************************************************)
(* The theorems.                                                           *)
(***************************************************************************)

\* The invariant holds of a board that is switched on with a card in any state
\* that does not hold truncated files.
LEMMA InitStorageInv == Init => StorageInv
<1> SUFFICES ASSUME Init PROVE StorageInv
  OBVIOUS
<1> USE FilesTyped, StorageAssumption DEF Init
<1>0. bus \in Buses /\ bus.probes = 0 /\ bus.waiting = FALSE
  BY DEF Buses
<1>1. TypeOK
  <2>1. files \in [Files -> Games \cup Records \cup {"none", "short", "garbage"}]
    OBVIOUS
  <2>2. op \in [file : Files, data : Games \cup Settings \cup {"none", "garbage"},
               failed : {"no", "refused", "lost"}]
    BY DEF NoOp
  <2>3. todo \in [what : {"nothing", "load", "save", "quit"}, slot : Slots]
    BY DEF NoTodo
  <2>4. told \in [Slots -> Games \cup {"none", "garbage"}]
    OBVIOUS
  <2> QED BY <1>0, <2>1, <2>2, <2>3, <2>4 DEF TypeOK
<1>2. Sorted
  BY DEF Sorted, InFile, Records, Files
<1>3. SavedKept /\ Untold /\ ShadowTrue
  BY DEF SavedKept, Untold, ShadowTrue, InFile
<1>4. WholeUnlessCut /\ NoGarbage
  BY DEF WholeUnlessCut, NoGarbage, InFile, Records
<1>5. OneProbe /\ Armed /\ Fresh
  BY <1>0 DEF OneProbe, Armed, Fresh
<1> QED BY <1>1, <1>2, <1>3, <1>4, <1>5 DEF StorageInv

\* Every step keeps the invariant.
LEMMA StorageInvStep == StorageInv /\ [Next]_vars => StorageInv'
<1> SUFFICES ASSUME StorageInv, [Next]_vars PROVE StorageInv'
  OBVIOUS
<1>1. SoundBus(bus)' /\ Fresh' /\ TypesOfRest' /\ Sorted'
  BY BusStep, TypeStep
<1>2. TypeOK' /\ OneProbe' /\ Armed'
  BY <1>1 DEF SoundBus, TypesOfRest, TypeOK, OneProbe, Armed
<1> QED BY <1>1, <1>2, SavedStep, WholeStep, ShadowStep DEF StorageInv

\* The invariant behind all that follows.
THEOREM StorageInvariant == Spec => []StorageInv
<1> QED BY InitStorageInv, StorageInvStep, PTL DEF Spec

\* Files, operation, card and shadow are well typed in every reachable state.
THEOREM StorageTyped == Spec => []TypeOK
<1>1. StorageInv => TypeOK
  BY DEF StorageInv
<1> QED BY StorageInvariant, <1>1, PTL

\* A game the player was told is saved is on the card until it is replaced or
\* cleared, for any number of slots: no operation on another file, no failure
\* and no reset of the board takes it away.
THEOREM SavedGamesKept == Spec => []SavedKept
<1>1. StorageInv => SavedKept
  BY DEF StorageInv
<1> QED BY StorageInvariant, <1>1, PTL

\* A full or write-protected card never leaves a truncated file, and no game is
\* loaded from one, unless the power or the card went away during a write.
THEOREM FilesWhole == Spec => []WholeUnlessCut
<1>1. StorageInv => WholeUnlessCut
  BY DEF StorageInv
<1> QED BY StorageInvariant, <1>1, PTL

\* The shadow is what the file holds, unless a write of it failed or the card
\* was exchanged.
THEOREM ShadowIsTrue == Spec => []ShadowTrue
<1>1. StorageInv => ShadowTrue
  BY DEF StorageInv
<1> QED BY StorageInvariant, <1>1, PTL

\* A slot without a card is probed once per back-off, however many slots a menu
\* has.
THEOREM ProbedOnce == Spec => []OneProbe
<1>1. StorageInv => OneProbe
  BY DEF StorageInv
<1> QED BY StorageInvariant, <1>1, PTL
=============================================================================
