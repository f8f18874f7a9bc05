# Verifying pico-doom

TLA+ models of the parts of pico-doom whose correctness depends on the order in
which things happen: interrupt handlers against main loops, one core against the
other, one board against another over a lossy bus. The models are translated from
the C source; TLC checks them on small instances, and TLAPS proves the central
results for every number of players, slots, blocks and channels.

Status. Modelled, checked and proved: the I2C network (lobby and game) with the tic
loop on top of it, the storage on the SD card, the zone heap, the sound effects
with the audio path to the screen, the frames that the two cores hand to each other,
with the game actions that come between them, and the thinkers with the pool their
memory comes from. Every safety property that a passing run checks is also a theorem;
liveness is left to TLC. Section 6 says what is not modelled, and why.

## 1. The system

pico-doom is Doom for the RP2040/RP2350: Chocolate Doom with its renderer, sound,
storage, input and network replaced for a two-core microcontroller without an
operating system. Core 0 runs the game loop; core 1 sends video and audio to the
display; everything else happens in interrupt handlers. There are no locks beyond a
critical section (interrupts off), two semaphores between the cores, and a
lock-free audio queue.

| Component | Source (under `src/src/`) | State | Operations | Hard behaviour | What makes it correct |
|---|---|---|---|---|---|
| In-game network | `pico/piconet.c`, `d_loop.c` | `ticdata` ring, per-client sent/acknowledged tics, `last_complete_tic`, `limit_tic`, `maketic`, `recvtic`, `gametic` | timer tick, I2C interrupts of host and client, `BuildNewTic`, `GetLowTic`, `TryRunTics` | interrupts and loop share one small ring; replies lost, cut short, repeated; kicks, time-outs, players leaving | every node runs the same commands for the same tic, in order; nothing still needed is overwritten; nobody waits for ever |
| Lobby | `pico/piconet.c`, `doom/m_menu.c` | table of clients, lobby with a version number, polled address; per client its copy, player number, identity, address | polling and seating, abort and compaction, acknowledgement, refusal, dropped connection, start and launch | tables shifted while a round is under way; identities and addresses that change; the start racing a join | one list in both tables; an acknowledged version is the client's version; everybody starts with the same players |
| Consistency check, game actions | `doom/g_game.c`, `doom/d_main.c` | `gameaction`, `consistancy` ring | `G_Ticker` | actions from menus, tics and demos in one variable | no two nodes disagree (`Lockstep`); a confirmed quit is carried out |
| Frame handshake | `pico/i_video.c`, `pd_render.cpp`, `pico/i_system.c` | `render_frame_ready`, `display_frame_freed`, two frame buffers | end of frame, new frame on core 1, save pause, quit screen, text screen | two cores; a pause that times out and takes its frame back | the buffer shown is never drawn into; the permits add up; no frame waits for ever |
| Audio data-island queue | `pico_hdmi/hstx_data_island_queue.c` (vendored in `3rdparty/`), `pico/pico_hdmi_glue.c`, `pico/i_picosound.c` | ring of 256 packets, head, tail, a rational packet clock | push, pop, tick, watermark | producer and consumer on different cores without a lock | no torn or overwritten packet, level within bounds |
| Sound channels | `doom/s_sound.c`, `pico/i_picosound.c` | channels with priorities and origins, voices of the mixer | start, stop, update | eviction by priority, origins that die | a channel never outlives its origin, and comes back |
| Storage | `pico/doom_sdcard.c`, `pico/doom_settings.c`, `doom/g_game.c`, `doom/m_menu.c` | mount state, retry time, settings and their shadow | mount, read, write, delete, flush | card removed in the middle; truncate, then failed write | a failed write never looks like success; what is shadowed is on the card |
| Event queue and input | `d_event.c`, `pico/i_input.c`, `pico/i_usbhid.cpp` | ring of 8 events, last pad report | post, pop, pad settling | no overflow check | no event lost or repeated |
| Zone heap | `z_zone.c` | block list, rover, purge tags | malloc, free, change tag, free tags | purging while walking with a rover | blocks tile the heap; an owner's pointer is its block's |
| Thinkers, specials | `doom/p_tick.c`, `doom/p_doors.c`, ... | thinker list, blocks of slots with a list of the partially full ones, sector machines | spawn, remove, run, load | removal while the list is walked; two lists in one field | each thinker runs once per tic; both lists stay sound; what is removed is freed |
| Boot, quit, WHD load | `pico/whd_sdload.c`, `pico/doom_boot.c`, ... | none that outlives a step | | | not modelled: a straight line |
| Renderer, play simulation | `pd_render.cpp`, `doom/p_*.c` | geometry, world | | data, not order | not modelled; lockstep only needs that the simulation is a function of its commands |
| Inherited or vendored code | Heretic, Hexen, Strife, set-up, SDL and net_* code, FatFs, drivers | | | | not part of the device build, or third party |

How they interact: the menu (`m_menu.c`) calls `piconet_*` under the critical
section and `D_StartPicoNetGame`, which resets the tic counters; `TryRunTics` calls
`NetUpdate`, which builds tics and, through `ProcessEvents`, runs the menu again;
`BuildNewTic` announces each tic to piconet, `GetLowTic` asks it for complete ones;
the interrupt handlers of piconet read and write `ticdata` directly. `G_Ticker`
reads the slot it is given, checks its consistency byte, and the loop squashes the
slot afterwards. Within a tic it also loads, saves and quits, and runs the thinkers;
a thing that is removed stops its sound first and is freed later. Mixing happens in
`I_UpdateSound`, called from many busy loops of core 0. Every hazard of this code that a test would hardly reach is listed
in `PROJECT.json` at its line, with the properties that would catch it.

## 2. The modules

| Module | What it is |
|---|---|
| `TicLog` | The abstract specification of the net game: one log of tics, every node runs that log in order. |
| `PicoNetGame` | The game half of piconet with the tic loop: host handlers, client handlers, main loop of every node. |
| `MCPicoNetGame` | What comments and assertions of the code say of it. |
| `PicoNetGameProofs` | Lemmas on the ring and the operators; type correctness; the inductive invariant and the safety theorems. |
| `PicoNetLobby` | The lobby half of piconet with the two menus. |
| `MCPicoNetLobby` | Symmetry, and what comments of the code say of the lobby. |
| `PicoNetGameCommands` | Where each command lies from the tic it is built to the tic it is run; the refinement of `TicLog`. |
| `PicoNetLobbyProofs` | The lobby's inductive invariant, action by action; the safety theorems. |
| `PicoFrames` | The frame handshake of the two cores, wipes, save pause and quit, and the game actions around them. |
| `PicoFramesProofs` | The handshake's invariant and theorems. |
| `PicoStorage` | The SD card: mount and back-off, files, settings, saved games; a world that pulls the card and the power. |
| `MCPicoStorage` | What a header of the code promises of the settings. |
| `PicoStorageProofs` | The storage's invariant and theorems. |
| `PicoZone` | The zone heap: block list, rover, purging, sweeping a level. |
| `PicoZoneProofs` | The heap's invariant and theorems, and how much a request has still to do. |
| `PacketQueue` | What the audio path promises: a bounded queue of packets. |
| `PicoAudio` | The audio path: mixer on core 0, ring of data islands, DMA interrupt on core 1; its mapping to `PacketQueue`. |
| `PicoSound` | Channels, voices and things, composed with `PicoAudio`, which it extends. |
| `MCPicoSound` | Priorities, and what a header of the code says of stopped sounds. |
| `PicoSoundProofs` | The ring's and the channels' invariants and theorems. |
| `PicoThinkers` | The thinker list, the walk over it, and the pool of slots. |
| `PicoThinkersProofs` | Both lists laid out, the invariant and the theorems. |

### PicoNetGame

State. Every variable is named after the C variable it stands for. `member` is the
set of players whose `clients[i].id` is not 0. `up` is the reply that the host is
reading, `down[c]` the message that client `c` has received but whose STOP interrupt
it has not handled: a reply or another message written over it loses it. `mode` is
where a node is (in the lobby, told to launch, in the game, left); `counts` is what
`TryRunTics` has still to run, `announcing` says that `BuildNewTic` has written its
command but not yet called `piconet_new_local_tic`. `agreed`, `ran`, `refused`,
`midLoop` and `stray` are history: what each complete tic contained, what each node
ran, and that one of three things has gone wrong.

Data. A command is the number of the tic it was built for, which is all the
properties tell apart; after `TicdupSquash` it is `Squashed`. The content of a slot
is, for each player flagged in it, that player's command.

Actions. One per handler or per critical section, with what it calls:

| Action | Code |
|---|---|
| `PeriodicTick` | `periodic_tick` and the advance to the first read |
| `HostReceive`, `HostReceiveShort`, `HostAbort`, `HostPolled`, `HostSent` | the host's branches of `i2c_irq_handler`, each with `host_check_tic_advance_locked` and `host_advance_protocol_state_locked` where the code calls them |
| `ClientReply`, `ClientReceiveLobby`, `ClientReceiveTic` | the client's branches: RD_REQ, STOP after a lobby message, STOP after a tic message |
| `HostStart`, `ClientStart` | `M_NetGameStart` on either side |
| `BuildNewTic`, `HostNewLocalTic`, `ClientNewLocalTic` | the two halves of `BuildNewTic`, outside and inside the critical section |
| `HostGetLowTic`, `HostKick`, `ClientGetLowTic`, `ClientTimeout`, `LocalGetLowTic` | `piconet_maybe_recv_tic`, its time-out branches, and `GetLowTic` with the tic counting of `TryRunTics` |
| `RunTic`, `Leave` | the run loop, and the end of a player's game |

`CheckTicAdvance` is the loop of `host_check_tic_advance_locked` as one step: the
new `last_complete_tic` is the largest tic that every remaining member has sent. It
also removes the members that the caller kicks, in the order in which the code
removes them, because a tic completed between two removals still has the second one
in it.

Time is not modelled. A time-out may fire whenever its branch looks at the clock,
except that under fairness a client that is still served does not have to give up.

### PicoNetLobby

State. `seats` is `local_state.host.clients`, `lobby` is `synced_state.lobby` on the
host and `seen[c]` on client `c`. A `client_id` is a pair of a board and a count,
since the code draws it from the clock and no two are equal. `starting` marks the
host between the two critical sections of `M_NetGameStart`, `host_roster` and
`roster[c]` are what a node starts its game with (`playeringame` and
`consoleplayer`), `overtaken` is history.

Actions. `PeriodicTick`, `HostReceive`, `HostReceiveShort`, `HostAbortInLobby`,
`HostAbortInGame`, `HostSeats`, `HostRefuses`, `HostPolledInVain` and `HostSent` are
the host's interrupt branches, each ending in the next transfer of the round
(`ReceiveAfter`, `SendAfter`); `HostKick` is the time-out in a game;
`HostReadLobby` and `HostStartGame` are `M_NetGameStart`; `HostRehost` is leaving the
lobby and opening another. `ClientJoin`, `ClientQuit`, `ClientDrop`, `ClientLaunch`
are the client's menus, `ClientReply` and `ClientReceive` its interrupt branches.

Compaction is the code's: `clients` and `players` move up over the seat that did not
answer, the last entry loses its identity and address but keeps its other fields,
and `client_num` steps back so that the seat that moved up is read next. A client
that has its connection dropped changes identity and address and resets the version
and status of its lobby, but not its player number.

Left out: the names and game settings carried in the lobby, and two clients that
draw the same address, where the outcome of both answering at once is electrical.
In a game the lobby model keeps what concerns seats (`heard`, aborts, kicks); the
tics themselves are `PicoNetGame`. The two fit together in `HostStart`: the game
model begins in the state in which the lobby model has every seat taken and every
client in it about to see the lobby started.

### PicoFrames

State. The two semaphores are their counts. `next` is the triple of `next_*` variables
that core 0 writes before it gives a frame, `display` what core 1 noted of them;
`picked` says that core 1 is between taking a frame and giving one back. `kept_tail`
is the part of `last_list_buffer_limit` that matters: whether it lies below the
tables of a wipe, the last 4096 bytes of the work area; `draws_tail` whether the
frame being drawn writes there. `pc0` is where core 0 stands:

    tics -> action -> ticker -> tics or frame -> draw -> tics, or frame in a wipe
            action -> pause -> parking -> write -> fadein -> action     (a save)
                      parking -> late -> write                          (timed out)
            action -> quit -> prompt

Actions. `PickUp` and `Note` are the two halves of `new_frame_stuff`, `MoveColumns` the
wipe part of what follows it. `BeginDraw` is `pd_end_frame` up to the drawing, with the
`wipe_start` that `D_Display` has computed, `EndDraw` the rest, with `M_Drawer`'s help
pages. `RunTic`, `ExtraFrame`, `LoadLevel`, `Completed`, `SaveGame`, `Quit`, `NoAction`
and `Ticker` are `RunTic` and `G_Ticker`, one step per turn of its loop; `ConfirmQuit`,
`ChooseGame` and `EndGame` are the menus, which `NetUpdate` may run between tics and in
the middle of a frame. The `Pause...` actions are the two waits of
`pd_start_save_pause` with their outcomes; `PauseLate` separates the second time-out
from what is taken back after it, so that core 1 may come in between.

Data. Game states, actions and `wipe_min` are folded to what the frames tell apart: the
finale is an intermission, `newgame` any action that loads a level after an extra
frame, `wipe_min` one of four ranges. `fading` is only kept for the fades that core 0
waits for, `old_video_type` and `wipe_min` only while they are used. The pixels, the
palette, the overlays (which alternate with every frame) and the scrolling finale are
left out, and no save command comes before the first frame: its menu must have been
displayed.

Time. A time-out of a pause may come whenever its condition does not hold. One thing is
assumed of the clock: core 1 looks for a frame once per vsync, so at most once between
the time-out of a pause and the statement after it.

### PicoStorage

State. `files` is the card's content, a file being absent, truncated or its content;
`bus` is what the driver knows of the card; `at` is where core 0 is in the one
operation that is under way, `op` the write it is doing. `setting` and `shadow` are
`doom_settings.c`'s, `shown` and `peek` the save menu's. `told` is history: what the
player was last told is saved.

Actions. `BootMount`, `LoadSettings`, `FlushSettings`, `PeekSlot`, `SaveGame`, `LoadGame`
and `Reboot` are the operations of core 0; a write is `OpenFile` (which truncates),
`WriteData`, `CloseFile` and, if any went wrong, `UnlinkFile`, because each of the four
FatFs calls can fail on its own. `Mount` is an operator with every outcome of
`doom_sd_mount`, back-off included. The player opens menus, saves, loads, clears a slot,
changes a setting and quits. The world pulls, inserts and exchanges the card, lets
accesses fail, fills or write-protects it, lets the back-off run out and cuts the power
between any two steps.

Data. A saved game and a settings record are one value each; a record the menus could
not have written (edited by hand, or of version 1) is clamped when it is applied. A read,
which leaves the card alone, is one step. Left out: the directory, whose `mkdir` result
the code ignores; the load of the WHD and the ENDOOM listing; a file too big for the
buffer; a header of another WAD.

Two things that show in the model and are not properties: after a transient failure a
"y" to clear a slot deletes nothing, and the menu shows all slots empty until the back-off
has passed (`m_menu.c:691`). The remark in `doom_settings.h` that a write pauses the
renderer describes an earlier version.

### PicoZone

State. The headers lie in memory: `size`, `tag`, `next`, `prev` and `user` are functions
of every address, also of those at which a merged block used to begin, whose headers the
code may still read; `live` says where blocks begin. `at`, `base`, `scan` and `start`
are the progress of `Z_Malloc`, `sweep` that of `Z_FreeTags`.

Actions. `Begin` is the request with the step back to a free predecessor, `Scan` one
block of the search with what it purges, `Take` the split and the new rover, `OutOfMemory`
the `I_Error`; `Free` is `Z_Free`, `ChangeTag` is `Z_ChangeTag`; `BeginSweep`, `SweepBlock`
and `EndSweep` are `Z_FreeTags`.

Data. Units are abstract; alignment is in `Sizes`, and the device's 16-bit sizes in units
of four are no narrower than its memory. The device build has no owners
(`NO_Z_MALLOC_USER_PTR`) and never a purgable block, so `Scan` purges and `OwnersRight`
concerns owners only in the desktop builds; the model has both. `Z_ChangeUser`, which
nothing calls, and dumps and checks are left out. One block that could be purged may
survive a panic: the one just behind the start of the search, which is `PanicHonest`'s
exception.

### PicoAudio and PicoSound

State. `slot`, `head` and `tail` are the ring, each packet two words; `push` and `irq` are
how far either core has come in its part; `burst` what is left of a mixed chunk, `place`
the mixer's place in the channel-status block, `heard` and `lost` history. On top of it a
channel has a sound, an origin and a voice with chunks left to play, and `mobj` says
which things are there.

Actions. `Push` is `hstx_push_audio_sample` in its loads and stores; the DMA interrupt
(`Line`) counts a line, takes a packet if one is due and the line has room, and copies
it. `UpdateSound` is `I_Pico_UpdateSound`, on either sink; `UpdateSounds` is
`S_UpdateSounds`, `StartSound` is `S_StartSound` with `S_GetChannel`; `SpawnMobj`,
`RemoveMobj`, `FreeMobj` and `SetupLevel` are what happens to things.

Data. Samples, encodings, the packet of silence, volume, separation and music are left
out. Core 0 is the only mixer in this build (a comment in `doom_leds.c:28` says
otherwise); the watermark is what the driver's CMakeLists sets, 224 of 256. Sounds are
started only on things that are alive, which holds of all callers by inspection.
`I_Pico_StopSound` is empty: a stopped channel's voice plays on to its end.

### PicoThinkers

State. An address is a number, and the address of a block is that of its first slot, as in
the code: `sp` is `sp_next` of every slot and of `thinkercap`, and holds the links of the
thinker list (slots in use) as well as those between partially full blocks (the highest
free slot of each). `free` is the bit set in the header's spare byte, `pool` is
`thinker_pool`, `prev` and `cur` are the walk's. `ran` is history.

Actions. `SpawnInNew`, `SpawnInPartial` and `SpawnPlain` are `Z_ThinkMallocImpl` (or
`Z_Malloc` for a door, a floor, a light) with `P_AddThinker`; `Remove` marks.
`StartWalk`, `Reap`, `Think`, `EndTurn` and `EndWalk` are `P_RunThinkers`, and between
`Think` and `EndTurn` the thinker's function spawns and removes what it likes. `Reap` and
`WipeOne` (the loop of `P_UnArchiveThinkers`) contain all of `Z_ThinkFree`: `FreePlain`,
`FreeSlot` or `FreeBlock`. `SetupLevel` is `Z_FreeTags` with `P_InitThinkers`.

Data. What thinkers do besides is left out; what lies in freed memory that nothing reads is
forgotten with its block. Blocks come from a heap with room for `NumBlocks`; which of
them it gives makes no difference, so it gives the first.

## 3. What TLC checks

`CHECK_DEADLOCK FALSE` everywhere: when the bound on tics, identities or versions is
reached, all players have left, or the text screen of a quit is up, the system may
really stop.

| Run | Instance | Shows |
|---|---|---|
| `game_two` | 2 nodes, ring of 3, 4 tics, all events, starts that go wrong included; 5.6 million states | `OneLog` (the game implements `TicLog`), `Lockstep`, `ResendIntact`, `CommandsInPlace`, `OwnCommandsKept`, `AckWindow`, `NeverAhead` |
| `game_live` | 2 nodes, ring of 3, 2 tics, time-outs, aborts, fairness | `Progress`, `Launched` |
| `game_start_refused` | 2 nodes, ring of 5 | violates `LockstepAlways` (finding 1) |
| `lobby_tables` | 3 seats, 2 clients, aborts and restarted rounds, 5 versions | `TablesAligned`, `SeatsDistinct`, `SeatsFixed` |
| `lobby_moves` | 2 seats, 2 clients with 2 identities each on 2 addresses, all events | `VersionNamesLobby`, `RosterAgreed`, `TypeOK` |
| `lobby_live` | 2 seats, a client with 3 identities on 3 addresses, transfers that are aborted, cut short or never end, 7 versions, fairness; 306,000 states | `Joined`, `StartSeen` |
| `frames` | two cores, two buffers, no bound on anything | `NoFrameLost`, `NoTear`, `ShownKept`, `FramesFlow`, `WipeEnds`, `QuitShown` |
| `storage` | 1 save slot, 2 games, 2 settings and an edited one, a card that may be exchanged; 800,000 states | `SavedKept`, `WholeUnlessCut`, `ShadowTrue`, `OneProbe`, `Recovers` |
| `zone` | a zone of 8 units, requests of 1 and 4, 2 owners; 1.4 million states | `HeapSound`, `PanicHonest`, `SweptClean`, `OwnersRight`, `RequestsEnd` |
| `sound` | ring of 3 with watermark 2, chunks of 2 packets, 4 places, 2 channels, 2 things, 3 sounds; 610,000 states | `SinkHears`, `NothingDropped`, `OriginsLive`, `ChannelsReturn` |
| `thinkers` | 2 blocks of 3 slots, 2 sizes and specials, 4 thinkers; 410,000 states | `ThinkersSound`, `ServesAll`, `Reclaimed` |
| `thinkers_pool` | the same | violates `PartialsListed` (finding 2) |

Properties of the game:

- `Lockstep`: what each node has run for a tic is what the host agreed for it.
- `ResendIntact`: every complete tic that a member lacks is still whole in the
  host's ring. The host keeps no other copy, and its loop squashes what it has run.
- `CommandsInPlace`, `OwnCommandsKept`: a complete tic holds the commands built for
  that tic; a node's own unrun commands survive whatever is received meanwhile.
- `AckWindow`: what the host and a client know of each other's tics never differs
  by more than one tic, whatever is lost or repeated.
- `NeverAhead`: the fatal errors of `TryRunTics` are unreachable.
- `OneLog`: refinement. `agreed` is the log; a complete tic never changes, and each
  node runs the log from its start without a gap.
- `Progress`, `Launched`: nobody waits for ever.

Properties of the frames:

- `NoFrameLost`: whatever a pause that gives up races with, at least one frame stays
  in the handshake, and at most two.
- `NoTear`: core 0 never draws a level into the buffer that core 1 displays of it.
- `ShownKept`: what core 1 displays keeps what it is drawn from. The tables of a wipe
  outlive its last displayed frame (`TailKept`): the code takes the lower limit of two
  frames for this; one is not enough. A paused save is written while core 1 displays the
  "saving" frame, which needs neither flash nor work area (`SaveParked`).
- `FramesFlow`, `WipeEnds`, `QuitShown`: core 0 gets a frame again and again; a wipe ends
  (unless help stays up); a confirmed quit reaches the text screen unless another choice
  replaces it or the demo loop was about to move on, which clears it.

`NoTear` and `ShownKept` are stated while exactly one frame is under way
(`InStep`). A pause that gives up at the moment at which core 1 picks its frame up
leaves two from then on: the comment at `pd_render.cpp:3055` expects this and relies on
the semaphores' maximum, which is 2, so the second one stays. From then on core 0 may
draw one frame ahead of what core 1 has noted, and a pause no longer knows that core 1
is parked.

Properties of the storage:

- `SavedKept`: a game that the player was told is saved is on the card, whole, until it
  is replaced or cleared, whatever fails afterwards.
- `WholeUnlessCut`: unless a write was cut off by the power or the card, no truncated file
  stays and no game is loaded from one.
- `ShadowTrue`: what `doom_settings.c` believes of its file is so, unless a write of it
  failed or the card was exchanged.
- `OneProbe`, `Recovers`: a missing card is probed once per back-off, however many ask,
  and one that is put in is found.

Properties of the zone heap:

- `HeapSound`: blocks tile the memory, their list is sound in both directions, no two
  free ones touch, and neither the rover nor a search points at a header that is gone.
- `PanicHonest`: `Z_Malloc` gives up only if nothing fits and nothing can be purged.
- `SweptClean`: after `Z_FreeTags` nothing of the level is left, though the link it took
  may lead to a block that has been merged away.
- `OwnersRight`, `RequestsEnd`: owners' pointers are right; every search comes to an end.

Properties of the sound:

- `SinkHears`: each packet reaches the screen once, whole, in the order of the
  channel-status block, with no lock between the cores.
- `NothingDropped`: no packet of a mixed chunk finds the ring full.
- `OriginsLive`: no channel points at a thing that has been removed or freed.
- `ChannelsReturn`: every channel comes back, whichever sink is in use.

Properties of the thinkers:

- `ThinkersSound`: two lists that share one field stay sound: the thinker list goes
  through every slot in use once and ends at `thinkertail`; a list of partially full blocks
  ends and holds only such blocks, of its size.
- `ServesAll`: every walk serves every thinker once, those spawned during the walk too.
- `Reclaimed`: a removed thinker is freed in the end, so every walk ends.

Why these bounds are enough. With a ring of two slots no tic ever runs, because a
tic is run only when the next one is complete; three is the smallest ring in which
the game moves, and four tics make the ring wrap, so that each rule that keeps a
slot from being overwritten too early is exercised: the mutants that widen the
window or the room of `BuildNewTic` by one are caught in this instance. A third node
is needed for a tic that one client has and another lacks, and for removals of two
members in one call: three nodes with kicks, two tics and the same ring were checked for
`OneLog` too (`NetMaxPlayers = 3`, `MaxTic = 2`, `MaxLeft = 0`, `Events = {"kick"}`: a million
states; it is not a run), and the proofs below cover all sizes. In `game_live` two tics
never fill the ring, so what its nodes wait for is each other, the bus and the time-outs;
that a node held up by a full ring goes on as well was checked with `MaxTic = 4` and no
events (26,000 states; not a run either).
In the lobby three seats are needed for a seat to move up over another
(`lobby_tables`), two clients for two contenders for one seat or one address
(`lobby_moves`), and two identities for one to be stale. Five versions allow two
joins, an abort and a start, or a join, an abort, a second join and a start. In
`lobby_live` a client has three identities and the versions suffice for it to be seated,
dropped and seated again under a new one. The same two properties were checked with an
incompatible client beside a client of one identity (aborts, 5 versions; not a run).
`frames` needs no bound: the handshake is finite as it is.
In `storage` files do not affect one another except through the settings and the mount,
so one save slot beside the settings file is enough for a failure of one to meet the
other; two games tell an old save from a new one. In `zone` the memory holds four
smallest blocks, the least at which a block with two neighbours can be merged on either
side while a search that began elsewhere is under way; the request of 4 must purge or
merge several. In `sound` the ring is one larger than a chunk, so that a chunk is held
back; four places are more than the ring, so that an overwritten packet shows; two
channels and three sounds allow an eviction, and a thing in a place that was freed. In
`thinkers` blocks have three slots, since with two the highest free slot never moves, and
four thinkers fill one block and begin another, so that a list of two blocks exists; a
third would only make it longer.

`Clean`. Two ways in which the start of a game goes wrong are findings (below).
`Spec` includes them, and the properties of the game are stated under `Clean`, that
neither has happened; `TicLog` has a variable `binds` for the same purpose: its promise may
be given up, once and for all, and `Clean` is what `binds` is mapped to. Nothing else is
assumed.

Fairness. In `frames`: core 1 comes back at every vsync, and core 0 does not stop; the
columns of a wipe move whenever they are displayed often enough; `TryRunTics` gives up
only when no tic is due, so tics do run again and again (strong fairness of `RunTic`),
and it runs a few of them, not arbitrarily many, before it lets a frame be drawn. The
menus, help and saving are never required to happen. In the game: the main loop of a node that is switched on runs (weak
fairness of its steps), the timer fires, and a transfer with a client on the bus
does not fail for ever (strong fairness, since an abort or a restarted round may
disable it again and again); a transfer with nobody is aborted by the hardware; a
client that is never served again finds its time-out expired, because nothing
refreshes `last_rx_time`. In the lobby the same, without the time-outs: joining,
quitting, losing the connection and pressing start are never required to happen.
In `storage` core 0 goes on with what it has begun and the back-off runs out; the player and the card are never required
to do anything (`Recovers` is stated for a card that behaves from some time on and a
player who keeps looking). In `zone` a request or sweep that has begun goes on. In
`sound` lines follow one another and a push goes on; `S_UpdateSounds` is called every
frame, and the mixer is called again and again, for the sink in use (strong fairness: in
between, the ring may be full). In `thinkers` the loops run on and walks begin again and
again (strong fairness, since a level may be loaded in between; `G_Ticker` goes on to
`P_Ticker` in the tic that loads, and pauses end); spawning, removing and loading are
never required. The code justifies this: `periodic_tick` re-arms its own alarm, each interrupt
branch ends by starting the next transfer, and a client's reply is composed by its
interrupt handler whatever its main loop does.

## 4. Findings

Runs that TLC must find violated:

1. *A refused first tic breaks lockstep* (`game_start_refused`). A client's
   `limit_tic` is 0 until its first `piconet_maybe_recv_tic`. If host tic 0 comes
   before it (`D_Display` calls `NetUpdate` between the menu and `TryRunTics`), the
   tic is dropped by the branch marked "probably should not happen!", but its
   acknowledgement has been taken; client and host then go on, the host squashes
   the slot it still has to send again, and the client runs other commands.
2. *The pool forgets partially full blocks* (`thinkers_pool`). `Z_ThinkMallocImpl` clears
   the slot it hands out (`p_tick.c:275`) before it reads the link to the next partially
   full block from it (`p_tick.c:284`), which it must when the slot was the block's last.
   So when the first block of the list becomes full, all the others drop off the list. Nothing
   breaks (`ThinkersSound` holds), but their free slots are not used again until the whole
   block is free, and the zone heap loses up to seven slots of eight in each.

Not runs, but definitions of the `MC` modules that TLC finds violated with the constants
given:

3. *A stale player number starts a game* (`PlayerNumberRight`: one client with two
   identities, three addresses, event `abort`). A client whose connection dropped takes a
   new identity and resets its lobby (`piconet.c:745`), but not its player number. If the
   host has started meanwhile, the newcomer is told that the game has already started, and
   `M_DrawNetFoyer`, which is to show that text unless the player number is positive
   (`m_menu.c:1350`), starts the game with the old number.
4. *A tic runs before it is complete* (`RunOnlyComplete`: two nodes, `MaxLeft = 1`).
   `d_loop.c:72` says that a gametic cannot be run until ticcmds are received for it from
   all players. `TryRunTics` decides how many tics to run and then calls `NetUpdate` inside
   its loop. If the start key is handled there, the counters are reset under the loop,
   which goes on to run tic 0 of the new game.
5. *Versions of two lobbies are confused* (`StartIsSent`: three seats, two clients with
   two identities, event `rehost`). Every lobby counts its versions from 1; a client that
   has not noticed the change of host acknowledges an old version, and a started lobby with
   that number is not sent to it.
6. *The start can be overtaken* (`SamePlayers`: one client, no event). The host reads the
   lobby and starts the game in two critical sections; a client seated in between is in
   the lobby the clients see but not in the host's game.
7. *A card that is put in late has its settings overwritten* (`DefaultsNotWritten`, with
   the constants of `storage`). `doom_settings.h:31` promises that nothing is written until
   something changes. Without a card at boot the shadow is invalid, and the flush after the
   first menu that closes (`doom_settings.c:168`) writes the compiled-in defaults over the
   file of the card that was put in meanwhile.
8. *A stopped sound plays on* (`StoppedIsSilent`, with the constants of `sound`).
   `I_Pico_StopSound` is empty, and `S_StopChannel` frees the channel all the same; its
   voice is heard to the end, or until the channel is given another sound.
9. *A reset behind the table* (`ClientNumInBounds`: event `abort`). `abort_count` of
   `clients[client_num]` is cleared before the protocol state is checked
   (`piconet.c:412`). A lost client that still thinks itself in the game and is polled
   answers with a tic message when `client_num` is `NET_MAXPLAYERS` (history variable
   `stray`).

## 5. What is proved

TLAPS proves, for every value of the constants that satisfies the assumptions:

| Theorem | Statement | Assumptions |
|---|---|---|
| `TypeCorrect`, `Invariant` | `Spec => []TypeOK`, `Spec => []IInv` | `PlayersAssumption`, `RingAssumption`, `BoundsAssumption` of `PicoNetGame` |
| `LockstepHolds`, `AckWindowHolds`, `NeverAheadHolds`, `ResendIntactHolds`, `OwnCommandsStay`, `AgreedCommands` | `Spec => []P` for `Lockstep`, `AckWindow`, `NeverAhead`, `ResendIntact`, `OwnCommandsKept` and `Clean => CommandsInPlace` | the same |
| `OneLogHolds` | `Spec => OneLog` | the same |
| `LobbyTyped`, `ListsStayAligned`, `NobodySeatedTwice`, `VersionsAreExact`, `GameStartsAlike`, `SeatsStayFixed` | `TypeOK`, `TablesAligned`, `SeatsDistinct`, `VersionNamesLobby`, `RosterAgreed`, `SeatsFixed` of the lobby | `ClientsAssumption`, `SeatsAssumption`, `AddrAssumption`, `BoundsAssumption` of `PicoNetLobby` |
| `StorageTyped`, `SavedGamesKept`, `FilesWhole`, `ShadowIsTrue`, `ProbedOnce` | `TypeOK`, `SavedKept`, `WholeUnlessCut`, `ShadowTrue`, `OneProbe` | `StorageAssumption` |
| `HeapStaysSound`, `OwnersStayRight`, `PanicStaysHonest`, `SweepsClean` | `HeapSound`, `OwnersRight`, `PanicHonest`, `SweptClean` | `ZoneAssumption` |
| `EveryStepCounts` | every step of a request or a sweep lowers `WorkLeft`, which is in `0 .. End + 1` | `ZoneAssumption` |
| `SinkAlwaysHears`, `NothingIsDropped` | `SinkHears`, `NothingDropped` | `AudioAssumption` |
| `OriginsStayLive` | `OriginsLive` | `SoundAssumption` |
| `RingIsAQueue` | `Spec => OneQueue`: the ring implements `PacketQueue` | `AudioAssumption` |
| `FramesNeverLost`, `LevelNeverTorn`, `DisplayKeepsItsData` | `NoFrameLost`, `NoTear`, `ShownKept` | none |
| `OnlyLatePausesAdd`, `InStepUntilTooLate`, `SomeoneHasAFrame` | what changes the number of frames in the handshake, what holds if that never happens, and that core 0 never waits in vain | none |
| `ThinkersStaySound`, `EveryThinkerServed` | `ThinkersSound`, `ServesAll` | `ThinkersAssumption` |
| `WalksFreeTheRemoved` | no removed thinker has a turn, and at the end of a walk all that is in use has had one in it | `ThinkersAssumption` |

`MaxTic`, `MaxSeq` and `MaxStarts` are arbitrary, so the bounds that TLC needs are no
restriction. TLC has checked each inductive invariant on the instances above before it
was proved. Adding its name (`IInv`, `Cells`, `LobbyInv`, `StorageInv`, `ZoneInv`,
`ProgressInv`, `AudioInv`, `ChannelInv`, `FramesInv`) to a configuration that takes the module
with the proofs checks it again. The sequences in `ThinkersInv` range over all functions on
the addresses; TLC was given those that the links themselves lay out, for two blocks of three
slots and for three blocks of two, with one size and three thinkers.

### The game

The argument. `Lockstep` is not inductive: it says nothing of what is in a slot or
in a message, nor why a slot still holds what it should. `IInv` adds both.

*Counters.* For a member `c`, write C for `last_complete_tic`, S for the last tic that
`c` has sent to the host, A for the last that the host knows `c` to have received, R
for the last that `c` has received, K for the last of its own that `c` knows to be
acknowledged, L for its last local tic. Then `C <= S <= C+1`, `S <= A+1`,
`A <= R <= C`, `K = R <= L`; a reply on its way carries an R between A and the
present one and the command after it; a message on its way carries R or R+1. So a
client that gets tic R+1 has been acknowledged exactly R+1 of its own, which is why
one counter suffices for both directions. `K = R` is where `Clean` is needed: the
refused tic of finding 1 moves K without R.

*Data.* The host's slots of the tics from `gametic` to C hold what was agreed; so do a
client's from `gametic` to R, and so does every message. Two tics less than a ring
apart never share a slot (`SlotDistinct`), and `limit_tic` and the room test of
`BuildNewTic` keep every write less than a ring ahead of `gametic`; so a write to a
slot either is of the same tic or hits none that is still needed.

`PicoNetGameProofs` has one lemma per action (`...Keeps`), each with one step per
part of the invariant that the action disturbs; `Advance` and `AdvanceKeeps` carry the completion of tics, in which members are removed,
slots are flagged and the log grows in one step. `NextInvariant` joins them.

*Cells* (`PicoNetGameCommands`) follows one command through the system: a node's own lie
in its ring, unsquashed, from `gametic` to `maketic`; what a client has sent for a tic that
is not complete lies in the host's ring, inside the window; a message carries its
sender's own command for the tic it names; a complete tic has the command of everybody
who was a member, built for that tic. From this and `IInv` follow `OwnCommandsKept`,
`CommandsInPlace` and the refinement: a step that completes tics is `TicLog`'s `Decide`, a
tic run by a connected node its `Run`, the two ways in which a start goes wrong are its
`GivenUp`, and everything else stutters. It must be possible to give up: after finding 1 a
client's run is no prefix of the log.

### The lobby

`LobbyInv` adds to the properties what makes them inductive: which identities have ever
been used (`AllKnown`; a new one is never an old one), that a seat and the board it was
given to share an address until the board drops it (`Placed`), that the polled address
is nobody's seat (`Polled`), where the round stands relative to the table (`Cycle`), and
that a copy of the lobby, on a client or on its way, with the current version is the
current lobby (`Informed`). Once a game has begun its lobby does not change and is not left
(`Begun`, `Left`), which is why seats stay. A seat that moves up is the one case in which
both tables, the round and the versions change in one step (`WithoutSeat`).

### Storage, heap, sound

*Storage.* `StorageInv` adds where core 0 stands in a write and what it was asked for
(`Sorted`), that nobody is told of a game before its file is closed (`Untold`), that only a
cut write makes garbage (`NoGarbage`), and that a failed mount arms the back-off, which
counts the probes (`Armed`, `Fresh`).

*Heap.* `ZoneInv` is `HeapInv` (types, tiling, no two free neighbours, rover, owners) with
what holds while a search or a sweep stands in the middle of the list: the pieces between
`base` and `scan` are free and merged (`SearchSound`), and a sweep stands at a block or at a
header just merged into a free block before it, whose link still leads on (`SweepSound`).
`FreeBlockSound` does the four ways in which a block merges with its neighbours.

`ProgressInv` says how far a search and a sweep have come. The way round the list from the
block behind the start is a line (`Along`), a link leads to the next block on it and over
none (`Round`), and a search purges into the block it stands on (`PurgeAtBase`); so what lies
behind it would not have done (`PassedUseless`), and when it is back at its start everything
lies behind it. What is left of a level lies ahead of the sweep (`RestAhead`), and if the
sweep stands on a header that has just been merged, nothing of the level was merged with it.
`WorkLeft` is the way that is left: it falls with every step, whatever is purged or merged,
so all that `RequestsEnd` needs besides is that a step is possible and is taken.

*Sound.* `Chain`: the packets in the ring follow one another, after the one the screen heard
last and before the one being made; `Copying`, `Handing`: what either core has read or
written so far is of the packet at its index; `Room`: there is room in the ring for what is
left of a chunk. The refinement (`RingIsAQueue`) says when a packet changes hands, though
neither core ever holds a lock: it is in the queue from the store of the new head, when
both its words are written, to the copying of its second word. Core 1 gives the slot up
before it copies it, so a packet that is being copied still counts (`InFlight`) though
`tail` has passed it; therefore the queue holds one more than the watermark. `Chain` says that the
contents are whole and follow one another (`ContentsIs`); a store of `head` appends
(`PublishPuts`), the second word takes the first of them away (`ReadSecondTakes`), all
other steps leave them as they are. TLC has checked `OneQueue` on the instance of `sound`.

`ChannelInv` says that no thing has two channels, which is why it
suffices that `S_StopSound` stops the first it finds.

### Frames and thinkers

*Frames.* The model has no constants, so TLC's run covers all of it; the proof shows why it
holds. `CountSound`: every step moves a permit or keeps it, but for a pause that is given up
with `render_frame_ready` at 0, and then there was one permit and there are two. With two,
a pause that is about to be given up still finds its own, so there are never three. While
there is one, core 0 can only take it when core 1 displays what was handed over last
(`HandoverSound`; parked on the frame of a pause, core 1 is to display what `next` will be
again). What that is follows from the wipe and the help pages (`TypesSound`): a level is drawn
over without a change of buffers only in a wipe or in help, and then the type on display is
not "double"; the work area's end is drawn over only when no wipe is on display. So once a
pause has been given up too late, only the count is left; `InStepUntilTooLate` says that it
takes such a pause, and `OnlyLatePausesAdd` that nothing else adds a frame.

*Thinkers.* `ThinkersSound` follows links, which says nothing of the links after a step.
`ThinkersInv` says instead that there is a sequence in which the list goes through all
thinkers in use (`InOrder`), that the walk stands at a place of it with its turns given
before that place (`Standing`), and that for each size there is a sequence of blocks that the
pool's links go through (`Partials`). Then a thinker that is added is put at the end, one that
is reaped is taken out at the place of the walk, a block that gets its first free slot is put
in front, one that empties is taken out wherever it is, and a block that fills up cuts the
sequence off (finding 2), which leaves a sequence. The two lists share a field, but not a slot:
a link of the one lies in a slot in use, of the other in a free one (`LinkSlot`), so a step
that changes one list leaves the other's links alone, except where a slot changes hands.
That the links followed n times are the n-th place of the sequence (`SameWalk`) is the
induction that ties this to `ListSound` and `PoolSound`; it goes by the least number for
which it fails.

Only model-checked: all liveness (`Progress`, `Launched`, `Joined`, `StartSeen`, `FramesFlow`,
`WipeEnds`, `QuitShown`, `Recovers`, `RequestsEnd`, `ChannelsReturn`, `Reclaimed`), since
TLAPS 1.4.5 proves nothing of ENABLED and so of fairness; for `FramesFlow`, `RequestsEnd`
and `Reclaimed` the theorems above have the safety half.

## 6. Not modelled, and why

- *Event queue and input* (`d_event.c`, `i_input.c`, `i_usbhid.cpp`). One loop fills and
  empties the ring of eight; whether a ninth event can be pending depends on how many
  reports the USB stack delivers in one poll, which is not in this code.
- *Doors, lifts, crushers, lights.* Each is a small machine that runs once per tic and meets
  the others only through the heights of a sector. The thinkers that run them, with their
  removal, are in `PicoThinkers`.
- *Music, fades, volume, ADPCM*: arithmetic on samples.
- *What is in a saved game* (`p_saveg.c`): data, written and read in one order by one
  thread; only the freeing of the old thinkers is modelled.
- *Boot, WHD load, quit and reboot*: a straight line of device set-up with one error screen
  per failure. The mount at boot, the text screen and the flush on the way out are in
  `PicoStorage` and `PicoFrames`.
- *Renderer and play simulation*: geometry and a large deterministic function of the
  commands; lockstep needs only that it is one.
- *Inherited code*: Heretic, Hexen, Strife, set-up, the network stack of Chocolate Doom,
  the SDL back ends and the WHD generator are not in the device build, and most of the
  repository's lines are theirs; FatFs, the USB stack and the drivers other than the
  data-island queue are third party.

What would come next, were the system to grow: the safety halves of the remaining liveness
properties, and the pad polling of `i_input.c` with a model of the USB stack's reports.
