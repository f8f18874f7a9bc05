----------------------------- MODULE PicoNetGame -----------------------------
(***************************************************************************)
(* The in-game half of the I2C network (src/src/pico/piconet.c) together   *)
(* with the tic loop that uses it (src/src/d_loop.c).                      *)
(*                                                                         *)
(* Player 0 is the host and the I2C bus controller.  Every 10 ms it polls  *)
(* its clients for ticcmds, and sends each of them the next tic it lacks.  *)
(* A tic is complete when every player still in the game has sent its      *)
(* command for it.  Every node runs the tics in order out of ticdata, a    *)
(* ring of BACKUPTICS slots that the main loop and the interrupt handlers  *)
(* share: the main loop writes its own commands, runs and squashes slots;  *)
(* the handlers fill slots from messages and send messages from slots.     *)
(*                                                                         *)
(* The model starts when the host's menu starts the game that all players  *)
(* have joined.  A command is the number of the tic it was built for: all  *)
(* that the properties tell apart.  Each command is taken to carry what    *)
(* TicdupSquash clears (a chat character or a special button).             *)
(* Time-outs are nondeterministic: a node may find 100 ms gone at any      *)
(* look at its clock.                                                      *)
(***************************************************************************)
EXTENDS Integers, FiniteSets

CONSTANTS
  NetMaxPlayers,   \* NET_MAXPLAYERS, all seats taken
  BackupTics,      \* BACKUPTICS, the size of the ring (5 in the tiny build)
  AbortMax,        \* IN_GAME_CLIENT_ABORT_MAX
  MaxTic,          \* bound of the model: tics 0 .. MaxTic-1 are built
  MaxLeft,         \* bound of the model: tics that TryRunTics may still owe
                   \* when the start key is handled
  Events           \* bound of the model: which of these can happen at all

\* leave: a player quits or is switched off; timeout: a client gives the host
\* up; kick: the host gives a client up; solo: a node that dropped out plays
\* on alone; short, abort, restart: a transfer is cut short, is not answered,
\* or is still under way at the next periodic tick.
AllEvents == {"leave", "timeout", "kick", "solo", "short", "abort", "restart"}

ASSUME PlayersAssumption == NetMaxPlayers \in Nat /\ NetMaxPlayers >= 2
ASSUME RingAssumption    == BackupTics \in Nat /\ BackupTics >= 2
ASSUME BoundsAssumption  == /\ AbortMax \in Nat
                            /\ MaxTic \in Nat \ {0}
                            /\ MaxLeft \in Nat
                            /\ Events \subseteq AllEvents

Players == 0 .. NetMaxPlayers - 1
Host    == 0
Clients == Players \ {Host}
Tics    == 0 .. MaxTic - 1
Slots   == 0 .. BackupTics - 1
None    == -1              \* "no tic yet" and "no tic enclosed"
TicOrNone == Tics \cup {None}

Blank    == -1             \* a command never written
Squashed == -2             \* a command after TicdupSquash
Absent   == -3             \* in a tic's content: the player is not in it

(***************************************************************************)
(* A ticcmd_t in a slot, a whole slot (ticcmd_set_t), and what a slot      *)
(* means to the game: the commands of the players flagged in the game.     *)
(***************************************************************************)
Cell    == [cmd : Tics \cup {Blank, Squashed}, ingame : BOOLEAN]
TicSet  == [Players -> Cell]
NoCell  == [cmd |-> Blank, ingame |-> FALSE]
NoSet   == [q \in Players |-> NoCell]
SlotOf(t) == t % BackupTics
Content(set) == [q \in Players |-> IF set[q].ingame THEN set[q].cmd ELSE Absent]

UpMsg == [kind : {"none", "lobby", "tic"}, rx : TicOrNone, enclosed : TicOrNone,
          cell : Cell]
DownMsg == [kind : {"none", "lobby", "tic"}, ack : TicOrNone, enclosed : TicOrNone,
            cmds : TicSet]
NoUp     == [kind |-> "none", rx |-> None, enclosed |-> None, cell |-> NoCell]
LobbyUp  == [NoUp EXCEPT !.kind = "lobby"]
NoDown   == [kind |-> "none", ack |-> None, enclosed |-> None, cmds |-> NoSet]
LobbyDown == [NoDown EXCEPT !.kind = "lobby"]

VARIABLES
  \* host_state_t
  protocol_state,    \* "recv", "poll", "send", "end"
  client_num,        \* the client the host is talking to
  member,            \* players whose clients[i].id is not 0
  last_complete_tic, \* highest tic with data from all members
  host_limit_tic,
  last_sent,         \* clients[i].last_sent_by_client_tic
  last_acked,        \* clients[i].last_acked_by_client_tic
  abort_count,
  \* client_state_t
  last_server_acked,
  last_local,
  last_received,     \* last_received_from_server_tic
  client_limit_tic,
  \* the bus
  up,                \* the reply being read from clients[client_num]
  down,              \* per client: the message not yet handled
  \* the tic loop of each node
  mode,              \* "lobby", "launch", "game", "left"
  connected,         \* net_client_connected
  maketic, recvtic, gametic,
  counts,            \* tics TryRunTics has still to run
  announcing,        \* in BuildNewTic, before piconet_new_local_tic
  ticdata,
  \* history
  agreed,            \* the content of each complete tic
  ran,               \* per node: the content of each net tic it ran
  refused,           \* a client had no room for a tic it was due
  midLoop,           \* the game was started inside TryRunTics' run loop
  stray              \* abort_count was written for a client_num off the end

hostVars   == <<member, last_complete_tic, host_limit_tic, last_sent, last_acked,
                abort_count>>
cycleVars  == <<protocol_state, client_num>>
clientVars == <<last_server_acked, last_local, last_received, client_limit_tic>>
loopVars   == <<mode, connected, maketic, recvtic, gametic, counts, announcing>>
flagVars   == <<refused, midLoop, stray>>
vars == <<hostVars, cycleVars, clientVars, loopVars, flagVars, up, down, ticdata,
          agreed, ran>>

\* BuildNewTic has seen room for the tic it is announcing.
BuildBound == \A p \in Players : announcing[p] => maketic[p] < MaxTic

TypeOK ==
  /\ protocol_state \in {"recv", "poll", "send", "end"}
  /\ client_num \in 1 .. NetMaxPlayers
  /\ protocol_state \in {"recv", "send"} => client_num \in Clients
  /\ member \in SUBSET Players
  /\ last_complete_tic \in TicOrNone
  /\ host_limit_tic \in Nat
  /\ last_sent \in [Players -> TicOrNone]
  /\ last_acked \in [Clients -> TicOrNone]
  /\ abort_count \in [Clients -> Nat]
  /\ last_server_acked \in [Clients -> TicOrNone]
  /\ last_local \in [Clients -> TicOrNone]
  /\ last_received \in [Clients -> TicOrNone]
  /\ client_limit_tic \in [Clients -> Nat]
  /\ up \in UpMsg
  /\ down \in [Clients -> DownMsg]
  /\ mode \in [Players -> {"lobby", "launch", "game", "left"}]
  /\ connected \in [Players -> BOOLEAN]
  /\ maketic \in [Players -> Nat]
  /\ recvtic \in [Players -> Nat]
  /\ gametic \in [Players -> Nat]
  /\ counts \in [Players -> Nat]
  /\ announcing \in [Players -> BOOLEAN]
  /\ BuildBound
  /\ ticdata \in [Players -> [Slots -> TicSet]]
  /\ refused \in BOOLEAN /\ midLoop \in BOOLEAN /\ stray \in BOOLEAN

Init ==
  /\ protocol_state = "end" /\ client_num = NetMaxPlayers
  /\ member = Players
  /\ last_complete_tic = None
  /\ host_limit_tic = 0
  /\ last_sent = [p \in Players |-> None]
  /\ last_acked = [c \in Clients |-> None]
  /\ abort_count = [c \in Clients |-> 0]
  /\ last_server_acked = [c \in Clients |-> None]
  /\ last_local = [c \in Clients |-> None]
  /\ last_received = [c \in Clients |-> None]
  /\ client_limit_tic = [c \in Clients |-> 0]
  /\ up = NoUp
  /\ down = [c \in Clients |-> NoDown]
  /\ mode = [p \in Players |-> "lobby"]
  /\ connected = [p \in Players |-> FALSE]
  /\ maketic = [p \in Players |-> 0]
  /\ recvtic = [p \in Players |-> 0]
  /\ gametic = [p \in Players |-> 0]
  /\ counts = [p \in Players |-> 0]
  /\ announcing = [p \in Players |-> FALSE]
  /\ ticdata = [p \in Players |-> [s \in Slots |-> NoSet]]
  /\ agreed = << >>
  /\ ran = [p \in Players |-> << >>]
  /\ refused = FALSE /\ midLoop = FALSE /\ stray = FALSE
-----------------------------------------------------------------------------
(***************************************************************************)
(* Helpers.                                                                *)
(***************************************************************************)
Lesser(a, b) == IF a < b THEN a ELSE b

\* limit_tic: the tic from which on a node has no slot for received commands,
\* when it has counted the tics before recv as received.
WindowTooBig(recv) == recv + BackupTics
WindowTooSmall(recv) == recv + BackupTics - 2
WindowEnd(recv) == recv + BackupTics - 1

\* BuildNewTic never goes more than this ahead of the game.
RoomAtLimit(p) == maketic[p] - gametic[p] <= Lesser(8, BackupTics)
HasRoom(p) == maketic[p] - gametic[p] < Lesser(8, BackupTics)

\* SinglePlayerClear and TicdupSquash of a slot.
ClearAll(p, set) == [i \in Players |-> [set[i] EXCEPT !.ingame = FALSE]]
OnlyLocal(p, set) == [i \in Players |-> [set[i] EXCEPT !.ingame = @ /\ i = p]]
TicdupSquash(set) == [i \in Players |-> [set[i] EXCEPT !.cmd = Squashed]]

\* The I2C interrupts of p are on: piconet_stop has not run since it joined.
OnBus(p) == mode[p] \in {"lobby", "launch"} \/ (mode[p] = "game" /\ connected[p])
HostOnBus == mode[Host] = "game" /\ connected[Host]
InLoop(p) == mode[p] = "game" /\ ~announcing[p]
SomeSent(m, sent, t) == \E i \in m : sent[i] >= t
AllSent(m, sent, t) == \A i \in m : sent[i] >= t

\* Membership of tic t when host_check_tic_advance_locked runs once after each
\* of the kicked players is removed, in the order of their numbers: a kicked
\* player is still in t if the removals before it already completed t.
MembersAt(t, kicked, sent) ==
  {i \in member : i \in kicked =>
     \E j \in kicked : j < i /\ AllSent(member \ {k \in kicked : k <= j}, sent, t)}

\* host_check_tic_advance_locked, run after the removal of the kicked players,
\* on the commands received in "sent" and the slots "slots".
CheckTicAdvance(kicked, sent, slots) ==
  /\ member' = member \ kicked
  /\ \E n \in last_complete_tic .. MaxTic - 1 :
       LET done == last_complete_tic + 1 .. n
           flagged(s, i) == \E t \in done : SlotOf(t) = s /\ i \in MembersAt(t, kicked, sent)
           filled == [s \in Slots |->
              IF \E t \in done : SlotOf(t) = s
              THEN [i \in Players |-> [slots[s][i] EXCEPT !.ingame = flagged(s, i)]]
              ELSE slots[s]]
       IN /\ n > last_complete_tic => AllSent(member \ kicked, sent, n)
          /\ ~ AllSent(member \ kicked, sent, n + 1)
          /\ last_complete_tic' = n
          /\ ticdata' = [ticdata EXCEPT ![Host] = filled]
          /\ agreed' = [t \in 0 .. n |-> IF t \in done THEN Content(filled[SlotOf(t)])
                                         ELSE agreed[t]]

\* host_advance_protocol_state_locked looks for the next client after k, first
\* to receive from, then to send to.
NotBefore(k, m) == {c \in m : c >= k}
Following(k, m) == {c \in m : c > k}
IsFirst(c, s) == c \in s /\ \A d \in s : c <= d

ReceiveAfter(k, m) ==
  \/ /\ Following(k, m) = {}
     /\ protocol_state' = "poll" /\ client_num' = NetMaxPlayers
  \/ \E c \in Following(k, m) :
       /\ IsFirst(c, Following(k, m))
       /\ protocol_state' = "recv" /\ client_num' = c

\* The message for c: the lobby until c's first tic, then the next complete tic
\* that c has not acknowledged.
NoLobbyMsg(c) ==
  IF last_sent[c] = None THEN [LobbyDown EXCEPT !.kind = "none"]
  ELSE [kind |-> "tic", ack |-> last_sent[c], enclosed |-> None, cmds |-> NoSet]
EarlyMsg(c) ==
  IF last_sent[c] = None THEN LobbyDown
  ELSE [kind |-> "tic", ack |-> last_sent[c], enclosed |-> last_sent[c],
        cmds |-> ticdata[Host][SlotOf(last_sent[c])]]
HostMsg(c) ==
  IF last_sent[c] = None THEN LobbyDown
  ELSE IF last_acked[c] < last_complete_tic
  THEN [kind |-> "tic", ack |-> last_sent[c], enclosed |-> last_acked[c] + 1,
        cmds |-> ticdata[Host][SlotOf(last_acked[c] + 1)]]
  ELSE [kind |-> "tic", ack |-> last_sent[c], enclosed |-> None, cmds |-> NoSet]

SendAfter(k) ==
  \/ /\ Following(k, member) = {}
     /\ protocol_state' = "end" /\ client_num' = NetMaxPlayers
     /\ UNCHANGED down
  \/ \E c \in Following(k, member) :
       /\ IsFirst(c, Following(k, member))
       /\ protocol_state' = "send" /\ client_num' = c
       /\ down' = [down EXCEPT ![c] = HostMsg(c)]
-----------------------------------------------------------------------------
(***************************************************************************)
(* Starting the game.                                                      *)
(***************************************************************************)

\* M_NetGameStart on the host, called by ProcessEvents inside BuildNewTic,
\* which then goes on to build tic 0.  BuildNewTic may have been called by the
\* NetUpdate inside TryRunTics' run loop, with "left" tics still to run.
HostStart ==
  /\ mode[Host] = "lobby"
  /\ \E left \in 0 .. MaxLeft :
       /\ counts' = [counts EXCEPT ![Host] = left]
       /\ midLoop' = (midLoop \/ left > 0)
  /\ mode' = [mode EXCEPT ![Host] = "game"]
  /\ connected' = [connected EXCEPT ![Host] = TRUE]
  /\ announcing' = [announcing EXCEPT ![Host] = TRUE]
  /\ maketic' = [maketic EXCEPT ![Host] = 0]
  /\ recvtic' = [recvtic EXCEPT ![Host] = 0]
  /\ gametic' = [gametic EXCEPT ![Host] = 0]
  /\ ticdata' = [ticdata EXCEPT ![Host][SlotOf(0)][Host] = [cmd |-> 0, ingame |-> TRUE]]
  /\ UNCHANGED <<hostVars, cycleVars, clientVars, up, down, agreed, ran, refused, stray>>

\* M_DrawNetFoyer on a client that has seen lobby_game_started, outside
\* TryRunTics.
ClientStart(c) ==
  /\ mode[c] = "launch"
  /\ mode' = [mode EXCEPT ![c] = "game"]
  /\ connected' = [connected EXCEPT ![c] = TRUE]
  /\ maketic' = [maketic EXCEPT ![c] = 0]
  /\ recvtic' = [recvtic EXCEPT ![c] = 0]
  /\ gametic' = [gametic EXCEPT ![c] = 0]
  /\ UNCHANGED <<hostVars, cycleVars, clientVars, counts, announcing, up, down, ticdata,
                 agreed, ran, flagVars>>
-----------------------------------------------------------------------------
(***************************************************************************)
(* The tic loop.                                                           *)
(***************************************************************************)

\* BuildNewTic up to the write of ticdata, which is not in a critical section.
BuildNewTic(p) ==
  /\ InLoop(p)
  /\ ~ connected[p] => "solo" \in Events /\ maketic[p] - gametic[p] <= 2
  /\ HasRoom(p)
  /\ maketic[p] < MaxTic
  /\ ticdata' = [ticdata EXCEPT ![p][SlotOf(maketic[p])][p] =
                   [cmd |-> maketic[p], ingame |-> TRUE]]
  /\ IF connected[p]
     THEN announcing' = [announcing EXCEPT ![p] = TRUE] /\ UNCHANGED maketic
     ELSE maketic' = [maketic EXCEPT ![p] = @ + 1] /\ UNCHANGED announcing
  /\ UNCHANGED <<hostVars, cycleVars, clientVars, mode, connected, recvtic, gametic,
                 counts, up, down, agreed, ran, flagVars>>

\* piconet_new_local_tic and the rest of BuildNewTic.
HostNewLocalTic ==
  /\ mode[Host] = "game" /\ announcing[Host]
  /\ last_sent' = [last_sent EXCEPT ![Host] = maketic[Host]]
  /\ CheckTicAdvance({}, last_sent', ticdata[Host])
  /\ maketic' = [maketic EXCEPT ![Host] = @ + 1]
  /\ announcing' = [announcing EXCEPT ![Host] = FALSE]
  /\ UNCHANGED <<host_limit_tic, last_acked, abort_count, cycleVars, clientVars, mode,
                 connected, recvtic, gametic, counts, up, down, ran, flagVars>>

ClientNewLocalTic(c) ==
  /\ mode[c] = "game" /\ announcing[c]
  /\ last_local' = [last_local EXCEPT ![c] = maketic[c]]
  /\ maketic' = [maketic EXCEPT ![c] = @ + 1]
  /\ announcing' = [announcing EXCEPT ![c] = FALSE]
  /\ UNCHANGED <<hostVars, cycleVars, last_server_acked, last_received, client_limit_tic,
                 mode, connected, recvtic, gametic, counts, up, down, ticdata, agreed,
                 ran, flagVars>>

\* TryRunTics decides how many tics to run: one if it was waiting, else all
\* that are available.
AllowOneMore(p, lowtic) ==
  IF lowtic > gametic[p]
  THEN counts' = [counts EXCEPT ![p] = lowtic - gametic[p] + 1]
  ELSE UNCHANGED counts
Allow(p, lowtic) ==
  IF lowtic > gametic[p]
  THEN \E n \in {1, lowtic - gametic[p]} : counts' = [counts EXCEPT ![p] = n]
  ELSE UNCHANGED counts

\* GetLowTic with piconet_maybe_recv_tic on the host, then Allow.
HostGetLowTic ==
  /\ InLoop(Host) /\ counts[Host] = 0 /\ connected[Host]
  /\ recvtic' = [recvtic EXCEPT ![Host] = IF @ < last_complete_tic THEN @ + 1 ELSE @]
  /\ host_limit_tic' = WindowEnd(recvtic'[Host])
  /\ Allow(Host, Lesser(maketic[Host], recvtic'[Host]))
  /\ UNCHANGED <<member, last_complete_tic, last_sent, last_acked, abort_count, cycleVars,
                 clientVars, mode, connected, maketic, gametic, announcing, up, down,
                 ticdata, agreed, ran, flagVars>>

\* The same when the host has no complete tic to run and kicks the clients that
\* it has not heard from for 100 ms.
HostKick ==
  /\ InLoop(Host) /\ counts[Host] = 0 /\ connected[Host]
  /\ recvtic[Host] >= last_complete_tic
  /\ "kick" \in Events
  /\ \E kicked \in SUBSET (member \cap Clients) \ {{}} :
       CheckTicAdvance(kicked, last_sent, ticdata[Host])
  /\ host_limit_tic' = WindowEnd(recvtic[Host])
  /\ Allow(Host, Lesser(maketic[Host], recvtic[Host]))
  /\ UNCHANGED <<last_sent, last_acked, abort_count, cycleVars, clientVars, mode,
                 connected, maketic, recvtic, gametic, announcing, up, down, ran, flagVars>>

\* The same on a client.
ClientGetLowTic(c) ==
  /\ InLoop(c) /\ counts[c] = 0 /\ connected[c]
  /\ recvtic' = [recvtic EXCEPT ![c] = IF @ < last_received[c] THEN @ + 1 ELSE @]
  /\ client_limit_tic' = [client_limit_tic EXCEPT ![c] = WindowEnd(recvtic'[c])]
  /\ Allow(c, Lesser(maketic[c], recvtic'[c]))
  /\ UNCHANGED <<hostVars, cycleVars, last_server_acked, last_local, last_received, mode,
                 connected, maketic, gametic, announcing, up, down, ticdata, agreed, ran,
                 flagVars>>

\* The same on a client that has nothing to receive and has not heard from the
\* host for 100 ms: it drops to a single player game and calls piconet_stop.  In
\* this call GetLowTic still takes recvtic into account.
ClientTimeout(c) ==
  /\ InLoop(c) /\ counts[c] = 0 /\ connected[c]
  /\ recvtic[c] >= last_received[c]
  /\ "timeout" \in Events
  /\ connected' = [connected EXCEPT ![c] = FALSE]
  /\ ticdata' = [ticdata EXCEPT ![c] = [s \in Slots |-> OnlyLocal(c, ticdata[c][s])]]
  /\ client_limit_tic' = [client_limit_tic EXCEPT ![c] = WindowEnd(recvtic[c])]
  /\ Allow(c, Lesser(maketic[c], recvtic[c]))
  /\ UNCHANGED <<hostVars, cycleVars, last_server_acked, last_local, last_received, mode,
                 maketic, recvtic, gametic, announcing, up, down, agreed, ran, flagVars>>

\* TryRunTics outside a net game.
LocalGetLowTic(p) ==
  /\ "solo" \in Events
  /\ InLoop(p) /\ counts[p] = 0 /\ ~ connected[p]
  /\ maketic[p] > gametic[p]
  /\ Allow(p, maketic[p])
  /\ UNCHANGED <<hostVars, cycleVars, clientVars, mode, connected, maketic, recvtic,
                 gametic, announcing, up, down, ticdata, agreed, ran, flagVars>>

\* The players flagged in a slot.
InGame(set) == {i \in Players : set[i].ingame}

\* One pass of TryRunTics' run loop, up to its NetUpdate: the tic is run and
\* its slot squashed; a net game with one player left ends.
RunTic(p) ==
  /\ InLoop(p) /\ counts[p] > 0
  /\ connected[p] \/ "solo" \in Events
  /\ LET s   == SlotOf(gametic[p])
         set == IF connected[p] THEN ticdata[p][s] ELSE OnlyLocal(p, ticdata[p][s])
     IN /\ ticdata' = [ticdata EXCEPT ![p][s] = TicdupSquash(set)]
        /\ connected' = [connected EXCEPT ![p] = @ /\ Cardinality(InGame(set)) >= 2]
        /\ ran' = IF connected[p]
                  THEN [ran EXCEPT ![p] = [t \in DOMAIN ran[p] \cup {gametic[p]} |->
                          IF t = gametic[p] THEN Content(set) ELSE ran[p][t]]]
                  ELSE ran
  /\ gametic' = [gametic EXCEPT ![p] = @ + 1]
  /\ counts' = [counts EXCEPT ![p] = @ - 1]
  /\ UNCHANGED <<hostVars, cycleVars, clientVars, mode, maketic, recvtic, announcing, up,
                 down, agreed, flagVars>>

\* M_EndGameResponse, or the board is switched off: no more interrupts of p.
Leave(p) ==
  /\ "leave" \in Events
  /\ mode[p] = "game"
  /\ mode' = [mode EXCEPT ![p] = "left"]
  /\ connected' = [connected EXCEPT ![p] = FALSE]
  /\ UNCHANGED <<hostVars, cycleVars, clientVars, maketic, recvtic, gametic, counts,
                 announcing, up, down, ticdata, agreed, ran, flagVars>>
-----------------------------------------------------------------------------
(***************************************************************************)
(* The bus: the host's interrupt handlers.                                 *)
(***************************************************************************)

\* periodic_tick: a new round, whatever the last one was doing.
PeriodicTick ==
  /\ HostOnBus
  /\ protocol_state # "end" => "restart" \in Events
  /\ ReceiveAfter(Host, member)
  /\ up' = NoUp
  /\ UNCHANGED <<hostVars, clientVars, loopVars, flagVars, down, ticdata, agreed, ran>>

\* STOP_DET on the host after a full read from a client, in ps_recv_clients.
HostReceive ==
  /\ HostOnBus
  /\ protocol_state = "recv" /\ up.kind # "none"
  /\ LET c == client_num
         fits == /\ up.kind = "tic"
                 /\ up.enclosed > last_complete_tic
                 /\ up.enclosed < host_limit_tic
     IN /\ IF up.kind = "tic"
           THEN /\ abort_count' = [abort_count EXCEPT ![c] = 0]
                /\ last_acked' = [last_acked EXCEPT ![c] = up.rx]
           ELSE UNCHANGED <<abort_count, last_acked>>
        /\ IF fits
           THEN /\ last_sent' = [last_sent EXCEPT ![c] = up.enclosed]
                /\ CheckTicAdvance({}, last_sent',
                     [ticdata[Host] EXCEPT ![SlotOf(up.enclosed)][c] = up.cell])
           ELSE UNCHANGED <<last_sent, member, last_complete_tic, ticdata, agreed>>
        /\ ReceiveAfter(c, member)
  /\ up' = NoUp
  /\ UNCHANGED <<host_limit_tic, clientVars, loopVars, flagVars, down, ran>>

\* STOP_DET with too few bytes in the buffer.
HostReceiveShort ==
  /\ "short" \in Events
  /\ HostOnBus
  /\ protocol_state = "recv"
  /\ ReceiveAfter(client_num, member)
  /\ up' = NoUp
  /\ UNCHANGED <<hostVars, clientVars, loopVars, flagVars, down, ticdata, agreed, ran>>

\* TX_ABRT while reading from a client: too many in a row lose the client.
HostAbort ==
  /\ "abort" \in Events
  /\ HostOnBus
  /\ protocol_state = "recv"
  /\ abort_count' = [abort_count EXCEPT ![client_num] = @ + 1]
  /\ IF abort_count[client_num] + 1 > AbortMax
     THEN CheckTicAdvance({client_num}, last_sent, ticdata[Host])
     ELSE UNCHANGED <<member, last_complete_tic, ticdata, agreed>>
  /\ ReceiveAfter(client_num, member')
  /\ up' = NoUp
  /\ UNCHANGED <<host_limit_tic, last_sent, last_acked, clientVars, loopVars, flagVars,
                 down, ran>>

\* The poll of an address that is not a client's.  A newcomer's answer changes
\* nothing here (it is told that the game has started), but a client that was
\* lost and does not know it answers with its tic message.
HostPolled ==
  /\ HostOnBus
  /\ protocol_state = "poll"
  /\ \/ UNCHANGED stray
     \/ /\ \E c \in Clients \ member : mode[c] = "game" /\ OnBus(c)
        /\ stray' = (stray \/ client_num \notin Players)
  /\ SendAfter(Host)
  /\ UNCHANGED <<hostVars, clientVars, loopVars, refused, midLoop, up, ticdata, agreed,
                 ran>>

\* STOP_DET or TX_ABRT after a write to a client: on to the next.
HostSent ==
  /\ HostOnBus
  /\ protocol_state = "send"
  /\ SendAfter(client_num)
  /\ UNCHANGED <<hostVars, clientVars, loopVars, flagVars, up, ticdata, agreed, ran>>
-----------------------------------------------------------------------------
(***************************************************************************)
(* The bus: the client's interrupt handlers.                               *)
(***************************************************************************)

\* RD_REQ: the client composes its reply, over whatever its buffer still held.
ClientReply(c) ==
  /\ HostOnBus /\ OnBus(c)
  /\ protocol_state = "recv" /\ client_num = c /\ up.kind = "none"
  /\ up' = IF mode[c] # "game" THEN LobbyUp
           ELSE IF last_server_acked[c] < last_local[c]
           THEN [kind |-> "tic", rx |-> last_received[c],
                 enclosed |-> last_server_acked[c] + 1,
                 cell |-> ticdata[c][SlotOf(last_server_acked[c] + 1)][c]]
           ELSE [NoUp EXCEPT !.kind = "tic", !.rx = last_received[c]]
  /\ down' = [down EXCEPT ![c] = NoDown]
  /\ UNCHANGED <<hostVars, cycleVars, clientVars, loopVars, flagVars, ticdata, agreed, ran>>

\* STOP_DET after a complete message in the lobby.  Host tics cannot come yet:
\* the host sends lobby messages until the client's first tic.
ClientReceiveLobby(c) ==
  /\ OnBus(c) /\ down[c].kind = "lobby"
  /\ mode' = [mode EXCEPT ![c] = IF @ = "lobby" THEN "launch" ELSE @]
  /\ down' = [down EXCEPT ![c] = NoDown]
  /\ UNCHANGED <<hostVars, cycleVars, clientVars, connected, maketic, recvtic, gametic,
                 counts, announcing, flagVars, up, ticdata, agreed, ran>>

\* STOP_DET after a complete host tic message.
ClientReceiveTic(c) ==
  /\ OnBus(c) /\ mode[c] = "game" /\ down[c].kind = "tic"
  /\ LET msg  == down[c]
         due  == msg.enclosed # None /\ msg.enclosed = last_received[c] + 1
         room == msg.enclosed < client_limit_tic[c]
     IN /\ last_server_acked' =
             IF msg.enclosed # None THEN [last_server_acked EXCEPT ![c] = msg.ack]
                                    ELSE last_server_acked
        /\ IF due /\ room
           THEN /\ last_received' = [last_received EXCEPT ![c] = msg.enclosed]
                /\ ticdata' = [ticdata EXCEPT ![c][SlotOf(msg.enclosed)] = msg.cmds]
           ELSE UNCHANGED <<last_received, ticdata>>
        /\ refused' = (refused \/ (due /\ ~ room))
  /\ down' = [down EXCEPT ![c] = NoDown]
  /\ UNCHANGED <<hostVars, cycleVars, last_local, client_limit_tic, loopVars, midLoop, stray,
                 up, agreed, ran>>
-----------------------------------------------------------------------------
LoopStep(p) ==
  \/ BuildNewTic(p) \/ LocalGetLowTic(p) \/ RunTic(p) \/ Leave(p)
HostStep ==
  \/ HostStart \/ HostNewLocalTic \/ HostGetLowTic \/ HostKick
  \/ PeriodicTick \/ HostReceive \/ HostReceiveShort \/ HostAbort \/ HostPolled \/ HostSent
ClientStep(c) ==
  \/ ClientStart(c) \/ ClientNewLocalTic(c) \/ ClientGetLowTic(c) \/ ClientTimeout(c)
  \/ ClientReply(c) \/ ClientReceiveLobby(c) \/ ClientReceiveTic(c)

Next ==
  \/ HostStep
  \/ \E c \in Clients : ClientStep(c)
  \/ \E p \in Players : LoopStep(p)

Spec == Init /\ [][Next]_vars

\* A client that the host does not serve any more, or is about to find gone.
Unserved(c) == ~ HostOnBus \/ c \notin member

(***************************************************************************)
(* Fairness.  The main loops and the interrupt handlers of a node that is  *)
(* switched on run; a transfer with a client that is on the bus is not cut *)
(* short for ever; one with a client that is not, is aborted; and a client *)
(* that is never served again finds its time-out expired.                  *)
(***************************************************************************)
Fairness ==
  /\ WF_vars(HostStart) /\ WF_vars(HostNewLocalTic) /\ WF_vars(HostGetLowTic)
  /\ WF_vars(PeriodicTick) /\ SF_vars(HostReceive) /\ SF_vars(HostPolled)
  /\ SF_vars(HostSent)
  /\ SF_vars(HostAbort /\ ~ OnBus(client_num))
  /\ \A p \in Players :
       WF_vars(BuildNewTic(p)) /\ WF_vars(LocalGetLowTic(p)) /\ WF_vars(RunTic(p))
  /\ \A c \in Clients :
       /\ WF_vars(ClientStart(c)) /\ WF_vars(ClientNewLocalTic(c))
       /\ WF_vars(ClientGetLowTic(c)) /\ WF_vars(ClientTimeout(c) /\ Unserved(c))
       /\ SF_vars(ClientReply(c)) /\ SF_vars(ClientReceiveLobby(c))
       /\ SF_vars(ClientReceiveTic(c))

FairSpec == Spec /\ Fairness

\* The two ways in which the start of a game goes wrong have not happened: no
\* tic was refused by a client whose window was not open yet, and the game was
\* not started in the middle of TryRunTics' run loop.
Clean == ~ refused /\ ~ midLoop
-----------------------------------------------------------------------------
(***************************************************************************)
(* Properties.                                                             *)
(***************************************************************************)

\* What each node has run is what the host agreed: the same commands of the
\* same players for the same tic.  This is what the consistency check of
\* G_Ticker samples.
Lockstep ==
  Clean => \A p \in Players : \A t \in DOMAIN ran[p] :
             t \in DOMAIN agreed /\ ran[p][t] = agreed[t]

\* An agreed tic holds, for every player in it, the command that player built
\* for that very tic.
CommandsInPlace ==
  \A t \in DOMAIN agreed : \A q \in Players : agreed[t][q] \in {t, Absent}

\* The host can still send each client every complete tic that it lacks: the
\* slots have neither been run and squashed nor been overwritten.
ResendIntact ==
  Clean /\ HostOnBus => \A c \in member \cap Clients :
    \A t \in last_received[c] + 1 .. last_complete_tic :
      mode[c] # "left" => Content(ticdata[Host][SlotOf(t)]) = agreed[t]

\* A node's ring holds, unrun and unsquashed, each of its own commands that it
\* has not run yet, whatever was received meanwhile and also when it has
\* dropped to a single player game.
OwnCommandsKept ==
  Clean => \A p \in Players : mode[p] = "game" =>
    \A t \in gametic[p] .. maketic[p] - 1 :
      ticdata[p][SlotOf(t)][p] = [cmd |-> t, ingame |-> TRUE]

\* The sliding window of each client: what it has sent, what it has received
\* and what the host knows of both never drift apart by more than one tic.
AckWindow ==
  Clean => \A c \in member \cap Clients :
    /\ last_complete_tic <= last_sent[c] /\ last_sent[c] <= last_complete_tic + 1
    /\ last_sent[c] <= last_acked[c] + 1 /\ last_acked[c] <= last_received[c]
    /\ last_received[c] <= last_complete_tic

\* The errors of TryRunTics cannot happen: the game is never ahead of the tics
\* it has received.
NeverAhead ==
  Clean => \A p \in Players : connected[p] =>
     gametic[p] <= recvtic[p] /\ recvtic[p] <= gametic[p] + 1 /\ recvtic[p] <= maketic[p]

\* The host's agreed tics are a log, and every node runs that log in order, up
\* to a start that goes wrong.
Log == INSTANCE TicLog WITH Nodes <- Players, log <- agreed, binds <- Clean
OneLog == Log!Spec

\* Nobody waits for ever: a node in a game runs all tics that can be completed,
\* in the net game or, once it has lost it, on its own.
Progress ==
  \A p \in Players :
    mode[p] = "game" ~> mode[p] = "left" \/ gametic[p] >= MaxTic - 1

\* Every joined client that stays on the bus is brought into the game, unless
\* the host has gone or has lost it.
Launched ==
  \A c \in Clients : HostOnBus ~> mode[c] \in {"game", "left"} \/ Unserved(c)
-----------------------------------------------------------------------------
(***************************************************************************)
(* The inductive invariant behind Lockstep.  First the counters: where the *)
(* tics in a message, in a client and at the host stand to each other.     *)
(***************************************************************************)
SeatsInv ==
  /\ Host \in member
  /\ up.kind # "none" => protocol_state = "recv"

LoopInv(p) ==
  /\ mode[p] \in {"lobby", "launch"} =>
       ~ connected[p] /\ ~ announcing[p] /\ maketic[p] = 0 /\ recvtic[p] = 0
       /\ gametic[p] = 0 /\ counts[p] = 0 /\ DOMAIN ran[p] = {}
  /\ connected[p] =>
       /\ mode[p] = "game"
       /\ recvtic[p] = gametic[p] + counts[p] /\ counts[p] <= 1
       /\ recvtic[p] <= maketic[p] /\ maketic[p] <= gametic[p] + BackupTics
       /\ DOMAIN ran[p] = 0 .. gametic[p] - 1
  /\ mode[p] = "game" /\ announcing[p] =>
       connected[p] /\ maketic[p] < MaxTic /\ maketic[p] < gametic[p] + BackupTics

HostInv ==
  /\ last_complete_tic <= last_sent[Host]
  /\ mode[Host] = "lobby" => last_sent[Host] = None /\ host_limit_tic = 0
  /\ connected[Host] =>
       /\ last_sent[Host] = maketic[Host] - 1
       /\ recvtic[Host] > 0 => recvtic[Host] <= last_complete_tic
       /\ host_limit_tic <= recvtic[Host] + BackupTics - 1

ClientInv(c) ==
  /\ last_acked[c] <= last_received[c] /\ last_received[c] <= last_complete_tic
  /\ last_server_acked[c] = last_received[c]
  /\ last_received[c] <= last_local[c] /\ last_sent[c] <= last_local[c]
  /\ last_sent[c] <= last_acked[c] + 1
  /\ mode[c] \in {"lobby", "launch"} => last_local[c] = None /\ client_limit_tic[c] = 0
  /\ connected[c] =>
       /\ last_local[c] = maketic[c] - 1
       /\ recvtic[c] > 0 => recvtic[c] <= last_received[c]
       /\ client_limit_tic[c] <= recvtic[c] + BackupTics - 1
  /\ c \in member =>
       last_complete_tic <= last_sent[c] /\ last_sent[c] <= last_complete_tic + 1

UpInv ==
  up.kind = "tic" =>
    /\ last_acked[client_num] <= up.rx /\ up.rx <= last_received[client_num]
    /\ up.enclosed # None =>
         up.enclosed = up.rx + 1 /\ up.enclosed <= last_local[client_num]

DownInv(c) ==
  down[c].enclosed # None =>
    /\ down[c].kind = "tic"
    /\ down[c].ack = down[c].enclosed
    /\ down[c].enclosed \in {last_received[c], last_received[c] + 1}
    /\ down[c].enclosed <= last_complete_tic /\ down[c].enclosed <= last_local[c]

Counters ==
  /\ SeatsInv /\ HostInv /\ UpInv
  /\ \A p \in Players : LoopInv(p)
  /\ \A c \in Clients : ClientInv(c) /\ DownInv(c)

(***************************************************************************)
(* Then the data: what is in the slots and the messages is what was agreed.*)
(***************************************************************************)
HostData ==
  /\ DOMAIN agreed = 0 .. last_complete_tic
  /\ connected[Host] => \A t \in gametic[Host] .. last_complete_tic :
       Content(ticdata[Host][SlotOf(t)]) = agreed[t]

ClientData(c) ==
  /\ connected[c] => \A t \in gametic[c] .. last_received[c] :
       Content(ticdata[c][SlotOf(t)]) = agreed[t]
  /\ down[c].enclosed # None => Content(down[c].cmds) = agreed[down[c].enclosed]

RanData(p) ==
  \A t \in DOMAIN ran[p] : t \in DOMAIN agreed /\ ran[p][t] = agreed[t]

Data ==
  /\ HostData
  /\ \A c \in Clients : ClientData(c)
  /\ ran = [p \in Players |-> ran[p]]
  /\ \A p \in Players : RanData(p)

IInv == Clean => Counters /\ Data
=============================================================================
