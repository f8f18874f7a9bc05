----------------------------- MODULE PicoNetLobby -----------------------------
(***************************************************************************)
(* The lobby of the I2C network (src/src/pico/piconet.c) and the two menus *)
(* that fill and start it (src/src/doom/m_menu.c).                         *)
(*                                                                         *)
(* The host is the bus controller and sits in seat 0.  In each round it    *)
(* reads from the clients it has seated, polls one more address for a      *)
(* newcomer, sends the lobby to every client that has not acknowledged its *)
(* latest version, and answers a newcomer that it had to refuse.  A client *)
(* that does not answer the host loses its seat, and those behind it move  *)
(* up; a client that is not read from for a while takes a new address and  *)
(* a new identity and waits to be polled again.                            *)
(*                                                                         *)
(* The host's start key freezes the lobby and launches the host's game; a  *)
(* client launches its own when it sees the started lobby.                 *)
(***************************************************************************)
EXTENDS Integers, FiniteSets

CONSTANTS
  Clients,         \* the boards that may join
  Host,            \* the board that hosts
  Incompatible,    \* the clients with another game file or version
  NetMaxPlayers,   \* NET_MAXPLAYERS, the number of seats
  AddrCount,       \* ADDR_COUNT, the number of bus addresses
  MaxIds,          \* bound of the model: identities a board takes
  MaxSeq,          \* bound of the model: versions of the lobby
  Events           \* bound of the model: which of these can happen at all

\* quit: a client leaves the foyer; stall: a client that has a seat is not read
\* from for so long that it takes its connection for dropped; reuse: a client
\* draws the address of a seat that is still held; abort, short, restart: a
\* transfer is not answered, is cut short, or is under way at the next tick;
\* rehost: the host leaves its lobby and opens another.
AllEvents == {"quit", "stall", "reuse", "abort", "short", "restart", "rehost"}

ASSUME ClientsAssumption == Host \notin Clients /\ Incompatible \subseteq Clients
ASSUME SeatsAssumption   == NetMaxPlayers \in Nat /\ NetMaxPlayers >= 2
ASSUME AddrAssumption    == AddrCount \in Nat /\ AddrCount >= NetMaxPlayers
ASSUME BoundsAssumption  == /\ MaxIds \in Nat \ {0} /\ MaxSeq \in Nat \ {0, 1}
                            /\ Events \subseteq AllEvents

Seats  == 0 .. NetMaxPlayers - 1
Addrs  == 1 .. AddrCount
NoAddr == 0

\* A client_id is drawn from the clock: no two are equal, whoever draws them.
Ids  == (Clients \cup {Host}) \X (0 .. MaxIds)
NoId == <<Host, 0>>

\* remote_client_t, as far as the lobby uses it.  heard: its first tic has come.
Seat    == [id : Ids, addr : Addrs \cup {NoAddr}, acked : 0 .. MaxSeq, heard : BOOLEAN]
NoSeat  == [id |-> NoId, addr |-> NoAddr, acked |-> 0, heard |-> FALSE]

\* lobby_state_t
Lobby   == [seq : 0 .. MaxSeq, status : {"none", "waiting", "started", "incompatible"},
            nplayers : 0 .. NetMaxPlayers, players : [Seats -> Ids]]
NoLobby == [seq |-> 0, status |-> "none", nplayers |-> 0, players |-> [i \in Seats |-> NoId]]

UpMsg   == [kind : {"none", "lobby", "tic"}, id : Ids, seq : 0 .. MaxSeq]
NoUp    == [kind |-> "none", id |-> NoId, seq |-> 0]
Refusal == {"full", "started", "incompatible"}
DownMsg == [kind : {"none", "lobby", "tic"} \cup Refusal, id : Ids, lobby : Lobby]
NoDown  == [kind |-> "none", id |-> NoId, lobby |-> NoLobby]

\* What M_NetGameStart takes from the lobby: playeringame and consoleplayer.
Roster   == [players : [Seats -> Ids], num : Seats]
NoRoster == [players |-> [i \in Seats |-> NoId], num |-> 0]

VARIABLES
  \* the host
  protocol_state,      \* "recv", "poll", "send", "answer" (ps_send_poll), "end"
  client_num,          \* the seat the host is talking to
  seats,               \* local_state.host.clients
  lobby,               \* synced_state.lobby
  in_game,             \* synced_state.status is in_game
  poll_addr,
  poll_client_id,
  poll_error_response, \* "none" or a refusal
  host_roster,         \* what M_NetGameStart has read
  starting,            \* M_NetGameStart is between its two critical sections
  \* the bus
  up,                  \* the reply that the host is reading
  down,                \* per client: the message it has not handled yet
  \* the clients
  role,                \* "none", "client"
  addr,                \* i2c_state.client_addr
  seen,                \* synced_state.lobby
  player_num,
  roster,
  launched,            \* synced_state.status is in_game
  \* every board
  ids,                 \* identities taken so far; the last one is in use
  \* history
  overtaken            \* the lobby changed while the host was starting

cycleVars  == <<protocol_state, client_num>>
pollVars   == <<poll_addr, poll_client_id, poll_error_response>>
startVars  == <<in_game, host_roster, starting>>
tableVars  == <<seats, lobby, overtaken>>
hostVars   == <<cycleVars, pollVars, startVars, tableVars>>
clientVars == <<role, addr, seen, player_num, roster, launched>>
vars == <<hostVars, up, down, clientVars, ids>>

\* The identity a board goes by.
IdOf(n) == <<n, ids[n]>>

TypeOK ==
  /\ protocol_state \in {"recv", "poll", "send", "answer", "end"}
  /\ client_num \in 0 .. NetMaxPlayers
  /\ seats \in [Seats -> Seat]
  /\ lobby \in Lobby
  /\ in_game \in BOOLEAN /\ starting \in BOOLEAN /\ overtaken \in BOOLEAN
  /\ poll_addr \in Addrs
  /\ poll_client_id \in Ids
  /\ poll_error_response \in {"none"} \cup Refusal
  /\ host_roster \in Roster
  /\ up \in UpMsg
  /\ down \in [Clients -> DownMsg]
  /\ role \in [Clients -> {"none", "client"}]
  /\ addr \in [Clients -> Addrs]
  /\ seen \in [Clients -> Lobby]
  /\ player_num \in [Clients -> Seats \cup {-1}]
  /\ roster \in [Clients -> Roster]
  /\ launched \in [Clients -> BOOLEAN]
  /\ ids \in [Clients \cup {Host} -> 0 .. MaxIds]

\* The host's tables after piconet_start_host, where its identity is id.
OpenSeats(id) == [i \in Seats |-> IF i = 0 THEN [NoSeat EXCEPT !.id = id] ELSE NoSeat]
OpenLobby(id) == [seq |-> 1, status |-> "waiting", nplayers |-> 1,
                  players |-> [i \in Seats |-> IF i = 0 THEN id ELSE NoId]]

\* The host has just opened its lobby; no client has been started.
Init ==
  /\ protocol_state = "end" /\ client_num = NetMaxPlayers
  /\ seats = OpenSeats(<<Host, 1>>) /\ lobby = OpenLobby(<<Host, 1>>)
  /\ in_game = FALSE /\ starting = FALSE /\ overtaken = FALSE
  /\ poll_addr = 1 /\ poll_client_id = NoId /\ poll_error_response = "none"
  /\ host_roster = NoRoster
  /\ up = NoUp /\ down = [c \in Clients |-> NoDown]
  /\ role = [c \in Clients |-> "none"] /\ addr = [c \in Clients |-> 1]
  /\ seen = [c \in Clients |-> NoLobby] /\ player_num = [c \in Clients |-> 0]
  /\ roster = [c \in Clients |-> NoRoster] /\ launched = [c \in Clients |-> FALSE]
  /\ ids = [n \in Clients \cup {Host} |-> IF n = Host THEN 1 ELSE 0]
-----------------------------------------------------------------------------
(***************************************************************************)
(* The host's round: host_advance_protocol_state_locked.                   *)
(***************************************************************************)
SeatAddrs == {seats[i].addr : i \in Seats}

\* poll_addr goes round the addresses, leaving out those of the seats.
AddrAfter(k) == ((poll_addr - 1 + k) % AddrCount) + 1
FreeSteps == {k \in 1 .. AddrCount : AddrAfter(k) \notin SeatAddrs}
PollAny == AddrAfter(1)
PollStuck == poll_addr
NextPollAddr == AddrAfter(CHOOSE k \in FreeSteps : \A j \in FreeSteps : k <= j)

First(i, s) == i \in s /\ \A j \in s : i <= j

\* Read from the next seat that has an address; after the last, poll.
ReceiveAfter(k, table) ==
  LET rest == {i \in Seats : i > k /\ table[i].addr # NoAddr}
  IN \/ /\ rest = {}
        /\ protocol_state' = "poll" /\ client_num' = NetMaxPlayers
        /\ poll_error_response' = "none"
     \/ \E i \in rest : /\ First(i, rest)
                        /\ protocol_state' = "recv" /\ client_num' = i
                        /\ UNCHANGED poll_error_response

\* The message for a seat: the lobby until its first tic, unless it has
\* acknowledged this version; then tics.
HostMsg(seat, version) ==
  IF in_game /\ seat.heard THEN [NoDown EXCEPT !.kind = "tic", !.id = seat.id]
  ELSE IF seat.acked # version.seq
  THEN [kind |-> "lobby", id |-> seat.id, lobby |-> version]
  ELSE NoDown

\* A client on the bus, and what a write to address a leaves with each.
OnBus(c) == role[c] = "client"
At(a)    == {c \in Clients : OnBus(c) /\ addr[c] = a}
Written(a, msg) == [c \in Clients |-> IF c \in At(a) THEN msg ELSE down[c]]

\* Write to the next seat that has an identity; after the last, answer a
\* newcomer that was refused.
SendAfter(k, table, version, refusal) ==
  LET rest == {i \in Seats : i > k /\ table[i].id # NoId}
  IN \/ \E i \in rest : /\ First(i, rest)
                        /\ protocol_state' = "send" /\ client_num' = i
                        /\ down' = Written(table[i].addr, HostMsg(table[i], version))
                        /\ poll_error_response' = refusal
     \/ /\ rest = {} /\ refusal # "none"
        /\ protocol_state' = "answer" /\ client_num' = NetMaxPlayers
        /\ down' = Written(poll_addr, [NoDown EXCEPT !.kind = refusal, !.id = poll_client_id'])
        /\ poll_error_response' = "none"
     \/ /\ rest = {} /\ refusal = "none"
        /\ protocol_state' = "end" /\ client_num' = NetMaxPlayers
        /\ UNCHANGED <<down, poll_error_response>>

\* periodic_tick: a new round, whatever the last one was doing.
PeriodicTick ==
  /\ protocol_state # "end" => "restart" \in Events
  /\ poll_addr' = NextPollAddr
  /\ ReceiveAfter(0, seats)
  /\ up' = NoUp
  /\ UNCHANGED <<poll_client_id, startVars, tableVars, down, clientVars, ids>>

\* STOP_DET after a full reply from a seated client: what it last received, or
\* in a game a tic, which is its first only if it fits the host's window.
HostReceive ==
  /\ protocol_state = "recv" /\ up # NoUp
  /\ \/ /\ up.kind = "lobby" /\ ~ in_game
        /\ seats' = [seats EXCEPT ![client_num].acked = up.seq]
     \/ /\ up.kind = "tic" /\ in_game
        /\ seats' = [seats EXCEPT ![client_num].heard = TRUE]
     \/ /\ in_game \/ up.kind = "tic"
        /\ UNCHANGED seats
  /\ ReceiveAfter(client_num, seats')
  /\ up' = NoUp
  /\ UNCHANGED <<poll_addr, poll_client_id, startVars, lobby, overtaken, down, clientVars, ids>>

\* STOP_DET with too few bytes in the buffer.
HostReceiveShort ==
  /\ "short" \in Events
  /\ protocol_state = "recv"
  /\ ReceiveAfter(client_num, seats)
  /\ up' = NoUp
  /\ UNCHANGED <<poll_addr, poll_client_id, startVars, tableVars, down, clientVars, ids>>

\* Removing seat k: in the lobby those behind it move up, and only the
\* identity and the address of the last seat are cleared; in a game the seat
\* stays empty.
MovedUp(f, k, last) ==
  [i \in Seats |-> IF i < k THEN f[i] ELSE IF i < NetMaxPlayers - 1 THEN f[i + 1] ELSE last]
Emptied(seat) == [seat EXCEPT !.id = NoId, !.addr = NoAddr]
SeatEmptied(k) == [seats EXCEPT ![k] = Emptied(@)]
WithoutSeat(k) == MovedUp(seats, k, Emptied(seats[NetMaxPlayers - 1]))
PlayerGoneSilently(k) == [lobby EXCEPT !.nplayers = @ - 1, !.players = MovedUp(@, k, NoId)]
WithoutPlayer(k) == [lobby EXCEPT !.nplayers = @ - 1, !.seq = @ + 1,
                                  !.players = MovedUp(@, k, NoId)]

\* The last version is kept for the start of the game.
MayChangeLobby == lobby.seq < MaxSeq - 1

\* TX_ABRT while reading from a seat of the lobby; the same seat, which may be
\* taken by the one behind it, is next.
HostAbortInLobby ==
  /\ protocol_state = "recv" /\ ~ in_game /\ MayChangeLobby
  /\ "abort" \in Events \/ At(seats[client_num].addr) = {}
  /\ seats' = WithoutSeat(client_num) /\ lobby' = WithoutPlayer(client_num)
  /\ overtaken' = (overtaken \/ starting)
  /\ ReceiveAfter(client_num - 1, seats')
  /\ up' = NoUp
  /\ UNCHANGED <<poll_addr, poll_client_id, startVars, down, clientVars, ids>>

\* The same in a game: too many in a row lose the client.
EmptyInGame(k) == SeatEmptied(k)
HostAbortInGame ==
  /\ protocol_state = "recv" /\ in_game
  /\ "abort" \in Events \/ At(seats[client_num].addr) = {}
  /\ seats' \in {seats, EmptyInGame(client_num)}
  /\ ReceiveAfter(client_num, seats')
  /\ up' = NoUp
  /\ UNCHANGED <<poll_addr, poll_client_id, startVars, lobby, overtaken, down, clientVars, ids>>

\* piconet_maybe_recv_tic on the host: a client not heard from is kicked.
HostKick(i) ==
  /\ "abort" \in Events
  /\ in_game /\ i > 0 /\ seats[i].id # NoId
  /\ seats' = EmptyInGame(i)
  /\ UNCHANGED <<cycleVars, pollVars, startVars, lobby, overtaken, up, down, clientVars, ids>>

\* Why the host will not seat the newcomer id, and the tables if it does.
RefusedIfFull(id) ==
  IF id[1] \in Incompatible THEN "incompatible"
  ELSE IF lobby.nplayers >= NetMaxPlayers THEN "full" ELSE "none"
RefusedOneLater(id) ==
  IF in_game THEN "started"
  ELSE IF id[1] \in Incompatible THEN "incompatible"
  ELSE IF lobby.nplayers > NetMaxPlayers THEN "full" ELSE "none"
Refused(id) ==
  IF in_game THEN "started"
  ELSE IF id[1] \in Incompatible THEN "incompatible"
  ELSE IF lobby.nplayers >= NetMaxPlayers THEN "full" ELSE "none"
SeatTaken(id) == [seats EXCEPT ![lobby.nplayers].id = id, ![lobby.nplayers].addr = poll_addr]
Welcome(id) == [lobby EXCEPT !.players[lobby.nplayers] = id, !.nplayers = @ + 1, !.seq = @ + 1]

\* STOP_DET after the reply of a polled newcomer.
HostSeats ==
  /\ protocol_state = "poll" /\ up.kind = "lobby"
  /\ Refused(up.id) = "none" /\ MayChangeLobby
  /\ poll_client_id' = up.id
  /\ seats' = SeatTaken(up.id) /\ lobby' = Welcome(up.id)
  /\ overtaken' = (overtaken \/ starting)
  /\ SendAfter(0, seats', lobby', "none")
  /\ up' = NoUp
  /\ UNCHANGED <<poll_addr, startVars, clientVars, ids>>

HostRefuses ==
  /\ protocol_state = "poll" /\ up.kind = "lobby"
  /\ Refused(up.id) # "none"
  /\ poll_client_id' = up.id
  /\ SendAfter(0, seats, lobby, Refused(up.id))
  /\ up' = NoUp
  /\ UNCHANGED <<poll_addr, startVars, tableVars, clientVars, ids>>

\* No reply, or one cut short, or that of a client already in its game.
HostPolledInVain ==
  /\ protocol_state = "poll"
  /\ \/ up.kind = "tic" \/ At(poll_addr) = {}
     \/ {"abort", "short"} \cap Events # {}
  /\ UNCHANGED poll_client_id
  /\ SendAfter(0, seats, lobby, "none")
  /\ up' = NoUp
  /\ UNCHANGED <<poll_addr, startVars, tableVars, clientVars, ids>>

\* STOP_DET or TX_ABRT after a write to a seat, or to the newcomer.
HostSent ==
  /\ UNCHANGED poll_client_id
  /\ \/ /\ protocol_state = "send"
        /\ SendAfter(client_num, seats, lobby, poll_error_response)
     \/ /\ protocol_state = "answer" /\ protocol_state' = "end"
        /\ UNCHANGED <<client_num, down, poll_error_response>>
  /\ UNCHANGED <<poll_addr, startVars, tableVars, up, clientVars, ids>>
-----------------------------------------------------------------------------
(***************************************************************************)
(* The host's menu.                                                        *)
(***************************************************************************)
RosterOf(version, num) ==
  [players |-> [i \in Seats |-> IF i < version.nplayers THEN version.players[i] ELSE NoId],
   num |-> num]

\* M_NetGameStart: piconet_get_lobby_state, then, the interrupts having been
\* on in between, piconet_start_game.
HostReadLobby ==
  /\ ~ in_game /\ ~ starting
  /\ host_roster' = RosterOf(lobby, 0)
  /\ starting' = TRUE
  /\ UNCHANGED <<cycleVars, pollVars, in_game, tableVars, up, down, clientVars, ids>>

StartedSilently == [lobby EXCEPT !.status = "started"]
StartedLobby == [lobby EXCEPT !.status = "started", !.seq = @ + 1]
HostStartGame ==
  /\ starting
  /\ in_game' = TRUE /\ starting' = FALSE
  /\ lobby' = StartedLobby
  /\ UNCHANGED <<cycleVars, pollVars, host_roster, seats, overtaken, up, down, clientVars, ids>>

\* ESC and the menus again: piconet_stop and piconet_start_host.  (A host that
\* leaves for good takes no more steps.)
HostRehost ==
  /\ "rehost" \in Events
  /\ ~ in_game /\ ~ starting /\ ids[Host] < MaxIds
  /\ ids' = [ids EXCEPT ![Host] = @ + 1]
  /\ protocol_state' = "end" /\ client_num' = NetMaxPlayers
  /\ seats' = OpenSeats(<<Host, ids'[Host]>>) /\ lobby' = OpenLobby(<<Host, ids'[Host]>>)
  /\ poll_addr' = 1 /\ poll_client_id' = NoId /\ poll_error_response' = "none"
  /\ up' = NoUp
  /\ UNCHANGED <<startVars, overtaken, down, clientVars>>
-----------------------------------------------------------------------------
(***************************************************************************)
(* A client.                                                               *)
(***************************************************************************)

\* client_new_random_addr_locked; two clients with one address are left out.
MayDraw(c, a) ==
  /\ \A d \in Clients \ {c} : OnBus(d) => addr[d] # a
  /\ a \in SeatAddrs => "reuse" \in Events

\* M_JoinGame: piconet_start_client.
ClientJoin(c) ==
  /\ role[c] = "none" /\ ids[c] < MaxIds
  /\ role' = [role EXCEPT ![c] = "client"]
  /\ ids' = [ids EXCEPT ![c] = @ + 1]
  /\ \E a \in Addrs : MayDraw(c, a) /\ addr' = [addr EXCEPT ![c] = a]
  /\ seen' = [seen EXCEPT ![c] = NoLobby]
  /\ player_num' = [player_num EXCEPT ![c] = 0]
  /\ down' = [down EXCEPT ![c] = NoDown]
  /\ UNCHANGED <<hostVars, up, roster, launched>>

\* M_Ticker: a client that has left the foyer without a game stops.
ClientQuit(c) ==
  /\ "quit" \in Events
  /\ OnBus(c) /\ ~ launched[c]
  /\ role' = [role EXCEPT ![c] = "none"]
  /\ down' = [down EXCEPT ![c] = NoDown]
  /\ UNCHANGED <<hostVars, up, addr, seen, player_num, roster, launched, ids>>

\* piconet_client_check_for_dropped_connection, from M_Ticker in the foyer: the
\* new identity knows no lobby, but keeps its player number.
ClientDrop(c) ==
  /\ OnBus(c) /\ ~ launched[c] /\ ids[c] < MaxIds
  /\ addr[c] \in SeatAddrs => "stall" \in Events
  /\ up.id # IdOf(c) /\ down[c] = NoDown
  /\ ids' = [ids EXCEPT ![c] = @ + 1]
  /\ \E a \in Addrs : MayDraw(c, a) /\ addr' = [addr EXCEPT ![c] = a]
  /\ seen' = [seen EXCEPT ![c].status = "none", ![c].seq = 0]
  /\ UNCHANGED <<hostVars, up, down, role, player_num, roster, launched>>

\* RD_REQ: the reply is composed over whatever the buffer still held.
ClientReply(c) ==
  /\ up = NoUp
  /\ \/ protocol_state = "recv" /\ c \in At(seats[client_num].addr)
     \/ protocol_state = "poll" /\ c \in At(poll_addr)
  /\ up' = IF launched[c] THEN [NoUp EXCEPT !.kind = "tic", !.id = IdOf(c)]
           ELSE [kind |-> "lobby", id |-> IdOf(c), seq |-> seen[c].seq]
  /\ down' = [down EXCEPT ![c] = NoDown]
  /\ UNCHANGED <<hostVars, clientVars, ids>>

\* The seat of an identity in a version of the lobby, or -1.
SeatIn(version, id) ==
  IF \E i \in Seats : version.players[i] = id
  THEN CHOOSE i \in Seats : /\ version.players[i] = id
                            /\ \A j \in Seats : j > i => version.players[j] # id
  ELSE -1

\* STOP_DET after a complete message, which counts if it bears the client's
\* identity and, but for a tic, only before its game.
ClientReceive(c) ==
  /\ OnBus(c) /\ down[c] # NoDown
  /\ LET msg == down[c]
         inLobby == msg.id = IdOf(c) /\ ~ launched[c]
     IN \/ /\ inLobby /\ msg.kind = "lobby"
           /\ seen' = [seen EXCEPT ![c] = msg.lobby]
           /\ player_num' = [player_num EXCEPT ![c] = SeatIn(msg.lobby, IdOf(c))]
           /\ UNCHANGED launched
        \/ /\ inLobby /\ msg.kind \in {"started", "incompatible"}
           /\ seen' = [seen EXCEPT ![c].status = msg.kind]
           /\ UNCHANGED <<player_num, launched>>
        \/ /\ msg.id = IdOf(c) /\ msg.kind = "tic"
           /\ launched' = [launched EXCEPT ![c] = TRUE]
           /\ UNCHANGED <<seen, player_num>>
        \/ /\ msg.id = IdOf(c) => msg.kind # "tic" /\ (launched[c] \/ msg.kind = "full")
           /\ UNCHANGED <<seen, player_num, launched>>
  /\ down' = [down EXCEPT ![c] = NoDown]
  /\ UNCHANGED <<hostVars, up, role, addr, roster, ids>>

\* M_DrawNetFoyer: a started lobby and a player number start the game.
ClientLaunch(c) ==
  /\ OnBus(c) /\ ~ launched[c]
  /\ seen[c].status = "started" /\ player_num[c] > 0
  /\ roster' = [roster EXCEPT ![c] = RosterOf(seen[c], player_num[c])]
  /\ launched' = [launched EXCEPT ![c] = TRUE]
  /\ UNCHANGED <<hostVars, up, down, role, addr, seen, player_num, ids>>
-----------------------------------------------------------------------------
HostStep ==
  \/ PeriodicTick \/ HostReceive \/ HostReceiveShort \/ HostAbortInLobby \/ HostAbortInGame
  \/ HostSeats \/ HostRefuses \/ HostPolledInVain \/ HostSent
  \/ HostReadLobby \/ HostStartGame \/ HostRehost
  \/ \E i \in Seats : HostKick(i)
ClientStep(c) ==
  \/ ClientJoin(c) \/ ClientQuit(c) \/ ClientDrop(c)
  \/ ClientReply(c) \/ ClientReceive(c) \/ ClientLaunch(c)

Next == HostStep \/ \E c \in Clients : ClientStep(c)

Spec == Init /\ [][Next]_vars

(***************************************************************************)
(* Fairness.  The timer and the interrupt handlers run, and so does the    *)
(* client's menu.  The transfers of a client that is on the bus are not    *)
(* all aborted or cut short for ever; one with an address at which nobody  *)
(* is, is aborted.  Joining, quitting, being taken for dropped and starting *)
(* the game are up to the players and to chance.                           *)
(***************************************************************************)
HostHears(c) == (HostReceive \/ HostSeats \/ HostRefuses) /\ up.id[1] = c
HostHearsNobody ==
  \/ HostPolledInVain /\ (up.kind = "tic" \/ At(poll_addr) = {})
  \/ (HostAbortInLobby \/ HostAbortInGame) /\ At(seats[client_num].addr) = {}
Fairness ==
  /\ WF_vars(PeriodicTick) /\ WF_vars(HostSent) /\ WF_vars(HostHearsNobody)
  /\ WF_vars(HostStartGame)
  /\ \A c \in Clients :
       /\ SF_vars(ClientReply(c)) /\ SF_vars(HostHears(c)) /\ SF_vars(ClientReceive(c))
       /\ WF_vars(ClientLaunch(c))

FairSpec == Spec /\ Fairness
-----------------------------------------------------------------------------
(***************************************************************************)
(* Properties.                                                             *)
(***************************************************************************)
Seated(c, i) == seats[i].id = IdOf(c)

\* Until the game starts the host's table of clients and the players of the
\* lobby that it sends are the same list, without gaps: removing a client,
\* which moves both up, and seating one, keep them together.
TablesAligned ==
  /\ lobby.nplayers >= 1
  /\ ~ in_game => \A i \in Seats :
       /\ lobby.players[i] = seats[i].id
       /\ seats[i].id # NoId <=> i < lobby.nplayers
       /\ i > 0 => (seats[i].id # NoId <=> seats[i].addr # NoAddr)

\* No client is seated twice, under one identity or at one address.
SeatsDistinct ==
  \A i, j \in Seats : i # j /\ NoId \notin {seats[i].id, seats[j].id} =>
    seats[i].id # seats[j].id /\ seats[i].addr # seats[j].addr

\* A version number names one lobby: a client that acknowledges the current
\* one, and so is not sent it again, has it whole, and knows its seat.
VersionNamesLobby ==
  ids[Host] = 1 => \A c \in Clients : seen[c].seq = lobby.seq =>
    /\ seen[c].players = lobby.players /\ seen[c].nplayers = lobby.nplayers
    /\ \A i \in Seats : Seated(c, i) => player_num[c] = i

\* Every client that starts the game in its seat starts it with the players of
\* all the others, and so does the host unless its start was overtaken.
RosterAgreed ==
  in_game =>
    /\ overtaken \/ host_roster = RosterOf(lobby, 0)
    /\ \A c \in Clients, i \in Seats :
         launched[c] /\ Seated(c, i) => roster[c] = RosterOf(lobby, i)

\* In a game a seat is never moved or given to somebody else: its number is
\* the place of its player's commands in every tic.
SeatsFixed ==
  [][in_game => \A i \in Seats : seats'[i].id \in {seats[i].id, NoId}]_vars

\* The model has run out of versions for another newcomer.
AtBound == ~ in_game /\ ~ MayChangeLobby

\* A client that stays in the foyer is shown the lobby with its name in it, or
\* learns why it is not.
Joined ==
  \A c \in Clients : OnBus(c) ~>
    \/ ~ OnBus(c) \/ launched[c] \/ AtBound
    \/ lobby.nplayers = NetMaxPlayers /\ \A i \in Seats : ~ Seated(c, i)
    \/ seen[c].status \in {"started", "incompatible"}
    \/ seen[c].status = "waiting" /\ player_num[c] > 0

\* Once the game is started, every client in a seat starts it or is lost.
StartSeen ==
  \A c \in Clients : in_game /\ OnBus(c) /\ (\E i \in Seats : Seated(c, i)) ~>
    launched[c] \/ ~ OnBus(c) \/ \A i \in Seats : ~ Seated(c, i)
=============================================================================
