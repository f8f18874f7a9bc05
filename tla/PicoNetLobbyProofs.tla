------------------------- MODULE PicoNetLobbyProofs -------------------------
(***************************************************************************)
(* The lobby for any number of seats, clients, addresses, identities and   *)
(* versions.                                                               *)
(*                                                                         *)
(* Identities are never used twice, a seat and the board that holds its    *)
(* identity have one address, and a game once started is never left: from  *)
(* these it follows that a newcomer is not seated already, that a message  *)
(* for a seat reaches its board only, and that a board which takes itself  *)
(* for started has the lobby the game was started with.                    *)
(***************************************************************************)
EXTENDS PicoNetLobby, TLAPS, FiniteSetTheorems, WellFoundedInduction

-----------------------------------------------------------------------------
(***************************************************************************)
(* The inductive invariant.                                                *)
(***************************************************************************)

\* The phase of the game, and what the version number has left.
Phase ==
  /\ starting => ~ in_game
  /\ lobby.status = IF in_game THEN "started" ELSE "waiting"
  /\ lobby.seq >= 1
  /\ ~ in_game => lobby.seq < MaxSeq /\ \A i \in Seats : ~ seats[i].heard

\* The players of the lobby: no gaps, nobody twice, the host first.
Players ==
  /\ lobby.nplayers >= 1
  /\ lobby.players[0] = IdOf(Host) /\ ids[Host] >= 1
  /\ \A i \in Seats : lobby.players[i] # NoId <=> i < lobby.nplayers
  /\ \A i \in Seats \ {0} : lobby.players[i] # NoId => lobby.players[i][1] \in Clients
  /\ \A i, j \in Seats : lobby.players[i] = lobby.players[j] => i = j \/ lobby.players[i] = NoId

\* The seats: those of the players, as long as they stay.
Table ==
  /\ seats[0].id = IdOf(Host) /\ seats[0].addr = NoAddr
  /\ \A i \in Seats : seats[i].id # NoId \/ ~ in_game => seats[i].id = lobby.players[i]
  /\ \A i \in Seats \ {0} : seats[i].id # NoId <=> seats[i].addr # NoAddr
  /\ \A i, j \in Seats : seats[i].addr = seats[j].addr => i = j \/ seats[i].addr = NoAddr

\* While the host reads or polls, the polled address is nobody's; the seat it
\* reads from is taken unless a game has emptied it.
Cycle ==
  /\ protocol_state \in {"recv", "poll"} => poll_addr \notin SeatAddrs
  /\ protocol_state = "recv" =>
       /\ client_num \in Seats \ {0}
       /\ ~ in_game => seats[client_num].addr # NoAddr

\* No identity is about that no board has taken.
Known(id) == id[2] <= ids[id[1]]
AllKnown ==
  /\ \A i \in Seats : Known(lobby.players[i])
  /\ Known(up.id) /\ Known(poll_client_id)
  /\ \A c \in Clients : Known(down[c].id)

\* A board's address is that of its seat, and not that of another board.
Placed ==
  /\ \A c \in Clients, i \in Seats : Seated(c, i) => seats[i].addr = addr[c]
  /\ \A c, d \in Clients : OnBus(c) /\ OnBus(d) /\ addr[c] = addr[d] => c = d

\* Who answers a poll is not seated, and answers from where it was polled.
Polled ==
  protocol_state = "poll" /\ up.kind = "lobby" =>
    /\ up.id[1] \in Clients
    /\ \A i \in Seats : seats[i].id # up.id
    /\ \A c \in Clients : up.id = IdOf(c) => addr[c] = poll_addr

\* A game that a board has heard of has begun.
Begun ==
  /\ \A c \in Clients : launched[c] \/ seen[c].status = "started" => in_game
  /\ \A c \in Clients : down[c].lobby.status = "started" => in_game

\* A board whose tics are heard, or that gets some, is in the game.
Heard ==
  /\ \A c \in Clients, i \in Seats :
       Seated(c, i) /\ OnBus(c) /\ seats[i].heard => launched[c]
  /\ protocol_state = "recv" /\ up.kind = "tic" =>
       \A c \in Clients : Seated(c, client_num) /\ OnBus(c) => launched[c]
  /\ \A c \in Clients :
       down[c].kind = "tic" /\ down[c].id = IdOf(c) /\ OnBus(c) => launched[c]

\* Nobody is told that the game has begun without it who is in it.
Out(id) == in_game /\ \A i \in Seats : seats[i].id = id => id = NoId
Left ==
  /\ poll_error_response = "started" => Out(poll_client_id)
  /\ \A c \in Clients : down[c].kind = "started" => Out(down[c].id)

\* What a board knows of the lobby it starts with.
SameLobby(l) == l.players = lobby.players /\ l.nplayers = lobby.nplayers
Informed ==
  /\ \A c \in Clients :
       down[c].kind = "lobby" /\ down[c].lobby.status = "started" => SameLobby(down[c].lobby)
  /\ \A c \in Clients, i \in Seats :
       Seated(c, i) /\ seen[c].status = "started" => SameLobby(seen[c]) /\ player_num[c] = i
  /\ \A c \in Clients, i \in Seats :
       Seated(c, i) /\ launched[c] => roster[c] = RosterOf(lobby, i)
  /\ overtaken \/ ~ (starting \/ in_game) \/ host_roster = RosterOf(lobby, 0)

\* As long as the host has opened one lobby, a version is one lobby.
OneVersion ==
  ids[Host] = 1 => \A c \in Clients :
    /\ seen[c].seq <= lobby.seq
    /\ seen[c].seq = lobby.seq =>
         SameLobby(seen[c]) /\ \A i \in Seats : Seated(c, i) => player_num[c] = i
    /\ down[c].kind = "lobby" =>
         /\ down[c].lobby.seq <= lobby.seq
         /\ down[c].lobby.seq = lobby.seq => SameLobby(down[c].lobby)

LobbyInv ==
  /\ TypeOK
  /\ Phase /\ Players /\ Table /\ Cycle /\ AllKnown /\ Placed /\ Polled
  /\ Begun /\ Heard /\ Left /\ Informed /\ OneVersion

-----------------------------------------------------------------------------
(***************************************************************************)
(* Constants, and the operators of the model.                              *)
(***************************************************************************)
LEMMA ConstantFacts ==
  /\ NetMaxPlayers \in Nat /\ NetMaxPlayers >= 2
  /\ Seats \subseteq Nat /\ 0 \in Seats /\ \A i \in Seats : i < NetMaxPlayers
  /\ \A i \in Nat : i < NetMaxPlayers => i \in Seats
  /\ NoAddr \notin Addrs /\ 1 \in Addrs /\ Addrs \subseteq Nat
  /\ MaxIds \in Nat /\ MaxSeq \in Nat /\ MaxSeq >= 2
  /\ NoId \in Ids /\ Host \notin Clients
  /\ \A id \in Ids : id = <<id[1], id[2]>> /\ id[1] \in Clients \cup {Host} /\ id[2] \in 0 .. MaxIds
  /\ \A id : id[1] \in Clients => id # NoId
  BY ClientsAssumption, SeatsAssumption, AddrAssumption, BoundsAssumption
     DEF Seats, Addrs, NoAddr, Ids, NoId

LEMMA RecordFacts ==
  /\ NoSeat \in Seat /\ NoLobby \in Lobby /\ NoUp \in UpMsg /\ NoDown \in DownMsg
  /\ NoRoster \in Roster
  BY ConstantFacts
     DEF Seat, NoSeat, Lobby, NoLobby, UpMsg, NoUp, DownMsg, NoDown, Roster, NoRoster

\* A set of numbers has a least one.
LEMMA Least ==
  ASSUME NEW S, S \subseteq Nat, S # {}
  PROVE  \E x \in S : \A y \in S : x <= y
<1>1. PICK x \in S : \A y \in S : ~ (<<y, x>> \in OpToRel(<, Nat))
  BY NatLessThanWellFounded, WFMin
<1>2. ASSUME NEW y \in S
      PROVE  x <= y
  <2>1. <<y, x>> \in Nat \X Nat /\ <<y, x>>[1] = y /\ <<y, x>>[2] = x
    OBVIOUS
  <2>2. ~ (y < x)
    BY <1>1, <2>1 DEF OpToRel
  <2> QED BY <2>2
<1> QED BY <1>2

\* Where an identity sits.
LEMMA SeatInIs ==
  ASSUME NEW version \in Lobby, NEW id
  PROVE  /\ SeatIn(version, id) \in Seats \cup {-1}
         /\ \A i \in Seats :
              version.players[i] = id /\ (\A j \in Seats : version.players[j] = id => j = i)
                => SeatIn(version, id) = i
<1>1. CASE ~ \E i \in Seats : version.players[i] = id
  BY <1>1 DEF SeatIn
<1>2. CASE \E i \in Seats : version.players[i] = id
  <2> DEFINE back == {n \in Nat : \E i \in Seats : version.players[i] = id /\ n = NetMaxPlayers - i}
  <2>1. back # {}
    BY <1>2, ConstantFacts
  <2>2. PICK n \in back : \A m \in back : n <= m
    BY <2>1, Least
  <2>3. PICK i \in Seats : version.players[i] = id /\ n = NetMaxPlayers - i
    OBVIOUS
  <2>4. ASSUME NEW j \in Seats, j > i
        PROVE  version.players[j] # id
    <3>1. NetMaxPlayers - j \in Nat /\ NetMaxPlayers - j < n
      BY <2>3, <2>4, ConstantFacts
    <3> QED BY <2>2, <3>1, ConstantFacts
  <2>5. \E k \in Seats : version.players[k] = id /\ \A j \in Seats : j > k => version.players[j] # id
    BY <2>3, <2>4
  <2>6. /\ SeatIn(version, id) \in Seats
        /\ version.players[SeatIn(version, id)] = id
    BY <1>2, <2>5 DEF SeatIn
  <2> QED BY <2>6
<1> QED BY <1>1, <1>2

\* The host goes on reading, or polls.
LEMMA ReceiveAfterDoes ==
  ASSUME NEW k \in Nat, NEW table, ReceiveAfter(k, table)
  PROVE  \/ /\ protocol_state' = "poll" /\ client_num' = NetMaxPlayers
            /\ poll_error_response' = "none"
         \/ /\ protocol_state' = "recv" /\ client_num' \in Seats \ {0}
            /\ table[client_num'].addr # NoAddr
            /\ UNCHANGED poll_error_response
BY ConstantFacts DEF ReceiveAfter, First

\* What is written to a seat.
LEMMA HostMsgIs ==
  ASSUME NEW seat \in Seat, NEW version \in Lobby
  PROVE  /\ HostMsg(seat, version) \in DownMsg
         /\ HostMsg(seat, version).id \in {seat.id, NoId}
         /\ HostMsg(seat, version).kind \in {"none", "lobby", "tic"}
         /\ HostMsg(seat, version).kind = "tic" =>
              in_game /\ seat.heard /\ HostMsg(seat, version).id = seat.id
         /\ HostMsg(seat, version).lobby \in {version, NoLobby}
         /\ HostMsg(seat, version).kind = "lobby" => HostMsg(seat, version).lobby = version
BY RecordFacts, ConstantFacts DEF HostMsg, NoDown, DownMsg, Seat

-----------------------------------------------------------------------------
(***************************************************************************)
(* There is always an address to poll.                                     *)
(***************************************************************************)
LEMMA SomeAddrFree ==
  ASSUME TypeOK, Table
  PROVE  \E a \in Addrs : a \notin SeatAddrs
<1> SUFFICES ASSUME \A a \in Addrs : a \in SeatAddrs
             PROVE  FALSE
  OBVIOUS
<1> DEFINE taken == 1 .. NetMaxPlayers - 1
           holder == [a \in Addrs |-> CHOOSE i \in taken : seats[i].addr = a]
<1>1. ASSUME NEW a \in Addrs
      PROVE  \E i \in taken : seats[i].addr = a
  <2>1. PICK i \in Seats : seats[i].addr = a
    BY DEF SeatAddrs
  <2>2. i # 0
    BY <2>1, ConstantFacts DEF Table
  <2> QED BY <2>1, <2>2, ConstantFacts DEF Seats
<1>2. holder \in [Addrs -> taken] /\ \A a \in Addrs : seats[holder[a]].addr = a
  BY <1>1
<1>3. IsFiniteSet(Addrs) /\ Cardinality(Addrs) = AddrCount
  BY FS_Interval, AddrAssumption, SeatsAssumption DEF Addrs
<1>4. IsFiniteSet(taken) /\ Cardinality(taken) = NetMaxPlayers - 1
  BY FS_Interval, ConstantFacts
<1>5. Cardinality(taken) < Cardinality(Addrs)
  BY <1>3, <1>4, AddrAssumption, ConstantFacts
<1> HIDE DEF taken, holder
<1>6. \E a, b \in Addrs : a # b /\ holder[a] = holder[b]
  BY <1>2, <1>3, <1>4, <1>5, FS_PigeonHole
<1> QED BY <1>2, <1>6

\* The remainder of a number that is less than twice the divisor.
LEMMA ModIs ==
  ASSUME NEW n \in Nat \ {0}, NEW k \in 0 .. 2 * n - 1
  PROVE  (k % n) = IF k < n THEN k ELSE k - n
<1> DEFINE q == k \div n
<1>1. q \in Int /\ (k % n) \in 0 .. n - 1 /\ k = n * q + (k % n)
  OBVIOUS
<1>2. ASSUME NEW j \in Int, NEW r \in 0 .. n - 1, k = n * j + r
      PROVE  r = IF k < n THEN k ELSE k - n
  <2>1. CASE j <= -1
    <3>1. n * j <= -n
      BY <2>1
    <3> QED BY <3>1, <1>2
  <2>2. CASE j = 0
    BY <2>2, <1>2
  <2>3. CASE j = 1
    BY <2>3, <1>2
  <2>4. CASE j >= 2
    <3>1. n * j >= 2 * n
      BY <2>4
    <3> QED BY <3>1, <1>2
  <2> QED BY <2>1, <2>2, <2>3, <2>4
<1> HIDE DEF q
<1> QED BY <1>1, <1>2

LEMMA NextPollAddrIs ==
  ASSUME TypeOK, Table
  PROVE  NextPollAddr \in Addrs /\ NextPollAddr \notin SeatAddrs
<1>1. AddrCount \in Nat \ {0} /\ poll_addr \in 1 .. AddrCount
  BY AddrAssumption, SeatsAssumption DEF TypeOK, Addrs
<1>2. \A k \in 1 .. AddrCount :
        AddrAfter(k) = IF poll_addr + k <= AddrCount THEN poll_addr + k
                       ELSE poll_addr + k - AddrCount
  <2> SUFFICES ASSUME NEW k \in 1 .. AddrCount
               PROVE  AddrAfter(k) = IF poll_addr + k <= AddrCount THEN poll_addr + k
                                     ELSE poll_addr + k - AddrCount
    OBVIOUS
  <2>1. PICK m : m = poll_addr - 1 + k
    OBVIOUS
  <2>2. m \in 0 .. 2 * AddrCount - 1
    BY <1>1, <2>1
  <2>3. (m % AddrCount) = IF m < AddrCount THEN m ELSE m - AddrCount
    BY <1>1, <2>2, ModIs
  <2> QED BY <1>1, <2>1, <2>2, <2>3 DEF AddrAfter
<1>3. PICK a \in Addrs : a \notin SeatAddrs
  BY SomeAddrFree
<1> DEFINE k == IF a > poll_addr THEN a - poll_addr ELSE a - poll_addr + AddrCount
<1>4. k \in 1 .. AddrCount /\ AddrAfter(k) = a
  BY <1>1, <1>2 DEF Addrs
<1>5. k \in FreeSteps /\ FreeSteps \subseteq Nat
  BY <1>3, <1>4 DEF FreeSteps
<1>6. \E x \in FreeSteps : \A y \in FreeSteps : x <= y
  BY <1>5, Least
<1>7. \E x \in FreeSteps : NextPollAddr = AddrAfter(x)
  BY <1>6 DEF NextPollAddr
<1> QED BY <1>1, <1>2, <1>7 DEF FreeSteps, Addrs

-----------------------------------------------------------------------------
(***************************************************************************)
(* Types.                                                                  *)
(***************************************************************************)
LEMMA WrittenType ==
  ASSUME TypeOK, NEW a, NEW msg \in DownMsg
  PROVE  Written(a, msg) \in [Clients -> DownMsg]
BY DEF Written, TypeOK

\* What sending leaves, as far as types go.
LEMMA SendTypes ==
  ASSUME TypeOK, NEW k, NEW table \in [Seats -> Seat], NEW version \in Lobby,
         NEW refusal \in {"none"} \cup Refusal, poll_client_id' \in Ids,
         SendAfter(k, table, version, refusal)
  PROVE  /\ protocol_state' \in {"send", "answer", "end"}
         /\ client_num' \in 0 .. NetMaxPlayers
         /\ down' \in [Clients -> DownMsg]
         /\ poll_error_response' \in {"none"} \cup Refusal
<1>1. CASE \E i \in Seats : /\ protocol_state' = "send" /\ client_num' = i
                            /\ down' = Written(table[i].addr, HostMsg(table[i], version))
                            /\ poll_error_response' = refusal
  BY <1>1, HostMsgIs, WrittenType, ConstantFacts
<1>2. CASE /\ refusal # "none" /\ protocol_state' = "answer" /\ client_num' = NetMaxPlayers
           /\ down' = Written(poll_addr, [NoDown EXCEPT !.kind = refusal, !.id = poll_client_id'])
           /\ poll_error_response' = "none"
  <2>1. [NoDown EXCEPT !.kind = refusal, !.id = poll_client_id'] \in DownMsg
    BY <1>2, RecordFacts DEF DownMsg, NoDown
  <2> QED BY <1>2, <2>1, WrittenType, ConstantFacts
<1>3. CASE /\ protocol_state' = "end" /\ client_num' = NetMaxPlayers
           /\ UNCHANGED <<down, poll_error_response>>
  BY <1>3, ConstantFacts DEF TypeOK
<1> QED BY <1>1, <1>2, <1>3 DEF SendAfter

\* Tables with a seat taken away or given.
LEMMA MovedUpType ==
  ASSUME NEW S, NEW f \in [Seats -> S], NEW k, NEW last \in S
  PROVE  /\ MovedUp(f, k, last) \in [Seats -> S]
         /\ \A i \in Seats : MovedUp(f, k, last)[i] =
              IF i < k THEN f[i] ELSE IF i < NetMaxPlayers - 1 THEN f[i + 1] ELSE last
BY ConstantFacts DEF MovedUp

LEMMA RemovedTypes ==
  ASSUME TypeOK, Phase, Players, ~ in_game, NEW k
  PROVE  WithoutSeat(k) \in [Seats -> Seat] /\ WithoutPlayer(k) \in Lobby
<1>1. Emptied(seats[NetMaxPlayers - 1]) \in Seat /\ seats \in [Seats -> Seat]
  <2>1. NetMaxPlayers - 1 \in Seats
    BY ConstantFacts
  <2>2. seats[NetMaxPlayers - 1] \in Seat
    BY <2>1 DEF TypeOK
  <2> QED BY <2>2, ConstantFacts DEF Emptied, TypeOK, Seat
<1>2. lobby.players \in [Seats -> Ids] /\ NoId \in Ids
  BY ConstantFacts DEF TypeOK, Lobby
<1>3. MovedUp(lobby.players, k, NoId) \in [Seats -> Ids]
  BY <1>2, MovedUpType
<1>4. lobby.nplayers - 1 \in 0 .. NetMaxPlayers /\ lobby.seq + 1 \in 0 .. MaxSeq
  BY ConstantFacts DEF TypeOK, Lobby, Phase, Players
<1> QED BY <1>1, <1>3, <1>4, MovedUpType DEF WithoutSeat, WithoutPlayer, Lobby, TypeOK

\* The seat of a newcomer.
LEMMA WelcomeTypes ==
  ASSUME TypeOK, Phase, Players, NEW id \in Ids, Refused(id) = "none"
  PROVE  /\ ~ in_game /\ lobby.nplayers \in Seats \ {0}
         /\ SeatTaken(id) \in [Seats -> Seat] /\ Welcome(id) \in Lobby
<1>1. ~ in_game /\ lobby.nplayers < NetMaxPlayers
  BY ConstantFacts DEF Refused, TypeOK, Lobby
<1>2. lobby.nplayers \in Seats \ {0} /\ lobby.nplayers + 1 \in 0 .. NetMaxPlayers
  BY <1>1, ConstantFacts DEF TypeOK, Lobby, Players
<1>3. lobby.seq + 1 \in 0 .. MaxSeq
  BY <1>1, ConstantFacts DEF TypeOK, Lobby, Phase
<1>4. SeatTaken(id) \in [Seats -> Seat]
  BY <1>2 DEF SeatTaken, TypeOK, Seat
<1>5. Welcome(id) \in Lobby
  BY <1>2, <1>3 DEF Welcome, TypeOK, Lobby
<1> QED BY <1>1, <1>2, <1>4, <1>5

LEMMA OpenTypes ==
  ASSUME NEW id \in Ids
  PROVE  OpenSeats(id) \in [Seats -> Seat] /\ OpenLobby(id) \in Lobby
<1>1. [NoSeat EXCEPT !.id = id] \in Seat /\ NoSeat \in Seat
  BY RecordFacts DEF NoSeat, Seat
<1>2. OpenSeats(id) \in [Seats -> Seat]
  BY <1>1 DEF OpenSeats
<1>3. OpenLobby(id) \in Lobby
  BY ConstantFacts DEF OpenLobby, Lobby
<1> QED BY <1>2, <1>3

LEMMA RosterType ==
  ASSUME NEW version \in Lobby, NEW num \in Seats
  PROVE  RosterOf(version, num) \in Roster
BY ConstantFacts DEF RosterOf, Roster, Lobby

HostTypes ==
  /\ protocol_state \in {"recv", "poll", "send", "answer", "end"}
  /\ client_num \in 0 .. NetMaxPlayers
  /\ poll_addr \in Addrs
  /\ poll_client_id \in Ids
  /\ poll_error_response \in {"none"} \cup Refusal
  /\ up \in UpMsg
  /\ in_game \in BOOLEAN /\ starting \in BOOLEAN /\ overtaken \in BOOLEAN
  /\ host_roster \in Roster

TableTypes == seats \in [Seats -> Seat] /\ lobby \in Lobby

BoardTypes ==
  /\ down \in [Clients -> DownMsg]
  /\ role \in [Clients -> {"none", "client"}]
  /\ addr \in [Clients -> Addrs]
  /\ seen \in [Clients -> Lobby]
  /\ player_num \in [Clients -> Seats \cup {-1}]
  /\ roster \in [Clients -> Roster]
  /\ launched \in [Clients -> BOOLEAN]
  /\ ids \in [Clients \cup {Host} -> 0 .. MaxIds]

LEMMA TypesSplit == TypeOK <=> HostTypes /\ TableTypes /\ BoardTypes
BY DEF TypeOK, HostTypes, TableTypes, BoardTypes

LEMMA TypesNext == HostTypes' /\ TableTypes' /\ BoardTypes' => TypeOK'
BY DEF TypeOK, HostTypes, TableTypes, BoardTypes

LEMMA IdOfType ==
  ASSUME TypeOK
  PROVE  \A n \in Clients \cup {Host} : IdOf(n) \in Ids
BY DEF TypeOK, IdOf, Ids

LEMMA HostTypeStep ==
  ASSUME LobbyInv, HostStep
  PROVE  TypeOK'
<1> USE DEF cycleVars, pollVars, startVars, tableVars, hostVars, clientVars
<1>1. TypeOK /\ Phase /\ Players /\ Table /\ Cycle
  BY DEF LobbyInv
<1>2. HostTypes /\ TableTypes /\ BoardTypes
  BY <1>1, TypesSplit
<1>3. \A table : \A k \in Nat : ReceiveAfter(k, table) =>
        /\ protocol_state' \in {"recv", "poll"} /\ client_num' \in 0 .. NetMaxPlayers
        /\ poll_error_response' \in {"none"} \cup Refusal
  BY <1>2, ReceiveAfterDoes, ConstantFacts DEF HostTypes
<1>4. client_num \in Nat /\ NoUp \in UpMsg
  BY <1>2, RecordFacts DEF HostTypes
<1>5. CASE PeriodicTick
  <2>1. HostTypes'
    BY <1>1, <1>2, <1>3, <1>4, <1>5, NextPollAddrIs DEF PeriodicTick, HostTypes
  <2>2. TableTypes' /\ BoardTypes'
    BY <1>2, <1>5 DEF PeriodicTick, TableTypes, BoardTypes
  <2> QED BY <2>1, <2>2, TypesNext
<1>6. CASE HostReceive
  <2>1. seats' \in [Seats -> Seat]
    <3>1. client_num \in Seats /\ up.seq \in 0 .. MaxSeq
      BY <1>1, <1>2, <1>6 DEF HostReceive, Cycle, HostTypes, UpMsg
    <3> QED BY <1>2, <1>6, <3>1 DEF HostReceive, TableTypes, Seat
  <2>2. HostTypes'
    BY <1>2, <1>3, <1>4, <1>6 DEF HostReceive, HostTypes
  <2>3. TableTypes' /\ BoardTypes'
    BY <1>2, <1>6, <2>1 DEF HostReceive, TableTypes, BoardTypes
  <2> QED BY <2>2, <2>3, TypesNext
<1>7. CASE HostReceiveShort
  <2>1. HostTypes'
    BY <1>2, <1>3, <1>4, <1>7 DEF HostReceiveShort, HostTypes
  <2>2. TableTypes' /\ BoardTypes'
    BY <1>2, <1>7 DEF HostReceiveShort, TableTypes, BoardTypes
  <2> QED BY <2>1, <2>2, TypesNext
<1>8. CASE HostAbortInLobby
  <2>1. client_num - 1 \in Nat
    BY <1>1, <1>8, ConstantFacts DEF HostAbortInLobby, Cycle
  <2>2. HostTypes'
    BY <1>2, <1>3, <1>4, <1>8, <2>1 DEF HostAbortInLobby, HostTypes
  <2>3. TableTypes' /\ BoardTypes'
    BY <1>1, <1>2, <1>8, RemovedTypes DEF HostAbortInLobby, TableTypes, BoardTypes
  <2> QED BY <2>2, <2>3, TypesNext
<1>9. \A k \in Seats : EmptyInGame(k) \in [Seats -> Seat]
  BY <1>2, ConstantFacts DEF EmptyInGame, SeatEmptied, Emptied, TableTypes, Seat
<1>10. CASE HostAbortInGame
  <2>1. client_num \in Seats
    BY <1>1, <1>10 DEF HostAbortInGame, Cycle
  <2>2. HostTypes'
    BY <1>2, <1>3, <1>4, <1>10 DEF HostAbortInGame, HostTypes
  <2>3. TableTypes' /\ BoardTypes'
    BY <1>2, <1>9, <1>10, <2>1 DEF HostAbortInGame, TableTypes, BoardTypes
  <2> QED BY <2>2, <2>3, TypesNext
<1>11. ASSUME NEW i \in Seats, HostKick(i)
       PROVE  TypeOK'
  <2>1. HostTypes' /\ TableTypes' /\ BoardTypes'
    BY <1>2, <1>9, <1>11 DEF HostKick, HostTypes, TableTypes, BoardTypes
  <2> QED BY <2>1, TypesNext
<1>12. up.id \in Ids
  BY <1>2 DEF HostTypes, UpMsg
<1>13. CASE HostSeats
  <2>1. TableTypes'
    BY <1>1, <1>12, <1>13, WelcomeTypes DEF HostSeats, TableTypes
  <2>2. HostTypes' /\ BoardTypes'
    BY <1>1, <1>2, <1>4, <1>12, <1>13, <2>1, SendTypes
       DEF HostSeats, HostTypes, BoardTypes, TableTypes
  <2> QED BY <2>1, <2>2, TypesNext
<1>14. CASE HostRefuses
  <2>1. Refused(up.id) \in {"none"} \cup Refusal
    BY DEF Refused, Refusal
  <2>2. HostTypes' /\ TableTypes' /\ BoardTypes'
    BY <1>1, <1>2, <1>4, <1>12, <1>14, <2>1, SendTypes
       DEF HostRefuses, HostTypes, BoardTypes, TableTypes
  <2> QED BY <2>2, TypesNext
<1>15. CASE HostPolledInVain
  <2>1. HostTypes' /\ TableTypes' /\ BoardTypes'
    BY <1>1, <1>2, <1>4, <1>15, SendTypes
       DEF HostPolledInVain, HostTypes, BoardTypes, TableTypes
  <2> QED BY <2>1, TypesNext
<1>16. CASE HostSent
  <2>1. CASE protocol_state = "send" /\ SendAfter(client_num, seats, lobby, poll_error_response)
    <3>1. HostTypes' /\ TableTypes' /\ BoardTypes'
      BY <1>1, <1>2, <1>16, <2>1, SendTypes DEF HostSent, HostTypes, BoardTypes, TableTypes
    <3> QED BY <3>1, TypesNext
  <2>2. CASE protocol_state' = "end" /\ UNCHANGED <<client_num, down, poll_error_response>>
    <3>1. HostTypes' /\ TableTypes' /\ BoardTypes'
      BY <1>2, <1>16, <2>2 DEF HostSent, HostTypes, BoardTypes, TableTypes
    <3> QED BY <3>1, TypesNext
  <2> QED BY <1>16, <2>1, <2>2 DEF HostSent
<1>17. CASE HostReadLobby
  <2>1. HostTypes' /\ TableTypes' /\ BoardTypes'
    BY <1>2, <1>17, RosterType, ConstantFacts DEF HostReadLobby, HostTypes, BoardTypes, TableTypes
  <2> QED BY <2>1, TypesNext
<1>18. CASE HostStartGame
  <2>1. lobby.seq + 1 \in 0 .. MaxSeq
    BY <1>1, <1>2, <1>18, ConstantFacts DEF HostStartGame, Phase, TableTypes, Lobby
  <2>2. lobby' \in Lobby
    BY <1>2, <1>18, <2>1 DEF HostStartGame, StartedLobby, TableTypes, Lobby
  <2>3. HostTypes' /\ TableTypes' /\ BoardTypes'
    BY <1>2, <1>18, <2>2 DEF HostStartGame, HostTypes, BoardTypes, TableTypes
  <2> QED BY <2>3, TypesNext
<1>19. CASE HostRehost
  <2>1. ids' \in [Clients \cup {Host} -> 0 .. MaxIds]
    BY <1>2, <1>19, ConstantFacts DEF HostRehost, BoardTypes
  <2>2. <<Host, ids'[Host]>> \in Ids
    BY <2>1 DEF Ids
  <2>3. HostTypes' /\ TableTypes' /\ BoardTypes'
    BY <1>2, <1>4, <1>19, <2>1, <2>2, OpenTypes, ConstantFacts
       DEF HostRehost, HostTypes, BoardTypes, TableTypes
  <2> QED BY <2>3, TypesNext
<1> QED BY <1>5, <1>6, <1>7, <1>8, <1>10, <1>11, <1>13, <1>14, <1>15, <1>16, <1>17,
           <1>18, <1>19 DEF HostStep

LEMMA ClientTypeStep ==
  ASSUME LobbyInv, NEW c \in Clients, ClientStep(c)
  PROVE  TypeOK'
<1> USE DEF cycleVars, pollVars, startVars, tableVars, hostVars, clientVars
<1>1. TypeOK
  BY DEF LobbyInv
<1>2. HostTypes /\ TableTypes /\ BoardTypes
  BY <1>1, TypesSplit
<1>3. IdOf(c) \in Ids
  BY <1>1, IdOfType
<1> USE <1>2, RecordFacts, ConstantFacts DEF HostTypes, TableTypes, BoardTypes
<1>4. CASE ClientJoin(c)
  BY <1>4, TypesNext DEF ClientJoin
<1>5. CASE ClientQuit(c)
  BY <1>5, TypesNext DEF ClientQuit
<1>6. CASE ClientDrop(c)
  <2>1. [seen[c] EXCEPT !.status = "none", !.seq = 0] \in Lobby
    <3>1. seen[c] \in Lobby
      OBVIOUS
    <3>2. \A l \in Lobby : [l EXCEPT !.status = "none"] \in Lobby
      BY DEF Lobby
    <3>3. \A l \in Lobby : [l EXCEPT !.seq = 0] \in Lobby
      <4>1. 0 \in 0 .. MaxSeq
        BY ConstantFacts
      <4> QED BY <4>1 DEF Lobby
    <3> QED BY <3>1, <3>2, <3>3
  <2>2. seen' = [seen EXCEPT ![c] = [seen[c] EXCEPT !.status = "none", !.seq = 0]]
    BY <1>6 DEF ClientDrop
  <2> QED BY <1>6, <2>1, <2>2, TypesNext DEF ClientDrop
<1>7. CASE ClientReply(c)
  <2>1. up' \in UpMsg
    BY <1>3, <1>7 DEF ClientReply, UpMsg, Lobby, NoUp
  <2> QED BY <1>7, <2>1, TypesNext DEF ClientReply
<1>8. CASE ClientReceive(c)
  <2>1. down[c].lobby \in Lobby
    BY DEF DownMsg
  <2>2. \A k \in {"started", "incompatible"} : [seen[c] EXCEPT !.status = k] \in Lobby
    BY DEF Lobby
  <2>4. seen' \in [Clients -> Lobby]
    <3>1. \/ seen' = [seen EXCEPT ![c] = down[c].lobby]
          \/ \E k \in {"started", "incompatible"} :
               seen' = [seen EXCEPT ![c] = [seen[c] EXCEPT !.status = k]]
          \/ seen' = seen
      BY <1>8 DEF ClientReceive
    <3> QED BY <2>1, <2>2, <3>1
  <2>3. player_num' \in [Clients -> Seats \cup {-1}]
    BY <1>8, <2>1, SeatInIs DEF ClientReceive
  <2> QED BY <1>8, <2>3, <2>4, TypesNext DEF ClientReceive
<1>9. CASE ClientLaunch(c)
  <2>1. player_num[c] \in Seats /\ seen[c] \in Lobby
    BY <1>9 DEF ClientLaunch
  <2> QED BY <1>9, <2>1, RosterType, TypesNext DEF ClientLaunch
<1> QED BY <1>4, <1>5, <1>6, <1>7, <1>8, <1>9 DEF ClientStep

LEMMA TypeStep == LobbyInv /\ [Next]_vars => TypeOK'
<1>1. LobbyInv /\ UNCHANGED vars => TypeOK'
  BY DEF LobbyInv, TypeOK, vars, hostVars, cycleVars, pollVars, startVars, tableVars, clientVars
<1> QED BY <1>1, HostTypeStep, ClientTypeStep DEF Next

-----------------------------------------------------------------------------
(***************************************************************************)
(* The tables.                                                             *)
(***************************************************************************)

\* What a step may do to them.
Quiet == UNCHANGED <<seats, lobby, in_game, starting>> /\ ids'[Host] = ids[Host]

LEMMA TableSteps ==
  ASSUME LobbyInv, [Next]_vars
  PROVE  \/ Quiet \/ HostReceive \/ HostAbortInLobby \/ HostAbortInGame
         \/ (\E i \in Seats : HostKick(i))
         \/ HostSeats \/ HostReadLobby \/ HostStartGame \/ HostRehost
<1> USE DEF cycleVars, pollVars, startVars, tableVars, hostVars, clientVars, Quiet
<1>1. CASE UNCHANGED vars
  BY <1>1 DEF vars
<1>2. ASSUME NEW c \in Clients, ClientStep(c)
      PROVE  Quiet
  <2>1. ids \in [Clients \cup {Host} -> 0 .. MaxIds] /\ c # Host
    BY ConstantFacts DEF LobbyInv, TypeOK
  <2> QED BY <1>2, <2>1 DEF ClientStep, ClientJoin, ClientQuit, ClientDrop, ClientReply,
                            ClientReceive, ClientLaunch
<1>3. CASE HostStep
  BY <1>3 DEF HostStep, PeriodicTick, HostReceiveShort, HostRefuses, HostPolledInVain, HostSent
<1> QED BY <1>1, <1>2, <1>3 DEF Next

\* A seat is taken away in the lobby.
LEMMA AbortMoves ==
  ASSUME LobbyInv, HostAbortInLobby
  PROVE  /\ client_num \in Seats \ {0} /\ client_num < lobby.nplayers
         /\ \A i \in Seats : i < client_num =>
              seats'[i] = seats[i] /\ lobby'.players[i] = lobby.players[i]
         /\ \A i \in Seats : i >= client_num /\ i < NetMaxPlayers - 1 =>
              /\ i + 1 \in Seats
              /\ seats'[i] = seats[i + 1] /\ lobby'.players[i] = lobby.players[i + 1]
         /\ \A i \in Seats : i = NetMaxPlayers - 1 =>
              /\ seats'[i].id = NoId /\ seats'[i].addr = NoAddr /\ lobby'.players[i] = NoId
              /\ seats'[i].heard = seats[i].heard
         /\ lobby'.nplayers = lobby.nplayers - 1 /\ lobby'.seq = lobby.seq + 1
         /\ lobby'.status = lobby.status
         /\ lobby'.nplayers \in Nat
<1>1. client_num \in Seats \ {0} /\ seats[client_num].addr # NoAddr
  BY DEF LobbyInv, Cycle, HostAbortInLobby
<1>2. lobby.players[client_num] # NoId
  BY <1>1 DEF LobbyInv, Table, HostAbortInLobby
<1>3. client_num < lobby.nplayers
  BY <1>1, <1>2 DEF LobbyInv, Players
<1>4. /\ lobby \in Lobby /\ seats \in [Seats -> Seat] /\ lobby.players \in [Seats -> Ids]
      /\ lobby.nplayers \in Nat /\ client_num \in Nat
  BY <1>1, ConstantFacts DEF LobbyInv, TypeOK, Lobby
<1>5. NetMaxPlayers - 1 \in Seats
  BY ConstantFacts
<1>6. /\ seats' = MovedUp(seats, client_num, Emptied(seats[NetMaxPlayers - 1]))
      /\ lobby' = [lobby EXCEPT !.nplayers = @ - 1, !.seq = @ + 1,
                                !.players = MovedUp(@, client_num, NoId)]
  BY DEF HostAbortInLobby, WithoutSeat, WithoutPlayer
<1>7. lobby'.players = MovedUp(lobby.players, client_num, NoId)
  BY <1>4, <1>6 DEF Lobby
<1>8. lobby'.nplayers = lobby.nplayers - 1 /\ lobby'.seq = lobby.seq + 1 /\ lobby'.status = lobby.status
  BY <1>4, <1>6 DEF Lobby
<1>9. LET e == Emptied(seats[NetMaxPlayers - 1])
      IN e.id = NoId /\ e.addr = NoAddr /\ e.heard = seats[NetMaxPlayers - 1].heard
  BY <1>4, <1>5 DEF Emptied, Seat
<1>10. \A i \in Seats : seats'[i] = IF i < client_num THEN seats[i]
                                    ELSE IF i < NetMaxPlayers - 1 THEN seats[i + 1]
                                    ELSE Emptied(seats[NetMaxPlayers - 1])
  BY <1>6 DEF MovedUp
<1>11. \A i \in Seats : lobby'.players[i] = IF i < client_num THEN lobby.players[i]
                                    ELSE IF i < NetMaxPlayers - 1 THEN lobby.players[i + 1]
                                    ELSE NoId
  BY <1>7 DEF MovedUp
<1> QED BY <1>1, <1>3, <1>4, <1>5, <1>8, <1>9, <1>10, <1>11, ConstantFacts

\* A newcomer gets a seat.
LEMMA SeatsMoves ==
  ASSUME LobbyInv, HostSeats
  PROVE  LET n == lobby.nplayers
         IN /\ ~ in_game /\ ~ in_game' /\ n \in Seats \ {0} /\ seats[n].id = NoId
            /\ seats'[n].id = up.id /\ seats'[n].addr = poll_addr /\ seats'[n].heard = seats[n].heard
            /\ lobby'.players[n] = up.id /\ lobby'.nplayers = n + 1
            /\ \A i \in Seats \ {n} : seats'[i] = seats[i] /\ lobby'.players[i] = lobby.players[i]
            /\ lobby'.seq = lobby.seq + 1 /\ lobby'.status = lobby.status
            /\ up.id[1] \in Clients /\ poll_addr \notin SeatAddrs /\ poll_addr # NoAddr
            /\ \A i \in Seats : seats[i].id # up.id
<1>1. up.id \in Ids /\ Refused(up.id) = "none"
  BY DEF LobbyInv, TypeOK, UpMsg, HostSeats
<1>2. ~ in_game /\ lobby.nplayers \in Seats \ {0}
  BY <1>1, WelcomeTypes DEF LobbyInv
<1>3. lobby.players[lobby.nplayers] = NoId
  BY <1>2, ConstantFacts DEF LobbyInv, Players
<1>4. seats[lobby.nplayers].id = NoId
  BY <1>2, <1>3 DEF LobbyInv, Table
<1>5. lobby \in Lobby /\ seats \in [Seats -> Seat]
  BY DEF LobbyInv, TypeOK
<1>6. /\ seats' = [seats EXCEPT ![lobby.nplayers].id = up.id, ![lobby.nplayers].addr = poll_addr]
      /\ lobby' = [lobby EXCEPT !.players[lobby.nplayers] = up.id, !.nplayers = @ + 1, !.seq = @ + 1]
  BY DEF HostSeats, SeatTaken, Welcome
<1>7. /\ seats'[lobby.nplayers].id = up.id /\ seats'[lobby.nplayers].addr = poll_addr
      /\ seats'[lobby.nplayers].heard = seats[lobby.nplayers].heard
      /\ \A i \in Seats \ {lobby.nplayers} : seats'[i] = seats[i]
  BY <1>2, <1>5, <1>6 DEF Seat
<1>8. /\ lobby'.players[lobby.nplayers] = up.id /\ lobby'.nplayers = lobby.nplayers + 1
      /\ \A i \in Seats \ {lobby.nplayers} : lobby'.players[i] = lobby.players[i]
      /\ lobby'.seq = lobby.seq + 1 /\ lobby'.status = lobby.status
  BY <1>2, <1>5, <1>6 DEF Lobby
<1>9. /\ up.id[1] \in Clients /\ poll_addr \notin SeatAddrs
      /\ \A i \in Seats : seats[i].id # up.id
  BY DEF LobbyInv, Polled, Cycle, HostSeats
<1>10. poll_addr # NoAddr
  BY ConstantFacts DEF LobbyInv, TypeOK
<1>11. ~ in_game'
  BY <1>2 DEF HostSeats, startVars
<1> QED BY <1>2, <1>4, <1>7, <1>8, <1>9, <1>10, <1>11

\* A seat is emptied in a game.
LEMMA GameEmpties ==
  ASSUME LobbyInv, HostAbortInGame \/ \E i \in Seats : HostKick(i)
  PROVE  /\ in_game /\ UNCHANGED <<in_game, starting, lobby, ids, poll_addr>>
         /\ \E k \in Seats \ {0} :
              /\ \A i \in Seats \ {k} : seats'[i] = seats[i]
              /\ \/ seats'[k] = seats[k]
                 \/ seats'[k].id = NoId /\ seats'[k].addr = NoAddr
<1>1. /\ in_game /\ UNCHANGED <<in_game, starting, lobby, ids, poll_addr>>
      /\ \E k \in Seats \ {0} : seats' \in {seats, EmptyInGame(k)}
  BY ConstantFacts DEF LobbyInv, Cycle, HostAbortInGame, HostKick, startVars, pollVars
<1>2. PICK k \in Seats \ {0} : seats' \in {seats, EmptyInGame(k)}
  BY <1>1
<1>3. seats \in [Seats -> Seat]
  BY DEF LobbyInv, TypeOK
<1>4. CASE seats' = EmptyInGame(k)
  <2>1. seats' = [seats EXCEPT ![k] = Emptied(@)]
    BY <1>4 DEF EmptyInGame, SeatEmptied
  <2>2. Emptied(seats[k]).id = NoId /\ Emptied(seats[k]).addr = NoAddr
    BY <1>3 DEF Emptied, Seat
  <2>3. seats'[k].id = NoId /\ seats'[k].addr = NoAddr
    BY <1>3, <2>1, <2>2
  <2>4. \A i \in Seats \ {k} : seats'[i] = seats[i]
    BY <1>3, <2>1
  <2> QED BY <1>1, <2>3, <2>4
<1> QED BY <1>1, <1>2, <1>4

\* A reply is heard.
LEMMA ReceiveMoves ==
  ASSUME LobbyInv, HostReceive
  PROVE  /\ client_num \in Seats \ {0} /\ UNCHANGED <<in_game, starting, lobby, ids, poll_addr>>
         /\ \A i \in Seats :
              /\ seats'[i].id = seats[i].id /\ seats'[i].addr = seats[i].addr
              /\ seats'[i].heard # seats[i].heard => i = client_num /\ in_game /\ up.kind = "tic"
<1>1. client_num \in Seats \ {0} /\ seats \in [Seats -> Seat]
  BY DEF LobbyInv, Cycle, HostReceive, TypeOK
<1>2. \/ seats' = [seats EXCEPT ![client_num].acked = up.seq]
      \/ seats' = [seats EXCEPT ![client_num].heard = TRUE] /\ in_game /\ up.kind = "tic"
      \/ seats' = seats
  BY DEF HostReceive
<1>3. UNCHANGED <<in_game, starting, lobby, ids, poll_addr>>
  BY DEF HostReceive, startVars
<1> QED BY <1>1, <1>2, <1>3 DEF Seat

LEMMA RehostMoves ==
  ASSUME LobbyInv, HostRehost
  PROVE  /\ ~ in_game /\ ~ starting /\ UNCHANGED <<in_game, starting>>
         /\ ids'[Host] = ids[Host] + 1 /\ \A c \in Clients : ids'[c] = ids[c]
         /\ seats'[0].id = <<Host, ids'[Host]>> /\ seats'[0].addr = NoAddr
         /\ lobby'.players[0] = <<Host, ids'[Host]>>
         /\ \A i \in Seats \ {0} : /\ seats'[i].id = NoId /\ seats'[i].addr = NoAddr
                                   /\ lobby'.players[i] = NoId
         /\ \A i \in Seats : ~ seats'[i].heard
         /\ lobby'.seq = 1 /\ lobby'.status = "waiting" /\ lobby'.nplayers = 1
BY ConstantFacts DEF LobbyInv, TypeOK, HostRehost, OpenSeats, OpenLobby, NoSeat, startVars

LEMMA StartMoves ==
  ASSUME LobbyInv, HostStartGame
  PROVE  /\ starting /\ in_game' /\ ~ starting' /\ ~ in_game /\ UNCHANGED <<seats, ids>>
         /\ lobby'.players = lobby.players /\ lobby'.nplayers = lobby.nplayers
         /\ lobby'.status = "started" /\ lobby'.seq = lobby.seq + 1
BY DEF LobbyInv, TypeOK, Phase, HostStartGame, StartedLobby, Lobby

LEMMA PhaseStep == LobbyInv /\ [Next]_vars => Phase'
<1> SUFFICES ASSUME LobbyInv, [Next]_vars
             PROVE  Phase'
  OBVIOUS
<1>1. Phase /\ lobby.seq \in Nat /\ in_game \in BOOLEAN /\ starting \in BOOLEAN
  BY ConstantFacts DEF LobbyInv, TypeOK, Lobby
<1>2. CASE Quiet
  BY <1>1, <1>2 DEF Quiet, Phase
<1>3. CASE HostReceive
  BY <1>1, <1>3, ReceiveMoves DEF Phase
<1>4. CASE HostAbortInLobby
  <2>1. ~ in_game /\ UNCHANGED <<in_game, starting>> /\ lobby.seq + 1 < MaxSeq
    BY <1>1, <1>4, ConstantFacts DEF HostAbortInLobby, startVars, MayChangeLobby
  <2>2. \A i \in Seats : ~ seats'[i].heard
    BY <1>1, <1>4, <2>1, AbortMoves, ConstantFacts DEF Phase
  <2> QED BY <1>1, <1>4, <2>1, <2>2, AbortMoves DEF Phase
<1>5. CASE HostAbortInGame \/ \E i \in Seats : HostKick(i)
  BY <1>1, <1>5, GameEmpties DEF Phase
<1>6. CASE HostSeats
  <2>1. UNCHANGED <<in_game, starting>> /\ lobby.seq + 1 < MaxSeq
    BY <1>1, <1>6, ConstantFacts DEF HostSeats, startVars, MayChangeLobby
  <2> QED BY <1>1, <1>6, <2>1, SeatsMoves DEF Phase
<1>7. CASE HostReadLobby
  BY <1>1, <1>7 DEF HostReadLobby, Phase, tableVars
<1>8. CASE HostStartGame
  BY <1>1, <1>8, StartMoves DEF Phase
<1>9. CASE HostRehost
  BY <1>1, <1>9, RehostMoves, ConstantFacts DEF Phase
<1> QED BY <1>2, <1>3, <1>4, <1>5, <1>6, <1>7, <1>8, <1>9, TableSteps

LEMMA PlayersStep == LobbyInv /\ [Next]_vars => Players' /\ Table'
<1> SUFFICES ASSUME LobbyInv, [Next]_vars
             PROVE  Players' /\ Table'
  OBVIOUS
<1>1. Players /\ Table
  BY DEF LobbyInv
<1>2. lobby.nplayers \in Nat /\ lobby.nplayers <= NetMaxPlayers /\ ids[Host] \in Nat
  BY ConstantFacts DEF LobbyInv, TypeOK, Lobby
<1>3. CASE Quiet
  BY <1>1, <1>3 DEF Quiet, Players, Table, IdOf
<1>4. CASE HostReceive
  <2>1. UNCHANGED <<in_game, lobby, ids>>
    BY <1>4, ReceiveMoves
  <2>2. \A i \in Seats : seats'[i].id = seats[i].id /\ seats'[i].addr = seats[i].addr
    BY <1>4, ReceiveMoves
  <2>3. Players'
    BY <1>1, <2>1 DEF Players, IdOf
  <2>4. Table'
    BY <1>1, <2>1, <2>2, ConstantFacts DEF Table, IdOf
  <2> QED BY <2>3, <2>4
<1>5. CASE HostAbortInLobby
  <2>1. ids' = ids /\ ~ in_game
    BY <1>5 DEF HostAbortInLobby
  <2>2. Players'
    BY <1>1, <1>2, <1>5, <2>1, AbortMoves, ConstantFacts DEF Players, IdOf
  <2>3. Table'
    BY <1>1, <1>2, <1>5, <2>1, AbortMoves, ConstantFacts DEF Table, IdOf
  <2> QED BY <2>2, <2>3
<1>6. CASE HostAbortInGame \/ \E i \in Seats : HostKick(i)
  <2>1. in_game' /\ UNCHANGED <<lobby, ids>>
    BY <1>6, GameEmpties
  <2>2. PICK k \in Seats \ {0} :
          /\ \A i \in Seats \ {k} : seats'[i] = seats[i]
          /\ \/ seats'[k] = seats[k]
             \/ seats'[k].id = NoId /\ seats'[k].addr = NoAddr
    BY <1>6, GameEmpties, Zenon
  <2>3. Players'
    BY <1>1, <2>1 DEF Players, IdOf
  <2>4. Table'
    BY <1>1, <2>1, <2>2, ConstantFacts DEF Table, IdOf
  <2> QED BY <2>3, <2>4
<1>7. CASE HostSeats
  <2>1. ids' = ids
    BY <1>7 DEF HostSeats
  <2>2. up.id # NoId /\ \A i \in Seats : lobby.players[i] # up.id
    BY <1>1, <1>7, SeatsMoves, ConstantFacts DEF Table
  <2>3. Players'
    BY <1>1, <1>2, <1>7, <2>1, <2>2, SeatsMoves, ConstantFacts DEF Players, IdOf
  <2>4. \A i \in Seats : seats[i].addr # poll_addr
    BY <1>7, SeatsMoves DEF SeatAddrs
  <2>5. Table'
    BY <1>1, <1>2, <1>7, <2>1, <2>2, <2>4, SeatsMoves, ConstantFacts DEF Table, IdOf
  <2> QED BY <2>3, <2>5
<1>8. CASE HostReadLobby
  BY <1>1, <1>8 DEF HostReadLobby, Players, Table, IdOf, tableVars
<1>9. CASE HostStartGame
  BY <1>1, <1>9, StartMoves DEF Players, Table, IdOf
<1>10. CASE HostRehost
  <2>1. Players'
    BY <1>1, <1>2, <1>10, RehostMoves, ConstantFacts DEF Players, IdOf, NoId
  <2>2. Table'
    BY <1>1, <1>2, <1>10, RehostMoves, ConstantFacts DEF Table, IdOf, NoId
  <2> QED BY <2>1, <2>2
<1> QED BY <1>3, <1>4, <1>5, <1>6, <1>7, <1>8, <1>9, <1>10, TableSteps

-----------------------------------------------------------------------------
(***************************************************************************)
(* The rest of the invariant, which TablesAligned, SeatsDistinct,          *)
(* VersionNamesLobby, RosterAgreed and SeatsFixed follow from.             *)
(***************************************************************************)

\* Once the game has begun the lobby is left alone, and a seat can only be
\* emptied.
LEMMA InGameStep ==
  ASSUME LobbyInv, [Next]_vars, in_game
  PROVE  /\ in_game' /\ lobby' = lobby /\ ~ HostAbortInLobby /\ ~ HostSeats
         /\ \A i \in Seats : seats'[i].id \in {seats[i].id, NoId}
<1>1. ~ starting
  BY DEF LobbyInv, Phase
<1>2. CASE Quiet
  BY <1>2 DEF Quiet, HostAbortInLobby, HostSeats, Refused
<1>3. CASE HostReceive
  BY <1>3, ReceiveMoves DEF HostAbortInLobby, HostSeats, Refused
<1>4. CASE HostAbortInGame \/ \E i \in Seats : HostKick(i)
  <2>1. in_game' /\ lobby' = lobby
    BY <1>4, GameEmpties
  <2>2. \E k \in Seats \ {0} :
          /\ \A i \in Seats \ {k} : seats'[i] = seats[i]
          /\ \/ seats'[k] = seats[k]
             \/ seats'[k].id = NoId /\ seats'[k].addr = NoAddr
    BY <1>4, GameEmpties, Zenon
  <2> QED BY <2>1, <2>2 DEF HostAbortInLobby, HostSeats, Refused
<1>5. ~ HostAbortInLobby /\ ~ HostSeats /\ ~ HostReadLobby /\ ~ HostRehost /\ ~ HostStartGame
  BY <1>1 DEF HostAbortInLobby, HostSeats, Refused, HostReadLobby, HostRehost, HostStartGame
<1> QED BY <1>2, <1>3, <1>4, <1>5, TableSteps

\* Versions of one lobby.
LEMMA VersionGrows ==
  ASSUME LobbyInv, [Next]_vars, ~ HostRehost
  PROVE  \/ lobby' = lobby /\ ~ HostAbortInLobby /\ ~ HostSeats
         \/ lobby'.seq = lobby.seq + 1
<1>1. CASE HostAbortInLobby
  BY <1>1, AbortMoves
<1>2. CASE HostSeats
  BY <1>2, SeatsMoves
<1>3. CASE HostStartGame
  BY <1>3, StartMoves
<1>4. ASSUME Quiet \/ HostReceive \/ HostAbortInGame \/ HostReadLobby
               \/ \E i \in Seats : HostKick(i)
      PROVE  lobby' = lobby
  BY <1>4 DEF Quiet, HostReceive, HostAbortInGame, HostKick, HostReadLobby, tableVars
<1> QED BY <1>1, <1>2, <1>3, <1>4, TableSteps

-----------------------------------------------------------------------------
(***************************************************************************)
(* The boards.                                                             *)
(***************************************************************************)

\* What becomes of what a client knows.
Still(c) == /\ seen'[c] = seen[c] /\ player_num'[c] = player_num[c]
            /\ roster'[c] = roster[c] /\ launched'[c] = launched[c]
Fresh(c) == /\ seen'[c].seq = 0 /\ seen'[c].status = "none" /\ launched'[c] = launched[c]
            /\ ids'[c] = ids[c] + 1
Told(c) ==
  /\ UNCHANGED <<hostVars, ids>> /\ OnBus(c) /\ down[c].id = IdOf(c)
  /\ roster'[c] = roster[c]
  /\ \/ /\ down[c].kind = "lobby" /\ seen'[c] = down[c].lobby
        /\ player_num'[c] = SeatIn(down[c].lobby, IdOf(c)) /\ launched'[c] = launched[c]
     \/ /\ down[c].kind \in {"started", "incompatible"} /\ seen'[c].status = down[c].kind
        /\ seen'[c].seq = seen[c].seq /\ seen'[c].players = seen[c].players
        /\ seen'[c].nplayers = seen[c].nplayers
        /\ player_num'[c] = player_num[c] /\ launched'[c] = launched[c]
     \/ /\ down[c].kind = "tic" /\ launched'[c] = TRUE
        /\ seen'[c] = seen[c] /\ player_num'[c] = player_num[c]
Launches(c) ==
  /\ UNCHANGED <<hostVars, ids>> /\ seen'[c] = seen[c] /\ player_num'[c] = player_num[c]
  /\ seen[c].status = "started" /\ roster'[c] = RosterOf(seen[c], player_num[c])

LEMMA BoardMoves ==
  ASSUME LobbyInv, [Next]_vars, NEW c \in Clients
  PROVE  Still(c) \/ Fresh(c) \/ Told(c) \/ Launches(c)
<1> USE DEF cycleVars, pollVars, startVars, tableVars, hostVars, clientVars
<1>1. /\ ids \in [Clients \cup {Host} -> 0 .. MaxIds] /\ seen \in [Clients -> Lobby]
      /\ player_num \in [Clients -> Seats \cup {-1}] /\ roster \in [Clients -> Roster]
      /\ launched \in [Clients -> BOOLEAN]
  BY DEF LobbyInv, TypeOK
<1>2. CASE HostStep \/ UNCHANGED vars
  BY <1>2 DEF HostStep, PeriodicTick, HostReceive, HostReceiveShort, HostAbortInLobby,
              HostAbortInGame, HostSeats, HostRefuses, HostPolledInVain, HostSent,
              HostReadLobby, HostStartGame, HostRehost, HostKick, vars, Still
<1>3. ASSUME NEW d \in Clients, ClientStep(d), d # c
      PROVE  Still(c)
  BY <1>1, <1>3 DEF ClientStep, ClientJoin, ClientQuit, ClientDrop, ClientReply,
                    ClientReceive, ClientLaunch, Still
<1>4. CASE ClientJoin(c)
  BY <1>1, <1>4 DEF ClientJoin, Fresh, NoLobby
<1>5. CASE ClientQuit(c) \/ ClientReply(c)
  BY <1>5 DEF ClientQuit, ClientReply, Still
<1>6. CASE ClientDrop(c)
  BY <1>1, <1>6 DEF ClientDrop, Fresh, Lobby
<1>7. CASE ClientReceive(c)
  <2>1. \A k \in {"started", "incompatible"} :
          seen' = [seen EXCEPT ![c].status = k] =>
            /\ seen'[c].status = k /\ seen'[c].seq = seen[c].seq
            /\ seen'[c].players = seen[c].players /\ seen'[c].nplayers = seen[c].nplayers
    BY <1>1 DEF Lobby
  <2> QED BY <1>1, <1>7, <2>1 DEF ClientReceive, Still, Told
<1>8. CASE ClientLaunch(c)
  BY <1>1, <1>8 DEF ClientLaunch, Launches
<1> QED BY <1>2, <1>3, <1>4, <1>5, <1>6, <1>7, <1>8 DEF Next, ClientStep

LEMMA BoardLaunches ==
  ASSUME LobbyInv, [Next]_vars, NEW c \in Clients, launched[c]
  PROVE  launched'[c]
<1> USE DEF cycleVars, pollVars, startVars, tableVars, hostVars, clientVars
<1>1. launched \in [Clients -> BOOLEAN]
  BY DEF LobbyInv, TypeOK
<1>2. UNCHANGED launched \/ \E d \in Clients : launched' = [launched EXCEPT ![d] = TRUE]
  <2>1. UNCHANGED vars \/ HostStep => UNCHANGED launched
    BY DEF vars, HostStep, PeriodicTick, HostReceive, HostReceiveShort, HostAbortInLobby,
           HostAbortInGame, HostSeats, HostRefuses, HostPolledInVain, HostSent,
           HostReadLobby, HostStartGame, HostRehost, HostKick
  <2>2. \A d \in Clients : ClientStep(d) =>
          UNCHANGED launched \/ launched' = [launched EXCEPT ![d] = TRUE]
    BY DEF ClientStep, ClientJoin, ClientQuit, ClientDrop, ClientReply, ClientReceive, ClientLaunch
  <2> QED BY <2>1, <2>2 DEF Next
<1> QED BY <1>1, <1>2

\* A board that keeps its identity stays where it is; a new identity is one
\* that nobody knows.
LEMMA IdsMove ==
  ASSUME LobbyInv, [Next]_vars
  PROVE  /\ \A n \in Clients \cup {Host} : ids[n] \in Nat /\ ids'[n] \in {ids[n], ids[n] + 1}
         /\ \A c \in Clients : ids'[c] = ids[c] =>
              addr'[c] = addr[c] /\ (OnBus(c)' => OnBus(c))
         /\ \A c \in Clients : ids'[c] # ids[c] =>
              (ClientJoin(c) \/ ClientDrop(c)) /\ UNCHANGED <<hostVars, up>>
         /\ ids'[Host] = ids[Host] \/ HostRehost
<1> USE DEF cycleVars, pollVars, startVars, tableVars, hostVars, clientVars
<1>1. /\ ids \in [Clients \cup {Host} -> 0 .. MaxIds] /\ MaxIds \in Nat
      /\ addr \in [Clients -> Addrs] /\ role \in [Clients -> {"none", "client"}]
  BY ConstantFacts DEF LobbyInv, TypeOK
<1>2. CASE UNCHANGED vars
  BY <1>1, <1>2 DEF vars, OnBus
<1>3. CASE HostStep
  <2>1. UNCHANGED <<addr, role>> /\ (UNCHANGED ids \/ HostRehost)
    BY <1>3 DEF HostStep, PeriodicTick, HostReceive, HostReceiveShort, HostAbortInLobby,
                HostAbortInGame, HostSeats, HostRefuses, HostPolledInVain, HostSent,
                HostReadLobby, HostStartGame, HostKick, HostRehost
  <2>2. CASE HostRehost
    BY <1>1, <2>1, <2>2, ConstantFacts DEF HostRehost, OnBus
  <2> QED BY <1>1, <2>1, <2>2 DEF OnBus
<1>4. ASSUME NEW d \in Clients, ClientStep(d)
      PROVE  /\ UNCHANGED hostVars /\ d # Host
             /\ \/ /\ UNCHANGED <<ids, addr>>
                   /\ \A c \in Clients : OnBus(c)' => OnBus(c)
                \/ /\ ids' = [ids EXCEPT ![d] = @ + 1] /\ UNCHANGED up
                   /\ ClientJoin(d) \/ ClientDrop(d)
                   /\ \A c \in Clients \ {d} : addr'[c] = addr[c] /\ (OnBus(c)' => OnBus(c))
  BY <1>1, <1>4, ConstantFacts DEF ClientStep, ClientJoin, ClientQuit, ClientDrop, ClientReply,
     ClientReceive, ClientLaunch, OnBus
<1>5. ASSUME NEW d \in Clients, ClientStep(d)
      PROVE  /\ \A n \in Clients \cup {Host} : ids[n] \in Nat /\ ids'[n] \in {ids[n], ids[n] + 1}
             /\ \A c \in Clients : ids'[c] = ids[c] =>
                  addr'[c] = addr[c] /\ (OnBus(c)' => OnBus(c))
             /\ \A c \in Clients : ids'[c] # ids[c] =>
                  (ClientJoin(c) \/ ClientDrop(c)) /\ UNCHANGED <<hostVars, up>>
             /\ ids'[Host] = ids[Host]
  BY <1>1, <1>4, <1>5
<1> QED BY <1>2, <1>3, <1>5 DEF Next

-----------------------------------------------------------------------------
(***************************************************************************)
(* Seats and messages after a step.                                        *)
(***************************************************************************)
LEMMA NoIdIs == ASSUME NEW c \in Clients
                PROVE  IdOf(c) # NoId /\ IdOf(c)' # NoId /\ IdOf(c)[1] = c /\ IdOf(c)[2] = ids[c]
BY ConstantFacts DEF IdOf, NoId

\* Where a client sits after a step, it sat before, unless it has been moved up
\* or has just been given its seat.
LEMMA SeatedBefore ==
  ASSUME LobbyInv, [Next]_vars, NEW c \in Clients, NEW i \in Seats, Seated(c, i)'
  PROVE  /\ ids'[c] = ids[c]
         /\ \/ /\ Seated(c, i) /\ seats'[i].addr = seats[i].addr
               /\ \/ seats'[i].heard = seats[i].heard
                  \/ HostReceive /\ i = client_num /\ up.kind = "tic"
            \/ /\ HostAbortInLobby
               /\ \E j \in Seats : Seated(c, j) /\ seats'[i].addr = seats[j].addr
            \/ HostSeats /\ i = lobby.nplayers /\ up.id = IdOf(c) /\ seats'[i].addr = poll_addr
<1>1. seats'[i].id = <<c, ids'[c]>> /\ seats'[i].id # NoId /\ c # Host
  BY NoIdIs, ConstantFacts DEF Seated, IdOf
<1>2. ids'[c] = ids[c]
  <2> SUFFICES ASSUME ids'[c] # ids[c]
               PROVE  FALSE
    OBVIOUS
  <2>1. ids'[c] = ids[c] + 1 /\ ids[c] \in Nat /\ seats' = seats
    BY IdsMove DEF hostVars, tableVars
  <2>2. seats[i].id = lobby.players[i] /\ Known(lobby.players[i])
    BY <1>1, <2>1 DEF LobbyInv, Table, AllKnown
  <2> QED BY <1>1, <2>1, <2>2 DEF Known
<1>3. CASE seats' = seats
  BY <1>2, <1>3 DEF Seated, IdOf
<1>4. CASE HostReceive
  BY <1>1, <1>2, <1>4, ReceiveMoves DEF Seated, IdOf
<1>5. CASE HostAbortInLobby
  <2>1. \E j \in Seats : seats'[i].id = seats[j].id /\ seats'[i].addr = seats[j].addr
    <3>1. CASE i < client_num
      BY <1>5, <3>1, AbortMoves
    <3>2. CASE i >= client_num /\ i < NetMaxPlayers - 1
      BY <1>5, <3>2, AbortMoves
    <3>3. CASE i = NetMaxPlayers - 1
      BY <1>1, <1>5, <3>3, AbortMoves
    <3>4. client_num \in Nat /\ i \in Nat /\ i <= NetMaxPlayers - 1
      BY <1>5, AbortMoves, ConstantFacts
    <3> QED BY <3>1, <3>2, <3>3, <3>4, ConstantFacts
  <2> QED BY <1>1, <1>2, <1>5, <2>1 DEF Seated, IdOf
<1>6. CASE HostAbortInGame \/ \E k \in Seats : HostKick(k)
  <2>1. \E k \in Seats \ {0} :
          /\ \A j \in Seats \ {k} : seats'[j] = seats[j]
          /\ \/ seats'[k] = seats[k]
             \/ seats'[k].id = NoId /\ seats'[k].addr = NoAddr
    BY <1>6, GameEmpties, Zenon
  <2>2. seats'[i] = seats[i]
    BY <1>1, <2>1
  <2> QED BY <1>1, <1>2, <2>2 DEF Seated, IdOf
<1>7. CASE HostSeats
  BY <1>1, <1>2, <1>7, SeatsMoves DEF Seated, IdOf
<1>8. CASE HostRehost
  <2>1. i = 0 => seats'[i].id = <<Host, ids'[Host]>>
    BY <1>8, RehostMoves
  <2>2. i # 0 => seats'[i].id = NoId
    BY <1>8, RehostMoves
  <2>3. <<c, ids'[c]>>[1] # <<Host, ids'[Host]>>[1]
    BY <1>1
  <2> QED BY <1>1, <2>1, <2>2, <2>3
<1>9. Quiet \/ HostReadLobby \/ HostStartGame => seats' = seats
  BY DEF Quiet, HostReadLobby, HostStartGame, tableVars
<1> QED BY <1>3, <1>4, <1>5, <1>6, <1>7, <1>8, <1>9, TableSteps

\* What a client may find in its buffer after a step.
Addressed(c) ==
  \E i \in Seats : /\ OnBus(c) /\ addr[c] = seats'[i].addr /\ seats'[i].id # NoId
                   /\ down'[c] = HostMsg(seats'[i], lobby')
Answered(c) ==
  \E r \in Refusal : /\ down'[c] = [NoDown EXCEPT !.kind = r, !.id = poll_client_id']
                     /\ r = "started" => Out(poll_client_id')
                     /\ UNCHANGED tableVars

LEMMA SendMoves ==
  ASSUME LobbyInv, NEW k, NEW refusal \in {"none"} \cup Refusal,
         SendAfter(k, seats', lobby', refusal),
         refusal = "started" => Out(poll_client_id'),
         refusal # "none" => UNCHANGED tableVars
  PROVE  /\ protocol_state' \in {"send", "answer", "end"}
         /\ poll_error_response' \in {"none", refusal} \/ UNCHANGED poll_error_response
         /\ \A c \in Clients : down'[c] = down[c] \/ Addressed(c) \/ Answered(c)
<1>1. down \in [Clients -> DownMsg]
  BY DEF LobbyInv, TypeOK
<1>2. CASE \E i \in Seats : /\ seats'[i].id # NoId /\ protocol_state' = "send"
                            /\ down' = Written(seats'[i].addr, HostMsg(seats'[i], lobby'))
                            /\ poll_error_response' = refusal
  BY <1>1, <1>2 DEF Written, At, Addressed
<1>3. CASE /\ refusal # "none" /\ protocol_state' = "answer"
           /\ down' = Written(poll_addr, [NoDown EXCEPT !.kind = refusal, !.id = poll_client_id'])
           /\ poll_error_response' = "none"
  BY <1>1, <1>3 DEF Written, At, Answered
<1>4. CASE protocol_state' = "end" /\ UNCHANGED <<down, poll_error_response>>
  BY <1>4
<1> QED BY <1>2, <1>3, <1>4 DEF SendAfter, First

\* What the host's sending steps do.
LEMMA SendSteps ==
  ASSUME LobbyInv, HostSeats \/ HostRefuses \/ HostPolledInVain \/ HostSent
  PROVE  /\ protocol_state' \in {"send", "answer", "end"}
         /\ poll_error_response' = "started" => Out(poll_client_id') /\ UNCHANGED tableVars
         /\ \A c \in Clients : down'[c] = down[c] \/ Addressed(c) \/ Answered(c)
         /\ UNCHANGED <<startVars, clientVars, ids, poll_addr>>
<1>1. /\ poll_error_response = "started" => Out(poll_client_id)
      /\ poll_error_response \in {"none"} \cup Refusal /\ "none" \in {"none"} \cup Refusal
      /\ Refused(up.id) \in {"none"} \cup Refusal
  BY DEF LobbyInv, Left, TypeOK, Refused, Refusal
<1>2. UNCHANGED <<startVars, clientVars, ids, poll_addr>>
  BY DEF HostSeats, HostRefuses, HostPolledInVain, HostSent
<1>3. CASE HostSeats
  <2>1. SendAfter(0, seats', lobby', "none") /\ ~ in_game
    BY <1>3, SeatsMoves DEF HostSeats
  <2>2. poll_error_response # "started"
    BY <1>1, <2>1 DEF Out
  <2> QED BY <1>1, <1>2, <2>1, <2>2, SendMoves
<1>4. CASE HostRefuses
  <2>1. /\ SendAfter(0, seats', lobby', Refused(up.id)) /\ UNCHANGED tableVars
        /\ poll_client_id' = up.id
    BY <1>4 DEF HostRefuses, tableVars
  <2>2. Refused(up.id) = "started" => in_game
    BY DEF Refused
  <2>3. \A i \in Seats : seats[i].id # up.id
    BY <1>4 DEF LobbyInv, Polled, HostRefuses
  <2>4. poll_error_response # "started" \/ in_game
    BY <1>1 DEF Out
  <2> QED BY <1>1, <1>2, <2>1, <2>2, <2>3, <2>4, SendMoves DEF Out
<1>5. CASE HostPolledInVain
  <2>1. /\ SendAfter(0, seats', lobby', "none") /\ UNCHANGED tableVars
        /\ poll_client_id' = poll_client_id
    BY <1>5 DEF HostPolledInVain, tableVars
  <2> QED BY <1>1, <1>2, <2>1, SendMoves
<1>6. CASE HostSent
  <2>1. UNCHANGED tableVars /\ poll_client_id' = poll_client_id
    BY <1>6 DEF HostSent
  <2>2. CASE SendAfter(client_num, seats', lobby', poll_error_response)
    BY <1>1, <1>2, <2>1, <2>2, SendMoves
  <2>3. CASE protocol_state' = "end" /\ UNCHANGED <<down, poll_error_response>>
    BY <1>1, <1>2, <2>1, <2>3
  <2> QED BY <1>6, <2>2, <2>3 DEF HostSent, tableVars
<1> QED BY <1>3, <1>4, <1>5, <1>6

\* What the host may have read after a step.
Replies(c) ==
  /\ UNCHANGED <<hostVars, clientVars, ids>>
  /\ \/ protocol_state = "recv" /\ c \in At(seats[client_num].addr)
     \/ protocol_state = "poll" /\ c \in At(poll_addr)
  /\ up'.id = IdOf(c) /\ up'.kind = IF launched[c] THEN "tic" ELSE "lobby"

LEMMA UpMoves ==
  ASSUME LobbyInv, [Next]_vars
  PROVE  \/ UNCHANGED <<up, cycleVars, poll_addr>>
         \/ up' = NoUp
         \/ up' = up /\ protocol_state' \in {"send", "answer", "end"}
         \/ \E c \in Clients : Replies(c)
<1> USE DEF cycleVars, pollVars, hostVars
<1>1. CASE UNCHANGED vars
  BY <1>1 DEF vars
<1>2. ASSUME NEW c \in Clients, ClientStep(c)
      PROVE  UNCHANGED <<up, cycleVars, poll_addr>> \/ Replies(c)
  <2>1. CASE ClientReply(c)
    BY <2>1 DEF ClientReply, Replies, NoUp
  <2> QED BY <1>2, <2>1 DEF ClientStep, ClientJoin, ClientQuit, ClientDrop, ClientReceive,
                            ClientLaunch
<1>3. CASE HostSent
  BY <1>3, SendSteps DEF HostSent
<1>4. CASE HostReadLobby \/ HostStartGame \/ \E i \in Seats : HostKick(i)
  BY <1>4 DEF HostReadLobby, HostStartGame, HostKick
<1>5. PeriodicTick \/ HostReceive \/ HostReceiveShort \/ HostAbortInLobby \/ HostAbortInGame
        => up' = NoUp
  BY DEF PeriodicTick, HostReceive, HostReceiveShort, HostAbortInLobby, HostAbortInGame
<1>6. HostSeats \/ HostRefuses \/ HostPolledInVain \/ HostRehost => up' = NoUp
  BY DEF HostSeats, HostRefuses, HostPolledInVain, HostRehost
<1> QED BY <1>1, <1>2, <1>3, <1>4, <1>5, <1>6 DEF Next, HostStep

LEMMA DownMoves ==
  ASSUME LobbyInv, [Next]_vars, NEW c \in Clients
  PROVE  \/ down'[c] = down[c] \/ down'[c] = NoDown
         \/ (Addressed(c) \/ Answered(c)) /\ UNCHANGED <<startVars, clientVars, ids>>
<1>1. CASE HostSeats \/ HostRefuses \/ HostPolledInVain \/ HostSent
  BY <1>1, SendSteps
<1>2. down \in [Clients -> DownMsg]
  BY DEF LobbyInv, TypeOK
<1>3. ASSUME NEW d \in Clients, ClientStep(d)
      PROVE  down'[c] = down[c] \/ down'[c] = NoDown
  BY <1>2, <1>3 DEF ClientStep, ClientJoin, ClientQuit, ClientDrop, ClientReply,
                    ClientReceive, ClientLaunch
<1>4. CASE UNCHANGED vars
  BY <1>4 DEF vars
<1>5. CASE HostStep
  BY <1>1, <1>5 DEF HostStep, PeriodicTick, HostReceive, HostReceiveShort, HostAbortInLobby,
     HostAbortInGame, HostReadLobby, HostStartGame, HostKick, HostRehost
<1> QED BY <1>3, <1>4, <1>5 DEF Next

-----------------------------------------------------------------------------
(***************************************************************************)
(* The conjuncts of the invariant, one by one.                             *)
(***************************************************************************)
LEMMA CycleStep == LobbyInv /\ [Next]_vars => Cycle'
<1> SUFFICES ASSUME LobbyInv, [Next]_vars
             PROVE  Cycle'
  OBVIOUS
<1> USE DEF cycleVars, pollVars, startVars, tableVars, hostVars, clientVars
<1>1. Cycle /\ TypeOK /\ Table
  BY DEF LobbyInv
<1>2. client_num \in Nat /\ poll_addr # NoAddr
  BY <1>1, ConstantFacts DEF TypeOK
<1>3. ASSUME NEW k \in Nat, ReceiveAfter(k, seats'), poll_addr' \notin SeatAddrs'
      PROVE  Cycle'
  <2>1. \/ protocol_state' = "poll"
        \/ /\ protocol_state' = "recv" /\ client_num' \in Seats \ {0}
           /\ seats'[client_num'].addr # NoAddr
    BY <1>3, ReceiveAfterDoes
  <2> QED BY <1>3, <2>1 DEF Cycle
<1>4. CASE UNCHANGED <<cycleVars, poll_addr, seats, in_game>>
  BY <1>1, <1>4 DEF Cycle, SeatAddrs
<1>5. CASE PeriodicTick
  BY <1>1, <1>3, <1>5, NextPollAddrIs DEF PeriodicTick, SeatAddrs
<1>6. CASE HostReceive
  <2>1. poll_addr' = poll_addr /\ poll_addr \notin SeatAddrs
    BY <1>1, <1>6 DEF HostReceive, Cycle
  <2>2. poll_addr' \notin SeatAddrs'
    BY <1>6, <2>1, ReceiveMoves DEF SeatAddrs
  <2> QED BY <1>2, <1>3, <1>6, <2>2 DEF HostReceive
<1>7. CASE HostReceiveShort
  BY <1>1, <1>2, <1>3, <1>7 DEF HostReceiveShort, SeatAddrs, Cycle
<1>8. CASE HostAbortInLobby
  <2>1. poll_addr' = poll_addr /\ poll_addr \notin SeatAddrs
    BY <1>1, <1>8 DEF HostAbortInLobby, Cycle
  <2>2. ASSUME NEW i \in Seats
        PROVE  seats'[i].addr \in SeatAddrs \cup {NoAddr}
    <3>1. CASE i < client_num
      BY <1>8, <3>1, AbortMoves DEF SeatAddrs
    <3>2. CASE i >= client_num /\ i < NetMaxPlayers - 1
      BY <1>8, <3>2, AbortMoves DEF SeatAddrs
    <3>3. CASE i = NetMaxPlayers - 1
      BY <1>8, <3>3, AbortMoves
    <3>4. i \in Nat /\ i <= NetMaxPlayers - 1
      BY ConstantFacts
    <3> QED BY <1>2, <3>1, <3>2, <3>3, <3>4, ConstantFacts
  <2>3. poll_addr' \notin SeatAddrs'
    BY <1>2, <2>1, <2>2 DEF SeatAddrs
  <2>4. client_num - 1 \in Nat
    BY <1>1, <1>8, ConstantFacts DEF HostAbortInLobby, Cycle
  <2> QED BY <1>3, <1>8, <2>3, <2>4 DEF HostAbortInLobby
<1>9. CASE HostAbortInGame \/ \E i \in Seats : HostKick(i)
  <2>1. \E k \in Seats \ {0} :
          /\ \A i \in Seats \ {k} : seats'[i] = seats[i]
          /\ \/ seats'[k] = seats[k]
             \/ seats'[k].id = NoId /\ seats'[k].addr = NoAddr
    BY <1>9, GameEmpties, Zenon
  <2>2. poll_addr' = poll_addr /\ in_game'
    BY <1>9, GameEmpties
  <2>3. poll_addr \notin SeatAddrs => poll_addr' \notin SeatAddrs'
    BY <1>2, <2>1, <2>2 DEF SeatAddrs
  <2>4. CASE HostAbortInGame
    <3>1. poll_addr \notin SeatAddrs
      BY <1>1, <2>4 DEF HostAbortInGame, Cycle
    <3> QED BY <1>2, <1>3, <2>3, <2>4, <3>1 DEF HostAbortInGame
  <2>5. CASE \E i \in Seats : HostKick(i)
    <3>1. UNCHANGED cycleVars
      BY <2>5 DEF HostKick
    <3> QED BY <1>1, <2>2, <2>3, <3>1 DEF Cycle
  <2> QED BY <1>9, <2>4, <2>5
<1>10. CASE HostSeats \/ HostRefuses \/ HostPolledInVain \/ HostSent
  BY <1>10, SendSteps DEF Cycle
<1>11. CASE HostReadLobby
  BY <1>4, <1>11 DEF HostReadLobby
<1>12. CASE HostStartGame
  BY <1>1, <1>12, StartMoves DEF HostStartGame, Cycle, SeatAddrs
<1>13. CASE HostRehost
  BY <1>13 DEF HostRehost, Cycle
<1>14. CASE UNCHANGED vars
  BY <1>4, <1>14 DEF vars
<1>15. ASSUME NEW c \in Clients, ClientStep(c)
       PROVE  Cycle'
  <2>1. UNCHANGED hostVars
    BY <1>15 DEF ClientStep, ClientJoin, ClientQuit, ClientDrop, ClientReply,
                 ClientReceive, ClientLaunch
  <2> QED BY <1>4, <2>1
<1> QED BY <1>5, <1>6, <1>7, <1>8, <1>9, <1>10, <1>11, <1>12, <1>13, <1>14, <1>15
        DEF Next, HostStep

\* What was known stays known.
LEMMA KnownGrows ==
  ASSUME LobbyInv, [Next]_vars, NEW id \in Ids, Known(id)
  PROVE  id[2] <= ids'[id[1]]
<1>1. id[1] \in Clients \cup {Host} /\ id[2] \in Nat
  BY ConstantFacts
<1> QED BY <1>1, IdsMove DEF Known

LEMMA AllKnownStep == LobbyInv /\ [Next]_vars => AllKnown'
<1> SUFFICES ASSUME LobbyInv, [Next]_vars
             PROVE  AllKnown'
  OBVIOUS
<1> USE DEF cycleVars, pollVars, startVars, tableVars, hostVars, clientVars
<1>1. AllKnown /\ TypeOK /\ Table' /\ TypeOK'
  BY PlayersStep, TypeStep DEF LobbyInv
<1>2. /\ \A i \in Seats : lobby.players[i] \in Ids
      /\ up.id \in Ids /\ poll_client_id \in Ids /\ \A c \in Clients : down[c].id \in Ids
  BY <1>1 DEF TypeOK, Lobby, UpMsg, DownMsg
<1>3. /\ \A i \in Seats : Known(lobby.players[i]) => lobby.players[i][2] <= ids'[lobby.players[i][1]]
      /\ up.id[2] <= ids'[up.id[1]] /\ poll_client_id[2] <= ids'[poll_client_id[1]]
      /\ \A c \in Clients : down[c].id[2] <= ids'[down[c].id[1]]
  BY <1>1, <1>2, KnownGrows DEF AllKnown
<1>4. NoId[2] <= ids'[NoId[1]]
  <2>1. ids'[Host] \in Nat
    BY IdsMove
  <2> QED BY <2>1 DEF NoId
<1>5. \A i \in Seats : Known(lobby.players[i])'
  <2> SUFFICES ASSUME NEW i \in Seats
               PROVE  lobby'.players[i][2] <= ids'[lobby'.players[i][1]]
    BY DEF Known
  <2>1. \A j \in Seats : lobby.players[j][2] <= ids'[lobby.players[j][1]]
    BY <1>1, <1>3 DEF AllKnown
  <2>2. CASE \E j \in Seats : lobby'.players[i] = lobby.players[j]
    BY <2>1, <2>2
  <2>3. CASE lobby'.players[i] \in {NoId, up.id}
    BY <1>3, <1>4, <2>3
  <2>4. CASE lobby'.players[i] = <<Host, ids'[Host]>>
    <3>1. ids'[Host] \in Nat
      BY IdsMove
    <3> QED BY <2>4, <3>1
  <2>5. CASE HostAbortInLobby
    <3>1. CASE i < client_num
      BY <2>2, <2>5, <3>1, AbortMoves
    <3>2. CASE i >= client_num /\ i < NetMaxPlayers - 1
      BY <2>2, <2>5, <3>2, AbortMoves
    <3>3. CASE i = NetMaxPlayers - 1
      BY <2>3, <2>5, <3>3, AbortMoves
    <3>4. i \in Nat /\ i <= NetMaxPlayers - 1 /\ client_num \in Nat
      BY <2>5, AbortMoves, ConstantFacts
    <3> QED BY <3>1, <3>2, <3>3, <3>4, ConstantFacts
  <2>6. CASE HostSeats
    BY <2>2, <2>3, <2>6, SeatsMoves
  <2>7. CASE HostStartGame
    BY <2>2, <2>7, StartMoves
  <2>8. CASE HostRehost
    BY <2>3, <2>4, <2>8, RehostMoves
  <2>9. Quiet \/ HostReceive \/ HostAbortInGame \/ HostReadLobby \/ (\E k \in Seats : HostKick(k))
          => lobby' = lobby
    BY DEF Quiet, HostReceive, HostAbortInGame, HostReadLobby, HostKick
  <2> QED BY <2>2, <2>5, <2>6, <2>7, <2>8, <2>9, TableSteps
<1>6. Known(up.id)'
  <2>1. up'.id \in {up.id, NoId} \/ \E c \in Clients : up'.id = IdOf(c) /\ UNCHANGED ids
    BY UpMoves DEF NoUp, Replies
  <2>2. \A c \in Clients : ids[c] \in Nat
    BY IdsMove
  <2> QED BY <1>3, <1>4, <2>1, <2>2 DEF Known, IdOf
<1>7. Known(poll_client_id)'
  <2>1. poll_client_id' \in {poll_client_id, up.id, NoId}
    BY DEF Next, HostStep, PeriodicTick, HostReceive, HostReceiveShort, HostAbortInLobby,
       HostAbortInGame, HostSeats, HostRefuses, HostPolledInVain, HostSent, HostReadLobby,
       HostStartGame, HostKick, HostRehost, ClientStep, ClientJoin, ClientQuit, ClientDrop,
       ClientReply, ClientReceive, ClientLaunch, vars
  <2> QED BY <1>3, <1>4, <2>1 DEF Known
<1>8. ASSUME NEW c \in Clients
      PROVE  Known(down[c].id)'
  <2>1. CASE down'[c] = down[c]
    BY <1>3, <2>1 DEF Known
  <2>2. CASE down'[c] = NoDown
    BY <1>4, <2>2 DEF Known, NoDown
  <2>3. CASE Addressed(c)
    <3>1. PICK i \in Seats : seats'[i].id # NoId /\ down'[c] = HostMsg(seats'[i], lobby')
      BY <2>3 DEF Addressed
    <3>2. down'[c].id \in {seats'[i].id, NoId}
      BY <1>1, <3>1, HostMsgIs DEF TypeOK
    <3>3. seats'[i].id = lobby'.players[i]
      BY <1>1, <3>1 DEF Table
    <3> QED BY <1>4, <1>5, <3>2, <3>3 DEF Known
  <2>4. CASE Answered(c)
    <3>1. down'[c].id = poll_client_id'
      BY <2>4 DEF Answered, NoDown
    <3> QED BY <1>7, <3>1 DEF Known
  <2> QED BY <2>1, <2>2, <2>3, <2>4, DownMoves
<1> QED BY <1>5, <1>6, <1>7, <1>8 DEF AllKnown

LEMMA PlacedStep == LobbyInv /\ [Next]_vars => Placed'
<1> SUFFICES ASSUME LobbyInv, [Next]_vars
             PROVE  Placed'
  OBVIOUS
<1>1. Placed /\ TypeOK
  BY DEF LobbyInv
<1>2. ASSUME NEW c \in Clients, NEW i \in Seats, Seated(c, i)'
      PROVE  seats'[i].addr = addr'[c]
  <2>1. addr'[c] = addr[c]
    BY <1>2, SeatedBefore, IdsMove
  <2>2. CASE HostSeats /\ up.id = IdOf(c) /\ seats'[i].addr = poll_addr
    BY <2>1, <2>2 DEF LobbyInv, Polled, HostSeats
  <2> QED BY <1>1, <1>2, <2>1, <2>2, SeatedBefore DEF Placed
<1>3. ASSUME NEW c \in Clients, NEW d \in Clients, OnBus(c)', OnBus(d)', addr'[c] = addr'[d], c # d
      PROVE  FALSE
  <2>1. ASSUME NEW e \in Clients, NEW f \in Clients, e # f, ids'[e] # ids[e], OnBus(f)'
        PROVE  addr'[e] # addr'[f]
    <3>1. ClientJoin(e) \/ ClientDrop(e)
      BY <2>1, IdsMove
    <3>2. PICK a \in Addrs : MayDraw(e, a) /\ addr' = [addr EXCEPT ![e] = a]
      BY <3>1 DEF ClientJoin, ClientDrop
    <3>3. OnBus(f)
      BY <1>1, <2>1, <3>1 DEF ClientJoin, ClientDrop, OnBus, TypeOK
    <3>4. addr[f] # a
      BY <2>1, <3>2, <3>3 DEF MayDraw
    <3> QED BY <1>1, <2>1, <3>2, <3>4 DEF TypeOK
  <2>2. ids'[c] = ids[c] /\ ids'[d] = ids[d]
    BY <1>3, <2>1
  <2>3. addr'[c] = addr[c] /\ addr'[d] = addr[d] /\ OnBus(c) /\ OnBus(d)
    BY <1>3, <2>2, IdsMove
  <2> QED BY <1>1, <1>3, <2>3 DEF Placed
<1>4. (\A c \in Clients, i \in Seats : Seated(c, i) => seats[i].addr = addr[c])'
  BY <1>2
<1>5. (\A c, d \in Clients : OnBus(c) /\ OnBus(d) /\ addr[c] = addr[d] => c = d)'
  BY <1>3
<1> QED BY <1>4, <1>5 DEF Placed

LEMMA PolledStep == LobbyInv /\ [Next]_vars => Polled'
<1> SUFFICES ASSUME LobbyInv, [Next]_vars, protocol_state' = "poll", up'.kind = "lobby"
             PROVE  /\ up'.id[1] \in Clients
                    /\ \A i \in Seats : seats'[i].id # up'.id
                    /\ \A c \in Clients : up'.id = IdOf(c)' => addr'[c] = poll_addr'
  BY DEF Polled
<1>1. TypeOK /\ Polled /\ Cycle /\ Placed /\ AllKnown
  BY DEF LobbyInv
<1>2. ASSUME NEW c \in Clients, Replies(c)
      PROVE  /\ up'.id[1] \in Clients
             /\ \A i \in Seats : seats'[i].id # up'.id
             /\ \A d \in Clients : up'.id = IdOf(d)' => addr'[d] = poll_addr'
  <2>1. /\ UNCHANGED <<seats, poll_addr, addr, ids, protocol_state>> /\ up'.id = IdOf(c)
        /\ c \in At(poll_addr)
    BY <1>2 DEF Replies, hostVars, clientVars, cycleVars, pollVars, tableVars
  <2>2. addr[c] = poll_addr /\ poll_addr \notin SeatAddrs
    BY <1>1, <2>1 DEF At, Cycle
  <2>3. \A i \in Seats : ~ Seated(c, i)
    BY <1>1, <2>2 DEF Placed, SeatAddrs
  <2> QED BY <2>1, <2>2, <2>3, NoIdIs DEF Seated, IdOf
<1>3. CASE UNCHANGED <<up, cycleVars, poll_addr>>
  <2>1. /\ protocol_state = "poll" /\ up.kind = "lobby" /\ up' = up /\ poll_addr' = poll_addr
        /\ up.id[1] \in Clients /\ up.id # NoId /\ up.id \in Ids
    BY <1>1, <1>3, ConstantFacts DEF cycleVars, Polled, TypeOK, UpMsg
  <2>2. \A i \in Seats : seats'[i].id \in {seats[i].id, NoId}
    <3>1. ~ HostReceive /\ ~ HostAbortInLobby /\ ~ HostAbortInGame
      BY <2>1 DEF HostReceive, HostAbortInLobby, HostAbortInGame
    <3>2. ~ HostSeats /\ ~ HostRehost
      BY SendSteps DEF HostRehost
    <3>3. in_game => \A i \in Seats : seats'[i].id \in {seats[i].id, NoId}
      BY InGameStep
    <3>4. (\E i \in Seats : HostKick(i)) => in_game
      BY DEF HostKick
    <3>5. Quiet \/ HostReadLobby \/ HostStartGame => seats' = seats
      BY DEF Quiet, HostReadLobby, HostStartGame, tableVars
    <3> QED BY <3>1, <3>2, <3>3, <3>4, <3>5, TableSteps
  <2>3. ASSUME NEW c \in Clients, up.id = IdOf(c)'
        PROVE  addr'[c] = poll_addr
    <3>1. ids[c] \in Nat /\ ids'[c] \in {ids[c], ids[c] + 1} /\ up.id = <<c, ids'[c]>>
      BY <2>3, IdsMove DEF IdOf
    <3>2. up.id[2] <= ids[c]
      BY <1>1, <3>1 DEF AllKnown, Known
    <3>3. ids'[c] = ids[c]
      BY <3>1, <3>2
    <3> QED BY <1>1, <2>1, <3>1, <3>3, IdsMove DEF Polled, IdOf
  <2> QED BY <1>1, <2>1, <2>2, <2>3 DEF Polled
<1>4. up' # NoUp
  BY DEF NoUp
<1> QED BY <1>2, <1>3, <1>4, UpMoves

LEMMA BegunStep == LobbyInv /\ [Next]_vars => Begun'
<1> SUFFICES ASSUME LobbyInv, [Next]_vars
             PROVE  Begun'
  OBVIOUS
<1>1. Begun /\ Heard /\ Left /\ Phase'
  BY PhaseStep DEF LobbyInv
<1>2. in_game => in_game'
  BY InGameStep
<1>3. ASSUME NEW c \in Clients, launched'[c] \/ seen'[c].status = "started"
      PROVE  in_game'
  <2>1. Still(c) \/ Fresh(c) \/ Launches(c) => in_game
    BY <1>1, <1>3 DEF Still, Fresh, Launches, Begun
  <2>2. Told(c) => in_game
    BY <1>1, <1>3 DEF Told, Begun, Heard, Left, Out
  <2> QED BY <1>2, <2>1, <2>2, BoardMoves
<1>4. ASSUME NEW c \in Clients, down'[c].lobby.status = "started"
      PROVE  in_game'
  <2>1. CASE down'[c] = down[c]
    BY <1>1, <1>2, <1>4, <2>1 DEF Begun
  <2>2. CASE down'[c] = NoDown \/ Answered(c)
    <3>1. down'[c] = NoDown => down'[c].lobby = NoLobby
      BY DEF NoDown
    <3>2. Answered(c) => down'[c].lobby = NoLobby
      BY DEF Answered, NoDown
    <3> QED BY <1>4, <2>2, <3>1, <3>2 DEF NoLobby
  <2>3. CASE Addressed(c)
    <3>1. TypeOK'
      BY TypeStep
    <3>2. down'[c].lobby \in {lobby', NoLobby}
      BY <2>3, <3>1, HostMsgIs DEF Addressed, TypeOK
    <3>3. NoLobby.status # "started"
      BY DEF NoLobby
    <3> QED BY <1>1, <1>4, <3>2, <3>3 DEF Phase
  <2> QED BY <2>1, <2>2, <2>3, DownMoves
<1> QED BY <1>3, <1>4 DEF Begun

LEMMA HeardStep == LobbyInv /\ [Next]_vars => Heard'
<1> SUFFICES ASSUME LobbyInv, [Next]_vars
             PROVE  Heard'
  OBVIOUS
<1>1. Heard /\ Placed /\ TypeOK /\ TypeOK' /\ Phase' /\ AllKnown
  BY PhaseStep, TypeStep DEF LobbyInv
<1>2. ASSUME NEW c \in Clients, launched[c]
      PROVE  launched'[c]
  BY <1>2, BoardLaunches
<1>3. ASSUME NEW c \in Clients, NEW i \in Seats, Seated(c, i)', OnBus(c)', seats'[i].heard
      PROVE  launched'[c]
  <2>1. OnBus(c)
    BY <1>3, SeatedBefore, IdsMove
  <2>2. CASE Seated(c, i) /\ seats'[i].heard = seats[i].heard
    BY <1>1, <1>2, <1>3, <2>1, <2>2 DEF Heard
  <2>3. CASE Seated(c, i) /\ HostReceive /\ i = client_num /\ up.kind = "tic"
    BY <1>1, <1>2, <2>1, <2>3 DEF Heard, HostReceive
  <2>4. CASE HostAbortInLobby \/ HostSeats
    <3>1. ~ in_game'
      BY <2>4, SeatsMoves DEF HostAbortInLobby, startVars
    <3> QED BY <1>1, <1>3, <3>1 DEF Phase
  <2> QED BY <1>3, <2>2, <2>3, <2>4, SeatedBefore
<1>4. ASSUME protocol_state' = "recv", up'.kind = "tic",
             NEW c \in Clients, Seated(c, client_num)', OnBus(c)'
      PROVE  launched'[c]
  <2>1. CASE \E d \in Clients : Replies(d)
    <3>1. PICK d \in Clients : Replies(d)
      BY <2>1
    <3>2. /\ UNCHANGED <<seats, client_num, protocol_state, ids, role, addr>>
          /\ d \in At(seats[client_num].addr) /\ launched[d]
      BY <1>4, <3>1 DEF Replies, hostVars, clientVars, cycleVars, tableVars
    <3>3. client_num \in Seats
      BY <1>4, <3>2 DEF LobbyInv, Cycle
    <3>4. Seated(c, client_num) /\ OnBus(c)
      BY <1>4, <3>2 DEF Seated, IdOf, OnBus
    <3>5. c = d
      BY <1>1, <3>2, <3>3, <3>4 DEF Placed, At
    <3> QED BY <1>2, <3>2, <3>5
  <2>2. CASE UNCHANGED <<up, cycleVars, poll_addr>>
    <3>1. protocol_state = "recv" /\ up.kind = "tic" /\ client_num' = client_num
      BY <1>4, <2>2 DEF cycleVars
    <3>2. client_num \in Seats
      BY <3>1 DEF LobbyInv, Cycle
    <3>3. PICK i \in Seats : i = client_num /\ Seated(c, i)'
      BY <1>4, <3>1, <3>2 DEF Seated
    <3>4. OnBus(c) /\ (Seated(c, i) \/ HostAbortInLobby \/ HostSeats)
      BY <1>4, <3>3, SeatedBefore, IdsMove
    <3>5. up # NoUp
      BY <3>1 DEF NoUp
    <3>6. ~ HostAbortInLobby /\ ~ HostSeats
      BY <2>2, <3>5 DEF HostAbortInLobby, HostSeats
    <3> QED BY <1>1, <1>2, <3>1, <3>3, <3>4, <3>6 DEF Heard, Seated
  <2>3. up' # NoUp
    BY <1>4 DEF NoUp
  <2> QED BY <1>4, <2>1, <2>2, <2>3, UpMoves
<1>5. ASSUME NEW c \in Clients, down'[c].kind = "tic", down'[c].id = IdOf(c)', OnBus(c)'
      PROVE  launched'[c]
  <2>1. CASE down'[c] = down[c]
    <3>1. ids[c] \in Nat /\ ids'[c] \in {ids[c], ids[c] + 1} /\ down[c].id = <<c, ids'[c]>>
      BY <1>5, <2>1, IdsMove DEF IdOf
    <3>2. down[c].id[2] <= ids[c]
      BY <1>1, <3>1 DEF AllKnown, Known
    <3>3. ids'[c] = ids[c]
      BY <3>1, <3>2
    <3> QED BY <1>1, <1>2, <1>5, <2>1, <3>1, <3>3, IdsMove DEF Heard, IdOf
  <2>2. down'[c] # NoDown
    BY <1>5 DEF NoDown
  <2>3. ~ Answered(c)
    BY <1>5 DEF Answered, NoDown, Refusal
  <2>4. CASE Addressed(c)
    <3>1. PICK i \in Seats : down'[c] = HostMsg(seats'[i], lobby')
      BY <2>4 DEF Addressed
    <3>2. seats'[i].heard /\ down'[c].id = seats'[i].id
      BY <1>1, <1>5, <3>1, HostMsgIs DEF TypeOK
    <3> QED BY <1>3, <1>5, <3>2 DEF Seated
  <2> QED BY <2>1, <2>2, <2>3, <2>4, DownMoves
<1>6. (\A c \in Clients, i \in Seats :
         Seated(c, i) /\ OnBus(c) /\ seats[i].heard => launched[c])'
  BY <1>3
<1>7. (protocol_state = "recv" /\ up.kind = "tic" =>
         \A c \in Clients : Seated(c, client_num) /\ OnBus(c) => launched[c])'
  BY <1>4
<1>8. (\A c \in Clients :
         down[c].kind = "tic" /\ down[c].id = IdOf(c) /\ OnBus(c) => launched[c])'
  BY <1>5
<1> QED BY <1>6, <1>7, <1>8 DEF Heard

LEMMA LeftStep == LobbyInv /\ [Next]_vars => Left'
<1> SUFFICES ASSUME LobbyInv, [Next]_vars
             PROVE  Left'
  OBVIOUS
<1>1. Left /\ TypeOK'
  BY TypeStep DEF LobbyInv
<1>2. ASSUME NEW id, Out(id)
      PROVE  in_game' /\ \A i \in Seats : seats'[i].id = id => id = NoId
  BY <1>2, InGameStep DEF Out
<1>3. ASSUME poll_error_response' = "started"
      PROVE  in_game' /\ \A i \in Seats : seats'[i].id = poll_client_id' => poll_client_id' = NoId
  <2>1. CASE HostSeats \/ HostRefuses \/ HostPolledInVain \/ HostSent
    BY <1>2, <1>3, <2>1, SendSteps
  <2>2. CASE UNCHANGED <<poll_error_response, poll_client_id>>
    BY <1>1, <1>2, <1>3, <2>2 DEF Left
  <2>3. ASSUME PeriodicTick \/ HostReceive \/ HostReceiveShort \/ HostAbortInLobby \/ HostAbortInGame
        PROVE  UNCHANGED <<poll_error_response, poll_client_id>>
    <3>1. poll_client_id' = poll_client_id /\ \E k, t : ReceiveAfter(k, t)
      BY <2>3 DEF PeriodicTick, HostReceive, HostReceiveShort, HostAbortInLobby, HostAbortInGame
    <3> QED BY <1>3, <3>1 DEF ReceiveAfter
  <2>4. ~ HostRehost
    BY <1>3 DEF HostRehost
  <2>5. HostReadLobby \/ HostStartGame \/ (\E i \in Seats : HostKick(i)) \/ UNCHANGED vars
          => UNCHANGED <<poll_error_response, poll_client_id>>
    BY DEF HostReadLobby, HostStartGame, HostKick, vars, hostVars, pollVars
  <2>6. \A c \in Clients : ClientStep(c) => UNCHANGED <<poll_error_response, poll_client_id>>
    BY DEF ClientStep, ClientJoin, ClientQuit, ClientDrop, ClientReply,
           ClientReceive, ClientLaunch, hostVars, pollVars
  <2> QED BY <2>1, <2>2, <2>3, <2>4, <2>5, <2>6 DEF Next, HostStep
<1>4. ASSUME NEW c \in Clients, down'[c].kind = "started"
      PROVE  in_game' /\ \A i \in Seats : seats'[i].id = down'[c].id => down'[c].id = NoId
  <2>1. CASE down'[c] = down[c]
    BY <1>1, <1>2, <1>4, <2>1 DEF Left
  <2>2. down'[c] # NoDown
    BY <1>4 DEF NoDown
  <2>3. ASSUME Addressed(c)
        PROVE  FALSE
    <3>1. PICK i \in Seats : down'[c] = HostMsg(seats'[i], lobby')
      BY <2>3 DEF Addressed
    <3>2. down'[c].kind \in {"none", "lobby", "tic"}
      BY <1>1, <3>1, HostMsgIs DEF TypeOK
    <3> QED BY <1>4, <3>2
  <2>4. CASE Answered(c)
    <3>1. down'[c].id = poll_client_id' /\ Out(poll_client_id')
      BY <1>4, <2>4 DEF Answered, NoDown
    <3> QED BY <1>2, <3>1
  <2> QED BY <2>1, <2>2, <2>3, <2>4, DownMoves
<1> QED BY <1>3, <1>4 DEF Left, Out

LEMMA RosterIs ==
  ASSUME NEW l, NEW m, NEW i, l.players = m.players, l.nplayers = m.nplayers
  PROVE  RosterOf(l, i) = RosterOf(m, i)
BY DEF RosterOf

\* A lobby with the host's players shows a client its own seat.
LEMMA SeatShown ==
  ASSUME LobbyInv, NEW l \in Lobby, SameLobby(l), NEW c \in Clients, NEW i \in Seats, Seated(c, i)
  PROVE  SeatIn(l, IdOf(c)) = i
<1>1. lobby.players[i] = IdOf(c) /\ IdOf(c) # NoId
  BY NoIdIs DEF LobbyInv, Table, Seated
<1>2. \A j \in Seats : lobby.players[j] = IdOf(c) => j = i
  BY <1>1 DEF LobbyInv, Players
<1> QED BY <1>1, <1>2, SeatInIs DEF SameLobby

LEMMA InformedStep == LobbyInv /\ [Next]_vars => Informed'
<1> SUFFICES ASSUME LobbyInv, [Next]_vars
             PROVE  Informed'
  OBVIOUS
<1>1. Informed /\ Begun /\ Heard /\ Left /\ TypeOK /\ TypeOK' /\ Phase
  BY TypeStep DEF LobbyInv
<1>2. in_game => lobby' = lobby /\ in_game'
  BY InGameStep
<1>3. ASSUME NEW c \in Clients, down'[c].kind = "lobby", down'[c].lobby.status = "started"
      PROVE  down'[c].lobby.players = lobby'.players /\ down'[c].lobby.nplayers = lobby'.nplayers
  <2>1. CASE down'[c] = down[c]
    BY <1>1, <1>2, <1>3, <2>1 DEF Informed, SameLobby, Begun
  <2>2. down'[c] # NoDown
    BY <1>3 DEF NoDown
  <2>3. ~ Answered(c)
    BY <1>3 DEF Answered, NoDown, Refusal
  <2>4. CASE Addressed(c)
    <3>1. PICK i \in Seats : down'[c] = HostMsg(seats'[i], lobby')
      BY <2>4 DEF Addressed
    <3>2. down'[c].lobby = lobby'
      BY <1>1, <1>3, <3>1, HostMsgIs DEF TypeOK
    <3> QED BY <3>2
  <2> QED BY <2>1, <2>2, <2>3, <2>4, DownMoves
<1>4. ASSUME NEW c \in Clients, NEW i \in Seats, Seated(c, i)', in_game
      PROVE  Seated(c, i) /\ lobby' = lobby /\ ids'[c] = ids[c]
  BY <1>4, SeatedBefore, InGameStep
<1>5. ASSUME NEW c \in Clients, NEW i \in Seats, Seated(c, i)', seen'[c].status = "started"
      PROVE  /\ seen'[c].players = lobby'.players /\ seen'[c].nplayers = lobby'.nplayers
             /\ player_num'[c] = i
  <2>1. CASE Still(c) \/ Launches(c)
    <3>1. seen'[c] = seen[c] /\ player_num'[c] = player_num[c]
      BY <2>1 DEF Still, Launches
    <3>2. in_game
      BY <1>1, <1>5, <3>1 DEF Begun
    <3> QED BY <1>1, <1>4, <1>5, <3>1, <3>2 DEF Informed, SameLobby
  <2>2. ~ Fresh(c)
    BY <1>5 DEF Fresh
  <2>3. CASE Told(c)
    <3>1. /\ UNCHANGED <<seats, lobby, ids>> /\ Seated(c, i) /\ down[c].id = IdOf(c)
          /\ IdOf(c) # NoId
      BY <1>5, <2>3, NoIdIs DEF Told, hostVars, tableVars, Seated, IdOf
    <3>2. ASSUME /\ down[c].kind = "lobby" /\ seen'[c] = down[c].lobby
                 /\ player_num'[c] = SeatIn(down[c].lobby, IdOf(c))
          PROVE  /\ seen'[c].players = lobby'.players /\ seen'[c].nplayers = lobby'.nplayers
                 /\ player_num'[c] = i
      <4>1. SameLobby(down[c].lobby) /\ down[c].lobby \in Lobby
        BY <1>1, <1>5, <3>2 DEF Informed, TypeOK, DownMsg
      <4> QED BY <3>1, <3>2, <4>1, SeatShown DEF SameLobby
    <3>3. ~ (down[c].kind = "started")
      BY <1>1, <3>1 DEF Left, Out, Seated
    <3>4. CASE down[c].kind = "tic" /\ seen'[c] = seen[c] /\ player_num'[c] = player_num[c]
      BY <1>1, <1>5, <3>1, <3>4 DEF Informed, SameLobby
    <3> QED BY <1>5, <2>3, <3>2, <3>3, <3>4 DEF Told
  <2> QED BY <2>1, <2>2, <2>3, BoardMoves
<1>6. ASSUME NEW c \in Clients, NEW i \in Seats, Seated(c, i)', launched'[c]
      PROVE  roster'[c] = RosterOf(lobby', i)
  <2>1. ASSUME launched[c], roster'[c] = roster[c]
        PROVE  roster'[c] = RosterOf(lobby', i)
    BY <1>1, <1>4, <1>6, <2>1 DEF Begun, Informed
  <2>2. CASE Still(c)
    BY <1>6, <2>1, <2>2 DEF Still
  <2>3. ids'[c] = ids[c] /\ ids[c] \in Nat
    BY <1>6, SeatedBefore, IdsMove
  <2>4. ~ Fresh(c)
    BY <2>3 DEF Fresh
  <2>5. CASE Told(c)
    BY <1>1, <1>6, <2>1, <2>5 DEF Told, Heard
  <2>6. CASE Launches(c)
    <3>1. UNCHANGED <<seats, lobby, ids>> /\ Seated(c, i)
      BY <1>6, <2>6 DEF Launches, hostVars, tableVars, Seated, IdOf
    <3>2. SameLobby(seen[c]) /\ player_num[c] = i
      BY <1>1, <2>6, <3>1 DEF Launches, Informed
    <3>3. RosterOf(seen[c], player_num[c]) = RosterOf(lobby, i)
      BY <3>2, RosterIs DEF SameLobby
    <3> QED BY <2>6, <3>1, <3>3 DEF Launches
  <2> QED BY <2>2, <2>4, <2>5, <2>6, BoardMoves
<1>7. overtaken' \/ ~ (starting' \/ in_game') \/ host_roster' = RosterOf(lobby', 0)
  <2>1. CASE UNCHANGED <<startVars, lobby, overtaken>>
    BY <1>1, <2>1 DEF Informed, startVars
  <2>2. CASE HostAbortInLobby \/ HostSeats
    <3>1. ~ in_game /\ UNCHANGED startVars /\ overtaken' = (overtaken \/ starting)
      BY <2>2, SeatsMoves DEF HostAbortInLobby, HostSeats
    <3> QED BY <3>1 DEF startVars
  <2>3. CASE HostReadLobby
    BY <2>3 DEF HostReadLobby, tableVars
  <2>4. CASE HostStartGame
    <3>1. /\ starting /\ lobby'.players = lobby.players /\ lobby'.nplayers = lobby.nplayers
          /\ UNCHANGED <<host_roster, overtaken>>
      BY <2>4, StartMoves DEF HostStartGame
    <3>2. RosterOf(lobby', 0) = RosterOf(lobby, 0)
      BY <3>1, RosterIs
    <3> QED BY <1>1, <3>1, <3>2 DEF Informed
  <2>5. CASE HostRehost
    BY <2>5, RehostMoves
  <2>6. UNCHANGED vars \/ (\E c \in Clients : ClientStep(c)) => UNCHANGED <<startVars, lobby, overtaken>>
    BY DEF vars, ClientStep, ClientJoin, ClientQuit, ClientDrop, ClientReply,
           ClientReceive, ClientLaunch, hostVars, tableVars
  <2>7. PeriodicTick \/ HostReceive \/ HostReceiveShort \/ HostAbortInGame \/ HostRefuses
          \/ HostPolledInVain \/ HostSent \/ (\E i \in Seats : HostKick(i))
        => UNCHANGED <<startVars, lobby, overtaken>>
    BY DEF PeriodicTick, HostReceive, HostReceiveShort, HostAbortInGame, HostRefuses,
           HostPolledInVain, HostSent, HostKick, tableVars
  <2> QED BY <2>1, <2>2, <2>3, <2>4, <2>5, <2>6, <2>7 DEF Next, HostStep
<1> QED BY <1>3, <1>5, <1>6, <1>7 DEF Informed, SameLobby

LEMMA OneVersionStep == LobbyInv /\ [Next]_vars => OneVersion'
<1> SUFFICES ASSUME LobbyInv, [Next]_vars, ids'[Host] = 1, NEW c \in Clients
             PROVE  /\ seen'[c].seq <= lobby'.seq
                    /\ seen'[c].seq = lobby'.seq =>
                         /\ seen'[c].players = lobby'.players /\ seen'[c].nplayers = lobby'.nplayers
                         /\ \A i \in Seats : Seated(c, i)' => player_num'[c] = i
                    /\ down'[c].kind = "lobby" =>
                         /\ down'[c].lobby.seq <= lobby'.seq
                         /\ down'[c].lobby.seq = lobby'.seq =>
                              /\ down'[c].lobby.players = lobby'.players
                              /\ down'[c].lobby.nplayers = lobby'.nplayers
  BY DEF OneVersion, SameLobby
<1>1. TypeOK /\ TypeOK' /\ Phase /\ Phase'
  BY TypeStep, PhaseStep DEF LobbyInv
<1>2. ids[Host] = 1 /\ ~ HostRehost
  <2>1. ids[Host] >= 1 /\ ids[Host] \in Nat /\ ids'[Host] \in {ids[Host], ids[Host] + 1}
    BY IdsMove DEF LobbyInv, Players
  <2> QED BY <2>1, RehostMoves
<1>3. /\ seen[c].seq <= lobby.seq
      /\ seen[c].seq = lobby.seq =>
           SameLobby(seen[c]) /\ \A i \in Seats : Seated(c, i) => player_num[c] = i
      /\ down[c].kind = "lobby" =>
           /\ down[c].lobby.seq <= lobby.seq
           /\ down[c].lobby.seq = lobby.seq => SameLobby(down[c].lobby)
  BY <1>2 DEF LobbyInv, OneVersion
<1>4. /\ lobby.seq \in Nat \ {0} /\ lobby'.seq \in Nat \ {0} /\ lobby' \in Lobby
      /\ seen[c].seq \in Nat /\ down[c].lobby.seq \in Nat /\ down[c].lobby \in Lobby
  BY <1>1, ConstantFacts DEF TypeOK, Lobby, DownMsg, Phase
<1>5. \/ lobby' = lobby /\ ~ HostAbortInLobby /\ ~ HostSeats
      \/ lobby'.seq = lobby.seq + 1
  BY <1>2, VersionGrows
<1>6. ASSUME /\ seen'[c].seq = seen[c].seq /\ seen'[c].players = seen[c].players
             /\ seen'[c].nplayers = seen[c].nplayers /\ player_num'[c] = player_num[c]
      PROVE  /\ seen'[c].seq <= lobby'.seq
             /\ seen'[c].seq = lobby'.seq =>
                  /\ seen'[c].players = lobby'.players /\ seen'[c].nplayers = lobby'.nplayers
                  /\ \A i \in Seats : Seated(c, i)' => player_num'[c] = i
  <2>1. CASE lobby' = lobby /\ ~ HostAbortInLobby /\ ~ HostSeats
    <3>1. \A i \in Seats : Seated(c, i)' => Seated(c, i)
      BY <2>1, SeatedBefore
    <3> QED BY <1>3, <1>6, <2>1, <3>1 DEF SameLobby
  <2>2. CASE lobby'.seq = lobby.seq + 1
    BY <1>3, <1>4, <1>6, <2>2
  <2> QED BY <1>5, <2>1, <2>2
<1>7. /\ seen'[c].seq <= lobby'.seq
      /\ seen'[c].seq = lobby'.seq =>
           /\ seen'[c].players = lobby'.players /\ seen'[c].nplayers = lobby'.nplayers
           /\ \A i \in Seats : Seated(c, i)' => player_num'[c] = i
  <2>1. CASE Still(c) \/ Launches(c)
    BY <1>6, <2>1 DEF Still, Launches
  <2>2. CASE Fresh(c)
    BY <1>4, <2>2 DEF Fresh
  <2>3. CASE Told(c)
    <3>1. CASE /\ down[c].kind = "lobby" /\ seen'[c] = down[c].lobby
               /\ player_num'[c] = SeatIn(down[c].lobby, IdOf(c))
      <4>1. UNCHANGED <<seats, lobby, ids>>
        BY <2>3 DEF Told, hostVars, tableVars
      <4>2. SameLobby(down[c].lobby) =>
              \A i \in Seats : Seated(c, i) => SeatIn(down[c].lobby, IdOf(c)) = i
        BY <1>4, SeatShown
      <4> QED BY <1>3, <3>1, <4>1, <4>2 DEF SameLobby, Seated, IdOf
    <3> QED BY <1>6, <2>3, <3>1 DEF Told
  <2> QED BY <2>1, <2>2, <2>3, BoardMoves
<1>8. ASSUME down'[c].kind = "lobby"
      PROVE  /\ down'[c].lobby.seq <= lobby'.seq
             /\ down'[c].lobby.seq = lobby'.seq =>
                  /\ down'[c].lobby.players = lobby'.players
                  /\ down'[c].lobby.nplayers = lobby'.nplayers
  <2>1. CASE down'[c] = down[c]
    BY <1>3, <1>4, <1>5, <1>8, <2>1 DEF SameLobby
  <2>2. down'[c] # NoDown
    BY <1>8 DEF NoDown
  <2>3. ~ Answered(c)
    BY <1>8 DEF Answered, NoDown, Refusal
  <2>4. CASE Addressed(c)
    <3>1. PICK i \in Seats : down'[c] = HostMsg(seats'[i], lobby')
      BY <2>4 DEF Addressed
    <3>2. down'[c].lobby = lobby'
      BY <1>1, <1>8, <3>1, HostMsgIs DEF TypeOK
    <3> QED BY <1>4, <3>2
  <2> QED BY <2>1, <2>2, <2>3, <2>4, DownMoves
<1> QED BY <1>7, <1>8

-----------------------------------------------------------------------------
LEMMA InitLobbyInv == Init => LobbyInv
<1> SUFFICES ASSUME Init
             PROVE  LobbyInv
  OBVIOUS
<1>1. <<Host, 1>> \in Ids /\ <<Host, 1>> # NoId
  BY BoundsAssumption DEF Ids, NoId
<1>2. /\ seats = OpenSeats(<<Host, 1>>) /\ lobby = OpenLobby(<<Host, 1>>)
      /\ seats \in [Seats -> Seat] /\ lobby \in Lobby
  BY <1>1, OpenTypes DEF Init
<1>3. ids \in [Clients \cup {Host} -> 0 .. MaxIds] /\ ids[Host] = 1
  BY ConstantFacts, BoundsAssumption DEF Init
<1>4. TypeOK
  <2>1. HostTypes
    <3>1. client_num \in 0 .. NetMaxPlayers /\ poll_addr \in Addrs
      BY ConstantFacts DEF Init
    <3>2. poll_client_id \in Ids /\ up \in UpMsg /\ host_roster \in Roster
      BY ConstantFacts, RecordFacts DEF Init
    <3> QED BY <3>1, <3>2 DEF Init, HostTypes
  <2>2. BoardTypes
    BY <1>3, ConstantFacts, RecordFacts DEF Init, BoardTypes
  <2> QED BY <1>2, <2>1, <2>2, TypesSplit DEF TableTypes
<1>5. /\ \A i \in Seats : /\ lobby.players[i] = IF i = 0 THEN <<Host, 1>> ELSE NoId
                          /\ seats[i].id = IF i = 0 THEN <<Host, 1>> ELSE NoId
                          /\ seats[i].addr = NoAddr /\ ~ seats[i].heard
      /\ lobby.seq = 1 /\ lobby.status = "waiting" /\ lobby.nplayers = 1
  BY <1>2, ConstantFacts DEF OpenSeats, OpenLobby, NoSeat
<1>6. IdOf(Host) = <<Host, 1>>
  BY <1>3 DEF IdOf
<1>7. \A c \in Clients, i \in Seats : ~ Seated(c, i)
  <2> SUFFICES ASSUME NEW c \in Clients, NEW i \in Seats, Seated(c, i)
               PROVE  FALSE
    OBVIOUS
  <2>1. seats[i].id[1] = c
    BY NoIdIs DEF Seated
  <2>2. seats[i].id[1] = Host
    BY <1>5 DEF NoId
  <2> QED BY <2>1, <2>2, ConstantFacts
<1>8. Phase
  BY <1>5, ConstantFacts DEF Init, Phase
<1>9. Players
  BY <1>1, <1>3, <1>5, <1>6, ConstantFacts DEF Players
<1>10. Table
  BY <1>5, <1>6, ConstantFacts DEF Init, Table
<1>11. Cycle
  BY DEF Init, Cycle
<1>12. AllKnown
  <2>1. Known(NoId) /\ Known(<<Host, 1>>)
    BY <1>3 DEF Known, NoId
  <2>2. up.id = NoId /\ poll_client_id = NoId /\ \A c \in Clients : down[c].id = NoId
    BY DEF Init, NoUp, NoDown
  <2> QED BY <1>5, <2>1, <2>2 DEF AllKnown
<1>13. Placed /\ Polled
  BY <1>7 DEF Init, Placed, Polled, OnBus
<1>14. Begun /\ Heard /\ Left /\ Informed
  BY <1>7 DEF Init, Begun, Heard, Left, Informed, NoLobby, NoDown
<1>15. OneVersion
  BY <1>5 DEF Init, OneVersion, NoLobby, NoDown
<1> QED BY <1>4, <1>8, <1>9, <1>10, <1>11, <1>12, <1>13, <1>14, <1>15 DEF LobbyInv

LEMMA NextLobbyInv == LobbyInv /\ [Next]_vars => LobbyInv'
BY TypeStep, PhaseStep, PlayersStep, CycleStep, AllKnownStep, PlacedStep, PolledStep,
   BegunStep, HeardStep, LeftStep, InformedStep, OneVersionStep DEF LobbyInv

\* The invariant holds of every reachable state.
THEOREM LobbyInvariant == Spec => []LobbyInv
<1>1. Init => LobbyInv
  BY InitLobbyInv
<1>2. LobbyInv /\ [Next]_vars => LobbyInv'
  BY NextLobbyInv
<1> QED BY <1>1, <1>2, PTL DEF Spec

\* Every variable of the lobby keeps its type: the host never indexes a seat
\* outside its table or counts more players than it has seats.
THEOREM LobbyTyped == Spec => []TypeOK
<1>1. LobbyInv => TypeOK
  BY DEF LobbyInv
<1> QED BY <1>1, LobbyInvariant, PTL

\* The host's table of clients and the players of the lobby it sends are one
\* list without gaps until the game starts, however clients come and go.
THEOREM ListsStayAligned == Spec => []TablesAligned
<1>1. LobbyInv => TablesAligned
  <2> SUFFICES ASSUME LobbyInv
               PROVE  TablesAligned
    OBVIOUS
  <2>1. Players /\ Table
    BY DEF LobbyInv
  <2>2. \A i \in Seats : i > 0 => i # 0
    BY ConstantFacts
  <2> QED BY <2>1, <2>2, ConstantFacts DEF TablesAligned, Players, Table
<1> QED BY <1>1, LobbyInvariant, PTL

\* No identity and no address is in two seats.
THEOREM NobodySeatedTwice == Spec => []SeatsDistinct
<1>1. LobbyInv => SeatsDistinct
  <2> SUFFICES ASSUME LobbyInv, NEW i \in Seats, NEW j \in Seats, i # j,
                      seats[i].id # NoId, seats[j].id # NoId
               PROVE  seats[i].id # seats[j].id /\ seats[i].addr # seats[j].addr
    BY DEF SeatsDistinct
  <2>1. Players /\ Table
    BY DEF LobbyInv
  <2>2. seats[i].id = lobby.players[i] /\ seats[j].id = lobby.players[j]
    BY <2>1 DEF Table
  <2>3. seats[i].id # seats[j].id
    BY <2>1, <2>2 DEF Players
  <2>4. seats[i].addr # NoAddr \/ seats[j].addr # NoAddr
    BY <2>1 DEF Table
  <2>5. seats[i].addr # seats[j].addr
    BY <2>1, <2>4 DEF Table
  <2> QED BY <2>3, <2>5
<1> QED BY <1>1, LobbyInvariant, PTL

\* As long as the host has opened one lobby, a client that acknowledges its
\* current version has the whole of it and knows its own seat.
THEOREM VersionsAreExact == Spec => []VersionNamesLobby
<1>1. LobbyInv => VersionNamesLobby
  BY DEF LobbyInv, OneVersion, VersionNamesLobby, SameLobby
<1> QED BY <1>1, LobbyInvariant, PTL

\* The boards that start a game in their seats start it with the same players.
THEOREM GameStartsAlike == Spec => []RosterAgreed
<1>1. LobbyInv => RosterAgreed
  BY DEF LobbyInv, Informed, RosterAgreed
<1> QED BY <1>1, LobbyInvariant, PTL

\* In a game no seat is moved or given to somebody else.
THEOREM SeatsStayFixed == Spec => SeatsFixed
<1>1. LobbyInv /\ [Next]_vars =>
        [in_game => \A i \in Seats : seats'[i].id \in {seats[i].id, NoId}]_vars
  BY InGameStep
<1> QED BY <1>1, LobbyInvariant, PTL DEF Spec, SeatsFixed
=============================================================================
