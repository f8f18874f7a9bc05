--------------------------- MODULE PicoNetGameProofs ---------------------------
(***************************************************************************)
(* Proofs about PicoNetGame, for every number of players, every ring size  *)
(* and every bound of the model.                                           *)
(***************************************************************************)
EXTENDS PicoNetGame, TLAPS

USE DEF Host, None, Blank, Squashed, Absent

\* Every tic has a slot.
LEMMA SlotType == \A t \in Nat : SlotOf(t) \in Slots
  BY RingAssumption DEF SlotOf, Slots

\* Two tics less than a ring apart do not share a slot.
LEMMA SlotDistinct ==
  \A t, u \in Nat : t < u /\ u < t + BackupTics => SlotOf(t) # SlotOf(u)
<1> SUFFICES ASSUME NEW t \in Nat, NEW u \in Nat, t < u, u < t + BackupTics,
                    SlotOf(t) = SlotOf(u)
             PROVE  FALSE
  OBVIOUS
<1> DEFINE q == (u \div BackupTics) - (t \div BackupTics)
<1>1. t = BackupTics * (t \div BackupTics) + (t % BackupTics)
  BY RingAssumption
<1>2. u = BackupTics * (u \div BackupTics) + (u % BackupTics)
  BY RingAssumption
<1>3. (t \div BackupTics) \in Int /\ (u \div BackupTics) \in Int
  BY RingAssumption
<1>4. u - t = BackupTics * q
  BY <1>1, <1>2, <1>3, RingAssumption DEF SlotOf
<1>5. ASSUME NEW k \in Int, u - t = BackupTics * k
      PROVE  FALSE
  <2>1. CASE k <= 0
    <3>1. BackupTics * k <= 0
      BY RingAssumption, <2>1
    <3> QED
      BY <3>1, <1>5
  <2>2. CASE k >= 1
    <3>1. BackupTics * k >= BackupTics
      BY RingAssumption, <2>2
    <3> QED
      BY <3>1, <1>5, RingAssumption
  <2> QED
    BY <2>1, <2>2
<1> QED
  BY <1>3, <1>4, <1>5

\* The end of the window of a node is a tic number.
LEMMA WindowEndType == \A n \in Nat : WindowEnd(n) \in Nat
  BY RingAssumption DEF WindowEnd

LEMMA ConstantTypes ==
  /\ Slots # {} /\ 0 \in Players /\ Clients \subseteq Players
  /\ Players \subseteq Nat /\ Clients = 1 .. NetMaxPlayers - 1
  /\ Tics \subseteq Nat /\ TicOrNone \subseteq Int /\ SlotOf(0) \in Slots
  /\ 0 \in Tics /\ TicOrNone = -1 .. MaxTic - 1
  BY PlayersAssumption, RingAssumption, BoundsAssumption, SlotType
     DEF Slots, Players, Clients, Tics, TicOrNone
-----------------------------------------------------------------------------
(***************************************************************************)
(* What CheckTicAdvance does, without its inner definitions.               *)
(***************************************************************************)
\* The slots of the tics a .. b.
SlotsOf(a, b) == {SlotOf(t) : t \in a .. b}

\* What host_check_tic_advance_locked does to the ring and to the agreed tics.
Advanced(kicked, sent, slots) ==
  /\ member' = member \ kicked
  /\ last_complete_tic' \in TicOrNone
  /\ last_complete_tic <= last_complete_tic'
  /\ last_complete_tic < last_complete_tic' =>
       \A i \in member' : last_complete_tic' <= sent[i]
  /\ ticdata' \in [Players -> [Slots -> TicSet]]
  /\ \A c \in Clients : ticdata'[c] = ticdata[c]
  /\ DOMAIN agreed' = 0 .. last_complete_tic'
  /\ \A t \in 0 .. last_complete_tic : agreed'[t] = agreed[t]
  /\ \A t \in last_complete_tic + 1 .. last_complete_tic' :
       agreed'[t] = Content(ticdata'[Host][SlotOf(t)])
  /\ \A s \in Slots \ SlotsOf(last_complete_tic + 1, last_complete_tic') :
       ticdata'[Host][s] = slots[s]

LEMMA Advance ==
  ASSUME TypeOK, NEW kicked \in SUBSET Clients, NEW sent \in [Players -> TicOrNone],
         NEW slots \in [Slots -> TicSet], CheckTicAdvance(kicked, sent, slots)
  PROVE  Advanced(kicked, sent, slots)
<1> DEFINE done(n) == last_complete_tic + 1 .. n
           flagged(n, s, i) ==
             \E t \in done(n) : SlotOf(t) = s /\ i \in MembersAt(t, kicked, sent)
           filled(n) == [s \in Slots |->
              IF \E t \in done(n) : SlotOf(t) = s
              THEN [i \in Players |-> [slots[s][i] EXCEPT !.ingame = flagged(n, s, i)]]
              ELSE slots[s]]
<1>1. PICK n \in last_complete_tic .. MaxTic - 1 :
         /\ n > last_complete_tic => AllSent(member \ kicked, sent, n)
         /\ last_complete_tic' = n
         /\ ticdata' = [ticdata EXCEPT ![Host] = filled(n)]
         /\ agreed' = [t \in 0 .. n |-> IF t \in done(n) THEN Content(filled(n)[SlotOf(t)])
                                        ELSE agreed[t]]
  BY DEF CheckTicAdvance
<1>2. member' = member \ kicked
  BY DEF CheckTicAdvance
<1>3. last_complete_tic \in TicOrNone /\ n \in TicOrNone /\ n \in Int /\ last_complete_tic \in Int
  BY ConstantTypes, BoundsAssumption DEF TypeOK
<1>4. filled(n) \in [Slots -> TicSet]
  <2> SUFFICES ASSUME NEW s \in Slots
               PROVE  filled(n)[s] \in TicSet
    OBVIOUS
  <2>1. slots[s] \in [Players -> Cell]
    BY DEF TicSet
  <2>2. ASSUME NEW i \in Players
        PROVE  [slots[s][i] EXCEPT !.ingame = flagged(n, s, i)] \in Cell
    <3>1. slots[s][i] \in Cell /\ flagged(n, s, i) \in BOOLEAN
      BY <2>1
    <3> QED
      BY <3>1 DEF Cell
  <2> QED
    BY <2>1, <2>2 DEF TicSet
<1>5. ticdata' \in [Players -> [Slots -> TicSet]] /\ ticdata'[Host] = filled(n)
  BY <1>1, <1>4, ConstantTypes DEF TypeOK
<1>6. \A c \in Clients : ticdata'[c] = ticdata[c]
  BY <1>1, ConstantTypes DEF TypeOK, Clients
<1>7. \A s \in Slots \ SlotsOf(last_complete_tic + 1, n) : ticdata'[Host][s] = slots[s]
  BY <1>5 DEF SlotsOf
<1>8. /\ DOMAIN agreed' = 0 .. n
      /\ \A t \in 0 .. last_complete_tic : agreed'[t] = agreed[t]
      /\ \A t \in done(n) : agreed'[t] = Content(ticdata'[Host][SlotOf(t)])
  <2>1. \A t \in 0 .. last_complete_tic : t \in 0 .. n /\ t \notin done(n)
    BY <1>3
  <2>2. \A t \in done(n) : t \in 0 .. n
    BY <1>3, ConstantTypes
  <2> HIDE DEF done, filled
  <2> QED
    BY <1>1, <1>5, <2>1, <2>2
<1>9. last_complete_tic < n => \A i \in member' : n <= sent[i]
  BY <1>1, <1>2, <1>3 DEF AllSent, TypeOK
<1>10. last_complete_tic' = n /\ last_complete_tic <= n
  BY <1>1, <1>3
<1> HIDE DEF filled, flagged
<1> QED
  BY <1>2, <1>3, <1>5, <1>6, <1>7, <1>8, <1>9, <1>10 DEF Advanced
-----------------------------------------------------------------------------
(***************************************************************************)
(* Type correctness.                                                       *)
(***************************************************************************)
LEMMA MessageTypes ==
  /\ NoCell \in Cell /\ NoSet \in TicSet
  /\ NoUp \in UpMsg /\ LobbyUp \in UpMsg /\ NoDown \in DownMsg /\ LobbyDown \in DownMsg
  BY ConstantTypes
     DEF NoCell, Cell, NoSet, TicSet, NoUp, LobbyUp, UpMsg, NoDown, LobbyDown, DownMsg,
         TicOrNone

\* Writes into the ring keep its type.
LEMMA RingWrites ==
  /\ \A ring \in [Slots -> TicSet], s \in Slots, i \in Players, x \in Cell :
       [ring EXCEPT ![s][i] = x] \in [Slots -> TicSet]
  /\ \A data \in [Players -> [Slots -> TicSet]],
       p \in Players, s \in Slots, i \in Players, x \in Cell :
       [data EXCEPT ![p][s][i] = x] \in [Players -> [Slots -> TicSet]]
  /\ \A data \in [Players -> [Slots -> TicSet]], p \in Players, s \in Slots, x \in TicSet :
       [data EXCEPT ![p][s] = x] \in [Players -> [Slots -> TicSet]]
  BY DEF TicSet

\* Counting up and down keeps the type of a counter.
LEMMA CounterWrites ==
  ASSUME NEW S, NEW f \in [S -> Nat], NEW p \in S
  PROVE  /\ [f EXCEPT ![p] = @ + 1] \in [S -> Nat]
         /\ f[p] > 0 => [f EXCEPT ![p] = @ - 1] \in [S -> Nat]
<1>1. f[p] \in Nat /\ f[p] + 1 \in Nat /\ (f[p] > 0 => f[p] - 1 \in Nat)
  OBVIOUS
<1> QED
  BY <1>1

LEMMA CellTypes ==
  /\ \A t \in Tics : [cmd |-> t, ingame |-> TRUE] \in Cell
  /\ \A p \in Players, set \in TicSet :
       OnlyLocal(p, set) \in TicSet /\ TicdupSquash(set) \in TicSet
<1>1. \A t \in Tics : [cmd |-> t, ingame |-> TRUE] \in Cell
  BY DEF Cell
<1>2. ASSUME NEW p \in Players, NEW set \in TicSet
      PROVE  OnlyLocal(p, set) \in TicSet /\ TicdupSquash(set) \in TicSet
  <2>1. ASSUME NEW i \in Players
        PROVE  /\ [set[i] EXCEPT !.ingame = @ /\ i = p] \in Cell
               /\ [set[i] EXCEPT !.cmd = Squashed] \in Cell
    <3>1. set[i] \in Cell
      BY DEF TicSet
    <3> QED
      BY <3>1 DEF Cell
  <2> QED
    BY <2>1 DEF OnlyLocal, TicdupSquash, TicSet
<1> QED
  BY <1>1, <1>2

LEMMA InitType == Init => TypeOK
<1> SUFFICES ASSUME Init PROVE TypeOK
  OBVIOUS
<1> USE ConstantTypes, MessageTypes
<1>1. ticdata \in [Players -> [Slots -> TicSet]]
  BY DEF Init
<1>2. client_num \in 1 .. NetMaxPlayers
  BY PlayersAssumption DEF Init
<1>3. up \in UpMsg /\ down \in [Clients -> DownMsg]
  BY DEF Init
<1> QED
  BY <1>1, <1>2, <1>3 DEF Init, TypeOK, TicOrNone, BuildBound

\* The message composed for a client and the choice of the next transfer.
LEMMA HostMsgType ==
  ASSUME TypeOK, NEW c \in Clients
  PROVE  HostMsg(c) \in DownMsg
<1> USE ConstantTypes, MessageTypes
<1>1. CASE last_sent[c] = None
  BY <1>1 DEF HostMsg
<1>2. CASE last_sent[c] # None /\ last_acked[c] < last_complete_tic
  <2>0. last_acked[c] \in TicOrNone /\ last_complete_tic \in TicOrNone
    BY DEF TypeOK
  <2>1. last_acked[c] + 1 \in Tics /\ last_acked[c] + 1 \in Nat
    BY <1>2, <2>0, BoundsAssumption DEF Tics
  <2>2. ticdata[Host][SlotOf(last_acked[c] + 1)] \in TicSet
    BY <2>1, SlotType DEF TypeOK
  <2> QED
    BY <1>2, <2>1, <2>2 DEF HostMsg, DownMsg, TypeOK, TicOrNone
<1>3. CASE last_sent[c] # None /\ ~ (last_acked[c] < last_complete_tic)
  BY <1>3 DEF HostMsg, DownMsg, TypeOK, TicOrNone
<1> QED
  BY <1>1, <1>2, <1>3

LEMMA ReceiveAfterType ==
  ASSUME NEW k \in Nat, NEW m \in SUBSET Players, ReceiveAfter(k, m)
  PROVE  /\ protocol_state' \in {"recv", "poll"}
         /\ client_num' \in 1 .. NetMaxPlayers
         /\ protocol_state' = "recv" => client_num' \in Clients
  BY PlayersAssumption DEF ReceiveAfter, IsFirst, Following, Players, Clients

LEMMA SendAfterType ==
  ASSUME TypeOK, NEW k \in Nat, SendAfter(k)
  PROVE  /\ protocol_state' \in {"send", "end"}
         /\ client_num' \in 1 .. NetMaxPlayers
         /\ protocol_state' = "send" => client_num' \in Clients
         /\ down' \in [Clients -> DownMsg]
<1>1. CASE Following(k, member) = {} /\ protocol_state' = "end"
           /\ client_num' = NetMaxPlayers /\ UNCHANGED down
  BY <1>1, PlayersAssumption DEF TypeOK
<1>2. ASSUME NEW c \in Following(k, member), protocol_state' = "send", client_num' = c,
             down' = [down EXCEPT ![c] = HostMsg(c)]
      PROVE  /\ client_num' \in Clients /\ client_num' \in 1 .. NetMaxPlayers
             /\ down' \in [Clients -> DownMsg]
  <2>1. c \in Clients /\ c \in 1 .. NetMaxPlayers
    BY PlayersAssumption DEF Following, TypeOK, Players, Clients
  <2> QED
    BY <1>2, <2>1, HostMsgType DEF TypeOK
<1> QED
  BY <1>1, <1>2 DEF SendAfter

LEMMA AllowType ==
  ASSUME TypeOK, NEW p \in Players, NEW lowtic \in Nat, Allow(p, lowtic)
  PROVE  counts' \in [Players -> Nat]
<1>1. CASE lowtic > gametic[p]
  <2>1. lowtic - gametic[p] \in Nat
    BY <1>1 DEF TypeOK
  <2>2. PICK n \in {1, lowtic - gametic[p]} : counts' = [counts EXCEPT ![p] = n]
    BY <1>1 DEF Allow
  <2>3. n \in Nat
    BY <2>1
  <2> QED
    BY <2>2, <2>3 DEF TypeOK
<1>2. CASE ~ (lowtic > gametic[p])
  BY <1>2 DEF TypeOK, Allow
<1> QED
  BY <1>1, <1>2

LEMMA TypeNext == TypeOK /\ [Next]_vars => TypeOK'
<1> SUFFICES ASSUME TypeOK, [Next]_vars
             PROVE  TypeOK'
  OBVIOUS
<1> USE ConstantTypes, MessageTypes
<1> USE DEF hostVars, cycleVars, clientVars, loopVars, flagVars, vars, BuildBound
<1>1. CASE HostStart
  <2>1. ticdata' \in [Players -> [Slots -> TicSet]]
    BY <1>1, RingWrites, CellTypes DEF HostStart, TypeOK
  <2>3. BuildBound'
    BY <1>1, BoundsAssumption DEF HostStart, TypeOK, BuildBound
  <2>2. counts' \in [Players -> Nat]
    BY <1>1, BoundsAssumption DEF HostStart, TypeOK
  <2> QED
    BY <1>1, <2>1, <2>2, <2>3 DEF HostStart, TypeOK
<1>2. CASE HostNewLocalTic
  <2>0. maketic[Host] \in TicOrNone
    BY <1>2, BoundsAssumption DEF HostNewLocalTic, TypeOK, BuildBound
  <2>1. last_sent' \in [Players -> TicOrNone]
    BY <1>2, <2>0 DEF HostNewLocalTic, TypeOK
  <2>2. ticdata[Host] \in [Slots -> TicSet]
    BY DEF TypeOK
  <2>3. CheckTicAdvance({}, last_sent', ticdata[Host])
    BY <1>2 DEF HostNewLocalTic
  <2>4. /\ member' = member \ {} /\ last_complete_tic' \in TicOrNone
        /\ ticdata' \in [Players -> [Slots -> TicSet]]
    BY <2>1, <2>2, <2>3, Advance DEF Advanced
  <2>5. BuildBound'
    BY <1>2 DEF HostNewLocalTic, TypeOK, BuildBound
  <2>6. maketic' \in [Players -> Nat]
    BY <1>2, CounterWrites DEF HostNewLocalTic, TypeOK
  <2> HIDE DEF BuildBound
  <2> QED
    BY <1>2, <2>1, <2>4, <2>5, <2>6 DEF HostNewLocalTic, TypeOK
<1>3. CASE HostGetLowTic
  <2>1. recvtic' \in [Players -> Nat] /\ host_limit_tic' \in Nat
    <3>1. recvtic \in [Players -> Nat]
      BY DEF TypeOK
    <3>2. [recvtic EXCEPT ![Host] = @ + 1] \in [Players -> Nat]
      BY <3>1, CounterWrites
    <3>3. recvtic' \in {recvtic, [recvtic EXCEPT ![Host] = @ + 1]}
      BY <1>3, <3>1 DEF HostGetLowTic
    <3>4. recvtic' \in [Players -> Nat] /\ host_limit_tic' = WindowEnd(recvtic'[Host])
      BY <1>3, <3>1, <3>2, <3>3 DEF HostGetLowTic
    <3> QED
      BY <3>4, WindowEndType
  <2>2. Lesser(maketic[Host], recvtic'[Host]) \in Nat
    BY <2>1 DEF Lesser, TypeOK
  <2>3. counts' \in [Players -> Nat]
    BY <1>3, <2>2, AllowType DEF HostGetLowTic
  <2> QED
    BY <1>3, <2>1, <2>3 DEF HostGetLowTic, TypeOK
<1>4. CASE HostKick
  <2>1. PICK kicked \in SUBSET (member \cap Clients) :
          CheckTicAdvance(kicked, last_sent, ticdata[Host])
    BY <1>4 DEF HostKick
  <2>2. ticdata[Host] \in [Slots -> TicSet] /\ last_sent \in [Players -> TicOrNone]
        /\ kicked \in SUBSET Clients
    BY DEF TypeOK
  <2>3. /\ member' = member \ kicked /\ last_complete_tic' \in TicOrNone
        /\ ticdata' \in [Players -> [Slots -> TicSet]]
    BY <2>1, <2>2, Advance DEF Advanced
  <2>4. host_limit_tic' \in Nat
    BY <1>4, WindowEndType DEF HostKick, TypeOK
  <2>5. counts' \in [Players -> Nat]
    <3>1. Lesser(maketic[Host], recvtic[Host]) \in Nat
      BY DEF Lesser, TypeOK
    <3> QED
      BY <1>4, <3>1, AllowType DEF HostKick
  <2> QED
    BY <1>4, <2>3, <2>4, <2>5 DEF HostKick, TypeOK
<1>5. CASE PeriodicTick
  <2>1. /\ protocol_state' \in {"recv", "poll"} /\ client_num' \in 1 .. NetMaxPlayers
        /\ protocol_state' = "recv" => client_num' \in Clients
    BY <1>5, ReceiveAfterType DEF PeriodicTick, TypeOK
  <2> QED
    BY <1>5, <2>1 DEF PeriodicTick, TypeOK
<1>6. CASE HostReceive
  <2>1. client_num \in Nat /\ member \in SUBSET Players
    BY DEF TypeOK
  <2>2. /\ protocol_state' \in {"recv", "poll"} /\ client_num' \in 1 .. NetMaxPlayers
        /\ protocol_state' = "recv" => client_num' \in Clients
    BY <1>6, <2>1, ReceiveAfterType DEF HostReceive
  <2>3. up.rx \in TicOrNone /\ up.enclosed \in TicOrNone /\ up.cell \in Cell
    BY DEF TypeOK, UpMsg
  <2>4. abort_count' \in [Clients -> Nat] /\ last_acked' \in [Clients -> TicOrNone]
    <3>1. /\ abort_count' \in {abort_count, [abort_count EXCEPT ![client_num] = 0]}
          /\ last_acked' \in {last_acked, [last_acked EXCEPT ![client_num] = up.rx]}
      BY <1>6 DEF HostReceive
    <3>2. abort_count \in [Clients -> Nat] /\ last_acked \in [Clients -> TicOrNone]
      BY DEF TypeOK
    <3> QED
      BY <2>3, <3>1, <3>2
  <2> DEFINE fits == /\ up.kind = "tic"
                     /\ up.enclosed > last_complete_tic
                     /\ up.enclosed < host_limit_tic
  <2>5. CASE fits
    <3>1. /\ last_sent' = [last_sent EXCEPT ![client_num] = up.enclosed]
          /\ CheckTicAdvance({}, last_sent',
               [ticdata[Host] EXCEPT ![SlotOf(up.enclosed)][client_num] = up.cell])
      BY <1>6, <2>5 DEF HostReceive
    <3>2. last_sent' \in [Players -> TicOrNone]
      BY <2>3, <3>1 DEF TypeOK
    <3>3. [ticdata[Host] EXCEPT ![SlotOf(up.enclosed)][client_num] = up.cell]
            \in [Slots -> TicSet]
      <4>1. SlotOf(up.enclosed) \in Slots
        BY <2>3, <2>5, SlotType DEF TypeOK
      <4>2. client_num \in Players
        BY <1>6 DEF HostReceive, TypeOK
      <4> QED
        BY <2>3, <4>1, <4>2, RingWrites DEF TypeOK
    <3>4. /\ member' = member \ {} /\ last_complete_tic' \in TicOrNone
          /\ ticdata' \in [Players -> [Slots -> TicSet]]
      BY <3>1, <3>2, <3>3, Advance DEF Advanced
    <3> QED
      BY <1>6, <2>2, <2>4, <3>2, <3>4 DEF HostReceive, TypeOK
  <2>6. CASE ~ fits
    <3>1. UNCHANGED <<last_sent, member, last_complete_tic, ticdata, agreed>>
      BY <1>6, <2>6 DEF HostReceive
    <3> QED
      BY <1>6, <2>2, <2>4, <3>1 DEF HostReceive, TypeOK
  <2> QED
    BY <2>5, <2>6
<1>7. CASE HostReceiveShort
  <2>1. /\ protocol_state' \in {"recv", "poll"} /\ client_num' \in 1 .. NetMaxPlayers
        /\ protocol_state' = "recv" => client_num' \in Clients
    BY <1>7, ReceiveAfterType DEF HostReceiveShort, TypeOK
  <2> QED
    BY <1>7, <2>1 DEF HostReceiveShort, TypeOK
<1>8. CASE HostAbort
  <2>1. abort_count' \in [Clients -> Nat]
    <3>1. client_num \in Clients
      BY <1>8 DEF HostAbort, TypeOK
    <3>2. [abort_count EXCEPT ![client_num] = @ + 1] \in [Clients -> Nat]
      <4>1. abort_count \in [Clients -> Nat]
        BY DEF TypeOK
      <4> QED
        BY <3>1, <4>1, CounterWrites
    <3> QED
      BY <1>8, <3>2 DEF HostAbort
  <2>2. /\ member' \in SUBSET Players /\ last_complete_tic' \in TicOrNone
        /\ ticdata' \in [Players -> [Slots -> TicSet]]
    <3>1. CASE abort_count[client_num] + 1 > AbortMax
      <4>1. CheckTicAdvance({client_num}, last_sent, ticdata[Host])
        BY <1>8, <3>1 DEF HostAbort
      <4>2. client_num \in Clients
          BY <1>8 DEF HostAbort, TypeOK
      <4>3. ticdata[Host] \in [Slots -> TicSet] /\ last_sent \in [Players -> TicOrNone]
        BY DEF TypeOK
      <4>4. {client_num} \in SUBSET Clients
        BY <4>2
      <4> QED
        BY <4>1, <4>3, <4>4, Advance DEF Advanced, TypeOK
    <3>2. CASE ~ (abort_count[client_num] + 1 > AbortMax)
      BY <1>8, <3>2 DEF HostAbort, TypeOK
    <3> QED
      BY <3>1, <3>2
  <2>3. client_num \in Nat
    BY DEF TypeOK
  <2>4. /\ protocol_state' \in {"recv", "poll"} /\ client_num' \in 1 .. NetMaxPlayers
        /\ protocol_state' = "recv" => client_num' \in Clients
    BY <1>8, <2>2, <2>3, ReceiveAfterType DEF HostAbort
  <2> QED
    BY <1>8, <2>1, <2>2, <2>4 DEF HostAbort, TypeOK
<1>9. CASE HostPolled
  <2>1. /\ protocol_state' \in {"send", "end"} /\ client_num' \in 1 .. NetMaxPlayers
        /\ protocol_state' = "send" => client_num' \in Clients
        /\ down' \in [Clients -> DownMsg]
    BY <1>9, SendAfterType DEF HostPolled
  <2>2. stray' \in BOOLEAN
    BY <1>9 DEF HostPolled, TypeOK
  <2> QED
    BY <1>9, <2>1, <2>2 DEF HostPolled, TypeOK
<1>10. CASE HostSent
  <2>1. /\ protocol_state' \in {"send", "end"} /\ client_num' \in 1 .. NetMaxPlayers
        /\ protocol_state' = "send" => client_num' \in Clients
        /\ down' \in [Clients -> DownMsg]
    BY <1>10, SendAfterType DEF HostSent, TypeOK
  <2> QED
    BY <1>10, <2>1 DEF HostSent, TypeOK
<1>11. ASSUME NEW c \in Clients, ClientStep(c)
       PROVE  TypeOK'
  <2> USE <1>11
  <2>1. CASE ClientStart(c)
    <3>1. BuildBound'
      BY <2>1, BoundsAssumption DEF ClientStart, TypeOK, BuildBound
    <3> QED
      BY <2>1, <3>1 DEF ClientStart, TypeOK
  <2>2. CASE ClientNewLocalTic(c)
    <3>0. maketic[c] \in Nat /\ maketic[c] < MaxTic
      BY <2>2 DEF ClientNewLocalTic, TypeOK
    <3>1. maketic[c] \in TicOrNone
      BY <3>0, BoundsAssumption
    <3>2. BuildBound'
      BY <2>2 DEF ClientNewLocalTic, TypeOK, BuildBound
    <3>3. maketic' \in [Players -> Nat] /\ last_local' \in [Clients -> TicOrNone]
      BY <2>2, <3>1, CounterWrites DEF ClientNewLocalTic, TypeOK
    <3> HIDE DEF BuildBound
    <3> QED
      BY <2>2, <3>2, <3>3 DEF ClientNewLocalTic, TypeOK
  <2>3. CASE ClientGetLowTic(c)
    <3>0. recvtic' \in [Players -> Nat]
      <4>1. recvtic \in [Players -> Nat] /\ c \in Players
        BY DEF TypeOK
      <4>2. [recvtic EXCEPT ![c] = @ + 1] \in [Players -> Nat]
        BY <4>1, CounterWrites
      <4>3. recvtic' \in {recvtic, [recvtic EXCEPT ![c] = @ + 1]}
        BY <2>3, <4>1 DEF ClientGetLowTic
      <4> QED
        BY <4>1, <4>2, <4>3
    <3>1. client_limit_tic' \in [Clients -> Nat]
      <4>1. WindowEnd(recvtic'[c]) \in Nat
        BY <3>0, WindowEndType
      <4> QED
        BY <2>3, <4>1 DEF ClientGetLowTic, TypeOK
    <3>2. Lesser(maketic[c], recvtic'[c]) \in Nat
      BY <3>0 DEF Lesser, TypeOK
    <3>3. counts' \in [Players -> Nat]
      BY <2>3, <3>2, AllowType DEF ClientGetLowTic
    <3> QED
      BY <2>3, <3>0, <3>1, <3>3 DEF ClientGetLowTic, TypeOK
  <2>4. CASE ClientTimeout(c)
    <3>0. Lesser(maketic[c], recvtic[c]) \in Nat
      BY DEF Lesser, TypeOK
    <3>1. client_limit_tic' \in [Clients -> Nat]
      <4>1. client_limit_tic \in [Clients -> Nat] /\ recvtic[c] \in Nat
        BY DEF TypeOK
      <4>2. WindowEnd(recvtic[c]) \in Nat
        BY <4>1, WindowEndType
      <4> QED
        BY <2>4, <4>1, <4>2 DEF ClientTimeout
    <3>2. counts' \in [Players -> Nat]
      BY <2>4, <3>0, AllowType DEF ClientTimeout, TypeOK
    <3>3. ticdata' \in [Players -> [Slots -> TicSet]]
      <4>1. ASSUME NEW s \in Slots
            PROVE  OnlyLocal(c, ticdata[c][s]) \in TicSet
        BY CellTypes DEF TypeOK
      <4> QED
        BY <2>4, <4>1 DEF ClientTimeout, TypeOK
    <3> QED
      BY <2>4, <3>1, <3>2, <3>3 DEF ClientTimeout, TypeOK
  <2>5. CASE ClientReply(c)
    <3>1. down' \in [Clients -> DownMsg]
      BY <2>5 DEF ClientReply, TypeOK
    <3>2. CASE mode[c] # "game"
      BY <2>5, <3>1, <3>2 DEF ClientReply, TypeOK
    <3>3. CASE mode[c] = "game" /\ last_server_acked[c] < last_local[c]
      <4>1. last_server_acked[c] \in TicOrNone /\ last_local[c] \in TicOrNone
        BY DEF TypeOK
      <4>2. last_server_acked[c] + 1 \in Tics /\ last_server_acked[c] + 1 \in Nat
        BY <3>3, <4>1, BoundsAssumption DEF Tics
      <4>3. ticdata[c][SlotOf(last_server_acked[c] + 1)][c] \in Cell
        BY <4>2, SlotType DEF TypeOK, TicSet
      <4>4. up' \in UpMsg
        BY <2>5, <3>3, <4>2, <4>3 DEF ClientReply, UpMsg, TypeOK, TicOrNone
      <4> QED
        BY <2>5, <3>1, <4>4 DEF ClientReply, TypeOK
    <3>4. CASE mode[c] = "game" /\ ~ (last_server_acked[c] < last_local[c])
      <4>1. up' \in UpMsg
        BY <2>5, <3>4 DEF ClientReply, UpMsg, NoUp, TypeOK
      <4> QED
        BY <2>5, <3>1, <4>1 DEF ClientReply, TypeOK
    <3> QED
      BY <3>2, <3>3, <3>4
  <2>6. CASE ClientReceiveLobby(c)
    BY <2>6 DEF ClientReceiveLobby, TypeOK
  <2>7. CASE ClientReceiveTic(c)
    <3>1. down[c] \in DownMsg
      BY DEF TypeOK
    <3>2. /\ last_server_acked' \in [Clients -> TicOrNone]
          /\ last_received' \in [Clients -> TicOrNone]
          /\ down' \in [Clients -> DownMsg]
          /\ refused' \in BOOLEAN
      BY <2>7, <3>1 DEF ClientReceiveTic, TypeOK, DownMsg
    <3>3. ticdata' \in [Players -> [Slots -> TicSet]]
      <4>1. CASE ticdata' = [ticdata EXCEPT ![c][SlotOf(down[c].enclosed)] = down[c].cmds]
                 /\ down[c].enclosed # None
        <5>1. SlotOf(down[c].enclosed) \in Slots /\ down[c].cmds \in TicSet
          BY <3>1, <4>1, SlotType DEF DownMsg, TicOrNone
        <5> QED
          BY <4>1, <5>1, RingWrites DEF TypeOK
      <4>2. CASE UNCHANGED ticdata
        BY <4>2 DEF TypeOK
      <4> QED
        BY <2>7, <4>1, <4>2 DEF ClientReceiveTic
    <3> QED
      BY <2>7, <3>2, <3>3 DEF ClientReceiveTic, TypeOK
  <2> QED
    BY <2>1, <2>2, <2>3, <2>4, <2>5, <2>6, <2>7 DEF ClientStep
<1>12. ASSUME NEW p \in Players, LoopStep(p)
       PROVE  TypeOK'
  <2>1. CASE BuildNewTic(p)
    <3>0. maketic[p] \in Tics /\ SlotOf(maketic[p]) \in Slots
      BY <2>1, BoundsAssumption, SlotType DEF BuildNewTic, TypeOK, Tics
    <3>1. ticdata' \in [Players -> [Slots -> TicSet]]
      BY <2>1, <3>0, RingWrites, CellTypes DEF BuildNewTic, TypeOK
    <3>2. maketic' \in [Players -> Nat] /\ announcing' \in [Players -> BOOLEAN]
      <4>1. [maketic EXCEPT ![p] = @ + 1] \in [Players -> Nat]
        <5>1. maketic \in [Players -> Nat]
          BY DEF TypeOK
        <5> QED
          BY <5>1, CounterWrites
      <4> QED
        BY <2>1, <4>1 DEF BuildNewTic, TypeOK
    <3>3. BuildBound'
      BY <2>1, BoundsAssumption DEF BuildNewTic, InLoop, TypeOK, BuildBound
    <3> QED
      BY <2>1, <3>1, <3>2, <3>3 DEF BuildNewTic, TypeOK
  <2>2. CASE LocalGetLowTic(p)
    <3>1. counts' \in [Players -> Nat]
      BY <2>2, AllowType DEF LocalGetLowTic, TypeOK
    <3> QED
      BY <2>2, <3>1 DEF LocalGetLowTic, TypeOK
  <2>3. CASE RunTic(p)
    <3> DEFINE s   == SlotOf(gametic[p])
               set == IF connected[p] THEN ticdata[p][s] ELSE OnlyLocal(p, ticdata[p][s])
    <3>1. s \in Slots
      BY SlotType DEF TypeOK
    <3>2. set \in TicSet
      BY <3>1, CellTypes DEF TypeOK
    <3>3. TicdupSquash(set) \in TicSet
      BY <3>2, CellTypes
    <3>4. ticdata' = [ticdata EXCEPT ![p][s] = TicdupSquash(set)]
      BY <2>3 DEF RunTic
    <3>5. ticdata' \in [Players -> [Slots -> TicSet]]
      BY <3>1, <3>3, <3>4, RingWrites DEF TypeOK
    <3>6. /\ connected' \in [Players -> BOOLEAN]
          /\ gametic' \in [Players -> Nat] /\ counts' \in [Players -> Nat]
      BY <2>3, CounterWrites DEF RunTic, TypeOK
    <3> QED
      BY <2>3, <3>5, <3>6 DEF RunTic, TypeOK
  <2>4. CASE Leave(p)
    BY <2>4 DEF Leave, TypeOK
  <2> QED
    BY <1>12, <2>1, <2>2, <2>3, <2>4 DEF LoopStep
<1>13. CASE UNCHANGED vars
  BY <1>13 DEF TypeOK
<1> QED
  BY <1>1, <1>2, <1>3, <1>4, <1>5, <1>6, <1>7, <1>8, <1>9, <1>10, <1>11, <1>12, <1>13
     DEF Next, HostStep

\* Every reachable state is well typed; in particular no tic number beyond the
\* bound and no index outside the arrays is ever stored.
THEOREM TypeCorrect == Spec => []TypeOK
  BY InitType, TypeNext, PTL DEF Spec

-----------------------------------------------------------------------------
(***************************************************************************)
(* The inductive invariant, and what follows from it.                      *)
(***************************************************************************)

\* What TypeOK says of the functions, and of the numbers in them.
Functions ==
  /\ last_complete_tic \in Int /\ last_complete_tic >= -1 /\ host_limit_tic \in Nat
  /\ last_sent \in [Players -> TicOrNone]
  /\ last_acked \in [Clients -> TicOrNone]
  /\ last_server_acked \in [Clients -> TicOrNone]
  /\ last_local \in [Clients -> TicOrNone]
  /\ last_received \in [Clients -> TicOrNone]
  /\ client_limit_tic \in [Clients -> Nat]
  /\ down \in [Clients -> DownMsg]
  /\ mode \in [Players -> {"lobby", "launch", "game", "left"}]
  /\ connected \in [Players -> BOOLEAN]
  /\ announcing \in [Players -> BOOLEAN]
  /\ maketic \in [Players -> Nat]
  /\ recvtic \in [Players -> Nat]
  /\ gametic \in [Players -> Nat]
  /\ counts \in [Players -> Nat]
  /\ ticdata \in [Players -> [Slots -> TicSet]]
  /\ member \subseteq Players
  /\ up.rx \in TicOrNone /\ up.enclosed \in TicOrNone

LEMMA FunctionTypes == TypeOK => Functions
<1> SUFFICES ASSUME TypeOK
             PROVE  Functions
  OBVIOUS
<1>1. last_complete_tic \in Int /\ last_complete_tic >= -1 /\ host_limit_tic \in Nat
  BY BoundsAssumption, ConstantTypes DEF TypeOK
<1>2. up.rx \in TicOrNone /\ up.enclosed \in TicOrNone
  BY DEF TypeOK, UpMsg
<1> QED
  BY <1>1, <1>2 DEF TypeOK, Functions

\* A clean state has only clean ones before it.
LEMMA CleanBefore == Next \/ UNCHANGED vars => (Clean' => Clean)
<1> SUFFICES ASSUME Next \/ UNCHANGED vars, Clean'
             PROVE  Clean
  OBVIOUS
<1>1. ASSUME NEW c \in Clients, ClientStep(c)
      PROVE  Clean
  <2>1. CASE ClientReceiveTic(c)
    BY <2>1 DEF ClientReceiveTic, Clean
  <2>2. CASE UNCHANGED flagVars
    BY <2>2 DEF flagVars, Clean
  <2> QED
    BY <1>1, <2>1, <2>2 DEF ClientStep, ClientStart, ClientNewLocalTic, ClientGetLowTic,
       ClientTimeout, ClientReply, ClientReceiveLobby
<1>2. ASSUME NEW p \in Players, LoopStep(p)
      PROVE  Clean
  <2>1. UNCHANGED flagVars
    BY <1>2 DEF LoopStep, BuildNewTic, LocalGetLowTic, RunTic, Leave
  <2> QED
    BY <2>1 DEF flagVars, Clean
<1>3. CASE HostStep
  <2>1. CASE HostStart
    BY <2>1 DEF HostStart, Clean
  <2>2. CASE HostPolled
    BY <2>2 DEF HostPolled, Clean
  <2>3. CASE UNCHANGED flagVars
    BY <2>3 DEF flagVars, Clean
  <2> QED
    BY <1>3, <2>1, <2>2, <2>3 DEF HostStep, HostNewLocalTic, HostGetLowTic, HostKick,
       PeriodicTick, HostReceive, HostReceiveShort, HostAbort, HostSent
<1>4. CASE UNCHANGED vars
  BY <1>4 DEF vars, flagVars, Clean
<1> QED
  BY <1>1, <1>2, <1>3, <1>4 DEF Next
-----------------------------------------------------------------------------
(***************************************************************************)
(* The numbers as integers, and the parts of the invariant under a step    *)
(* that leaves their variables alone.                                      *)
(***************************************************************************)
LEMMA Numbers ==
  ASSUME TypeOK
  PROVE  /\ \A p \in Players :
              /\ maketic[p] \in Nat /\ recvtic[p] \in Nat
              /\ gametic[p] \in Nat /\ counts[p] \in Nat
              /\ last_sent[p] \in Int /\ last_sent[p] >= -1
              /\ connected[p] \in BOOLEAN /\ announcing[p] \in BOOLEAN
         /\ \A c \in Clients :
              /\ c \in Players /\ c # Host
              /\ last_acked[c] \in Int /\ last_acked[c] >= -1
              /\ last_server_acked[c] \in Int /\ last_server_acked[c] >= -1
              /\ last_local[c] \in Int /\ last_local[c] >= -1
              /\ last_received[c] \in Int /\ last_received[c] >= -1
              /\ client_limit_tic[c] \in Nat
              /\ down[c].enclosed \in Int /\ down[c].enclosed >= -1
              /\ down[c].cmds \in TicSet
         /\ last_complete_tic \in Int /\ last_complete_tic >= -1
         /\ host_limit_tic \in Nat
         /\ up.rx \in Int /\ up.rx >= -1
         /\ up.enclosed \in Int /\ up.enclosed >= -1
         /\ BackupTics \in Nat /\ BackupTics >= 2
         /\ MaxTic \in Nat /\ MaxTic >= 1
<1> USE ConstantTypes
<1>1. Functions
  BY FunctionTypes
<1>2. \A x \in TicOrNone : x \in Int /\ x >= -1
  OBVIOUS
<1>3. \A c \in Clients : c \in Players /\ c # Host
  BY DEF Clients
<1>4. \A c \in Clients : down[c].enclosed \in TicOrNone /\ down[c].cmds \in TicSet
  BY <1>1 DEF Functions, DownMsg
<1>5. /\ BackupTics \in Nat /\ BackupTics >= 2
      /\ MaxTic \in Nat /\ MaxTic >= 1
  BY RingAssumption, BoundsAssumption
<1> HIDE DEF Functions
<1> QED
  BY <1>1, <1>2, <1>3, <1>4, <1>5 DEF Functions

LEMMA LoopFrame ==
  ASSUME NEW p \in Players, LoopInv(p),
         mode'[p] = mode[p], connected'[p] = connected[p], announcing'[p] = announcing[p],
         maketic'[p] = maketic[p], recvtic'[p] = recvtic[p], gametic'[p] = gametic[p],
         counts'[p] = counts[p], ran'[p] = ran[p]
  PROVE  LoopInv(p)'
  BY DEF LoopInv

LEMMA DownFrame ==
  ASSUME NEW c \in Clients, DownInv(c), ClientData(c),
         UNCHANGED <<last_complete_tic, last_received, last_local, agreed>>,
         connected'[c] => connected[c], gametic'[c] = gametic[c],
         ticdata'[c] = ticdata[c],
         down'[c] = down[c] \/ down'[c].enclosed = None
  PROVE  DownInv(c)' /\ ClientData(c)'
  BY DEF DownInv, ClientData

\* The message the host composes for a client encloses the tic the client is
\* to run next, or the one it has just received, with the agreed content.
LEMMA SendKeeps ==
  ASSUME TypeOK, Counters, Data, HostOnBus, NEW k, SendAfter(k),
         UNCHANGED <<last_complete_tic, last_received, last_local, agreed, ticdata,
                     connected, gametic>>
  PROVE  \A c \in Clients : DownInv(c)' /\ ClientData(c)'
<1> SUFFICES ASSUME NEW c \in Clients
             PROVE  DownInv(c)' /\ ClientData(c)'
  OBVIOUS
<1>0. DownInv(c) /\ ClientData(c) /\ ClientInv(c) /\ HostInv /\ LoopInv(Host) /\ HostData
  <2>1. /\ \A d \in Clients : ClientInv(d) /\ DownInv(d)
        /\ \A p \in Players : LoopInv(p)
        /\ HostInv
    BY DEF Counters
  <2>2. HostData /\ \A d \in Clients : ClientData(d)
    BY DEF Data
  <2> QED
    BY <2>1, <2>2, ConstantTypes
<1>1. CASE down'[c] = down[c]
  BY <1>0, <1>1, DownFrame
<1>2. CASE c \in member /\ down'[c] = HostMsg(c)
  <2>1. CASE last_sent[c] = None \/ ~ (last_acked[c] < last_complete_tic)
    <3>1. down'[c].enclosed = None
      BY <1>2, <2>1 DEF HostMsg, LobbyDown, NoDown
    <3> QED
      BY <1>0, <3>1, DownFrame
  <2>2. CASE last_sent[c] # None /\ last_acked[c] < last_complete_tic
    <3>1. /\ down'[c].kind = "tic" /\ down'[c].ack = last_sent[c]
          /\ down'[c].enclosed = last_acked[c] + 1
          /\ down'[c].cmds = ticdata[Host][SlotOf(last_acked[c] + 1)]
      BY <1>2, <2>2 DEF HostMsg
    <3>2. /\ last_sent[c] = last_acked[c] + 1
          /\ last_acked[c] + 1 = last_complete_tic
          /\ last_acked[c] + 1 \in {last_received[c], last_received[c] + 1}
          /\ last_acked[c] + 1 <= last_local[c]
      BY <1>0, <1>2, <2>2, Numbers DEF ClientInv
    <3>3. gametic[Host] <= last_complete_tic /\ connected[Host]
      <4>1. connected[Host]
        BY DEF HostOnBus
      <4>2. gametic[Host] \in Nat /\ recvtic[Host] \in Nat /\ counts[Host] \in Nat
        BY Numbers, ConstantTypes
      <4>3. gametic[Host] <= recvtic[Host]
        BY <1>0, <4>1, <4>2 DEF LoopInv
      <4>4. last_complete_tic \in Nat
        BY <2>2, Numbers
      <4>5. recvtic[Host] > 0 => recvtic[Host] <= last_complete_tic
        BY <1>0, <4>1 DEF HostInv
      <4> QED
        BY <4>1, <4>2, <4>3, <4>4, <4>5
    <3>4. Content(ticdata[Host][SlotOf(last_complete_tic)]) = agreed[last_complete_tic]
      BY <1>0, <3>3, Numbers, ConstantTypes DEF HostData
    <3>5. DownInv(c)'
      BY <3>1, <3>2, Numbers DEF DownInv
    <3>6. ClientData(c)'
      BY <1>0, <3>1, <3>2, <3>4 DEF ClientData
    <3> QED
      BY <3>5, <3>6
  <2> QED
    BY <2>1, <2>2
<1> QED
  <2>1. CASE UNCHANGED down
    BY <1>1, <2>1
  <2>2. ASSUME NEW d \in Following(k, member), down' = [down EXCEPT ![d] = HostMsg(d)]
        PROVE  DownInv(c)' /\ ClientData(c)'
    <3>1. d \in member
      BY DEF Following
    <3>2. CASE c = d
      BY <1>2, <2>2, <3>1, <3>2 DEF TypeOK
    <3>3. CASE c # d
      BY <1>1, <2>2, <3>3 DEF TypeOK
    <3> QED
      BY <3>2, <3>3
  <2> QED
    BY <2>1, <2>2 DEF SendAfter
-----------------------------------------------------------------------------
(***************************************************************************)
(* The steps that only move messages.                                      *)
(***************************************************************************)
LEMMA Parts ==
  ASSUME Counters, Data
  PROVE  /\ SeatsInv /\ HostInv /\ UpInv
         /\ \A p \in Players : LoopInv(p) /\ RanData(p)
         /\ \A c \in Clients : ClientInv(c) /\ DownInv(c) /\ ClientData(c)
         /\ HostData /\ LoopInv(Host)
         /\ ran = [p \in Players |-> ran[p]]
<1>1. 0 \in Players
  BY ConstantTypes
<1> QED
  BY <1>1 DEF Counters, Data

LEMMA Quiet ==
  ASSUME Counters, Data,
         UNCHANGED <<hostVars, clientVars, loopVars, ticdata, agreed, ran>>,
         SeatsInv', UpInv', \A c \in Clients : DownInv(c)' /\ ClientData(c)'
  PROVE  Counters' /\ Data'
<1> USE DEF hostVars, clientVars, loopVars
<1>1. HostInv' /\ HostData'
  BY Parts DEF HostInv, HostData
<1>2. ASSUME NEW p \in Players
      PROVE  LoopInv(p)' /\ RanData(p)'
  BY Parts DEF LoopInv, RanData
<1>3. ASSUME NEW c \in Clients
      PROVE  ClientInv(c)'
  BY Parts DEF ClientInv
<1>4. ran' = [p \in Players |-> ran'[p]]
  BY DEF Data
<1> QED
  BY <1>1, <1>2, <1>3, <1>4 DEF Counters, Data

LEMMA NoReplyKeeps ==
  ASSUME Counters, Data, UNCHANGED <<hostVars, clientVars, loopVars, down, ticdata, agreed, ran>>,
         up' = NoUp
  PROVE  Counters' /\ Data'
<1>1. SeatsInv' /\ UpInv'
  BY Parts DEF SeatsInv, UpInv, NoUp, hostVars
<1>2. ASSUME NEW c \in Clients
      PROVE  DownInv(c)' /\ ClientData(c)'
  BY Parts DEF DownInv, ClientData, hostVars, clientVars, loopVars
<1> QED
  BY <1>1, <1>2, Quiet

LEMMA HostNextKeeps ==
  ASSUME TypeOK, Counters, Data, HostPolled \/ HostSent
  PROVE  Counters' /\ Data'
<1>1. PICK k : SendAfter(k)
  BY DEF HostPolled, HostSent
<1>2. /\ UNCHANGED <<hostVars, clientVars, loopVars, up, ticdata, agreed, ran>>
      /\ HostOnBus /\ protocol_state # "recv"
  BY DEF HostPolled, HostSent
<1>3. UNCHANGED <<last_complete_tic, last_received, last_local, agreed, ticdata,
                  connected, gametic>>
  BY <1>2 DEF hostVars, clientVars, loopVars
<1>4. \A c \in Clients : DownInv(c)' /\ ClientData(c)'
  BY <1>1, <1>2, <1>3, SendKeeps
<1>5. SeatsInv' /\ UpInv'
  <2>1. up.kind = "none"
    BY <1>2, Parts DEF SeatsInv
  <2> QED
    BY <1>2, <2>1, Parts DEF SeatsInv, UpInv, hostVars
<1> QED
  BY <1>2, <1>4, <1>5, Quiet

LEMMA ClientReplyKeeps ==
  ASSUME TypeOK, Counters, Data, NEW c \in Clients, ClientReply(c)
  PROVE  Counters' /\ Data'
<1>1. UNCHANGED <<hostVars, cycleVars, clientVars, loopVars, ticdata, agreed, ran>>
  BY DEF ClientReply
<1>2. ClientInv(c)
  BY Parts
<1>3. SeatsInv'
  BY <1>1, Parts DEF SeatsInv, ClientReply, hostVars, cycleVars
<1>4. UpInv'
  <2>1. CASE mode[c] # "game"
    BY <2>1 DEF ClientReply, UpInv, LobbyUp
  <2>2. CASE mode[c] = "game"
    <3>1. /\ up'.rx = last_received[c]
          /\ \/ up'.enclosed = None
             \/ last_server_acked[c] < last_local[c]
                /\ up'.enclosed = last_server_acked[c] + 1
      BY <2>2 DEF ClientReply, NoUp
    <3>2. client_num' = c /\ UNCHANGED <<last_acked, last_received, last_local>>
      BY <1>1 DEF ClientReply, hostVars, cycleVars, clientVars
    <3> QED
      BY <1>2, <3>1, <3>2, Numbers DEF UpInv, ClientInv
  <2> QED
    BY <2>1, <2>2
<1>5. ASSUME NEW d \in Clients
      PROVE  DownInv(d)' /\ ClientData(d)'
  <2>1. down'[d] = down[d] \/ down'[d].enclosed = None
    BY DEF ClientReply, TypeOK, NoDown
  <2> QED
    BY <1>1, <2>1, Parts, DownFrame DEF hostVars, clientVars, loopVars
<1> QED
  BY <1>1, <1>3, <1>4, <1>5, Quiet

LEMMA ClientReceiveLobbyKeeps ==
  ASSUME TypeOK, Counters, Data, NEW c \in Clients, ClientReceiveLobby(c)
  PROVE  Counters' /\ Data'
<1>0. UNCHANGED <<hostVars, cycleVars, clientVars, connected, maketic, recvtic, gametic,
                  counts, announcing, up, ticdata, agreed, ran>>
  BY DEF ClientReceiveLobby
<1>1. /\ \A p \in Players : mode'[p] = mode[p] \/ (mode[p] = "lobby" /\ mode'[p] = "launch")
      /\ mode'[Host] = mode[Host]
  BY Numbers DEF ClientReceiveLobby, TypeOK
<1>2. ASSUME NEW p \in Players
      PROVE  LoopInv(p)' /\ RanData(p)'
  BY <1>0, <1>1, Parts DEF LoopInv, RanData
<1>3. HostInv' /\ HostData' /\ SeatsInv' /\ UpInv'
  BY <1>0, <1>1, Parts DEF HostInv, HostData, SeatsInv, UpInv, hostVars, cycleVars, clientVars
<1>4. ASSUME NEW d \in Clients
      PROVE  ClientInv(d)' /\ DownInv(d)' /\ ClientData(d)'
  <2>1. ClientInv(d)'
    BY <1>0, <1>1, Parts, Numbers DEF ClientInv, hostVars, clientVars
  <2>2. down'[d] = down[d] \/ down'[d].enclosed = None
    BY DEF ClientReceiveLobby, TypeOK, NoDown
  <2> QED
    BY <1>0, <2>1, <2>2, Parts, DownFrame DEF hostVars, clientVars
<1>5. ran' = [p \in Players |-> ran'[p]]
  BY <1>0 DEF Data
<1> QED
  BY <1>2, <1>3, <1>4, <1>5 DEF Counters, Data
-----------------------------------------------------------------------------
(***************************************************************************)
(* The steps of the tic loop of one node, p.                               *)
(***************************************************************************)
LEMMA LoopKeeps ==
  ASSUME TypeOK, TypeOK', Counters, Data, NEW p \in Players,
         UNCHANGED <<cycleVars, member, last_complete_tic, last_sent, last_acked,
                     last_server_acked, last_received, up, down, agreed>>,
         \A q \in Players \ {p} :
            /\ mode'[q] = mode[q] /\ connected'[q] = connected[q]
            /\ announcing'[q] = announcing[q] /\ maketic'[q] = maketic[q]
            /\ recvtic'[q] = recvtic[q] /\ gametic'[q] = gametic[q]
            /\ counts'[q] = counts[q] /\ ran'[q] = ran[q] /\ ticdata'[q] = ticdata[q],
         \A c \in Clients \ {p} : client_limit_tic'[c] = client_limit_tic[c],
         \A c \in Clients : last_local[c] <= last_local'[c]
                            /\ (c # p => last_local'[c] = last_local[c]),
         p # Host => host_limit_tic' = host_limit_tic,
         ran' = [q \in Players |-> ran'[q]],
         LoopInv(p)', RanData(p)',
         p = Host => HostInv' /\ HostData',
         p # Host => ClientInv(p)' /\ ClientData(p)'
  PROVE  Counters' /\ Data'
<1>1. ASSUME NEW q \in Players
      PROVE  LoopInv(q)' /\ RanData(q)'
  <2>1. CASE q = p
    BY <2>1
  <2>2. CASE q # p
    BY <2>2, Parts, LoopFrame DEF RanData
  <2> QED
    BY <2>1, <2>2
<1>2. HostInv' /\ HostData'
  <2>1. CASE p = Host
    BY <2>1
  <2>2. CASE p # Host
    <3>1. Host \in Players \ {p}
      BY <2>2, ConstantTypes
    <3> QED
      BY <2>2, <3>1, Parts DEF HostInv, HostData
  <2> QED
    BY <2>1, <2>2
<1>3. SeatsInv' /\ UpInv'
  <2>1. SeatsInv'
    BY Parts DEF SeatsInv, cycleVars
  <2>2. CASE up.kind = "tic"
    <3>1. client_num \in Clients
      BY <2>2, Parts DEF SeatsInv, TypeOK
    <3>2. last_local[client_num] \in Int /\ last_local'[client_num] \in Int
      BY <3>1, ConstantTypes DEF TypeOK
    <3> QED
      BY <2>1, <2>2, <3>1, <3>2, Parts, Numbers DEF UpInv, cycleVars
  <2> QED
    BY <2>1, <2>2 DEF UpInv
<1>4. ASSUME NEW c \in Clients
      PROVE  ClientInv(c)' /\ ClientData(c)'
  <2>1. CASE c = p
    BY <2>1, Numbers
  <2>2. CASE c # p
    <3>1. c \in Players \ {p} /\ c \in Clients \ {p}
      BY <2>2, Numbers
    <3>2. ClientInv(c)'
      BY <2>2, <3>1, Parts DEF ClientInv
    <3>3. ClientData(c)'
      BY <2>2, <3>1, Parts DEF ClientData
    <3> QED
      BY <3>2, <3>3
  <2> QED
    BY <2>1, <2>2
<1>5. ASSUME NEW c \in Clients
      PROVE  DownInv(c)'
  <2>1. last_local[c] \in Int /\ last_local'[c] \in Int
    BY ConstantTypes DEF TypeOK
  <2> QED
    BY <2>1, Parts, Numbers DEF DownInv
<1> QED
  BY <1>1, <1>2, <1>3, <1>4, <1>5 DEF Counters, Data

\* Dropping out of the net game, by leaving or otherwise.
LEMMA LeaveKeeps ==
  ASSUME TypeOK, TypeOK', Counters, Data, NEW p \in Players, Leave(p)
  PROVE  Counters' /\ Data'
<1>1. /\ UNCHANGED <<hostVars, cycleVars, clientVars, maketic, recvtic, gametic, counts,
                     announcing, up, down, ticdata, agreed, ran>>
      /\ mode'[p] = "left" /\ ~ connected'[p] /\ mode[p] = "game"
      /\ \A q \in Players \ {p} : mode'[q] = mode[q] /\ connected'[q] = connected[q]
  BY DEF Leave, TypeOK
<1>2. LoopInv(p)' /\ RanData(p)'
  BY <1>1, Parts DEF LoopInv, RanData
<1>3. p = Host => HostInv' /\ HostData'
  BY <1>1, Parts DEF HostInv, HostData, hostVars
<1>4. p # Host => ClientInv(p)' /\ ClientData(p)'
  <2> SUFFICES ASSUME p \in Clients
               PROVE  ClientInv(p)' /\ ClientData(p)'
    BY DEF Clients
  <2> QED
    BY <1>1, Parts DEF ClientInv, ClientData, hostVars, clientVars
<1>5. ran' = [q \in Players |-> ran'[q]]
  BY <1>1 DEF Data
<1>6. \A c \in Clients : last_local[c] <= last_local'[c]
                         /\ (c # p => last_local'[c] = last_local[c])
  BY <1>1, Numbers DEF clientVars
<1> QED
  BY <1>1, <1>2, <1>3, <1>4, <1>5, <1>6, LoopKeeps DEF hostVars, clientVars

LEMMA HostStartKeeps ==
  ASSUME TypeOK, TypeOK', Counters, Data, Clean', HostStart
  PROVE  Counters' /\ Data'
<1>1. /\ UNCHANGED <<hostVars, cycleVars, clientVars, up, down, agreed, ran>>
      /\ mode[Host] = "lobby"
      /\ mode'[Host] = "game" /\ connected'[Host] /\ announcing'[Host]
      /\ maketic'[Host] = 0 /\ recvtic'[Host] = 0 /\ gametic'[Host] = 0
      /\ \A q \in Players \ {Host} :
            /\ mode'[q] = mode[q] /\ connected'[q] = connected[q]
            /\ announcing'[q] = announcing[q] /\ maketic'[q] = maketic[q]
            /\ recvtic'[q] = recvtic[q] /\ gametic'[q] = gametic[q]
            /\ counts'[q] = counts[q] /\ ran'[q] = ran[q] /\ ticdata'[q] = ticdata[q]
  BY ConstantTypes DEF HostStart, TypeOK
<1>2. counts'[Host] = 0
  <2>1. PICK left \in 0 .. MaxLeft :
          counts' = [counts EXCEPT ![Host] = left] /\ midLoop' = (midLoop \/ left > 0)
    BY DEF HostStart
  <2>2. left = 0
    <3>1. ~ midLoop'
      BY DEF Clean
    <3>2. ~ (left > 0)
      BY <2>1, <3>1, Zenon
    <3> QED
      BY <3>2, BoundsAssumption
  <2> QED
    BY <2>1, <2>2, ConstantTypes DEF TypeOK
<1>3. LoopInv(Host)' /\ RanData(Host)'
  <2>1. DOMAIN ran[Host] = {}
    BY <1>1, Parts DEF LoopInv
  <2>2. ran'[Host] = ran[Host] /\ 0 .. 0 - 1 = {}
    BY <1>1
  <2>3. RanData(Host)'
    BY <2>1, <2>2 DEF RanData
  <2> QED
    BY <1>1, <1>2, <2>1, <2>2, <2>3, Numbers DEF LoopInv
<1>4. last_complete_tic = -1 /\ last_sent[Host] = -1 /\ host_limit_tic = 0
  BY <1>1, Parts, Numbers DEF HostInv
<1>5. HostInv' /\ HostData'
  BY <1>1, <1>4, Parts, Numbers DEF HostInv, HostData, hostVars
<1>6. \A c \in Clients : last_local[c] <= last_local'[c]
                         /\ (c # Host => last_local'[c] = last_local[c])
  BY <1>1, Numbers DEF clientVars
<1>7. ran' = [q \in Players |-> ran'[q]]
  BY <1>1 DEF Data
<1> QED
  BY <1>1, <1>3, <1>5, <1>6, <1>7, LoopKeeps, ConstantTypes DEF hostVars, clientVars

LEMMA ClientStartKeeps ==
  ASSUME TypeOK, TypeOK', Counters, Data, NEW c \in Clients, ClientStart(c)
  PROVE  Counters' /\ Data'
<1>1. /\ UNCHANGED <<hostVars, cycleVars, clientVars, counts, announcing, up, down, ticdata,
                     agreed, ran>>
      /\ mode[c] = "launch" /\ mode'[c] = "game" /\ connected'[c]
      /\ maketic'[c] = 0 /\ recvtic'[c] = 0 /\ gametic'[c] = 0
      /\ \A q \in Players \ {c} :
            /\ mode'[q] = mode[q] /\ connected'[q] = connected[q]
            /\ maketic'[q] = maketic[q]
            /\ recvtic'[q] = recvtic[q] /\ gametic'[q] = gametic[q]
  BY ConstantTypes DEF ClientStart, TypeOK
<1>2. c \in Players /\ c # Host
  BY Numbers
<1>3. LoopInv(c)' /\ RanData(c)'
  <2>1. DOMAIN ran[c] = {} /\ counts[c] = 0 /\ ~ announcing[c]
    BY <1>1, <1>2, Parts DEF LoopInv
  <2>2. ran'[c] = ran[c] /\ 0 .. 0 - 1 = {} /\ counts'[c] = counts[c]
        /\ announcing'[c] = announcing[c]
    BY <1>1
  <2>3. RanData(c)'
    BY <2>1, <2>2 DEF RanData
  <2> QED
    BY <1>1, <2>1, <2>2, <2>3, Numbers DEF LoopInv
<1>4. last_local[c] = -1 /\ client_limit_tic[c] = 0
  BY <1>1, Parts DEF ClientInv
<1>5. ClientInv(c)' /\ ClientData(c)'
  <2>1. ClientInv(c)'
    BY <1>1, <1>4, Parts, Numbers DEF ClientInv, hostVars, clientVars
  <2>2. last_received[c] = -1
    BY <1>4, Parts, Numbers DEF ClientInv
  <2>3. ClientData(c)'
    BY <1>1, <2>2, Parts DEF ClientData, clientVars
  <2> QED
    BY <2>1, <2>3
<1>6. \A d \in Clients : last_local[d] <= last_local'[d]
                         /\ (d # c => last_local'[d] = last_local[d])
  BY <1>1, Numbers DEF clientVars
<1>7. ran' = [q \in Players |-> ran'[q]]
  BY <1>1 DEF Data
<1> QED
  BY <1>1, <1>2, <1>3, <1>5, <1>6, <1>7, LoopKeeps DEF hostVars, clientVars

LEMMA LocalGetLowTicKeeps ==
  ASSUME TypeOK, TypeOK', Counters, Data, NEW p \in Players, LocalGetLowTic(p)
  PROVE  Counters' /\ Data'
<1>1. /\ UNCHANGED <<hostVars, cycleVars, clientVars, mode, connected, maketic, recvtic,
                     gametic, announcing, up, down, ticdata, agreed, ran>>
      /\ mode[p] = "game" /\ ~ connected[p] /\ ~ announcing[p]
  BY DEF LocalGetLowTic, InLoop
<1>2. \A q \in Players \ {p} : counts'[q] = counts[q]
  BY DEF LocalGetLowTic, Allow, TypeOK
<1>3. LoopInv(p)' /\ RanData(p)'
  BY <1>1, Parts DEF LoopInv, RanData
<1>4. HostInv' /\ HostData'
  BY <1>1, Parts DEF HostInv, HostData, hostVars
<1>5. p # Host => ClientInv(p)' /\ ClientData(p)'
  <2> SUFFICES ASSUME p \in Clients
               PROVE  ClientInv(p)' /\ ClientData(p)'
    BY DEF Clients
  <2> QED
    BY <1>1, Parts DEF ClientInv, ClientData, hostVars, clientVars
<1>6. \A c \in Clients : last_local[c] <= last_local'[c]
                         /\ (c # p => last_local'[c] = last_local[c])
  BY <1>1, Numbers DEF clientVars
<1>7. ran' = [q \in Players |-> ran'[q]]
  BY <1>1 DEF Data
<1> QED
  BY <1>1, <1>2, <1>3, <1>4, <1>5, <1>6, <1>7, LoopKeeps DEF hostVars, clientVars

LEMMA BuildNewTicKeeps ==
  ASSUME TypeOK, TypeOK', Counters, Data, NEW p \in Players, BuildNewTic(p)
  PROVE  Counters' /\ Data'
<1> DEFINE m == maketic[p]
<1>1. /\ UNCHANGED <<hostVars, cycleVars, clientVars, mode, connected, recvtic, gametic,
                     counts, up, down, agreed, ran>>
      /\ mode[p] = "game" /\ ~ announcing[p] /\ m \in Nat
      /\ m < MaxTic /\ m - gametic[p] < BackupTics
      /\ \A q \in Players \ {p} : announcing'[q] = announcing[q] /\ maketic'[q] = maketic[q]
                                  /\ ticdata'[q] = ticdata[q]
      /\ connected[p] => announcing'[p] /\ maketic'[p] = m
      /\ ~ connected[p] => ~ announcing'[p]
  BY RingAssumption DEF BuildNewTic, InLoop, HasRoom, Lesser, TypeOK
<1>2. LoopInv(p)' /\ RanData(p)'
  <2>1. LoopInv(p) /\ RanData(p)
    BY Parts
  <2>2. CASE connected[p]
    BY <1>1, <2>1, <2>2, Numbers DEF LoopInv, RanData
  <2>3. CASE ~ connected[p]
    BY <1>1, <2>1, <2>3 DEF LoopInv, RanData
  <2> QED
    BY <2>2, <2>3
<1>3. \A s \in Slots \ {SlotOf(m)} : ticdata'[p][s] = ticdata[p][s]
  BY <1>1, SlotType DEF BuildNewTic, TypeOK
<1>4. ASSUME NEW t \in Nat, t < m, t >= gametic[p]
      PROVE  ticdata'[p][SlotOf(t)] = ticdata[p][SlotOf(t)]
  <2>1. m < t + BackupTics
    BY <1>1, <1>4, Numbers
  <2>2. SlotOf(t) \in Slots /\ SlotOf(t) # SlotOf(m)
    BY <1>1, <1>4, <2>1, SlotType, SlotDistinct
  <2> QED
    BY <1>3, <2>2
<1>5. p = Host => HostInv' /\ HostData'
  <2> SUFFICES ASSUME p = Host
               PROVE  HostInv' /\ HostData'
    OBVIOUS
  <2>1. HostInv'
    BY <1>1, Parts DEF HostInv, hostVars
  <2>2. ASSUME connected[Host], NEW t \in gametic[Host] .. last_complete_tic
        PROVE  Content(ticdata'[Host][SlotOf(t)]) = agreed[t]
    <3>1. t \in Nat /\ t < m /\ t >= gametic[p]
      BY <1>1, <2>2, Parts, Numbers DEF HostInv
    <3> QED
      BY <1>4, <2>2, <3>1, Parts DEF HostData
  <2> QED
    BY <1>1, <2>1, <2>2, Parts DEF HostData, hostVars
<1>6. p # Host => ClientInv(p)' /\ ClientData(p)'
  <2> SUFFICES ASSUME p \in Clients
               PROVE  ClientInv(p)' /\ ClientData(p)'
    BY DEF Clients
  <2>1. ClientInv(p)'
    BY <1>1, Parts DEF ClientInv, hostVars, clientVars
  <2>2. ASSUME connected[p], NEW t \in gametic[p] .. last_received[p]
        PROVE  Content(ticdata'[p][SlotOf(t)]) = agreed[t]
    <3>1. t \in Nat /\ t < m /\ t >= gametic[p]
      BY <1>1, <2>2, Parts, Numbers DEF ClientInv
    <3> QED
      BY <1>4, <2>2, <3>1, Parts DEF ClientData
  <2>3. ClientData(p)'
    BY <1>1, <2>2, Parts DEF ClientData, clientVars
  <2> QED
    BY <2>1, <2>3
<1>7. \A c \in Clients : last_local[c] <= last_local'[c]
                         /\ (c # p => last_local'[c] = last_local[c])
  BY <1>1, Numbers DEF clientVars
<1>8. ran' = [q \in Players |-> ran'[q]]
  BY <1>1 DEF Data
<1> QED
  BY <1>1, <1>2, <1>5, <1>6, <1>7, <1>8, LoopKeeps DEF hostVars, clientVars

\* The client counts the tic it has announced as its own.
LEMMA ClientNewLocalTicKeeps ==
  ASSUME TypeOK, TypeOK', Counters, Data, NEW c \in Clients, ClientNewLocalTic(c)
  PROVE  Counters' /\ Data'
<1>1. /\ UNCHANGED <<hostVars, cycleVars, last_server_acked, last_received,
                     client_limit_tic, mode, connected, recvtic, gametic, counts, up, down,
                     ticdata, agreed, ran>>
      /\ mode[c] = "game" /\ announcing[c] /\ ~ announcing'[c]
      /\ last_local'[c] = maketic[c] /\ maketic'[c] = maketic[c] + 1
      /\ \A q \in Players \ {c} : announcing'[q] = announcing[q] /\ maketic'[q] = maketic[q]
      /\ \A d \in Clients \ {c} : last_local'[d] = last_local[d]
  BY ConstantTypes DEF ClientNewLocalTic, TypeOK
<1>2. c \in Players /\ c # Host
  BY Numbers
<1>3. LoopInv(c) /\ ClientInv(c) /\ ClientData(c) /\ RanData(c)
  BY <1>2, Parts
<1>4. connected[c] /\ maketic[c] < gametic[c] + BackupTics
  BY <1>1, <1>3 DEF LoopInv
<1>5. last_local[c] = maketic[c] - 1
  BY <1>3, <1>4 DEF ClientInv
<1>6. LoopInv(c)' /\ RanData(c)'
  <2>1. /\ recvtic[c] = gametic[c] + counts[c] /\ counts[c] <= 1
        /\ recvtic[c] <= maketic[c] /\ DOMAIN ran[c] = 0 .. gametic[c] - 1
    BY <1>3, <1>4 DEF LoopInv
  <2>2. maketic[c] \in Nat /\ recvtic[c] \in Nat /\ gametic[c] \in Nat
    BY <1>2, Numbers
  <2>3. recvtic[c] <= maketic'[c] /\ maketic'[c] <= gametic[c] + BackupTics
    BY <1>1, <1>4, <2>1, <2>2, RingAssumption
  <2>4. LoopInv(c)'
    BY <1>1, <2>1, <2>3 DEF LoopInv
  <2> QED
    BY <1>1, <1>3, <2>4 DEF RanData
<1>7. ClientInv(c)' /\ ClientData(c)'
  <2>1. ClientInv(c)'
    BY <1>1, <1>2, <1>3, <1>5, Numbers DEF ClientInv, hostVars
  <2>2. ClientData(c)'
    BY <1>1, <1>3 DEF ClientData
  <2> QED
    BY <2>1, <2>2
<1>8. \A d \in Clients : last_local[d] <= last_local'[d]
                         /\ (d # c => last_local'[d] = last_local[d])
  BY <1>1, <1>2, <1>5, Numbers
<1>9. ran' = [q \in Players |-> ran'[q]]
  BY <1>1 DEF Data
<1> QED
  BY <1>1, <1>2, <1>6, <1>7, <1>8, <1>9, LoopKeeps DEF hostVars

\* What Allow leaves to be run: at most the tics below lowtic.
LEMMA AllowBound ==
  ASSUME TypeOK, NEW p \in Players, NEW lowtic \in Nat, Allow(p, lowtic)
  PROVE  /\ \A q \in Players \ {p} : counts'[q] = counts[q]
         /\ \/ counts'[p] = counts[p] /\ ~ (lowtic > gametic[p])
            \/ lowtic > gametic[p] /\ counts'[p] \in {1, lowtic - gametic[p]}
  BY DEF Allow, TypeOK

LEMMA HostGetLowTicKeeps ==
  ASSUME TypeOK, TypeOK', Counters, Data, HostGetLowTic
  PROVE  Counters' /\ Data'
<1>1. /\ UNCHANGED <<member, last_complete_tic, last_sent, last_acked, abort_count,
                     cycleVars, clientVars, mode, connected, maketic, gametic, announcing,
                     up, down, ticdata, agreed, ran>>
      /\ mode[Host] = "game" /\ ~ announcing[Host] /\ connected[Host] /\ counts[Host] = 0
      /\ recvtic'[Host] = IF recvtic[Host] < last_complete_tic THEN recvtic[Host] + 1
                                                               ELSE recvtic[Host]
      /\ \A q \in Players \ {Host} : recvtic'[q] = recvtic[q]
      /\ host_limit_tic' = recvtic'[Host] + BackupTics - 1
      /\ Allow(Host, Lesser(maketic[Host], recvtic'[Host]))
  BY ConstantTypes DEF HostGetLowTic, InLoop, TypeOK, WindowEnd
<1>2. LoopInv(Host) /\ HostInv /\ HostData /\ RanData(Host)
  BY Parts, ConstantTypes
<1>3. /\ recvtic[Host] = gametic[Host] /\ recvtic[Host] <= maketic[Host]
      /\ last_sent[Host] = maketic[Host] - 1 /\ last_complete_tic <= last_sent[Host]
      /\ maketic[Host] \in Nat /\ recvtic[Host] \in Nat /\ recvtic'[Host] \in Nat
      /\ gametic[Host] \in Nat /\ last_complete_tic \in Int
  BY <1>1, <1>2, Numbers, ConstantTypes DEF LoopInv, HostInv, TypeOK
<1>4. recvtic'[Host] <= maketic[Host]
  BY <1>1, <1>3
<1>5. Lesser(maketic[Host], recvtic'[Host]) = recvtic'[Host]
  BY <1>3, <1>4 DEF Lesser
<1>6. /\ recvtic'[Host] = gametic[Host] + counts'[Host] /\ counts'[Host] <= 1
      /\ \A q \in Players \ {Host} : counts'[q] = counts[q]
  BY <1>1, <1>3, <1>5, AllowBound, ConstantTypes
<1>7. LoopInv(Host)' /\ RanData(Host)'
  BY <1>1, <1>2, <1>3, <1>4, <1>6 DEF LoopInv, RanData
<1>8. HostInv' /\ HostData'
  BY <1>1, <1>2, <1>3 DEF HostInv, HostData
<1>9. \A c \in Clients : last_local[c] <= last_local'[c]
                         /\ (c # Host => last_local'[c] = last_local[c])
  BY <1>1, Numbers DEF clientVars
<1>10. ran' = [q \in Players |-> ran'[q]]
  BY <1>1 DEF Data
<1> QED
  BY <1>1, <1>6, <1>7, <1>8, <1>9, <1>10, LoopKeeps, ConstantTypes DEF clientVars

LEMMA ClientGetLowTicKeeps ==
  ASSUME TypeOK, TypeOK', Counters, Data, NEW c \in Clients, ClientGetLowTic(c)
  PROVE  Counters' /\ Data'
<1>1. /\ UNCHANGED <<hostVars, cycleVars, last_server_acked, last_local, last_received,
                     mode, connected, maketic, gametic, announcing, up, down, ticdata,
                     agreed, ran>>
      /\ mode[c] = "game" /\ ~ announcing[c] /\ connected[c] /\ counts[c] = 0
      /\ recvtic'[c] = IF recvtic[c] < last_received[c] THEN recvtic[c] + 1 ELSE recvtic[c]
      /\ \A q \in Players \ {c} : recvtic'[q] = recvtic[q]
      /\ client_limit_tic'[c] = recvtic'[c] + BackupTics - 1
      /\ \A d \in Clients \ {c} : client_limit_tic'[d] = client_limit_tic[d]
      /\ Allow(c, Lesser(maketic[c], recvtic'[c]))
  BY ConstantTypes DEF ClientGetLowTic, InLoop, TypeOK, WindowEnd
<1>0. c \in Players /\ c # Host
  BY Numbers
<1>2. LoopInv(c) /\ ClientInv(c) /\ ClientData(c) /\ RanData(c)
  BY <1>0, Parts
<1>3. /\ recvtic[c] = gametic[c] /\ recvtic[c] <= maketic[c]
      /\ last_local[c] = maketic[c] - 1 /\ last_received[c] <= last_local[c]
      /\ maketic[c] \in Nat /\ recvtic[c] \in Nat /\ recvtic'[c] \in Nat
      /\ gametic[c] \in Nat /\ last_received[c] \in Int
  <2>1. /\ maketic[c] \in Nat /\ recvtic[c] \in Nat /\ recvtic'[c] \in Nat
        /\ gametic[c] \in Nat /\ last_received[c] \in Int
    BY <1>0, <1>1, Numbers
  <2>2. recvtic[c] = gametic[c] /\ recvtic[c] <= maketic[c]
    BY <1>1, <1>2, <2>1 DEF LoopInv
  <2>3. last_local[c] = maketic[c] - 1 /\ last_received[c] <= last_local[c]
    BY <1>1, <1>2 DEF ClientInv
  <2> QED
    BY <2>1, <2>2, <2>3
<1>4. recvtic'[c] <= maketic[c]
  BY <1>1, <1>3
<1>5. Lesser(maketic[c], recvtic'[c]) = recvtic'[c]
  BY <1>3, <1>4 DEF Lesser
<1>6. /\ recvtic'[c] = gametic[c] + counts'[c] /\ counts'[c] <= 1
      /\ \A q \in Players \ {c} : counts'[q] = counts[q]
  BY <1>0, <1>1, <1>3, <1>5, AllowBound
<1>7. LoopInv(c)' /\ RanData(c)'
  BY <1>1, <1>2, <1>3, <1>4, <1>6 DEF LoopInv, RanData
<1>8. ClientInv(c)' /\ ClientData(c)'
  <2>1. ClientInv(c)'
    <3>1. recvtic'[c] > 0 => recvtic'[c] <= last_received[c]
      BY <1>1, <1>2, <1>3 DEF ClientInv
    <3>2. UNCHANGED <<member, last_complete_tic, last_sent, last_acked>>
      BY <1>1 DEF hostVars
    <3>3. client_limit_tic'[c] <= recvtic'[c] + BackupTics - 1
      BY <1>1, <1>3, RingAssumption
    <3> QED
      BY <1>1, <1>2, <3>1, <3>2, <3>3 DEF ClientInv
  <2>2. ClientData(c)'
    BY <1>1, <1>2 DEF ClientData
  <2> QED
    BY <2>1, <2>2
<1>9. \A d \in Clients : last_local[d] <= last_local'[d]
                         /\ (d # c => last_local'[d] = last_local[d])
  BY <1>1, Numbers
<1>10. ran' = [q \in Players |-> ran'[q]]
  BY <1>1 DEF Data
<1> QED
  BY <1>0, <1>1, <1>6, <1>7, <1>8, <1>9, <1>10, LoopKeeps DEF hostVars

LEMMA ClientTimeoutKeeps ==
  ASSUME TypeOK, TypeOK', Counters, Data, NEW c \in Clients, ClientTimeout(c)
  PROVE  Counters' /\ Data'
<1>1. /\ UNCHANGED <<hostVars, cycleVars, last_server_acked, last_local, last_received,
                     mode, maketic, recvtic, gametic, announcing, up, down, agreed, ran>>
      /\ mode[c] = "game" /\ ~ announcing[c] /\ ~ connected'[c]
      /\ \A q \in Players \ {c} : connected'[q] = connected[q] /\ ticdata'[q] = ticdata[q]
      /\ \A d \in Clients \ {c} : client_limit_tic'[d] = client_limit_tic[d]
      /\ Allow(c, Lesser(maketic[c], recvtic[c]))
  BY ConstantTypes DEF ClientTimeout, InLoop, TypeOK
<1>2. c \in Players /\ c # Host /\ Lesser(maketic[c], recvtic[c]) \in Nat
  BY Numbers DEF Lesser
<1>3. LoopInv(c) /\ ClientInv(c) /\ ClientData(c) /\ RanData(c)
  BY <1>2, Parts
<1>4. \A q \in Players \ {c} : counts'[q] = counts[q]
  BY <1>1, <1>2, AllowBound
<1>5. LoopInv(c)' /\ RanData(c)'
  BY <1>1, <1>3 DEF LoopInv, RanData
<1>6. ClientInv(c)' /\ ClientData(c)'
  BY <1>1, <1>3 DEF ClientInv, ClientData, hostVars
<1>7. \A d \in Clients : last_local[d] <= last_local'[d]
                         /\ (d # c => last_local'[d] = last_local[d])
  BY <1>1, Numbers
<1>8. ran' = [q \in Players |-> ran'[q]]
  BY <1>1 DEF Data
<1> QED
  BY <1>1, <1>2, <1>4, <1>5, <1>6, <1>7, <1>8, LoopKeeps DEF hostVars

\* The tic that is run is an agreed one, and the later slots are not touched.
LEMMA RunTicKeeps ==
  ASSUME TypeOK, TypeOK', Counters, Data, NEW p \in Players, RunTic(p)
  PROVE  Counters' /\ Data'
<1> DEFINE g   == gametic[p]
           top == IF p = Host THEN last_complete_tic ELSE last_received[p]
<1>1. /\ UNCHANGED <<hostVars, cycleVars, clientVars, mode, maketic, recvtic, announcing,
                     up, down, agreed>>
      /\ mode[p] = "game" /\ ~ announcing[p] /\ counts[p] > 0
      /\ gametic'[p] = g + 1 /\ counts'[p] = counts[p] - 1
      /\ connected'[p] => connected[p]
      /\ \A q \in Players \ {p} : connected'[q] = connected[q] /\ ticdata'[q] = ticdata[q]
                                  /\ gametic'[q] = gametic[q] /\ counts'[q] = counts[q]
  BY ConstantTypes DEF RunTic, InLoop, TypeOK
<1>2. \A s \in Slots \ {SlotOf(g)} : ticdata'[p][s] = ticdata[p][s]
  BY SlotType DEF RunTic, TypeOK
<1>3. LoopInv(p) /\ RanData(p) /\ ran = [q \in Players |-> ran[q]]
  BY Parts
<1>4. /\ g \in Nat /\ counts[p] \in Nat /\ recvtic[p] \in Nat /\ maketic[p] \in Nat
      /\ last_complete_tic \in Int /\ top \in Int
  BY Numbers DEF Clients
<1>5. connected[p] => /\ counts[p] = 1 /\ recvtic[p] = g + 1
                      /\ g < top /\ top <= last_complete_tic /\ top < maketic[p]
                      /\ maketic[p] <= g + BackupTics
  <2> SUFFICES ASSUME connected[p]
               PROVE  /\ counts[p] = 1 /\ recvtic[p] = g + 1
                      /\ g < top /\ top <= last_complete_tic /\ top < maketic[p]
                      /\ maketic[p] <= g + BackupTics
    OBVIOUS
  <2>1. counts[p] = 1 /\ recvtic[p] = g + 1 /\ maketic[p] <= g + BackupTics
    BY <1>1, <1>3, <1>4 DEF LoopInv
  <2>2. CASE p = Host
    <3>1. last_sent[Host] = maketic[Host] - 1 /\ last_complete_tic <= last_sent[Host]
          /\ (recvtic[Host] > 0 => recvtic[Host] <= last_complete_tic)
      BY <2>2, Parts DEF HostInv
    <3> QED
      BY <1>4, <2>1, <2>2, <3>1
  <2>3. CASE p # Host
    <3>1. p \in Clients
      BY <2>3 DEF Clients
    <3>2. last_local[p] = maketic[p] - 1 /\ last_received[p] <= last_local[p]
          /\ (recvtic[p] > 0 => recvtic[p] <= last_received[p])
          /\ last_received[p] <= last_complete_tic
      BY <3>1, Parts DEF ClientInv
    <3> QED
      BY <1>4, <2>1, <2>3, <3>2
  <2> QED
    BY <2>2, <2>3
<1>6. connected[p] => \A t \in g .. top : Content(ticdata[p][SlotOf(t)]) = agreed[t]
  <2>1. CASE p = Host
    BY <2>1, Parts DEF HostData
  <2>2. CASE p # Host
    <3>1. p \in Clients
      BY <2>2 DEF Clients
    <3> QED
      BY <2>2, <3>1, Parts DEF ClientData
  <2> QED
    BY <2>1, <2>2
<1>7. connected[p] => \A t \in g + 1 .. top : Content(ticdata'[p][SlotOf(t)]) = agreed[t]
  <2> SUFFICES ASSUME connected[p], NEW t \in g + 1 .. top
               PROVE  Content(ticdata'[p][SlotOf(t)]) = agreed[t]
    OBVIOUS
  <2>1. t \in Nat /\ t \in g .. top /\ g < t /\ t < g + BackupTics
    BY <1>4, <1>5, RingAssumption
  <2>2. SlotOf(t) \in Slots /\ SlotOf(t) # SlotOf(g)
    BY <1>4, <2>1, SlotType, SlotDistinct
  <2> QED
    BY <1>2, <1>6, <2>1, <2>2
<1>8. ran' = [q \in Players |-> ran'[q]] /\ \A q \in Players \ {p} : ran'[q] = ran[q]
  BY <1>3 DEF RunTic
<1>9. connected[p] => /\ DOMAIN ran'[p] = DOMAIN ran[p] \cup {g}
                      /\ \A t \in DOMAIN ran[p] \ {g} : ran'[p][t] = ran[p][t]
                      /\ ran'[p][g] = agreed[g]
  <2> SUFFICES ASSUME connected[p]
               PROVE  /\ DOMAIN ran'[p] = DOMAIN ran[p] \cup {g}
                      /\ \A t \in DOMAIN ran[p] \ {g} : ran'[p][t] = ran[p][t]
                      /\ ran'[p][g] = agreed[g]
    OBVIOUS
  <2>1. ran' = [ran EXCEPT ![p] = [t \in DOMAIN ran[p] \cup {g} |->
                  IF t = g THEN Content(ticdata[p][SlotOf(g)]) ELSE ran[p][t]]]
    BY DEF RunTic
  <2>2. p \in DOMAIN ran
    BY <1>3
  <2>3. Content(ticdata[p][SlotOf(g)]) = agreed[g]
    BY <1>4, <1>5, <1>6
  <2> QED
    BY <2>1, <2>2, <2>3
<1>10. ~ connected[p] => ran' = ran
  BY DEF RunTic
<1>11. RanData(p)'
  <2>1. CASE connected[p]
    <3>1. g \in DOMAIN agreed
      BY <1>4, <1>5, <2>1, Parts DEF HostData
    <3> QED
      BY <1>1, <1>3, <1>9, <2>1, <3>1 DEF RanData
  <2>2. CASE ~ connected[p]
    BY <1>1, <1>3, <1>10, <2>2 DEF RanData
  <2> QED
    BY <2>1, <2>2
<1>12. LoopInv(p)'
  <2>1. CASE connected[p]
    <3>1. DOMAIN ran[p] = 0 .. g - 1 /\ recvtic[p] <= maketic[p]
      BY <1>3, <2>1 DEF LoopInv
    <3>2. DOMAIN ran'[p] = 0 .. gametic'[p] - 1
      <4>1. ASSUME NEW n \in Nat
            PROVE  (0 .. n - 1) \cup {n} = 0 .. (n + 1) - 1
        OBVIOUS
      <4> QED
        BY <1>1, <1>4, <1>9, <2>1, <3>1, <4>1
    <3>3. /\ recvtic'[p] = gametic'[p] + counts'[p] /\ counts'[p] <= 1
          /\ recvtic'[p] <= maketic'[p] /\ maketic'[p] <= gametic'[p] + BackupTics
      BY <1>1, <1>4, <1>5, <2>1, <3>1, RingAssumption
    <3> QED
      BY <1>1, <3>2, <3>3 DEF LoopInv
  <2>2. CASE ~ connected[p]
    BY <1>1, <2>2 DEF LoopInv
  <2> QED
    BY <2>1, <2>2
<1>13. p = Host => HostInv' /\ HostData'
  <2> SUFFICES ASSUME p = Host
               PROVE  HostInv' /\ HostData'
    OBVIOUS
  <2>1. HostInv'
    BY <1>1, Parts DEF HostInv, hostVars
  <2>2. HostData'
    BY <1>1, <1>7, Parts DEF HostData, hostVars
  <2> QED
    BY <2>1, <2>2
<1>14. p # Host => ClientInv(p)' /\ ClientData(p)'
  <2> SUFFICES ASSUME p # Host, p \in Clients
               PROVE  ClientInv(p)' /\ ClientData(p)'
    BY DEF Clients
  <2>1. ClientInv(p)'
    BY <1>1, Parts DEF ClientInv, hostVars, clientVars
  <2>2. ClientData(p)'
    BY <1>1, <1>7, Parts DEF ClientData, clientVars
  <2> QED
    BY <2>1, <2>2
<1>15. \A c \in Clients : last_local[c] <= last_local'[c]
                          /\ (c # p => last_local'[c] = last_local[c])
  BY <1>1, Numbers DEF clientVars
<1> HIDE DEF g, top
<1> QED
  BY <1>1, <1>8, <1>11, <1>12, <1>13, <1>14, <1>15, LoopKeeps DEF hostVars, clientVars
-----------------------------------------------------------------------------
(***************************************************************************)
(* The steps that receive tics.                                            *)
(***************************************************************************)

\* A client takes the tic it is due into a slot whose tic it has run.
LEMMA ClientReceiveTicKeeps ==
  ASSUME TypeOK, TypeOK', Counters, Data, Clean', NEW c \in Clients, ClientReceiveTic(c)
  PROVE  Counters' /\ Data'
<1> DEFINE e   == down[c].enclosed
           due == e # None /\ e = last_received[c] + 1
<1>1. /\ UNCHANGED <<hostVars, cycleVars, last_local, client_limit_tic, loopVars, up, agreed,
                     ran>>
      /\ mode[c] = "game" /\ OnBus(c)
      /\ last_server_acked' = IF e # None THEN [last_server_acked EXCEPT ![c] = down[c].ack]
                                          ELSE last_server_acked
      /\ refused' = (refused \/ (due /\ ~ (e < client_limit_tic[c])))
      /\ IF due /\ e < client_limit_tic[c]
         THEN /\ last_received' = [last_received EXCEPT ![c] = e]
              /\ ticdata' = [ticdata EXCEPT ![c][SlotOf(e)] = down[c].cmds]
         ELSE UNCHANGED <<last_received, ticdata>>
      /\ down' = [down EXCEPT ![c] = NoDown]
  BY DEF ClientReceiveTic
<1>2. connected[c] /\ c \in Players /\ c # Host
  BY <1>1, Numbers DEF OnBus
<1>3. ClientInv(c) /\ DownInv(c) /\ ClientData(c) /\ LoopInv(c)
  BY <1>2, Parts
<1>4. due => e < client_limit_tic[c]
  <2>1. ~ refused'
    BY DEF Clean
  <2> QED
    BY <1>1, <2>1, Zenon
<1>5. last_server_acked'[c] = last_received'[c] /\ last_received'[c] = (IF due THEN e ELSE last_received[c])
  <2>1. last_server_acked'[c] = IF e # None THEN down[c].ack ELSE last_server_acked[c]
    BY <1>1 DEF TypeOK
  <2>2. last_received'[c] = IF due THEN e ELSE last_received[c]
    BY <1>1, <1>4 DEF TypeOK
  <2> QED
    BY <1>3, <2>1, <2>2, Numbers DEF DownInv, ClientInv
<1>6. /\ \A d \in Clients \ {c} : /\ last_server_acked'[d] = last_server_acked[d]
                                  /\ last_received'[d] = last_received[d]
                                  /\ down'[d] = down[d]
      /\ \A q \in Players \ {c} : ticdata'[q] = ticdata[q]
      /\ down'[c].enclosed = None
  BY <1>1 DEF TypeOK, NoDown
<1>7. last_received[c] <= last_received'[c] /\ last_received'[c] <= last_complete_tic
      /\ last_received'[c] <= last_local[c]
  BY <1>3, <1>5, Numbers DEF DownInv, ClientInv
<1>8. ClientInv(c)'
  <2>1. last_server_acked'[c] = last_received'[c]
    BY <1>5
  <2>2. last_acked[c] <= last_received'[c]
    <3>1. last_acked[c] <= last_received[c] /\ last_received'[c] \in Int
      BY <1>2, <1>3, ConstantTypes DEF ClientInv, TypeOK
    <3> QED
      BY <1>7, <3>1, Numbers
  <2>3. recvtic[c] > 0 => recvtic[c] <= last_received'[c]
    <3>1. recvtic[c] > 0 => recvtic[c] <= last_received[c]
      BY <1>2, <1>3 DEF ClientInv
    <3>2. recvtic[c] \in Nat /\ last_received[c] \in Int /\ last_received'[c] \in Int
      BY <1>2, ConstantTypes DEF TypeOK
    <3> QED
      BY <1>7, <3>1, <3>2
  <2> HIDE DEF e, due
  <2> QED
    BY <1>1, <1>3, <1>7, <2>1, <2>2, <2>3 DEF ClientInv, hostVars, loopVars
<1>9. ClientData(c)'
  <2>1. ASSUME NEW t \in gametic[c] .. last_received'[c]
        PROVE  Content(ticdata'[c][SlotOf(t)]) = agreed[t]
    <3>1. CASE ~ due
      BY <1>1, <1>2, <1>3, <1>5, <3>1 DEF ClientData
    <3>2. CASE due
      <4>1. e \in Nat /\ SlotOf(e) \in Slots
        BY <3>2, SlotType, Numbers
      <4>2. ticdata'[c] = [ticdata[c] EXCEPT ![SlotOf(e)] = down[c].cmds]
        BY <1>1, <1>2, <1>4, <3>2 DEF TypeOK
      <4>3. CASE t = e
        <5>1. ticdata[c] \in [Slots -> TicSet]
          BY <1>2 DEF TypeOK
        <5>2. ticdata'[c][SlotOf(t)] = down[c].cmds
          BY <4>1, <4>2, <4>3, <5>1
        <5>3. Content(down[c].cmds) = agreed[e]
          BY <1>3, <3>2 DEF ClientData
        <5> QED
          BY <4>3, <5>2, <5>3
      <4>4. CASE t # e
        <5>1. t \in Nat /\ t < e /\ t \in gametic[c] .. last_received[c]
          BY <1>2, <1>5, <3>2, <4>4, Numbers
        <5>2. e < t + BackupTics
          <6>1. recvtic[c] <= gametic[c] + 1
            BY <1>2, <1>3, Numbers DEF LoopInv
          <6>2. client_limit_tic[c] <= recvtic[c] + BackupTics - 1
            BY <1>2, <1>3 DEF ClientInv
          <6>3. gametic[c] <= t
            BY <5>1
          <6> QED
            BY <1>2, <1>4, <3>2, <5>1, <6>1, <6>2, <6>3, Numbers
        <5>3. SlotOf(t) \in Slots /\ SlotOf(t) # SlotOf(e)
          BY <4>1, <5>1, <5>2, SlotType, SlotDistinct
        <5>4. ticdata'[c][SlotOf(t)] = ticdata[c][SlotOf(t)]
          BY <4>2, <5>3 DEF TypeOK
        <5> QED
          BY <1>2, <1>3, <5>1, <5>4 DEF ClientData
      <4> QED
        BY <4>3, <4>4
    <3> QED
      BY <3>1, <3>2
  <2> HIDE DEF e, due
  <2> QED
    BY <1>1, <1>6, <2>1 DEF ClientData, loopVars
<1> HIDE DEF e, due
<1>10. ASSUME NEW d \in Clients
       PROVE  ClientInv(d)' /\ ClientData(d)' /\ DownInv(d)'
  <2>1. CASE d = c
    BY <1>6, <1>8, <1>9, <2>1 DEF DownInv
  <2>2. CASE d # c
    <3>1. d \in Clients \ {c} /\ d \in Players \ {c}
      BY <2>2, Numbers
    <3>2. UNCHANGED <<member, last_complete_tic, last_sent, last_acked, last_local,
                      client_limit_tic, mode, connected, maketic, recvtic, gametic, agreed>>
      BY <1>1 DEF hostVars, loopVars
    <3>3. ClientInv(d)'
      BY <1>6, <3>1, <3>2, Parts DEF ClientInv
    <3>4. ClientData(d)'
      BY <1>6, <3>1, <3>2, Parts DEF ClientData
    <3>5. DownInv(d)'
      BY <1>6, <3>1, <3>2, Parts DEF DownInv
    <3> QED
      BY <3>3, <3>4, <3>5
  <2> QED
    BY <2>1, <2>2
<1>11. ASSUME NEW p \in Players
       PROVE  LoopInv(p)' /\ RanData(p)'
  <2>1. UNCHANGED <<loopVars, ran, agreed>>
    BY <1>1
  <2> QED
    BY <2>1, Parts DEF LoopInv, RanData, loopVars
<1>12. HostInv' /\ HostData'
  <2>1. Host \in Players \ {c}
    BY <1>2, ConstantTypes
  <2>2. ticdata'[Host] = ticdata[Host]
    BY <1>6, <2>1
  <2>3. UNCHANGED <<hostVars, loopVars, agreed>>
    BY <1>1
  <2> QED
    BY <2>2, <2>3, Parts DEF HostInv, HostData, hostVars, loopVars
<1>13. SeatsInv' /\ UpInv'
  <2>1. SeatsInv'
    BY <1>1, Parts DEF SeatsInv, hostVars, cycleVars
  <2>2. CASE up.kind = "tic"
    <3>1. client_num \in Clients
      BY <2>2, Parts DEF SeatsInv, TypeOK
    <3>2. last_received[client_num] <= last_received'[client_num]
      BY <1>6, <1>7, <3>1, Numbers
    <3>3. last_received'[client_num] \in Int
      BY <3>1, ConstantTypes DEF TypeOK
    <3>4. UNCHANGED <<up, client_num, last_acked, last_local>>
      BY <1>1 DEF hostVars, cycleVars
    <3>5. /\ last_acked[client_num] <= up.rx /\ up.rx <= last_received[client_num]
          /\ (up.enclosed # None =>
                 up.enclosed = up.rx + 1 /\ up.enclosed <= last_local[client_num])
      BY <2>2, Parts DEF UpInv
    <3>6. up.rx <= last_received'[client_num]
      BY <3>1, <3>2, <3>3, <3>5, Numbers
    <3> QED
      BY <2>1, <3>4, <3>5, <3>6 DEF UpInv
  <2> QED
    BY <1>1, <2>1, <2>2 DEF UpInv
<1>14. ran' = [p \in Players |-> ran'[p]]
  BY <1>1 DEF Data
<1> QED
  BY <1>10, <1>11, <1>12, <1>13, <1>14 DEF Counters, Data

\* host_check_tic_advance_locked, after a step that has kept the slots of the
\* tics to be run and resent.
LEMMA AdvanceKeeps ==
  ASSUME TypeOK, TypeOK', Counters, Data,
         NEW kicked \in SUBSET Clients, NEW sent \in [Players -> TicOrNone],
         NEW slots \in [Slots -> TicSet], CheckTicAdvance(kicked, sent, slots),
         UNCHANGED <<clientVars, down, mode, connected, recvtic, gametic, ran>>,
         \A c \in Clients : maketic'[c] = maketic[c] /\ announcing'[c] = announcing[c]
                            /\ counts'[c] = counts[c],
         connected[Host], mode[Host] = "game", last_sent' = sent,
         last_complete_tic <= sent[Host], sent[Host] = maketic'[Host] - 1,
         maketic'[Host] <= gametic[Host] + BackupTics,
         host_limit_tic' <= recvtic[Host] + BackupTics - 1,
         \A c \in Clients : /\ last_acked'[c] <= last_received[c]
                            /\ sent[c] <= last_local[c] /\ sent[c] <= last_acked'[c] + 1,
         \A c \in member \cap Clients : last_complete_tic <= sent[c]
                                        /\ sent[c] <= last_complete_tic + 1,
         \A t \in gametic[Host] .. last_complete_tic :
            Content(slots[SlotOf(t)]) = agreed[t],
         LoopInv(Host)', up'.kind # "none" => protocol_state' = "recv", UpInv'
  PROVE  Counters' /\ Data'
<1> DEFINE C == last_complete_tic
<1>1. /\ member' = member \ kicked
      /\ C <= C'
      /\ C < C' => \A i \in member' : C' <= sent[i]
      /\ \A c \in Clients : ticdata'[c] = ticdata[c]
      /\ DOMAIN agreed' = 0 .. C'
      /\ \A t \in 0 .. C : agreed'[t] = agreed[t]
      /\ \A t \in C + 1 .. C' : agreed'[t] = Content(ticdata'[Host][SlotOf(t)])
      /\ \A s \in Slots \ SlotsOf(C + 1, C') : ticdata'[Host][s] = slots[s]
  <2>1. Advanced(kicked, sent, slots)
    BY Advance
  <2> QED
    BY <2>1 DEF Advanced
<1>2. C \in Int /\ C >= -1 /\ C' \in Int /\ DOMAIN agreed = 0 .. C
      /\ gametic[Host] \in Nat /\ sent[Host] \in Int /\ maketic'[Host] \in Nat
      /\ recvtic[Host] \in Nat /\ host_limit_tic' \in Nat
  BY Parts, Numbers, ConstantTypes DEF HostData, TypeOK
<1> HIDE DEF C
<1>3. Host \in member'
  BY <1>1, Parts DEF SeatsInv, Clients
<1>4. C' <= sent[Host]
  <2>1. CASE C < C'
    BY <1>1, <1>3, <2>1
  <2>2. CASE ~ (C < C')
    BY <1>1, <1>2, <2>2 DEF C
  <2> QED
    BY <2>1, <2>2
<1>5. ASSUME NEW c \in Clients, c \in member'
      PROVE  C' <= sent[c] /\ sent[c] <= C' + 1
  <2>1. C <= sent[c] /\ sent[c] <= C + 1 /\ sent[c] \in Int
    BY <1>1, <1>5, ConstantTypes DEF C
  <2> QED
    BY <1>1, <1>2, <1>5, <2>1
<1>6. HostInv'
  <2>1. recvtic[Host] > 0 => recvtic[Host] <= C'
    <3>1. recvtic[Host] > 0 => recvtic[Host] <= C
      BY Parts DEF HostInv, C
    <3> QED
      BY <1>1, <1>2, <3>1
  <2> QED
    BY <1>2, <1>4, <2>1 DEF HostInv, C
<1>7. HostData'
  <2>1. ASSUME NEW t \in gametic[Host] .. C'
        PROVE  Content(ticdata'[Host][SlotOf(t)]) = agreed'[t]
    <3>1. CASE t \in C + 1 .. C'
      BY <1>1, <3>1
    <3>2. CASE t \notin C + 1 .. C'
      <4>1. t \in Nat /\ t \in 0 .. C /\ t \in gametic[Host] .. C
        BY <1>2, <3>2
      <4>2. ASSUME NEW u \in C + 1 .. C'
            PROVE  SlotOf(u) # SlotOf(t)
        <5>1. u \in Nat /\ t < u /\ u < t + BackupTics
          BY <1>2, <1>4, <4>1, RingAssumption
        <5> QED
          BY <4>1, <5>1, SlotDistinct
      <4>3. ticdata'[Host][SlotOf(t)] = slots[SlotOf(t)]
        BY <1>1, <4>1, <4>2, SlotType DEF SlotsOf
      <4> QED
        BY <1>1, <4>1, <4>3 DEF C
    <3> QED
      BY <3>1, <3>2
  <2>2. gametic'[Host] = gametic[Host]
    OBVIOUS
  <2> QED
    BY <1>1, <2>1, <2>2 DEF HostData, C
<1>8. ASSUME NEW c \in Clients
      PROVE  ClientInv(c)' /\ DownInv(c)' /\ ClientData(c)' /\ LoopInv(c)'
  <2>1. /\ c \in Players /\ c # Host
        /\ last_received[c] \in Int /\ last_received[c] <= C
    BY Parts, Numbers DEF ClientInv, C
  <2>2. ClientInv(c)'
    <3>1. last_received[c] <= C'
      BY <1>1, <1>2, <2>1
    <3> QED
      BY <1>5, <3>1, Parts DEF ClientInv, clientVars, C
  <2>3. DownInv(c)'
    <3>1. down[c].enclosed \in Int
      BY Numbers
    <3> QED
      BY <1>1, <1>2, <3>1, Parts DEF DownInv, clientVars, C
  <2>4. LoopInv(c)'
    BY <2>1, Parts DEF LoopInv
  <2>5. ClientData(c)'
    <3>1. ASSUME connected[c], NEW t \in gametic[c] .. last_received[c]
          PROVE  Content(ticdata'[c][SlotOf(t)]) = agreed'[t]
      <4>1. gametic[c] \in Nat
        BY <2>1, Numbers
      <4>2. t \in 0 .. C
        BY <1>2, <2>1, <4>1
      <4> QED
        BY <1>1, <3>1, <4>2, Parts DEF ClientData
    <3>2. ASSUME down[c].enclosed # None
          PROVE  Content(down[c].cmds) = agreed'[down[c].enclosed]
      <4>1. down[c].enclosed \in 0 .. C
        <5>1. down[c].enclosed <= C
          BY <3>2, Parts DEF DownInv, C
        <5>2. down[c].enclosed \in Int /\ down[c].enclosed >= -1
          BY Numbers
        <5> QED
          BY <1>2, <3>2, <5>1, <5>2
      <4> QED
        BY <1>1, <3>2, <4>1, Parts DEF ClientData
    <3> QED
      BY <3>1, <3>2 DEF ClientData, clientVars
  <2> QED
    BY <2>2, <2>3, <2>4, <2>5
<1>9. ASSUME NEW p \in Players
      PROVE  LoopInv(p)' /\ RanData(p)'
  <2>1. LoopInv(p)'
    BY <1>8 DEF Clients
  <2>2. ASSUME NEW t \in DOMAIN ran[p]
        PROVE  t \in DOMAIN agreed' /\ ran[p][t] = agreed'[t]
    <3>1. t \in 0 .. C /\ ran[p][t] = agreed[t]
      BY <1>2, Parts DEF RanData
    <3>2. t \in 0 .. C'
      BY <1>1, <1>2, <3>1
    <3> QED
      BY <1>1, <3>1, <3>2
  <2>3. RanData(p)'
    BY <2>2 DEF RanData
  <2> QED
    BY <2>1, <2>3
<1>10. SeatsInv'
  BY <1>3 DEF SeatsInv
<1>11. ran' = [p \in Players |-> ran'[p]]
  BY DEF Data
<1> QED
  BY <1>6, <1>7, <1>8, <1>9, <1>10, <1>11 DEF Counters, Data

\* What a host in the net game knows of its own tics.
LEMMA HostFacts ==
  ASSUME TypeOK, Counters, Data, connected[Host]
  PROVE  /\ gametic[Host] \in Nat /\ recvtic[Host] \in Nat /\ maketic[Host] \in Nat
         /\ last_complete_tic \in Int /\ last_complete_tic >= -1
         /\ last_sent[Host] = maketic[Host] - 1 /\ last_complete_tic <= last_sent[Host]
         /\ maketic[Host] <= gametic[Host] + BackupTics
         /\ recvtic[Host] <= gametic[Host] + 1
         /\ host_limit_tic \in Nat /\ host_limit_tic <= recvtic[Host] + BackupTics - 1
         /\ mode[Host] = "game"
         /\ \A t \in gametic[Host] .. last_complete_tic :
              Content(ticdata[Host][SlotOf(t)]) = agreed[t]
<1>1. LoopInv(Host) /\ HostInv /\ HostData
  BY Parts
<1>2. /\ gametic[Host] \in Nat /\ recvtic[Host] \in Nat /\ maketic[Host] \in Nat
      /\ counts[Host] \in Nat /\ last_complete_tic \in Int /\ last_complete_tic >= -1
      /\ host_limit_tic \in Nat
  BY Numbers, ConstantTypes
<1>3. /\ last_sent[Host] = maketic[Host] - 1 /\ last_complete_tic <= last_sent[Host]
      /\ host_limit_tic <= recvtic[Host] + BackupTics - 1
  BY <1>1 DEF HostInv
<1>4. /\ recvtic[Host] = gametic[Host] + counts[Host] /\ counts[Host] <= 1
      /\ maketic[Host] <= gametic[Host] + BackupTics /\ mode[Host] = "game"
  BY <1>1 DEF LoopInv
<1>5. \A t \in gametic[Host] .. last_complete_tic :
        Content(ticdata[Host][SlotOf(t)]) = agreed[t]
  BY <1>1 DEF HostData
<1> QED
  BY <1>2, <1>3, <1>4, <1>5

\* What the host knows of each client.
LEMMA ClientFacts ==
  ASSUME TypeOK, Counters, Data
  PROVE  /\ \A c \in Clients :
              /\ last_acked[c] <= last_received[c] /\ last_sent[c] <= last_local[c]
              /\ last_sent[c] <= last_acked[c] + 1 /\ last_received[c] <= last_complete_tic
         /\ \A c \in member \cap Clients : last_complete_tic <= last_sent[c]
                                           /\ last_sent[c] <= last_complete_tic + 1
  BY Parts DEF ClientInv

LEMMA HostNewLocalTicKeeps ==
  ASSUME TypeOK, TypeOK', Counters, Data, HostNewLocalTic
  PROVE  Counters' /\ Data'
<1> DEFINE sent == [last_sent EXCEPT ![Host] = maketic[Host]]
<1>1. /\ UNCHANGED <<host_limit_tic, last_acked, abort_count, cycleVars, clientVars, mode,
                     connected, recvtic, gametic, counts, up, down, ran>>
      /\ mode[Host] = "game" /\ announcing[Host] /\ ~ announcing'[Host]
      /\ last_sent' = sent /\ CheckTicAdvance({}, sent, ticdata[Host])
      /\ maketic'[Host] = maketic[Host] + 1
      /\ \A c \in Clients : maketic'[c] = maketic[c] /\ announcing'[c] = announcing[c]
                            /\ counts'[c] = counts[c]
  BY ConstantTypes DEF HostNewLocalTic, TypeOK, Clients
<1>2. LoopInv(Host) /\ UpInv /\ SeatsInv
  BY Parts
<1>3. connected[Host] /\ maketic[Host] < gametic[Host] + BackupTics
  BY <1>1, <1>2 DEF LoopInv
<1>4. /\ sent \in [Players -> TicOrNone] /\ sent[Host] = maketic[Host]
      /\ \A c \in Clients : sent[c] = last_sent[c]
  <2>1. sent \in [Players -> TicOrNone]
    BY <1>1 DEF TypeOK
  <2> QED
    BY <2>1, ConstantTypes DEF TypeOK, Clients
<1> HIDE DEF sent
<1>5. ticdata[Host] \in [Slots -> TicSet] /\ {} \in SUBSET Clients
  BY ConstantTypes DEF TypeOK
<1>6. LoopInv(Host)'
  <2>1. recvtic[Host] <= maketic[Host] /\ recvtic[Host] = gametic[Host] + counts[Host]
        /\ counts[Host] <= 1 /\ DOMAIN ran[Host] = 0 .. gametic[Host] - 1
    BY <1>2, <1>3 DEF LoopInv
  <2>2. recvtic[Host] <= maketic'[Host] /\ maketic'[Host] <= gametic[Host] + BackupTics
    BY <1>1, <1>3, <2>1, HostFacts, RingAssumption
  <2> QED
    BY <1>1, <2>1, <2>2 DEF LoopInv
<1>7. UpInv' /\ (up'.kind # "none" => protocol_state' = "recv")
  BY <1>1, <1>2 DEF UpInv, SeatsInv, cycleVars, clientVars
<1>8. /\ last_complete_tic <= sent[Host] /\ sent[Host] = maketic'[Host] - 1
      /\ maketic'[Host] <= gametic[Host] + BackupTics
      /\ host_limit_tic' <= recvtic[Host] + BackupTics - 1
  BY <1>1, <1>3, <1>4, HostFacts, RingAssumption
<1>9. \A c \in Clients : /\ last_acked'[c] <= last_received[c]
                         /\ sent[c] <= last_local[c] /\ sent[c] <= last_acked'[c] + 1
  BY <1>1, <1>4, ClientFacts
<1>10. \A c \in member \cap Clients : last_complete_tic <= sent[c]
                                      /\ sent[c] <= last_complete_tic + 1
  BY <1>4, ClientFacts
<1>11. \A t \in gametic[Host] .. last_complete_tic :
         Content(ticdata[Host][SlotOf(t)]) = agreed[t]
  BY <1>3, HostFacts
<1> QED
  BY <1>1, <1>3, <1>4, <1>5, <1>6, <1>7, <1>8, <1>9, <1>10, <1>11, AdvanceKeeps

LEMMA HostKickKeeps ==
  ASSUME TypeOK, TypeOK', Counters, Data, HostKick
  PROVE  Counters' /\ Data'
<1>1. /\ UNCHANGED <<last_sent, last_acked, abort_count, cycleVars, clientVars, mode,
                     connected, maketic, recvtic, gametic, announcing, up, down, ran>>
      /\ mode[Host] = "game" /\ ~ announcing[Host] /\ connected[Host] /\ counts[Host] = 0
      /\ host_limit_tic' = recvtic[Host] + BackupTics - 1
      /\ Allow(Host, Lesser(maketic[Host], recvtic[Host]))
  BY DEF HostKick, InLoop, WindowEnd
<1>2. PICK kicked \in SUBSET Clients : CheckTicAdvance(kicked, last_sent, ticdata[Host])
  BY DEF HostKick
<1>3. LoopInv(Host) /\ UpInv /\ SeatsInv
  BY Parts
<1>4. recvtic[Host] = gametic[Host] /\ recvtic[Host] <= maketic[Host]
  BY <1>1, <1>3, HostFacts DEF LoopInv
<1>5. Lesser(maketic[Host], recvtic[Host]) = gametic[Host]
  BY <1>1, <1>4, HostFacts DEF Lesser
<1>6. \A p \in Players : counts'[p] = counts[p]
  BY <1>1, <1>5, HostFacts, AllowBound, ConstantTypes
<1>7. LoopInv(Host)'
  BY <1>1, <1>3, <1>6, ConstantTypes DEF LoopInv
<1>8. UpInv' /\ (up'.kind # "none" => protocol_state' = "recv")
  BY <1>1, <1>3 DEF UpInv, SeatsInv, cycleVars, clientVars
<1>9. \A c \in Clients : maketic'[c] = maketic[c] /\ announcing'[c] = announcing[c]
                         /\ counts'[c] = counts[c]
  BY <1>1, <1>6, ConstantTypes
<1>10. /\ last_complete_tic <= last_sent[Host] /\ last_sent[Host] = maketic'[Host] - 1
       /\ maketic'[Host] <= gametic[Host] + BackupTics
  BY <1>1, HostFacts
<1>11. host_limit_tic' <= recvtic[Host] + BackupTics - 1
  BY <1>1, HostFacts, RingAssumption
<1>12. \A c \in Clients : /\ last_acked'[c] <= last_received[c]
                          /\ last_sent[c] <= last_local[c]
                          /\ last_sent[c] <= last_acked'[c] + 1
  BY <1>1, ClientFacts
<1>13. \A t \in gametic[Host] .. last_complete_tic :
         Content(ticdata[Host][SlotOf(t)]) = agreed[t]
  BY <1>1, HostFacts
<1>14. ticdata[Host] \in [Slots -> TicSet] /\ last_sent \in [Players -> TicOrNone]
  BY ConstantTypes DEF TypeOK
<1> QED
  BY <1>1, <1>2, <1>7, <1>8, <1>9, <1>10, <1>11, <1>12, <1>13, <1>14, ClientFacts,
     AdvanceKeeps

\* A reply that brings no new tic changes at most what the host knows the
\* client has received.
LEMMA AckOnlyKeeps ==
  ASSUME TypeOK, TypeOK', Counters, Data,
         UNCHANGED <<member, last_complete_tic, host_limit_tic, last_sent, clientVars,
                     loopVars, down, ticdata, agreed, ran>>,
         up' = NoUp,
         \A c \in Clients : last_acked[c] <= last_acked'[c]
                            /\ last_acked'[c] <= last_received[c]
  PROVE  Counters' /\ Data'
<1> USE DEF clientVars, loopVars
<1>1. SeatsInv' /\ UpInv'
  BY Parts DEF SeatsInv, UpInv, NoUp
<1>2. HostInv' /\ HostData'
  BY Parts DEF HostInv, HostData
<1>3. ASSUME NEW p \in Players
      PROVE  LoopInv(p)' /\ RanData(p)'
  BY Parts DEF LoopInv, RanData
<1>4. ASSUME NEW c \in Clients
      PROVE  ClientInv(c)' /\ DownInv(c)' /\ ClientData(c)'
  <2>1. last_sent[c] <= last_acked'[c] + 1
    <3>1. last_sent[c] \in Int /\ last_acked[c] \in Int /\ last_acked'[c] \in Int
      BY ConstantTypes DEF TypeOK
    <3> QED
      BY <3>1, ClientFacts
  <2>2. ClientInv(c)'
    BY <2>1, Parts DEF ClientInv
  <2>3. DownInv(c)' /\ ClientData(c)'
    BY Parts DEF DownInv, ClientData
  <2> QED
    BY <2>2, <2>3
<1>5. ran' = [p \in Players |-> ran'[p]]
  BY DEF Data
<1> QED
  BY <1>1, <1>2, <1>3, <1>4, <1>5 DEF Counters, Data

LEMMA HostAbortKeeps ==
  ASSUME TypeOK, TypeOK', Counters, Data, HostAbort
  PROVE  Counters' /\ Data'
<1>1. /\ UNCHANGED <<host_limit_tic, last_sent, last_acked, clientVars, loopVars, down, ran>>
      /\ HostOnBus /\ protocol_state = "recv" /\ up' = NoUp /\ connected[Host]
  BY DEF HostAbort, HostOnBus
<1>2. client_num \in Clients
  BY <1>1 DEF TypeOK
<1>3. CASE CheckTicAdvance({client_num}, last_sent, ticdata[Host])
  <2>1. LoopInv(Host)'
    BY <1>1, Parts DEF LoopInv, loopVars
  <2>2. UpInv' /\ up'.kind = "none"
    BY <1>1 DEF UpInv, NoUp
  <2>3. \A c \in Clients : maketic'[c] = maketic[c] /\ announcing'[c] = announcing[c]
                           /\ counts'[c] = counts[c]
    BY <1>1 DEF loopVars
  <2>4. /\ last_complete_tic <= last_sent[Host] /\ last_sent[Host] = maketic'[Host] - 1
        /\ maketic'[Host] <= gametic[Host] + BackupTics
        /\ host_limit_tic' <= recvtic[Host] + BackupTics - 1
        /\ mode[Host] = "game"
    BY <1>1, HostFacts DEF loopVars
  <2>5. \A c \in Clients : /\ last_acked'[c] <= last_received[c]
                           /\ last_sent[c] <= last_local[c]
                           /\ last_sent[c] <= last_acked'[c] + 1
    BY <1>1, ClientFacts
  <2>6. \A t \in gametic[Host] .. last_complete_tic :
          Content(ticdata[Host][SlotOf(t)]) = agreed[t]
    BY <1>1, HostFacts
  <2>7. ticdata[Host] \in [Slots -> TicSet] /\ last_sent \in [Players -> TicOrNone]
        /\ {client_num} \in SUBSET Clients
    BY <1>2, ConstantTypes DEF TypeOK
  <2>8. UNCHANGED <<clientVars, down, mode, connected, recvtic, gametic, ran, last_sent>>
    BY <1>1 DEF loopVars
  <2> QED
    BY <1>1, <1>3, <2>1, <2>2, <2>3, <2>4, <2>5, <2>6, <2>7, <2>8, ClientFacts,
       AdvanceKeeps
<1>4. CASE UNCHANGED <<member, last_complete_tic, ticdata, agreed>>
  <2>1. \A c \in Clients : last_acked[c] <= last_acked'[c]
                           /\ last_acked'[c] <= last_received[c]
    BY <1>1, ClientFacts, Numbers
  <2> QED
    BY <1>1, <1>4, <2>1, AckOnlyKeeps
<1> QED
  BY <1>3, <1>4 DEF HostAbort

\* The host takes a client's tic only into a slot whose tic it has run, and
\* only the tic after the last one that the client has received.
LEMMA HostReceiveKeeps ==
  ASSUME TypeOK, TypeOK', Counters, Data, HostReceive
  PROVE  Counters' /\ Data'
<1> DEFINE c == client_num
           e == up.enclosed
           fits == up.kind = "tic" /\ e > last_complete_tic /\ e < host_limit_tic
           slots == [ticdata[Host] EXCEPT ![SlotOf(e)][c] = up.cell]
           sent == [last_sent EXCEPT ![c] = e]
<1>1. /\ UNCHANGED <<host_limit_tic, clientVars, loopVars, down, ran>>
      /\ HostOnBus /\ protocol_state = "recv" /\ up' = NoUp /\ connected[Host]
      /\ last_acked' = IF up.kind = "tic" THEN [last_acked EXCEPT ![c] = up.rx]
                                          ELSE last_acked
  BY DEF HostReceive, HostOnBus
<1>2. c \in Clients /\ c \in Players /\ c # Host
  BY <1>1, Numbers DEF TypeOK
<1>3. /\ fits => last_sent' = sent /\ CheckTicAdvance({}, sent, slots)
      /\ ~ fits => UNCHANGED <<last_sent, member, last_complete_tic, ticdata, agreed>>
  BY DEF HostReceive
<1>4. up.kind = "tic" => /\ last_acked[c] <= up.rx /\ up.rx <= last_received[c]
                         /\ e # None => e = up.rx + 1 /\ e <= last_local[c]
  BY Parts DEF UpInv
<1>5. /\ \A d \in Clients \ {c} : last_acked'[d] = last_acked[d]
      /\ last_acked'[c] = IF up.kind = "tic" THEN up.rx ELSE last_acked[c]
  BY <1>1, <1>2 DEF TypeOK
<1> HIDE DEF c
<1>6. \A d \in Clients : last_acked[d] <= last_acked'[d] /\ last_acked'[d] <= last_received[d]
  BY <1>2, <1>4, <1>5, ClientFacts, Numbers
<1>7. CASE ~ fits
  <2>1. UNCHANGED <<last_sent, member, last_complete_tic, ticdata, agreed>>
    BY <1>3, <1>7
  <2> QED
    BY <1>1, <1>6, <2>1, AckOnlyKeeps
<1>8. CASE fits
  <2>1. /\ e \in Nat /\ e \in TicOrNone /\ up.cell \in Cell /\ e = up.rx + 1
        /\ last_complete_tic < e /\ e < host_limit_tic /\ e <= last_local[c]
    BY <1>4, <1>8, Numbers DEF TypeOK, UpMsg
  <2>2. SlotOf(e) \in Slots /\ ticdata[Host] \in [Slots -> TicSet]
    BY <2>1, SlotType, ConstantTypes DEF TypeOK
  <2>3. slots \in [Slots -> TicSet]
    BY <1>2, <2>1, <2>2, RingWrites
  <2>4. \A s \in Slots \ {SlotOf(e)} : slots[s] = ticdata[Host][s]
    BY <2>2
  <2>5. /\ sent \in [Players -> TicOrNone] /\ sent[c] = e
        /\ \A p \in Players \ {c} : sent[p] = last_sent[p]
    BY <1>2, <2>1 DEF TypeOK
  <2>6. last_sent' = sent /\ CheckTicAdvance({}, sent, slots)
    BY <1>3, <1>8
  <2>7. ASSUME NEW t \in gametic[Host] .. last_complete_tic
        PROVE  Content(slots[SlotOf(t)]) = agreed[t]
    <3>1. t \in Nat /\ t < e /\ e < t + BackupTics
      BY <1>1, <2>1, HostFacts, RingAssumption
    <3>2. SlotOf(t) \in Slots /\ SlotOf(t) # SlotOf(e)
      BY <2>1, <3>1, SlotType, SlotDistinct
    <3>3. slots[SlotOf(t)] = ticdata[Host][SlotOf(t)]
      BY <2>4, <3>2
    <3> QED
      BY <1>1, <3>3, HostFacts
  <2> HIDE DEF slots, sent, e, fits
  <2>8. LoopInv(Host)'
    BY <1>1, Parts DEF LoopInv, loopVars
  <2>9. UpInv' /\ up'.kind = "none"
    BY <1>1 DEF UpInv, NoUp
  <2>10. \A d \in Clients : maketic'[d] = maketic[d] /\ announcing'[d] = announcing[d]
                            /\ counts'[d] = counts[d]
    BY <1>1 DEF loopVars
  <2>11. sent[Host] = last_sent[Host]
    BY <1>2, <2>5, ConstantTypes
  <2>12. /\ last_complete_tic <= sent[Host] /\ sent[Host] = maketic'[Host] - 1
         /\ maketic'[Host] <= gametic[Host] + BackupTics
         /\ host_limit_tic' <= recvtic[Host] + BackupTics - 1
         /\ mode[Host] = "game"
    BY <1>1, <2>11, HostFacts DEF loopVars
  <2>13. ASSUME NEW d \in Clients
         PROVE  /\ sent[d] <= last_local[d] /\ sent[d] <= last_acked'[d] + 1
                /\ d \in member => last_complete_tic <= sent[d]
                                   /\ sent[d] <= last_complete_tic + 1
    <3>1. CASE d = c
      <4>1. last_acked'[c] = up.rx /\ up.rx <= last_complete_tic
        BY <1>2, <1>4, <1>5, <1>8, ClientFacts, Numbers DEF fits
      <4> QED
        BY <2>1, <2>5, <3>1, <4>1, Numbers
    <3>2. CASE d # c
      <4>1. sent[d] = last_sent[d] /\ last_acked'[d] = last_acked[d]
        BY <1>5, <2>5, <3>2, Numbers
      <4> QED
        BY <4>1, ClientFacts
    <3> QED
      BY <3>1, <3>2
  <2>14. UNCHANGED <<clientVars, down, mode, connected, recvtic, gametic, ran>>
    BY <1>1 DEF loopVars
  <2>15. {} \in SUBSET Clients
    OBVIOUS
  <2> QED
    BY <1>1, <1>6, <2>3, <2>5, <2>6, <2>7, <2>8, <2>9, <2>10, <2>12, <2>13, <2>14, <2>15,
       AdvanceKeeps
<1> QED
  BY <1>7, <1>8
-----------------------------------------------------------------------------
(***************************************************************************)
(* The invariant, and the properties that follow from it.                  *)
(***************************************************************************)
LEMMA InitInvariant == Init => IInv
<1> SUFFICES ASSUME Init
             PROVE  Counters /\ Data
  BY DEF IInv
<1> USE ConstantTypes
<1>1. SeatsInv /\ HostInv /\ UpInv
  BY DEF Init, SeatsInv, HostInv, UpInv, NoUp
<1>2. ASSUME NEW p \in Players
      PROVE  LoopInv(p) /\ RanData(p)
  <2>1. ran[p] = << >> /\ DOMAIN << >> = {}
    BY DEF Init
  <2> QED
    BY <2>1 DEF Init, LoopInv, RanData
<1>3. ASSUME NEW c \in Clients
      PROVE  ClientInv(c) /\ DownInv(c) /\ ClientData(c)
  BY DEF Init, ClientInv, DownInv, ClientData, NoDown
<1>4. HostData
  <2>1. DOMAIN << >> = 0 .. -1
    OBVIOUS
  <2> QED
    BY <2>1 DEF Init, HostData
<1>5. ran = [p \in Players |-> ran[p]]
  BY DEF Init
<1> QED
  BY <1>1, <1>2, <1>3, <1>4, <1>5 DEF Counters, Data

LEMMA NextInvariant == TypeOK /\ TypeOK' /\ IInv /\ [Next]_vars => IInv'
<1> SUFFICES ASSUME TypeOK, TypeOK', IInv, [Next]_vars, Clean'
             PROVE  Counters' /\ Data'
  BY DEF IInv
<1>1. Counters /\ Data
  BY CleanBefore DEF IInv
<1> USE <1>1
<1>2. CASE HostStart
  BY <1>2, HostStartKeeps
<1>3. CASE HostNewLocalTic
  BY <1>3, HostNewLocalTicKeeps
<1>4. CASE HostGetLowTic
  BY <1>4, HostGetLowTicKeeps
<1>5. CASE HostKick
  BY <1>5, HostKickKeeps
<1>6. CASE PeriodicTick \/ HostReceiveShort
  BY <1>6, NoReplyKeeps DEF PeriodicTick, HostReceiveShort
<1>7. CASE HostReceive
  BY <1>7, HostReceiveKeeps
<1>8. CASE HostAbort
  BY <1>8, HostAbortKeeps
<1>9. CASE HostPolled \/ HostSent
  BY <1>9, HostNextKeeps
<1>10. ASSUME NEW c \in Clients, ClientStep(c)
       PROVE  Counters' /\ Data'
  BY <1>10, ClientStartKeeps, ClientNewLocalTicKeeps, ClientGetLowTicKeeps,
     ClientTimeoutKeeps, ClientReplyKeeps, ClientReceiveLobbyKeeps, ClientReceiveTicKeeps
     DEF ClientStep
<1>11. ASSUME NEW p \in Players, LoopStep(p)
       PROVE  Counters' /\ Data'
  BY <1>11, BuildNewTicKeeps, LocalGetLowTicKeeps, RunTicKeeps, LeaveKeeps DEF LoopStep
<1>12. CASE UNCHANGED vars
  <2>1. UNCHANGED <<hostVars, clientVars, loopVars, down, ticdata, agreed, ran,
                    cycleVars, up>>
    BY <1>12 DEF vars
  <2>2. SeatsInv' /\ UpInv'
    BY <2>1, Parts DEF SeatsInv, UpInv, hostVars, clientVars, cycleVars
  <2>3. ASSUME NEW c \in Clients
        PROVE  DownInv(c)' /\ ClientData(c)'
    BY <2>1, Parts DEF DownInv, ClientData, hostVars, clientVars, loopVars
  <2> QED
    BY <2>1, <2>2, <2>3, Quiet
<1> QED
  BY <1>2, <1>3, <1>4, <1>5, <1>6, <1>7, <1>8, <1>9, <1>10, <1>11, <1>12
     DEF Next, HostStep

\* The inductive invariant holds in every reachable state.
THEOREM Invariant == Spec => []IInv
<1>1. TypeOK /\ IInv /\ [Next]_vars => TypeOK' /\ IInv'
  BY TypeNext, NextInvariant
<1> QED
  BY InitType, InitInvariant, <1>1, PTL DEF Spec

\* However messages are lost, repeated or delayed and players come and go, all
\* nodes run the commands that the host agreed, tic by tic.
THEOREM LockstepHolds == Spec => []Lockstep
<1>1. IInv => Lockstep
  BY DEF IInv, Data, RanData, Lockstep
<1> QED
  BY <1>1, Invariant, PTL

\* What the host and a client know of each other's tics never drifts apart by
\* more than one tic.
THEOREM AckWindowHolds == Spec => []AckWindow
<1>1. TypeOK /\ IInv => AckWindow
  BY ClientFacts DEF IInv, AckWindow
<1> QED
  BY <1>1, Invariant, TypeCorrect, PTL

\* The main loop never runs a tic that it has not received, and stops within
\* one of the tics received.
THEOREM NeverAheadHolds == Spec => []NeverAhead
<1>1. TypeOK /\ IInv => NeverAhead
  <2> SUFFICES ASSUME TypeOK, Counters, Data, NEW p \in Players, connected[p]
               PROVE  /\ gametic[p] <= recvtic[p] /\ recvtic[p] <= gametic[p] + 1
                      /\ recvtic[p] <= maketic[p]
    BY DEF IInv, NeverAhead
  <2>1. LoopInv(p)
    BY Parts
  <2>2. /\ recvtic[p] = gametic[p] + counts[p] /\ counts[p] <= 1
        /\ recvtic[p] <= maketic[p]
    BY <2>1 DEF LoopInv
  <2> QED
    BY <2>2, Numbers
<1> QED
  BY <1>1, Invariant, TypeCorrect, PTL

\* The host can resend every complete tic that a client lacks: its slot is
\* neither squashed nor overwritten.
THEOREM ResendIntactHolds == Spec => []ResendIntact
<1>1. TypeOK /\ IInv => ResendIntact
  <2> SUFFICES ASSUME TypeOK, Counters, Data, HostOnBus, NEW c \in member \cap Clients,
                      NEW t \in last_received[c] + 1 .. last_complete_tic
               PROVE  Content(ticdata[Host][SlotOf(t)]) = agreed[t]
    BY DEF IInv, ResendIntact
  <2>1. connected[Host]
    BY DEF HostOnBus
  <2>2. gametic[Host] <= t
    <3>1. last_complete_tic - 1 <= last_received[c] /\ t = last_complete_tic
      BY ClientFacts, Numbers
    <3>2. gametic[Host] <= recvtic[Host]
      <4>1. LoopInv(Host)
        BY Parts
      <4>2. recvtic[Host] = gametic[Host] + counts[Host]
        BY <2>1, <4>1 DEF LoopInv
      <4> QED
        BY <4>2, Numbers, ConstantTypes
    <3>3. recvtic[Host] > 0 => recvtic[Host] <= last_complete_tic
      BY <2>1, Parts DEF HostInv
    <3> QED
      BY <2>1, <3>1, <3>2, <3>3, HostFacts, Numbers
  <2> QED
    BY <2>1, <2>2, HostFacts, Numbers
<1> QED
  BY <1>1, Invariant, TypeCorrect, PTL
=============================================================================
