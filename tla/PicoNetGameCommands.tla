------------------------- MODULE PicoNetGameCommands -------------------------
(***************************************************************************)
(* Proofs about the commands in the tics of PicoNetGame: a player's        *)
(* command is in its slot from the tic it is built until it is run, the    *)
(* agreed tics hold the commands that were built for them, and the agreed  *)
(* tics are one log that every node runs in order.                         *)
(***************************************************************************)
EXTENDS PicoNetGameProofs

USE DEF Host, None, Blank, Squashed, Absent

(***************************************************************************)
(* The inductive invariant for the commands in the slots: where the cell   *)
(* of each player that is still to be run, sent or agreed can be found.    *)
(***************************************************************************)
\* The cell of a command where it was built, and sent.
Built(t) == [cmd |-> t, ingame |-> TRUE]

\* A node's own commands lie in its ring from the tic it runs next to the tic
\* it is announcing, and it never owes more tics than it has built.
OwnCells(p) ==
  mode[p] = "game" =>
    /\ maketic[p] <= gametic[p] + BackupTics
    /\ gametic[p] + counts[p] <= maketic[p]
    /\ \A t \in gametic[p] .. maketic[p] - 1 : ticdata[p][SlotOf(t)][p] = Built(t)
    /\ announcing[p] => ticdata[p][SlotOf(maketic[p])][p] = Built(maketic[p])

\* The command a client has sent for the tic that is next to be complete lies
\* in the host's ring, in a slot that the host has still to run.
SentCell(c) ==
  /\ mode[Host] = "lobby" => last_sent[c] = None
  /\ connected[Host] /\ last_sent[c] = last_complete_tic + 1 =>
       /\ last_sent[c] < gametic[Host] + BackupTics
       /\ ticdata[Host][SlotOf(last_sent[c])][c] = Built(last_sent[c])

UpCell == up.enclosed # None => up.cell = Built(up.enclosed)
DownCell(c) == down[c].enclosed # None => down[c].cmds[c] = Built(down[c].enclosed)

\* An agreed tic has the command of each player who is still in the game, and
\* the command or nothing of the others.
AgreedCell(q) ==
  \A t \in DOMAIN agreed : agreed[t][q] \in {t, Absent} /\ (q \in member => agreed[t][q] = t)

Cells ==
  /\ agreed = [t \in DOMAIN agreed |-> agreed[t]]
  /\ UpCell
  /\ \A p \in Players : OwnCells(p) /\ AgreedCell(p)
  /\ \A c \in Clients : SentCell(c) /\ DownCell(c)
-----------------------------------------------------------------------------
(***************************************************************************)
(* The parts of Cells under a step that leaves their variables alone.      *)
(***************************************************************************)
LEMMA CellParts ==
  ASSUME Cells
  PROVE  /\ agreed = [t \in DOMAIN agreed |-> agreed[t]] /\ UpCell
         /\ \A p \in Players : OwnCells(p) /\ AgreedCell(p)
         /\ \A c \in Clients : SentCell(c) /\ DownCell(c)
         /\ OwnCells(Host)
  BY ConstantTypes DEF Cells

LEMMA OwnFrame ==
  ASSUME NEW p \in Players, OwnCells(p),
         mode'[p] = "game" => mode[p] = "game" /\ announcing'[p] = announcing[p],
         maketic'[p] = maketic[p], gametic'[p] = gametic[p], counts'[p] = counts[p],
         ticdata'[p] = ticdata[p]
  PROVE  OwnCells(p)'
  BY DEF OwnCells

LEMMA SentFrame ==
  ASSUME TypeOK, TypeOK', NEW c \in Clients, SentCell(c),
         last_sent'[c] = last_sent[c], last_complete_tic' = last_complete_tic,
         mode'[Host] = "lobby" => mode[Host] = "lobby",
         connected'[Host] => /\ connected[Host] /\ gametic[Host] <= gametic'[Host]
                             /\ last_sent[c] = last_complete_tic + 1 =>
                                  ticdata'[Host][SlotOf(last_sent[c])][c] =
                                    ticdata[Host][SlotOf(last_sent[c])][c]
  PROVE  SentCell(c)'
<1>1. gametic[Host] \in Nat /\ last_sent[c] \in Int /\ BackupTics \in Nat
  BY Numbers, ConstantTypes
<1>2. gametic'[Host] \in Nat
  BY ConstantTypes DEF TypeOK
<1> QED
  BY <1>1, <1>2 DEF SentCell

LEMMA AgreedFrame ==
  ASSUME NEW q \in Players, AgreedCell(q), agreed' = agreed, member' \subseteq member
  PROVE  AgreedCell(q)'
  BY DEF AgreedCell

\* Steps that build, run, send and agree nothing.
LEMMA QuietCells ==
  ASSUME TypeOK, TypeOK', Cells,
         UNCHANGED <<agreed, member, last_sent, last_complete_tic>>,
         \A p \in Players : OwnCells(p)',
         mode'[Host] = "lobby" => mode[Host] = "lobby",
         connected'[Host] => connected[Host] /\ UNCHANGED <<gametic[Host], ticdata[Host]>>,
         UpCell', \A c \in Clients : DownCell(c)'
  PROVE  Cells'
<1>1. gametic[Host] \in Nat
  BY Numbers, ConstantTypes
<1>2. ASSUME NEW c \in Clients
      PROVE  SentCell(c)'
  BY <1>1, <1>2, CellParts, SentFrame
<1>3. ASSUME NEW q \in Players
      PROVE  AgreedCell(q)'
  BY <1>3, CellParts, AgreedFrame
<1>4. agreed' = [t \in DOMAIN agreed' |-> agreed'[t]]
  BY CellParts
<1> QED
  BY <1>2, <1>3, <1>4 DEF Cells

\* Steps of the tic loop of p that leave its slots alone.
LEMMA LoopCells ==
  ASSUME TypeOK, TypeOK', Cells, NEW p \in Players,
         UNCHANGED <<agreed, member, last_sent, last_complete_tic, up, down>>,
         \A q \in Players \ {p} :
            /\ mode'[q] = mode[q] /\ connected'[q] = connected[q]
            /\ announcing'[q] = announcing[q] /\ maketic'[q] = maketic[q]
            /\ gametic'[q] = gametic[q] /\ counts'[q] = counts[q]
            /\ ticdata'[q] = ticdata[q],
         OwnCells(p)',
         p = Host /\ mode'[Host] = "lobby" => mode[Host] = "lobby",
         p = Host /\ connected'[Host] =>
            connected[Host] /\ UNCHANGED <<gametic[Host], ticdata[Host]>>
  PROVE  Cells'
<1>1. ASSUME NEW q \in Players
      PROVE  OwnCells(q)'
  BY CellParts, OwnFrame
<1>2. UpCell' /\ \A c \in Clients : DownCell(c)'
  BY CellParts DEF UpCell, DownCell
<1>3. /\ connected'[Host] => connected[Host] /\ UNCHANGED <<gametic[Host], ticdata[Host]>>
      /\ mode'[Host] = "lobby" => mode[Host] = "lobby"
  BY ConstantTypes
<1> QED
  BY <1>1, <1>2, <1>3, QuietCells
-----------------------------------------------------------------------------
(***************************************************************************)
(* The steps that only move messages.                                      *)
(***************************************************************************)
LEMMA NoReplyCells ==
  ASSUME TypeOK, TypeOK', Cells,
         UNCHANGED <<hostVars, clientVars, loopVars, down, ticdata, agreed, ran>>,
         up' = NoUp
  PROVE  Cells'
<1> USE DEF hostVars, loopVars
<1>1. ASSUME NEW p \in Players
      PROVE  OwnCells(p)'
  BY CellParts, OwnFrame
<1>2. UpCell' /\ \A c \in Clients : DownCell(c)'
  BY CellParts DEF UpCell, NoUp, DownCell
<1> QED
  BY <1>1, <1>2, QuietCells

\* A complete tic that the host sends to a client has the client's own command.
LEMMA SendCells ==
  ASSUME TypeOK, TypeOK', Counters, Data, Cells, HostPolled \/ HostSent
  PROVE  Cells'
<1>1. /\ UNCHANGED <<hostVars, clientVars, loopVars, up, ticdata, agreed, ran>>
      /\ connected[Host]
  BY DEF HostPolled, HostSent, HostOnBus
<1>2. ASSUME NEW c \in member \cap Clients, HostMsg(c).enclosed # None
      PROVE  HostMsg(c).cmds[c] = Built(HostMsg(c).enclosed)
  <2> DEFINE t   == last_acked[c] + 1
             set == ticdata[Host][SlotOf(t)]
  <2>1. /\ last_sent[c] # None /\ last_acked[c] < last_complete_tic
        /\ HostMsg(c).enclosed = t /\ HostMsg(c).cmds = set
    BY <1>2 DEF HostMsg, LobbyDown, NoDown
  <2>2. t = last_complete_tic /\ t \in Nat
    BY <2>1, ClientFacts, Numbers
  <2>3. gametic[Host] <= t
    <3>1. recvtic[Host] > 0 => recvtic[Host] <= last_complete_tic
      BY <1>1, Parts DEF HostInv
    <3>2. gametic[Host] <= recvtic[Host]
      <4>1. recvtic[Host] = gametic[Host] + counts[Host]
        BY <1>1, Parts DEF LoopInv
      <4> QED
        BY <4>1, Numbers, ConstantTypes
    <3> QED
      BY <1>1, <2>2, <3>1, <3>2, HostFacts
  <2>4. t \in DOMAIN agreed /\ Content(set) = agreed[t]
    <3>1. t \in gametic[Host] .. last_complete_tic /\ t \in 0 .. last_complete_tic
      BY <1>1, <2>2, <2>3, HostFacts
    <3> QED
      BY <1>1, <3>1, HostFacts, Parts DEF HostData
  <2>5. agreed[t][c] = t
    BY <2>4, CellParts, ConstantTypes DEF AgreedCell
  <2>6. set \in [Players -> Cell] /\ c \in Players
    BY <2>2, SlotType, ConstantTypes DEF TypeOK, TicSet
  <2> HIDE DEF t, set
  <2>7. (IF set[c].ingame THEN set[c].cmd ELSE Absent) = t
    BY <2>4, <2>5, <2>6 DEF Content
  <2>8. set[c] = Built(t)
    BY <2>2, <2>6, <2>7 DEF Cell, Built
  <2> QED
    BY <2>1, <2>8
<1>3. ASSUME NEW c \in Clients
      PROVE  DownCell(c)'
  <2>1. PICK k : SendAfter(k)
    BY DEF HostPolled, HostSent
  <2>2. CASE down'[c] = down[c]
    BY <2>2, CellParts DEF DownCell
  <2>3. CASE c \in member /\ down'[c] = HostMsg(c)
    BY <1>2, <2>3 DEF DownCell
  <2>4. CASE UNCHANGED down
    BY <2>2, <2>4
  <2>5. ASSUME NEW d \in Following(k, member), down' = [down EXCEPT ![d] = HostMsg(d)]
        PROVE  DownCell(c)'
    BY <2>2, <2>3, <2>5 DEF TypeOK, Following
  <2> QED
    BY <2>1, <2>4, <2>5 DEF SendAfter
<1>4. ASSUME NEW p \in Players
      PROVE  OwnCells(p)'
  BY <1>1, CellParts, OwnFrame DEF loopVars
<1>5. UpCell'
  BY <1>1, CellParts DEF UpCell
<1> QED
  BY <1>1, <1>3, <1>4, <1>5, QuietCells DEF hostVars, loopVars

\* A client sends the command it built.
LEMMA ClientReplyCells ==
  ASSUME TypeOK, TypeOK', Counters, Data, Cells, NEW c \in Clients, ClientReply(c)
  PROVE  Cells'
<1>1. UNCHANGED <<hostVars, cycleVars, clientVars, loopVars, flagVars, ticdata, agreed, ran>>
  BY DEF ClientReply
<1>2. UpCell'
  <2>1. CASE up'.enclosed = None
    BY <2>1 DEF UpCell
  <2>2. CASE up'.enclosed # None
    <3> DEFINE t == last_server_acked[c] + 1
    <3>1. /\ mode[c] = "game" /\ connected[c] /\ last_server_acked[c] < last_local[c]
          /\ up'.enclosed = t /\ up'.cell = ticdata[c][SlotOf(t)][c]
      BY <2>2 DEF ClientReply, OnBus, LobbyUp, NoUp
    <3>2. /\ last_server_acked[c] = last_received[c] /\ last_local[c] = maketic[c] - 1
          /\ recvtic[c] > 0 => recvtic[c] <= last_received[c]
      BY <3>1, Parts DEF ClientInv
    <3>3. gametic[c] <= recvtic[c]
      <4>1. c \in Players /\ LoopInv(c)
        BY Parts, ConstantTypes
      <4>2. recvtic[c] = gametic[c] + counts[c]
        BY <3>1, <4>1 DEF LoopInv
      <4> QED
        BY <4>1, <4>2, Numbers
    <3>4. t \in gametic[c] .. maketic[c] - 1
      BY <3>1, <3>2, <3>3, Numbers
    <3>5. OwnCells(c)
      BY CellParts, ConstantTypes
    <3>6. ticdata[c][SlotOf(t)][c] = Built(t)
      BY <3>1, <3>4, <3>5 DEF OwnCells
    <3> QED
      BY <3>1, <3>6 DEF UpCell
  <2> QED
    BY <2>1, <2>2
<1>3. ASSUME NEW d \in Clients
      PROVE  DownCell(d)'
  <2>1. down'[d] = down[d] \/ down'[d].enclosed = None
    BY DEF ClientReply, TypeOK, NoDown
  <2> QED
    BY <2>1, CellParts DEF DownCell
<1>4. ASSUME NEW p \in Players
      PROVE  OwnCells(p)'
  BY <1>1, CellParts, OwnFrame DEF loopVars
<1> QED
  BY <1>1, <1>2, <1>3, <1>4, QuietCells DEF hostVars, loopVars

LEMMA ClientReceiveLobbyCells ==
  ASSUME TypeOK, TypeOK', Cells, NEW c \in Clients, ClientReceiveLobby(c)
  PROVE  Cells'
<1>1. /\ UNCHANGED <<hostVars, cycleVars, clientVars, connected, maketic, recvtic, gametic,
                     counts, announcing, flagVars, up, ticdata, agreed, ran>>
      /\ \A p \in Players : mode'[p] = "game" => mode[p] = "game"
      /\ mode'[Host] = mode[Host]
  BY Numbers DEF ClientReceiveLobby, TypeOK
<1>2. ASSUME NEW d \in Clients
      PROVE  DownCell(d)'
  <2>1. down'[d] = down[d] \/ down'[d].enclosed = None
    BY DEF ClientReceiveLobby, TypeOK, NoDown
  <2> QED
    BY <2>1, CellParts DEF DownCell
<1>3. ASSUME NEW p \in Players
      PROVE  OwnCells(p)'
  BY <1>1, CellParts, OwnFrame
<1>4. UpCell'
  BY <1>1, CellParts DEF UpCell
<1> QED
  BY <1>1, <1>2, <1>3, <1>4, QuietCells DEF hostVars
-----------------------------------------------------------------------------
(***************************************************************************)
(* The steps of the tic loop.                                              *)
(***************************************************************************)
LEMMA HostStartCells ==
  ASSUME TypeOK, TypeOK', Counters, Data, Cells, HostStart, ~ midLoop'
  PROVE  Cells'
<1>1. /\ UNCHANGED <<hostVars, cycleVars, clientVars, up, down, agreed, ran>>
      /\ mode[Host] = "lobby" /\ mode'[Host] = "game" /\ connected'[Host]
      /\ maketic'[Host] = 0 /\ gametic'[Host] = 0 /\ counts'[Host] = 0
      /\ \A p \in Players \ {Host} :
           /\ mode'[p] = mode[p] /\ announcing'[p] = announcing[p]
           /\ maketic'[p] = maketic[p] /\ gametic'[p] = gametic[p]
           /\ counts'[p] = counts[p] /\ ticdata'[p] = ticdata[p]
  <2>1. counts' = [counts EXCEPT ![Host] = 0]
    <3>1. PICK left \in 0 .. MaxLeft : /\ counts' = [counts EXCEPT ![Host] = left]
                                       /\ midLoop' = (midLoop \/ left > 0)
      BY DEF HostStart
    <3>2. ~ (left > 0)
      BY <3>1, Zenon
    <3>3. left = 0
      BY <3>2, BoundsAssumption
    <3> QED
      BY <3>1, <3>3
  <2> QED
    BY <2>1, ConstantTypes DEF HostStart, TypeOK
<1>2. ticdata'[Host][SlotOf(0)][Host] = Built(0)
  BY ConstantTypes DEF HostStart, TypeOK, TicSet, Built
<1>3. ASSUME NEW p \in Players
      PROVE  OwnCells(p)'
  <2>1. CASE p = Host
    BY <1>1, <1>2, <2>1, RingAssumption DEF OwnCells
  <2>2. CASE p # Host
    BY <1>1, <2>2, CellParts, OwnFrame
  <2> QED
    BY <2>1, <2>2
<1>4. ASSUME NEW c \in Clients
      PROVE  SentCell(c)' /\ DownCell(c)'
  <2>1. DownCell(c)'
    BY <1>1, CellParts DEF DownCell
  <2>2. last_sent[c] = None /\ last_complete_tic = None
    <3>1. last_complete_tic <= last_sent[Host] /\ last_sent[Host] = None
      BY <1>1, Parts DEF HostInv
    <3> QED
      BY <1>1, <3>1, CellParts, Numbers DEF SentCell
  <2>3. last_sent'[c] = None /\ last_complete_tic' = None
    BY <1>1, <2>2 DEF hostVars
  <2>4. SentCell(c)'
    BY <1>1, <2>3 DEF SentCell
  <2> QED
    BY <2>1, <2>4
<1>5. ASSUME NEW q \in Players
      PROVE  AgreedCell(q)'
  BY <1>1, CellParts, AgreedFrame DEF hostVars
<1>6. UpCell' /\ agreed' = [t \in DOMAIN agreed' |-> agreed'[t]]
  BY <1>1, CellParts DEF UpCell
<1> QED
  BY <1>3, <1>4, <1>5, <1>6 DEF Cells

LEMMA ClientStartCells ==
  ASSUME TypeOK, TypeOK', Counters, Data, Cells, NEW c \in Clients, ClientStart(c)
  PROVE  Cells'
<1>1. /\ UNCHANGED <<hostVars, cycleVars, clientVars, counts, announcing, up, down, ticdata,
                     agreed, ran, flagVars>>
      /\ mode[c] = "launch" /\ maketic'[c] = 0 /\ gametic'[c] = 0
      /\ \A q \in Players \ {c} :
            /\ mode'[q] = mode[q] /\ connected'[q] = connected[q]
            /\ maketic'[q] = maketic[q] /\ gametic'[q] = gametic[q]
  BY DEF ClientStart, TypeOK, Clients
<1>2. c \in Players /\ c # Host
  BY Numbers
<1>3. counts'[c] = 0 /\ ~ announcing'[c]
  BY <1>1, <1>2, Parts DEF LoopInv
<1>4. OwnCells(c)'
  BY <1>1, <1>3, RingAssumption DEF OwnCells
<1> QED
  BY <1>1, <1>2, <1>4, LoopCells DEF hostVars

LEMMA LeaveCells ==
  ASSUME TypeOK, TypeOK', Cells, NEW p \in Players, Leave(p)
  PROVE  Cells'
<1>1. /\ UNCHANGED <<hostVars, cycleVars, clientVars, maketic, recvtic, gametic, counts,
                     announcing, up, down, ticdata, agreed, ran>>
      /\ mode'[p] = "left" /\ ~ connected'[p]
      /\ \A q \in Players \ {p} : mode'[q] = mode[q] /\ connected'[q] = connected[q]
  BY DEF Leave, TypeOK
<1>2. OwnCells(p)'
  BY <1>1 DEF OwnCells
<1> QED
  BY <1>1, <1>2, LoopCells DEF hostVars

\* A node never decides to run more tics than it has built.
LEMMA AllowCells ==
  ASSUME TypeOK, TypeOK', Cells, NEW p \in Players, mode[p] = "game",
         NEW lowtic \in Nat, lowtic <= maketic[p], Allow(p, lowtic), counts[p] = 0,
         UNCHANGED <<mode, maketic, gametic, announcing, agreed, member, last_sent,
                     last_complete_tic, up, down>>,
         \A q \in Players \ {p} : connected'[q] = connected[q] /\ ticdata'[q] = ticdata[q],
         \A t \in Nat : ticdata[p][SlotOf(t)][p] = Built(t) =>
                          ticdata'[p][SlotOf(t)][p] = Built(t),
         p = Host => UNCHANGED <<connected, ticdata>>
  PROVE  Cells'
<1>1. /\ \A q \in Players \ {p} : counts'[q] = counts[q]
      /\ gametic[p] + counts'[p] <= maketic[p]
  <2>1. /\ gametic[p] \in Nat /\ maketic[p] \in Nat
        /\ gametic[p] + counts[p] <= maketic[p]
    BY CellParts, Numbers DEF OwnCells
  <2>2. CASE lowtic > gametic[p]
    <3>1. PICK n \in {1, lowtic - gametic[p]} : counts' = [counts EXCEPT ![p] = n]
      BY <2>2 DEF Allow
    <3> QED
      BY <2>1, <2>2, <3>1 DEF TypeOK
  <2>3. CASE ~ (lowtic > gametic[p])
    BY <2>1, <2>3 DEF Allow
  <2> QED
    BY <2>2, <2>3
<1>2. OwnCells(p)'
  <2>1. OwnCells(p) /\ maketic[p] \in Nat /\ gametic[p] \in Nat
    BY CellParts, Numbers
  <2>2. ASSUME NEW t \in gametic[p] .. maketic[p] - 1
        PROVE  ticdata'[p][SlotOf(t)][p] = Built(t)
    <3>1. t \in Nat /\ ticdata[p][SlotOf(t)][p] = Built(t)
      BY <2>1 DEF OwnCells
    <3> QED
      BY <3>1
  <2>3. announcing[p] => ticdata'[p][SlotOf(maketic[p])][p] = Built(maketic[p])
    BY <2>1 DEF OwnCells
  <2> QED
    BY <1>1, <2>1, <2>2, <2>3 DEF OwnCells
<1> QED
  BY <1>1, <1>2, LoopCells

LEMMA GetLowTicCells ==
  ASSUME TypeOK, TypeOK', Cells,
         \/ HostGetLowTic
         \/ \E c \in Clients : ClientGetLowTic(c)
         \/ \E p \in Players : LocalGetLowTic(p)
  PROVE  Cells'
<1>0. \A m, n \in Nat : Lesser(m, n) \in Nat /\ Lesser(m, n) <= m
  BY DEF Lesser
<1>1. CASE HostGetLowTic
  <2>1. maketic[Host] \in Nat /\ recvtic'[Host] \in Nat
    BY ConstantTypes DEF TypeOK
  <2> QED
    BY <1>0, <1>1, <2>1, ConstantTypes, AllowCells DEF HostGetLowTic, InLoop
<1>2. ASSUME NEW c \in Clients, ClientGetLowTic(c)
      PROVE  Cells'
  <2>1. maketic[c] \in Nat /\ recvtic'[c] \in Nat /\ c \in Players /\ c # Host
    BY Numbers DEF TypeOK
  <2> QED
    BY <1>0, <1>2, <2>1, AllowCells DEF ClientGetLowTic, InLoop, hostVars
<1>3. ASSUME NEW p \in Players, LocalGetLowTic(p)
      PROVE  Cells'
  BY <1>3, Numbers, AllowCells DEF LocalGetLowTic, InLoop, hostVars
<1> QED
  BY <1>1, <1>2, <1>3

\* A client that drops to a single player game keeps its own commands.
LEMMA ClientTimeoutCells ==
  ASSUME TypeOK, TypeOK', Cells, NEW c \in Clients, ClientTimeout(c)
  PROVE  Cells'
<1> DEFINE low == Lesser(maketic[c], recvtic[c])
<1>1. /\ c \in Players /\ c # Host
      /\ low \in Nat /\ low <= maketic[c]
  BY Numbers DEF Lesser
<1>2. ASSUME NEW t \in Nat, ticdata[c][SlotOf(t)][c] = Built(t)
      PROVE  ticdata'[c][SlotOf(t)][c] = Built(t)
  <2>1. ticdata'[c][SlotOf(t)] = OnlyLocal(c, ticdata[c][SlotOf(t)])
    BY <1>1, SlotType DEF ClientTimeout, TypeOK
  <2>2. OnlyLocal(c, ticdata[c][SlotOf(t)])[c] = [Built(t) EXCEPT !.ingame = @ /\ c = c]
    BY <1>1, <1>2 DEF OnlyLocal
  <2> QED
    BY <2>1, <2>2 DEF Built
<1>3. \A q \in Players \ {c} : connected'[q] = connected[q] /\ ticdata'[q] = ticdata[q]
  BY DEF ClientTimeout, TypeOK
<1>4. /\ mode[c] = "game" /\ counts[c] = 0 /\ Allow(c, low) /\ low <= maketic[c]
      /\ UNCHANGED <<mode, maketic, gametic, announcing, agreed, member, last_sent,
                     last_complete_tic, up, down>>
  BY <1>1 DEF ClientTimeout, InLoop, hostVars
<1> HIDE DEF low
<1> QED
  BY <1>1, <1>2, <1>3, <1>4, AllowCells

LEMMA BuildNewTicCells ==
  ASSUME TypeOK, TypeOK', Cells, NEW p \in Players, BuildNewTic(p)
  PROVE  Cells'
<1> DEFINE m == maketic[p]
<1>1. /\ UNCHANGED <<hostVars, cycleVars, clientVars, mode, connected, recvtic, gametic,
                     counts, up, down, agreed, ran, flagVars>>
      /\ ~ announcing[p] /\ mode[p] = "game" /\ m - gametic[p] < Lesser(8, BackupTics)
      /\ \A q \in Players \ {p} : /\ announcing'[q] = announcing[q]
                                  /\ maketic'[q] = maketic[q] /\ ticdata'[q] = ticdata[q]
      /\ maketic'[p] = m \/ (maketic'[p] = m + 1 /\ ~ announcing'[p])
  BY DEF BuildNewTic, InLoop, HasRoom, TypeOK
<1>2. /\ m \in Nat /\ gametic[p] \in Nat /\ counts[p] \in Nat /\ OwnCells(p)
      /\ m < gametic[p] + BackupTics
  <2>1. Lesser(8, BackupTics) <= BackupTics /\ Lesser(8, BackupTics) \in Nat
    BY RingAssumption DEF Lesser
  <2>2. m \in Nat /\ gametic[p] \in Nat /\ counts[p] \in Nat
    BY Numbers
  <2> QED
    BY <1>1, <2>1, <2>2, CellParts, RingAssumption
<1>3. /\ ticdata'[p][SlotOf(m)][p] = Built(m)
      /\ \A s \in Slots \ {SlotOf(m)} : ticdata'[p][s] = ticdata[p][s]
      /\ \A s \in Slots, q \in Players \ {p} : ticdata'[p][s][q] = ticdata[p][s][q]
  <2>1. ticdata' = [ticdata EXCEPT ![p][SlotOf(m)][p] = Built(m)]
    BY DEF BuildNewTic, Built
  <2>2. SlotOf(m) \in Slots
    BY <1>2, SlotType
  <2> QED
    BY <2>1, <2>2 DEF TypeOK, TicSet
<1>4. ASSUME NEW t \in gametic[p] .. m
      PROVE  ticdata'[p][SlotOf(t)][p] = Built(t)
  <2>1. CASE t = m
    BY <1>3, <2>1
  <2>2. CASE t # m
    <3>1. /\ t \in gametic[p] .. m - 1 /\ t \in Nat /\ t < m /\ m < t + BackupTics
      BY <1>2, <2>2, RingAssumption
    <3>2. SlotOf(t) \in Slots \ {SlotOf(m)}
      BY <1>2, <3>1, SlotType, SlotDistinct
    <3>3. ticdata[p][SlotOf(t)][p] = Built(t)
      BY <1>1, <1>2, <3>1 DEF OwnCells
    <3> QED
      BY <1>3, <3>2, <3>3
  <2> QED
    BY <2>1, <2>2
<1>5. OwnCells(p)'
  <2>1. /\ maketic'[p] = m \/ maketic'[p] = m + 1
        /\ announcing'[p] => maketic'[p] = m
        /\ gametic'[p] = gametic[p] /\ counts'[p] = counts[p]
        /\ gametic[p] + counts[p] <= m
    BY <1>1, <1>2 DEF OwnCells
  <2>2. \A t \in gametic'[p] .. maketic'[p] - 1 : t \in gametic[p] .. m
    BY <1>2, <2>1
  <2>3. m \in gametic[p] .. m
    BY <1>2, <2>1
  <2>4. maketic'[p] <= gametic'[p] + BackupTics /\ gametic'[p] + counts'[p] <= maketic'[p]
    BY <1>2, <2>1, RingAssumption
  <2> QED
    BY <1>4, <2>1, <2>2, <2>3, <2>4 DEF OwnCells
<1> HIDE DEF m
<1>6. ASSUME NEW q \in Players
      PROVE  OwnCells(q)' /\ AgreedCell(q)'
  <2>1. OwnCells(q)'
    BY <1>1, <1>5, CellParts, OwnFrame
  <2> QED
    BY <1>1, <2>1, CellParts, AgreedFrame DEF hostVars
<1>7. ASSUME NEW c \in Clients
      PROVE  SentCell(c)' /\ DownCell(c)'
  <2>1. DownCell(c)'
    BY <1>1, CellParts DEF DownCell
  <2>2. connected[Host] /\ last_sent[c] = last_complete_tic + 1 =>
          ticdata'[Host][SlotOf(last_sent[c])][c] = ticdata[Host][SlotOf(last_sent[c])][c]
    <3>1. last_sent[c] = last_complete_tic + 1 => SlotOf(last_sent[c]) \in Slots
      BY Numbers, SlotType
    <3>2. c \in Players /\ c # Host /\ Host \in Players
      BY Numbers, ConstantTypes
    <3> QED
      BY <1>1, <1>3, <3>1, <3>2
  <2>3. gametic[Host] <= gametic'[Host] /\ SentCell(c)
    BY <1>1, CellParts, Numbers, ConstantTypes
  <2> QED
    BY <1>1, <2>1, <2>2, <2>3, SentFrame DEF hostVars
<1>8. UpCell' /\ agreed' = [t \in DOMAIN agreed' |-> agreed'[t]]
  BY <1>1, CellParts DEF UpCell
<1> QED
  BY <1>6, <1>7, <1>8 DEF Cells

LEMMA ClientNewLocalTicCells ==
  ASSUME TypeOK, TypeOK', Counters, Data, Cells, NEW c \in Clients, ClientNewLocalTic(c)
  PROVE  Cells'
<1>1. /\ UNCHANGED <<hostVars, cycleVars, mode, connected, recvtic, gametic, counts, up, down,
                     ticdata, agreed, ran>>
      /\ mode[c] = "game" /\ announcing[c]
      /\ maketic'[c] = maketic[c] + 1 /\ ~ announcing'[c]
      /\ \A q \in Players \ {c} : announcing'[q] = announcing[q] /\ maketic'[q] = maketic[q]
  BY Numbers DEF ClientNewLocalTic, TypeOK
<1>2. /\ c \in Players /\ c # Host /\ OwnCells(c) /\ LoopInv(c)
      /\ maketic[c] \in Nat /\ gametic[c] \in Nat /\ counts[c] \in Nat
  BY CellParts, Parts, Numbers
<1>3. maketic[c] < gametic[c] + BackupTics /\ gametic[c] + counts[c] <= maketic[c]
  BY <1>1, <1>2 DEF LoopInv, OwnCells
<1>4. ASSUME NEW t \in gametic[c] .. maketic[c]
      PROVE  ticdata[c][SlotOf(t)][c] = Built(t)
  <2>1. t = maketic[c] \/ t \in gametic[c] .. maketic[c] - 1
    BY <1>2
  <2> QED
    BY <1>1, <1>2, <2>1 DEF OwnCells
<1>5. OwnCells(c)'
  <2>1. /\ \A t \in gametic[c] .. maketic'[c] - 1 : t \in gametic[c] .. maketic[c]
        /\ maketic'[c] <= gametic[c] + BackupTics /\ gametic[c] + counts[c] <= maketic'[c]
    BY <1>1, <1>2, <1>3, RingAssumption
  <2> QED
    BY <1>1, <1>4, <2>1 DEF OwnCells
<1> QED
  BY <1>1, <1>2, <1>5, LoopCells DEF hostVars

\* Running a tic squashes one slot: not one that is still to be run or agreed.
LEMMA RunTicCells ==
  ASSUME TypeOK, TypeOK', Counters, Data, Cells, NEW p \in Players, RunTic(p)
  PROVE  Cells'
<1> DEFINE g == gametic[p]
<1>1. /\ UNCHANGED <<hostVars, cycleVars, clientVars, mode, maketic, recvtic, announcing,
                     up, down, agreed>>
      /\ mode[p] = "game" /\ ~ announcing[p] /\ counts[p] > 0
      /\ gametic'[p] = g + 1 /\ counts'[p] = counts[p] - 1
      /\ connected'[p] => connected[p]
      /\ \A q \in Players \ {p} : connected'[q] = connected[q] /\ ticdata'[q] = ticdata[q]
                                  /\ gametic'[q] = gametic[q] /\ counts'[q] = counts[q]
  BY ConstantTypes DEF RunTic, InLoop, TypeOK
<1>2. \A s \in Slots \ {SlotOf(g)} : ticdata'[p][s] = ticdata[p][s]
  BY SlotType DEF RunTic, TypeOK
<1>3. /\ g \in Nat /\ counts[p] \in Nat /\ maketic[p] \in Nat /\ OwnCells(p)
      /\ maketic[p] <= g + BackupTics /\ g + counts[p] <= maketic[p]
  BY <1>1, CellParts, Numbers DEF OwnCells
<1> HIDE DEF g
<1>4. OwnCells(p)'
  <2>1. ASSUME NEW t \in g + 1 .. maketic[p] - 1
        PROVE  ticdata'[p][SlotOf(t)][p] = Built(t)
    <3>1. t \in Nat /\ t \in g .. maketic[p] - 1 /\ g < t /\ t < g + BackupTics
      BY <1>3, RingAssumption
    <3>2. SlotOf(t) \in Slots \ {SlotOf(g)}
      BY <1>3, <3>1, SlotType, SlotDistinct
    <3> QED
      BY <1>1, <1>2, <1>3, <3>1, <3>2 DEF OwnCells, g
  <2>2. maketic[p] <= (g + 1) + BackupTics /\ (g + 1) + (counts[p] - 1) <= maketic[p]
    BY <1>3, RingAssumption
  <2> QED
    BY <1>1, <2>1, <2>2 DEF OwnCells
<1>5. ASSUME NEW q \in Players
      PROVE  OwnCells(q)' /\ AgreedCell(q)'
  <2>1. OwnCells(q)'
    BY <1>1, <1>4, CellParts, OwnFrame
  <2> QED
    BY <1>1, <2>1, CellParts, AgreedFrame DEF hostVars
<1>6. ASSUME NEW c \in Clients
      PROVE  SentCell(c)' /\ DownCell(c)'
  <2>1. DownCell(c)'
    BY <1>1, CellParts DEF DownCell
  <2>2. connected'[Host] => connected[Host] /\ gametic[Host] <= gametic'[Host]
    <3>1. CASE p = Host
      BY <1>1, <1>3, <3>1 DEF g
    <3>2. CASE p # Host
      <4>1. Host \in Players \ {p} /\ gametic[Host] \in Nat
        BY <3>2, Numbers, ConstantTypes
      <4> QED
        BY <1>1, <4>1
    <3> QED
      BY <3>1, <3>2
  <2>3. CASE p # Host
    <3>1. Host \in Players \ {p}
      BY <2>3, ConstantTypes
    <3> QED
      BY <1>1, <2>1, <2>2, <3>1, CellParts, SentFrame DEF hostVars
  <2>4. CASE p = Host
    <3>1. ASSUME connected'[Host], last_sent[c] = last_complete_tic + 1
          PROVE  ticdata'[Host][SlotOf(last_sent[c])] = ticdata[Host][SlotOf(last_sent[c])]
      <4> DEFINE t == last_sent[c]
      <4>1. connected[Host] /\ t < g + BackupTics
        BY <2>2, <2>4, <3>1, CellParts DEF SentCell, g
      <4>2. g < t /\ t \in Nat
        <5>1. recvtic[Host] = g + counts[Host]
          BY <2>4, <4>1, Parts DEF LoopInv, g
        <5>2. recvtic[Host] > 0 => recvtic[Host] <= last_complete_tic
          BY <4>1, Parts DEF HostInv
        <5> QED
          BY <1>1, <1>3, <2>4, <3>1, <5>1, <5>2, HostFacts, <4>1
      <4>3. SlotOf(t) \in Slots \ {SlotOf(g)}
        BY <1>3, <4>1, <4>2, SlotType, SlotDistinct
      <4> QED
        BY <1>2, <2>4, <4>3
    <3> QED
      BY <1>1, <2>1, <2>2, <3>1, CellParts, SentFrame DEF hostVars
  <2> QED
    BY <2>3, <2>4
<1>7. UpCell' /\ agreed' = [t \in DOMAIN agreed' |-> agreed'[t]]
  BY <1>1, CellParts DEF UpCell
<1> QED
  BY <1>5, <1>6, <1>7 DEF Cells

\* The slot that a client overwrites with a tic from the host has its own
\* command for that tic, and gets it back.
LEMMA ClientReceiveTicCells ==
  ASSUME TypeOK, TypeOK', Counters, Data, Cells, NEW c \in Clients, ClientReceiveTic(c)
  PROVE  Cells'
<1> DEFINE e == down[c].enclosed
<1>1. /\ UNCHANGED <<hostVars, cycleVars, last_local, client_limit_tic, loopVars, up, agreed,
                     ran>>
      /\ mode[c] = "game" /\ connected[c] /\ down' = [down EXCEPT ![c] = NoDown]
      /\ c \in Players /\ c # Host
  BY Numbers DEF ClientReceiveTic, OnBus
<1>2. \/ UNCHANGED ticdata
      \/ /\ e # None /\ e = last_received[c] + 1 /\ e < client_limit_tic[c]
         /\ ticdata' = [ticdata EXCEPT ![c][SlotOf(e)] = down[c].cmds]
  BY DEF ClientReceiveTic
<1>3. OwnCells(c)'
  <2>1. CASE UNCHANGED ticdata
    BY <1>1, <2>1, CellParts, OwnFrame DEF loopVars
  <2>2. CASE /\ e # None /\ e = last_received[c] + 1 /\ e < client_limit_tic[c]
             /\ ticdata' = [ticdata EXCEPT ![c][SlotOf(e)] = down[c].cmds]
    <3>1. e \in Nat /\ SlotOf(e) \in Slots /\ maketic[c] \in Nat /\ gametic[c] \in Nat
      BY <1>1, <2>2, Numbers, SlotType
    <3>2. /\ ticdata'[c][SlotOf(e)] = down[c].cmds
          /\ \A s \in Slots \ {SlotOf(e)} : ticdata'[c][s] = ticdata[c][s]
      BY <1>1, <2>2, <3>1 DEF TypeOK
    <3>3. ticdata'[c][SlotOf(e)][c] = Built(e)
      BY <2>2, <3>2, CellParts DEF DownCell
    <3>4. /\ gametic[c] <= e /\ e < gametic[c] + BackupTics
          /\ maketic[c] <= gametic[c] + BackupTics
      <4>1. LoopInv(c) /\ ClientInv(c)
        BY <1>1, Parts
      <4>2. recvtic[c] = gametic[c] + counts[c] /\ counts[c] <= 1
            /\ maketic[c] <= gametic[c] + BackupTics
        BY <1>1, <4>1 DEF LoopInv
      <4>3. /\ recvtic[c] > 0 => recvtic[c] <= last_received[c]
            /\ client_limit_tic[c] <= recvtic[c] + BackupTics - 1
        BY <1>1, <4>1 DEF ClientInv
      <4> QED
        BY <1>1, <2>2, <3>1, <4>2, <4>3, Numbers
    <3>5. ASSUME NEW t \in Nat, gametic[c] <= t, t < gametic[c] + BackupTics,
                 ticdata[c][SlotOf(t)][c] = Built(t)
          PROVE  ticdata'[c][SlotOf(t)][c] = Built(t)
      <4>1. CASE t = e
        BY <3>3, <4>1
      <4>2. CASE t # e
        <5>1. (t < e /\ e < t + BackupTics) \/ (e < t /\ t < e + BackupTics)
          BY <3>1, <3>4, <3>5, <4>2, RingAssumption
        <5>2. SlotOf(t) \in Slots \ {SlotOf(e)}
          BY <3>1, <5>1, SlotType, SlotDistinct
        <5> QED
          BY <3>2, <3>5, <5>2
      <4> QED
        BY <4>1, <4>2
    <3> HIDE DEF e
    <3>6. OwnCells(c) /\ LoopInv(c)
      BY <1>1, CellParts, Parts
    <3>7. gametic[c] + counts[c] <= maketic[c] /\ counts[c] \in Nat
      BY <1>1, <3>6, Numbers DEF OwnCells
    <3>8. ASSUME NEW t \in gametic[c] .. maketic[c] - 1
          PROVE  ticdata'[c][SlotOf(t)][c] = Built(t)
      <4>1. t \in Nat /\ gametic[c] <= t /\ t < gametic[c] + BackupTics
        BY <3>1, <3>4, RingAssumption
      <4> QED
        BY <1>1, <3>5, <3>6, <4>1 DEF OwnCells
    <3>9. announcing[c] => ticdata'[c][SlotOf(maketic[c])][c] = Built(maketic[c])
      <4>1. announcing[c] => maketic[c] < gametic[c] + BackupTics
        BY <1>1, <3>6 DEF LoopInv
      <4>2. gametic[c] <= maketic[c]
        BY <3>1, <3>7
      <4> QED
        BY <1>1, <3>1, <3>5, <3>6, <4>1, <4>2 DEF OwnCells
    <3> QED
      BY <1>1, <3>4, <3>7, <3>8, <3>9 DEF OwnCells, loopVars
  <2> QED
    BY <1>2, <2>1, <2>2
<1>4. \A q \in Players \ {c} : ticdata'[q] = ticdata[q]
  BY <1>2 DEF TypeOK
<1>5. ASSUME NEW q \in Players
      PROVE  OwnCells(q)'
  BY <1>1, <1>3, <1>4, CellParts, OwnFrame DEF loopVars
<1>6. UpCell' /\ \A d \in Clients : DownCell(d)'
  <2>1. \A d \in Clients : down'[d] = down[d] \/ down'[d].enclosed = None
    BY <1>1 DEF TypeOK, NoDown
  <2> QED
    BY <1>1, <2>1, CellParts DEF UpCell, DownCell
<1>7. Host \in Players \ {c}
  BY <1>1, ConstantTypes
<1> QED
  BY <1>1, <1>4, <1>5, <1>6, <1>7, QuietCells DEF hostVars, loopVars
-----------------------------------------------------------------------------
(***************************************************************************)
(* The steps that complete tics.                                           *)
(***************************************************************************)

\* Who is in a tic that host_check_tic_advance_locked completes: everybody who
\* stays, and nobody who has not sent his command.
LEMMA MembersOfTic ==
  ASSUME NEW kicked \in SUBSET Clients, NEW sent, NEW t,
         AllSent(member \ kicked, sent, t)
  PROVE  /\ member \ kicked \subseteq MembersAt(t, kicked, sent)
         /\ \A i \in MembersAt(t, kicked, sent) : sent[i] >= t
<1>1. member \ kicked \subseteq MembersAt(t, kicked, sent)
  BY DEF MembersAt
<1>2. ASSUME NEW i \in MembersAt(t, kicked, sent)
      PROVE  sent[i] >= t
  <2>1. CASE i \notin kicked
    BY <1>2, <2>1 DEF MembersAt, AllSent
  <2>2. CASE i \in kicked
    <3>1. PICK j \in kicked :
             j < i /\ AllSent(member \ {k \in kicked : k <= j}, sent, t)
      BY <1>2, <2>2 DEF MembersAt
    <3>2. ~ (i <= j) /\ i \in member
      BY <1>2, <2>2, <3>1, ConstantTypes DEF MembersAt
    <3> QED
      BY <3>1, <3>2 DEF AllSent
  <2> QED
    BY <2>1, <2>2
<1> QED
  BY <1>1, <1>2

\* The flags it sets in the slot of each tic, when those slots are distinct.
LEMMA AdvanceFlags ==
  ASSUME TypeOK, NEW kicked \in SUBSET Clients, NEW sent \in [Players -> TicOrNone],
         NEW slots \in [Slots -> TicSet], CheckTicAdvance(kicked, sent, slots),
         NEW low \in Nat, low <= last_complete_tic + 1,
         last_complete_tic' < low + BackupTics
  PROVE  /\ \A t \in last_complete_tic + 1 .. last_complete_tic', i \in Players :
              /\ ticdata'[Host][SlotOf(t)][i] =
                   [slots[SlotOf(t)][i] EXCEPT !.ingame = i \in MembersAt(t, kicked, sent)]
              /\ AllSent(member \ kicked, sent, t)
         /\ agreed' = [t \in DOMAIN agreed' |-> agreed'[t]]
<1> DEFINE done(n) == last_complete_tic + 1 .. n
           flagged(n, s, i) ==
             \E t \in done(n) : SlotOf(t) = s /\ i \in MembersAt(t, kicked, sent)
           filled(n) == [s \in Slots |->
              IF \E t \in done(n) : SlotOf(t) = s
              THEN [i \in Players |-> [slots[s][i] EXCEPT !.ingame = flagged(n, s, i)]]
              ELSE slots[s]]
<1>1. PICK n \in last_complete_tic .. MaxTic - 1 :
         /\ n > last_complete_tic => AllSent(member \ kicked, sent, n)
         /\ last_complete_tic' = n
         /\ ticdata' = [ticdata EXCEPT ![Host] = filled(n)]
         /\ agreed' = [t \in 0 .. n |-> IF t \in done(n) THEN Content(filled(n)[SlotOf(t)])
                                        ELSE agreed[t]]
  BY DEF CheckTicAdvance
<1>2. last_complete_tic \in Int /\ last_complete_tic >= -1 /\ n \in Int
  BY Numbers
<1>3. ticdata'[Host] = filled(n)
  BY <1>1, ConstantTypes DEF TypeOK
<1>4. ASSUME NEW t \in done(n), NEW i \in Players
      PROVE  /\ ticdata'[Host][SlotOf(t)][i] =
                  [slots[SlotOf(t)][i] EXCEPT !.ingame = i \in MembersAt(t, kicked, sent)]
             /\ AllSent(member \ kicked, sent, t)
  <2>1. /\ t \in Nat /\ SlotOf(t) \in Slots
        /\ \A u \in done(n) : SlotOf(u) = SlotOf(t) => u = t
    <3>1. t \in Nat
      BY <1>2
    <3>2. ASSUME NEW u \in done(n), u # t
          PROVE  SlotOf(u) # SlotOf(t)
      <4>1. u \in Nat
        BY <1>2
      <4>2. (t < u /\ u < t + BackupTics) \/ (u < t /\ t < u + BackupTics)
        BY <1>1, <1>2, <3>1, <3>2, <4>1, RingAssumption
      <4> QED
        BY <3>1, <4>1, <4>2, SlotDistinct
    <3> QED
      BY <3>1, <3>2, SlotType
  <2>2. flagged(n, SlotOf(t), i) = (i \in MembersAt(t, kicked, sent))
    <3>1. ASSUME flagged(n, SlotOf(t), i)
          PROVE  i \in MembersAt(t, kicked, sent)
      <4>1. PICK u \in done(n) : SlotOf(u) = SlotOf(t) /\ i \in MembersAt(u, kicked, sent)
        BY <3>1
      <4>2. u = t
        BY <2>1, <4>1
      <4> QED
        BY <4>1, <4>2
    <3>2. ASSUME i \in MembersAt(t, kicked, sent)
          PROVE  flagged(n, SlotOf(t), i)
      BY <1>4, <3>2, Zenon
    <3>3. flagged(n, SlotOf(t), i) \in BOOLEAN /\ (i \in MembersAt(t, kicked, sent)) \in BOOLEAN
      OBVIOUS
    <3> HIDE DEF flagged
    <3>4. ASSUME NEW a \in BOOLEAN, NEW b \in BOOLEAN, a <=> b
          PROVE  a = b
      BY <3>4
    <3>5. flagged(n, SlotOf(t), i) <=> i \in MembersAt(t, kicked, sent)
      BY <3>1, <3>2, Zenon
    <3> QED
      BY <3>3, <3>4, <3>5, Zenon
  <2>3. filled(n)[SlotOf(t)][i] = [slots[SlotOf(t)][i] EXCEPT !.ingame = flagged(n, SlotOf(t), i)]
    BY <2>1
  <2>4. AllSent(member \ kicked, sent, t)
    <3>1. AllSent(member \ kicked, sent, n) /\ t <= n /\ t \in Int
      BY <1>1, <1>2
    <3>2. \A i_1 \in member \ kicked : sent[i_1] \in Int
      BY ConstantTypes DEF TypeOK
    <3> QED
      BY <1>2, <3>1, <3>2 DEF AllSent
  <2> HIDE DEF flagged, filled
  <2> QED
    BY <1>3, <2>2, <2>3, <2>4
<1>5. agreed' = [t \in DOMAIN agreed' |-> agreed'[t]]
  BY <1>1
<1> QED
  BY <1>1, <1>4, <1>5

\* Of two successive numbers only one lies between a third and its successor.
LEMMA Between ==
  \A a, b, d \in Int : a <= b /\ d = b + 1 /\ d <= a + 1 => b = a /\ d = a + 1
OBVIOUS

LEMMA AdvanceCells ==
  ASSUME TypeOK, TypeOK', Counters, Data, Cells,
         NEW kicked \in SUBSET Clients, NEW sent \in [Players -> TicOrNone],
         NEW slots \in [Slots -> TicSet], CheckTicAdvance(kicked, sent, slots),
         UNCHANGED <<down, mode, connected, gametic>>, up' = up \/ up' = NoUp,
         \A c \in Clients : maketic'[c] = maketic[c] /\ announcing'[c] = announcing[c]
                            /\ counts'[c] = counts[c],
         connected[Host], last_sent' = sent, sent[Host] = maketic'[Host] - 1,
         maketic'[Host] <= gametic[Host] + BackupTics,
         gametic[Host] + counts'[Host] <= maketic'[Host],
         announcing'[Host] => /\ maketic'[Host] < gametic[Host] + BackupTics
                              /\ slots[SlotOf(maketic'[Host])][Host] = Built(maketic'[Host]),
         \A t \in gametic[Host] .. maketic'[Host] - 1 :
            slots[SlotOf(t)][Host] = Built(t),
         \A c \in Clients :
            /\ sent[c] <= last_complete_tic + 1
            /\ sent[c] = last_complete_tic + 1 =>
                 /\ sent[c] < gametic[Host] + BackupTics
                 /\ slots[SlotOf(sent[c])][c] = Built(sent[c])
  PROVE  Cells'
<1> DEFINE C == last_complete_tic
           g == gametic[Host]
           m == maketic'[Host]
           done == C + 1 .. C'
<1>1. Advanced(kicked, sent, slots)
  BY Advance
<1>2. /\ member' = member \ kicked /\ C <= C'
      /\ C < C' => \A i \in member' : C' <= sent[i]
      /\ \A c \in Clients : ticdata'[c] = ticdata[c]
      /\ DOMAIN agreed' = 0 .. C' /\ \A t \in 0 .. C : agreed'[t] = agreed[t]
      /\ \A t \in done : agreed'[t] = Content(ticdata'[Host][SlotOf(t)])
      /\ \A s \in Slots \ SlotsOf(C + 1, C') : ticdata'[Host][s] = slots[s]
      /\ ticdata' \in [Players -> [Slots -> TicSet]]
  BY <1>1 DEF Advanced
<1>3. /\ C \in Int /\ C >= -1 /\ C' \in Int /\ g \in Nat /\ m \in Nat
      /\ BackupTics \in Nat /\ BackupTics >= 2
      /\ \A i \in Players : sent[i] \in Int
  BY Numbers, ConstantTypes DEF TypeOK
<1>4. g <= C + 1
  <2>1. recvtic[Host] = g + counts[Host]
    BY Parts DEF LoopInv
  <2>2. recvtic[Host] > 0 => recvtic[Host] <= C
    BY Parts DEF HostInv
  <2>3. recvtic[Host] \in Int /\ counts[Host] \in Nat
    BY Numbers, ConstantTypes
  <2>4. recvtic[Host] <= C + 1
    BY <1>3, <2>2, <2>3
  <2> QED
    BY <1>3, <2>1, <2>3, <2>4
<1>5. Host \in member' /\ (C < C' => C' <= m - 1)
  <2>1. Host \in member'
    BY <1>2, Parts DEF SeatsInv, Clients
  <2> QED
    BY <1>2, <2>1
<1>6. C < C' => C' < g + BackupTics
  BY <1>3, <1>5
<1>7. /\ \A t \in done, i \in Players :
           /\ ticdata'[Host][SlotOf(t)][i] =
                [slots[SlotOf(t)][i] EXCEPT !.ingame = i \in MembersAt(t, kicked, sent)]
           /\ AllSent(member \ kicked, sent, t)
      /\ agreed' = [t \in DOMAIN agreed' |-> agreed'[t]]
  <2>1. C' < (IF C < C' THEN g ELSE C + 1) + BackupTics
        /\ (IF C < C' THEN g ELSE C + 1) \in Nat
        /\ (IF C < C' THEN g ELSE C + 1) <= C + 1
    BY <1>2, <1>3, <1>4, <1>6
  <2> QED
    BY <2>1, AdvanceFlags
<1> HIDE DEF C, g, m
\* The other slots of the host's window stay as they are.
<1>8. ASSUME NEW u \in Nat, g <= u, u < g + BackupTics, u \notin done
      PROVE  ticdata'[Host][SlotOf(u)] = slots[SlotOf(u)]
  <2>1. ASSUME NEW t \in done
        PROVE  SlotOf(t) # SlotOf(u)
    <3>1. t \in Nat /\ t # u /\ g <= t /\ t < g + BackupTics
      BY <1>3, <1>4, <1>6, <1>8, <2>1
    <3>2. (t < u /\ u < t + BackupTics) \/ (u < t /\ t < u + BackupTics)
      BY <1>3, <1>8, <3>1
    <3> QED
      BY <1>8, <3>1, <3>2, SlotDistinct
  <2> QED
    BY <1>2, <1>8, <2>1, SlotType DEF SlotsOf
<1>9. ASSUME NEW t \in done
      PROVE  /\ t \in Nat
             /\ member' \subseteq MembersAt(t, kicked, sent)
             /\ \A i \in MembersAt(t, kicked, sent) : i \in Players /\ sent[i] >= t
             /\ g <= t /\ t <= m - 1
  <2>1. AllSent(member \ kicked, sent, t)
    BY <1>7, <1>9, ConstantTypes
  <2>2. member \subseteq Players
    BY DEF TypeOK
  <2>3. t \in Nat /\ g <= t /\ t <= m - 1
    BY <1>3, <1>4, <1>5, <1>9
  <2> QED
    BY <1>2, <2>1, <2>2, <2>3, MembersOfTic DEF MembersAt
<1>10. OwnCells(Host)'
  <2>1. ASSUME NEW t \in g .. m - 1
        PROVE  ticdata'[Host][SlotOf(t)][Host] = Built(t)
    <3>1. slots[SlotOf(t)][Host] = Built(t)
      BY <2>1 DEF g, m
    <3>2. CASE t \in done
      <4>1. Host \in MembersAt(t, kicked, sent)
        BY <1>5, <1>9, <3>2
      <4>2. ticdata'[Host][SlotOf(t)][Host] =
              [slots[SlotOf(t)][Host] EXCEPT !.ingame = Host \in MembersAt(t, kicked, sent)]
        BY <1>7, <3>2, ConstantTypes
      <4>3. ticdata'[Host][SlotOf(t)][Host] = [Built(t) EXCEPT !.ingame = TRUE]
        BY <3>1, <4>1, <4>2
      <4> QED
        BY <4>3 DEF Built
    <3>3. CASE t \notin done
      <4>1. t \in Nat /\ g <= t /\ t < g + BackupTics
        BY <1>3 DEF g, m
      <4> QED
        BY <1>8, <3>1, <3>3, <4>1
    <3> QED
      BY <3>2, <3>3
  <2>2. announcing'[Host] => ticdata'[Host][SlotOf(m)][Host] = Built(m)
    <3> SUFFICES ASSUME announcing'[Host]
                 PROVE  ticdata'[Host][SlotOf(m)][Host] = Built(m)
      OBVIOUS
    <3>1. m < g + BackupTics /\ slots[SlotOf(m)][Host] = Built(m)
      BY DEF g, m
    <3>2. g <= m
      <4>1. gametic[Host] + counts'[Host] <= maketic'[Host] /\ counts'[Host] \in Nat
        BY ConstantTypes DEF TypeOK
      <4> QED
        BY <1>3, <4>1 DEF g, m
    <3>3. m \notin done
      BY <1>3, <1>5
    <3> QED
      BY <1>3, <1>8, <3>1, <3>2, <3>3
  <2> QED
    BY <2>1, <2>2 DEF OwnCells, g, m
<1>11. ASSUME NEW c \in Clients
       PROVE  OwnCells(c)' /\ SentCell(c)' /\ DownCell(c)'
  <2>1. c \in Players /\ c # Host
    BY Numbers
  <2>2. OwnCells(c)'
    BY <1>2, <2>1, CellParts, OwnFrame
  <2>3. SentCell(c)'
    <3>1. ASSUME sent[c] = C' + 1
          PROVE  /\ sent[c] < g + BackupTics
                 /\ ticdata'[Host][SlotOf(sent[c])][c] = Built(sent[c])
      <4>1. sent[c] <= C + 1 /\ sent[c] \in Int
        BY <1>3, <2>1 DEF C
      <4>2. C' = C /\ sent[c] = C + 1
        <5>1. C <= C'
          BY <1>2
        <5>2. C \in Int /\ C' \in Int
          BY <1>3
        <5> QED
          BY <3>1, <4>1, <5>1, <5>2, Between, Zenon
      <4>3. sent[c] < g + BackupTics /\ slots[SlotOf(sent[c])][c] = Built(sent[c])
        BY <4>2 DEF C, g
      <4>4. sent[c] \in Nat /\ g <= sent[c] /\ sent[c] \notin done
        BY <1>3, <1>4, <4>2
      <4> QED
        BY <1>8, <4>3, <4>4
    <3>2. mode'[Host] # "lobby"
      BY Parts DEF LoopInv
    <3> QED
      BY <3>1, <3>2 DEF SentCell, C, g
  <2>4. DownCell(c)'
    BY CellParts DEF DownCell
  <2> QED
    BY <2>2, <2>3, <2>4
<1>12. ASSUME NEW q \in Players
       PROVE  AgreedCell(q)'
  <2>1. ASSUME NEW t \in DOMAIN agreed'
        PROVE  agreed'[t][q] \in {t, Absent} /\ (q \in member' => agreed'[t][q] = t)
    <3>1. CASE t \in done
      <4> DEFINE cell == ticdata'[Host][SlotOf(t)][q]
      <4>1. agreed'[t][q] = IF cell.ingame THEN cell.cmd ELSE Absent
        <5>1. agreed'[t] = Content(ticdata'[Host][SlotOf(t)])
          BY <1>2, <3>1
        <5>2. \A set : Content(set)[q] = IF set[q].ingame THEN set[q].cmd ELSE Absent
          BY DEF Content
        <5> QED
          BY <5>1, <5>2
      <4>2. slots[SlotOf(t)][q] \in Cell
        BY <1>9, <3>1, SlotType DEF TicSet
      <4>3. /\ cell.ingame = (q \in MembersAt(t, kicked, sent))
            /\ cell.cmd = slots[SlotOf(t)][q].cmd
        BY <1>7, <3>1, <4>2 DEF Cell
      <4> HIDE DEF cell
      <4>4. q \in MembersAt(t, kicked, sent) => slots[SlotOf(t)][q] = Built(t)
        <5>1. CASE q = Host
          <6>1. t \in gametic[Host] .. maketic'[Host] - 1
            BY <1>3, <1>9, <3>1 DEF g, m
          <6> QED
            BY <5>1, <6>1
        <5>2. CASE q # Host /\ q \in MembersAt(t, kicked, sent)
          <6>1. q \in Clients /\ sent[q] >= t
            BY <1>9, <3>1, <5>2 DEF Clients
          <6>2. sent[q] <= C + 1 /\ sent[q] \in Int
            BY <1>3, <6>1 DEF C
          <6>3. t = C + 1 /\ sent[q] = t
            BY <1>3, <3>1, <6>1, <6>2
          <6> QED
            BY <6>1, <6>3 DEF C
        <5> QED
          BY <5>1, <5>2
      <4>5. CASE q \in MembersAt(t, kicked, sent)
        <5>1. cell.ingame = TRUE
          BY <4>3, <4>5
        <5>2. cell.cmd = t
          BY <4>3, <4>4, <4>5 DEF Built
        <5> QED
          BY <4>1, <5>1, <5>2
      <4>6. CASE q \notin MembersAt(t, kicked, sent)
        <5>1. ~ cell.ingame /\ q \notin member'
          BY <1>9, <3>1, <4>3, <4>6
        <5> QED
          BY <4>1, <5>1
      <4> QED
        BY <4>5, <4>6
    <3>2. CASE t \notin done
      <4>1. t \in 0 .. C /\ t \in DOMAIN agreed
        BY <1>2, <1>3, <2>1, <3>2, Parts DEF HostData, C
      <4>2. agreed[t][q] \in {t, Absent} /\ (q \in member => agreed[t][q] = t)
        BY <4>1, CellParts DEF AgreedCell
      <4> QED
        BY <1>2, <4>1, <4>2
    <3> QED
      BY <3>1, <3>2
  <2> QED
    BY <2>1 DEF AgreedCell
<1>13. UpCell'
  BY CellParts DEF UpCell, NoUp
<1>14. ASSUME NEW p \in Players
       PROVE  OwnCells(p)'
  BY <1>10, <1>11 DEF Clients
<1> QED
  BY <1>7, <1>11, <1>12, <1>13, <1>14 DEF Cells

\* What a host in the net game knows of the commands in its ring.
LEMMA HostCells ==
  ASSUME TypeOK, Counters, Data, Cells, connected[Host]
  PROVE  /\ maketic[Host] <= gametic[Host] + BackupTics
         /\ gametic[Host] + counts[Host] <= maketic[Host]
         /\ \A t \in gametic[Host] .. maketic[Host] - 1 :
              ticdata[Host][SlotOf(t)][Host] = Built(t)
         /\ announcing[Host] => /\ maketic[Host] < gametic[Host] + BackupTics
                                /\ ticdata[Host][SlotOf(maketic[Host])][Host]
                                     = Built(maketic[Host])
         /\ \A c \in Clients :
              /\ last_sent[c] <= last_complete_tic + 1
              /\ last_sent[c] = last_complete_tic + 1 =>
                   /\ last_sent[c] < gametic[Host] + BackupTics
                   /\ ticdata[Host][SlotOf(last_sent[c])][c] = Built(last_sent[c])
<1>1. OwnCells(Host) /\ LoopInv(Host) /\ \A c \in Clients : SentCell(c)
  BY CellParts, Parts
<1>2. mode[Host] = "game"
  BY HostFacts
<1>3. announcing[Host] => maketic[Host] < gametic[Host] + BackupTics
  BY <1>1, <1>2 DEF LoopInv
<1>4. \A c \in Clients : last_sent[c] <= last_complete_tic + 1
  BY ClientFacts, Numbers
<1> QED
  BY <1>1, <1>2, <1>3, <1>4 DEF OwnCells, SentCell

LEMMA HostNewLocalTicCells ==
  ASSUME TypeOK, TypeOK', Counters, Data, Cells, HostNewLocalTic
  PROVE  Cells'
<1> DEFINE sent == [last_sent EXCEPT ![Host] = maketic[Host]]
<1>1. /\ UNCHANGED <<mode, connected, gametic, counts, up, down>>
      /\ mode[Host] = "game" /\ announcing[Host] /\ ~ announcing'[Host]
      /\ last_sent' = sent /\ CheckTicAdvance({}, sent, ticdata[Host])
      /\ maketic'[Host] = maketic[Host] + 1
      /\ \A c \in Clients : maketic'[c] = maketic[c] /\ announcing'[c] = announcing[c]
                            /\ counts'[c] = counts[c]
  BY ConstantTypes DEF HostNewLocalTic, TypeOK, Clients
<1>2. connected[Host]
  BY <1>1, Parts DEF LoopInv
<1>3. /\ sent \in [Players -> TicOrNone] /\ sent[Host] = maketic[Host]
      /\ \A c \in Clients : sent[c] = last_sent[c]
  <2>1. sent \in [Players -> TicOrNone]
    BY <1>1 DEF TypeOK
  <2> QED
    BY <2>1, ConstantTypes DEF TypeOK, Clients
<1> HIDE DEF sent
<1>4. ticdata[Host] \in [Slots -> TicSet] /\ {} \in SUBSET Clients
  BY ConstantTypes DEF TypeOK
<1>5. /\ gametic[Host] \in Nat /\ maketic[Host] \in Nat /\ counts[Host] \in Nat
      /\ BackupTics \in Nat
  BY Numbers, ConstantTypes
<1>6. /\ sent[Host] = maketic'[Host] - 1
      /\ maketic'[Host] <= gametic[Host] + BackupTics
      /\ gametic[Host] + counts'[Host] <= maketic'[Host]
  BY <1>1, <1>2, <1>3, <1>5, HostCells
<1>7. ASSUME NEW t \in gametic[Host] .. maketic'[Host] - 1
      PROVE  ticdata[Host][SlotOf(t)][Host] = Built(t)
  <2>1. t = maketic[Host] \/ t \in gametic[Host] .. maketic[Host] - 1
    BY <1>1, <1>5
  <2> QED
    BY <1>1, <1>2, <2>1, HostCells
<1>8. \A c \in Clients :
        /\ sent[c] <= last_complete_tic + 1
        /\ sent[c] = last_complete_tic + 1 =>
             /\ sent[c] < gametic[Host] + BackupTics
             /\ ticdata[Host][SlotOf(sent[c])][c] = Built(sent[c])
  BY <1>2, <1>3, HostCells
<1> QED
  BY <1>1, <1>2, <1>3, <1>4, <1>6, <1>7, <1>8, AdvanceCells

LEMMA HostKickCells ==
  ASSUME TypeOK, TypeOK', Counters, Data, Cells, HostKick
  PROVE  Cells'
<1>1. /\ UNCHANGED <<last_sent, mode, connected, maketic, gametic, recvtic, announcing, up,
                     down>>
      /\ connected[Host]
  BY DEF HostKick
<1>2. PICK kicked \in SUBSET Clients : CheckTicAdvance(kicked, last_sent, ticdata[Host])
  BY DEF HostKick
<1>3. LoopInv(Host)'
  <2>1. Counters'
    BY HostKickKeeps
  <2> QED
    BY <2>1, ConstantTypes DEF Counters
<1>4. gametic[Host] + counts'[Host] <= maketic'[Host]
  BY <1>1, <1>3 DEF LoopInv
<1>5. \A c \in Clients : maketic'[c] = maketic[c] /\ announcing'[c] = announcing[c]
                         /\ counts'[c] = counts[c]
  <2>1. \A c \in Clients : counts'[c] = counts[c]
    BY Numbers DEF HostKick, Allow, TypeOK
  <2> QED
    BY <1>1, <2>1
<1>6. ticdata[Host] \in [Slots -> TicSet] /\ last_sent \in [Players -> TicOrNone]
  BY ConstantTypes DEF TypeOK
<1>7. last_sent[Host] = maketic'[Host] - 1
  BY <1>1, HostFacts
<1> QED
  BY <1>1, <1>2, <1>4, <1>5, <1>6, <1>7, HostCells, AdvanceCells

\* A reply without a tic that the host has room for.
LEMMA NoTicCells ==
  ASSUME TypeOK, TypeOK', Cells,
         UNCHANGED <<member, last_complete_tic, last_sent, loopVars, down, ticdata, agreed>>,
         up' = NoUp
  PROVE  Cells'
<1> USE DEF loopVars
<1>1. ASSUME NEW p \in Players
      PROVE  OwnCells(p)'
  BY CellParts, OwnFrame
<1>2. UpCell' /\ \A c \in Clients : DownCell(c)'
  BY CellParts DEF UpCell, NoUp, DownCell
<1> QED
  BY <1>1, <1>2, QuietCells

LEMMA HostAbortCells ==
  ASSUME TypeOK, TypeOK', Counters, Data, Cells, HostAbort
  PROVE  Cells'
<1>1. /\ UNCHANGED <<last_sent, loopVars, down>> /\ up' = NoUp /\ connected[Host]
      /\ client_num \in Clients
  BY DEF HostAbort, HostOnBus, TypeOK
<1>2. CASE CheckTicAdvance({client_num}, last_sent, ticdata[Host])
  <2>1. ticdata[Host] \in [Slots -> TicSet] /\ last_sent \in [Players -> TicOrNone]
        /\ {client_num} \in SUBSET Clients
    BY <1>1, ConstantTypes DEF TypeOK
  <2>2. last_sent[Host] = maketic'[Host] - 1
    BY <1>1, HostFacts DEF loopVars
  <2>3. UNCHANGED <<down, mode, connected, gametic, maketic, counts, announcing>>
    BY <1>1 DEF loopVars
  <2> QED
    BY <1>1, <1>2, <2>1, <2>2, <2>3, HostCells, AdvanceCells
<1>3. CASE UNCHANGED <<member, last_complete_tic, ticdata, agreed>>
  BY <1>1, <1>3, NoTicCells
<1> QED
  BY <1>2, <1>3 DEF HostAbort

\* The host takes a client's command into a slot that it has still to run.
LEMMA HostReceiveCells ==
  ASSUME TypeOK, TypeOK', Counters, Data, Cells, HostReceive
  PROVE  Cells'
<1> DEFINE c == client_num
           e == up.enclosed
           fits == up.kind = "tic" /\ e > last_complete_tic /\ e < host_limit_tic
           slots == [ticdata[Host] EXCEPT ![SlotOf(e)][c] = up.cell]
           sent == [last_sent EXCEPT ![c] = e]
<1>1. /\ UNCHANGED <<loopVars, down>> /\ up' = NoUp /\ connected[Host]
      /\ c \in Clients /\ c \in Players /\ c # Host
  BY Numbers DEF HostReceive, HostOnBus, TypeOK
<1>2. /\ fits => last_sent' = sent /\ CheckTicAdvance({}, sent, slots)
      /\ ~ fits => UNCHANGED <<last_sent, member, last_complete_tic, ticdata, agreed>>
  BY DEF HostReceive
<1>3. CASE ~ fits
  BY <1>1, <1>2, <1>3, NoTicCells
<1>4. CASE fits
  <2>1. /\ e \in Nat /\ e \in TicOrNone /\ up.cell \in Cell /\ up.cell = Built(e)
        /\ e = last_complete_tic + 1 /\ e < gametic[Host] + BackupTics
    <3>1. e \in Nat /\ e \in TicOrNone /\ up.cell \in Cell /\ up.cell = Built(e)
      BY <1>4, CellParts, Numbers DEF TypeOK, UpMsg, UpCell
    <3>2. up.rx <= last_received[c] /\ e = up.rx + 1
      BY <1>4, <3>1, Parts DEF UpInv
    <3>3. e = last_complete_tic + 1
      BY <1>1, <1>4, <3>1, <3>2, ClientFacts, Numbers
    <3>4. host_limit_tic <= gametic[Host] + BackupTics
      BY <1>1, HostFacts, RingAssumption
    <3> QED
      BY <1>1, <1>4, <3>1, <3>3, <3>4, HostFacts, RingAssumption
  <2>2. SlotOf(e) \in Slots /\ ticdata[Host] \in [Slots -> TicSet]
    BY <2>1, SlotType, ConstantTypes DEF TypeOK
  <2>3. slots \in [Slots -> TicSet]
    BY <1>1, <2>1, <2>2, RingWrites
  <2>4. /\ slots[SlotOf(e)][c] = Built(e)
        /\ \A s \in Slots, q \in Players \ {c} : slots[s][q] = ticdata[Host][s][q]
    BY <1>1, <2>1, <2>2 DEF TicSet
  <2>5. /\ sent \in [Players -> TicOrNone] /\ sent[c] = e
        /\ \A p \in Players \ {c} : sent[p] = last_sent[p]
    BY <1>1, <2>1 DEF TypeOK
  <2>6. last_sent' = sent /\ CheckTicAdvance({}, sent, slots)
    BY <1>2, <1>4
  <2> HIDE DEF slots, sent, e, fits, c
  <2>7. Host \in Players \ {c} /\ gametic[Host] \in Nat /\ maketic[Host] \in Nat
    BY <1>1, Numbers, ConstantTypes
  <2>8. UNCHANGED <<down, mode, connected, gametic, maketic, counts, announcing>>
    BY <1>1 DEF loopVars
  <2>9. sent[Host] = maketic'[Host] - 1
    BY <1>1, <2>5, <2>7, <2>8, HostFacts
  <2>10. ASSUME NEW t \in gametic[Host] .. maketic[Host] - 1
         PROVE  slots[SlotOf(t)][Host] = Built(t)
    <3>1. SlotOf(t) \in Slots
      BY <2>7, SlotType
    <3> QED
      BY <1>1, <2>4, <2>7, <3>1, HostCells
  <2>11. announcing[Host] => slots[SlotOf(maketic[Host])][Host] = Built(maketic[Host])
    <3>1. SlotOf(maketic[Host]) \in Slots
      BY <2>7, SlotType
    <3> QED
      BY <1>1, <2>4, <2>7, <3>1, HostCells
  <2>12. ASSUME NEW d \in Clients
         PROVE  /\ sent[d] <= last_complete_tic + 1
                /\ sent[d] = last_complete_tic + 1 =>
                     /\ sent[d] < gametic[Host] + BackupTics
                     /\ slots[SlotOf(sent[d])][d] = Built(sent[d])
    <3>1. CASE d = c
      BY <2>1, <2>4, <2>5, <3>1
    <3>2. CASE d # c
      <4>1. d \in Players \ {c}
        BY <3>2, Numbers
      <4>2. sent[d] = last_complete_tic + 1 => SlotOf(sent[d]) \in Slots
        BY Numbers, SlotType
      <4> QED
        BY <1>1, <2>4, <2>5, <4>1, <4>2, HostCells
    <3> QED
      BY <3>1, <3>2
  <2>13. {} \in SUBSET Clients
    OBVIOUS
  <2>14. /\ maketic[Host] <= gametic[Host] + BackupTics
         /\ gametic[Host] + counts[Host] <= maketic[Host]
         /\ announcing[Host] => maketic[Host] < gametic[Host] + BackupTics
    BY <1>1, HostCells
  <2>15. up' = up \/ up' = NoUp
    BY <1>1
  <2> QED
    BY <1>1, <2>3, <2>5, <2>6, <2>8, <2>9, <2>10, <2>11, <2>12, <2>13, <2>14, <2>15,
       AdvanceCells
<1> QED
  BY <1>3, <1>4
-----------------------------------------------------------------------------
(***************************************************************************)
(* The invariant, and the properties that follow from it.                  *)
(***************************************************************************)
LEMMA InitCells == Init => Cells
<1> SUFFICES ASSUME Init
             PROVE  Cells
  OBVIOUS
<1>1. agreed = << >> /\ DOMAIN agreed = {} /\ agreed = [t \in DOMAIN agreed |-> agreed[t]]
  BY DEF Init
<1>2. UpCell /\ \A c \in Clients : SentCell(c) /\ DownCell(c)
  BY ConstantTypes DEF Init, UpCell, NoUp, SentCell, DownCell, NoDown
<1>3. \A p \in Players : OwnCells(p) /\ AgreedCell(p)
  BY <1>1 DEF Init, OwnCells, AgreedCell
<1> QED
  BY <1>1, <1>2, <1>3 DEF Cells

LEMMA NextCells ==
  ASSUME TypeOK, TypeOK', Counters, Data, Cells, [Next]_vars, Clean'
  PROVE  Cells'
<1>1. CASE HostStart
  BY <1>1, HostStartCells DEF Clean
<1>2. CASE HostNewLocalTic \/ HostKick \/ HostReceive \/ HostAbort
  BY <1>2, HostNewLocalTicCells, HostKickCells, HostReceiveCells, HostAbortCells
<1>3. CASE HostGetLowTic
  BY <1>3, GetLowTicCells
<1>4. CASE PeriodicTick \/ HostReceiveShort
  BY <1>4, NoReplyCells DEF PeriodicTick, HostReceiveShort
<1>5. CASE HostPolled \/ HostSent
  BY <1>5, SendCells
<1>6. ASSUME NEW c \in Clients, ClientStep(c)
      PROVE  Cells'
  BY <1>6, ClientStartCells, ClientNewLocalTicCells, GetLowTicCells, ClientTimeoutCells,
     ClientReplyCells, ClientReceiveLobbyCells, ClientReceiveTicCells DEF ClientStep
<1>7. ASSUME NEW p \in Players, LoopStep(p)
      PROVE  Cells'
  BY <1>7, BuildNewTicCells, GetLowTicCells, RunTicCells, LeaveCells DEF LoopStep
<1>8. CASE UNCHANGED vars
  <2> USE DEF vars, hostVars, loopVars
  <2>1. ASSUME NEW p \in Players
        PROVE  OwnCells(p)'
    BY <1>8, CellParts, OwnFrame
  <2>2. UpCell' /\ \A c \in Clients : DownCell(c)'
    BY <1>8, CellParts DEF UpCell, DownCell
  <2> QED
    BY <1>8, <2>1, <2>2, QuietCells
<1> QED
  BY <1>1, <1>2, <1>3, <1>4, <1>5, <1>6, <1>7, <1>8 DEF Next, HostStep

\* All commands are where they are to be found.
THEOREM CellsHold == Spec => [](Clean => Cells)
<1>1. Init => (Clean => Cells)
  BY InitCells
<1>2. TypeOK /\ TypeOK' /\ IInv /\ (Clean => Cells) /\ [Next]_vars => (Clean => Cells)'
  <2> SUFFICES ASSUME TypeOK, TypeOK', IInv, Clean => Cells, [Next]_vars, Clean'
               PROVE  Cells'
    OBVIOUS
  <2>1. Clean
    BY CleanBefore
  <2> QED
    BY <2>1, NextCells DEF IInv
<1> QED
  BY <1>1, <1>2, TypeCorrect, Invariant, PTL DEF Spec

\* Whatever a node receives, and also when it drops out of the net game, it
\* runs each of the commands it built itself: a command stays in its slot,
\* flagged and unsquashed, until its tic is run.
THEOREM OwnCommandsStay == Spec => []OwnCommandsKept
<1>1. (Clean => Cells) => OwnCommandsKept
  BY DEF Cells, OwnCells, Built, OwnCommandsKept
<1> QED
  BY <1>1, CellsHold, PTL

\* A tic that the host completes holds, for each player in it, the command the
\* player built for it, and nothing for the others: never a command of another
\* tic that shares the slot, never a squashed one.
THEOREM AgreedCommands == Spec => [](Clean => CommandsInPlace)
<1>1. (Clean => Cells) => (Clean => CommandsInPlace)
  BY DEF Cells, AgreedCell, CommandsInPlace
<1> QED
  BY <1>1, CellsHold, PTL
-----------------------------------------------------------------------------
(***************************************************************************)
(* The net game implements the log of TicLog: the agreed tics are the log. *)
(***************************************************************************)

\* Completing tics extends the log.
LEMMA AdvanceDecides ==
  ASSUME TypeOK, Data, Cells, NEW kicked, NEW sent, NEW slots,
         CheckTicAdvance(kicked, sent, slots), UNCHANGED ran
  PROVE  Log!Decide \/ UNCHANGED <<agreed, ran>>
<1> DEFINE C == last_complete_tic
<1>1. PICK n \in C .. MaxTic - 1 : \E content :
         agreed' = [t \in 0 .. n |-> IF t \in C + 1 .. n THEN content[t] ELSE agreed[t]]
  <2> DEFINE done(n) == C + 1 .. n
             flagged(n, s, i) ==
               \E t \in done(n) : SlotOf(t) = s /\ i \in MembersAt(t, kicked, sent)
             filled(n) == [s \in Slots |->
                IF \E t \in done(n) : SlotOf(t) = s
                THEN [i \in Players |-> [slots[s][i] EXCEPT !.ingame = flagged(n, s, i)]]
                ELSE slots[s]]
             content(n) == [t \in done(n) |-> Content(filled(n)[SlotOf(t)])]
  <2>1. PICK n \in C .. MaxTic - 1 :
           agreed' = [t \in 0 .. n |-> IF t \in done(n) THEN Content(filled(n)[SlotOf(t)])
                                       ELSE agreed[t]]
    BY DEF CheckTicAdvance
  <2> HIDE DEF filled
  <2>2. \A t \in 0 .. n : t \in done(n) => content(n)[t] = Content(filled(n)[SlotOf(t)])
    OBVIOUS
  <2>3. agreed' = [t \in 0 .. n |-> IF t \in done(n) THEN content(n)[t] ELSE agreed[t]]
    BY <2>1, <2>2
  <2> HIDE DEF content
  <2> QED
    BY <2>3
<1>2. C \in Int /\ C >= -1 /\ DOMAIN agreed = 0 .. C /\ n \in Int /\ C <= n
  BY Numbers, BoundsAssumption DEF Data, HostData
<1> HIDE DEF C
<1>3. DOMAIN agreed' = 0 .. n /\ \A t \in 0 .. C : agreed'[t] = agreed[t]
  <2>1. PICK content :
          agreed' = [t \in 0 .. n |-> IF t \in C + 1 .. n THEN content[t] ELSE agreed[t]]
    BY <1>1
  <2>2. \A t \in 0 .. C : t \in 0 .. n /\ t \notin C + 1 .. n
    BY <1>2
  <2> QED
    BY <2>1, <2>2
<1>4. CASE n >= 0
  <2>1. n \in DOMAIN agreed' \cup {0} /\ DOMAIN agreed \subseteq DOMAIN agreed'
    BY <1>2, <1>3, <1>4
  <2> QED
    BY <1>2, <1>3, <2>1 DEF Log!Decide
<1>5. CASE ~ (n >= 0)
  <2>1. 0 .. n = {} /\ 0 .. C = {}
    BY <1>2, <1>5
  <2>2. agreed = [t \in {} |-> agreed[t]]
    BY <1>2, <2>1, CellParts
  <2>3. agreed' = [t \in {} |-> agreed'[t]]
    BY <1>1, <1>3, <2>1
  <2>4. agreed' = agreed
    BY <2>2, <2>3
  <2> QED
    BY <2>4
<1> QED
  BY <1>4, <1>5

\* Running a tic runs the next entry of the log.
LEMMA RunTicRuns ==
  ASSUME TypeOK, TypeOK', Counters, Data, NEW p \in Players, RunTic(p)
  PROVE  (\E t \in DOMAIN agreed : Log!Run(p, t)) \/ UNCHANGED <<agreed, ran>>
<1> DEFINE g == gametic[p]
<1>1. agreed' = agreed
  BY DEF RunTic
<1>2. CASE ~ connected[p]
  BY <1>1, <1>2 DEF RunTic
<1>3. CASE connected[p]
  <2>1. ran' = [ran EXCEPT ![p] = [t \in DOMAIN ran[p] \cup {g} |->
                  IF t = g THEN Content(ticdata[p][SlotOf(g)]) ELSE ran[p][t]]]
    BY <1>3 DEF RunTic
  <2>2. DOMAIN ran[p] = 0 .. g - 1 /\ g \in Nat
    BY <1>3, Parts, Numbers DEF LoopInv
  <2>3. ran = [q \in Players |-> ran[q]]
    BY Parts
  <2> DEFINE c == Content(ticdata[p][SlotOf(g)])
  <2>4. ran'[p] = [t \in DOMAIN ran[p] \cup {g} |-> IF t = g THEN c ELSE ran[p][t]]
    BY <2>1, <2>3
  <2> HIDE DEF g, c
  <2>5. g \in DOMAIN ran'[p] /\ ran'[p][g] = c
    BY <2>4
  <2>6. g \in DOMAIN agreed /\ c = agreed[g]
    <3>1. Data'
      BY RunTicKeeps
    <3> QED
      BY <1>1, <2>5, <3>1 DEF Data, RanData
  <2>7. (0 .. g - 1) \cup {g} = 0 .. g
    BY <2>2
  <2>8. ran' = [ran EXCEPT ![p] = [t \in 0 .. g |-> IF t = g THEN agreed[g] ELSE ran[p][t]]]
    <3>1. ran'[p] = [t \in 0 .. g |-> IF t = g THEN agreed[g] ELSE ran[p][t]]
      BY <2>2, <2>4, <2>6, <2>7
    <3>2. ran' = [ran EXCEPT ![p] = ran'[p]]
      BY <2>1, <2>3 DEF g
    <3> QED
      BY <3>1, <3>2
  <2>9. Log!Run(p, g)
    BY <1>1, <2>2, <2>6, <2>8 DEF Log!Run
  <2> QED
    BY <2>6, <2>9
<1> QED
  BY <1>2, <1>3

LEMMA LogStep ==
  ASSUME TypeOK, TypeOK', Counters, Data, Cells, [Next]_vars
  PROVE  \/ Log!Decide
         \/ \E n \in Players : \E t \in DOMAIN agreed : Log!Run(n, t)
         \/ UNCHANGED <<agreed, ran>>
<1>1. CASE UNCHANGED <<agreed, ran>>
  BY <1>1
<1>2. CASE HostStart \/ HostGetLowTic \/ PeriodicTick \/ HostReceiveShort \/ HostPolled
           \/ HostSent
  BY <1>1, <1>2 DEF HostStart, HostGetLowTic, PeriodicTick, HostReceiveShort, HostPolled,
     HostSent
<1>3. CASE HostNewLocalTic \/ HostKick \/ HostReceive \/ HostAbort
  <2>1. /\ UNCHANGED ran
        /\ \/ UNCHANGED agreed
           \/ \E kicked, sent, slots : CheckTicAdvance(kicked, sent, slots)
    BY <1>3 DEF HostNewLocalTic, HostKick, HostReceive, HostAbort
  <2> QED
    BY <1>1, <2>1, AdvanceDecides
<1>4. ASSUME NEW c \in Clients, ClientStep(c)
      PROVE  UNCHANGED <<agreed, ran>>
  BY <1>4 DEF ClientStep, ClientStart, ClientNewLocalTic, ClientGetLowTic, ClientTimeout,
     ClientReply, ClientReceiveLobby, ClientReceiveTic
<1>5. ASSUME NEW p \in Players, LoopStep(p)
      PROVE  \/ \E n \in Players : \E t \in DOMAIN agreed : Log!Run(n, t)
             \/ UNCHANGED <<agreed, ran>>
  <2>1. CASE RunTic(p)
    BY <2>1, RunTicRuns
  <2>2. CASE BuildNewTic(p) \/ LocalGetLowTic(p) \/ Leave(p)
    BY <1>1, <2>2 DEF BuildNewTic, LocalGetLowTic, Leave
  <2> QED
    BY <1>5, <2>1, <2>2 DEF LoopStep
<1>6. CASE UNCHANGED vars
  BY <1>1, <1>6 DEF vars
<1> QED
  BY <1>1, <1>2, <1>3, <1>4, <1>5, <1>6 DEF Next, HostStep

\* As long as the start of the game goes right, there is one log of tics, to
\* which the host only adds, and every node runs its entries one by one, in
\* order and without a gap.
THEOREM OneLogHolds == Spec => OneLog
<1>1. Init => Log!Init
  BY DEF Init, Log!Init, Clean
<1>2. /\ TypeOK /\ TypeOK' /\ IInv /\ (Clean => Cells) /\ [Next]_vars
      => [Log!Next]_(Log!vars)
  <2> SUFFICES ASSUME TypeOK, TypeOK', IInv, Clean => Cells, [Next]_vars
               PROVE  [Log!Next]_(Log!vars)
    OBVIOUS
  <2>1. Clean \in BOOLEAN /\ Clean' \in BOOLEAN
    BY DEF Clean
  <2>2. CASE ~ Clean'
    BY <2>1, <2>2 DEF Log!Next, Log!GivenUp
  <2>3. CASE Clean'
    <3>1. Clean
      BY <2>3, CleanBefore
    <3>2. \/ Log!Decide
          \/ \E n \in Players : \E t \in DOMAIN agreed : Log!Run(n, t)
          \/ UNCHANGED <<agreed, ran>>
      BY <3>1, LogStep DEF IInv
    <3>3. UNCHANGED Clean
      BY <2>1, <2>3, <3>1
    <3> QED
      BY <2>3, <3>1, <3>2, <3>3 DEF Log!Next, Log!Kept, Log!vars
  <2> QED
    BY <2>2, <2>3
<1> QED
  BY <1>1, <1>2, TypeCorrect, Invariant, CellsHold, PTL DEF Spec, OneLog, Log!Spec
=============================================================================
