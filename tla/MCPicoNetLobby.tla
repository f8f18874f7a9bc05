---------------------------- MODULE MCPicoNetLobby ----------------------------
(***************************************************************************)
(* The lobby on small instances, and what the comments of the code say of  *)
(* it and the code does not do.                                            *)
(***************************************************************************)
EXTENDS PicoNetLobby, TLC

\* The boards are interchangeable where all of them are compatible.
Boards == Permutations(Clients)

\* piconet.h, of piconet_get_lobby_state: it returns which player you are.  A
\* client that starts the game on it is the player of that number.  Not so if it
\* has lost its seat and its identity before (one client with two identities,
\* AddrCount = 3, event abort).
PlayerNumberRight ==
  \A c \in Clients : launched[c] => roster[c].players[roster[c].num] = IdOf(c)

\* piconet.c: the host sends the lobby until the client acknowledges the game
\* start.  It does not leave out a client that has not seen it started.  Not so if
\* the host hosts again (two identities, event rehost).
StartIsSent ==
  in_game => \A c \in Clients, i \in Seats :
    Seated(c, i) /\ OnBus(c) /\ ~ launched[c] /\ seen[c].status # "started"
      => seats[i].acked # lobby.seq

\* g_game.c, the consistency check of G_Ticker: all nodes play the same game,
\* which they cannot with different players in it.  Not so if a client is
\* seated between the two critical sections of M_NetGameStart (no event needed).
SamePlayers ==
  in_game => \A c \in Clients, i \in Seats :
    launched[c] /\ Seated(c, i) => roster[c].players = host_roster.players
=============================================================================
