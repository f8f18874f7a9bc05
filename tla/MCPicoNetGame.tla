---------------------------- MODULE MCPicoNetGame ----------------------------
(***************************************************************************)
(* What the comments and assertions of the code say of the net game and    *)
(* the code does not do; the runs that show what does hold check the       *)
(* properties of PicoNetGame.                                              *)
(***************************************************************************)
EXTENDS PicoNetGame

\* d_loop.c, of gametic: a gametic cannot be run until ticcmds are received for
\* it from all players.  Not so if the game is started inside the run loop
\* (MaxLeft = 1).
RunOnlyComplete == DOMAIN ran[Host] \subseteq DOMAIN agreed

\* g_game.c, the consistency check of G_Ticker: no two nodes of one game ever
\* run different commands for the same tic.
LockstepAlways ==
  \A p, q \in Players : \A t \in DOMAIN ran[p] \cap DOMAIN ran[q] :
    ran[p][t] = ran[q][t]

\* piconet.c: client_num is the number of the client the host is talking to.
\* Not so after a poll that a lost client answers with a tic (event abort).
ClientNumInBounds == ~ stray
=============================================================================
