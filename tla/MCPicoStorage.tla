---------------------------- MODULE MCPicoStorage ----------------------------
(***************************************************************************)
(* The storage on a small card, and what a header of the code says of it   *)
(* and the code does not do.                                               *)
(***************************************************************************)
EXTENDS PicoStorage

\* doom_settings.h: with a missing, stale or damaged file the compiled-in
\* defaults stay, and nothing is written until something actually changes.  So
\* the settings on a card are not replaced by defaults nobody chose.  Not so if
\* the card is put in after the boot.
DefaultsNotWritten ==
  at = "open" /\ op.file = Cfg /\ shadow = "none" /\ op.data = Default
    => files[Cfg] \notin Records \ {Default}
=============================================================================
