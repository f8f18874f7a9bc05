---------------------------- MODULE MCPicoSound ----------------------------
(***************************************************************************)
(* Sounds on two channels, and what a header of the code says of them and  *)
(* the device does not do.                                                 *)
(***************************************************************************)
EXTENDS PicoSound

\* The second sound is the more important one.
TwoPriorities == [s \in Sfx |-> IF s = CHOOSE x \in Sfx : TRUE THEN 118 ELSE 64]

\* i_sound.h, of StopSound: stop the sound playing on the given channel.  So no
\* voice is heard whose channel has been stopped.
StoppedIsSilent == \A c \in Channels : SoundIsPlaying(c) => InUse(c)
=============================================================================
