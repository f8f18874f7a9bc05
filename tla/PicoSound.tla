----------------------------- MODULE PicoSound -----------------------------
(***************************************************************************)
(* Sound effects on the device: the channels of s_sound.c, which know the  *)
(* thing a sound comes from, the voices of the mixer in i_picosound.c,     *)
(* which only play, and beneath them the path to the screen (PicoAudio),   *)
(* which decides when there is mixing at all.                              *)
(*                                                                         *)
(* Channel c plays on voice c.  A channel points into the thing itself;    *)
(* a thing is freed when its thinker's turn comes after it was removed,    *)
(* and all of them when the next level is set up.                          *)
(***************************************************************************)
EXTENDS PicoAudio, Sequences, FiniteSetsExt

CONSTANTS Channels,   \* 1 .. snd_channels
          Sfx,        \* sound effects
          Priority,   \* [Sfx -> Nat]: the lower, the more important
          Length,     \* the longest sound, in chunks
          Things,     \* places in memory for a mobj
          NoSfx, NoThing,
          MaxStarts   \* bound on the sounds that are started

ASSUME SoundAssumption ==
  /\ Channels \subseteq Nat /\ Length \in Nat \ {0}
  /\ Priority \in [Sfx -> Nat] /\ NoSfx \notin Sfx
  /\ NoThing \notin Things /\ MaxStarts \in Nat

VARIABLES
  sfxinfo,   \* [Channels -> Sfx or NoSfx]: NoSfx if the channel is free
  origin,    \* [Channels -> Things or NoThing]
  left,      \* [Channels -> Nat]: chunks that the voice has to play
  mobj,      \* [Things -> "none", "alive", "removed"]
  updating,  \* S_UpdateSounds is waiting for I_UpdateSound
  starts     \* bound

chanVars == <<sfxinfo, origin>>
vars == <<audioVars, chanVars, left, mobj, updating, starts>>

Init ==
  /\ AudioInit
  /\ sfxinfo = [c \in Channels |-> NoSfx]
  /\ origin = [c \in Channels |-> NoThing]
  /\ left = [c \in Channels |-> 0]
  /\ mobj = [t \in Things |-> "none"]
  /\ updating = FALSE /\ starts = 0

InUse(c) == sfxinfo[c] # NoSfx
SoundIsPlaying(c) == left[c] > 0

\* The game runs: core 0 is not in the mixer.
Playing == push = "idle" /\ ~ updating

-----------------------------------------------------------------------------
(***************************************************************************)
(* s_sound.c.  I_StopSound does nothing on the device: S_StopChannel gives *)
(* the channel back, and its voice plays on.                               *)
(***************************************************************************)

\* The channels that S_StopSound stops: the first one of that origin.
StoppedFor(o) ==
  LET own == {c \in Channels : InUse(c) /\ origin[c] = o}
  IN IF own = {} THEN {} ELSE {Min(own)}

StopChannels(cs) ==
  /\ sfxinfo' = [c \in Channels |-> IF c \in cs THEN NoSfx ELSE sfxinfo[c]]
  /\ origin'  = [c \in Channels |-> IF c \in cs THEN NoThing ELSE origin[c]]

\* S_GetChannel, once the channels of stopped are free: the first free one, or
\* the first whose sound is no more important; none if there is none.
GetChannel(s, stopped) ==
  LET free  == {c \in Channels : ~ InUse(c)} \cup stopped
      lower == {c \in Channels : InUse(c) /\ Priority[sfxinfo[c]] >= Priority[s]}
  IN IF free # {} THEN {Min(free)} ELSE IF lower # {} THEN {Min(lower)} ELSE {}

\* Mutant: the old sound of the thing is left to S_GetChannel, which stops
\* looking at the first free channel.
StartSoundKept(o, s, n) ==
  /\ Playing
  /\ starts < MaxStarts /\ starts' = starts + 1
  /\ o # NoThing => mobj[o] = "alive"
  /\ \E taken \in {GetChannel(s, {})} :
       /\ sfxinfo' = [c \in Channels |-> IF c \in taken THEN s ELSE sfxinfo[c]]
       /\ origin' = [c \in Channels |-> IF c \in taken THEN o ELSE origin[c]]
       /\ left' = [c \in Channels |-> IF c \in taken THEN n ELSE left[c]]
  /\ UNCHANGED <<audioVars, mobj, updating>>
\* S_StartSound of an audible sound that lasts n chunks (none if its lump cannot
\* be played): kill the old sound of its origin, find a channel, start its voice.
StartSound(o, s, n) ==
  /\ Playing
  /\ starts < MaxStarts /\ starts' = starts + 1
  /\ o # NoThing => mobj[o] = "alive"
  /\ LET stopped == StoppedFor(o)
         taken   == GetChannel(s, stopped)
     IN /\ sfxinfo' = [c \in Channels |-> IF c \in taken THEN s
                                          ELSE IF c \in stopped THEN NoSfx ELSE sfxinfo[c]]
        /\ origin'  = [c \in Channels |-> IF c \in taken THEN o
                                          ELSE IF c \in stopped THEN NoThing ELSE origin[c]]
        /\ left'    = [c \in Channels |-> IF c \in taken THEN n ELSE left[c]]
  /\ UNCHANGED <<audioVars, mobj, updating>>

\* I_Pico_UpdateSound mixes: every voice plays on.
MixVoices(s) ==
  /\ Mix(s)
  /\ left' = [c \in Channels |-> IF left[c] > 0 THEN left[c] - 1 ELSE 0]

\* I_UpdateSound, from wherever core 0 waits (S_UpdateSounds = FALSE) or as the
\* first thing S_UpdateSounds does.
UpdateSound(s, fromSounds) ==
  /\ Playing
  /\ \/ MixVoices(s)
     \/ \E i2s \in BOOLEAN : SkipMix(s, i2s) /\ UNCHANGED left
  /\ updating' = fromSounds
  /\ UNCHANGED <<chanVars, mobj, starts>>

\* Mutant: a channel whose sound has ended is left alone.
UpdateSoundsKeeps(far) ==
  /\ updating /\ push = "idle"
  /\ far \subseteq {c \in Channels : InUse(c) /\ SoundIsPlaying(c) /\ origin[c] # NoThing}
  /\ StopChannels(far)
  /\ updating' = FALSE
  /\ UNCHANGED <<audioVars, left, mobj, starts>>
\* S_UpdateSounds, after I_UpdateSound: a channel is freed when its sound has
\* ended, or when its origin is too far away to be heard.
UpdateSounds(far) ==
  /\ updating /\ push = "idle"
  /\ far \subseteq {c \in Channels : InUse(c) /\ SoundIsPlaying(c) /\ origin[c] # NoThing}
  /\ StopChannels(far \cup {c \in Channels : ~ SoundIsPlaying(c)})
  /\ updating' = FALSE
  /\ UNCHANGED <<audioVars, left, mobj, starts>>

-----------------------------------------------------------------------------
(***************************************************************************)
(* Things come and go.                                                     *)
(***************************************************************************)

SpawnMobj(t) ==
  /\ Playing
  /\ mobj[t] = "none"
  /\ mobj' = [mobj EXCEPT ![t] = "alive"]
  /\ UNCHANGED <<audioVars, chanVars, left, updating, starts>>

\* P_RemoveMobj: stop any playing sound.
RemoveMobj(t) ==
  /\ Playing
  /\ mobj[t] = "alive"
  /\ StopChannels(StoppedFor(t))
  /\ mobj' = [mobj EXCEPT ![t] = "removed"]
  /\ UNCHANGED <<audioVars, left, updating, starts>>

\* P_RunThinkers: time to free it; the next thing may get its place.
FreeMobj(t) ==
  /\ Playing
  /\ mobj[t] = "removed"
  /\ mobj' = [mobj EXCEPT ![t] = "none"]
  /\ UNCHANGED <<audioVars, chanVars, left, updating, starts>>

\* P_SetupLevel: S_Start gives back every channel before Z_FreeTags.
SetupLevel ==
  /\ Playing
  /\ StopChannels(Channels)
  /\ mobj' = [t \in Things |-> "none"]
  /\ UNCHANGED <<audioVars, left, updating, starts>>

-----------------------------------------------------------------------------
Audio == (Push \/ Line) /\ UNCHANGED <<chanVars, left, mobj, updating, starts>>

Next ==
  \/ Audio
  \/ \E s \in Sinks, u \in BOOLEAN : UpdateSound(s, u)
  \/ \E far \in SUBSET Channels : UpdateSounds(far)
  \/ \E o \in Things \cup {NoThing}, s \in Sfx, n \in 0 .. Length : StartSound(o, s, n)
  \/ \E t \in Things : SpawnMobj(t) \/ RemoveMobj(t) \/ FreeMobj(t)
  \/ SetupLevel

Spec == Init /\ [][Next]_vars

\* The lines go on and the push ends; S_UpdateSounds is called in every frame; and
\* the headphones' ring drains, so that core 0, which asks again and again, mixes
\* sooner or later if the sink that is chosen has room again and again.
FairSpec ==
  /\ Spec
  /\ WF_vars(Line /\ UNCHANGED <<chanVars, left, mobj, updating, starts>>)
  /\ WF_vars(Push /\ UNCHANGED <<chanVars, left, mobj, updating, starts>>)
  /\ WF_vars(\E far \in SUBSET Channels : UpdateSounds(far))
  /\ SF_vars(\E s \in Sinks : UpdateSound(s, TRUE))
  /\ SF_vars(\E u \in BOOLEAN : UpdateSound(sink, u) /\ MixVoices(sink))

-----------------------------------------------------------------------------
(***************************************************************************)
(* Properties.                                                             *)
(***************************************************************************)

\* The packet that the screen is sent is whole and the next one of its block,
\* whatever the game does meanwhile.
SinkHears == PacketWhole /\ InOrder

\* S_UpdateSounds and S_StartSound read the place of a channel's origin: it is a
\* thing that exists, never one that has been removed or freed.
OriginsLive ==
  \A c \in Channels : InUse(c) /\ origin[c] # NoThing => mobj[origin[c]] = "alive"

\* When no more sounds are started, every channel comes back: the mixer is never
\* shut out for good, by either sink.
ChannelsReturn ==
  (starts = MaxStarts) ~> (\A c \in Channels : ~ InUse(c))
=============================================================================
