----------------------------- MODULE PicoAudio -----------------------------
(***************************************************************************)
(* The audio path to the screen.  Core 0 mixes a chunk whenever the sinks  *)
(* have room (I_Pico_UpdateSound), packs four samples into a packet and    *)
(* puts the packets into a ring (hstx_push_audio_sample,                   *)
(* hstx_di_queue_push).  The DMA interrupt of core 1 takes one out when it *)
(* is due and copies it into the line it is building.  No lock: each core  *)
(* owns one index of the ring, and a packet is written and read word by    *)
(* word (two words stand for all of them).                                 *)
(*                                                                         *)
(* A packet carries its place in the channel-status block of 192 samples;  *)
(* the screen loses the sound if the packets do not follow one another.    *)
(***************************************************************************)
EXTENDS Integers

CONSTANTS RingSize,       \* DI_RING_BUFFER_SIZE
          HighWatermark,  \* HSTX_AUDIO_DI_HIGH_WATERMARK
          Chunk,          \* packets in a mixed chunk
          Places,         \* packets in a channel-status block
          Lines,          \* lines of a picture
          Island,         \* those with room for an audio packet
          Rate, Due       \* samples per line, samples per packet, to scale

ASSUME AudioAssumption ==
  /\ RingSize \in Nat \ {0} /\ HighWatermark \in 0 .. RingSize - 1
  /\ Chunk \in Nat \ {0}
  /\ Places \in Nat \ {0}
  /\ Lines \in Nat \ {0} /\ Island \subseteq 0 .. Lines - 1
  /\ Rate \in Nat /\ Due \in Nat \ {0}

Slots  == 0 .. RingSize - 1
Sinks  == {"hdmi", "headphones"}

VARIABLES
  slot, head, tail,              \* the ring: two words per slot, and its indices
  sink,                          \* doom_audio_sink
  push, burst, place, packet,    \* core 0: the step of the push, packets left of
                                 \* the chunk, g_hdmi_audio_frame_counter, island
  irq, words, word,              \* core 1: the step of the line, di_words, a copy
  line, accum,                   \* v_scanline, audio_sample_accum
  heard, lost                    \* history: what the screen heard last; a packet
                                 \* of a chunk found no room

core0     == <<push, burst, place, packet>>
core1     == <<irq, words, word, line, accum, heard>>
audioVars == <<slot, head, tail, sink, core0, core1, lost>>

After(i) == (i + 1) % RingSize

\* hstx_di_queue_get_level
Level == IF head >= tail THEN head - tail ELSE RingSize + head - tail

AudioInit ==
  /\ slot = [i \in Slots |-> <<0, 0>>] /\ head = 0 /\ tail = 0
  /\ sink = "hdmi"
  /\ push = "idle" /\ burst = 0 /\ place = 0 /\ packet = 0
  /\ irq = "idle" /\ words = 0 /\ word = 0
  /\ line = 0 /\ accum = 0
  /\ heard = Places - 1 /\ lost = FALSE

-----------------------------------------------------------------------------
(***************************************************************************)
(* Core 0.                                                                 *)
(***************************************************************************)

\* Mutant: room for one packet is taken for room for a chunk.
HasRoomForOne(s) == s = "hdmi" => Level < HighWatermark
\* The data islands can absorb another burst.  With headphones they get none.
HasRoom(s) == s = "hdmi" => Level + Chunk <= HighWatermark

\* I_Pico_UpdateSound: poll the headphones, mix a chunk if every sink has room,
\* and begin to hand it over.
Mix(s) ==
  /\ push = "idle"
  /\ HasRoom(s)
  /\ sink' = s
  /\ IF s = "hdmi"
     THEN burst' = Chunk /\ push' = "encode"
     ELSE UNCHANGED <<burst, push>>
  /\ UNCHANGED <<slot, head, tail, place, packet, core1, lost>>

\* A sink has no room: the headphones' ring (i2s), or the data islands.
SkipMix(s, i2s) ==
  /\ push = "idle"
  /\ i2s \/ ~ HasRoom(s)
  /\ sink' = s
  /\ UNCHANGED <<slot, head, tail, core0, core1, lost>>

\* What follows a packet of the chunk.
PacketDone ==
  /\ burst' = burst - 1
  /\ push' = IF burst = 1 THEN "idle" ELSE "encode"

\* hstx_push_audio_sample, fourth sample: drop the packet at the watermark.
Encode ==
  /\ push = "encode"
  /\ IF Level >= HighWatermark
     THEN PacketDone /\ lost' = TRUE /\ UNCHANGED <<place, packet>>
     ELSE /\ packet' = place
          /\ place' = (place + 1) % Places
          /\ push' = "open"
          /\ UNCHANGED <<burst, lost>>
  /\ UNCHANGED <<slot, head, tail, sink, core1>>

\* hstx_di_queue_push: one slot stays empty, so that the slot that the other
\* core has just taken is not written while it is being copied.
OpenSlot ==
  /\ push = "open"
  /\ IF After(head) = tail
     THEN PacketDone /\ lost' = TRUE
     ELSE push' = "first" /\ UNCHANGED <<burst, lost>>
  /\ UNCHANGED <<slot, head, tail, sink, place, packet, core1>>

CopyFirst ==
  /\ push = "first"
  /\ slot' = [slot EXCEPT ![head] = <<packet, @[2]>>]
  /\ push' = "second"
  /\ UNCHANGED <<head, tail, sink, burst, place, packet, core1, lost>>

CopySecond ==
  /\ push = "second"
  /\ slot' = [slot EXCEPT ![head] = <<@[1], packet>>]
  /\ push' = "publish"
  /\ UNCHANGED <<head, tail, sink, burst, place, packet, core1, lost>>

Publish ==
  /\ push = "publish"
  /\ head' = After(head)
  /\ PacketDone
  /\ UNCHANGED <<slot, tail, sink, place, packet, core1, lost>>

Push == Encode \/ OpenSlot \/ CopyFirst \/ CopySecond \/ Publish

-----------------------------------------------------------------------------
(***************************************************************************)
(* Core 1.                                                                 *)
(***************************************************************************)

\* Mutant: the slot is taken whether or not there is a packet in it.
TakePacketBlind ==
  /\ words' = tail
  /\ tail' = After(tail)
  /\ irq' = "first"
\* The tail moves on before the packet has been copied.  An empty ring is
\* bridged with a packet of silence.
TakePacket ==
  IF tail # head
  THEN words' = tail /\ tail' = After(tail) /\ irq' = "first"
  ELSE UNCHANGED <<words, tail, irq>>

\* Mutant: the lines are not counted.
StartLineNoTick ==
  /\ irq = "idle"
  /\ line' = (line + 1) % Lines
  /\ IF line \in Island /\ accum >= Due
     THEN accum' = accum - Due /\ TakePacket
     ELSE UNCHANGED <<accum, words, tail, irq>>
  /\ UNCHANGED <<slot, head, sink, core0, word, heard, lost>>
\* dma_irq_handler: hstx_di_queue_tick on every line, and on the lines with an
\* island for it hstx_di_queue_get_audio_packet.
StartLine ==
  /\ irq = "idle"
  /\ line' = (line + 1) % Lines
  /\ IF line \in Island /\ accum + Rate >= Due
     THEN accum' = accum + Rate - Due /\ TakePacket
     ELSE accum' = accum + Rate /\ UNCHANGED <<words, tail, irq>>
  /\ UNCHANGED <<slot, head, sink, core0, word, heard, lost>>

\* build_line_with_di
ReadFirst ==
  /\ irq = "first"
  /\ word' = slot[words][1]
  /\ irq' = "second"
  /\ UNCHANGED <<slot, head, tail, sink, core0, words, line, accum, heard, lost>>

ReadSecond ==
  /\ irq = "second"
  /\ heard' = slot[words][2]
  /\ irq' = "idle"
  /\ UNCHANGED <<slot, head, tail, sink, core0, words, word, line, accum, lost>>

Line == StartLine \/ ReadFirst \/ ReadSecond

-----------------------------------------------------------------------------
AudioNext ==
  \/ Push \/ Line
  \/ \E s \in Sinks : Mix(s) \/ \E i2s \in BOOLEAN : SkipMix(s, i2s)

AudioSpec == AudioInit /\ [][AudioNext]_audioVars

-----------------------------------------------------------------------------
(***************************************************************************)
(* Properties.                                                             *)
(***************************************************************************)

\* hstx_data_island_queue.c: the packet that core 1 copies is one packet, whole,
\* although its slot was given up before it was copied.
PacketWhole == irq = "second" => word = slot[words][2]

\* The packets reach the screen one after the other, each once, in the order of
\* the channel-status block.
InOrder == irq = "second" => slot[words][2] = (heard + 1) % Places

\* A chunk that is mixed reaches the ring to the last packet: nothing is dropped
\* at the watermark, or at a full ring after its place in the block was used.
NothingDropped == ~ lost

(***************************************************************************)
(* The ring as a queue: a packet is in it from the store of the head that  *)
(* publishes it until core 1 has copied it, which is after its slot was    *)
(* given up.  A packet whose two words differ is torn.                     *)
(***************************************************************************)
Oldest   == IF irq = "idle" THEN tail ELSE words
InFlight == IF irq = "idle" THEN Level ELSE Level + 1

\* The slot n places after s.
SlotFrom(s, n) == IF s + n < RingSize THEN s + n ELSE s + n - RingSize

Torn     == -1
Whole(s) == IF slot[s][1] = slot[s][2] THEN slot[s][2] ELSE Torn

Contents  == [n \in 1 .. InFlight |-> Whole(SlotFrom(Oldest, n - 1))]
NextPlace == IF push \in {"idle", "encode"} THEN place ELSE packet

Fifo == INSTANCE PacketQueue WITH
          Capacity <- HighWatermark + 1, queue <- Contents, next <- NextPlace

\* hstx_data_island_queue.c with its two users: two cores, without a lock, make
\* of the ring a queue that holds no more than the watermark and the packet that
\* is being copied, and in which no packet is lost, torn or heard twice.
OneQueue == Fifo!Spec
=============================================================================
