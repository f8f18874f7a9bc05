--------------------------- MODULE PicoSoundProofs ---------------------------
(***************************************************************************)
(* The path of the sound for every size of the ring, watermark and chunk,  *)
(* and the origins of the channels for any number of them.                 *)
(*                                                                         *)
(* The packets in the ring follow one another from the one the screen      *)
(* heard last to the one core 0 has at hand; the slot core 0 writes is     *)
(* neither one of these nor the one core 1 is copying, although that was   *)
(* given up before it was copied, since one slot stays empty.              *)
(***************************************************************************)
EXTENDS PicoSound, SequenceTheorems, TLAPS

PlaceSet == 0 .. Places - 1
Writing  == {"open", "first", "second", "publish"}

\* The place in the block that follows p.
Following(p) == (p + 1) % Places

AudioTypes ==
  /\ slot \in [Slots -> PlaceSet \X PlaceSet]
  /\ head \in Slots /\ tail \in Slots
  /\ sink \in Sinks
  /\ push \in {"idle", "encode"} \cup Writing
  /\ burst \in Nat /\ place \in PlaceSet /\ packet \in PlaceSet
  /\ irq \in {"idle", "first", "second"}
  /\ words \in Slots /\ word \in PlaceSet
  /\ heard \in PlaceSet

\* The slots of the ring that hold a packet.
Published ==
  {s \in Slots : IF tail <= head THEN tail <= s /\ s < head ELSE tail <= s \/ s < head}

\* The packet that comes after those in the ring.
Coming == IF push \in Writing THEN packet ELSE place

\* The packet in slot s, where the head stands for the one that comes.
Packet(s) == IF s = head THEN Coming ELSE slot[s][2]

\* The last packet that has been taken out of the ring.
Taken == IF irq = "idle" THEN heard ELSE Following(heard)

Chain ==
  /\ Packet(tail) = Following(Taken)
  /\ \A s \in Published : /\ slot[s][1] = slot[s][2]
                          /\ Packet(After(s)) = Following(slot[s][2])

\* The slot core 1 is copying is the one before the tail.
Copying ==
  irq # "idle" => /\ tail = After(words)
                  /\ slot[words][1] = Following(heard)
                  /\ slot[words][2] = Following(heard)
                  /\ irq = "second" => word = Following(heard)

\* What core 0 has done of its packet.
Handing ==
  /\ push \in Writing => place = Following(packet)
  /\ push \in Writing \ {"open"} => After(head) # tail
  /\ push \in {"second", "publish"} => slot[head][1] = packet
  /\ push = "publish" => slot[head][2] = packet

\* There is room for what is left of the chunk.
Room ==
  /\ push # "idle" => burst >= 1 /\ Level + burst <= HighWatermark
  /\ ~ lost

AudioInv == AudioTypes /\ Chain /\ Copying /\ Handing /\ Room

-----------------------------------------------------------------------------
(***************************************************************************)
(* The ring.                                                               *)
(***************************************************************************)

\* The remainder of a number that is at most the divisor.
LEMMA ModIs ==
  ASSUME NEW n \in Nat \ {0}, NEW k \in 0 .. n
  PROVE  (k % n) = IF k = n THEN 0 ELSE k
<1> DEFINE q == k \div n
<1>1. q \in Int /\ (k % n) \in 0 .. n - 1 /\ k = n * q + (k % n)
  OBVIOUS
<1>2. ASSUME NEW j \in Int, NEW r \in 0 .. n - 1, k = n * j + r
      PROVE  r = IF k = n THEN 0 ELSE k
  <2>1. CASE j <= -1
    <3>1. n * j <= -n
      BY <2>1
    <3> QED BY <3>1, <1>2
  <2>2. CASE j = 0
    BY <2>2, <1>2
  <2>3. CASE j = 1
    BY <2>3, <1>2
  <2>4. CASE j >= 2
    <3>1. n * j >= 2 * n
      BY <2>4
    <3> QED BY <3>1, <1>2
  <2> QED BY <2>1, <2>2, <2>3, <2>4
<1> HIDE DEF q
<1> QED BY <1>1, <1>2

\* The slot after another one.
LEMMA AfterIs ==
  \A s \in Slots : After(s) = IF s = RingSize - 1 THEN 0 ELSE s + 1
<1> SUFFICES ASSUME NEW s \in Slots
             PROVE  After(s) = IF s = RingSize - 1 THEN 0 ELSE s + 1
  OBVIOUS
<1>1. s + 1 \in 0 .. RingSize /\ RingSize \in Nat \ {0} /\ s \in Int
  BY AudioAssumption DEF Slots
<1>2. ((s + 1) % RingSize) = IF s + 1 = RingSize THEN 0 ELSE s + 1
  BY <1>1, ModIs
<1> QED BY <1>1, <1>2 DEF After

LEMMA SlotFacts ==
  /\ Slots \subseteq Int /\ RingSize \in Nat \ {0}
  /\ \A s \in Slots : 0 <= s /\ s < RingSize
  /\ \A s \in Slots : After(s) \in Slots
  /\ \A s, r \in Slots : After(s) = After(r) => s = r
  BY AudioAssumption, AfterIs DEF Slots

LEMMA FollowingIn == \A p \in PlaceSet : Following(p) \in PlaceSet
  BY AudioAssumption DEF Following, PlaceSet

\* Published is the stretch of slots from the tail to the head.
LEMMA Stretch ==
  ASSUME head \in Slots, tail \in Slots
  PROVE  /\ head \notin Published
         /\ tail # head => tail \in Published
         /\ \A s \in Published : s \in Slots /\ After(s) \in Published \cup {head}
  BY SlotFacts, AfterIs DEF Published

LEMMA LevelIs ==
  ASSUME head \in Slots, tail \in Slots
  PROVE  /\ Level \in 0 .. RingSize - 1
         /\ Level = RingSize - 1 <=> After(head) = tail
  BY SlotFacts, AfterIs DEF Level

\* The packet at the head joins the stretch.
LEMMA Published1 ==
  ASSUME head \in Slots, tail \in Slots, After(head) # tail,
         head' = After(head), tail' = tail
  PROVE  Published' = Published \cup {head} /\ Level' = Level + 1
<1>1. \A s \in Slots : s \in Published' <=> s \in Published \cup {head}
  BY SlotFacts, AfterIs DEF Published
<1>2. Published' \subseteq Slots /\ Published \cup {head} \subseteq Slots
  BY DEF Published
<1>3. Level' = Level + 1
  BY SlotFacts, AfterIs DEF Level
<1> QED BY <1>1, <1>2, <1>3

\* The packet at the tail leaves it.
LEMMA Published2 ==
  ASSUME head \in Slots, tail \in Slots, tail # head,
         tail' = After(tail), head' = head
  PROVE  Published' = Published \ {tail} /\ Level' = Level - 1
<1>1. \A s \in Slots : s \in Published' <=> s \in Published \ {tail}
  BY SlotFacts, AfterIs DEF Published
<1>2. Published' \subseteq Slots /\ Published \ {tail} \subseteq Slots
  BY DEF Published
<1>3. Level' = Level - 1
  BY SlotFacts, AfterIs DEF Level
<1> QED BY <1>1, <1>2, <1>3

-----------------------------------------------------------------------------
(***************************************************************************)
(* Core 0.                                                                 *)
(***************************************************************************)

LEMMA InitAudioInv == AudioInit => AudioInv
<1> SUFFICES ASSUME AudioInit
             PROVE  AudioInv
  OBVIOUS
<1> USE DEF AudioInit
<1>1. AudioTypes
  BY AudioAssumption DEF AudioTypes, Slots, PlaceSet, Sinks, Writing
<1>2. Following(Places - 1) = 0
  BY ModIs, AudioAssumption, Places \in 0 .. Places, Places - 1 + 1 = Places DEF Following
<1>3. Published = {}
  BY DEF Published, Slots
<1>4. Chain
  BY <1>2, <1>3 DEF Chain, Packet, Coming, Taken, Writing
<1> QED BY <1>1, <1>4 DEF AudioInv, Copying, Handing, Room, Writing

LEMMA MixKeeps ==
  ASSUME AudioInv, NEW s \in Sinks, Mix(s) \/ \E i2s \in BOOLEAN : SkipMix(s, i2s)
  PROVE  AudioInv'
<1> USE DEF AudioInv
<1>1. AudioTypes'
  BY AudioAssumption DEF AudioTypes, Mix, SkipMix, core0, core1, Sinks
<1>2. UNCHANGED <<slot, head, tail, place, packet, irq, words, word, heard, lost>>
  BY DEF Mix, SkipMix, core0, core1
<1>3. push' \notin Writing /\ push \notin Writing
  BY DEF Mix, SkipMix, core0, Writing
<1>4. Published' = Published /\ Coming' = Coming /\ Taken' = Taken
  BY <1>2, <1>3 DEF Published, Coming, Taken
<1>5. \A r : Packet(r)' = Packet(r)
  BY <1>2, <1>4 DEF Packet
<1>6. Chain' /\ Copying'
  BY <1>2, <1>4, <1>5 DEF Chain, Copying, After
<1>7. Handing'
  BY <1>3 DEF Handing, Writing
<1>8. Room'
  <2>1. CASE \E i2s \in BOOLEAN : SkipMix(s, i2s)
    BY <2>1, <1>2 DEF SkipMix, Room, core0, Level
  <2>2. CASE Mix(s)
    <3>1. HasRoom(s) /\ push = "idle"
      BY <2>2 DEF Mix
    <3>2. CASE s = "hdmi"
      BY <2>2, <3>1, <3>2, <1>2, AudioAssumption DEF HasRoom, Mix, Room, Level
    <3>3. CASE s # "hdmi"
      BY <2>2, <3>1, <3>3, <1>2 DEF Mix, Room
    <3> QED BY <3>2, <3>3
  <2> QED BY <2>1, <2>2
<1> QED BY <1>1, <1>6, <1>7, <1>8

\* While a packet is handed over, there is room for it.
LEMMA RoomForOne ==
  ASSUME AudioInv, push # "idle"
  PROVE  After(head) # tail /\ Level < HighWatermark
BY LevelIs, AudioAssumption DEF AudioInv, AudioTypes, Room

LEMMA EncodeKeeps ==
  ASSUME AudioInv, Encode
  PROVE  AudioInv'
<1> USE DEF AudioInv
<1>1. Level < HighWatermark /\ Level \in Int
  BY RoomForOne, LevelIs DEF Encode, AudioTypes
<1>2. /\ push = "encode" /\ push' = "open"
      /\ packet' = place /\ place' = Following(place)
      /\ UNCHANGED <<slot, head, tail, sink, burst, irq, words, word, heard, lost>>
  BY <1>1, AudioAssumption DEF Encode, core1, Following
<1>3. AudioTypes'
  BY <1>2, FollowingIn DEF AudioTypes, Writing
<1>4. Published' = Published /\ Coming' = Coming /\ Taken' = Taken
  BY <1>2 DEF Published, Coming, Taken, Writing
<1>5. \A r : Packet(r)' = Packet(r)
  BY <1>2, <1>4 DEF Packet
<1>6. Chain' /\ Copying'
  BY <1>2, <1>4, <1>5 DEF Chain, Copying, After
<1>7. Handing' /\ Room'
  BY <1>2 DEF Handing, Room, Level, Writing
<1> QED BY <1>3, <1>6, <1>7

LEMMA OpenSlotKeeps ==
  ASSUME AudioInv, OpenSlot
  PROVE  AudioInv'
<1> USE DEF AudioInv
<1>1. After(head) # tail
  BY RoomForOne DEF OpenSlot
<1>2. /\ push = "open" /\ push' = "first"
      /\ UNCHANGED <<slot, head, tail, sink, burst, place, packet, irq, words, word, heard, lost>>
  BY <1>1 DEF OpenSlot, core1
<1>3. AudioTypes'
  BY <1>2 DEF AudioTypes, Writing
<1>4. Published' = Published /\ Coming' = Coming /\ Taken' = Taken
  BY <1>2 DEF Published, Coming, Taken, Writing
<1>5. \A r : Packet(r)' = Packet(r)
  BY <1>2, <1>4 DEF Packet
<1>6. Chain' /\ Copying'
  BY <1>2, <1>4, <1>5 DEF Chain, Copying, After
<1>7. Handing' /\ Room'
  BY <1>1, <1>2 DEF Handing, Room, Level, Writing, After
<1> QED BY <1>3, <1>6, <1>7

\* The slot at the head is nobody else's.
LEMMA HeadIsFree ==
  ASSUME AudioInv, push \in Writing \ {"open"}
  PROVE  head \notin Published /\ (irq # "idle" => words # head)
BY Stretch DEF AudioInv, AudioTypes, Handing, Copying

LEMMA CopyKeeps ==
  ASSUME AudioInv, CopyFirst \/ CopySecond
  PROVE  AudioInv'
<1> USE DEF AudioInv
<1>1. /\ push \in {"first", "second"} /\ push' \in {"second", "publish"}
      /\ UNCHANGED <<head, tail, sink, burst, place, packet, irq, words, word, heard, lost>>
  BY DEF CopyFirst, CopySecond, core1
<1>2. /\ push' = "second" => slot'[head] = <<packet, slot[head][2]>>
      /\ push' = "publish" => slot'[head] = <<slot[head][1], packet>> /\ push = "second"
      /\ slot' \in [Slots -> PlaceSet \X PlaceSet]
      /\ \A r \in Slots \ {head} : slot'[r] = slot[r]
  BY DEF CopyFirst, CopySecond, AudioTypes
<1>3. AudioTypes'
  BY <1>1, <1>2 DEF AudioTypes, Writing
<1>4. Published' = Published /\ Coming' = Coming /\ Taken' = Taken
  BY <1>1 DEF Published, Coming, Taken, Writing
<1>5. \A r \in Slots : Packet(r)' = Packet(r)
  BY <1>1, <1>2, <1>4 DEF Packet
<1>6. head \notin Published /\ (irq # "idle" => words # head)
  BY <1>1, HeadIsFree DEF Writing
<1>7. Chain'
  <2>1. Packet(tail)' = Packet(tail) /\ tail' = tail
    BY <1>1, <1>5 DEF AudioTypes, Packet
  <2>2. ASSUME NEW r \in Published
        PROVE  /\ slot'[r] = slot[r]
               /\ Packet(After(r))' = Packet(After(r))
    BY <1>2, <1>5, <1>6, Stretch, SlotFacts DEF AudioTypes
  <2> QED BY <1>4, <2>1, <2>2 DEF Chain, Published
<1>8. Copying'
  BY <1>1, <1>2, <1>6 DEF Copying, AudioTypes, After
<1>9. Handing' /\ Room'
  BY <1>1, <1>2 DEF Handing, Room, Level, Writing, After, AudioTypes
<1> QED BY <1>3, <1>7, <1>8, <1>9

LEMMA PublishKeeps ==
  ASSUME AudioInv, Publish
  PROVE  AudioInv'
<1> USE DEF AudioInv
<1>1. /\ push = "publish" /\ push' \in {"idle", "encode"}
      /\ head' = After(head) /\ burst' = burst - 1
      /\ push' = IF burst = 1 THEN "idle" ELSE "encode"
      /\ UNCHANGED <<slot, tail, sink, place, packet, irq, words, word, heard, lost>>
  BY DEF Publish, PacketDone, core1
<1>2. After(head) # tail /\ head \in Slots /\ tail \in Slots
  BY <1>1 DEF Handing, Writing, AudioTypes
<1>3. Published' = Published \cup {head} /\ Level' = Level + 1
  BY <1>1, <1>2, Published1
<1>4. slot[head][1] = packet /\ slot[head][2] = packet /\ place = Following(packet)
  BY <1>1 DEF Handing, Writing
<1>5. AudioTypes'
  BY <1>1, <1>2, SlotFacts DEF AudioTypes, Room, Writing
<1>6. Taken' = Taken /\ Coming' = place /\ Coming = packet
  BY <1>1 DEF Taken, Coming, Writing
<1>7. \A r \in Slots : r # head' => Packet(r)' = Packet(r)
  BY <1>1, <1>4, <1>6 DEF Packet
<1>8. Chain'
  <2>1. Packet(tail)' = Packet(tail) /\ tail' = tail
    BY <1>1, <1>2, <1>7 DEF Packet
  <2>2. ASSUME NEW r \in Published
        PROVE  Packet(After(r))' = Packet(After(r))
    <3>1. After(r) \in Slots /\ After(r) # After(head)
      BY Stretch, SlotFacts, <1>2
    <3> QED BY <3>1, <1>1, <1>7 DEF Packet
  <2>3. ASSUME NEW r, r = head
        PROVE  Packet(After(r))' = Following(slot[r][2])
    BY <1>1, <1>4, <1>6, <2>3 DEF Packet
  <2>4. ASSUME NEW r \in Published'
        PROVE  slot'[r][1] = slot'[r][2] /\ Packet(After(r))' = Following(slot'[r][2])
    BY <1>1, <1>3, <1>4, <2>2, <2>3 DEF Chain
  <2> QED BY <1>6, <2>1, <2>4 DEF Chain
<1>9. Copying' /\ Handing'
  BY <1>1 DEF Copying, Handing, Writing, After
<1>10. Room'
  BY <1>1, <1>3, LevelIs, <1>2, AudioAssumption DEF Room, AudioTypes
<1> QED BY <1>5, <1>8, <1>9, <1>10

-----------------------------------------------------------------------------
(***************************************************************************)
(* Core 1.                                                                 *)
(***************************************************************************)

LEMMA StartLineKeeps ==
  ASSUME AudioInv, StartLine
  PROVE  AudioInv'
<1> USE DEF AudioInv
<1>1. /\ irq = "idle"
      /\ UNCHANGED <<slot, head, sink, push, burst, place, packet, word, heard, lost>>
  BY DEF StartLine, core0
<1>2. head \in Slots /\ tail \in Slots
  BY DEF AudioTypes
<1>3. CASE UNCHANGED <<words, tail, irq>>
  <2>1. AudioTypes'
    BY <1>1, <1>3 DEF AudioTypes
  <2>2. Published' = Published /\ Coming' = Coming /\ Taken' = Taken
    BY <1>1, <1>3 DEF Published, Coming, Taken
  <2>3. \A r : Packet(r)' = Packet(r)
    BY <1>1, <2>2 DEF Packet
  <2>4. Chain' /\ Copying'
    BY <1>1, <1>3, <2>2, <2>3 DEF Chain, Copying, After
  <2>5. Handing' /\ Room'
    BY <1>1, <1>3 DEF Handing, Room, Level, Writing, After
  <2> QED BY <2>1, <2>4, <2>5
<1>4. CASE tail # head /\ words' = tail /\ tail' = After(tail) /\ irq' = "first"
  <2>1. Published' = Published \ {tail} /\ Level' = Level - 1
    BY <1>1, <1>2, <1>4, Published2
  <2>2. tail \in Published
    BY <1>2, <1>4, Stretch
  <2>3. AudioTypes'
    BY <1>1, <1>2, <1>4, SlotFacts DEF AudioTypes
  <2>4. Coming' = Coming /\ Taken' = Following(heard) /\ Taken = heard
    BY <1>1, <1>4 DEF Coming, Taken
  <2>5. \A r : Packet(r)' = Packet(r)
    BY <1>1, <2>4 DEF Packet
  <2>6. slot[tail][1] = Following(heard) /\ slot[tail][2] = Following(heard)
    BY <1>4, <2>2, <2>4 DEF Chain, Packet
  <2>7. Copying'
    BY <1>1, <1>4, <2>6 DEF Copying, After
  <2>8. Packet(tail)' = Following(Taken')
    <3>1. ASSUME NEW r, r = tail'
          PROVE  Packet(r)' = Following(Taken')
      BY <1>4, <2>2, <2>4, <2>5, <2>6, <3>1 DEF Chain
    <3> QED BY <3>1 DEF Packet
  <2>9. ASSUME NEW r \in Published'
        PROVE  slot'[r][1] = slot'[r][2] /\ Packet(After(r))' = Following(slot'[r][2])
    BY <1>1, <2>1, <2>5 DEF Chain
  <2>10. Chain'
    BY <2>8, <2>9 DEF Chain
  <2>11. Handing'
    <3>1. CASE push \in Writing \ {"open"}
      <4>1. After(head) # tail'
        BY <1>2, <1>4, SlotFacts
      <4> QED BY <1>1, <4>1 DEF Handing, After
    <3>2. CASE push \notin Writing \ {"open"}
      BY <1>1, <3>2 DEF Handing, Writing
    <3> QED BY <3>1, <3>2
  <2>12. Room'
    BY <1>1, <2>1, <1>2, LevelIs, AudioAssumption DEF Room, AudioTypes
  <2> QED BY <2>3, <2>7, <2>10, <2>11, <2>12
<1> QED BY <1>3, <1>4 DEF StartLine, TakePacket

LEMMA ReadFirstKeeps ==
  ASSUME AudioInv, ReadFirst
  PROVE  AudioInv'
<1> USE DEF AudioInv
<1>1. /\ irq = "first" /\ irq' = "second" /\ word' = slot[words][1]
      /\ UNCHANGED <<slot, head, tail, sink, push, burst, place, packet, words, heard, lost>>
  BY DEF ReadFirst, core0
<1>2. word' = Following(heard)
  BY <1>1 DEF Copying
<1>3. AudioTypes'
  BY <1>1, <1>2, FollowingIn DEF AudioTypes
<1>4. Published' = Published /\ Coming' = Coming /\ Taken' = Taken
  BY <1>1 DEF Published, Coming, Taken
<1>5. \A r : Packet(r)' = Packet(r)
  BY <1>1, <1>4 DEF Packet
<1>6. Chain' /\ Copying'
  BY <1>1, <1>2, <1>4, <1>5 DEF Chain, Copying, After
<1>7. Handing' /\ Room'
  BY <1>1 DEF Handing, Room, Level, Writing, After
<1> QED BY <1>3, <1>6, <1>7

LEMMA ReadSecondKeeps ==
  ASSUME AudioInv, ReadSecond
  PROVE  AudioInv'
<1> USE DEF AudioInv
<1>1. /\ irq = "second" /\ irq' = "idle" /\ heard' = slot[words][2]
      /\ UNCHANGED <<slot, head, tail, sink, push, burst, place, packet, words, word, lost>>
  BY DEF ReadSecond, core0
<1>2. heard' = Following(heard)
  BY <1>1 DEF Copying
<1>3. AudioTypes'
  BY <1>1, <1>2, FollowingIn DEF AudioTypes
<1>4. Published' = Published /\ Coming' = Coming /\ Taken' = Taken
  BY <1>1, <1>2 DEF Published, Coming, Taken
<1>5. \A r : Packet(r)' = Packet(r)
  BY <1>1, <1>4 DEF Packet
<1>6. Chain' /\ Copying'
  BY <1>1, <1>4, <1>5 DEF Chain, Copying
<1>7. Handing' /\ Room'
  BY <1>1 DEF Handing, Room, Level, Writing, After
<1> QED BY <1>3, <1>6, <1>7

LEMMA StutterKeeps ==
  ASSUME AudioInv, UNCHANGED audioVars
  PROVE  AudioInv'
BY DEF AudioInv, AudioTypes, Chain, Packet, Published, Coming, Taken, Copying,
       Handing, Room, Level, After, audioVars, core0, core1, Following

LEMMA AudioStep == AudioInv /\ [AudioNext]_audioVars => AudioInv'
<1> SUFFICES ASSUME AudioInv, [AudioNext]_audioVars
             PROVE  AudioInv'
  OBVIOUS
<1>1. CASE Push
  BY <1>1, EncodeKeeps, OpenSlotKeeps, CopyKeeps, PublishKeeps DEF Push
<1>2. CASE Line
  BY <1>2, StartLineKeeps, ReadFirstKeeps, ReadSecondKeeps DEF Line
<1>3. CASE \E s \in Sinks : Mix(s) \/ \E i2s \in BOOLEAN : SkipMix(s, i2s)
  BY <1>3, MixKeeps
<1>4. CASE UNCHANGED audioVars
  BY <1>4, StutterKeeps
<1> QED BY <1>1, <1>2, <1>3, <1>4 DEF AudioNext

-----------------------------------------------------------------------------
(***************************************************************************)
(* The ring as a queue.                                                    *)
(***************************************************************************)

\* What is in the queue takes up the slots from the oldest to the head.
LEMMA FlightFacts ==
  AudioInv =>
    /\ InFlight \in 0 .. RingSize /\ Oldest \in Slots /\ head \in Slots
    /\ \A n \in 0 .. RingSize - 1 : SlotFrom(Oldest, n) \in Slots
    /\ InFlight < RingSize => SlotFrom(Oldest, InFlight) = head
    /\ InFlight < RingSize => \A n \in 0 .. InFlight - 1 : SlotFrom(Oldest, n) # head
<1> SUFFICES ASSUME AudioInv
             PROVE  /\ InFlight \in 0 .. RingSize /\ Oldest \in Slots /\ head \in Slots
                    /\ \A n \in 0 .. RingSize - 1 : SlotFrom(Oldest, n) \in Slots
                    /\ InFlight < RingSize => SlotFrom(Oldest, InFlight) = head
                    /\ InFlight < RingSize =>
                         \A n \in 0 .. InFlight - 1 : SlotFrom(Oldest, n) # head
  OBVIOUS
<1>1. /\ RingSize \in Nat \ {0} /\ Slots = 0 .. RingSize - 1
      /\ head \in Slots /\ tail \in Slots /\ words \in Slots
  BY AudioAssumption DEF AudioInv, AudioTypes, Slots
<1>2. irq # "idle" => tail = IF words = RingSize - 1 THEN 0 ELSE words + 1
  BY <1>1, AfterIs DEF AudioInv, Copying
<1>3. CASE irq = "idle"
  BY <1>1, <1>3 DEF InFlight, Oldest, Level, SlotFrom
<1>4. CASE irq # "idle"
  BY <1>1, <1>2, <1>4 DEF InFlight, Oldest, Level, SlotFrom
<1> QED BY <1>3, <1>4

LEMMA ContentsIs ==
  AudioInv =>
    /\ Contents \in Seq(Int) /\ Len(Contents) = InFlight
    /\ \A n \in 1 .. InFlight : Contents[n] = Whole(SlotFrom(Oldest, n - 1))
<1> SUFFICES ASSUME AudioInv
             PROVE  /\ Contents \in Seq(Int) /\ Len(Contents) = InFlight
                    /\ \A n \in 1 .. InFlight :
                         Contents[n] = Whole(SlotFrom(Oldest, n - 1))
  OBVIOUS
<1>1. \A s \in Slots : Whole(s) \in Int
  BY AudioAssumption DEF AudioInv, AudioTypes, Whole, Torn, PlaceSet
<1>2. InFlight \in Nat /\ \A n \in 1 .. InFlight : SlotFrom(Oldest, n - 1) \in Slots
  <2>1. InFlight \in 0 .. RingSize /\ RingSize \in Nat
    BY FlightFacts, AudioAssumption
  <2>2. ASSUME NEW n \in 1 .. InFlight
        PROVE  SlotFrom(Oldest, n - 1) \in Slots
    <3>1. n - 1 \in 0 .. RingSize - 1
      BY <2>1
    <3> QED BY <3>1, FlightFacts
  <2> QED BY <2>1, <2>2
<1>3. Contents \in [1 .. InFlight -> Int]
  BY <1>1, <1>2 DEF Contents
<1> QED BY <1>2, <1>3 DEF Contents

\* Two queues that were filled alike are one.
LEMMA SameContents ==
  ASSUME AudioInv, AudioInv', InFlight' = InFlight,
         \A n \in 0 .. InFlight - 1 :
           Whole(SlotFrom(Oldest, n))' = Whole(SlotFrom(Oldest, n))
  PROVE  Contents' = Contents
<1>1. \A n \in 1 .. InFlight : n - 1 \in 0 .. InFlight - 1
  BY FlightFacts, AudioAssumption
<1> QED BY <1>1 DEF Contents

\* A sequence with one more, and one without its first, as functions.
LEMMA AppendIs ==
  ASSUME NEW s \in Seq(Int), NEW e \in Int
  PROVE  Append(s, e) = [n \in 1 .. Len(s) + 1 |-> IF n <= Len(s) THEN s[n] ELSE e]
<1> DEFINE t == [n \in 1 .. Len(s) + 1 |-> IF n <= Len(s) THEN s[n] ELSE e]
<1>1. Len(s) \in Nat /\ \A n \in 1 .. Len(s) : s[n] \in Int
  BY LenProperties
<1>2. t \in [1 .. Len(s) + 1 -> Int]
  BY <1>1
<1>3. t \in Seq(Int) /\ Len(t) = Len(s) + 1
  BY <1>1, <1>2
<1>4. \A n \in 1 .. Len(t) : Append(s, e)[n] = t[n]
  BY <1>1, <1>3, AppendProperties
<1> HIDE DEF t
<1>5. Append(s, e) = t
  BY <1>3, <1>4, AppendProperties, SeqEqual
<1> QED BY <1>5 DEF t

LEMMA TailIs ==
  ASSUME NEW s \in Seq(Int), NEW m \in Nat, Len(s) = m + 1
  PROVE  Tail(s) = [n \in 1 .. m |-> s[n + 1]]
<1>1. s # << >> /\ Tail(s) \in Seq(Int) /\ Len(Tail(s)) = m
      /\ \A n \in 1 .. m : Tail(s)[n] = s[n + 1]
  <2>1. s # << >>
    OBVIOUS
  <2> QED BY <2>1, HeadTailProperties
<1>2. Tail(s) \in [1 .. m -> Int]
  BY <1>1, LenProperties
<1> QED BY <1>1, <1>2

\* The store of the head is the moment at which a packet enters the queue.
LEMMA PublishPuts ==
  ASSUME AudioInv, AudioInv', Publish
  PROVE  Fifo!Put
<1>1. /\ push = "publish" /\ push' \in {"idle", "encode"} /\ head' = After(head)
      /\ UNCHANGED <<slot, tail, place, packet, irq, words, heard>>
  BY DEF Publish, PacketDone, core1
<1>2. /\ After(head) # tail /\ head \in Slots /\ tail \in Slots
      /\ slot[head][1] = packet /\ slot[head][2] = packet /\ place = Following(packet)
  BY <1>1 DEF AudioInv, AudioTypes, Handing, Writing
<1>3. Level < HighWatermark /\ Level \in Nat /\ Level' = Level + 1 /\ HighWatermark < RingSize
  BY <1>1, <1>2, RoomForOne, LevelIs, Published1, AudioAssumption
<1>4. InFlight' = InFlight + 1 /\ InFlight < HighWatermark + 1 /\ Oldest' = Oldest
      /\ InFlight \in Nat /\ InFlight < RingSize
  <2>1. HighWatermark \in Int /\ RingSize \in Int
    BY AudioAssumption
  <2>2. Level # RingSize - 1
    BY <1>2, LevelIs
  <2> QED BY <1>1, <1>3, <2>1, <2>2 DEF InFlight, Oldest
<1>5. /\ Contents \in Seq(Int) /\ Len(Contents) = InFlight
      /\ \A n \in 1 .. InFlight : Contents[n] = Whole(SlotFrom(Oldest, n - 1))
  BY ContentsIs
<1>6. Contents' = [n \in 1 .. InFlight + 1 |-> Whole(SlotFrom(Oldest, n - 1))]
  BY <1>1, <1>4 DEF Contents, Whole, SlotFrom
<1>7. Whole(SlotFrom(Oldest, InFlight)) = packet
  BY <1>2, <1>4, FlightFacts DEF Whole
<1>8. Contents' = Append(Contents, packet)
  <2>1. Append(Contents, packet) =
          [n \in 1 .. InFlight + 1 |-> IF n <= InFlight THEN Contents[n] ELSE packet]
    <3>1. packet \in Int
      BY AudioAssumption DEF AudioInv, AudioTypes, PlaceSet
    <3> QED BY <1>5, <3>1, AppendIs
  <2>2. ASSUME NEW n \in 1 .. InFlight + 1
        PROVE  Whole(SlotFrom(Oldest, n - 1)) = IF n <= InFlight THEN Contents[n] ELSE packet
    <3>1. CASE n <= InFlight
      BY <1>4, <1>5, <3>1
    <3>2. CASE ~ (n <= InFlight)
      <4>1. n - 1 = InFlight
        BY <1>4, <3>2
      <4> QED BY <1>7, <3>2, <4>1
    <3> QED BY <3>1, <3>2
  <2> QED BY <1>6, <2>1, <2>2
<1>9. NextPlace = packet /\ NextPlace' = (packet + 1) % Places
  BY <1>1, <1>2 DEF NextPlace, Following
<1> QED BY <1>1, <1>4, <1>5, <1>8, <1>9 DEF Fifo!Put

\* The last word that is copied is the moment at which one leaves it.
LEMMA ReadSecondTakes ==
  ASSUME AudioInv, AudioInv', ReadSecond
  PROVE  Fifo!Take
<1>1. /\ irq = "second" /\ irq' = "idle" /\ heard' = slot[words][2]
      /\ UNCHANGED <<slot, head, tail, push, place, packet, words>>
  BY DEF ReadSecond, core0
<1>2. /\ RingSize \in Nat \ {0} /\ Slots = 0 .. RingSize - 1
      /\ head \in Slots /\ tail \in Slots /\ words \in Slots
      /\ tail = IF words = RingSize - 1 THEN 0 ELSE words + 1
      /\ slot[words][1] = slot[words][2]
  BY <1>1, AfterIs, AudioAssumption DEF AudioInv, AudioTypes, Copying, Slots
<1>3. InFlight = Level + 1 /\ InFlight' = Level /\ Oldest = words /\ Oldest' = tail
      /\ Level \in 0 .. RingSize - 1
  BY <1>1, <1>2, LevelIs DEF InFlight, Oldest, Level
<1>4. /\ Contents \in Seq(Int) /\ Len(Contents) = InFlight
      /\ \A n \in 1 .. InFlight : Contents[n] = Whole(SlotFrom(words, n - 1))
  BY <1>3, ContentsIs
<1>5. Contents # << >> /\ Head(Contents) = slot[words][2]
  <2>1. Contents # << >> /\ Head(Contents) = Contents[1]
    BY <1>2, <1>3, <1>4
  <2>2. 1 \in 1 .. InFlight /\ SlotFrom(words, 1 - 1) = words
    BY <1>2, <1>3 DEF SlotFrom
  <2> QED BY <1>2, <1>4, <2>1, <2>2 DEF Whole
<1>6. Contents' = Tail(Contents)
  <2>1. Contents' = [n \in 1 .. Level |-> Whole(SlotFrom(tail, n - 1))]
    BY <1>1, <1>3 DEF Contents, Whole, SlotFrom
  <2>2. Tail(Contents) = [n \in 1 .. Level |-> Contents[n + 1]]
    BY <1>3, <1>4, TailIs
  <2>3. ASSUME NEW n \in 1 .. Level
        PROVE  Whole(SlotFrom(tail, n - 1)) = Contents[n + 1]
    <3>1. SlotFrom(tail, n - 1) = SlotFrom(words, n)
      BY <1>2, <1>3 DEF SlotFrom
    <3>2. n + 1 \in 1 .. InFlight /\ (n + 1) - 1 = n
      BY <1>2, <1>3
    <3> QED BY <1>4, <3>1, <3>2
  <2> QED BY <2>1, <2>2, <2>3
<1>7. NextPlace' = NextPlace
  BY <1>1 DEF NextPlace
<1> QED BY <1>1, <1>5, <1>6, <1>7 DEF Fifo!Take

\* A word is written into a slot that is not in the queue.
LEMMA CopyHides ==
  ASSUME AudioInv, AudioInv', CopyFirst \/ CopySecond
  PROVE  UNCHANGED <<Contents, NextPlace, heard>>
<1>1. /\ push \in {"first", "second"} /\ push' \in {"second", "publish"}
      /\ UNCHANGED <<head, tail, place, packet, irq, words, heard>>
      /\ \A s \in Slots \ {head} : slot'[s] = slot[s]
  BY DEF CopyFirst, CopySecond, core1, AudioInv, AudioTypes
<1>2. InFlight' = InFlight /\ Oldest' = Oldest
  BY <1>1 DEF InFlight, Oldest, Level
<1>3. InFlight < RingSize /\ InFlight \in Nat /\ RingSize \in Nat
  <2>1. Level # RingSize - 1 /\ Level \in 0 .. RingSize - 1 /\ RingSize \in Nat
    BY <1>1, LevelIs, RoomForOne, AudioAssumption DEF AudioInv, AudioTypes
  <2> QED BY <2>1 DEF InFlight
<1>4. ASSUME NEW n \in 0 .. InFlight - 1
      PROVE  Whole(SlotFrom(Oldest, n))' = Whole(SlotFrom(Oldest, n))
  <2>1. n \in 0 .. RingSize - 1
    BY <1>3
  <2>2. SlotFrom(Oldest, n) \in Slots \ {head}
    BY <1>3, <2>1, FlightFacts
  <2>3. SlotFrom(Oldest, n)' = SlotFrom(Oldest, n)
    BY <1>2 DEF SlotFrom
  <2> QED BY <1>1, <2>2, <2>3 DEF Whole
<1>5. Contents' = Contents
  BY <1>2, <1>4, SameContents
<1> QED BY <1>1, <1>5 DEF NextPlace

\* The slot of a packet is given up before it is copied, and it stays in the queue.
LEMMA StartLineHides ==
  ASSUME AudioInv, AudioInv', StartLine
  PROVE  UNCHANGED <<Contents, NextPlace, heard>>
<1>1. irq = "idle" /\ UNCHANGED <<slot, head, push, place, packet, heard>>
  BY DEF StartLine, core0
<1>2. InFlight' = InFlight /\ Oldest' = Oldest
  <2>1. CASE UNCHANGED <<words, tail, irq>>
    BY <1>1, <2>1 DEF InFlight, Oldest, Level
  <2>2. CASE tail # head /\ words' = tail /\ tail' = After(tail) /\ irq' = "first"
    <3>1. Level' = Level - 1 /\ Level \in Int
      BY <1>1, <2>2, Published2, LevelIs DEF AudioInv, AudioTypes
    <3> QED BY <1>1, <2>2, <3>1 DEF InFlight, Oldest
  <2> QED BY <2>1, <2>2 DEF StartLine, TakePacket
<1>3. Contents' = Contents
  BY <1>1, <1>2, SameContents DEF Whole, SlotFrom
<1> QED BY <1>1, <1>3 DEF NextPlace

\* Every other step leaves the queue alone.
LEMMA RestHides ==
  ASSUME AudioInv, AudioInv',
         UNCHANGED <<slot, head, tail, words, heard>>,
         irq' = irq \/ (irq' # "idle" /\ irq # "idle"),
         NextPlace' = NextPlace
  PROVE  UNCHANGED <<Contents, NextPlace, heard>>
<1>1. InFlight' = InFlight /\ Oldest' = Oldest
  BY DEF InFlight, Oldest, Level
<1>2. Contents' = Contents
  BY <1>1, SameContents DEF Whole, SlotFrom
<1> QED BY <1>2

LEMMA QueueStep ==
  AudioInv /\ AudioInv' /\ [AudioNext]_audioVars
    => [Fifo!Next]_<<Contents, NextPlace, heard>>
<1> SUFFICES ASSUME AudioInv, AudioInv', [AudioNext]_audioVars
             PROVE  Fifo!Next \/ UNCHANGED <<Contents, NextPlace, heard>>
  OBVIOUS
<1>1. CASE Encode
  <2>1. Level < HighWatermark /\ Level \in Int
    BY <1>1, RoomForOne, LevelIs DEF Encode, AudioInv, AudioTypes
  <2>2. UNCHANGED <<slot, head, tail, words, heard, irq>> /\ NextPlace' = NextPlace
    BY <1>1, <2>1, AudioAssumption DEF Encode, core1, NextPlace
  <2> QED BY <2>2, RestHides
<1>2. CASE OpenSlot
  <2>1. After(head) # tail
    BY <1>2, RoomForOne DEF OpenSlot
  <2>2. UNCHANGED <<slot, head, tail, words, heard, irq>> /\ NextPlace' = NextPlace
    BY <1>2, <2>1 DEF OpenSlot, core1, NextPlace
  <2> QED BY <2>2, RestHides
<1>3. CASE Publish
  BY <1>3, PublishPuts DEF Fifo!Next
<1>4. CASE ReadFirst
  <2>1. /\ UNCHANGED <<slot, head, tail, words, heard>> /\ NextPlace' = NextPlace
        /\ irq' # "idle" /\ irq # "idle"
    BY <1>4 DEF ReadFirst, core0, NextPlace
  <2> QED BY <2>1, RestHides
<1>5. CASE ReadSecond
  BY <1>5, ReadSecondTakes DEF Fifo!Next
<1>6. CASE \E s \in Sinks : Mix(s) \/ \E i2s \in BOOLEAN : SkipMix(s, i2s)
  <2>1. UNCHANGED <<slot, head, tail, words, heard, irq>> /\ NextPlace' = NextPlace
    BY <1>6 DEF Mix, SkipMix, core0, core1, NextPlace
  <2> QED BY <2>1, RestHides
<1>7. CASE UNCHANGED audioVars
  <2>1. UNCHANGED <<slot, head, tail, words, heard, irq>> /\ NextPlace' = NextPlace
    BY <1>7 DEF audioVars, core0, core1, NextPlace
  <2> QED BY <2>1, RestHides
<1> QED
  BY <1>1, <1>2, <1>3, <1>4, <1>5, <1>6, <1>7, CopyHides, StartLineHides
     DEF AudioNext, Push, Line

-----------------------------------------------------------------------------
(***************************************************************************)
(* The channels.                                                           *)
(***************************************************************************)

ChannelTypes ==
  /\ sfxinfo \in [Channels -> Sfx \cup {NoSfx}]
  /\ origin \in [Channels -> Things \cup {NoThing}]
  /\ mobj \in [Things -> {"none", "alive", "removed"}]

\* S_StopSound stops one channel: a thing has no second one.
OneEach ==
  \A c, d \in Channels :
    InUse(c) /\ InUse(d) /\ origin[c] # NoThing /\ origin[c] = origin[d] => c = d

ChannelInv == ChannelTypes /\ OneEach /\ OriginsLive

\* No channel of a thing is left once S_StopSound is through with it.
LEMMA StoppedAll ==
  ASSUME ChannelInv, NEW t \in Things, NEW c \in Channels, InUse(c), origin[c] = t
  PROVE  StoppedFor(t) = {c}
<1> DEFINE own == {d \in Channels : InUse(d) /\ origin[d] = t}
<1>1. own = {c}
  BY SoundAssumption DEF ChannelInv, OneEach
<1>2. Min({c}) = c
  BY SoundAssumption DEF Min
<1> QED BY <1>1, <1>2 DEF StoppedFor

\* Channels that are given back do no harm.
LEMMA StopKeeps ==
  ASSUME ChannelInv, NEW cs, StopChannels(cs), mobj' \in [Things -> {"none", "alive", "removed"}],
         \A c \in Channels \ cs : InUse(c) /\ origin[c] # NoThing => mobj'[origin[c]] = "alive"
  PROVE  ChannelInv'
<1>1. ChannelTypes'
  BY DEF ChannelInv, ChannelTypes, StopChannels
<1>2. \A c \in Channels : InUse(c)' => c \notin cs /\ InUse(c) /\ origin'[c] = origin[c]
  BY DEF StopChannels, InUse
<1>3. OneEach'
  BY <1>2 DEF ChannelInv, OneEach
<1>4. OriginsLive'
  BY <1>2 DEF OriginsLive
<1> QED BY <1>1, <1>3, <1>4 DEF ChannelInv

\* At most one channel is taken for a sound.
LEMMA OneTaken ==
  ASSUME NEW s, NEW stopped, NEW c \in GetChannel(s, stopped), NEW d \in GetChannel(s, stopped)
  PROVE  c = d
BY DEF GetChannel

LEMMA StartKeeps ==
  ASSUME ChannelInv, NEW o \in Things \cup {NoThing}, NEW s \in Sfx, NEW n, StartSound(o, s, n)
  PROVE  ChannelInv'
<1> DEFINE stopped == StoppedFor(o)
           taken == GetChannel(s, stopped)
<1>1. /\ sfxinfo' = [c \in Channels |-> IF c \in taken THEN s
                                        ELSE IF c \in stopped THEN NoSfx ELSE sfxinfo[c]]
      /\ origin'  = [c \in Channels |-> IF c \in taken THEN o
                                        ELSE IF c \in stopped THEN NoThing ELSE origin[c]]
      /\ mobj' = mobj /\ (o # NoThing => mobj[o] = "alive")
  BY DEF StartSound
<1>2. \A c \in Channels : InUse(c) /\ origin[c] = o /\ o # NoThing => c \in stopped
  BY StoppedAll
<1>3. \A c, d \in taken : c = d
  BY OneTaken
<1> HIDE DEF stopped, taken
<1>4. ChannelTypes'
  BY <1>1 DEF ChannelInv, ChannelTypes
<1>5. ASSUME NEW c \in Channels, InUse(c)', origin'[c] # NoThing
      PROVE  \/ c \in taken /\ origin'[c] = o
             \/ c \notin taken /\ InUse(c) /\ origin'[c] = origin[c] /\ origin[c] # o
  BY <1>1, <1>2, <1>5 DEF InUse
<1>6. OneEach'
  BY <1>3, <1>5 DEF ChannelInv, OneEach
<1>7. OriginsLive'
  BY <1>1, <1>5 DEF ChannelInv, OriginsLive
<1> QED BY <1>4, <1>6, <1>7 DEF ChannelInv

LEMMA ChannelStep == ChannelInv /\ [Next]_vars => ChannelInv'
<1> SUFFICES ASSUME ChannelInv, [Next]_vars
             PROVE  ChannelInv'
  OBVIOUS
<1> USE DEF chanVars
<1>1. CASE UNCHANGED <<sfxinfo, origin, mobj>>
  BY <1>1 DEF ChannelInv, ChannelTypes, OneEach, OriginsLive, InUse
<1>2. CASE \E far \in SUBSET Channels : UpdateSounds(far)
  <2> PICK far \in SUBSET Channels : UpdateSounds(far)
    BY <1>2
  <2>1. PICK cs : StopChannels(cs) /\ mobj' = mobj
    BY DEF UpdateSounds
  <2> QED BY <2>1, StopKeeps DEF ChannelInv, ChannelTypes, OriginsLive
<1>3. CASE \E o \in Things \cup {NoThing}, s \in Sfx, n \in 0 .. Length : StartSound(o, s, n)
  BY <1>3, StartKeeps
<1>4. ASSUME NEW t \in Things, SpawnMobj(t)
      PROVE  ChannelInv'
  <2>1. mobj' = [mobj EXCEPT ![t] = "alive"] /\ UNCHANGED <<sfxinfo, origin>>
    BY <1>4 DEF SpawnMobj
  <2> QED BY <2>1 DEF ChannelInv, ChannelTypes, OneEach, OriginsLive, InUse
<1>5. ASSUME NEW t \in Things, RemoveMobj(t)
      PROVE  ChannelInv'
  <2>1. StopChannels(StoppedFor(t)) /\ mobj' = [mobj EXCEPT ![t] = "removed"]
    BY <1>5 DEF RemoveMobj
  <2>2. ASSUME NEW c \in Channels \ StoppedFor(t), InUse(c), origin[c] # NoThing
        PROVE  mobj'[origin[c]] = "alive"
    BY <2>1, <2>2, StoppedAll DEF ChannelInv, ChannelTypes, OriginsLive
  <2>3. mobj' \in [Things -> {"none", "alive", "removed"}]
    BY <2>1 DEF ChannelInv, ChannelTypes
  <2> QED BY <2>1, <2>2, <2>3, StopKeeps
<1>6. ASSUME NEW t \in Things, FreeMobj(t)
      PROVE  ChannelInv'
  <2>1. mobj' = [mobj EXCEPT ![t] = "none"] /\ mobj[t] = "removed" /\ UNCHANGED <<sfxinfo, origin>>
    BY <1>6 DEF FreeMobj
  <2> QED BY <2>1 DEF ChannelInv, ChannelTypes, OneEach, OriginsLive, InUse
<1>7. CASE SetupLevel
  <2>1. StopChannels(Channels) /\ mobj' \in [Things -> {"none", "alive", "removed"}]
    BY <1>7 DEF SetupLevel
  <2> QED BY <2>1, StopKeeps
<1>8. CASE Audio
  BY <1>1, <1>8 DEF Audio
<1>9. CASE \E s \in Sinks, u \in BOOLEAN : UpdateSound(s, u)
  BY <1>1, <1>9 DEF UpdateSound
<1>10. CASE UNCHANGED vars
  BY <1>1, <1>10 DEF vars
<1> QED BY <1>2, <1>3, <1>4, <1>5, <1>6, <1>7, <1>8, <1>9, <1>10 DEF Next

-----------------------------------------------------------------------------
(***************************************************************************)
(* What follows of the system.                                             *)
(***************************************************************************)

\* Whatever the game does, the path of the sound takes its own steps or rests.
LEMMA AudioImplemented == [Next]_vars => [AudioNext]_audioVars
<1> SUFFICES ASSUME Next
             PROVE  AudioNext \/ UNCHANGED audioVars
  BY DEF vars
<1>1. CASE Audio
  BY <1>1 DEF Audio, AudioNext
<1>2. CASE \E s \in Sinks, u \in BOOLEAN : UpdateSound(s, u)
  BY <1>2 DEF UpdateSound, MixVoices, AudioNext
<1>3. CASE ~ Audio /\ ~ \E s \in Sinks, u \in BOOLEAN : UpdateSound(s, u)
  BY <1>3 DEF Next, UpdateSounds, StartSound, SpawnMobj, RemoveMobj, FreeMobj, SetupLevel
<1> QED BY <1>1, <1>2, <1>3

\* The composition of channels, voices and things takes the steps of the path.
LEMMA SoundUsesAudio == Spec => AudioSpec
<1>1. Init => AudioInit
  BY DEF Init
<1> QED BY <1>1, AudioImplemented, PTL DEF Spec, AudioSpec

\* The invariant of the path.
LEMMA AudioInvariant == AudioSpec => []AudioInv
<1> QED BY InitAudioInv, AudioStep, PTL DEF AudioSpec

\* For every ring, watermark and chunk, and whatever the game does meanwhile, the
\* ring of hstx_data_island_queue.c with hstx_di_queue_push on one core and the
\* interrupt on the other is a bounded queue, without a lock: what the mixer puts in
\* reaches the screen whole, once and in order, and nothing is left out.
THEOREM RingIsAQueue == Spec => OneQueue
<1>1. AudioInit => Fifo!Init
  <2> SUFFICES ASSUME AudioInit
               PROVE  Fifo!Init
    OBVIOUS
  <2>1. InFlight = 0 /\ NextPlace = 0 /\ heard = Places - 1
    BY DEF AudioInit, InFlight, Level, NextPlace
  <2>2. Contents = << >>
    BY <2>1 DEF Contents
  <2> QED BY <2>1, <2>2 DEF Fifo!Init
<1>2. AudioInv /\ AudioInv' /\ [AudioNext]_audioVars => [Fifo!Next]_Fifo!vars
  BY QueueStep DEF Fifo!vars
<1> QED
  BY <1>1, <1>2, SoundUsesAudio, AudioInvariant, PTL DEF AudioSpec, OneQueue, Fifo!Spec

\* The screen gets whole packets, one after the other, for every size of the
\* ring, whatever the game does meanwhile.
THEOREM SinkAlwaysHears == Spec => []SinkHears
<1>1. AudioInv => SinkHears
  <2> SUFFICES ASSUME AudioInv
               PROVE  SinkHears
    OBVIOUS
  <2> QED BY DEF AudioInv, Copying, SinkHears, PacketWhole, InOrder, Following
<1> QED BY <1>1, SoundUsesAudio, AudioInvariant, PTL

\* No packet of a chunk is dropped, if the watermark is below the size of the
\* ring.
THEOREM NothingIsDropped == Spec => []NothingDropped
<1>1. AudioInv => NothingDropped
  BY DEF AudioInv, Room, NothingDropped
<1> QED BY <1>1, SoundUsesAudio, AudioInvariant, PTL

\* No channel outlives the thing its sound comes from, for any number of
\* channels and things.
THEOREM OriginsStayLive == Spec => []OriginsLive
<1>1. Init => ChannelInv
  BY DEF Init, ChannelInv, ChannelTypes, OneEach, OriginsLive, InUse
<1>2. ChannelInv => OriginsLive
  BY DEF ChannelInv
<1> QED BY <1>1, <1>2, ChannelStep, PTL DEF Spec
=============================================================================
