---------------------------- MODULE PicoThinkers ----------------------------
(***************************************************************************)
(* The thinkers of a level (p_tick.c): everything that moves, in one list  *)
(* that P_RunThinkers walks once a tic, and the pool its memory comes      *)
(* from.  A thinker is removed by a mark and freed when the walk next      *)
(* comes to it.  Things lie in blocks of Slots slots; a block with free    *)
(* slots is on the list of its size, whose links are kept in the blocks    *)
(* themselves: in sp_next of the highest free slot, the same field that    *)
(* links the thinker list while the slot is in use.                        *)
(*                                                                         *)
(* An address is a number, and the address of a block is that of its first *)
(* slot, as it is in the code.  What is left in memory that nothing may    *)
(* read is forgotten when its block goes back to the zone heap (PicoZone). *)
(***************************************************************************)
EXTENDS Integers, FiniteSets

CONSTANTS Slots,        \* slots of a block: 8
          NumBlocks,    \* blocks that the zone heap has room for
          Sizes,        \* sizes of thinkers that are pooled: mobj_t, mobjfull_t
          MaxThinkers   \* bound: thinkers at once

ASSUME ThinkersAssumption ==
  /\ Slots \in Nat /\ Slots > 1
  /\ NumBlocks \in Nat \ {0}
  /\ MaxThinkers \in Nat
  /\ "none" \notin Sizes /\ "plain" \notin Sizes

Blocks    == 1 .. NumBlocks
SlotNums  == 0 .. Slots - 1
Null      == 0
Cap       == 1                           \* thinkercap
Thinker(b, s) == b * Slots + s           \* thinker_n
Base(b)       == Thinker(b, 0)
BlockOf(x)    == x \div Slots
SlotOf(x)     == x % Slots
Addr          == {Thinker(b, s) : b \in Blocks, s \in SlotNums}

VARIABLES
  kind,      \* of a block: its size, "plain" (one thinker, no pool), "none"
  free,      \* of a block: the free slots, a bit set in the header's spare byte
  sp,        \* sp_next of every slot and of thinkercap
  removed,   \* the thinkers whose function is ThinkF_REMOVED
  pool,      \* thinker_pool: the first partially full block of each size
  tail,      \* thinkertail
  at,        \* where the main loop is
  prev, cur, \* prevthinker and currentthinker of the walk
  ran        \* history: the thinkers that have had their turn in this walk

mem  == <<kind, free, sp, removed, pool, tail>>
walk == <<at, prev, cur, ran>>
vars == <<kind, free, sp, removed, pool, tail, at, prev, cur, ran>>

Places == {"out",    \* between two walks, in a tic or in loading a level
           "walk",   \* at the head of P_RunThinkers' loop
           "turn",   \* in the function of currentthinker
           "wipe"}   \* in the loop of P_UnArchiveThinkers

InUse == {x \in Addr : \/ kind[BlockOf(x)] \in Sizes /\ SlotOf(x) \notin free[BlockOf(x)]
                       \/ kind[BlockOf(x)] = "plain" /\ SlotOf(x) = 0}

Init ==
  /\ kind = [b \in Blocks |-> "none"]
  /\ free = [b \in Blocks |-> {}]
  /\ sp = [x \in Addr \cup {Cap} |-> IF x = Cap THEN Cap ELSE Null]
  /\ removed = {}
  /\ pool = [z \in Sizes |-> Null]
  /\ tail = Cap
  /\ at = "out" /\ prev = Cap /\ cur = Cap /\ ran = {}

-----------------------------------------------------------------------------
(* The pool.                                                               *)

Lowest(S)  == CHOOSE s \in S : \A r \in S : s <= r
Highest(S) == CHOOSE s \in S : \A r \in S : r <= s

\* The slot of a partially full block that holds the link to the next one.
LinkSlot(b) == Thinker(b, Highest(free[b]))

\* The list of partially full blocks, as the code follows it.
Chain(z) ==
  LET nth[n \in 0 .. NumBlocks] ==
        IF n = 0 THEN pool[z]
        ELSE IF nth[n - 1] = Null \/ free[BlockOf(nth[n - 1])] = {} THEN Null
        ELSE sp[LinkSlot(BlockOf(nth[n - 1]))]
  IN nth
Listed(z) == {BlockOf(Chain(z)[n]) : n \in 0 .. NumBlocks} \ {BlockOf(Null)}

\* P_AddThinker, x being cleared memory.
Appended(links, x) == [links EXCEPT ![x] = links[tail], ![tail] = x]

\* The block Z_Malloc gives.  Blocks in the heap are all alike, so it may as well
\* be the first.
NewBlock == Lowest({b \in Blocks : kind[b] = "none"})
HeapHasRoom == \E b \in Blocks : kind[b] = "none"

MaySpawn == at \in {"out", "turn"} /\ Cardinality(InUse) < MaxThinkers

\* Z_ThinkMallocImpl with no partially full block, and P_AddThinker: all slots
\* but the first are free, and the last links to no other block.
SpawnInNew(z) ==
  /\ MaySpawn /\ pool[z] = Null /\ HeapHasRoom
  /\ LET b == NewBlock
         cleared == [sp EXCEPT ![Base(b)] = Null, ![Thinker(b, Slots - 1)] = Null]
     IN /\ kind' = [kind EXCEPT ![b] = z]
        /\ free' = [free EXCEPT ![b] = SlotNums \ {0}]
        /\ pool' = [pool EXCEPT ![z] = Base(b)]
        /\ sp' = Appended(cleared, Base(b))
        /\ tail' = Base(b)
  /\ UNCHANGED <<removed, walk>>

\* Z_ThinkMallocImpl in the first partially full block.  The slot is cleared
\* before the link is read from it when it was the last free one.
SpawnInPartial(z) ==
  /\ MaySpawn /\ pool[z] # Null
  /\ LET b == BlockOf(pool[z])
         s == Lowest(free[b])
         x == Thinker(b, s)
         cleared == [sp EXCEPT ![x] = Null]
     IN /\ free' = [free EXCEPT ![b] = @ \ {s}]
        /\ pool' = IF free[b] = {s} THEN [pool EXCEPT ![z] = cleared[x]] ELSE pool
        /\ sp' = Appended(cleared, x)
        /\ tail' = x
  /\ UNCHANGED <<kind, removed, walk>>

\* A door, a floor, a light: Z_Malloc and P_AddThinker.
SpawnPlain ==
  /\ MaySpawn /\ HeapHasRoom
  /\ kind' = [kind EXCEPT ![NewBlock] = "plain"]
  /\ sp' = Appended(sp, Base(NewBlock))
  /\ tail' = Base(NewBlock)
  /\ UNCHANGED <<free, removed, pool, walk>>

\* Z_ThinkFree of a thinker outside the pool.
FreePlain(x, links) ==
  LET b == BlockOf(x) IN
  /\ kind[b] = "plain"
  /\ kind' = [kind EXCEPT ![b] = "none"]
  /\ sp' = [links EXCEPT ![x] = Null]
  /\ UNCHANGED <<free, pool>>

\* Mutant: the link stays in a slot that is no longer the highest free one.
FreeSlotLinkKept(x, links) ==
  LET b == BlockOf(x)
      wasFull == free[b] = {}
      bits == free[b] \cup {SlotOf(x)}
  IN /\ kind[b] \in Sizes /\ bits # SlotNums
     /\ free' = [free EXCEPT ![b] = bits]
     /\ pool' = IF wasFull THEN [pool EXCEPT ![kind[b]] = Base(b)] ELSE pool
     /\ sp' = IF wasFull THEN [links EXCEPT ![x] = pool[kind[b]]] ELSE links
     /\ UNCHANGED kind

\* Z_ThinkFree of a slot in a block that stays.  A block that was full becomes
\* the first of its list; the link moves if the slot is now the highest free one.
FreeSlot(x, links) ==
  LET b == BlockOf(x)
      wasFull == free[b] = {}
      nextPool == IF wasFull THEN pool[kind[b]] ELSE links[LinkSlot(b)]
      bits == free[b] \cup {SlotOf(x)}
  IN /\ kind[b] \in Sizes /\ bits # SlotNums
     /\ free' = [free EXCEPT ![b] = bits]
     /\ pool' = IF wasFull THEN [pool EXCEPT ![kind[b]] = Base(b)] ELSE pool
     /\ sp' = IF SlotOf(x) = Highest(bits) THEN [links EXCEPT ![x] = nextPool] ELSE links
     /\ UNCHANGED kind

\* Memory of a block that goes back to the heap.  Z_Free leaves its bytes as they
\* are, but no link in it is read again before it is written.
Forgotten(links, b) == [x \in DOMAIN links |-> IF BlockOf(x) = b THEN Null ELSE links[x]]

\* Z_ThinkFree of the last slot in use: whatever links to the block, be it
\* thinker_pool or another block's link slot, links past it.
FreeBlock(x, links) ==
  LET b == BlockOf(x)
      z == kind[b]
      nextPool == links[LinkSlot(b)]
      before == {c \in Listed(z) : links[LinkSlot(c)] = Base(b)}
  IN /\ z \in Sizes /\ free[b] \cup {SlotOf(x)} = SlotNums
     /\ kind' = [kind EXCEPT ![b] = "none"]
     /\ free' = [free EXCEPT ![b] = {}]
     /\ pool' = IF pool[z] = Base(b) THEN [pool EXCEPT ![z] = nextPool] ELSE pool
     /\ sp' = Forgotten([y \in DOMAIN links |->
                IF \E c \in before : pool[z] # Base(b) /\ y = LinkSlot(c)
                THEN nextPool ELSE links[y]], b)

ThinkFree(x, links) ==
  /\ FreePlain(x, links) \/ FreeSlot(x, links) \/ FreeBlock(x, links)
  /\ removed' = removed \ {x}

-----------------------------------------------------------------------------
(* The list.                                                               *)

\* P_RemoveThinker, called for itself by a function or by another's.
Remove(x) ==
  /\ at \in {"out", "turn"} /\ x \in InUse
  /\ removed' = removed \cup {x}
  /\ UNCHANGED <<kind, free, sp, pool, tail, walk>>

\* Mutant: the first thinker is passed over.
StartWalkPastFirst ==
  /\ at = "out"
  /\ at' = "walk" /\ prev' = sp[Cap] /\ cur' = sp[sp[Cap]] /\ ran' = {}
  /\ UNCHANGED mem

\* P_Ticker calls P_RunThinkers, unless the game is paused.
StartWalk ==
  /\ at = "out"
  /\ at' = "walk" /\ prev' = Cap /\ cur' = sp[Cap] /\ ran' = {}
  /\ UNCHANGED mem

\* Mutant: thinkertail is left at a thinker that is freed.
ReapTailKept ==
  /\ at = "walk" /\ cur # Cap /\ cur \in removed
  /\ LET links == [sp EXCEPT ![prev] = sp[cur]] IN
     /\ ThinkFree(cur, links)
     /\ cur' = links[prev]
  /\ ran' = ran \ {cur}
  /\ UNCHANGED <<tail, at, prev>>

\* A removed thinker is unlinked and freed.
Reap ==
  /\ at = "walk" /\ cur # Cap /\ cur \in removed
  /\ LET links == [sp EXCEPT ![prev] = sp[cur]] IN
     /\ ThinkFree(cur, links)
     /\ tail' = IF links[prev] = Cap THEN prev ELSE tail
     /\ cur' = links[prev]
  /\ ran' = ran \ {cur}
  /\ UNCHANGED <<at, prev>>

\* Any other has its turn, in which thinkers are spawned and removed.
Think ==
  /\ at = "walk" /\ cur # Cap /\ cur \notin removed
  /\ at' = "turn" /\ ran' = ran \cup {cur}
  /\ UNCHANGED <<mem, prev, cur>>

EndTurn ==
  /\ at = "turn"
  /\ at' = "walk" /\ prev' = cur /\ cur' = sp[cur]
  /\ UNCHANGED <<mem, ran>>

EndWalk ==
  /\ at = "walk" /\ cur = Cap
  /\ at' = "out" /\ prev' = Cap /\ ran' = {}
  /\ UNCHANGED <<mem, cur>>

\* P_InitThinkers.
InitThinkers ==
  /\ sp' = [sp EXCEPT ![Cap] = Cap]
  /\ tail' = Cap
  /\ pool' = [z \in Sizes |-> Null]

\* P_SetupLevel: Z_FreeTags frees all blocks of the level that is left.
SetupLevel ==
  /\ at = "out"
  /\ kind' = [b \in Blocks |-> "none"]
  /\ free' = [b \in Blocks |-> {}]
  /\ sp' = [x \in DOMAIN sp |-> IF x = Cap THEN Cap ELSE Null]
  /\ tail' = Cap
  /\ pool' = [z \in Sizes |-> Null]
  /\ removed' = {}
  /\ UNCHANGED walk

\* P_UnArchiveThinkers frees the thinkers of the level a game is loaded into.
StartWipe ==
  /\ at = "out"
  /\ at' = "wipe" /\ cur' = sp[Cap]
  /\ UNCHANGED <<mem, prev, ran>>

WipeOne ==
  /\ at = "wipe" /\ cur # Cap
  /\ ThinkFree(cur, sp)
  /\ cur' = sp[cur]
  /\ UNCHANGED <<tail, at, prev, ran>>

EndWipe ==
  /\ at = "wipe" /\ cur = Cap
  /\ InitThinkers
  /\ at' = "out"
  /\ UNCHANGED <<kind, free, removed, prev, cur, ran>>

Loop == Reap \/ Think \/ EndTurn \/ EndWalk \/ WipeOne \/ EndWipe

Next ==
  \/ \E z \in Sizes : SpawnInNew(z) \/ SpawnInPartial(z)
  \/ SpawnPlain
  \/ \E x \in Addr : Remove(x)
  \/ Loop
  \/ StartWalk \/ SetupLevel \/ StartWipe

Spec == Init /\ [][Next]_vars

\* The loops run on by themselves.  A game that is loaded, or a level, is played:
\* G_Ticker goes on to P_Ticker in the tic that loads it, and pauses end.
FairSpec == Spec /\ WF_vars(Loop) /\ SF_vars(StartWalk)

-----------------------------------------------------------------------------
(* Properties.                                                             *)

TypeOK ==
  /\ kind \in [Blocks -> Sizes \cup {"plain", "none"}]
  /\ free \in [Blocks -> SUBSET SlotNums]
  /\ sp \in [Addr \cup {Cap} -> Addr \cup {Cap, Null}]
  /\ removed \subseteq InUse /\ ran \subseteq InUse
  /\ pool \in [Sizes -> Addr \cup {Null}]
  /\ {tail, prev, cur} \subseteq Addr \cup {Cap}
  /\ at \in Places

\* thinkercap's list goes through every thinker in use, each once, comes back
\* to thinkercap from thinkertail, and the walk stands between two neighbours.
ListSound ==
  LET n == Cardinality(InUse)
      nth[i \in 0 .. n] == IF i = 0 THEN Cap
                           ELSE IF nth[i - 1] = Null THEN Null ELSE sp[nth[i - 1]]
  IN /\ {nth[i] : i \in 1 .. n} = InUse
     /\ sp[nth[n]] = Cap /\ tail = nth[n]
     /\ at = "walk" => sp[prev] = cur

\* A list of partially full blocks ends and has only such blocks, of its size.
PoolSound ==
  \A z \in Sizes :
    /\ Chain(z)[NumBlocks] = Null
    /\ \A b \in Listed(z) : kind[b] = z /\ free[b] # {}

\* One field of memory links both lists, and each is sound: no slot is handed
\* out that is in use, and none is in use that the level has lost (P_AddThinker,
\* Z_ThinkMallocImpl, Z_ThinkFree, P_RunThinkers, P_UnArchiveThinkers; in the
\* last, the list is only sound again at the end).
ThinkersSound == TypeOK /\ PoolSound /\ (at # "wipe" => ListSound)

\* A walk gives every thinker one turn, also those that are spawned during the
\* walk, into slots it has just freed (P_RunThinkers).
ServesAll ==
  [][/\ at = "walk" /\ at' = "turn" => cur \notin ran
     /\ at = "walk" /\ at' = "out" => InUse \ removed \subseteq ran]_vars

\* A removed thinker is freed in the end, though not where it is removed
\* (P_RemoveThinker); and so every walk ends.
Reclaimed == \A x \in Addr : x \in removed ~> x \notin removed

\* p_tick.c, above the pool: "We keep a linked list of partially full blocks".
\* Not all are on it: when the first of the list becomes full, its link to the
\* others has already been cleared.
PartialsListed ==
  \A b \in Blocks : kind[b] \in Sizes /\ free[b] # {} => b \in Listed(kind[b])
=============================================================================
