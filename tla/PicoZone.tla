------------------------------ MODULE PicoZone ------------------------------
(***************************************************************************)
(* The zone heap of z_zone.c, from which everything is allocated (malloc   *)
(* included, on the device): a ring of blocks that tile one piece of       *)
(* memory, a rover that points at the block the next search begins with,   *)
(* and tags, of which those of a level are freed together and those from   *)
(* PU_PURGELEVEL on whenever room is needed.                               *)
(*                                                                         *)
(* Addresses and sizes count some unit; a header lies in memory like any   *)
(* other data, so a block that has been merged into its neighbour leaves   *)
(* its header behind, and the code may still read it.  A search for room   *)
(* and the sweep of a level go one block per step.                         *)
(***************************************************************************)
EXTENDS Integers

CONSTANTS End,          \* the zone is 1 .. End - 1
          Header,       \* size of a block's header
          MinFragment,  \* MINFRAGMENT
          Sizes,        \* sizes that are asked for, alignment included
          Owners,       \* variables that may own a block
          NoOwner

ASSUME ZoneAssumption ==
  /\ End \in Nat /\ End > 1
  /\ Header \in Nat \ {0} /\ MinFragment \in Nat
  /\ Sizes \subseteq Nat
  /\ NoOwner \notin Owners

Head == 0                     \* mainzone->blocklist
Addr == 1 .. End - 1
Ring == Addr \cup {Head}
Tags == {"static", "level", "free", "cache"}
Null == Head                  \* an owner that owns nothing

VARIABLES
  size, tag, next, prev, user,  \* the headers, wherever they lie in memory
  live,                         \* the addresses at which a block begins
  rover,                        \* mainzone->rover
  owner,                        \* the owners' pointers
  at,                           \* what the allocator is doing
  ask,                          \* [size, tag, user]: the request
  base, scan, start,            \* Z_Malloc's base, rover and start
  sweep                         \* Z_FreeTags' block

headers == <<size, tag, next, prev, user>>
vars    == <<size, tag, next, prev, user, live, rover, owner, at, ask, base,
             scan, start, sweep>>

NoAsk == [size |-> 0, tag |-> "static", user |-> NoOwner]

\* Z_Init: one free block.
Init ==
  /\ size = [b \in Ring |-> IF b = 1 THEN End - 1 ELSE 0]
  /\ tag  = [b \in Ring |-> IF b = 1 THEN "free" ELSE "static"]
  /\ next = [b \in Ring |-> IF b = Head THEN 1 ELSE Head]
  /\ prev = [b \in Ring |-> IF b = Head THEN 1 ELSE Head]
  /\ user = [b \in Ring |-> NoOwner]
  /\ live = {1}
  /\ rover = 1
  /\ owner = [o \in Owners |-> Null]
  /\ at = "idle" /\ ask = NoAsk
  /\ base = Head /\ scan = Head /\ start = Head /\ sweep = Head

-----------------------------------------------------------------------------
(***************************************************************************)
(* Z_Free.                                                                 *)
(***************************************************************************)

\* Mutant: the rover is not looked after.
FreeBlockRoverKept(b) ==
  LET back  == tag[prev[b]] = "free"
      c     == IF back THEN prev[b] ELSE b
      n     == next[b]
      ahead == tag[n] = "free"
      after == IF ahead THEN next[n] ELSE n
      gone  == (IF back THEN {b} ELSE {}) \cup (IF ahead THEN {n} ELSE {})
  IN /\ tag'   = [tag EXCEPT ![b] = "free"]
     /\ user'  = [user EXCEPT ![b] = NoOwner]
     /\ owner' = [o \in Owners |-> IF o = user[b] THEN Null ELSE owner[o]]
     /\ size'  = [size EXCEPT ![c] = (IF back THEN size[c] ELSE 0) + size[b]
                                     + (IF ahead THEN size[n] ELSE 0)]
     /\ next'  = [next EXCEPT ![c] = after]
     /\ prev'  = [a \in Ring |-> IF a \in {n, after} THEN c ELSE prev[a]]
     /\ live'  = live \ gone
     /\ UNCHANGED rover
\* Mutant: the owner is not told.
FreeBlockOwnerKept(b) ==
  LET back  == tag[prev[b]] = "free"
      c     == IF back THEN prev[b] ELSE b
      n     == next[b]
      ahead == tag[n] = "free"
      after == IF ahead THEN next[n] ELSE n
      gone  == (IF back THEN {b} ELSE {}) \cup (IF ahead THEN {n} ELSE {})
  IN /\ tag'   = [tag EXCEPT ![b] = "free"]
     /\ user'  = [user EXCEPT ![b] = NoOwner]
     /\ size'  = [size EXCEPT ![c] = (IF back THEN size[c] ELSE 0) + size[b]
                                     + (IF ahead THEN size[n] ELSE 0)]
     /\ next'  = [next EXCEPT ![c] = after]
     /\ prev'  = [a \in Ring |-> IF a \in {n, after} THEN c ELSE prev[a]]
     /\ live'  = live \ gone
     /\ rover' = IF rover \in gone THEN c ELSE rover
     /\ UNCHANGED owner

\* Block b goes free: it is merged into a free block before it and takes up a
\* free one after it.  A rover that pointed at a block that is gone is moved
\* to the one it has become part of.
FreeBlock(b) ==
  LET back  == tag[prev[b]] = "free"
      c     == IF back THEN prev[b] ELSE b
      n     == next[b]
      ahead == tag[n] = "free"
      after == IF ahead THEN next[n] ELSE n
      gone  == (IF back THEN {b} ELSE {}) \cup (IF ahead THEN {n} ELSE {})
  IN /\ tag'   = [tag EXCEPT ![b] = "free"]
     /\ user'  = [user EXCEPT ![b] = NoOwner]
     /\ owner' = [o \in Owners |-> IF o = user[b] THEN Null ELSE owner[o]]
     /\ size'  = [size EXCEPT ![c] = (IF back THEN size[c] ELSE 0) + size[b]
                                     + (IF ahead THEN size[n] ELSE 0)]
     /\ next'  = [next EXCEPT ![c] = after]
     /\ prev'  = [a \in Ring |-> IF a \in {n, after} THEN c ELSE prev[a]]
     /\ live'  = live \ gone
     /\ rover' = IF rover \in gone THEN c ELSE rover

Free(b) ==
  /\ at = "idle"
  /\ b \in live /\ tag[b] # "free"
  /\ FreeBlock(b)
  /\ UNCHANGED <<at, ask, base, scan, start, sweep>>

-----------------------------------------------------------------------------
(***************************************************************************)
(* Z_Malloc.                                                               *)
(***************************************************************************)

\* Mutant: the free block behind the rover is left behind.
BeginAtRover(n, t, o) ==
  /\ at = "idle"
  /\ t = "cache" => o # NoOwner
  /\ o # NoOwner => owner[o] = Null
  /\ ask' = [size |-> n + Header, tag |-> t, user |-> o]
  /\ base' = rover /\ scan' = rover /\ start' = prev[rover]
  /\ at' = "scan"
  /\ UNCHANGED <<headers, live, rover, owner, sweep>>

\* The search begins at the rover, or at the free block behind it.
Begin(n, t, o) ==
  /\ at = "idle"
  /\ t = "cache" => o # NoOwner
  /\ o # NoOwner => owner[o] = Null
  /\ ask' = [size |-> n + Header, tag |-> t, user |-> o]
  /\ LET b == IF tag[prev[rover]] = "free" THEN prev[rover] ELSE rover
     IN base' = b /\ scan' = b /\ start' = prev[b]
  /\ at' = "scan"
  /\ UNCHANGED <<headers, live, rover, owner, sweep>>

\* The search is over when the block at base will do.
Fits == tag'[base'] = "free" /\ size'[base'] >= ask.size

\* A block that cannot be purged: base moves past it.
PassBlock ==
  /\ tag[scan] \in {"static", "level"}
  /\ base' = next[scan] /\ scan' = next[scan]
  /\ UNCHANGED <<headers, live, rover, owner>>

\* A purgable block: its room goes to base, which it may be itself.
PurgeBlock ==
  /\ tag[scan] = "cache"
  /\ FreeBlock(scan)
  /\ base' = next'[prev[base]]
  /\ scan' = next'[base']

\* A free block: only one of them, the one at base, is looked at at a time.
PassFree ==
  /\ tag[scan] = "free"
  /\ scan' = next[scan]
  /\ UNCHANGED <<headers, live, rover, owner, base>>

Scan ==
  /\ at = "scan" /\ scan # start
  /\ PassBlock \/ PurgeBlock \/ PassFree
  /\ at' = IF Fits THEN "take" ELSE "scan"
  /\ UNCHANGED <<ask, start, sweep>>

\* Scanned all the way around the list.
OutOfMemory ==
  /\ at = "scan" /\ scan = start
  /\ at' = "panic"
  /\ UNCHANGED <<headers, live, rover, owner, ask, base, scan, start, sweep>>

\* The block at base is taken, and what it has too much goes free unless it is
\* only a fragment.
Take ==
  /\ at = "take"
  /\ LET extra == size[base] - ask.size
         split == extra > MinFragment
         rest  == base + ask.size
         after == next[base]
     IN /\ size' = [a \in Ring |-> IF split /\ a = rest THEN extra
                                   ELSE IF split /\ a = base THEN ask.size ELSE size[a]]
        /\ tag'  = [a \in Ring |-> IF a = base THEN ask.tag
                                   ELSE IF split /\ a = rest THEN "free" ELSE tag[a]]
        /\ user' = [a \in Ring |-> IF a = base THEN ask.user
                                   ELSE IF split /\ a = rest THEN NoOwner ELSE user[a]]
        /\ next' = [a \in Ring |-> IF split /\ a = rest THEN after
                                   ELSE IF split /\ a = base THEN rest ELSE next[a]]
        /\ prev' = [a \in Ring |-> IF split /\ a = rest THEN base
                                   ELSE IF split /\ a = after THEN rest ELSE prev[a]]
        /\ live' = live \cup (IF split THEN {rest} ELSE {})
        /\ rover' = IF split THEN rest ELSE after
  /\ owner' = [o \in Owners |-> IF o = ask.user THEN base ELSE owner[o]]
  /\ at' = "idle"
  /\ ask' = NoAsk
  /\ base' = Head /\ scan' = Head /\ start' = Head
  /\ UNCHANGED sweep

-----------------------------------------------------------------------------
(***************************************************************************)
(* Z_ChangeTag and Z_FreeTags.                                             *)
(***************************************************************************)

ChangeTag(b, t) ==
  /\ at = "idle"
  /\ b \in live /\ tag[b] \notin {"free", t}
  /\ t = "cache" => user[b] # NoOwner
  /\ tag' = [tag EXCEPT ![b] = t]
  /\ UNCHANGED <<size, next, prev, user, live, rover, owner, at, ask, base, scan,
                 start, sweep>>

\* P_SetupLevel frees what belongs to the last level.
BeginSweep ==
  /\ at = "idle"
  /\ at' = "sweep"
  /\ sweep' = next[Head]
  /\ UNCHANGED <<headers, live, rover, owner, ask, base, scan, start>>

\* Mutant: the block after a freed one is taken for merged.
SweepBlockSkips ==
  /\ at = "sweep" /\ sweep # Head
  /\ IF tag[sweep] = "level"
     THEN FreeBlock(sweep) /\ sweep' = next[next[sweep]]
     ELSE UNCHANGED <<headers, live, rover, owner>> /\ sweep' = next[sweep]
  /\ UNCHANGED <<at, ask, base, scan, start>>

\* The link is taken before the block is freed.  It may lead to a block that
\* has just been merged: its header still says that it is free, and what
\* follows it.
SweepBlock ==
  /\ at = "sweep" /\ sweep # Head
  /\ IF tag[sweep] = "level"
     THEN FreeBlock(sweep)
     ELSE UNCHANGED <<headers, live, rover, owner>>
  /\ sweep' = next[sweep]
  /\ UNCHANGED <<at, ask, base, scan, start>>

EndSweep ==
  /\ at = "sweep" /\ sweep = Head
  /\ at' = "idle"
  /\ UNCHANGED <<headers, live, rover, owner, ask, base, scan, start, sweep>>

-----------------------------------------------------------------------------
\* What goes on until it is done.
Busy == Scan \/ OutOfMemory \/ Take \/ SweepBlock \/ EndSweep

Next ==
  \/ Busy
  \/ BeginSweep
  \/ \E n \in Sizes, t \in Tags \ {"free"}, o \in Owners \cup {NoOwner} : Begin(n, t, o)
  \/ \E b \in live : Free(b) \/ \E t \in Tags \ {"free"} : ChangeTag(b, t)

Spec == Init /\ [][Next]_vars

FairSpec == Spec /\ WF_vars(Busy)

-----------------------------------------------------------------------------
(***************************************************************************)
(* Properties.                                                             *)
(***************************************************************************)

\* Z_CheckHeap: there is never any space between memory blocks, nor two of them
\* in one place; every link has its back link.
Tiled ==
  /\ 1 \in live /\ next[Head] = 1
  /\ \A b \in live :
       /\ size[b] > 0
       /\ b + size[b] = IF next[b] = Head THEN End ELSE next[b]
       /\ \A c \in live : b < c => b + size[b] <= c
  /\ \A b \in live \cup {Head} :
       /\ next[b] \in live \cup {Head} /\ prev[b] \in live \cup {Head}
       /\ prev[next[b]] = b /\ next[prev[b]] = b

\* There will never be two contiguous free memory blocks.
NoTwoFree ==
  \A b \in live : tag[b] = "free" => tag[next[b]] # "free"

\* The search and the rover never point at a header that is no block's.
RoverLive ==
  /\ rover \in live \cup {Head}
  /\ at \in {"scan", "take"} => {base, scan, start} \subseteq live \cup {Head}

\* However it is used, the heap stays whole.
HeapSound == Tiled /\ NoTwoFree /\ RoverLive

\* Z_Malloc only gives up if no free block is large enough and, but for the
\* block it started behind, nothing can be purged.
PanicHonest ==
  at = "panic" => \A b \in live : /\ tag[b] = "free" => size[b] < ask.size
                                  /\ tag[b] = "cache" => b = start

\* After Z_FreeTags nothing of the level is left.
SweptClean ==
  at = "sweep" /\ sweep = Head => \A b \in live : tag[b] # "level"

\* An owner's pointer leads to its own block, and to nothing once that was
\* freed or purged.
OwnersRight ==
  /\ \A o \in Owners : owner[o] # Null =>
       owner[o] \in live /\ tag[owner[o]] # "free" /\ user[owner[o]] = o
  /\ \A b \in live : user[b] # NoOwner => owner[user[b]] = b

\* Every request is answered: a search that purges as it goes still comes round
\* to where it started.
RequestsEnd == (at # "idle") ~> (at \in {"idle", "panic"})
=============================================================================
