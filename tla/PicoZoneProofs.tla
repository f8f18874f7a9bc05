--------------------------- MODULE PicoZoneProofs ---------------------------
(***************************************************************************)
(* The soundness of the heap for a zone, headers, fragments and requests   *)
(* of any size.                                                            *)
(*                                                                         *)
(* The argument is local: freeing a block changes what its two neighbours  *)
(* become, and taking one splits it.  What makes the local steps safe is   *)
(* the state of the search (it looks at the block at base or at the one    *)
(* after it, and nothing free lies before base) and of the sweep (a link   *)
(* that was taken too early leads to a header that is still true).         *)
(*                                                                         *)
(* That a search or a sweep misses nothing is another invariant, of what   *)
(* lies behind it on its way round the list (ProgressInv).                 *)
(***************************************************************************)
EXTENDS PicoZone, TLAPS

Links == live \cup {Head}

HeaderTypes ==
  /\ size \in [Ring -> Int] /\ tag \in [Ring -> Tags] /\ user \in [Ring -> Owners \cup {NoOwner}]
  /\ next \in [Ring -> Ring] /\ prev \in [Ring -> Ring]
  /\ live \subseteq Addr
  /\ rover \in Ring
  /\ owner \in [Owners -> Ring]

SearchTypes ==
  /\ ask \in [size : Int, tag : Tags \ {"free"}, user : Owners \cup {NoOwner}]
  /\ at \in {"idle", "scan", "take", "sweep", "panic"}
  /\ {base, scan, start, sweep} \subseteq Ring

\* The end of the list is no block.
HeadIsNoBlock == tag[Head] = "static"

\* Where Z_Malloc is.
SearchSound ==
  /\ at \in {"scan", "take"} =>
       /\ ask.size > 0
       /\ {base, scan, start} \subseteq Links /\ tag[prev[base]] # "free"
       /\ ask.user # NoOwner => owner[ask.user] = Null
  /\ at = "scan" =>
       /\ tag[start] # "free"
       /\ scan = base \/ (scan = next[base] /\ tag[base] = "free")
  /\ at = "take" => base \in live /\ tag[base] = "free" /\ size[base] >= ask.size

\* Where Z_FreeTags is: at a block, or at what was one and is free for good.
SweepSound ==
  at = "sweep" =>
    sweep \in Links \/ (sweep \in Addr /\ tag[sweep] = "free" /\ next[sweep] \in Links)

\* The heap, whatever is going on in it.
HeapInv == HeaderTypes /\ HeadIsNoBlock /\ Tiled /\ NoTwoFree /\ rover \in Links /\ OwnersRight

ZoneInv == HeapInv /\ SearchTypes /\ SearchSound /\ SweepSound

LEMMA RingTyped == Head \in Ring /\ Head \notin Addr /\ Addr \subseteq Ring /\ 1 \in Addr
BY ZoneAssumption DEF Head, Ring, Addr

-----------------------------------------------------------------------------
(***************************************************************************)
(* Freeing a block.                                                        *)
(***************************************************************************)

\* What a block's two neighbours are.
LEMMA Neighbours ==
  ASSUME HeapInv, NEW b \in live
  PROVE  /\ next[b] \in Links /\ prev[b] \in Links
         /\ next[prev[b]] = b /\ prev[next[b]] = b
         /\ next[b] \in live => b < next[b] /\ next[b] = b + size[b]
         /\ prev[b] \in live => prev[b] < b /\ b = prev[b] + size[prev[b]]
         /\ tag[next[b]] = "free" => next[b] \in live
         /\ tag[prev[b]] = "free" => prev[b] \in live
         /\ size[b] > 0 /\ size[b] \in Int /\ b \in Int /\ b > 0
<1> USE DEF HeapInv, Links, HeadIsNoBlock
<1>1. b \in Int /\ b > 0 /\ size[b] \in Int /\ b \in Ring
  BY RingTyped DEF HeaderTypes, Addr
<1>2. /\ next[b] \in Links /\ prev[b] \in Links
      /\ next[prev[b]] = b /\ prev[next[b]] = b /\ size[b] > 0
  BY DEF Tiled
<1>3. next[b] \in live => b < next[b] /\ next[b] = b + size[b]
  <2>1. Head \notin live
    BY RingTyped DEF HeaderTypes
  <2> QED BY <1>1, <1>2, <2>1 DEF Tiled
<1>4. prev[b] \in live => prev[b] < b /\ b = prev[b] + size[prev[b]]
  <2> SUFFICES ASSUME prev[b] \in live PROVE prev[b] < b /\ b = prev[b] + size[prev[b]]
    OBVIOUS
  <2>1. b # Head
    BY RingTyped DEF HeaderTypes
  <2>2. prev[b] \in Int /\ size[prev[b]] \in Int /\ size[prev[b]] > 0
    <3>1. prev[b] \in Ring /\ prev[b] \in Addr
      BY RingTyped DEF HeaderTypes
    <3>2. prev[b] \in Int
      BY <3>1, ZoneAssumption DEF Addr
    <3> QED BY <3>1, <3>2 DEF HeaderTypes, Tiled
  <2>3. prev[b] + size[prev[b]] = b
    BY <1>2, <2>1 DEF Tiled
  <2> QED BY <2>2, <2>3
<1> QED BY <1>1, <1>2, <1>3, <1>4

LEMMA FreeBlockSound ==
  ASSUME HeapInv, NEW b \in live, tag[b] # "free", FreeBlock(b)
  PROVE  /\ HeapInv'
         /\ live' \subseteq live
         /\ \A a \in Links : tag[a] # "free" /\ a # b => a \in Links' /\ tag'[a] = tag[a]
         /\ LET c == IF tag[prev[b]] = "free" THEN prev[b] ELSE b
            IN c \in live' /\ tag'[c] = "free" /\ \A x \in Links' : x # c => next'[x] = next[x]
         /\ \/ next[b] \in Links'
            \/ next[b] \in Addr /\ tag'[next[b]] = "free" /\ next'[next[b]] \in Links'
         /\ \A o \in Owners : owner[o] = Null => owner'[o] = Null
<1> DEFINE back  == tag[prev[b]] = "free"
           c     == IF back THEN prev[b] ELSE b
           n     == next[b]
           ahead == tag[n] = "free"
           after == IF ahead THEN next[n] ELSE n
           gone  == (IF back THEN {b} ELSE {}) \cup (IF ahead THEN {n} ELSE {})
<1>1. /\ tag' = [tag EXCEPT ![b] = "free"]
      /\ user' = [user EXCEPT ![b] = NoOwner]
      /\ owner' = [o \in Owners |-> IF o = user[b] THEN Null ELSE owner[o]]
      /\ size' = [size EXCEPT ![c] = (IF back THEN size[c] ELSE 0) + size[b]
                                      + (IF ahead THEN size[n] ELSE 0)]
      /\ next' = [next EXCEPT ![c] = after]
      /\ prev' = [a \in Ring |-> IF a \in {n, after} THEN c ELSE prev[a]]
      /\ live' = live \ gone
      /\ rover' = IF rover \in gone THEN c ELSE rover
  BY DEF FreeBlock
<1>2. /\ live \subseteq Addr /\ Links \subseteq Ring /\ Head \notin live
      /\ \A a \in live : a \in Int /\ a > 0 /\ a \in Ring /\ size[a] \in Int
  BY RingTyped DEF HeapInv, HeaderTypes, Links, Addr
<1>3. /\ c \in live /\ c \in Int /\ c <= b /\ c \notin gone
      /\ back => c + size[c] = b /\ c = prev[b] /\ c # b
  BY Neighbours, <1>2
<1>4. ahead => n \in live /\ n = b + size[b] /\ n # b
  BY Neighbours, <1>2
<1>5. after \in Links /\ tag[after] # "free" /\ after # b
  <2>1. CASE ahead
    <3>1. next[n] \in Links /\ prev[next[n]] = n /\ tag[next[n]] # "free"
      BY <1>4, <2>1, Neighbours DEF HeapInv, NoTwoFree
    <3>2. next[n] # b
      <4>1. next[n] \in live => n < next[n]
        BY <1>4, <2>1, Neighbours
      <4> QED BY <4>1, <1>2, <1>4, <2>1, Neighbours
    <3> QED BY <2>1, <3>1, <3>2
  <2>2. CASE ~ ahead
    <3>1. n # b
      BY Neighbours, <1>2
    <3> QED BY <2>2, <3>1, Neighbours
  <2> QED BY <2>1, <2>2
<1>6. after \notin gone /\ after # c /\ (after # Head => after \in live)
  BY <1>5, <1>3 DEF Links
<1>7. size'[c] \in Int /\ size'[c] > 0 /\ c + size'[c] = IF after = Head THEN End ELSE after
  <2>1. size'[c] = (IF back THEN size[c] ELSE 0) + size[b] + (IF ahead THEN size[n] ELSE 0)
    BY <1>1, <1>2, <1>3 DEF HeapInv, HeaderTypes
  <2>2. c + (IF back THEN size[c] ELSE 0) = b
    BY <1>3, <1>2
  <2>3. b + size[b] + (IF ahead THEN size[n] ELSE 0) = IF after = Head THEN End ELSE after
    <3>1. CASE ahead
      <4>1. n + size[n] = IF next[n] = Head THEN End ELSE next[n]
        BY <1>4, <3>1 DEF HeapInv, Tiled
      <4> QED BY <3>1, <4>1, <1>4, <1>2
    <3>2. CASE ~ ahead
      <4>1. b + size[b] = IF n = Head THEN End ELSE n
        BY DEF HeapInv, Tiled
      <4> QED BY <3>2, <4>1, <1>2
    <3> QED BY <3>1, <3>2
  <2>4. size[b] \in Int /\ size[b] > 0 /\ (back => size[c] \in Int /\ size[c] > 0)
        /\ (ahead => size[n] \in Int /\ size[n] > 0)
    BY <1>2, <1>3, <1>4 DEF HeapInv, Tiled
  <2>5. b \in Int
    BY <1>2
  <2> HIDE DEF c, n, after, back, ahead
  <2> QED BY <2>1, <2>2, <2>3, <2>4, <2>5, <1>3
<1>8. live' \subseteq live /\ Links' \subseteq Links /\ c \in live' /\ after \in Links'
  BY <1>1, <1>3, <1>6, <1>5 DEF Links
<1>9. /\ \A x \in Links' : x # c => next'[x] = next[x] /\ size'[x] = size[x]
      /\ \A x \in Links' : x # after => prev'[x] = prev[x]
      /\ next'[c] = after /\ prev'[after] = c
  <2>1. \A x \in Links' : x = n => x = after
    BY <1>1, <1>8, <1>4, <1>2 DEF Links
  <2>2. next \in [Ring -> Ring] /\ size \in [Ring -> Int]
    BY DEF HeapInv, HeaderTypes
  <2>3. \A x \in Links' : x \in Ring
    BY <1>8, <1>2
  <2> HIDE DEF c, after, n, gone
  <2> QED BY <1>1, <1>2, <1>3, <1>8, <2>1, <2>2, <2>3
\* The other blocks keep their neighbours.
<1>10. ASSUME NEW x \in Links', x # c
       PROVE  next[x] \in Links' /\ next[x] # after /\ (back => next[x] # b)
  <2>1. x \in Links /\ next[x] \in Links /\ prev[next[x]] = x
    BY <1>8 DEF HeapInv, Tiled, Links
  <2>2. back => next[x] # b
    <3>1. next[x] = b => x = prev[b]
      BY <2>1
    <3> QED BY <3>1, <1>3, <1>10
  <2>3. next[x] # n
    <3>1. next[x] = n => x = b
      BY <2>1, Neighbours
    <3> QED BY <3>1, <1>10, <1>1, <1>8, <1>2 DEF Links
  <2>4. next[x] # after
    <3>1. ahead /\ next[x] = after => x = n
      BY <2>1, <1>4 DEF HeapInv, Tiled, Links
    <3> QED BY <3>1, <2>3, <1>10, <1>1, <1>4, <1>2 DEF Links
  <2> QED BY <2>1, <2>2, <2>3, <2>4, <1>1 DEF Links
<1>11. ASSUME NEW x \in Links', x # after
       PROVE  prev[x] \in Links' /\ prev[x] # c
  <2>1. x \in Links /\ prev[x] \in Links /\ next[prev[x]] = x
    BY <1>8 DEF HeapInv, Tiled, Links
  <2>2. prev[x] # b
    <3>1. prev[x] = b => x = n
      BY <2>1
    <3> QED BY <3>1, <1>11, <1>1, <1>8, <1>4, <1>2 DEF Links
  <2>3. ahead => prev[x] # n
    <3>1. ahead /\ prev[x] = n => x = after
      BY <2>1
    <3> QED BY <3>1, <1>11
  <2>4. prev[x] # c
    <3>1. back /\ prev[x] = c => x = b
      BY <2>1, <1>3, Neighbours
    <3>2. back => x # b
      BY <1>11, <1>1, <1>2 DEF Links
    <3> QED BY <3>1, <3>2, <2>2
  <2> QED BY <2>1, <2>2, <2>3, <2>4, <1>1 DEF Links
\* No two blocks overlap.
<1>12. ASSUME NEW x \in live', NEW y \in live', x < y
       PROVE  x + size'[x] <= y
  <2>1. x \in live /\ y \in live /\ x + size[x] <= y
    BY <1>8, <1>12 DEF HeapInv, Tiled
  <2>2. CASE x # c
    BY <2>1, <2>2, <1>9 DEF Links
  <2>3. CASE x = c
    <3>1. b < y
      <4>1. CASE back
        <5>1. b <= y /\ y # b
          BY <2>1, <2>3, <1>3, <1>1, <1>12, <4>1
        <5> QED BY <5>1, <1>2, <2>1
      <4>2. CASE ~ back
        BY <4>2, <1>12, <2>3
      <4> QED BY <4>1, <4>2
    <3>4. b + size[b] <= y
      BY <3>1, <2>1 DEF HeapInv, Tiled
    <3>5. CASE ~ ahead
      <4>1. size'[c] = (IF back THEN size[c] ELSE 0) + size[b]
        BY <1>1, <1>2, <1>3, <3>5 DEF HeapInv, HeaderTypes
      <4>2. c + size'[c] = b + size[b]
        BY <4>1, <1>3, <1>2, Neighbours
      <4> QED BY <4>2, <3>4, <2>3
    <3>6. CASE ahead
      <4>1. y # n
        BY <3>6, <1>1, <1>12
      <4>2. n < y
        BY <3>4, <3>6, <4>1, <1>4, <1>2, <2>1
      <4>3. n + size[n] <= y
        BY <4>2, <1>4, <3>6, <2>1 DEF HeapInv, Tiled
      <4>4. size'[c] = (IF back THEN size[c] ELSE 0) + size[b] + size[n]
        BY <1>1, <1>2, <1>3, <3>6 DEF HeapInv, HeaderTypes
      <4>5. c + size'[c] = n + size[n]
        BY <4>4, <1>3, <1>4, <3>6, <1>2, Neighbours
      <4> QED BY <4>3, <4>5, <2>3
    <3> QED BY <3>5, <3>6
  <2> QED BY <2>2, <2>3
<1>13. Tiled'
  <2>1. (1 \in live)' /\ (next[Head] = 1)'
    <3>1. 1 \in live /\ next[Head] = 1
      BY DEF HeapInv, Tiled
    <3>2. b = 1 => ~ back
      <4>1. b = 1 => prev[b] = Head
        BY <3>1 DEF HeapInv, Tiled
      <4> QED BY <4>1 DEF HeapInv, HeadIsNoBlock
    <3>3. ahead => n # 1
      BY <1>4, <1>2, Neighbours
    <3>4. 1 \in live'
      BY <3>1, <3>2, <3>3, <1>1
    <3>5. Head # c
      BY <1>3, <1>2
    <3> QED BY <3>1, <3>4, <3>5, <1>9 DEF Links
  <2>2. ASSUME NEW x \in live'
        PROVE  /\ size'[x] > 0
               /\ x + size'[x] = IF next'[x] = Head THEN End ELSE next'[x]
    <3>1. CASE x = c
      BY <3>1, <1>7, <1>9
    <3>2. CASE x # c
      BY <3>2, <1>8, <1>9 DEF HeapInv, Tiled, Links
    <3> QED BY <3>1, <3>2
  <2>3. ASSUME NEW x \in Links'
        PROVE  /\ next'[x] \in Links' /\ prev'[next'[x]] = x
               /\ prev'[x] \in Links' /\ next'[prev'[x]] = x
    <3>1. next'[x] \in Links' /\ prev'[next'[x]] = x
      <4>1. CASE x = c
        BY <4>1, <1>8, <1>9
      <4>2. CASE x # c
        <5>1. prev[next[x]] = x
          BY <1>8 DEF HeapInv, Tiled, Links
        <5> QED BY <4>2, <5>1, <1>9, <1>10
      <4> QED BY <4>1, <4>2
    <3>2. prev'[x] \in Links' /\ next'[prev'[x]] = x
      <4>1. CASE x = after
        BY <4>1, <1>8, <1>9 DEF Links
      <4>2. CASE x # after
        <5>1. next[prev[x]] = x
          BY <1>8 DEF HeapInv, Tiled, Links
        <5> QED BY <4>2, <5>1, <1>9, <1>11
      <4> QED BY <4>1, <4>2
    <3> QED BY <3>1, <3>2
  <2> HIDE DEF c, n, after, gone, back, ahead
  <2> QED BY <2>1, <2>2, <2>3, <1>12 DEF Tiled, Links
<1>14. NoTwoFree'
  <2> SUFFICES ASSUME NEW x \in live', tag'[x] = "free" PROVE tag'[next'[x]] # "free"
    BY DEF NoTwoFree
  <2>1. tag'[after] # "free"
    BY <1>1, <1>5, <1>2 DEF HeapInv, HeaderTypes
  <2>2. CASE x = c
    BY <2>1, <2>2, <1>9
  <2>3. CASE x # c
    <3>1. x \in live /\ next'[x] = next[x]
      BY <2>3, <1>8, <1>9 DEF Links
    <3>2. x # b
      BY <2>3, <1>1
    <3>3. tag[x] = "free"
      BY <3>1, <3>2, <1>1, <1>2 DEF HeapInv, HeaderTypes
    <3>4. tag[next[x]] # "free" /\ next[x] \in Links
      BY <3>1, <3>3, Neighbours DEF HeapInv, NoTwoFree
    <3>5. next[x] # b
      <4>1. next[x] = b => x = prev[b]
        BY <3>1 DEF HeapInv, Tiled
      <4> QED BY <4>1, <3>3, <2>3
    <3> QED BY <3>1, <3>4, <3>5, <1>1, <1>2 DEF HeapInv, HeaderTypes
  <2> QED BY <2>2, <2>3
<1>15. HeaderTypes'
  <2>1. c \in Ring /\ after \in Ring /\ b \in Ring /\ n \in Ring
    BY <1>3, <1>5, <1>2, Neighbours
  <2>2. size' \in [Ring -> Int]
    BY <1>1, <1>7, <2>1 DEF HeapInv, HeaderTypes
  <2>3. tag' \in [Ring -> Tags] /\ user' \in [Ring -> Owners \cup {NoOwner}]
    BY <1>1 DEF HeapInv, HeaderTypes, Tags
  <2>4. next' \in [Ring -> Ring] /\ prev' \in [Ring -> Ring]
    <3> HIDE DEF c, after, n
    <3> QED BY <1>1, <2>1 DEF HeapInv, HeaderTypes
  <2>5. live' \subseteq Addr /\ rover' \in Ring
    <3> HIDE DEF c, gone
    <3> QED BY <1>1, <2>1 DEF HeapInv, HeaderTypes
  <2>6. owner' \in [Owners -> Ring]
    BY <1>1, RingTyped DEF HeapInv, HeaderTypes, Null
  <2> QED BY <2>2, <2>3, <2>4, <2>5, <2>6 DEF HeapInv, HeaderTypes
<1>16. HeadIsNoBlock'
  BY <1>1, <1>2, RingTyped DEF HeapInv, HeadIsNoBlock, HeaderTypes
<1>17. rover' \in Links'
  <2> HIDE DEF c, gone
  <2> QED BY <1>1, <1>8 DEF HeapInv, Links
<1>18. \A a \in Links : tag[a] # "free" /\ a # b => a \in Links' /\ tag'[a] = tag[a]
  <2>1. \A a \in gone : a = b \/ tag[a] = "free"
    OBVIOUS
  <2> HIDE DEF gone
  <2> QED BY <2>1, <1>1, <1>2 DEF HeapInv, HeaderTypes, Links
<1>19. OwnersRight'
  <2>1. user'[b] = NoOwner /\ \A a \in Ring : a # b => user'[a] = user[a]
    BY <1>1, <1>2 DEF HeapInv, HeaderTypes
  <2>2. ASSUME NEW o \in Owners, owner'[o] # Null
        PROVE  owner'[o] \in live' /\ tag'[owner'[o]] # "free" /\ user'[owner'[o]] = o
    <3>1. o # user[b] /\ owner'[o] = owner[o]
      BY <1>1, <2>2
    <3>2. owner[o] \in live /\ tag[owner[o]] # "free" /\ user[owner[o]] = o
      BY <3>1, <2>2 DEF HeapInv, OwnersRight
    <3>3. owner[o] # b
      BY <3>1, <3>2
    <3> QED BY <3>1, <3>2, <3>3, <2>1, <1>18, <1>2 DEF Links
  <2>3. ASSUME NEW x \in live', user'[x] # NoOwner
        PROVE  owner'[user'[x]] = x
    <3>1. x \in live /\ x # b /\ user'[x] = user[x]
      BY <2>1, <2>3, <1>8, <1>2
    <3>2. owner[user[x]] = x /\ user[x] \in Owners
      BY <3>1, <2>3, <1>2 DEF HeapInv, OwnersRight, HeaderTypes
    <3>3. user[b] # user[x]
      <4>1. user[b] # NoOwner => owner[user[b]] = b
        BY DEF HeapInv, OwnersRight
      <4> QED BY <4>1, <3>1, <3>2, <2>3
    <3> QED BY <3>1, <3>2, <3>3, <1>1
  <2> QED BY <2>2, <2>3 DEF OwnersRight
<1>20. tag'[c] = "free"
  BY <1>1, <1>2, <1>3 DEF HeapInv, HeaderTypes
<1>21. \/ n \in Links'
       \/ n \in Addr /\ tag'[n] = "free" /\ next'[n] \in Links'
  <2>1. CASE ahead
    <3>1. n # c /\ n \in Ring /\ n \in Addr
      BY <2>1, <1>2, <1>3, <1>4
    <3>2. next'[n] = after
      <4> HIDE DEF c, after
      <4>1. next'[n] = next[n]
        BY <3>1, <1>1, <1>2, <1>3 DEF HeapInv, HeaderTypes
      <4> QED BY <2>1, <4>1 DEF after
    <3>3. tag'[n] = "free"
      BY <2>1, <3>1, <1>1, <1>4 DEF HeapInv, HeaderTypes
    <3> QED BY <3>1, <3>2, <3>3, <1>8
  <2>2. CASE ~ ahead
    BY <2>2, <1>8
  <2> QED BY <2>1, <2>2
<1>22. \A o \in Owners : owner[o] = Null => owner'[o] = Null
  BY <1>1
<1> QED
  BY <1>8, <1>9, <1>13, <1>14, <1>15, <1>16, <1>17, <1>18, <1>19, <1>20, <1>21, <1>22 DEF HeapInv

-----------------------------------------------------------------------------
(***************************************************************************)
(* Taking a block.                                                         *)
(***************************************************************************)

\* The block is taken whole.
LEMMA TakeWhole ==
  ASSUME ZoneInv, Take, ~ (size[base] - ask.size > MinFragment)
  PROVE  HeapInv'
<1> USE DEF ZoneInv
<1>1. /\ base \in live /\ tag[base] = "free" /\ at = "take"
      /\ ask.user # NoOwner => owner[ask.user] = Null
      /\ ask.tag \in Tags \ {"free"} /\ ask.user \in Owners \cup {NoOwner}
  BY DEF Take, SearchSound, SearchTypes
<1>2. /\ size' = size /\ next' = next /\ prev' = prev /\ live' = live
      /\ tag' = [a \in Ring |-> IF a = base THEN ask.tag ELSE tag[a]]
      /\ user' = [a \in Ring |-> IF a = base THEN ask.user ELSE user[a]]
      /\ rover' = next[base]
      /\ owner' = [o \in Owners |-> IF o = ask.user THEN base ELSE owner[o]]
  BY DEF Take, HeapInv, HeaderTypes
<1>3. live \subseteq Ring /\ Head \notin live /\ base \in Ring
  BY <1>1, RingTyped DEF HeapInv, HeaderTypes
<1>4. HeaderTypes'
  <2>1. next[base] \in Ring
    BY <1>3 DEF HeapInv, HeaderTypes
  <2> QED BY <1>1, <1>2, <1>3, <2>1 DEF HeapInv, HeaderTypes
<1>5. HeadIsNoBlock' /\ rover' \in Links' /\ Links' = Links
  BY <1>1, <1>2, <1>3, Neighbours, RingTyped DEF HeapInv, HeadIsNoBlock, Links
<1>6. Tiled'
  BY <1>2 DEF HeapInv, Tiled
<1>7. NoTwoFree'
  <2> SUFFICES ASSUME NEW x \in live', tag'[x] = "free" PROVE tag'[next'[x]] # "free"
    BY DEF NoTwoFree
  <2>1. x \in live /\ tag[x] = "free" /\ x # base
    BY <1>1, <1>2, <1>3
  <2>2. tag[next[x]] # "free" /\ next[x] \in Ring
    BY <2>1, <1>3 DEF HeapInv, NoTwoFree, HeaderTypes
  <2> QED BY <2>2, <1>1, <1>2
<1>8. OwnersRight'
  <2>1. ASSUME NEW o \in Owners, owner'[o] # Null
        PROVE  owner'[o] \in live' /\ tag'[owner'[o]] # "free" /\ user'[owner'[o]] = o
    <3>1. CASE o = ask.user
      BY <3>1, <1>1, <1>2, <1>3
    <3>2. CASE o # ask.user
      <4>1. owner'[o] = owner[o] /\ owner[o] \in live /\ tag[owner[o]] # "free" /\ user[owner[o]] = o
        BY <3>2, <2>1, <1>2 DEF HeapInv, OwnersRight
      <4> QED BY <4>1, <1>1, <1>2, <1>3
    <3> QED BY <3>1, <3>2
  <2>2. ASSUME NEW x \in live', user'[x] # NoOwner
        PROVE  owner'[user'[x]] = x
    <3>1. x \in live
      BY <1>2
    <3>2. CASE x = base
      BY <3>2, <1>1, <1>2, <1>3, <2>2
    <3>3. CASE x # base
      <4>1. user'[x] = user[x] /\ owner[user[x]] = x /\ user[x] \in Owners
        BY <3>1, <3>3, <1>2, <1>3, <2>2 DEF HeapInv, OwnersRight, HeaderTypes
      <4>2. user[x] # ask.user
        BY <4>1, <3>1, <1>1, <1>3, <2>2 DEF Null
      <4> QED BY <4>1, <4>2, <1>2
    <3> QED BY <3>2, <3>3
  <2> QED BY <2>1, <2>2 DEF OwnersRight
<1> QED BY <1>4, <1>5, <1>6, <1>7, <1>8 DEF HeapInv

\* What the block has too much becomes a free block behind it.
LEMMA TakeSplit ==
  ASSUME ZoneInv, Take, size[base] - ask.size > MinFragment
  PROVE  HeapInv'
<1> USE DEF ZoneInv
<1> DEFINE rest  == base + ask.size
           extra == size[base] - ask.size
           after == next[base]
<1>1. /\ base \in live /\ tag[base] = "free" /\ at = "take"
      /\ ask.user # NoOwner => owner[ask.user] = Null
      /\ ask.tag \in Tags \ {"free"} /\ ask.user \in Owners \cup {NoOwner}
      /\ ask.size \in Int /\ ask.size > 0
  BY DEF Take, SearchSound, SearchTypes
<1>2. /\ size' = [a \in Ring |-> IF a = rest THEN extra
                                  ELSE IF a = base THEN ask.size ELSE size[a]]
      /\ tag'  = [a \in Ring |-> IF a = base THEN ask.tag
                                  ELSE IF a = rest THEN "free" ELSE tag[a]]
      /\ user' = [a \in Ring |-> IF a = base THEN ask.user
                                  ELSE IF a = rest THEN NoOwner ELSE user[a]]
      /\ next' = [a \in Ring |-> IF a = rest THEN after
                                  ELSE IF a = base THEN rest ELSE next[a]]
      /\ prev' = [a \in Ring |-> IF a = rest THEN base
                                  ELSE IF a = after THEN rest ELSE prev[a]]
      /\ live' = live \cup {rest}
      /\ rover' = rest
      /\ owner' = [o \in Owners |-> IF o = ask.user THEN base ELSE owner[o]]
  BY DEF Take
<1>3. /\ live \subseteq Ring /\ Head \notin live /\ base \in Ring
      /\ \A a \in live : a \in Int /\ a > 0 /\ size[a] \in Int
  <2>1. live \subseteq Addr /\ size \in [Ring -> Int]
    BY DEF HeapInv, HeaderTypes
  <2>2. \A a \in Addr : a \in Int /\ a > 0
    BY ZoneAssumption DEF Addr
  <2> QED BY <1>1, <2>1, <2>2, RingTyped
<1>4. /\ extra > 0 /\ extra \in Int /\ rest \in Int /\ base < rest
      /\ rest + extra = base + size[base] /\ base + ask.size = rest
  <2>1. base \in Int /\ size[base] \in Int /\ MinFragment \in Int /\ MinFragment >= 0
    BY <1>1, <1>3, ZoneAssumption
  <2>2. ask.size \in Int /\ ask.size > 0
    BY <1>1
  <2> QED BY <2>1, <2>2
<1>5. base + size[base] = IF after = Head THEN End ELSE after
  BY <1>1 DEF HeapInv, Tiled
<1>6. after \in Links /\ tag[after] # "free" /\ after # base /\ (after # Head => after \in live)
  BY <1>1, <1>3, Neighbours DEF HeapInv, NoTwoFree, Links
<1>7. rest \in Addr /\ rest \in Ring /\ rest \notin Links
  <2>1. rest < End
    <3>1. after # Head => after \in Addr
      BY <1>6 DEF HeapInv, HeaderTypes
    <3>2. after # Head => after < End
      BY <3>1, ZoneAssumption DEF Addr
    <3> HIDE DEF rest, extra, after
    <3> QED BY <1>4, <1>5, <1>6, <1>3, <3>2, <1>1, ZoneAssumption
  <2>2. rest \in Addr
    BY <2>1, <1>1, <1>3, <1>4, ZoneAssumption DEF Addr
  <2>3. rest \notin live
    <3> SUFFICES ASSUME rest \in live PROVE FALSE
      OBVIOUS
    <3>1. base + size[base] <= rest
      BY <1>1, <1>4 DEF HeapInv, Tiled
    <3> QED BY <3>1, <1>1, <1>3, <1>4
  <2> QED BY <2>2, <2>3, RingTyped DEF Links
<1>8. rest # Head /\ rest # base /\ rest # after /\ base # Head
  BY <1>7, <1>6, <1>1, <1>3 DEF Links
<1> HIDE DEF rest, extra, after
<1>9. HeaderTypes'
  <2>1. size' \in [Ring -> Int]
    BY <1>2, <1>1, <1>4 DEF HeapInv, HeaderTypes
  <2>2. tag' \in [Ring -> Tags] /\ user' \in [Ring -> Owners \cup {NoOwner}]
    BY <1>1, <1>2 DEF HeapInv, HeaderTypes, Tags
  <2>3. next' \in [Ring -> Ring] /\ prev' \in [Ring -> Ring]
    <3>1. after \in Ring
      BY <1>6, <1>3, RingTyped DEF Links
    <3> QED BY <1>2, <1>3, <1>7, <3>1 DEF HeapInv, HeaderTypes
  <2>4. live' \subseteq Addr /\ rover' \in Ring /\ owner' \in [Owners -> Ring]
    BY <1>2, <1>3, <1>7 DEF HeapInv, HeaderTypes
  <2> QED BY <2>1, <2>2, <2>3, <2>4 DEF HeaderTypes
<1>10. HeadIsNoBlock' /\ rover' \in Links' /\ Links' = Links \cup {rest}
  BY <1>2, <1>8, RingTyped DEF HeapInv, HeadIsNoBlock, Links
<1>11. ASSUME NEW x \in Links, x # base
       PROVE  next'[x] = next[x] /\ next[x] \in Links /\ next[x] # after /\ size'[x] = size[x]
              /\ tag'[x] = tag[x] /\ user'[x] = user[x]
  <2>1. x \in Ring /\ x # rest
    BY <1>7, <1>3, RingTyped DEF Links
  <2>2. next[x] \in Links /\ prev[next[x]] = x /\ prev[after] = base
    BY <1>1 DEF HeapInv, Tiled, Links, after
  <2> QED BY <2>1, <2>2, <1>2, <1>11
<1>12. ASSUME NEW x \in Links, x # after
       PROVE  prev'[x] = prev[x] /\ prev[x] \in Links /\ prev[x] # base
  <2>1. x \in Ring /\ x # rest
    BY <1>7, <1>3, RingTyped DEF Links
  <2>2. prev[x] \in Links /\ next[prev[x]] = x
    BY DEF HeapInv, Tiled, Links
  <2> QED BY <2>1, <2>2, <1>2, <1>12 DEF after
<1>13. /\ next'[base] = rest /\ next'[rest] = after /\ prev'[rest] = base /\ prev'[after] = rest
       /\ size'[base] = ask.size /\ size'[rest] = extra
       /\ tag'[base] = ask.tag /\ tag'[rest] = "free"
       /\ user'[base] = ask.user /\ user'[rest] = NoOwner
  BY <1>2, <1>3, <1>6, <1>7, <1>8, RingTyped DEF Links
<1>14. Tiled'
  <2>1. (1 \in live)' /\ (next[Head] = 1)'
    BY <1>2, <1>8, <1>11 DEF HeapInv, Tiled, Links
  <2>2. ASSUME NEW x \in live'
        PROVE  size'[x] > 0 /\ x + size'[x] = IF next'[x] = Head THEN End ELSE next'[x]
    <3>1. CASE x = base
      BY <3>1, <1>13, <1>1, <1>4, <1>8
    <3>2. CASE x = rest
      BY <3>2, <1>13, <1>4, <1>5
    <3>3. CASE x # base /\ x # rest
      <4>1. x \in live
        BY <3>3, <1>2
      <4> QED BY <4>1, <3>3, <1>11 DEF HeapInv, Tiled, Links
    <3> QED BY <3>1, <3>2, <3>3
  <2>3. ASSUME NEW x \in live', NEW y \in live', x < y
        PROVE  x + size'[x] <= y
    <3>1. CASE x = base
      <4>1. CASE y = rest
        BY <3>1, <4>1, <1>13, <1>4, <1>3, <1>1
      <4>2. CASE y # rest
        <5>1. y \in live /\ base + size[base] <= y
          BY <3>1, <4>2, <2>3, <1>1, <1>2 DEF HeapInv, Tiled
        <5> QED BY <5>1, <3>1, <1>13, <1>3, <1>4, <1>1
      <4> QED BY <4>1, <4>2
    <3>2. CASE x = rest
      <4>1. y \in live
        BY <3>2, <2>3, <1>2, <1>4
      <4>2. base < y
        BY <4>1, <3>2, <2>3, <1>3, <1>4, <1>1
      <4>3. base + size[base] <= y
        BY <4>1, <4>2, <1>1 DEF HeapInv, Tiled
      <4> QED BY <4>3, <3>2, <1>13, <1>4
    <3>3. CASE x # base /\ x # rest
      <4>1. x \in live /\ size'[x] = size[x]
        BY <3>3, <1>2, <1>11 DEF Links
      <4>2. CASE y # rest
        BY <4>1, <4>2, <2>3, <1>2 DEF HeapInv, Tiled
      <4>3. CASE y = rest
        <5>1. x < base
          <6>1. base < x => base + size[base] <= x
            BY <4>1, <1>1 DEF HeapInv, Tiled
          <6>2. x < base + size[base]
            BY <4>1, <4>3, <2>3, <1>3, <1>4, <1>1
          <6> QED BY <6>1, <6>2, <4>1, <3>3, <1>3, <1>1
        <5>2. x + size[x] <= base
          BY <5>1, <4>1, <1>1 DEF HeapInv, Tiled
        <5>3. x \in Int /\ size[x] \in Int /\ base \in Int /\ rest \in Int /\ base < rest
          BY <4>1, <1>3, <1>4, <1>1
        <5> QED BY <5>2, <5>3, <4>1, <4>3
      <4> QED BY <4>2, <4>3
    <3> QED BY <3>1, <3>2, <3>3
  <2>4. ASSUME NEW x \in Links'
        PROVE  /\ next'[x] \in Links' /\ prev'[next'[x]] = x
               /\ prev'[x] \in Links' /\ next'[prev'[x]] = x
    <3>1. base \in Links /\ prev[after] = base
      BY <1>1 DEF Links, HeapInv, Tiled, after
    <3>2. next'[x] \in Links' /\ prev'[next'[x]] = x
      <4>1. CASE x = base \/ x = rest
        BY <4>1, <1>13, <1>10, <1>6
      <4>2. CASE x # base /\ x # rest
        <5>1. x \in Links /\ prev[next[x]] = x
          BY <4>2, <1>10 DEF HeapInv, Tiled, Links
        <5>2. next'[x] = next[x] /\ next[x] \in Links /\ next[x] # after
          BY <5>1, <4>2, <1>11
        <5>3. prev'[next[x]] = prev[next[x]]
          BY <5>2, <1>12
        <5> QED BY <5>1, <5>2, <5>3, <1>10
      <4> QED BY <4>1, <4>2
    <3>3. prev'[x] \in Links' /\ next'[prev'[x]] = x
      <4>1. CASE x = after \/ x = rest
        BY <4>1, <1>13, <1>10, <3>1
      <4>2. CASE x # after /\ x # rest
        <5>1. x \in Links /\ next[prev[x]] = x
          BY <4>2, <1>10 DEF HeapInv, Tiled, Links
        <5>2. prev'[x] = prev[x] /\ prev[x] \in Links /\ prev[x] # base
          BY <5>1, <4>2, <1>12
        <5>3. next'[prev[x]] = next[prev[x]]
          BY <5>2, <1>11
        <5> QED BY <5>1, <5>2, <5>3, <1>10
      <4> QED BY <4>1, <4>2
    <3> QED BY <3>2, <3>3
  <2> QED BY <2>1, <2>2, <2>3, <2>4 DEF Tiled, Links
<1>15. NoTwoFree'
  <2> SUFFICES ASSUME NEW x \in live', tag'[x] = "free" PROVE tag'[next'[x]] # "free"
    BY DEF NoTwoFree
  <2>1. x # base
    BY <1>1, <1>13
  <2>2. CASE x = rest
    BY <2>2, <1>13, <1>6, <1>11
  <2>3. CASE x # rest
    <3>1. x \in live /\ tag[x] = "free"
      BY <2>1, <2>3, <1>2, <1>11 DEF Links
    <3>2. tag[next[x]] # "free" /\ next'[x] = next[x] /\ next[x] \in Links
      BY <3>1, <2>1, <1>11 DEF HeapInv, NoTwoFree, Links
    <3>3. next[x] # base
      BY <3>2, <1>1
    <3> QED BY <3>2, <3>3, <1>11
  <2> QED BY <2>2, <2>3
<1>16. OwnersRight'
  <2>1. ASSUME NEW o \in Owners, owner'[o] # Null
        PROVE  owner'[o] \in live' /\ tag'[owner'[o]] # "free" /\ user'[owner'[o]] = o
    <3>1. CASE o = ask.user
      BY <3>1, <1>1, <1>2, <1>13
    <3>2. CASE o # ask.user
      <4>1. owner'[o] = owner[o] /\ owner[o] \in live /\ tag[owner[o]] # "free" /\ user[owner[o]] = o
        BY <3>2, <2>1, <1>2 DEF HeapInv, OwnersRight
      <4>2. owner[o] \in Links /\ owner[o] # base /\ owner[o] \in live'
        BY <4>1, <1>1, <1>2 DEF Links
      <4>3. tag'[owner[o]] = tag[owner[o]] /\ user'[owner[o]] = user[owner[o]]
        BY <4>2, <1>11
      <4> QED BY <4>1, <4>2, <4>3
    <3> QED BY <3>1, <3>2
  <2>2. ASSUME NEW x \in live', user'[x] # NoOwner
        PROVE  owner'[user'[x]] = x
    <3>1. x # rest /\ x \in live
      BY <1>13, <2>2, <1>2
    <3>2. CASE x = base
      BY <3>2, <1>1, <1>2, <1>13, <2>2
    <3>3. CASE x # base
      <4>1. user'[x] = user[x] /\ owner[user[x]] = x /\ user[x] \in Owners
        BY <3>1, <3>3, <1>11, <1>3, <2>2 DEF HeapInv, OwnersRight, HeaderTypes, Links
      <4>2. user[x] # ask.user
        BY <4>1, <3>1, <1>1, <1>3, <2>2 DEF Null
      <4> QED BY <4>1, <4>2, <1>2
    <3> QED BY <3>2, <3>3
  <2> QED BY <2>1, <2>2 DEF OwnersRight
<1> QED BY <1>9, <1>10, <1>14, <1>15, <1>16 DEF HeapInv

-----------------------------------------------------------------------------
(***************************************************************************)
(* The steps.                                                              *)
(***************************************************************************)

LEMMA ZoneStarts == Init => ZoneInv
<1> SUFFICES ASSUME Init PROVE ZoneInv
  OBVIOUS
<1> USE DEF Init
<1>1. 1 \in Ring /\ Head \in Ring /\ Head # 1 /\ End - 1 \in Int /\ End - 1 > 0
  BY RingTyped, ZoneAssumption DEF Head
<1>2. HeaderTypes
  BY <1>1, RingTyped, ZoneAssumption DEF HeaderTypes, Tags, Null
<1>3. HeadIsNoBlock /\ rover \in Links
  BY <1>1 DEF HeadIsNoBlock, Links
<1>4. Tiled
  <2>1. size[1] = End - 1 /\ next[1] = Head /\ next[Head] = 1 /\ prev[1] = Head /\ prev[Head] = 1
    BY <1>1
  <2> QED BY <2>1, <1>1, ZoneAssumption DEF Tiled
<1>5. NoTwoFree
  BY <1>1 DEF NoTwoFree
<1>6. OwnersRight
  BY <1>1 DEF OwnersRight
<1>7. SearchTypes /\ SearchSound /\ SweepSound
  BY <1>1 DEF SearchTypes, SearchSound, SweepSound, NoAsk, Tags
<1> QED BY <1>2, <1>3, <1>4, <1>5, <1>6, <1>7 DEF ZoneInv, HeapInv

\* A search begins at a block with nothing free before it, and behind it lies
\* one that is not free.
LEMMA BeginStep ==
  ASSUME ZoneInv, NEW n \in Sizes, NEW t \in Tags \ {"free"},
         NEW o \in Owners \cup {NoOwner}, Begin(n, t, o)
  PROVE  ZoneInv'
<1> DEFINE b == IF tag[prev[rover]] = "free" THEN prev[rover] ELSE rover
<1>1. /\ ask' = [size |-> n + Header, tag |-> t, user |-> o]
      /\ base' = b /\ scan' = b /\ start' = prev[b]
      /\ at' = "scan"
      /\ UNCHANGED <<headers, live, rover, owner, sweep>>
      /\ o # NoOwner => owner[o] = Null
  BY DEF Begin
<1>2. HeapInv'
  BY <1>1 DEF ZoneInv, HeapInv, HeaderTypes, HeadIsNoBlock, Tiled, NoTwoFree, OwnersRight, Links, headers
<1>3. /\ rover \in Links /\ \A x \in Links : prev[x] \in Links /\ next[prev[x]] = x
      /\ Links \subseteq Ring /\ tag[Head] = "static"
  BY RingTyped DEF ZoneInv, HeapInv, HeaderTypes, HeadIsNoBlock, Tiled, Links
<1>4. b \in Links /\ prev[b] \in Links /\ tag[prev[b]] # "free"
  <2>1. CASE tag[prev[rover]] = "free"
    <3>1. b = prev[rover] /\ b \in live
      BY <2>1, <1>3 DEF Links
    <3>2. tag[b] = "free" /\ prev[b] \in Links /\ next[prev[b]] = b
      BY <2>1, <3>1, <1>3
    <3>3. tag[prev[b]] = "free" => prev[b] \in live
      BY <3>2, <1>3 DEF Links
    <3> QED BY <3>1, <3>2, <3>3, <1>3 DEF ZoneInv, HeapInv, NoTwoFree
  <2>2. CASE tag[prev[rover]] # "free"
    BY <2>2, <1>3
  <2> QED BY <2>1, <2>2
<1> HIDE DEF b
<1>5. SearchTypes'
  <2>1. n + Header \in Int
    BY ZoneAssumption
  <2> QED BY <1>1, <1>3, <1>4, <2>1 DEF SearchTypes, ZoneInv
<1>6. SearchSound'
  <2>1. n + Header > 0
    BY ZoneAssumption
  <2>2. tag' = tag /\ prev' = prev /\ owner' = owner /\ Links' = Links
    BY <1>1 DEF headers, Links
  <2>3. ask'.size > 0 /\ ask'.user = o
    BY <1>1, <2>1
  <2>4. {base, scan, start}' \subseteq Links' /\ tag'[prev'[base']] # "free" /\ tag'[start'] # "free"
    BY <1>1, <1>4, <2>2
  <2>5. at' = "scan" /\ scan' = base' /\ (o # NoOwner => owner'[o] = Null)
    BY <1>1, <2>2
  <2> QED BY <2>3, <2>4, <2>5 DEF SearchSound
<1>7. SweepSound'
  BY <1>1 DEF SweepSound
<1> QED BY <1>2, <1>5, <1>6, <1>7 DEF ZoneInv

\* A purged block's room goes to base, where the search stays.
LEMMA PurgeAtBase ==
  ASSUME ZoneInv, at = "scan", PurgeBlock
  PROVE  /\ HeapInv'
         /\ live' \subseteq live
         /\ \A a \in Links : tag[a] # "free" /\ a # scan => a \in Links' /\ tag'[a] = tag[a]
         /\ base \in live' /\ tag'[base] = "free"
         /\ \A o \in Owners : owner[o] = Null => owner'[o] = Null
         /\ base' = base
         /\ scan \in live /\ FreeBlock(scan)
         /\ (IF tag[prev[scan]] = "free" THEN prev[scan] ELSE scan) = base
<1>1. /\ {base, scan} \subseteq Links /\ tag[prev[base]] # "free"
      /\ scan = base \/ (scan = next[base] /\ tag[base] = "free")
  BY DEF ZoneInv, SearchSound
<1>2. /\ \A x \in Links : /\ next[x] \in Links /\ prev[x] \in Links
                          /\ prev[next[x]] = x /\ next[prev[x]] = x
      /\ Links \subseteq Ring /\ tag[Head] = "static" /\ live \subseteq Links /\ HeapInv
  BY RingTyped DEF ZoneInv, HeapInv, HeaderTypes, HeadIsNoBlock, Tiled, Links
<1>3. /\ tag[scan] = "cache" /\ FreeBlock(scan)
      /\ base' = next'[prev[base]] /\ scan' = next'[base']
  BY DEF PurgeBlock
<1>4. scan \in live
  BY <1>3, <1>1, <1>2 DEF Links
<1>5. (IF tag[prev[scan]] = "free" THEN prev[scan] ELSE scan) = base
  BY <1>1, <1>2
<1>6. /\ HeapInv'
      /\ live' \subseteq live
      /\ \A a \in Links : tag[a] # "free" /\ a # scan => a \in Links' /\ tag'[a] = tag[a]
      /\ base \in live' /\ tag'[base] = "free" /\ \A x \in Links' : x # base => next'[x] = next[x]
      /\ \A o \in Owners : owner[o] = Null => owner'[o] = Null
  BY <1>3, <1>4, <1>5, <1>2, FreeBlockSound
<1>7. base \in live /\ base # Head
  BY <1>6, RingTyped DEF HeapInv, HeaderTypes
<1>8. prev[base] # base /\ prev[base] # scan
  <2>1. prev[base] \in live => prev[base] < base
    BY <1>4, <1>7, <1>2, Neighbours
  <2>2. Head \notin live
    BY RingTyped, <1>2 DEF HeapInv, HeaderTypes
  <2>3. prev[base] \in Links
    BY <1>1, <1>2
  <2>0. \A a \in live : a \in Int
    BY <1>2, Neighbours
  <2>4. prev[base] = Head \/ (prev[base] \in live /\ prev[base] \in Int)
    BY <2>0, <2>3 DEF Links
  <2>5. prev[base] # base
    <3>1. CASE prev[base] = Head
      BY <3>1, <1>7
    <3>2. CASE prev[base] \in live
      <4>1. prev[base] < base /\ prev[base] \in Int /\ base \in Int
        BY <2>0, <2>1, <3>2, <1>7
      <4> QED BY <4>1
    <3> QED BY <2>4, <3>1, <3>2
  <2>6. scan = next[base] => base < scan
    BY <1>4, <1>7, <1>2, Neighbours
  <2>7. prev[base] # scan
    <3>1. CASE scan = base
      BY <3>1, <2>5
    <3>2. CASE scan = next[base]
      <4>1. CASE prev[base] = Head
        BY <4>1, <2>2, <1>4
      <4>2. CASE prev[base] \in live
        <5>1. prev[base] < base /\ base < scan
          BY <2>1, <2>6, <3>2, <4>2
        <5>2. prev[base] \in Int /\ base \in Int /\ scan \in Int
          BY <2>0, <4>2, <1>4, <1>7
        <5> QED BY <5>1, <5>2
      <4> QED BY <2>4, <4>1, <4>2
    <3> QED BY <1>1, <3>1, <3>2
  <2> QED BY <2>5, <2>7
<1>9. base' = base
  BY <1>3, <1>6, <1>8, <1>1, <1>2
<1> QED BY <1>3, <1>4, <1>5, <1>6, <1>9

\* The search looks at the block at base, or at the one after it when base is
\* free: base never has anything free before it.
LEMMA ScanStep ==
  ASSUME ZoneInv, Scan
  PROVE  ZoneInv'
<1>1. /\ at = "scan" /\ scan # start
      /\ at' = IF Fits THEN "take" ELSE "scan"
      /\ UNCHANGED <<ask, start, sweep>>
  BY DEF Scan
<1>2. /\ ask.size > 0 /\ ask.size \in Int
      /\ {base, scan, start} \subseteq Links /\ tag[prev[base]] # "free"
      /\ ask.user # NoOwner => owner[ask.user] = Null
      /\ tag[start] # "free"
      /\ scan = base \/ (scan = next[base] /\ tag[base] = "free")
      /\ ask.user \in Owners \cup {NoOwner}
  BY <1>1 DEF ZoneInv, SearchSound, SearchTypes
<1>3. /\ \A x \in Links : /\ next[x] \in Links /\ prev[x] \in Links
                          /\ prev[next[x]] = x /\ next[prev[x]] = x
      /\ Links \subseteq Ring /\ tag[Head] = "static" /\ live \subseteq Links /\ HeapInv
  BY RingTyped DEF ZoneInv, HeapInv, HeaderTypes, HeadIsNoBlock, Tiled, Links
\* It is enough to know where base and scan go.
<1>4. SUFFICES /\ HeapInv'
               /\ {base, scan, start}' \subseteq Links' /\ tag'[prev'[base']] # "free"
               /\ ask.user # NoOwner => owner'[ask.user] = Null
               /\ tag'[start] # "free"
               /\ scan' = base' \/ (scan' = next'[base'] /\ tag'[base'] = "free")
  <2>1. HeapInv' /\ Fits => base' \in live' /\ tag'[base'] = "free" /\ size'[base'] >= ask.size
    BY <1>4 DEF Fits, Links, HeapInv, HeadIsNoBlock
  <2>2. SearchSound'
    BY <1>1, <1>2, <1>4, <2>1 DEF SearchSound
  <2>3. SearchTypes'
    <3>1. Links' \subseteq Ring
      BY <1>4, RingTyped DEF HeapInv, HeaderTypes, Links
    <3> QED BY <1>1, <1>4, <3>1 DEF SearchTypes, ZoneInv
  <2>4. SweepSound'
    BY <1>1 DEF SweepSound
  <2> QED BY <1>4, <2>2, <2>3, <2>4 DEF ZoneInv
<1>5. ASSUME UNCHANGED <<headers, live, rover, owner>>
      PROVE  HeapInv' /\ Links' = Links /\ UNCHANGED <<tag, prev, next, owner>>
  BY <1>5 DEF ZoneInv, HeapInv, HeaderTypes, HeadIsNoBlock, Tiled, NoTwoFree, OwnersRight, Links, headers
<1>6. CASE PassBlock
  <2>1. tag[scan] # "free" /\ base' = next[scan] /\ scan' = next[scan]
        /\ UNCHANGED <<headers, live, rover, owner>>
    BY <1>6 DEF PassBlock
  <2>2. next[scan] \in Links /\ prev[next[scan]] = scan
    BY <1>2, <1>3
  <2> QED BY <2>1, <2>2, <1>1, <1>2, <1>5
<1>7. CASE PassFree
  <2>1. tag[scan] = "free" /\ base' = base /\ scan' = next[scan]
        /\ UNCHANGED <<headers, live, rover, owner>>
    BY <1>7 DEF PassFree
  <2>2. scan = base
    <3>1. scan # Head
      BY <2>1, <1>3
    <3>2. tag[base] = "free" => base \in live /\ tag[next[base]] # "free"
      BY <1>2, <1>3 DEF Links, HeapInv, NoTwoFree
    <3> QED BY <2>1, <3>2, <1>2
  <2> QED BY <2>1, <2>2, <1>1, <1>2, <1>3, <1>5
<1>8. CASE PurgeBlock
  <2>1. scan' = next'[base']
    BY <1>8 DEF PurgeBlock
  <2>4. /\ HeapInv'
        /\ live' \subseteq live
        /\ \A a \in Links : tag[a] # "free" /\ a # scan => a \in Links' /\ tag'[a] = tag[a]
        /\ base \in live' /\ tag'[base] = "free"
        /\ \A o \in Owners : owner[o] = Null => owner'[o] = Null
    BY <1>1, <1>8, PurgeAtBase
  <2>7. base' = base
    BY <1>1, <1>8, PurgeAtBase
  <2>8. \A x \in Links' : next'[x] \in Links' /\ prev'[x] \in Links'
    BY <2>4 DEF HeapInv, Tiled, Links
  <2>9. tag'[prev'[base]] # "free"
    <3>1. prev'[base] \in Links' /\ next'[prev'[base]] = base
      BY <2>4 DEF HeapInv, Tiled, Links
    <3>2. prev'[base] = Head => tag'[prev'[base]] # "free"
      BY <2>4 DEF HeapInv, HeadIsNoBlock
    <3> QED BY <3>1, <3>2, <2>4 DEF HeapInv, NoTwoFree, Links
  <2>10. start \in Links' /\ tag'[start] # "free"
    BY <2>4, <1>1, <1>2
  <2>11. base \in Links' /\ scan' \in Links'
    BY <2>1, <2>4, <2>7, <2>8 DEF Links
  <2> QED BY <2>1, <2>4, <2>7, <2>9, <2>10, <2>11, <1>1, <1>2
<1> QED BY <1>6, <1>7, <1>8 DEF Scan

LEMMA TakeStep ==
  ASSUME ZoneInv, Take
  PROVE  ZoneInv'
<1>1. HeapInv'
  BY TakeWhole, TakeSplit
<1>2. at' = "idle" /\ ask' = NoAsk /\ base' = Head /\ scan' = Head /\ start' = Head
      /\ UNCHANGED sweep
  BY DEF Take
<1>3. SearchTypes' /\ SearchSound' /\ SweepSound'
  BY <1>2, RingTyped DEF SearchTypes, SearchSound, SweepSound, NoAsk, Tags, ZoneInv
<1> QED BY <1>1, <1>3 DEF ZoneInv

LEMMA FreeStep ==
  ASSUME ZoneInv, NEW b \in live, Free(b)
  PROVE  ZoneInv'
<1>1. at = "idle" /\ tag[b] # "free" /\ FreeBlock(b)
      /\ UNCHANGED <<at, ask, base, scan, start, sweep>>
  BY DEF Free
<1>2. HeapInv'
  BY <1>1, FreeBlockSound DEF ZoneInv
<1>3. SearchTypes' /\ SearchSound' /\ SweepSound'
  BY <1>1 DEF SearchTypes, SearchSound, SweepSound, ZoneInv
<1> QED BY <1>2, <1>3 DEF ZoneInv

LEMMA ChangeTagStep ==
  ASSUME ZoneInv, NEW b \in live, NEW t \in Tags \ {"free"}, ChangeTag(b, t)
  PROVE  ZoneInv'
<1>1. /\ at = "idle" /\ tag[b] # "free" /\ tag' = [tag EXCEPT ![b] = t]
      /\ UNCHANGED <<size, next, prev, user, live, rover, owner, at, ask, base, scan,
                      start, sweep>>
  BY DEF ChangeTag
<1>2. b \in Ring /\ b # Head /\ live \subseteq Ring /\ tag \in [Ring -> Tags]
  BY RingTyped DEF ZoneInv, HeapInv, HeaderTypes
<1>3. \A a \in Ring : tag'[a] = "free" <=> tag[a] = "free"
  BY <1>1, <1>2
<1>4. HeaderTypes'
  BY <1>1, <1>2 DEF ZoneInv, HeapInv, HeaderTypes
<1>5. HeadIsNoBlock' /\ rover' \in Links'
  BY <1>1, <1>2, RingTyped DEF ZoneInv, HeapInv, HeadIsNoBlock, Links
<1>6. Tiled'
  BY <1>1 DEF ZoneInv, HeapInv, Tiled
<1>7. NoTwoFree'
  <2>1. \A a \in live : next[a] \in Ring
    BY <1>2 DEF ZoneInv, HeapInv, HeaderTypes
  <2> QED BY <1>1, <1>2, <1>3, <2>1 DEF ZoneInv, HeapInv, NoTwoFree
<1>8. OwnersRight'
  BY <1>1, <1>2, <1>3 DEF ZoneInv, HeapInv, OwnersRight
<1>9. SearchTypes' /\ SearchSound' /\ SweepSound'
  BY <1>1 DEF SearchTypes, SearchSound, SweepSound, ZoneInv
<1> QED BY <1>4, <1>5, <1>6, <1>7, <1>8, <1>9 DEF ZoneInv, HeapInv

\* The link that is taken before its block is freed leads to a block, or to
\* what was one: its header still says it is free, and leads on to a block.
LEMMA SweepStep ==
  ASSUME ZoneInv, BeginSweep \/ SweepBlock \/ EndSweep \/ OutOfMemory
  PROVE  ZoneInv'
<1>1. ASSUME UNCHANGED <<headers, live, rover, owner>>
      PROVE  HeapInv' /\ Links' = Links /\ UNCHANGED <<tag, next>>
  BY <1>1 DEF ZoneInv, HeapInv, HeaderTypes, HeadIsNoBlock, Tiled, NoTwoFree, OwnersRight, Links, headers
<1>2. /\ \A x \in Links : next[x] \in Links
      /\ Links \subseteq Ring /\ Head \in Links
  BY RingTyped DEF ZoneInv, HeapInv, HeaderTypes, Tiled, Links
<1>3. CASE BeginSweep
  <2>1. /\ at' = "sweep" /\ sweep' = next[Head]
        /\ UNCHANGED <<headers, live, rover, owner, ask, base, scan, start>>
    BY <1>3 DEF BeginSweep
  <2>2. HeapInv' /\ Links' = Links
    BY <1>1, <2>1
  <2> QED BY <1>2, <2>1, <2>2 DEF ZoneInv, SearchTypes, SearchSound, SweepSound
<1>4. CASE EndSweep \/ OutOfMemory
  <2>1. /\ at' \in {"idle", "panic"}
        /\ UNCHANGED <<headers, live, rover, owner, ask, base, scan, start, sweep>>
    BY <1>4 DEF EndSweep, OutOfMemory
  <2>2. HeapInv'
    BY <1>1, <2>1
  <2> QED BY <2>1, <2>2 DEF ZoneInv, SearchTypes, SearchSound, SweepSound
<1>5. CASE SweepBlock
  <2>1. at = "sweep" /\ sweep # Head /\ sweep' = next[sweep]
        /\ UNCHANGED <<at, ask, base, scan, start>>
    BY <1>5 DEF SweepBlock
  <2>2. sweep \in Links \/ (sweep \in Addr /\ tag[sweep] = "free" /\ next[sweep] \in Links)
    BY <2>1 DEF ZoneInv, SweepSound
  <2>3. CASE tag[sweep] = "level"
    <3>1. sweep \in live /\ FreeBlock(sweep)
      BY <2>1, <2>2, <2>3, <1>5 DEF SweepBlock, Links
    <3>2. /\ HeapInv'
          /\ \/ next[sweep] \in Links'
             \/ next[sweep] \in Addr /\ tag'[next[sweep]] = "free" /\ next'[next[sweep]] \in Links'
      BY <3>1, <2>3, FreeBlockSound DEF ZoneInv
    <3>3. next[sweep] \in Ring
      BY <3>1, <1>2 DEF Links
    <3> QED BY <3>2, <3>3, <2>1 DEF ZoneInv, SearchTypes, SearchSound, SweepSound
  <2>4. CASE tag[sweep] # "level"
    <3>1. UNCHANGED <<headers, live, rover, owner>>
      BY <2>4, <1>5 DEF SweepBlock
    <3>2. HeapInv' /\ Links' = Links
      BY <1>1, <3>1
    <3>3. next[sweep] \in Links
      BY <2>2, <1>2
    <3> QED BY <1>2, <2>1, <3>2, <3>3 DEF ZoneInv, SearchTypes, SearchSound, SweepSound
  <2> QED BY <2>3, <2>4
<1> QED BY <1>3, <1>4, <1>5

LEMMA ZoneSteps == ZoneInv /\ [Next]_vars => ZoneInv'
<1> SUFFICES ASSUME ZoneInv, [Next]_vars PROVE ZoneInv'
  OBVIOUS
<1>1. CASE Next
  <2>1. CASE Busy
    BY <2>1, ScanStep, TakeStep, SweepStep DEF Busy
  <2>2. CASE BeginSweep
    BY <2>2, SweepStep
  <2>3. ASSUME NEW n \in Sizes, NEW t \in Tags \ {"free"}, NEW o \in Owners \cup {NoOwner},
               Begin(n, t, o)
        PROVE  ZoneInv'
    BY <2>3, BeginStep
  <2>4. ASSUME NEW b \in live, Free(b) \/ \E t \in Tags \ {"free"} : ChangeTag(b, t)
        PROVE  ZoneInv'
    BY <2>4, FreeStep, ChangeTagStep
  <2> QED BY <1>1, <2>1, <2>2, <2>3, <2>4 DEF Next
<1>2. CASE UNCHANGED vars
  BY <1>2 DEF vars, ZoneInv, HeapInv, HeaderTypes, HeadIsNoBlock, Tiled, NoTwoFree,
    OwnersRight, Links, SearchTypes, SearchSound, SweepSound
<1> QED BY <1>1, <1>2

-----------------------------------------------------------------------------
(***************************************************************************)
(* How far a search and a sweep have come.                                 *)
(***************************************************************************)

\* How far x is on the way round the list from the block after s to s itself.
Along(s, x) == IF x > s THEN x ELSE x + End

\* What a search has left behind would not have done: Z_Malloc has passed it, and
\* purged all that it could.
PassedUseless ==
  at = "scan" =>
    \A b \in live : Along(start, b) < Along(start, scan) =>
      tag[b] # "cache" /\ (tag[b] = "free" => size[b] < ask.size)

\* What is left of the level is not behind the sweep, nor is it in what has been
\* merged into the block behind, if that is where the sweep stands.
RestAhead ==
  at = "sweep" =>
    \A b \in live : tag[b] = "level" =>
      /\ sweep # Head /\ sweep <= b
      /\ sweep \notin live => next[sweep] # Head /\ next[sweep] <= b

ProgressInv == ZoneInv /\ PassedUseless /\ PanicHonest /\ RestAhead

\* Blocks that tile the zone, whatever else is true of them.
Laid(blocks, sz, nx) ==
  /\ blocks \subseteq Addr /\ nx[Head] = 1
  /\ \A b \in blocks :
       /\ sz[b] \in Int /\ sz[b] > 0 /\ nx[b] \in blocks \cup {Head}
       /\ b + sz[b] = IF nx[b] = Head THEN End ELSE nx[b]
       /\ \A c \in blocks : b < c => b + sz[b] <= c

\* Following a link passes over nothing.
LEMMA NothingBetween ==
  ASSUME NEW blocks, NEW sz, NEW nx, Laid(blocks, sz, nx), NEW x \in blocks \cup {Head}
  PROVE  \E e \in Int : /\ x < e /\ e <= End /\ nx[x] = (IF e = End THEN Head ELSE e)
                        /\ \A y \in blocks : x < y => e <= y
<1>1. \A y \in blocks : y \in Int /\ 1 <= y /\ y < End
  BY ZoneAssumption DEF Laid, Addr
<1>2. CASE x = Head
  <2>1. nx[x] = 1 /\ Head < 1 /\ 1 <= End /\ 1 # End /\ 1 \in Int
    BY <1>2, ZoneAssumption DEF Laid, Head
  <2> QED BY <1>1, <1>2, <2>1
<1>3. CASE x \in blocks
  <2> DEFINE e == x + sz[x]
  <2>1. /\ e \in Int /\ x < e /\ e = (IF nx[x] = Head THEN End ELSE nx[x])
        /\ nx[x] \in blocks \cup {Head}
        /\ \A y \in blocks : x < y => e <= y
    BY <1>1, <1>3 DEF Laid
  <2>2. e <= End /\ nx[x] = (IF e = End THEN Head ELSE e)
    <3>1. CASE nx[x] = Head
      BY <2>1, <3>1, ZoneAssumption
    <3>2. CASE nx[x] # Head
      <4>1. nx[x] \in blocks /\ e = nx[x]
        BY <2>1, <3>2
      <4>2. e < End /\ e \in Int /\ End \in Int
        BY <1>1, <4>1, ZoneAssumption
      <4>3. e <= End /\ e # End
        BY <4>2
      <4> QED BY <3>2, <4>1, <4>3
    <3> QED BY <3>1, <3>2
  <2> HIDE DEF e
  <2> QED BY <2>1, <2>2
<1> QED BY <1>2, <1>3

\* On the way round from s every link leads on, over no block.
LEMMA Round ==
  ASSUME NEW blocks, NEW sz, NEW nx, Laid(blocks, sz, nx),
         NEW s \in blocks \cup {Head}, NEW x \in blocks \cup {Head}, NEW y \in blocks
  PROVE  /\ x # s => Along(s, x) < Along(s, nx[x])
         /\ Along(s, y) < Along(s, nx[x]) => x # s /\ (y = x \/ Along(s, y) < Along(s, x))
         /\ y # s => Along(s, y) < Along(s, s)
<1>1. /\ End \in Int
      /\ \A b \in blocks : b \in Int /\ 1 <= b /\ b < End
  BY ZoneAssumption DEF Laid, Addr
<1>2. PICK e \in Int : /\ x < e /\ e <= End /\ nx[x] = (IF e = End THEN 0 ELSE e)
                       /\ \A b \in blocks : x < b => e <= b
  BY NothingBetween DEF Head
<1>3. /\ x \in Int /\ 0 <= x /\ x < End /\ s \in Int /\ 0 <= s /\ s < End
      /\ y \in Int /\ 1 <= y /\ y < End
      /\ x < y => e <= y
      /\ x < s => e <= s
  <2>1. s = 0 \/ s \in blocks
    BY DEF Head
  <2>2. x = 0 \/ x \in blocks
    BY DEF Head
  <2>3. End > 1
    BY ZoneAssumption
  <2>4. 0 <= x
    BY <1>1, <2>2
  <2>5. x < s => s \in blocks
    BY <1>1, <2>1, <2>2, <2>4
  <2> QED BY <1>1, <1>2, <2>1, <2>2, <2>3, <2>5
<1>4. \/ nx[x] = 0 /\ e = End
      \/ nx[x] = e /\ e < End
  <2>1. nx[x] = IF e = End THEN 0 ELSE e
    BY <1>2
  <2>2. e = End \/ (e # End /\ e < End)
    BY <1>1, <1>2
  <2> QED BY <2>1, <2>2
<1>5. x # s => Along(s, x) < Along(s, nx[x])
  BY <1>1, <1>2, <1>3, <1>4 DEF Along
<1>6. Along(s, y) < Along(s, nx[x]) => x # s
  BY <1>1, <1>2, <1>3, <1>4 DEF Along
<1>7. Along(s, y) < Along(s, nx[x]) => y = x \/ Along(s, y) < Along(s, x)
  BY <1>1, <1>2, <1>3, <1>4 DEF Along
<1>8. y # s => Along(s, y) < Along(s, s)
  BY <1>1, <1>3 DEF Along
<1> QED BY <1>5, <1>6, <1>7, <1>8

LEMMA HeapLaid == HeapInv => Laid(live, size, next)
BY RingTyped DEF HeapInv, HeaderTypes, Tiled, Laid

LEMMA HeapLaidNext == HeapInv' => Laid(live', size', next')
BY RingTyped DEF HeapInv, HeaderTypes, Tiled, Laid

\* A search that begins has left nothing behind.
LEMMA BeginProgress ==
  ASSUME ProgressInv, NEW n \in Sizes, NEW t \in Tags \ {"free"},
         NEW o \in Owners \cup {NoOwner}, Begin(n, t, o)
  PROVE  ProgressInv'
<1>1. ZoneInv'
  BY BeginStep DEF ProgressInv
<1>2. /\ scan' \in Links' /\ start' = prev'[scan'] /\ at' = "scan" /\ live' = live
      /\ HeapInv'
  BY <1>1 DEF Begin, ZoneInv, SearchSound, headers
<1>3. next'[start'] = scan' /\ start' \in Links'
  BY <1>2 DEF HeapInv, Tiled, Links
<1>4. \A b \in live' : ~ (Along(start', b) < Along(start', scan'))
  BY <1>2, <1>3, HeapLaidNext, Round DEF Links
<1>5. PassedUseless'
  BY <1>4 DEF PassedUseless, Along
<1>6. PanicHonest' /\ RestAhead'
  BY <1>2 DEF PanicHonest, RestAhead
<1> QED BY <1>1, <1>5, <1>6 DEF ProgressInv

\* A step of the search leaves behind what it has looked at: a block that is in
\* use, or a free one that is not large enough, what was purged included.
LEMMA ScanProgress ==
  ASSUME ProgressInv, Scan
  PROVE  ProgressInv'
<1>1. /\ ZoneInv /\ PassedUseless /\ ZoneInv'
  BY ScanStep DEF ProgressInv
<1>2. /\ at = "scan" /\ scan # start
      /\ at' = IF Fits THEN "take" ELSE "scan"
      /\ ask' = ask /\ start' = start
  BY DEF Scan
<1>3. PanicHonest' /\ RestAhead'
  BY <1>2 DEF PanicHonest, RestAhead
<1>4. /\ HeapInv /\ HeapInv' /\ {base, scan, start} \subseteq Links
      /\ scan = base \/ (scan = next[base] /\ tag[base] = "free")
      /\ tag[start] # "free" /\ tag[Head] = "static"
  BY <1>1, <1>2 DEF ZoneInv, SearchSound, HeapInv, HeadIsNoBlock
<1>5. ASSUME ~ Fits, NEW b \in live', Along(start, b) < Along(start, scan')
      PROVE  tag'[b] # "cache" /\ (tag'[b] = "free" => size'[b] < ask.size)
  <2>1. CASE PassBlock
    <3>1. tag[scan] \in {"static", "level"} /\ scan' = next[scan] /\ UNCHANGED <<tag, size, live>>
      BY <2>1 DEF PassBlock, headers
    <3>2. b = scan \/ Along(start, b) < Along(start, scan)
      BY <1>4, <1>5, <3>1, HeapLaid, Round DEF Links
    <3> QED BY <1>1, <1>2, <3>1, <3>2 DEF PassedUseless
  <2>2. CASE PassFree
    <3>1. /\ tag[scan] = "free" /\ scan' = next[scan] /\ base' = base
          /\ UNCHANGED <<tag, size, live>>
      BY <2>2 DEF PassFree, headers
    <3>2. b = scan \/ Along(start, b) < Along(start, scan)
      BY <1>4, <1>5, <3>1, HeapLaid, Round DEF Links
    <3>3. scan = base
      <4>1. tag[base] = "free" => base \in live /\ tag[next[base]] # "free"
        BY <1>4 DEF Links, HeapInv, NoTwoFree
      <4> QED BY <1>4, <3>1, <4>1
    <3>4. ~ (size[scan] >= ask.size)
      BY <1>5, <3>1, <3>3 DEF Fits
    <3>5. scan \in live /\ size[scan] \in Int /\ ask.size \in Int
      <4>1. scan \in live
        BY <1>4, <3>1 DEF Links
      <4> QED BY <1>1, <1>4, <4>1, Neighbours DEF ZoneInv, SearchTypes
    <3>6. size[scan] < ask.size
      BY <3>4, <3>5
    <3> QED BY <1>1, <1>2, <3>1, <3>2, <3>6 DEF PassedUseless
  <2>3. CASE PurgeBlock
    <3>1. /\ base \in live' /\ tag'[base] = "free" /\ base' = base /\ live' \subseteq live
          /\ scan \in live /\ FreeBlock(scan)
          /\ (IF tag[prev[scan]] = "free" THEN prev[scan] ELSE scan) = base
          /\ tag[start] # "free" /\ start # scan => start \in Links' /\ tag'[start] = tag[start]
      BY <1>1, <1>2, <1>4, <2>3, PurgeAtBase
    <3>2. start \in Links' /\ start # base /\ scan' = next'[base]
      BY <1>2, <1>4, <2>3, <3>1 DEF PurgeBlock
    <3>3. b = base \/ Along(start, b) < Along(start, base)
      BY <1>4, <1>5, <3>1, <3>2, HeapLaidNext, Round DEF Links
    <3>4. CASE b = base
      <4>1. ~ (size'[base] >= ask.size)
        BY <1>5, <3>1 DEF Fits
      <4>2. size'[base] \in Int /\ ask.size \in Int
        <5>1. base \in Ring
          BY <1>4, <3>1, RingTyped DEF HeapInv, HeaderTypes
        <5> QED BY <1>1, <1>4, <5>1 DEF HeapInv, HeaderTypes, ZoneInv, SearchTypes
      <4> QED BY <3>1, <3>4, <4>1, <4>2
    <3>5. CASE b # base
      <4>1. Along(start, b) < Along(start, base)
        BY <3>3, <3>5
      <4>2. b \in live /\ base \in live
        BY <3>1
      <4>3. scan = base \/ Along(start, base) < Along(start, scan)
        BY <1>4, <3>2, <4>2, HeapLaid, Round DEF Links
      <4>4. Along(start, b) \in Int /\ Along(start, base) \in Int /\ Along(start, scan) \in Int
        <5>1. b \in Int /\ base \in Int /\ scan \in Int /\ End \in Int
          BY <1>4, <3>1, <4>2, Neighbours, ZoneAssumption
        <5> QED BY <5>1 DEF Along
      <4>5. Along(start, b) < Along(start, scan) /\ b # scan
        BY <4>1, <4>3, <4>4
      <4>6. tag[b] # "cache" /\ (tag[b] = "free" => size[b] < ask.size)
        BY <1>1, <1>2, <4>2, <4>5 DEF PassedUseless
      <4>7. tag'[b] = tag[b] /\ size'[b] = size[b]
        <5>1. b \in Ring /\ tag \in [Ring -> Tags] /\ size \in [Ring -> Int]
          BY <1>4, <4>2, RingTyped DEF HeapInv, HeaderTypes
        <5>2. tag' = [tag EXCEPT ![scan] = "free"]
          BY <3>1 DEF FreeBlock
        <5>3. \E v : size' = [size EXCEPT ![base] = v]
          BY <3>1 DEF FreeBlock
        <5> QED BY <3>5, <4>5, <5>1, <5>2, <5>3
      <4> QED BY <4>6, <4>7
    <3> QED BY <3>4, <3>5
  <2> QED BY <2>1, <2>2, <2>3 DEF Scan
<1>6. PassedUseless'
  BY <1>2, <1>5 DEF PassedUseless, Along
<1> QED BY <1>1, <1>3, <1>6 DEF ProgressInv

\* Z_Malloc gives up when it is back at the block it started behind.
LEMMA PanicProgress ==
  ASSUME ProgressInv, OutOfMemory
  PROVE  ProgressInv'
<1>1. ZoneInv' /\ ZoneInv /\ PassedUseless
  BY SweepStep DEF ProgressInv
<1>2. /\ at = "scan" /\ scan = start /\ at' = "panic"
      /\ UNCHANGED <<size, tag, live, ask, start>>
  BY DEF OutOfMemory, headers
<1>3. HeapInv /\ start \in Links /\ tag[start] # "free"
  BY <1>1, <1>2 DEF ZoneInv, SearchSound
<1>4. ASSUME NEW b \in live
      PROVE  /\ tag[b] = "free" => size[b] < ask.size
             /\ tag[b] = "cache" => b = start
  <2>1. b # start => Along(start, b) < Along(start, scan)
    BY <1>2, <1>3, HeapLaid, Round DEF Links
  <2> QED BY <1>1, <1>2, <1>3, <2>1 DEF PassedUseless
<1>5. PanicHonest'
  BY <1>2, <1>4 DEF PanicHonest
<1>6. PassedUseless' /\ RestAhead'
  BY <1>2 DEF PassedUseless, RestAhead
<1> QED BY <1>1, <1>5, <1>6 DEF ProgressInv

\* A step of the sweep leaves nothing of the level behind.
LEMMA SweepProgress ==
  ASSUME ProgressInv, SweepBlock
  PROVE  ProgressInv'
<1>1. ZoneInv /\ RestAhead /\ ZoneInv'
  BY SweepStep DEF ProgressInv
<1>2. at = "sweep" /\ at' = "sweep" /\ sweep # Head /\ sweep' = next[sweep]
  BY DEF SweepBlock
<1>3. PassedUseless' /\ PanicHonest'
  BY <1>2 DEF PassedUseless, PanicHonest
<1>4. HeapInv /\ HeapInv' /\ Head \notin live /\ \A b \in live : b \in Int /\ b > 0
  <2>1. HeapInv /\ HeapInv'
    BY <1>1 DEF ZoneInv
  <2> QED BY <2>1, Neighbours, RingTyped DEF HeapInv, HeaderTypes
\* What follows a block is where its link leads, or further on.
<1>5. ASSUME NEW x \in live, NEW b \in live, x < b
      PROVE  next[x] # Head /\ next[x] \in live /\ next[x] <= b
  <2>1. PICK e \in Int : /\ x < e /\ e <= End /\ next[x] = (IF e = End THEN Head ELSE e)
                         /\ \A y \in live : x < y => e <= y
    BY <1>4, HeapLaid, NothingBetween
  <2>2. b < End /\ End \in Int /\ b \in Int /\ x \in Int /\ x > 0
    BY <1>4, ZoneAssumption DEF HeapInv, HeaderTypes, Addr
  <2>3. e <= b
    BY <1>5, <2>1
  <2>4. next[x] = e /\ e > 0
    BY <2>1, <2>2, <2>3
  <2>5. next[x] \in Links
    BY <1>4, Neighbours
  <2> QED BY <2>3, <2>4, <2>5 DEF Links, Head
<1>6. CASE tag[sweep] = "level"
  <2>1. FreeBlock(sweep)
    BY <1>6 DEF SweepBlock
  <2>2. sweep \in live
    BY <1>1, <1>2, <1>6 DEF ZoneInv, SweepSound, Links
  <2>3. tag' = [tag EXCEPT ![sweep] = "free"] /\ live' \subseteq live
    BY <2>1 DEF FreeBlock
  <2>4. ASSUME NEW b \in live', tag'[b] = "level"
        PROVE  b \in live /\ tag[b] = "level" /\ b # sweep /\ sweep < b
    <3>1. b \in live /\ b \in Ring /\ sweep \in Ring /\ tag \in [Ring -> Tags]
      BY <1>4, <2>2, <2>3, RingTyped DEF HeapInv, HeaderTypes
    <3>2. b # sweep /\ tag[b] = "level"
      BY <2>3, <2>4, <3>1
    <3>3. sweep <= b
      BY <1>1, <1>2, <3>1, <3>2 DEF RestAhead
    <3> QED BY <1>4, <2>2, <3>1, <3>2, <3>3
  <2>5. ASSUME NEW b \in live', tag'[b] = "level"
        PROVE  /\ next[sweep] # Head /\ next[sweep] <= b
               /\ next[sweep] \notin live' =>
                    next'[next[sweep]] # Head /\ next'[next[sweep]] <= b
    <3>1. b \in live /\ sweep < b
      BY <2>4, <2>5
    <3>2. next[sweep] # Head /\ next[sweep] \in live /\ next[sweep] <= b
      BY <1>5, <2>2, <3>1
    <3>3. ASSUME next[sweep] \notin live'
          PROVE  next'[next[sweep]] # Head /\ next'[next[sweep]] <= b
      <4>1. next[sweep] < b
        BY <1>4, <2>5, <3>1, <3>2, <3>3
      <4>2. next[next[sweep]] # Head /\ next[next[sweep]] <= b
        BY <1>5, <3>1, <3>2, <4>1
      <4>3. next'[next[sweep]] = next[next[sweep]]
        <5> DEFINE c == IF tag[prev[sweep]] = "free" THEN prev[sweep] ELSE sweep
        <5>1. c \in live'
          BY <1>4, <1>6, <2>1, <2>2, FreeBlockSound
        <5>2. \E v : next' = [next EXCEPT ![c] = v]
          BY <2>1 DEF FreeBlock
        <5>3. next[sweep] # c
          BY <3>3, <5>1
        <5>4. next[sweep] \in Ring /\ next \in [Ring -> Ring]
          BY <1>4, <3>2, RingTyped DEF HeapInv, HeaderTypes
        <5> HIDE DEF c
        <5> QED BY <5>2, <5>3, <5>4
      <4> QED BY <4>2, <4>3
    <3> QED BY <3>2, <3>3
  <2>6. RestAhead'
    BY <1>2, <2>5 DEF RestAhead
  <2> QED BY <1>1, <1>3, <2>6 DEF ProgressInv
<1>7. CASE tag[sweep] # "level"
  <2>1. UNCHANGED <<tag, next, live>>
    BY <1>7 DEF SweepBlock, headers
  <2>2. ASSUME NEW b \in live, tag[b] = "level"
        PROVE  /\ next[sweep] # Head /\ next[sweep] <= b /\ next[sweep] \in live
    <3>1. sweep <= b /\ (sweep \notin live => next[sweep] # Head /\ next[sweep] <= b)
      BY <1>1, <1>2, <2>2 DEF RestAhead
    <3>2. CASE sweep \in live
      <4>1. sweep < b
        BY <1>4, <1>7, <2>2, <3>1, <3>2
      <4> QED BY <1>5, <2>2, <3>2, <4>1
    <3>3. CASE sweep \notin live
      <4>1. next[sweep] \in Links
        BY <1>1, <1>2, <3>3 DEF ZoneInv, SweepSound, Links
      <4> QED BY <3>1, <3>3, <4>1 DEF Links
    <3> QED BY <3>2, <3>3
  <2>3. RestAhead'
    BY <1>2, <2>1, <2>2 DEF RestAhead
  <2> QED BY <1>1, <1>3, <2>3 DEF ProgressInv
<1> QED BY <1>6, <1>7

\* A sweep begins with the first block of the zone.
LEMMA BeginSweepProgress ==
  ASSUME ProgressInv, BeginSweep
  PROVE  ProgressInv'
<1>1. ZoneInv /\ ZoneInv'
  BY SweepStep DEF ProgressInv
<1>2. at' = "sweep" /\ sweep' = next[Head] /\ UNCHANGED <<tag, live, next>>
  BY DEF BeginSweep, headers
<1>3. sweep' = 1 /\ 1 \in live /\ Head # 1 /\ \A b \in live : b \in Int /\ 1 <= b
  <2>1. next[Head] = 1 /\ 1 \in live /\ live \subseteq Addr
    BY <1>1 DEF ZoneInv, HeapInv, HeaderTypes, Tiled
  <2> QED BY <1>2, <2>1, ZoneAssumption DEF Addr, Head
<1>4. RestAhead'
  BY <1>2, <1>3 DEF RestAhead
<1>5. PassedUseless' /\ PanicHonest'
  BY <1>2 DEF PassedUseless, PanicHonest
<1> QED BY <1>1, <1>4, <1>5 DEF ProgressInv

LEMMA ProgressSteps == ProgressInv /\ [Next]_vars => ProgressInv'
<1> SUFFICES ASSUME ProgressInv, [Next]_vars PROVE ProgressInv'
  OBVIOUS
<1>1. ZoneInv'
  BY ZoneSteps DEF ProgressInv
<1>2. CASE Scan
  BY <1>2, ScanProgress
<1>3. CASE OutOfMemory
  BY <1>3, PanicProgress
<1>4. CASE SweepBlock
  BY <1>4, SweepProgress
<1>5. CASE BeginSweep
  BY <1>5, BeginSweepProgress
<1>6. ASSUME NEW n \in Sizes, NEW t \in Tags \ {"free"}, NEW o \in Owners \cup {NoOwner},
             Begin(n, t, o)
      PROVE  ProgressInv'
  BY <1>6, BeginProgress
\* Everything else is done when neither is under way, and ends there.
<1>7. CASE at' = "idle"
  BY <1>1, <1>7 DEF ProgressInv, PassedUseless, PanicHonest, RestAhead
<1>8. Take \/ EndSweep => at' = "idle"
  BY DEF Take, EndSweep
<1>9. \A b \in live : Free(b) \/ (\E t \in Tags \ {"free"} : ChangeTag(b, t)) => at' = "idle"
  BY DEF Free, ChangeTag
<1>10. CASE UNCHANGED vars
  BY <1>1, <1>10 DEF vars, headers, ProgressInv, PassedUseless, Along, PanicHonest, RestAhead
<1> QED BY <1>2, <1>3, <1>4, <1>5, <1>6, <1>7, <1>8, <1>9, <1>10 DEF Next, Busy

-----------------------------------------------------------------------------
(***************************************************************************)
(* The theorems.                                                           *)
(***************************************************************************)

LEMMA ZoneInvariant == Spec => []ZoneInv
BY ZoneStarts, ZoneSteps, PTL DEF Spec

\* Whatever is allocated, freed, purged or swept, the blocks tile the zone, no
\* two free ones are neighbours, and neither the rover nor a search stands on
\* a header that is no block's (Z_Malloc, Z_Free, Z_FreeTags).
THEOREM HeapStaysSound == Spec => []HeapSound
<1>1. ZoneInv => HeapSound
  BY DEF ZoneInv, HeapInv, HeapSound, RoverLive, SearchSound, Links
<1> QED BY <1>1, ZoneInvariant, PTL

\* An owner's pointer and its block agree, across purging, merging and splits.
THEOREM OwnersStayRight == Spec => []OwnersRight
<1>1. ZoneInv => OwnersRight
  BY DEF ZoneInv, HeapInv
<1> QED BY <1>1, ZoneInvariant, PTL

LEMMA ProgressInvariant == Spec => []ProgressInv
<1>1. Init => ProgressInv
  <2>1. Init => PassedUseless /\ PanicHonest /\ RestAhead
    BY DEF Init, PassedUseless, PanicHonest, RestAhead
  <2> QED BY <2>1, ZoneStarts DEF ProgressInv
<1> QED BY <1>1, ProgressSteps, PTL DEF Spec

\* Z_Malloc only panics when it has to: no free block is large enough, and but
\* for the one it started behind no block was left that could be purged.
THEOREM PanicStaysHonest == Spec => []PanicHonest
<1>1. ProgressInv => PanicHonest
  BY DEF ProgressInv
<1> QED BY <1>1, ProgressInvariant, PTL

\* Z_FreeTags misses nothing of the level, though it follows links it took
\* before blocks were merged.
THEOREM SweepsClean == Spec => []SweptClean
<1>1. ProgressInv => SweptClean
  BY DEF ProgressInv, RestAhead, SweptClean
<1> QED BY <1>1, ProgressInvariant, PTL


-----------------------------------------------------------------------------
(***************************************************************************)
(* How much is left to do: what RequestsEnd rests on, but for fairness.    *)
(***************************************************************************)

\* Links lead forward, also the one of a block that has just been merged.
SweepForward == at = "sweep" /\ sweep # Head => next[sweep] = Head \/ sweep < next[sweep]

\* The steps that a request or a sweep may still take, at most.
WorkLeft == CASE at = "scan"  -> 2 + (start + End - Along(start, scan))
              [] at = "take"  -> 1
              [] at = "sweep" -> IF sweep = Head THEN 1 ELSE 1 + End - sweep
              [] OTHER        -> 0

\* Where the addresses of the zone lie.
LEMMA InZone ==
  ASSUME ZoneInv
  PROVE  /\ End \in Int /\ End > 1
         /\ \A x \in Ring : x \in Int /\ 0 <= x /\ x < End /\ (x # Head => 0 < x)
         /\ {base, scan, start, sweep} \subseteq Ring
  BY ZoneAssumption DEF Ring, Addr, Head, ZoneInv, SearchTypes

\* The link of a block leads on, or to the end.
LEMMA LinksForward ==
  ASSUME HeapInv, NEW x \in live
  PROVE  next[x] = Head \/ x < next[x]
<1>1. PICK e \in Int : x < e /\ next[x] = (IF e = End THEN Head ELSE e)
  BY HeapLaid, NothingBetween
<1> QED BY <1>1

LEMMA WorkBounded ==
  ASSUME ZoneInv
  PROVE  WorkLeft \in 0 .. End + 1 /\ (WorkLeft = 0 <=> at \in {"idle", "panic"})
<1>1. CASE at = "scan"
  <2>1. /\ start \in Int /\ 0 <= start /\ start < End
        /\ scan \in Int /\ 0 <= scan /\ scan < End /\ End \in Int
    BY InZone
  <2>2. start + End - Along(start, scan) \in 0 .. End - 1
    BY <2>1 DEF Along
  <2>3. WorkLeft = 2 + (start + End - Along(start, scan))
    BY <1>1 DEF WorkLeft
  <2> QED BY <1>1, <2>1, <2>2, <2>3
<1>2. CASE at = "sweep"
  BY <1>2, InZone DEF WorkLeft
<1>3. CASE at \in {"idle", "take", "panic"}
  BY <1>3, InZone DEF WorkLeft
<1> QED BY <1>1, <1>2, <1>3 DEF ZoneInv, SearchTypes

LEMMA ScanWork ==
  ASSUME ZoneInv, Scan
  PROVE  WorkLeft' < WorkLeft
<1>1. ZoneInv'
  BY ScanStep
<1>2. at = "scan" /\ scan # start /\ at' \in {"scan", "take"} /\ start' = start
  BY DEF Scan
<1>3. /\ HeapInv /\ {base, scan, start} \subseteq Links
      /\ scan = base \/ (scan = next[base] /\ tag[base] = "free")
      /\ tag[start] # "free"
  BY <1>2 DEF ZoneInv, SearchSound
<1>4. /\ \A x \in Links : next[x] \in Links
      /\ Head \notin live /\ live \subseteq Ring
  BY <1>3, RingTyped DEF HeapInv, HeaderTypes, Tiled, Links
<1>5. Along(start, scan) < Along(start, next[scan])
  BY <1>2, <1>3, HeapLaid, Round DEF Links
<1>6. Along(start, scan) < Along(start, scan')
  <2>1. CASE PassBlock \/ PassFree
    BY <1>5, <2>1 DEF PassBlock, PassFree
  <2>2. CASE PurgeBlock
    <3> DEFINE n == next[scan]
    <3>1. /\ FreeBlock(scan) /\ base' = base /\ scan' = next'[base]
          /\ (IF tag[prev[scan]] = "free" THEN prev[scan] ELSE scan) = base
      BY <1>2, <2>2, PurgeAtBase DEF PurgeBlock
    <3>2. base \in Ring /\ next \in [Ring -> Ring]
      BY <1>3, RingTyped DEF HeapInv, HeaderTypes, Links
    <3>3. scan' = IF tag[n] = "free" THEN next[n] ELSE n
      BY <3>1, <3>2 DEF FreeBlock
    <3>4. CASE tag[n] = "free"
      <4>1. n \in Links /\ n # start
        BY <1>3, <1>4, <3>4
      <4>2. Along(start, n) < Along(start, next[n])
        BY <1>3, <4>1, HeapLaid, Round DEF Links
      <4>3. \A x \in Ring : Along(start, x) \in Int
        BY InZone DEF Along
      <4>4. {scan, n, next[n]} \subseteq Ring
        BY <1>3, <1>4, <4>1, RingTyped DEF Links
      <4>5. \A a, b, c \in Int : a < b /\ b < c => a < c
        OBVIOUS
      <4> QED BY <1>5, <3>3, <3>4, <4>2, <4>3, <4>4, <4>5
    <3> QED BY <1>5, <3>3, <3>4
  <2> QED BY <2>1, <2>2 DEF Scan
<1>7. /\ Along(start, scan) \in Int /\ Along(start, scan') \in Int
      /\ start \in Int /\ End \in Int
  <2>1. {scan, start, scan'} \subseteq Ring
    BY <1>1 DEF ZoneInv, SearchTypes
  <2> QED BY <2>1, InZone DEF Along
<1>8. WorkLeft = 2 + (start + End - Along(start, scan))
  BY <1>2 DEF WorkLeft
<1>9. CASE at' = "scan"
  <2>1. WorkLeft' = 2 + (start + End - Along(start, scan'))
    BY <1>2, <1>9 DEF WorkLeft, Along
  <2> QED BY <1>6, <1>7, <1>8, <2>1
<1>10. CASE at' = "take"
  <2>1. WorkLeft' = 1
    BY <1>10 DEF WorkLeft
  <2>2. Along(start, scan) <= start + End
    <3>1. {scan, start} \subseteq Ring
      BY DEF ZoneInv, SearchTypes
    <3> QED BY <3>1, InZone DEF Along
  <2> QED BY <1>7, <1>8, <2>1, <2>2
<1> QED BY <1>2, <1>9, <1>10

LEMMA SweepWork ==
  ASSUME ZoneInv, SweepForward, SweepBlock
  PROVE  WorkLeft' < WorkLeft /\ SweepForward'
<1>1. ZoneInv'
  BY SweepStep
<1>2. at = "sweep" /\ at' = "sweep" /\ sweep # Head /\ sweep' = next[sweep]
  BY DEF SweepBlock
<1>3. sweep' = Head \/ sweep < sweep'
  BY <1>2 DEF SweepForward
<1>4. WorkLeft' < WorkLeft
  <2>1. /\ sweep \in Int /\ 0 < sweep /\ sweep < End /\ End \in Int
        /\ sweep' \in Int
    <3>1. {sweep, sweep'} \subseteq Ring
      BY <1>1 DEF ZoneInv, SearchTypes
    <3> QED BY <1>2, <3>1, InZone
  <2>2. WorkLeft = 1 + End - sweep
    BY <1>2 DEF WorkLeft
  <2>3. WorkLeft' = IF sweep' = Head THEN 1 ELSE 1 + End - sweep'
    BY <1>2 DEF WorkLeft
  <2>4. CASE sweep' = Head
    BY <2>1, <2>2, <2>3, <2>4
  <2>5. CASE sweep' # Head
    <3>1. sweep < sweep' /\ WorkLeft' = 1 + End - sweep'
      BY <1>3, <2>3, <2>5
    <3>2. \A a, b, e \in Int : a < b => 1 + e - b < 1 + e - a
      OBVIOUS
    <3> QED BY <2>1, <2>2, <3>1, <3>2
  <2> QED BY <2>4, <2>5
<1>5. HeapInv /\ HeapInv'
  BY <1>1 DEF ZoneInv
<1>6. CASE sweep' \in live'
  <2>1. next'[sweep'] = Head \/ sweep' < next'[sweep']
    BY <1>5, <1>6, HeapLaidNext, NothingBetween
  <2> QED BY <1>4, <2>1 DEF SweepForward
<1>7. CASE sweep' \notin Links'
  \* The block that has been merged still leads where it led.
  <2>1. tag[sweep] = "level" /\ FreeBlock(sweep)
    <3>1. tag[sweep] # "level" => Links' = Links /\ next[sweep] \in Links
      <4>1. \A x \in Links : next[x] \in Links
        BY <1>5 DEF HeapInv, Tiled, Links
      <4> QED BY <1>2, <4>1 DEF SweepBlock, headers, Links, ZoneInv, SweepSound
    <3> QED BY <1>2, <1>7, <3>1 DEF SweepBlock
  <2>2. sweep \in live
    BY <1>2, <2>1 DEF ZoneInv, SweepSound, Links
  <2> DEFINE c == IF tag[prev[sweep]] = "free" THEN prev[sweep] ELSE sweep
  <2>3. c \in live'
    BY <1>5, <2>1, <2>2, FreeBlockSound
  <2>4. \E v : next' = [next EXCEPT ![c] = v]
    BY <2>1 DEF FreeBlock
  <2>5. sweep' # c /\ sweep' \in live
    <3>1. next[sweep] \in Links /\ Head \in Links'
      BY <1>5, <2>2 DEF HeapInv, Tiled, Links
    <3> QED BY <1>2, <1>7, <2>3, <3>1 DEF Links
  <2>6. next'[sweep'] = next[sweep']
    <3>1. sweep' \in Ring /\ next \in [Ring -> Ring]
      BY <1>5, <2>5, RingTyped DEF HeapInv, HeaderTypes
    <3> HIDE DEF c
    <3> QED BY <2>4, <2>5, <3>1
  <2> QED BY <1>4, <1>5, <2>5, <2>6, LinksForward DEF SweepForward
<1> QED BY <1>4, <1>6, <1>7 DEF SweepForward, Links

LEMMA WorkSteps ==
  ASSUME ZoneInv, SweepForward, [Next]_vars
  PROVE  SweepForward' /\ (Busy => WorkLeft' < WorkLeft)
<1>1. ZoneInv'
  BY ZoneSteps
<1>2. CASE Scan
  BY <1>2, ScanWork DEF Scan, SweepForward
<1>3. CASE SweepBlock
  BY <1>3, SweepWork
<1>4. CASE OutOfMemory \/ Take \/ EndSweep
  <2>1. at \notin {"idle", "panic"} /\ at' \in {"idle", "panic"}
    BY <1>4 DEF OutOfMemory, Take, EndSweep
  <2>2. WorkLeft \in 0 .. End + 1 /\ WorkLeft # 0
    BY <2>1, WorkBounded
  <2>3. WorkLeft' = 0
    BY <2>1 DEF WorkLeft
  <2>4. End \in Int
    BY InZone
  <2> QED BY <2>1, <2>2, <2>3, <2>4 DEF SweepForward
<1>5. CASE BeginSweep
  <2>1. sweep' = 1 /\ 1 \in live /\ next' = next /\ HeapInv
    BY <1>5 DEF BeginSweep, headers, ZoneInv, HeapInv, Tiled
  <2>2. ~ Busy
    BY <1>5 DEF BeginSweep, Busy, Scan, OutOfMemory, Take, SweepBlock, EndSweep
  <2> QED BY <2>1, <2>2, LinksForward DEF SweepForward
<1>6. ASSUME ~ Busy, at' # "sweep" \/ UNCHANGED <<at, sweep, next>>
      PROVE  SweepForward'
  BY <1>6 DEF SweepForward
<1>7. \A n \in Sizes, t \in Tags \ {"free"}, o \in Owners \cup {NoOwner} :
        Begin(n, t, o) => at' = "scan"
  BY DEF Begin
<1>8. \A b \in live : Free(b) \/ (\E t \in Tags \ {"free"} : ChangeTag(b, t)) => at' = "idle"
  BY DEF Free, ChangeTag
<1>9. UNCHANGED vars => UNCHANGED <<at, sweep, next>>
  BY DEF vars
<1> QED BY <1>2, <1>3, <1>4, <1>5, <1>6, <1>7, <1>8, <1>9 DEF Next, Busy


\* Every request and every sweep is over within End + 1 steps, each of which brings
\* it nearer to its end: a search that purges as it goes does not walk in a circle, nor
\* does a sweep that follows the link of a block that has just been merged (Z_Malloc,
\* Z_FreeTags).  What is left of RequestsEnd is that a step is possible and is taken.
THEOREM EveryStepCounts ==
  Spec => /\ [](WorkLeft \in 0 .. End + 1 /\ (WorkLeft = 0 <=> at \in {"idle", "panic"}))
          /\ [][Busy => WorkLeft' < WorkLeft]_vars
<1>1. Init => SweepForward
  BY DEF Init, SweepForward
<1>2. ZoneInv /\ SweepForward /\ [Next]_vars => SweepForward'
  BY WorkSteps
<1>3. ZoneInv /\ SweepForward /\ [Next]_vars => [Busy => WorkLeft' < WorkLeft]_vars
  BY WorkSteps
<1>4. ZoneInv => WorkLeft \in 0 .. End + 1 /\ (WorkLeft = 0 <=> at \in {"idle", "panic"})
  BY WorkBounded
<1> QED BY <1>1, <1>2, <1>3, <1>4, ZoneInvariant, PTL DEF Spec
=============================================================================
