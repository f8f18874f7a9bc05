------------------------- MODULE PicoThinkersProofs -------------------------
(***************************************************************************)
(* Proofs about the thinkers (PicoThinkers), for any number of blocks, of  *)
(* slots in a block (at least two), of sizes and of thinkers.              *)
(*                                                                         *)
(* ThinkersSound follows the links, which says nothing of what they will   *)
(* be after a step.  The inductive invariant lays both lists out instead:  *)
(* there is a sequence of thinkers that thinkercap's links go through      *)
(* (InOrder), the walk stands at a place of it and those before the place  *)
(* have had their turn (Standing), and there is a sequence of blocks for   *)
(* each size (Partials).  A step puts a thinker at the end, takes one out, *)
(* moves the walk one place on, puts a block in front or takes one out.    *)
(* That the links followed n times give place n is the one fact for which  *)
(* a recursion is followed (SameWalk).                                     *)
(***************************************************************************)
EXTENDS PicoThinkers, TLAPS, FiniteSetTheorems, WellFoundedInduction

-----------------------------------------------------------------------------
(***************************************************************************)
(* Addresses.                                                              *)
(***************************************************************************)

\* Dividing gives back what an address was made of.
LEMMA Divided ==
  ASSUME NEW b \in Nat, NEW s \in SlotNums
  PROVE  Thinker(b, s) \in Nat /\ BlockOf(Thinker(b, s)) = b /\ SlotOf(Thinker(b, s)) = s
<1> DEFINE x == Thinker(b, s)
           q == BlockOf(x)
           r == SlotOf(x)
<1>1. x \in Nat /\ x = b * Slots + s /\ s \in Int /\ 0 <= s /\ s < Slots /\ Slots \in Nat /\ Slots > 1
  BY ThinkersAssumption DEF Thinker, SlotNums
<1>2. q \in Int /\ r \in Int /\ x = Slots * q + r /\ 0 <= r /\ r < Slots
  BY <1>1 DEF BlockOf, SlotOf
<1>3. Slots * (b - q) = r - s
  BY <1>1, <1>2
<1> HIDE DEF q, r, x
<1>4. ASSUME NEW k \in Int, Slots * k = r - s
      PROVE  k = 0
  <2>1. CASE k >= 1
    <3>1. Slots * k >= Slots
      BY <1>1, <2>1
    <3> QED BY <1>1, <1>2, <1>4, <3>1
  <2>2. CASE k <= -1
    <3>1. Slots * k <= -Slots
      BY <1>1, <2>2
    <3> QED BY <1>1, <1>2, <1>4, <3>1
  <2> QED BY <2>1, <2>2
<1>5. b - q = 0
  BY <1>2, <1>3, <1>4
<1>6. b = q /\ r = s
  BY <1>1, <1>2, <1>5, <1>3
<1> QED BY <1>1, <1>6 DEF q, r, x

LEMMA Addresses ==
  /\ \A x \in Addr : /\ BlockOf(x) \in Blocks /\ SlotOf(x) \in SlotNums
                     /\ x = Thinker(BlockOf(x), SlotOf(x)) /\ x # Cap /\ x # Null /\ x \in Nat
  /\ \A b \in Blocks, s \in SlotNums :
       Thinker(b, s) \in Addr /\ BlockOf(Thinker(b, s)) = b /\ SlotOf(Thinker(b, s)) = s
  /\ BlockOf(Cap) = 0 /\ BlockOf(Null) = 0 /\ 0 \notin Blocks /\ 0 \in SlotNums
  /\ Slots - 1 \in SlotNums /\ Slots - 1 # 0
<1>1. ASSUME NEW b \in Blocks, NEW s \in SlotNums
      PROVE  /\ Thinker(b, s) \in Addr /\ BlockOf(Thinker(b, s)) = b /\ SlotOf(Thinker(b, s)) = s
             /\ Thinker(b, s) > 1 /\ Thinker(b, s) \in Nat
  <2>1. b \in Nat /\ b >= 1 /\ s \in Nat
    BY ThinkersAssumption DEF Blocks, SlotNums
  <2>2. b * Slots >= Slots
    BY <2>1, ThinkersAssumption
  <2>3. Thinker(b, s) > 1
    BY <2>1, <2>2, ThinkersAssumption DEF Thinker
  <2> QED BY <2>1, <2>3, Divided DEF Addr
<1>2. ASSUME NEW x \in Addr
      PROVE  /\ BlockOf(x) \in Blocks /\ SlotOf(x) \in SlotNums
             /\ x = Thinker(BlockOf(x), SlotOf(x)) /\ x # Cap /\ x # Null /\ x \in Nat
  <2>1. PICK b \in Blocks, s \in SlotNums : x = Thinker(b, s)
    BY DEF Addr
  <2> QED BY <1>1, <2>1 DEF Cap, Null
<1>3. /\ BlockOf(Cap) = 0 /\ BlockOf(Null) = 0 /\ 0 \notin Blocks /\ 0 \in SlotNums
      /\ Slots - 1 \in SlotNums /\ Slots - 1 # 0
  <2>1. BlockOf(Thinker(0, 1)) = 0 /\ BlockOf(Thinker(0, 0)) = 0
    BY Divided, ThinkersAssumption DEF SlotNums
  <2>2. Thinker(0, 1) = Cap /\ Thinker(0, 0) = Null
    BY ThinkersAssumption DEF Thinker, Cap, Null
  <2> QED BY <2>1, <2>2, ThinkersAssumption DEF SlotNums, Blocks
<1> QED BY <1>1, <1>2, <1>3

\* A set of numbers has a least one.
LEMMA Least ==
  ASSUME NEW S, S \subseteq Nat, S # {}
  PROVE  \E x \in S : \A y \in S : x <= y
<1>1. PICK x \in S : \A y \in S : ~ (<<y, x>> \in OpToRel(<, Nat))
  BY NatLessThanWellFounded, WFMin
<1>2. ASSUME NEW y \in S
      PROVE  x <= y
  <2>1. <<y, x>> \in Nat \X Nat /\ <<y, x>>[1] = y /\ <<y, x>>[2] = x
    OBVIOUS
  <2>2. ~ (y < x)
    BY <1>1, <2>1 DEF OpToRel
  <2> QED BY <2>2
<1> QED BY <1>2

\* The slots that Z_ThinkMallocImpl and Z_ThinkFree single out.
LEMMA Extremes ==
  ASSUME NEW S, S \subseteq SlotNums, S # {}
  PROVE  /\ Lowest(S) \in S /\ \A r \in S : Lowest(S) <= r
         /\ Highest(S) \in S /\ \A r \in S : r <= Highest(S)
<1>1. Slots \in Nat /\ \A s \in SlotNums : s \in Nat /\ s <= Slots - 1
  BY ThinkersAssumption DEF SlotNums
<1>2. \E s \in S : \A r \in S : s <= r
  BY <1>1, Least
<1>3. \E s \in S : \A r \in S : r <= s
  <2> DEFINE T == {Slots - 1 - s : s \in S}
  <2>1. T \subseteq Nat /\ T # {}
    BY <1>1
  <2>2. PICK x \in T : \A y \in T : x <= y
    BY <2>1, Least
  <2>3. PICK s \in S : x = Slots - 1 - s
    BY <2>2
  <2>4. ASSUME NEW r \in S
        PROVE  r <= s
    <3>1. x <= Slots - 1 - r
      BY <2>2
    <3> QED BY <1>1, <2>3, <2>4, <3>1
  <2> QED BY <2>4
<1> QED BY <1>2, <1>3 DEF Lowest, Highest

\* A slot is in use or not, block by block.
LEMMA InUseIs ==
  ASSUME NEW x \in Addr
  PROVE  x \in InUse <=> \/ kind[BlockOf(x)] \in Sizes /\ SlotOf(x) \notin free[BlockOf(x)]
                         \/ kind[BlockOf(x)] = "plain" /\ SlotOf(x) = 0
BY DEF InUse

\* The slot with the link to the next block is free.
LEMMA LinkSlots ==
  ASSUME TypeOK, NEW b \in Blocks, kind[b] \in Sizes, free[b] # {}
  PROVE  /\ LinkSlot(b) \in Addr /\ LinkSlot(b) \notin InUse
         /\ BlockOf(LinkSlot(b)) = b /\ SlotOf(LinkSlot(b)) = Highest(free[b])
         /\ Highest(free[b]) \in free[b] /\ free[b] \subseteq SlotNums
<1>1. free[b] \subseteq SlotNums
  BY DEF TypeOK
<1>2. Highest(free[b]) \in free[b]
  BY <1>1, Extremes
<1>3. LinkSlot(b) = Thinker(b, Highest(free[b]))
  BY DEF LinkSlot
<1>4. LinkSlot(b) \in Addr /\ BlockOf(LinkSlot(b)) = b /\ SlotOf(LinkSlot(b)) = Highest(free[b])
  BY <1>1, <1>2, <1>3, Addresses
<1>5. kind[b] # "plain"
  BY ThinkersAssumption
<1> QED BY <1>1, <1>2, <1>4, <1>5, InUseIs

\* The address of a block, and of none.
LEMMA Bases ==
  /\ Base(0) = Null
  /\ \A b \in Blocks : /\ Base(b) \in Addr /\ BlockOf(Base(b)) = b /\ SlotOf(Base(b)) = 0
                       /\ Base(b) # Null
  /\ \A b, c \in Blocks \cup {0} : Base(b) = Base(c) => b = c
<1>1. Base(0) = Null
  BY ThinkersAssumption DEF Base, Thinker, Null
<1>2. \A b \in Blocks : /\ Base(b) \in Addr /\ BlockOf(Base(b)) = b /\ SlotOf(Base(b)) = 0
                        /\ Base(b) # Null
  BY Addresses DEF Base
<1> QED BY <1>1, <1>2

-----------------------------------------------------------------------------
(***************************************************************************)
(* The inductive invariant: the two lists, laid out in order.              *)
(***************************************************************************)

\* thinkercap's list, from place 1 to n, with thinkercap before and after it.
InOrder(n, e) ==
  /\ n \in Nat /\ e \in [0 .. n + 1 -> InUse \cup {Cap}]
  /\ e[0] = Cap /\ e[n + 1] = Cap
  /\ \A i \in 1 .. n : e[i] \in InUse /\ sp[e[i]] = e[i + 1]
  /\ \A i, j \in 1 .. n : e[i] = e[j] => i = j
  /\ \A x \in InUse : \E i \in 1 .. n : e[i] = x

\* Where the walk stands in it: who is before it has had his turn.
Walking(n, e) ==
  \E k \in 1 .. n + 1 :
    /\ prev = e[k - 1] /\ cur = e[k]
    /\ at = "walk" => ran = {e[i] : i \in 1 .. k - 1}
    /\ at = "turn" => k <= n /\ ran = {e[i] : i \in 1 .. k}

\* While the thinkers of an old level are freed, the list is what is left.
Standing(n, e) ==
  /\ at = "wipe" => cur = e[1]
  /\ at # "wipe" => sp[Cap] = e[1] /\ tail = e[n]
  /\ at \in {"walk", "turn"} => Walking(n, e)
  /\ at \in {"out", "wipe"} => ran = {}

ListInv == \E n \in Nat : \E e : InOrder(n, e) /\ Standing(n, e)

\* The list of partially full blocks of size z, from place 1 to m, and no block
\* after it.
Partials(z, m, c) ==
  /\ m \in Nat /\ c \in [1 .. m + 1 -> Blocks \cup {0}]
  /\ pool[z] = Base(c[1]) /\ c[m + 1] = 0
  /\ \A i \in 1 .. m : /\ c[i] \in Blocks /\ kind[c[i]] = z /\ free[c[i]] # {}
                       /\ sp[LinkSlot(c[i])] = Base(c[i + 1])
  /\ \A i, j \in 1 .. m : c[i] = c[j] => i = j

PoolInv == \A z \in Sizes : \E m \in Nat : \E c : Partials(z, m, c)

ThinkersInv == TypeOK /\ PoolInv /\ ListInv

-----------------------------------------------------------------------------
(***************************************************************************)
(* The lists as the properties follow them.                                *)
(***************************************************************************)

\* Two functions with the same first value and the same step are one.
LEMMA SameWalk ==
  ASSUME NEW N \in Nat, NEW f, NEW g,
         f[0] = g[0],
         \A i \in 1 .. N : f[i - 1] = g[i - 1] => f[i] = g[i]
  PROVE  \A i \in 0 .. N : f[i] = g[i]
<1> DEFINE bad == {i \in 0 .. N : f[i] # g[i]}
<1> SUFFICES ASSUME bad # {}
             PROVE  FALSE
  OBVIOUS
<1>1. PICK i \in bad : \A j \in bad : i <= j
  <2>1. bad \subseteq Nat
    OBVIOUS
  <2> HIDE DEF bad
  <2> QED BY <2>1, Least
<1>2. i # 0 /\ i - 1 \in 0 .. N /\ i \in 1 .. N
  OBVIOUS
<1>3. i - 1 \notin bad
  BY <1>1, <1>2
<1> QED BY <1>2, <1>3

\* There are no more places than blocks.
LEMMA NoMoreRoom ==
  ASSUME NEW m \in Nat, NEW N \in Nat, NEW f \in [1 .. m -> 1 .. N],
         \A i, j \in 1 .. m : f[i] = f[j] => i = j
  PROVE  m <= N
<1> DEFINE S == 1 .. m
           T == 1 .. N
<1>1. /\ Cardinality(S) = m /\ Cardinality(T) = N
      /\ IsFiniteSet(S) /\ IsFiniteSet(T)
  BY FS_Interval
<1>2. f \in [S -> T] /\ \A i, j \in S : f[i] = f[j] => i = j
  OBVIOUS
<1> HIDE DEF S, T
<1>3. ~ (Cardinality(T) < Cardinality(S))
  BY <1>1, <1>2, FS_PigeonHole
<1> QED BY <1>1, <1>3

\* The list of partially full blocks, as FreeBlock searches it.
LEMMA ChainIs ==
  ASSUME TypeOK, NEW z \in Sizes, NEW m, NEW c, Partials(z, m, c)
  PROVE  /\ m <= NumBlocks
         /\ \A n \in 0 .. NumBlocks : Chain(z)[n] = IF n < m THEN Base(c[n + 1]) ELSE Null
         /\ Listed(z) = {c[i] : i \in 1 .. m}
<1> DEFINE N == NumBlocks
           Step(f, n) == IF n = 0 THEN pool[z]
                         ELSE IF f[n - 1] = Null \/ free[BlockOf(f[n - 1])] = {} THEN Null
                         ELSE sp[LinkSlot(BlockOf(f[n - 1]))]
           w == [n \in 0 .. N |-> IF n < m THEN Base(c[n + 1]) ELSE Null]
<1>1. /\ N \in Nat /\ m \in Nat /\ pool[z] = Base(c[1]) /\ c[m + 1] = 0
      /\ \A i \in 1 .. m : /\ c[i] \in Blocks /\ free[c[i]] # {}
                           /\ sp[LinkSlot(c[i])] = Base(c[i + 1])
  BY ThinkersAssumption DEF Partials
<1>2. m <= N
  <2> DEFINE f == [i \in 1 .. m |-> c[i]]
  <2>1. f \in [1 .. m -> 1 .. N]
    BY <1>1 DEF Blocks
  <2>2. \A i, j \in 1 .. m : f[i] = f[j] => i = j
    BY DEF Partials
  <2> HIDE DEF f
  <2> QED BY <1>1, <2>1, <2>2, NoMoreRoom
<1>3. \A n \in 0 .. N : w[n] = Step(w, n)
  <2> SUFFICES ASSUME NEW n \in 0 .. N PROVE w[n] = Step(w, n)
    OBVIOUS
  <2>1. CASE n = 0
    <3>1. w[0] = IF m = 0 THEN Null ELSE Base(c[1])
      BY <1>1, <2>1
    <3>2. m = 0 => pool[z] = Null
      BY <1>1, Bases
    <3> QED BY <1>1, <2>1, <3>1, <3>2
  <2>2. CASE n # 0 /\ n - 1 < m
    <3>1. n \in 1 .. m /\ n - 1 \in 0 .. N
      BY <1>1, <2>2
    <3>2. w[n - 1] = Base(c[n])
      BY <1>1, <2>2, <3>1
    <3>3. w[n - 1] # Null /\ BlockOf(w[n - 1]) = c[n] /\ free[c[n]] # {}
      BY <1>1, <3>1, <3>2, Bases
    <3>4. Step(w, n) = sp[LinkSlot(c[n])]
      BY <2>2, <3>3
    <3>5. Step(w, n) = Base(c[n + 1])
      BY <1>1, <3>1, <3>4
    <3>6. w[n] = Base(c[n + 1])
      <4>1. CASE n < m
        BY <4>1
      <4>2. CASE n = m
        BY <1>1, <4>2, Bases
      <4> QED BY <1>1, <3>1, <4>1, <4>2
    <3> QED BY <3>5, <3>6
  <2>3. CASE n # 0 /\ ~ (n - 1 < m)
    <3>1. n - 1 \in 0 .. N /\ ~ (n < m)
      BY <1>1, <2>3
    <3> QED BY <2>3, <3>1
  <2> QED BY <2>1, <2>2, <2>3
<1>4. Chain(z) = [n \in 0 .. N |-> Step(Chain(z), n)]
  <2>1. w = [n \in 0 .. N |-> Step(w, n)]
    <3> HIDE DEF Step
    <3> QED BY <1>3
  <2>2. \E f : f = [n \in 0 .. N |-> Step(f, n)]
    BY <2>1
  <2>3. Chain(z) = CHOOSE f : f = [n \in 0 .. N |-> Step(f, n)]
    BY DEF Chain
  <2> HIDE DEF Step
  <2> QED BY <2>2, <2>3
<1>5. \A n \in 0 .. N : Chain(z)[n] = w[n]
  <2> DEFINE f == Chain(z)
  <2>1. \A n \in 0 .. N : f[n] = Step(f, n)
    <3> HIDE DEF Step
    <3> QED BY <1>4
  <2> HIDE DEF f, w
  <2>2. f[0] = w[0]
    BY <1>1, <1>3, <2>1
  <2>3. \A n \in 1 .. N : f[n - 1] = w[n - 1] => f[n] = w[n]
    <3> SUFFICES ASSUME NEW n \in 1 .. N, f[n - 1] = w[n - 1]
                 PROVE  f[n] = w[n]
      OBVIOUS
    <3>1. n \in 0 .. N
      BY <1>1
    <3>2. Step(f, n) = Step(w, n)
      OBVIOUS
    <3> QED BY <1>3, <2>1, <3>1, <3>2
  <2>4. \A n \in 0 .. N : f[n] = w[n]
    <3> HIDE DEF Step
    <3> QED BY <1>1, <2>2, <2>3, SameWalk
  <2> QED BY <2>4 DEF f
<1>6. \A n \in 0 .. N : Chain(z)[n] = IF n < m THEN Base(c[n + 1]) ELSE Null
  BY <1>5
<1>7. Listed(z) = {c[i] : i \in 1 .. m}
  <2>1. Listed(z) = {BlockOf(Chain(z)[n]) : n \in 0 .. N} \ {0}
    BY Addresses DEF Listed
  <2>2. ASSUME NEW n \in 0 .. N, BlockOf(Chain(z)[n]) # 0
        PROVE  \E i \in 1 .. m : c[i] = BlockOf(Chain(z)[n])
    <3>1. n < m
      BY <1>6, <2>2, Addresses
    <3>2. n + 1 \in 1 .. m /\ c[n + 1] \in Blocks /\ Chain(z)[n] = Base(c[n + 1])
      BY <1>1, <1>6, <3>1
    <3> QED BY <3>2, Bases
  <2>3. ASSUME NEW i \in 1 .. m
        PROVE  \E n \in 0 .. N : BlockOf(Chain(z)[n]) = c[i] /\ c[i] # 0
    <3>1. i - 1 \in 0 .. N /\ i - 1 < m /\ (i - 1) + 1 = i
      BY <1>1, <1>2
    <3>2. Chain(z)[i - 1] = Base(c[i])
      BY <1>6, <3>1
    <3> QED BY <1>1, <3>1, <3>2, Bases, Addresses
  <2> QED BY <2>1, <2>2, <2>3
<1> QED BY <1>2, <1>6, <1>7

LEMMA PoolIsSound == TypeOK /\ PoolInv => PoolSound
<1> SUFFICES ASSUME TypeOK, PoolInv, NEW z \in Sizes
             PROVE  /\ Chain(z)[NumBlocks] = Null
                    /\ \A b \in Listed(z) : kind[b] = z /\ free[b] # {}
  BY DEF PoolSound
<1>1. PICK m \in Nat : \E c : Partials(z, m, c)
  BY DEF PoolInv
<1>2. PICK c : Partials(z, m, c)
  BY <1>1
<1>3. NumBlocks \in 0 .. NumBlocks
  BY ThinkersAssumption
<1>4. Chain(z)[NumBlocks] = Null
  BY <1>2, <1>3, ChainIs
<1>5. \A i \in 1 .. m : kind[c[i]] = z /\ free[c[i]] # {}
  BY <1>2 DEF Partials
<1> QED BY <1>2, <1>4, <1>5, ChainIs

\* There are as many thinkers in use as the list has places.
LEMMA Counted ==
  ASSUME NEW n, NEW e, InOrder(n, e)
  PROVE  Cardinality(InUse) = n
<1> DEFINE f == [i \in 1 .. n |-> e[i]]
<1>1. n \in Nat /\ f \in [1 .. n -> InUse]
  BY DEF InOrder
<1>2. \A i, j \in 1 .. n : f[i] = f[j] => i = j
  BY DEF InOrder
<1>3. \A x \in InUse : \E i \in 1 .. n : f[i] = x
  BY DEF InOrder
<1> HIDE DEF f
<1>4. f \in Surjection(1 .. n, InUse)
  BY <1>1, <1>3 DEF Surjection
<1>5. IsFiniteSet(InUse) /\ Cardinality(InUse) <= n
  BY <1>1, <1>4, FS_SurjCardinalityBound, FS_NatSurjection DEF ExistsSurjection
<1>6. Cardinality(1 .. n) = n /\ IsFiniteSet(1 .. n)
  BY <1>1, FS_Interval
<1>7. ~ (Cardinality(InUse) < n)
  BY <1>1, <1>2, <1>5, <1>6, FS_PigeonHole
<1> QED BY <1>1, <1>5, <1>7, FS_CardinalityType

\* thinkercap's list, as ListSound follows it.
LEMMA ListIsSound ==
  ASSUME TypeOK, ListInv, at # "wipe"
  PROVE  ListSound
<1>1. PICK n \in Nat : \E e : InOrder(n, e) /\ Standing(n, e)
  BY DEF ListInv
<1>2. PICK e : InOrder(n, e) /\ Standing(n, e)
  BY <1>1
<1> DEFINE Step(f, i) == IF i = 0 THEN Cap ELSE IF f[i - 1] = Null THEN Null ELSE sp[f[i - 1]]
           w == [i \in 0 .. n |-> e[i]]
           nth == CHOOSE f : f = [i \in 0 .. n |-> Step(f, i)]
<1>3. /\ e[0] = Cap /\ e[n + 1] = Cap /\ sp[Cap] = e[1] /\ tail = e[n]
      /\ \A i \in 0 .. n : sp[e[i]] = e[i + 1] /\ e[i] # Null
      /\ {e[i] : i \in 1 .. n} = InUse
  <2>1. \A i \in 1 .. n : e[i] \in InUse /\ sp[e[i]] = e[i + 1]
    BY <1>2 DEF InOrder
  <2>2. InUse \subseteq Addr
    BY DEF InUse
  <2>3. e[0] = Cap /\ e[n + 1] = Cap /\ sp[Cap] = e[1] /\ tail = e[n] /\ Cap # Null
    BY <1>2 DEF InOrder, Standing, Cap, Null
  <2>4. \A i \in 0 .. n : sp[e[i]] = e[i + 1] /\ e[i] # Null
    <3> SUFFICES ASSUME NEW i \in 0 .. n PROVE sp[e[i]] = e[i + 1] /\ e[i] # Null
      OBVIOUS
    <3>1. CASE i = 0
      BY <2>3, <3>1
    <3>2. CASE i # 0
      <4>1. i \in 1 .. n
        BY <3>2
      <4> QED BY <2>1, <2>2, <4>1, Addresses
    <3> QED BY <3>1, <3>2
  <2>5. {e[i] : i \in 1 .. n} = InUse
    BY <1>2 DEF InOrder
  <2> QED BY <2>3, <2>4, <2>5
<1>4. \A i \in 0 .. n : w[i] = Step(w, i)
  <2> SUFFICES ASSUME NEW i \in 0 .. n PROVE w[i] = Step(w, i)
    OBVIOUS
  <2>1. CASE i = 0
    BY <1>3, <2>1
  <2>2. CASE i # 0
    <3>1. i - 1 \in 0 .. n /\ (i - 1) + 1 = i
      BY <2>2
    <3>2. w[i - 1] = e[i - 1] /\ sp[e[i - 1]] = e[i] /\ e[i - 1] # Null
      BY <1>3, <3>1
    <3> QED BY <2>2, <3>2
  <2> QED BY <2>1, <2>2
<1>5. nth = [i \in 0 .. n |-> Step(nth, i)]
  <2> HIDE DEF Step
  <2>1. w = [i \in 0 .. n |-> Step(w, i)]
    BY <1>4
  <2> QED BY <2>1
<1>6. \A i \in 0 .. n : nth[i] = e[i]
  <2>1. \A i \in 0 .. n : nth[i] = Step(nth, i)
    <3> HIDE DEF Step
    <3> QED BY <1>5
  <2> HIDE DEF nth, w
  <2>2. nth[0] = w[0]
    BY <1>4, <2>1
  <2>3. \A i \in 1 .. n : nth[i - 1] = w[i - 1] => nth[i] = w[i]
    <3> SUFFICES ASSUME NEW i \in 1 .. n, nth[i - 1] = w[i - 1]
                 PROVE  nth[i] = w[i]
      OBVIOUS
    <3>1. i \in 0 .. n
      OBVIOUS
    <3>2. Step(nth, i) = Step(w, i)
      OBVIOUS
    <3> QED BY <1>4, <2>1, <3>1, <3>2
  <2>4. \A i \in 0 .. n : nth[i] = w[i]
    <3> HIDE DEF Step
    <3> QED BY <2>2, <2>3, SameWalk
  <2> QED BY <2>4 DEF w
<1>7. Cardinality(InUse) = n
  BY <1>2, Counted
<1>8. at = "walk" => sp[prev] = cur
  <2> SUFFICES ASSUME at = "walk" PROVE sp[prev] = cur
    OBVIOUS
  <2>1. PICK k \in 1 .. n + 1 : prev = e[k - 1] /\ cur = e[k]
    BY <1>2 DEF Standing, Walking
  <2>2. k - 1 \in 0 .. n /\ (k - 1) + 1 = k
    OBVIOUS
  <2> QED BY <1>3, <2>1, <2>2
<1> HIDE DEF nth
<1>9. {nth[i] : i \in 1 .. n} = InUse /\ sp[nth[n]] = Cap /\ tail = nth[n]
  BY <1>3, <1>6
<1> QED BY <1>7, <1>8, <1>9 DEF ListSound, nth

-----------------------------------------------------------------------------
(***************************************************************************)
(* What happens to thinkercap's list.                                      *)
(***************************************************************************)

\* Facts of the places of a list.
LEMMA Placed ==
  ASSUME NEW n, NEW e, InOrder(n, e)
  PROVE  /\ n \in Nat /\ e[0] = Cap /\ e[n + 1] = Cap
         /\ \A i \in 1 .. n : e[i] \in Addr /\ e[i] # Cap /\ e[i] \in InUse
         /\ \A i \in 0 .. n + 1 : e[i] \in InUse \cup {Cap}
         /\ Cap \notin InUse /\ InUse \subseteq Addr
         /\ \A i \in 0 .. n, j \in 0 .. n : e[i] = e[j] => i = j
<1>1. InUse \subseteq Addr /\ Cap \notin InUse
  BY Addresses DEF InUse
<1>2. n \in Nat /\ e[0] = Cap /\ e[n + 1] = Cap /\ \A i \in 1 .. n : e[i] \in InUse
  BY DEF InOrder
<1>3. \A i \in 0 .. n + 1 : e[i] \in InUse \cup {Cap}
  BY DEF InOrder
<1>4. ASSUME NEW i \in 0 .. n, NEW j \in 0 .. n, e[i] = e[j]
      PROVE  i = j
  <2>1. CASE i = 0 \/ j = 0
    BY <1>1, <1>2, <1>4, <2>1
  <2>2. CASE i \in 1 .. n /\ j \in 1 .. n
    BY <1>4, <2>2 DEF InOrder
  <2> QED BY <1>2, <2>1, <2>2
<1> QED BY <1>1, <1>2, <1>3, <1>4

\* P_AddThinker puts a thinker at the end.
LEMMA ListAppended ==
  ASSUME NEW n, NEW e, InOrder(n, e), Standing(n, e), at \in {"out", "turn"},
         NEW x \in Addr, x \notin InUse,
         InUse' = InUse \cup {x}, tail' = x, sp'[x] = sp[tail], sp'[tail] = x,
         \A y \in InUse \cup {Cap} : y # tail => sp'[y] = sp[y],
         UNCHANGED <<at, prev, cur, ran>>
  PROVE  ListInv'
<1> DEFINE f == [i \in 0 .. n + 2 |-> IF i <= n THEN e[i] ELSE IF i = n + 1 THEN x ELSE Cap]
<1>1. /\ n \in Nat /\ n + 1 \in Nat /\ e[0] = Cap /\ e[n + 1] = Cap /\ x # Cap
      /\ sp[Cap] = e[1] /\ tail = e[n]
  BY Placed, Addresses DEF Standing
<1>2. \A i \in 0 .. n : sp[e[i]] = e[i + 1]
  BY <1>1 DEF InOrder
<1>3. sp'[x] = Cap /\ sp'[e[n]] = x /\ \A i \in 0 .. n - 1 : sp'[e[i]] = e[i + 1]
  <2>1. sp'[x] = Cap /\ sp'[e[n]] = x
    BY <1>1, <1>2
  <2>2. ASSUME NEW i \in 0 .. n - 1
        PROVE  sp'[e[i]] = e[i + 1]
    <3>1. i \in 0 .. n /\ i \in 0 .. n + 1 /\ n \in 0 .. n /\ i # n
      BY <1>1
    <3>2. e[i] # e[n] /\ e[i] \in InUse \cup {Cap}
      BY <3>1, Placed
    <3> QED BY <1>1, <1>2, <3>1, <3>2
  <2> QED BY <2>1, <2>2
<1>4. InOrder(n + 1, f)'
  <2>1. f \in [0 .. (n + 1) + 1 -> InUse' \cup {Cap}]
    BY <1>1, Placed
  <2>2. f[0] = Cap /\ f[(n + 1) + 1] = Cap
    BY <1>1
  <2>3. ASSUME NEW i \in 1 .. n + 1
        PROVE  f[i] \in InUse' /\ sp'[f[i]] = f[i + 1]
    <3>1. CASE i <= n - 1
      <4>1. i \in 0 .. n - 1 /\ i \in 1 .. n /\ f[i] = e[i] /\ f[i + 1] = e[i + 1]
        BY <1>1, <3>1
      <4> QED BY <1>3, <4>1, Placed
    <3>2. CASE i = n
      <4>1. i \in 1 .. n /\ f[i] = e[i] /\ f[i + 1] = x
        BY <1>1, <3>2
      <4> QED BY <1>3, <3>2, <4>1, Placed
    <3>3. CASE i = n + 1
      BY <1>1, <1>3, <3>3
    <3> QED BY <1>1, <3>1, <3>2, <3>3
  <2>4. ASSUME NEW i \in 1 .. n + 1, NEW j \in 1 .. n + 1, f[i] = f[j]
        PROVE  i = j
    <3>1. \A l \in 1 .. n : f[l] = e[l] /\ e[l] # x
      BY <1>1, Placed
    <3>2. f[n + 1] = x
      BY <1>1
    <3>3. CASE i \in 1 .. n /\ j \in 1 .. n
      BY <2>4, <3>1, <3>3 DEF InOrder
    <3> QED BY <1>1, <2>4, <3>1, <3>2, <3>3
  <2>5. ASSUME NEW y \in InUse'
        PROVE  \E i \in 1 .. n + 1 : f[i] = y
    <3>1. CASE y = x
      BY <1>1, <3>1
    <3>2. CASE y # x
      <4>1. PICK i \in 1 .. n : e[i] = y
        BY <2>5, <3>2 DEF InOrder
      <4>2. i \in 1 .. n + 1 /\ f[i] = y
        BY <1>1, <4>1
      <4> QED BY <4>2
    <3> QED BY <3>1, <3>2
  <2> HIDE DEF f
  <2> QED BY <1>1, <2>1, <2>2, <2>3, <2>4, <2>5 DEF InOrder
<1>5. Standing(n + 1, f)'
  <2>1. at' # "wipe" /\ f[n + 1] = x
    BY <1>1
  <2>2. sp'[Cap] = f[1]
    <3>1. CASE n = 0
      BY <1>1, <1>3, <3>1
    <3>2. CASE n # 0
      <4>1. 0 \in 0 .. n - 1 /\ f[1] = e[1]
        BY <1>1, <3>2
      <4> QED BY <1>1, <1>3, <4>1
    <3> QED BY <3>1, <3>2
  <2>3. at = "turn" => Walking(n + 1, f)'
    <3> SUFFICES ASSUME at = "turn" PROVE Walking(n + 1, f)'
      OBVIOUS
    <3>1. PICK k \in 1 .. n + 1 : /\ prev = e[k - 1] /\ cur = e[k]
                                  /\ k <= n /\ ran = {e[i] : i \in 1 .. k}
      BY DEF Standing, Walking
    <3>2. k \in 1 .. (n + 1) + 1 /\ k <= n + 1
      BY <1>1, <3>1
    <3>3. f[k - 1] = e[k - 1] /\ f[k] = e[k] /\ \A i \in 1 .. k : f[i] = e[i]
      BY <1>1, <3>1
    <3> HIDE DEF f
    <3>4. ran = {f[i] : i \in 1 .. k}
      <4>1. {f[i] : i \in 1 .. k} = {e[i] : i \in 1 .. k}
        BY <3>3
      <4> QED BY <3>1, <4>1
    <3> QED BY <3>1, <3>2, <3>3, <3>4 DEF Walking
  <2>4. at' = "out" => ran' = {}
    BY DEF Standing
  <2> HIDE DEF f
  <2> QED BY <1>1, <2>1, <2>2, <2>3, <2>4 DEF Standing
<1> QED BY <1>1, <1>4, <1>5 DEF ListInv

\* The list without the thinker at place k.
LEMMA ListShortened ==
  ASSUME NEW n, NEW e, InOrder(n, e), NEW k \in 1 .. n,
         InUse' = InUse \ {e[k]},
         \A i \in 1 .. n : i # k => sp'[e[i]] = IF i = k - 1 THEN e[k + 1] ELSE sp[e[i]]
  PROVE  InOrder(n - 1, [i \in 0 .. n |-> IF i < k THEN e[i] ELSE e[i + 1]])'
<1> DEFINE f == [i \in 0 .. n |-> IF i < k THEN e[i] ELSE e[i + 1]]
<1>1. n \in Nat /\ n - 1 \in Nat /\ k \in Int /\ 1 <= k /\ k <= n /\ (n - 1) + 1 = n
  BY Placed
<1>2. \A i \in 0 .. n : f[i] = IF i < k THEN e[i] ELSE e[i + 1]
  OBVIOUS
<1>3. f \in [0 .. (n - 1) + 1 -> InUse' \cup {Cap}]
  <2> SUFFICES ASSUME NEW i \in 0 .. n
               PROVE  (IF i < k THEN e[i] ELSE e[i + 1]) \in InUse' \cup {Cap}
    BY <1>1
  <2>1. CASE i < k
    <3>1. i \in 0 .. n + 1 /\ i # k /\ i \in 0 .. n /\ k \in 0 .. n
      BY <1>1, <2>1
    <3>2. e[i] \in InUse \cup {Cap} /\ e[i] # e[k]
      BY <3>1, Placed
    <3> QED BY <2>1, <3>2
  <2>2. CASE ~ (i < k) /\ i < n
    <3>1. i + 1 \in 0 .. n + 1 /\ i + 1 # k /\ i + 1 \in 0 .. n /\ k \in 0 .. n
      BY <1>1, <2>2
    <3>2. e[i + 1] \in InUse \cup {Cap} /\ e[i + 1] # e[k]
      BY <3>1, Placed
    <3> QED BY <2>2, <3>2
  <2>3. CASE ~ (i < k) /\ i = n
    BY <2>3, Placed
  <2> QED BY <1>1, <2>1, <2>2, <2>3
<1>4. f[0] = Cap /\ f[(n - 1) + 1] = Cap
  BY <1>1, <1>2, Placed
<1>5. ASSUME NEW i \in 1 .. n - 1
      PROVE  f[i] \in InUse' /\ sp'[f[i]] = f[i + 1]
  <2>0. i \in 0 .. n /\ i + 1 \in 0 .. n /\ i \in Int /\ k \in 0 .. n
    BY <1>1
  <2>1. CASE i + 1 < k
    <3>1. i \in 1 .. n /\ i # k /\ i # k - 1 /\ f[i] = e[i] /\ f[i + 1] = e[i + 1] /\ i \in 0 .. n
      BY <1>1, <1>2, <2>0, <2>1
    <3>2. sp'[e[i]] = sp[e[i]] /\ sp[e[i]] = e[i + 1] /\ e[i] \in InUse /\ e[i] # e[k]
      BY <2>0, <3>1, Placed DEF InOrder
    <3> QED BY <3>1, <3>2
  <2>2. CASE i + 1 = k
    <3>1. i \in 1 .. n /\ i # k /\ i = k - 1 /\ f[i] = e[i] /\ f[i + 1] = e[k + 1] /\ i \in 0 .. n
      BY <1>1, <1>2, <2>0, <2>2
    <3>2. sp'[e[i]] = e[k + 1] /\ e[i] \in InUse /\ e[i] # e[k]
      BY <2>0, <3>1, Placed
    <3> QED BY <3>1, <3>2
  <2>3. CASE ~ (i < k)
    <3>1. /\ i + 1 \in 1 .. n /\ i + 1 # k /\ i + 1 # k - 1 /\ i + 1 \in 0 .. n
          /\ f[i] = e[i + 1] /\ f[i + 1] = e[(i + 1) + 1]
      BY <1>1, <1>2, <2>0, <2>3
    <3>2. /\ sp'[e[i + 1]] = sp[e[i + 1]] /\ sp[e[i + 1]] = e[(i + 1) + 1]
          /\ e[i + 1] \in InUse /\ e[i + 1] # e[k]
      BY <2>0, <3>1, Placed DEF InOrder
    <3> QED BY <3>1, <3>2
  <2> QED BY <1>1, <2>0, <2>1, <2>2, <2>3
<1>6. ASSUME NEW i \in 1 .. n - 1, NEW j \in 1 .. n - 1, f[i] = f[j]
      PROVE  i = j
  <2> DEFINE up(l) == IF l < k THEN l ELSE l + 1
  <2>1. \A l \in 1 .. n - 1 : up(l) \in 1 .. n /\ f[l] = e[up(l)]
    BY <1>1, <1>2
  <2>2. up(i) = up(j)
    <3> HIDE DEF up, f
    <3>1. /\ up(i) \in 1 .. n /\ up(j) \in 1 .. n
          /\ f[i] = e[up(i)] /\ f[j] = e[up(j)]
      BY <1>6, <2>1
    <3>2. e[up(i)] = e[up(j)]
      BY <1>6, <3>1
    <3> QED BY <3>1, <3>2 DEF InOrder
  <2> QED BY <1>1, <2>2
<1>7. ASSUME NEW y \in InUse'
      PROVE  \E i \in 1 .. n - 1 : f[i] = y
  <2>1. PICK j \in 1 .. n : e[j] = y
    BY <1>7 DEF InOrder
  <2>2. j # k
    BY <1>7, <2>1
  <2>3. CASE j < k
    <3>1. j \in 1 .. n - 1 /\ j \in 0 .. n
      BY <1>1, <2>3
    <3>2. f[j] = y
      BY <1>2, <2>1, <2>3, <3>1
    <3> QED BY <3>1, <3>2
  <2>4. CASE j > k
    <3>1. j - 1 \in 1 .. n - 1 /\ j - 1 \in 0 .. n /\ ~ (j - 1 < k) /\ (j - 1) + 1 = j
      BY <1>1, <2>4
    <3>2. f[j - 1] = y
      BY <1>2, <2>1, <3>1
    <3> QED BY <3>1, <3>2
  <2> HIDE DEF f
  <2> QED BY <1>1, <2>1, <2>2, <2>3, <2>4
<1> HIDE DEF f
<1>8. InOrder(n - 1, f)'
  BY <1>1, <1>3, <1>4, <1>5, <1>6, <1>7 DEF InOrder
<1> QED BY <1>8 DEF f

-----------------------------------------------------------------------------
(***************************************************************************)
(* What happens to the lists of partially full blocks.                     *)
(***************************************************************************)

\* Facts of the places of a list of blocks.
LEMMA Enlisted ==
  ASSUME TypeOK, NEW z \in Sizes, NEW m, NEW c, Partials(z, m, c)
  PROVE  /\ m \in Nat /\ pool[z] = Base(c[1]) /\ c[m + 1] = 0
         /\ \A i \in 1 .. m + 1 : c[i] \in Blocks \cup {0}
         /\ \A i \in 1 .. m : /\ c[i] \in Blocks /\ kind[c[i]] = z /\ free[c[i]] # {}
                              /\ sp[LinkSlot(c[i])] = Base(c[i + 1])
                              /\ LinkSlot(c[i]) \in Addr /\ LinkSlot(c[i]) \notin InUse
                              /\ BlockOf(LinkSlot(c[i])) = c[i]
         /\ \A i, j \in 1 .. m : c[i] = c[j] => i = j
<1>1. /\ m \in Nat /\ pool[z] = Base(c[1]) /\ c[m + 1] = 0
      /\ \A i \in 1 .. m + 1 : c[i] \in Blocks \cup {0}
      /\ \A i \in 1 .. m : /\ c[i] \in Blocks /\ kind[c[i]] = z /\ free[c[i]] # {}
                           /\ sp[LinkSlot(c[i])] = Base(c[i + 1])
      /\ \A i, j \in 1 .. m : c[i] = c[j] => i = j
  BY DEF Partials
<1> QED BY <1>1, LinkSlots

\* A list stays as it is if its blocks stay and keep their links.
LEMMA PartialsKept ==
  ASSUME NEW z \in Sizes, NEW m, NEW c, Partials(z, m, c), pool'[z] = pool[z],
         \A i \in 1 .. m : /\ kind'[c[i]] = kind[c[i]] /\ free'[c[i]] # {}
                           /\ (sp[LinkSlot(c[i])])' = sp[LinkSlot(c[i])]
  PROVE  Partials(z, m, c)'
BY DEF Partials

\* Lists of other sizes than that of block b are not disturbed by what is done in
\* b, in slots in use and to its own list.
LEMMA OthersKept ==
  ASSUME TypeOK, PoolInv, NEW b \in Blocks, NEW z \in Sizes, z # kind[b],
         pool'[z] = pool[z],
         \A a \in Blocks : a # b => kind'[a] = kind[a] /\ free'[a] = free[a],
         \A y \in Addr : kind[BlockOf(y)] = z /\ y \notin InUse => sp'[y] = sp[y]
  PROVE  \E m \in Nat : \E c : Partials(z, m, c)'
<1>1. PICK m \in Nat : \E c : Partials(z, m, c)
  BY DEF PoolInv
<1>2. PICK c : Partials(z, m, c)
  BY <1>1
<1>3. ASSUME NEW i \in 1 .. m
      PROVE  /\ kind'[c[i]] = kind[c[i]] /\ free'[c[i]] # {}
             /\ (sp[LinkSlot(c[i])])' = sp[LinkSlot(c[i])]
  <2>1. /\ c[i] \in Blocks /\ kind[c[i]] = z /\ free[c[i]] # {} /\ c[i] # b
        /\ LinkSlot(c[i]) \in Addr /\ LinkSlot(c[i]) \notin InUse /\ BlockOf(LinkSlot(c[i])) = c[i]
    BY <1>2, Enlisted
  <2>2. free'[c[i]] = free[c[i]] /\ kind'[c[i]] = kind[c[i]]
    BY <2>1
  <2>3. LinkSlot(c[i])' = LinkSlot(c[i])
    BY <2>2 DEF LinkSlot
  <2>4. sp'[LinkSlot(c[i])] = sp[LinkSlot(c[i])]
    BY <2>1
  <2> QED BY <2>1, <2>2, <2>3, <2>4
<1>4. Partials(z, m, c)'
  BY <1>2, <1>3, PartialsKept
<1> QED BY <1>4

\* Z_ThinkFree of a thinker outside the pool.
LEMMA PlainFreed ==
  ASSUME TypeOK, PoolInv, NEW x \in InUse, NEW links \in [Addr \cup {Cap} -> Addr \cup {Cap, Null}],
         \A y \in Addr : y \notin InUse => links[y] = sp[y],
         FreePlain(x, links)
  PROVE  /\ kind' \in [Blocks -> Sizes \cup {"plain", "none"}]
         /\ free' \in [Blocks -> SUBSET SlotNums]
         /\ sp' \in [Addr \cup {Cap} -> Addr \cup {Cap, Null}]
         /\ pool' \in [Sizes -> Addr \cup {Null}]
         /\ InUse' = InUse \ {x}
         /\ \A y \in (InUse \ {x}) \cup {Cap} : sp'[y] = links[y]
         /\ PoolInv'
<1> DEFINE b == BlockOf(x)
<1>1. /\ x \in Addr /\ b \in Blocks /\ x # Cap
      /\ kind[b] = "plain" /\ kind' = [kind EXCEPT ![b] = "none"]
      /\ sp' = [links EXCEPT ![x] = Null] /\ free' = free /\ pool' = pool
      /\ "plain" \notin Sizes /\ "none" \notin Sizes
  BY Addresses, ThinkersAssumption DEF InUse, FreePlain
<1>2. /\ kind \in [Blocks -> Sizes \cup {"plain", "none"}] /\ free \in [Blocks -> SUBSET SlotNums]
      /\ pool \in [Sizes -> Addr \cup {Null}]
  BY DEF TypeOK
<1>3. \A a \in Blocks : kind'[a] = IF a = b THEN "none" ELSE kind[a]
  BY <1>1, <1>2
<1>4. InUse' = InUse \ {x}
  <2>1. SlotOf(x) = 0
    BY <1>1 DEF InUse
  <2>2. ASSUME NEW y \in Addr
        PROVE  y \in InUse' <=> y \in InUse /\ y # x
    <3>1. /\ BlockOf(y) \in Blocks /\ y = Thinker(BlockOf(y), SlotOf(y))
          /\ x = Thinker(b, SlotOf(x))
      BY <1>1, Addresses
    <3>2. y \in InUse' <=> \/ kind'[BlockOf(y)] \in Sizes /\ SlotOf(y) \notin free[BlockOf(y)]
                           \/ kind'[BlockOf(y)] = "plain" /\ SlotOf(y) = 0
      BY <1>1 DEF InUse
    <3>3. CASE BlockOf(y) = b
      <4>1. y \notin InUse'
        BY <1>1, <1>3, <3>1, <3>2, <3>3
      <4>2. y \in InUse => y = x
        BY <1>1, <2>1, <3>1, <3>3, InUseIs
      <4> QED BY <4>1, <4>2
    <3>4. CASE BlockOf(y) # b
      BY <1>3, <3>1, <3>2, <3>4, InUseIs
    <3> QED BY <3>3, <3>4
  <2>3. InUse \subseteq Addr /\ InUse' \subseteq Addr
    BY DEF InUse
  <2> QED BY <2>2, <2>3
<1>5. \A y \in Addr \cup {Cap} : y # x => sp'[y] = links[y]
  BY <1>1
<1>6. PoolInv'
  <2> SUFFICES ASSUME NEW z \in Sizes
               PROVE  \E m \in Nat : \E c : Partials(z, m, c)'
    BY DEF PoolInv
  <2>1. \A y \in Addr : kind[BlockOf(y)] = z /\ y \notin InUse => sp'[y] = sp[y]
    BY <1>5
  <2> QED BY <1>1, <1>3, <2>1, OthersKept
<1>7. \A y \in (InUse \ {x}) \cup {Cap} : sp'[y] = links[y]
  BY <1>1, <1>5 DEF InUse
<1> QED BY <1>1, <1>2, <1>4, <1>6, <1>7

\* The highest of a set and one more.
LEMMA HigherOf ==
  ASSUME NEW S, S \subseteq SlotNums, S # {}, NEW s \in SlotNums,
         Highest(S \cup {s}) # s
  PROVE  Highest(S \cup {s}) = Highest(S)
<1>1. \A r \in SlotNums : r \in Int
  BY ThinkersAssumption DEF SlotNums
<1>2. /\ Highest(S \cup {s}) \in S \cup {s}
      /\ \A r \in S \cup {s} : r <= Highest(S \cup {s})
  BY Extremes
<1>3. Highest(S) \in S /\ \A r \in S : r <= Highest(S)
  BY Extremes
<1> QED BY <1>1, <1>2, <1>3

LEMMA HighestOfOne ==
  ASSUME NEW s \in SlotNums
  PROVE  Highest({s}) = s
BY Extremes

\* Z_ThinkFree of a slot in a block that stays.
LEMMA SlotFreed ==
  ASSUME TypeOK, PoolInv, NEW x \in InUse, NEW links \in [Addr \cup {Cap} -> Addr \cup {Cap, Null}],
         \A y \in Addr : y \notin InUse => links[y] = sp[y],
         FreeSlot(x, links)
  PROVE  /\ kind' \in [Blocks -> Sizes \cup {"plain", "none"}]
         /\ free' \in [Blocks -> SUBSET SlotNums]
         /\ sp' \in [Addr \cup {Cap} -> Addr \cup {Cap, Null}]
         /\ pool' \in [Sizes -> Addr \cup {Null}]
         /\ InUse' = InUse \ {x}
         /\ \A y \in (InUse \ {x}) \cup {Cap} : sp'[y] = links[y]
         /\ PoolInv'
<1> DEFINE b == BlockOf(x)
           s == SlotOf(x)
           size == kind[b]
           wasFull == free[b] = {}
           nextPool == IF wasFull THEN pool[size] ELSE links[LinkSlot(b)]
           bits == free[b] \cup {s}
<1>1. /\ x \in Addr /\ b \in Blocks /\ s \in SlotNums /\ x # Cap /\ x = Thinker(b, s)
  BY Addresses DEF InUse
<1>2. /\ size \in Sizes /\ size # "plain" /\ kind' = kind
      /\ free' = [free EXCEPT ![b] = bits]
      /\ pool' = IF wasFull THEN [pool EXCEPT ![size] = Base(b)] ELSE pool
      /\ sp' = IF s = Highest(bits) THEN [links EXCEPT ![x] = nextPool] ELSE links
  BY ThinkersAssumption DEF FreeSlot
<1>3. /\ kind \in [Blocks -> Sizes \cup {"plain", "none"}] /\ free \in [Blocks -> SUBSET SlotNums]
      /\ pool \in [Sizes -> Addr \cup {Null}]
  BY DEF TypeOK
<1>4. bits \subseteq SlotNums /\ bits # {} /\ s \notin free[b] /\ free[b] \subseteq SlotNums
  BY <1>1, <1>2, <1>3, InUseIs
<1> HIDE DEF size, wasFull, nextPool, bits, s, b
<1>5. ~ wasFull => /\ LinkSlot(b) \in Addr /\ LinkSlot(b) \notin InUse
                   /\ nextPool = sp[LinkSlot(b)]
  BY <1>1, <1>2, LinkSlots DEF size, wasFull, nextPool
<1>6. /\ kind' \in [Blocks -> Sizes \cup {"plain", "none"}]
      /\ free' \in [Blocks -> SUBSET SlotNums]
      /\ sp' \in [Addr \cup {Cap} -> Addr \cup {Cap, Null}]
      /\ pool' \in [Sizes -> Addr \cup {Null}]
  <2>1. nextPool \in Addr \cup {Cap, Null}
    BY <1>1, <1>2, <1>3, <1>5 DEF nextPool
  <2>2. sp' \in [Addr \cup {Cap} -> Addr \cup {Cap, Null}]
    BY <1>1, <1>2, <2>1
  <2>3. pool' \in [Sizes -> Addr \cup {Null}]
    BY <1>1, <1>2, <1>3, Bases
  <2> QED BY <1>2, <1>3, <1>4, <2>2, <2>3
<1>7. \A a \in Blocks : /\ kind'[a] = kind[a]
                        /\ free'[a] = IF a = b THEN bits ELSE free[a]
  BY <1>2, <1>3
<1>8. InUse' = InUse \ {x}
  <2>1. ASSUME NEW y \in Addr
        PROVE  y \in InUse' <=> y \in InUse /\ y # x
    <3>1. BlockOf(y) \in Blocks /\ y = Thinker(BlockOf(y), SlotOf(y))
      BY Addresses
    <3>2. y \in InUse' <=> \/ kind[BlockOf(y)] \in Sizes /\ SlotOf(y) \notin free'[BlockOf(y)]
                           \/ kind[BlockOf(y)] = "plain" /\ SlotOf(y) = 0
      BY <1>2 DEF InUse
    <3>3. CASE BlockOf(y) = b
      <4>1. y = x <=> SlotOf(y) = s
        BY <1>1, <3>1, <3>3 DEF s
      <4>2. kind[BlockOf(y)] \in Sizes /\ kind[BlockOf(y)] # "plain"
        BY <1>2, <3>3 DEF size
      <4>3. y \in InUse' <=> SlotOf(y) \notin bits
        BY <1>7, <3>1, <3>2, <3>3, <4>2
      <4>4. y \in InUse <=> SlotOf(y) \notin free[b]
        BY <3>3, <4>2, InUseIs
      <4> QED BY <4>1, <4>3, <4>4 DEF bits
    <3>4. CASE BlockOf(y) # b
      <4>1. free'[BlockOf(y)] = free[BlockOf(y)]
        BY <1>7, <3>1, <3>4
      <4>2. y # x
        BY <3>4 DEF b
      <4> QED BY <3>2, <4>1, <4>2, InUseIs
    <3> QED BY <3>3, <3>4
  <2>2. InUse \subseteq Addr /\ InUse' \subseteq Addr
    BY DEF InUse
  <2> QED BY <2>1, <2>2
<1>9. \A y \in Addr \cup {Cap} : y # x => sp'[y] = links[y]
  BY <1>2
<1>10. \A y \in (InUse \ {x}) \cup {Cap} : sp'[y] = links[y]
  BY <1>1, <1>9 DEF InUse
<1>11. LinkSlot(b)' = Thinker(b, Highest(bits))
  BY <1>1, <1>7 DEF LinkSlot
<1>12. PoolInv'
  <2> SUFFICES ASSUME NEW z \in Sizes
               PROVE  \E m \in Nat : \E c : Partials(z, m, c)'
    BY DEF PoolInv
  <2>1. CASE z # size
    <3>1. \A y \in Addr : kind[BlockOf(y)] = z /\ y \notin InUse => sp'[y] = sp[y]
      BY <1>9
    <3>2. pool'[z] = pool[z]
      BY <1>2, <1>3, <2>1
    <3> QED BY <1>1, <1>7, <2>1, <3>1, <3>2, OthersKept DEF size
  <2>2. CASE z = size /\ ~ wasFull
    <3>1. PICK m \in Nat : \E c : Partials(z, m, c)
      BY DEF PoolInv
    <3>2. PICK c : Partials(z, m, c)
      BY <3>1
    <3>3. ASSUME NEW i \in 1 .. m
          PROVE  /\ kind'[c[i]] = kind[c[i]] /\ free'[c[i]] # {}
                 /\ (sp[LinkSlot(c[i])])' = sp[LinkSlot(c[i])]
      <4>1. /\ c[i] \in Blocks /\ kind[c[i]] = z /\ free[c[i]] # {}
            /\ LinkSlot(c[i]) \in Addr /\ LinkSlot(c[i]) \notin InUse
        BY <3>2, Enlisted
      <4>2. CASE c[i] # b
        <5>1. free'[c[i]] = free[c[i]] /\ kind'[c[i]] = kind[c[i]]
          BY <1>7, <4>1, <4>2
        <5>2. LinkSlot(c[i])' = LinkSlot(c[i])
          BY <5>1 DEF LinkSlot
        <5> QED BY <1>9, <4>1, <5>1, <5>2
      <4>3. CASE c[i] = b /\ s = Highest(bits)
        <5>1. LinkSlot(b)' = x
          BY <1>1, <1>11, <4>3
        <5>2. sp'[x] = nextPool
          BY <1>1, <1>2, <4>3
        <5> QED BY <1>4, <1>5, <1>7, <2>2, <4>1, <4>3, <5>1, <5>2
      <4>4. CASE c[i] = b /\ s # Highest(bits)
        <5>1. Highest(bits) = Highest(free[b])
          BY <1>1, <1>4, <4>1, <4>4, HigherOf DEF bits
        <5>2. LinkSlot(b)' = LinkSlot(b)
          BY <1>11, <5>1 DEF LinkSlot
        <5>3. sp'[LinkSlot(b)] = sp[LinkSlot(b)]
          BY <1>9, <4>1, <4>4
        <5> QED BY <1>4, <1>7, <4>1, <4>4, <5>2, <5>3
      <4> QED BY <4>2, <4>3, <4>4
    <3>4. pool'[z] = pool[z]
      BY <1>2, <2>2
    <3>5. Partials(z, m, c)'
      BY <3>2, <3>3, <3>4, PartialsKept
    <3> QED BY <3>5
  <2>3. CASE z = size /\ wasFull
    <3>1. PICK m \in Nat : \E c : Partials(z, m, c)
      BY DEF PoolInv
    <3>2. PICK c : Partials(z, m, c)
      BY <3>1
    <3> DEFINE d == [i \in 1 .. m + 2 |-> IF i = 1 THEN b ELSE c[i - 1]]
    <3>3. d[1] = b /\ \A i \in 1 .. m + 1 : d[i + 1] = c[i]
      OBVIOUS
    <3>4. /\ pool[z] = Base(c[1]) /\ c[m + 1] = 0
          /\ \A i \in 1 .. m + 1 : c[i] \in Blocks \cup {0}
          /\ \A i \in 1 .. m : /\ c[i] \in Blocks /\ kind[c[i]] = z /\ free[c[i]] # {}
                               /\ sp[LinkSlot(c[i])] = Base(c[i + 1])
                               /\ LinkSlot(c[i]) \in Addr /\ LinkSlot(c[i]) \notin InUse
                               /\ c[i] # b
      BY <2>3, <3>2, Enlisted DEF wasFull
    <3>5. bits = {s}
      BY <2>3 DEF wasFull, bits
    <3>6. Highest(bits) = s /\ LinkSlot(b)' = x
      BY <1>1, <1>11, <3>5, HighestOfOne
    <3>7. sp'[x] = Base(c[1])
      BY <1>1, <1>2, <2>3, <3>4, <3>6 DEF nextPool
    <3>8. pool'[z] = Base(d[1])
      BY <1>2, <1>3, <2>3, <3>3
    <3>9. ASSUME NEW i \in 1 .. m
          PROVE  /\ c[i] \in Blocks /\ kind'[c[i]] = z /\ free'[c[i]] # {}
                 /\ (sp[LinkSlot(c[i])])' = Base(c[i + 1])
      <4>1. free'[c[i]] = free[c[i]] /\ kind'[c[i]] = z
        BY <1>7, <3>4
      <4>2. LinkSlot(c[i])' = LinkSlot(c[i])
        BY <4>1 DEF LinkSlot
      <4> QED BY <1>9, <3>4, <4>1, <4>2
    <3>10. ASSUME NEW i \in 1 .. m + 1
           PROVE  /\ d[i] \in Blocks /\ kind'[d[i]] = z /\ free'[d[i]] # {}
                  /\ (sp[LinkSlot(d[i])])' = Base(d[i + 1])
      <4>1. CASE i = 1
        <5>1. d[i] = b /\ d[i + 1] = c[1]
          BY <3>3, <4>1
        <5> QED BY <1>1, <1>4, <1>7, <2>3, <3>6, <3>7, <5>1 DEF size
      <4>2. CASE i # 1
        <5>1. i - 1 \in 1 .. m /\ d[i] = c[i - 1] /\ d[i + 1] = c[(i - 1) + 1]
          BY <3>3, <4>2
        <5> QED BY <3>9, <5>1
      <4> QED BY <4>1, <4>2
    <3>11. ASSUME NEW i \in 1 .. m + 1, NEW j \in 1 .. m + 1, d[i] = d[j]
           PROVE  i = j
      <4>1. \A l \in 1 .. m + 1 : l # 1 => l - 1 \in 1 .. m /\ d[l] = c[l - 1]
        OBVIOUS
      <4>2. CASE i = 1 \/ j = 1
        BY <3>3, <3>4, <3>11, <4>1, <4>2
      <4>3. CASE i # 1 /\ j # 1
        <5>1. i - 1 \in 1 .. m /\ j - 1 \in 1 .. m /\ c[i - 1] = c[j - 1]
          BY <3>11, <4>1, <4>3
        <5>2. i - 1 = j - 1
          BY <3>2, <5>1, Enlisted
        <5> QED BY <5>2
      <4> QED BY <4>2, <4>3
    <3>12. d \in [1 .. (m + 1) + 1 -> Blocks \cup {0}] /\ d[(m + 1) + 1] = 0 /\ m + 1 \in Nat
      <4>1. (m + 1) + 1 = m + 2
        OBVIOUS
      <4>2. \A i \in 1 .. m + 2 : (IF i = 1 THEN b ELSE c[i - 1]) \in Blocks \cup {0}
        BY <1>1, <3>4
      <4> QED BY <3>4, <4>1, <4>2
    <3> HIDE DEF d
    <3>13. Partials(z, m + 1, d)'
      BY <3>8, <3>10, <3>11, <3>12 DEF Partials
    <3> QED BY <3>12, <3>13
  <2> QED BY <2>1, <2>2, <2>3
<1> QED BY <1>6, <1>8, <1>10, <1>12

\* Z_ThinkFree of the last slot in use of a block, which goes back to the heap.
LEMMA BlockFreed ==
  ASSUME TypeOK, PoolInv, NEW x \in InUse, NEW links \in [Addr \cup {Cap} -> Addr \cup {Cap, Null}],
         \A y \in Addr : y \notin InUse => links[y] = sp[y],
         FreeBlock(x, links)
  PROVE  /\ kind' \in [Blocks -> Sizes \cup {"plain", "none"}]
         /\ free' \in [Blocks -> SUBSET SlotNums]
         /\ sp' \in [Addr \cup {Cap} -> Addr \cup {Cap, Null}]
         /\ pool' \in [Sizes -> Addr \cup {Null}]
         /\ InUse' = InUse \ {x}
         /\ \A y \in (InUse \ {x}) \cup {Cap} : sp'[y] = links[y]
         /\ PoolInv'
<1> DEFINE b == BlockOf(x)
           s == SlotOf(x)
<1>0. PICK size \in Sizes : size = kind[b]
  BY DEF FreeBlock
<1> DEFINE nextPool == links[LinkSlot(b)]
           before == {c \in Listed(size) : links[LinkSlot(c)] = Base(b)}
           Cut(y) == \E c \in before : pool[size] # Base(b) /\ y = LinkSlot(c)
<1>1. /\ x \in Addr /\ b \in Blocks /\ s \in SlotNums /\ x # Cap /\ x = Thinker(b, s)
  BY Addresses DEF InUse
<1>2. /\ size \in Sizes /\ size # "plain" /\ "none" \notin Sizes
      /\ free[b] \cup {s} = SlotNums
      /\ kind' = [kind EXCEPT ![b] = "none"]
      /\ free' = [free EXCEPT ![b] = {}]
      /\ pool' = IF pool[size] = Base(b) THEN [pool EXCEPT ![size] = nextPool] ELSE pool
      /\ sp' = Forgotten([y \in DOMAIN links |-> IF Cut(y) THEN nextPool ELSE links[y]], b)
  BY <1>0, ThinkersAssumption DEF FreeBlock
<1>3. /\ kind \in [Blocks -> Sizes \cup {"plain", "none"}] /\ free \in [Blocks -> SUBSET SlotNums]
      /\ pool \in [Sizes -> Addr \cup {Null}]
      /\ DOMAIN links = Addr \cup {Cap}
      /\ \A y \in Addr \cup {Cap} : links[y] \in Addr \cup {Cap, Null}
  BY DEF TypeOK
<1>4. sp' = [y \in Addr \cup {Cap} |->
               IF BlockOf(y) = b THEN Null ELSE IF Cut(y) THEN nextPool ELSE links[y]]
  <2> HIDE DEF Cut, b, nextPool
  <2> QED BY <1>2, <1>3 DEF Forgotten
<1> HIDE DEF Cut, b, s, nextPool, before
<1>5. free[b] # {} /\ s \notin free[b]
  <2>1. s \notin free[b]
    BY <1>1, <1>2, InUseIs, <1>0 DEF b, s
  <2>2. \E r \in SlotNums : r # s
    BY Addresses
  <2> QED BY <1>2, <2>1, <2>2
<1>6. LinkSlot(b) \in Addr /\ LinkSlot(b) \notin InUse /\ nextPool = sp[LinkSlot(b)]
  BY <1>1, <1>2, <1>5, LinkSlots, <1>0 DEF nextPool
<1>7. PICK m \in Nat : \E c : Partials(size, m, c)
  BY <1>2 DEF PoolInv
<1>8. PICK c : Partials(size, m, c)
  BY <1>7
<1>9. /\ pool[size] = Base(c[1]) /\ c[m + 1] = 0
      /\ \A i \in 1 .. m + 1 : c[i] \in Blocks \cup {0}
      /\ \A i \in 1 .. m : /\ c[i] \in Blocks /\ kind[c[i]] = size /\ free[c[i]] # {}
                           /\ sp[LinkSlot(c[i])] = Base(c[i + 1])
                           /\ links[LinkSlot(c[i])] = Base(c[i + 1])
                           /\ LinkSlot(c[i]) \in Addr /\ LinkSlot(c[i]) \notin InUse
                           /\ BlockOf(LinkSlot(c[i])) = c[i]
      /\ \A i, j \in 1 .. m : c[i] = c[j] => i = j
      /\ Listed(size) = {c[i] : i \in 1 .. m}
  BY <1>2, <1>8, Enlisted, ChainIs
\* What is cut is the link slot of a block of the list.
<1>10. \A y : Cut(y) => \E i \in 1 .. m : /\ y = LinkSlot(c[i]) /\ Base(c[i + 1]) = Base(b)
                                          /\ pool[size] # Base(b)
  BY <1>9 DEF Cut, before
<1>11. \A y : Cut(y) => y \in Addr /\ y \notin InUse /\ kind[BlockOf(y)] = size
  BY <1>9, <1>10
<1>12. \A y \in Addr \cup {Cap} : BlockOf(y) # b /\ ~ Cut(y) => sp'[y] = links[y]
  BY <1>4
<1>13. \A a \in Blocks : /\ kind'[a] = IF a = b THEN "none" ELSE kind[a]
                         /\ free'[a] = IF a = b THEN {} ELSE free[a]
  BY <1>2, <1>3
<1>14. /\ kind' \in [Blocks -> Sizes \cup {"plain", "none"}]
       /\ free' \in [Blocks -> SUBSET SlotNums]
       /\ sp' \in [Addr \cup {Cap} -> Addr \cup {Cap, Null}]
       /\ pool' \in [Sizes -> Addr \cup {Null}]
  <2>1. nextPool \in Addr \cup {Cap, Null}
    BY <1>3, <1>6 DEF nextPool
  <2>2. sp' \in [Addr \cup {Cap} -> Addr \cup {Cap, Null}]
    BY <1>3, <1>4, <2>1
  <2>3. pool[size] = Base(b) => nextPool \in Addr \cup {Null}
    <3> SUFFICES ASSUME pool[size] = Base(b) PROVE nextPool \in Addr \cup {Null}
      OBVIOUS
    <3>1. 1 \in 1 .. m + 1
      OBVIOUS
    <3>2. c[1] = b
      BY <1>1, <1>9, <3>1, Bases
    <3>3. 1 \in 1 .. m /\ 1 + 1 \in 1 .. m + 1
      BY <1>1, <1>9, <3>1, <3>2, Addresses
    <3>4. nextPool = Base(c[1 + 1]) /\ c[1 + 1] \in Blocks \cup {0}
      BY <1>6, <1>9, <3>2, <3>3
    <3> QED BY <3>4, Bases
  <2>4. pool' \in [Sizes -> Addr \cup {Null}]
    BY <1>2, <1>3, <2>3
  <2> QED BY <1>2, <1>3, <2>2, <2>4
<1>15. InUse' = InUse \ {x}
  <2>1. ASSUME NEW y \in Addr
        PROVE  y \in InUse' <=> y \in InUse /\ y # x
    <3>1. /\ BlockOf(y) \in Blocks /\ SlotOf(y) \in SlotNums /\ y = Thinker(BlockOf(y), SlotOf(y))
      BY Addresses
    <3>2. y \in InUse' <=> \/ kind'[BlockOf(y)] \in Sizes /\ SlotOf(y) \notin free'[BlockOf(y)]
                           \/ kind'[BlockOf(y)] = "plain" /\ SlotOf(y) = 0
      BY DEF InUse
    <3>3. CASE BlockOf(y) = b
      <4>1. y \notin InUse'
        BY <1>1, <1>2, <1>13, <3>2, <3>3
      <4>2. y \in InUse => SlotOf(y) \notin free[b]
        BY <1>2, <3>3, InUseIs, <1>0
      <4>3. y \in InUse => y = x
        BY <1>1, <1>2, <3>1, <3>3, <4>2
      <4> QED BY <4>1, <4>3
    <3>4. CASE BlockOf(y) # b
      <4>1. free'[BlockOf(y)] = free[BlockOf(y)] /\ kind'[BlockOf(y)] = kind[BlockOf(y)]
        BY <1>13, <3>1, <3>4
      <4>2. y # x
        BY <3>4 DEF b
      <4> QED BY <3>2, <4>1, <4>2, InUseIs
    <3> QED BY <3>3, <3>4
  <2>2. InUse \subseteq Addr /\ InUse' \subseteq Addr
    BY DEF InUse
  <2> QED BY <2>1, <2>2
<1>16. ASSUME NEW y \in (InUse \ {x}) \cup {Cap}
       PROVE  sp'[y] = links[y]
  <2>1. CASE y = Cap
    <3>1. BlockOf(y) # b
      BY <1>1, <2>1, Addresses
    <3>2. ~ Cut(y)
      BY <1>11, <2>1, Addresses
    <3> QED BY <1>12, <2>1, <3>1, <3>2
  <2>2. CASE y # Cap
    <3>1. y \in Addr /\ y \in InUse /\ y # x
      BY <2>2, <1>16 DEF InUse
    <3>2. y = Thinker(BlockOf(y), SlotOf(y)) /\ SlotOf(y) \in SlotNums
      BY <3>1, Addresses
    <3>3. BlockOf(y) # b
      <4> SUFFICES ASSUME BlockOf(y) = b PROVE FALSE
        OBVIOUS
      <4>1. SlotOf(y) \notin free[b]
        BY <1>2, <3>1, InUseIs, <1>0
      <4>2. SlotOf(y) = s
        BY <1>2, <3>2, <4>1
      <4> QED BY <1>1, <3>1, <3>2, <4>2
    <3>4. ~ Cut(y)
      BY <1>11, <3>1
    <3> QED BY <1>12, <3>1, <3>3, <3>4
  <2> QED BY <2>1, <2>2
<1>17. ASSUME NEW z \in Sizes, z # size
       PROVE  \E l \in Nat : \E d : Partials(z, l, d)'
  <2>1. ASSUME NEW y \in Addr, kind[BlockOf(y)] = z, y \notin InUse
        PROVE  sp'[y] = sp[y]
    <3>1. BlockOf(y) # b
      BY <1>17, <2>1, <1>0
    <3>2. ~ Cut(y)
      BY <1>11, <1>17, <2>1
    <3> QED BY <1>12, <2>1, <3>1, <3>2
  <2>2. pool'[z] = pool[z]
    BY <1>2, <1>3, <1>17
  <2> QED BY <1>1, <1>13, <1>17, <2>1, <2>2, OthersKept, <1>0
\* The link slot of any other block of the list.
<1>18. ASSUME NEW i \in 1 .. m, c[i] # b
       PROVE  /\ c[i] \in Blocks /\ kind'[c[i]] = size /\ free'[c[i]] # {}
              /\ (sp[LinkSlot(c[i])])' = IF Cut(LinkSlot(c[i])) THEN nextPool ELSE Base(c[i + 1])
  <2>1. c[i] \in Blocks /\ kind'[c[i]] = size /\ free'[c[i]] = free[c[i]] /\ free[c[i]] # {}
    BY <1>9, <1>13, <1>18
  <2>2. LinkSlot(c[i])' = LinkSlot(c[i])
    BY <2>1 DEF LinkSlot
  <2>3. /\ LinkSlot(c[i]) \in Addr /\ BlockOf(LinkSlot(c[i])) # b
        /\ links[LinkSlot(c[i])] = Base(c[i + 1])
    BY <1>9, <1>18
  <2> QED BY <1>4, <2>1, <2>2, <2>3

<1>19. ASSUME \A i \in 1 .. m : c[i] # b
       PROVE  \E l \in Nat : \E d : Partials(size, l, d)'
  <2>1. c[1] # b
    <3>1. CASE m = 0
      BY <1>1, <1>9, <3>1, Addresses
    <3>2. CASE m # 0
      <4>1. 1 \in 1 .. m
        BY <3>2
      <4> QED BY <1>19, <4>1
    <3> QED BY <3>1, <3>2
  <2>2. pool[size] # Base(b) /\ pool'[size] = Base(c[1])
    <3>1. 1 \in 1 .. m + 1
      OBVIOUS
    <3> QED BY <1>1, <1>2, <1>9, <2>1, <3>1, Bases
  <2>3. ASSUME NEW i \in 1 .. m
        PROVE  ~ Cut(LinkSlot(c[i]))
    <3> SUFFICES ASSUME NEW j \in 1 .. m, Base(c[j + 1]) = Base(b)
                 PROVE  FALSE
      BY <1>10
    <3>1. j + 1 \in 1 .. m + 1
      OBVIOUS
    <3>2. c[j + 1] = b
      BY <1>1, <1>9, <3>1, Bases
    <3>3. j + 1 \in 1 .. m
      BY <1>1, <1>9, <3>1, <3>2, Addresses
    <3> QED BY <1>19, <3>2, <3>3
  <2>4. c \in [1 .. m + 1 -> Blocks \cup {0}] /\ m \in Nat
    BY <1>8 DEF Partials
  <2>5. ASSUME NEW i \in 1 .. m
        PROVE  /\ c[i] \in Blocks /\ kind'[c[i]] = size /\ free'[c[i]] # {}
               /\ (sp[LinkSlot(c[i])])' = Base(c[i + 1])
    <3>1. c[i] # b
      BY <1>19
    <3> QED BY <1>18, <2>3, <3>1
  <2>6. \A i, j \in 1 .. m : c[i] = c[j] => i = j
    BY <1>9
  <2>7. Partials(size, m, c)'
    BY <1>9, <2>2, <2>4, <2>5, <2>6 DEF Partials
  <2> QED BY <2>4, <2>7
<1>20. ASSUME NEW k \in 1 .. m, c[k] = b
       PROVE  \E l \in Nat : \E d : Partials(size, l, d)'
  <2> DEFINE d == [i \in 1 .. m |-> IF i < k THEN c[i] ELSE c[i + 1]]
  <2>1. /\ k \in Int /\ 1 <= k /\ k <= m /\ m - 1 \in Nat /\ (m - 1) + 1 = m
        /\ k + 1 \in 1 .. m + 1 /\ 1 \in 1 .. m + 1 /\ 1 \in 1 .. m
    OBVIOUS
  <2>2. \A i \in 1 .. m : d[i] = IF i < k THEN c[i] ELSE c[i + 1]
    OBVIOUS
  <2>3. nextPool = Base(c[k + 1])
    BY <1>6, <1>9, <1>20
  <2>4. \A i \in 1 .. m : c[i] = b => i = k
    BY <1>9, <1>20
  <2>5. pool'[size] = Base(d[1])
    <3>1. CASE k = 1
      <4>1. pool[size] = Base(b) /\ d[1] = c[k + 1]
        BY <1>9, <1>20, <2>1, <2>2, <3>1
      <4> QED BY <1>2, <1>3, <2>3, <4>1
    <3>2. CASE k # 1
      <4>1. d[1] = c[1] /\ c[1] # b
        BY <2>1, <2>2, <2>4, <3>2
      <4>2. pool[size] # Base(b)
        BY <1>1, <1>9, <2>1, <4>1, Bases
      <4> QED BY <1>2, <1>9, <4>1, <4>2
    <3> QED BY <3>1, <3>2
  \* The only link to the block is that of the block before it.
  <2>6. ASSUME NEW i \in 1 .. m, i # k
        PROVE  (sp[LinkSlot(c[i])])' = IF i + 1 = k THEN Base(c[k + 1]) ELSE Base(c[i + 1])
    <3>1. Cut(LinkSlot(c[i])) => i + 1 = k
      <4> SUFFICES ASSUME NEW j \in 1 .. m, LinkSlot(c[i]) = LinkSlot(c[j]),
                          Base(c[j + 1]) = Base(b)
                   PROVE  i + 1 = k
        BY <1>10
      <4>1. c[i] = c[j]
        BY <1>9
      <4>2. i = j /\ j + 1 \in 1 .. m + 1
        BY <1>9, <4>1
      <4>3. c[j + 1] = b
        BY <1>1, <1>9, <4>2, Bases
      <4>4. j + 1 \in 1 .. m
        BY <1>1, <1>9, <4>2, <4>3, Addresses
      <4> QED BY <2>4, <4>2, <4>3, <4>4
    <3>2. i + 1 = k => Cut(LinkSlot(c[i]))
      <4> SUFFICES ASSUME i + 1 = k PROVE Cut(LinkSlot(c[i]))
        OBVIOUS
      <4>1. c[i] \in before
        BY <1>9, <1>20 DEF before
      <4>2. c[1] # b
        BY <2>1, <2>4
      <4>3. pool[size] # Base(b)
        BY <1>1, <1>9, <2>1, <4>2, Bases
      <4> QED BY <4>1, <4>3 DEF Cut
    <3>3. c[i] # b
      BY <2>4, <2>6
    <3> QED BY <1>18, <2>3, <3>1, <3>2, <3>3
  <2>7. ASSUME NEW i \in 1 .. m - 1
        PROVE  /\ d[i] \in Blocks /\ kind'[d[i]] = size /\ free'[d[i]] # {}
               /\ (sp[LinkSlot(d[i])])' = Base(d[i + 1])
    <3>1. CASE i < k
      <4>1. i \in 1 .. m /\ i # k /\ d[i] = c[i] /\ c[i] # b /\ i + 1 \in 1 .. m
        BY <2>1, <2>2, <2>4, <3>1
      <4>2. d[i + 1] = IF i + 1 = k THEN c[k + 1] ELSE c[i + 1]
        BY <2>1, <2>2, <3>1, <4>1
      <4>3. (sp[LinkSlot(c[i])])' = Base(d[i + 1])
        BY <2>6, <4>1, <4>2
      <4> QED BY <1>18, <4>1, <4>3
    <3>2. CASE ~ (i < k)
      <4>1. /\ i \in 1 .. m /\ i + 1 \in 1 .. m /\ i + 1 # k /\ (i + 1) + 1 # k
            /\ d[i] = c[i + 1] /\ d[i + 1] = c[(i + 1) + 1] /\ c[i + 1] # b
        <5>1. i \in 1 .. m /\ i + 1 \in 1 .. m /\ i + 1 # k /\ (i + 1) + 1 # k /\ ~ (i + 1 < k)
          BY <2>1, <3>2
        <5> QED BY <2>2, <2>4, <3>2, <5>1
      <4>2. (sp[LinkSlot(c[i + 1])])' = Base(d[i + 1])
        BY <2>6, <4>1
      <4> QED BY <1>18, <4>1, <4>2
    <3> QED BY <3>1, <3>2
  <2>8. ASSUME NEW i \in 1 .. m - 1, NEW j \in 1 .. m - 1, d[i] = d[j]
        PROVE  i = j
    <3> DEFINE up(l) == IF l < k THEN l ELSE l + 1
    <3>1. \A l \in 1 .. m - 1 : up(l) \in 1 .. m /\ d[l] = c[up(l)]
      BY <2>1, <2>2
    <3>2. up(i) = up(j)
      <4> HIDE DEF up, d
      <4>1. up(i) \in 1 .. m /\ up(j) \in 1 .. m /\ c[up(i)] = c[up(j)]
        BY <2>8, <3>1
      <4> QED BY <1>9, <4>1
    <3> QED BY <2>1, <3>2
  <2>9. d \in [1 .. (m - 1) + 1 -> Blocks \cup {0}]
    <3>1. \A i \in 1 .. m : (IF i < k THEN c[i] ELSE c[i + 1]) \in Blocks \cup {0}
      <4> TAKE i \in 1 .. m
      <4>1. i \in 1 .. m + 1 /\ i + 1 \in 1 .. m + 1
        OBVIOUS
      <4> QED BY <1>9, <4>1
    <3> QED BY <2>1, <3>1
  <2>10. d[(m - 1) + 1] = 0
    BY <1>9, <2>1, <2>2
  <2> HIDE DEF d
  <2>11. Partials(size, m - 1, d)'
    <3>1. \A i \in 1 .. m - 1 : /\ d[i] \in Blocks /\ kind'[d[i]] = size /\ free'[d[i]] # {}
                                /\ (sp[LinkSlot(d[i])])' = Base(d[i + 1])
      BY <2>7
    <3>2. \A i, j \in 1 .. m - 1 : d[i] = d[j] => i = j
      BY <2>8
    <3> QED BY <2>1, <2>5, <2>9, <2>10, <3>1, <3>2 DEF Partials
  <2> QED BY <2>1, <2>11
<1>21. PoolInv'
  <2> SUFFICES ASSUME NEW z \in Sizes
               PROVE  \E l \in Nat : \E d : Partials(z, l, d)'
    BY DEF PoolInv
  <2>1. CASE z # size
    BY <1>17, <2>1
  <2>2. CASE z = size
    <3>1. \E l \in Nat : \E d : Partials(size, l, d)'
      BY <1>19, <1>20
    <3> QED BY <2>2, <3>1
  <2> QED BY <2>1, <2>2
<1> QED BY <1>14, <1>15, <1>16, <1>21

-----------------------------------------------------------------------------
(***************************************************************************)
(* A thinker is spawned.                                                   *)
(***************************************************************************)

\* P_AddThinker of a slot that was not in use.
LEMMA Added ==
  ASSUME TypeOK, ListInv, at \in {"out", "turn"}, NEW x \in Addr, x \notin InUse,
         NEW cleared \in [Addr \cup {Cap} -> Addr \cup {Cap, Null}],
         \A y \in InUse \cup {Cap} : cleared[y] = sp[y],
         sp' = Appended(cleared, x), tail' = x, InUse' = InUse \cup {x},
         kind' \in [Blocks -> Sizes \cup {"plain", "none"}],
         free' \in [Blocks -> SUBSET SlotNums],
         pool' \in [Sizes -> Addr \cup {Null}],
         UNCHANGED <<removed, at, prev, cur, ran>>
  PROVE  /\ TypeOK' /\ ListInv'
         /\ \A y \in Addr : y \notin InUse /\ y # x => sp'[y] = cleared[y]
<1>1. PICK n \in Nat : \E e : InOrder(n, e) /\ Standing(n, e)
  BY DEF ListInv
<1>2. PICK e : InOrder(n, e) /\ Standing(n, e)
  BY <1>1
<1>3. tail \in InUse \cup {Cap} /\ Cap \notin InUse /\ InUse \subseteq Addr /\ x # Cap
  <2>1. tail = e[n] /\ n \in 0 .. n + 1
    BY <1>2 DEF Standing
  <2> QED BY <1>2, <2>1, Placed, Addresses
<1>4. /\ sp' \in [Addr \cup {Cap} -> Addr \cup {Cap, Null}]
      /\ sp'[tail] = x /\ sp'[x] = sp[tail]
      /\ \A y \in Addr \cup {Cap} : y # x /\ y # tail => sp'[y] = cleared[y]
  <2>1. sp' = [cleared EXCEPT ![x] = cleared[tail], ![tail] = x]
    BY DEF Appended
  <2>2. tail # x /\ tail \in Addr \cup {Cap} /\ cleared[tail] = sp[tail]
    BY <1>3
  <2> QED BY <2>1, <2>2
<1>5. \A y \in InUse \cup {Cap} : y # tail => sp'[y] = sp[y]
  BY <1>3, <1>4
<1>6. ListInv'
  BY <1>2, <1>4, <1>5, ListAppended
<1>7. TypeOK'
  BY <1>4 DEF TypeOK
<1>8. \A y \in Addr : y \notin InUse /\ y # x => sp'[y] = cleared[y]
  BY <1>3, <1>4, Addresses
<1> QED BY <1>6, <1>7, <1>8

\* Z_Malloc gives a block that was not in use.
LEMMA Given ==
  ASSUME HeapHasRoom
  PROVE  NewBlock \in Blocks /\ kind[NewBlock] = "none"
<1> DEFINE S == {b \in Blocks : kind[b] = "none"}
<1>1. S \subseteq Nat /\ S # {}
  BY ThinkersAssumption DEF HeapHasRoom, Blocks
<1>2. \E s \in S : \A r \in S : s <= r
  BY <1>1, Least
<1>3. Lowest(S) \in S
  BY <1>2 DEF Lowest
<1> QED BY <1>3 DEF NewBlock

\* Its first slot becomes the only one in use.
LEMMA FirstInUse ==
  ASSUME TypeOK, NEW b \in Blocks, kind[b] = "none", NEW k,
         \/ k \in Sizes /\ free'[b] = SlotNums \ {0}
         \/ k = "plain",
         kind' = [kind EXCEPT ![b] = k],
         \A a \in Blocks : a # b => free'[a] = free[a]
  PROVE  /\ Base(b) \in Addr /\ Base(b) \notin InUse /\ InUse' = InUse \cup {Base(b)}
         /\ \A y \in InUse \cup {Cap} : BlockOf(y) # b
<1>1. \A a \in Blocks : kind'[a] = IF a = b THEN k ELSE kind[a]
  BY DEF TypeOK
<1>2. "none" \notin Sizes /\ "plain" \notin Sizes
  BY ThinkersAssumption
<1>3. Base(b) \in Addr /\ BlockOf(Base(b)) = b /\ SlotOf(Base(b)) = 0
  BY Bases
<1>4. ASSUME NEW y \in Addr
      PROVE  /\ y \in InUse' <=> y \in InUse \/ y = Base(b)
             /\ y \in InUse => BlockOf(y) # b
  <2>1. /\ BlockOf(y) \in Blocks /\ SlotOf(y) \in SlotNums /\ y = Thinker(BlockOf(y), SlotOf(y))
    BY Addresses
  <2>2. y \in InUse' <=> \/ kind'[BlockOf(y)] \in Sizes /\ SlotOf(y) \notin free'[BlockOf(y)]
                         \/ kind'[BlockOf(y)] = "plain" /\ SlotOf(y) = 0
    BY DEF InUse
  <2>3. y \in InUse => BlockOf(y) # b
    BY <1>2, InUseIs
  <2>4. CASE BlockOf(y) = b
    <3>1. y \in InUse' <=> SlotOf(y) = 0
      BY <1>1, <1>2, <2>1, <2>2, <2>4
    <3>2. SlotOf(y) = 0 <=> y = Base(b)
      BY <1>3, <2>1, <2>4 DEF Base
    <3> QED BY <2>3, <2>4, <3>1, <3>2
  <2>5. CASE BlockOf(y) # b
    <3>1. free'[BlockOf(y)] = free[BlockOf(y)] /\ kind'[BlockOf(y)] = kind[BlockOf(y)]
      BY <1>1, <2>1, <2>5
    <3> QED BY <1>3, <2>2, <2>5, <3>1, InUseIs
  <2> QED BY <2>3, <2>4, <2>5
<1>5. InUse \subseteq Addr /\ InUse' \subseteq Addr
  BY DEF InUse
<1>6. BlockOf(Cap) # b
  BY Addresses
<1> QED BY <1>3, <1>4, <1>5, <1>6

LEMMA SpawnInNewKeeps ==
  ASSUME ThinkersInv, NEW z \in Sizes, SpawnInNew(z)
  PROVE  ThinkersInv'
<1>0. PICK b \in Blocks : b = NewBlock /\ kind[b] = "none"
  BY Given DEF SpawnInNew
<1> DEFINE x == Base(b)
           y == Thinker(b, Slots - 1)
           cleared == [sp EXCEPT ![x] = Null, ![y] = Null]
<1>1. TypeOK /\ PoolInv /\ ListInv /\ at \in {"out", "turn"}
  BY DEF ThinkersInv, SpawnInNew, MaySpawn
<1>2. b \in Blocks /\ kind[b] = "none" /\ b # 0
  BY <1>0, Addresses
<1>3. /\ kind' = [kind EXCEPT ![b] = z]
      /\ free' = [free EXCEPT ![b] = SlotNums \ {0}]
      /\ pool' = [pool EXCEPT ![z] = x]
      /\ sp' = Appended(cleared, x) /\ tail' = x
      /\ UNCHANGED <<removed, at, prev, cur, ran>>
  BY <1>0 DEF SpawnInNew, walk
<1>4. /\ kind \in [Blocks -> Sizes \cup {"plain", "none"}] /\ free \in [Blocks -> SUBSET SlotNums]
      /\ sp \in [Addr \cup {Cap} -> Addr \cup {Cap, Null}]
      /\ pool \in [Sizes -> Addr \cup {Null}]
  BY <1>1 DEF TypeOK
<1>5. /\ x \in Addr /\ x \notin InUse /\ InUse' = InUse \cup {x}
      /\ \A w \in InUse \cup {Cap} : BlockOf(w) # b
  <2>1. \A a \in Blocks : free'[a] = IF a = b THEN SlotNums \ {0} ELSE free[a]
    BY <1>3, <1>4
  <2> QED BY <1>1, <1>2, <1>3, <2>1, FirstInUse
<1>6. /\ y \in Addr /\ BlockOf(x) = b /\ BlockOf(y) = b /\ SlotOf(x) = 0 /\ SlotOf(y) = Slots - 1
      /\ y # x /\ y \notin InUse
  <2>1. y \in Addr /\ BlockOf(x) = b /\ BlockOf(y) = b /\ SlotOf(x) = 0 /\ SlotOf(y) = Slots - 1
    BY <1>2, Addresses, Bases
  <2>2. SlotOf(x) # SlotOf(y)
    BY <2>1, Addresses
  <2> QED BY <1>5, <2>1, <2>2
<1>7. /\ kind' \in [Blocks -> Sizes \cup {"plain", "none"}]
      /\ free' \in [Blocks -> SUBSET SlotNums]
      /\ pool' \in [Sizes -> Addr \cup {Null}]
      /\ cleared \in [Addr \cup {Cap} -> Addr \cup {Cap, Null}]
  BY <1>3, <1>4, <1>5
<1>8. /\ \A w \in Addr \cup {Cap} : BlockOf(w) # b => cleared[w] = sp[w]
      /\ cleared[y] = Null
  BY <1>4, <1>6
<1> HIDE DEF cleared, x, y
<1>9. \A w \in InUse \cup {Cap} : cleared[w] = sp[w]
  <2>1. InUse \cup {Cap} \subseteq Addr \cup {Cap}
    BY DEF InUse
  <2> QED BY <1>5, <1>8, <2>1
<1>10. /\ TypeOK' /\ ListInv'
       /\ \A w \in Addr : w \notin InUse /\ w # x => sp'[w] = cleared[w]
  BY <1>1, <1>3, <1>5, <1>7, <1>9, Added
<1>11. \A a \in Blocks : /\ kind'[a] = IF a = b THEN z ELSE kind[a]
                         /\ free'[a] = IF a = b THEN SlotNums \ {0} ELSE free[a]
  BY <1>3, <1>4
<1>12. PoolInv'
  <2> SUFFICES ASSUME NEW t \in Sizes
               PROVE  \E m \in Nat : \E c : Partials(t, m, c)'
    BY DEF PoolInv
  <2>1. CASE t # z
    <3>1. "none" \notin Sizes
      BY ThinkersAssumption
    <3>2. ASSUME NEW w \in Addr, kind[BlockOf(w)] = t, w \notin InUse
          PROVE  sp'[w] = sp[w]
      <4>1. BlockOf(w) # b
        BY <1>2, <3>1, <3>2
      <4> QED BY <1>6, <1>8, <1>10, <3>2, <4>1
    <3>3. pool'[t] = pool[t] /\ t # kind[b]
      BY <1>2, <1>3, <1>4, <2>1, <3>1
    <3> QED BY <1>1, <1>2, <1>11, <3>2, <3>3, OthersKept
  <2>2. CASE t = z
    <3> DEFINE d == [i \in 1 .. 2 |-> IF i = 1 THEN b ELSE 0]
               bits == SlotNums \ {0}
    <3>1. d \in [1 .. 1 + 1 -> Blocks \cup {0}] /\ d[1] = b /\ d[1 + 1] = 0
      BY <1>2
    <3>2. pool'[t] = Base(d[1])
      BY <1>3, <1>4, <2>2, <3>1 DEF x
    <3>3. bits # {} /\ free'[b] = bits /\ kind'[b] = t
      BY <1>2, <1>11, <2>2, Addresses
    <3>4. Highest(bits) = Slots - 1
      <4>1. Highest(bits) \in bits /\ \A r \in bits : r <= Highest(bits)
        BY <3>3, Extremes
      <4>2. Slots - 1 \in bits
        BY Addresses
      <4>3. \A r \in bits : r \in Int /\ r <= Slots - 1
        BY ThinkersAssumption DEF SlotNums
      <4> HIDE DEF bits
      <4> QED BY <4>1, <4>2, <4>3, ThinkersAssumption
    <3>5. LinkSlot(b)' = y
      BY <1>3, <3>3, <3>4 DEF LinkSlot, y
    <3>6. sp'[y] = Base(0)
      BY <1>6, <1>8, <1>10, Bases
    <3> HIDE DEF bits, d
    <3>7. \A i \in 1 .. 1 : /\ d[i] \in Blocks /\ kind'[d[i]] = t /\ free'[d[i]] # {}
                            /\ (sp[LinkSlot(d[i])])' = Base(d[i + 1])
      <4> TAKE i \in 1 .. 1
      <4>1. i = 1
        OBVIOUS
      <4> QED BY <1>2, <3>1, <3>3, <3>5, <3>6, <4>1
    <3>8. \A i, j \in 1 .. 1 : d[i] = d[j] => i = j
      OBVIOUS
    <3>9. 1 \in Nat
      OBVIOUS
    <3>10. Partials(t, 1, d)'
      BY <3>1, <3>2, <3>7, <3>8, <3>9 DEF Partials
    <3> QED BY <3>9, <3>10
  <2> QED BY <2>1, <2>2
<1> QED BY <1>10, <1>12 DEF ThinkersInv

\* No list of partially full blocks is the other case of the list's first link.
LEMMA NoneListed ==
  ASSUME NEW z \in Sizes, pool'[z] = Null
  PROVE  \E m \in Nat : \E c : Partials(z, m, c)'
<1> DEFINE d == [i \in 1 .. 1 |-> 0]
<1>1. d \in [1 .. 0 + 1 -> Blocks \cup {0}] /\ d[1] = 0 /\ d[0 + 1] = 0 /\ 0 \in Nat
  OBVIOUS
<1>2. pool'[z] = Base(d[1])
  BY <1>1, Bases
<1> HIDE DEF d
<1>3. \A i \in 1 .. 0 : FALSE
  OBVIOUS
<1>4. Partials(z, 0, d)'
  BY <1>1, <1>2, <1>3 DEF Partials
<1> QED BY <1>1, <1>4

LEMMA SpawnInPartialKeeps ==
  ASSUME ThinkersInv, NEW z \in Sizes, SpawnInPartial(z)
  PROVE  ThinkersInv'
<1>1. TypeOK /\ PoolInv /\ ListInv /\ at \in {"out", "turn"} /\ pool[z] # Null
  BY DEF ThinkersInv, SpawnInPartial, MaySpawn
<1>2. PICK m \in Nat : \E c : Partials(z, m, c)
  BY <1>1 DEF PoolInv
<1>3. PICK c : Partials(z, m, c)
  BY <1>2
<1>4. /\ pool[z] = Base(c[1]) /\ c[m + 1] = 0
      /\ \A i \in 1 .. m + 1 : c[i] \in Blocks \cup {0}
      /\ \A i \in 1 .. m : /\ c[i] \in Blocks /\ kind[c[i]] = z /\ free[c[i]] # {}
                           /\ LinkSlot(c[i]) \in Addr /\ LinkSlot(c[i]) \notin InUse
                           /\ BlockOf(LinkSlot(c[i])) = c[i]
      /\ \A i, j \in 1 .. m : c[i] = c[j] => i = j
  BY <1>1, <1>3, Enlisted
<1>5. 1 \in 1 .. m
  <2>1. c[1] # 0
    BY <1>1, <1>4, Bases
  <2> QED BY <1>4, <2>1
<1> DEFINE b == c[1]
<1>6. /\ b \in Blocks /\ kind[b] = z /\ BlockOf(pool[z]) = b /\ z # "plain"
      /\ free[b] # {} /\ free[b] \subseteq SlotNums
  BY <1>1, <1>4, <1>5, Bases, ThinkersAssumption DEF TypeOK
<1>7. PICK s \in free[b] : s = Lowest(free[b])
  BY <1>6, Extremes
<1>8. \A r \in free[b] : s <= r
  BY <1>6, <1>7, Extremes
<1> DEFINE x == Thinker(b, s)
           cleared == [sp EXCEPT ![x] = Null]
<1>9. /\ free' = [free EXCEPT ![b] = free[b] \ {s}]
      /\ pool' = IF free[b] = {s} THEN [pool EXCEPT ![z] = cleared[x]] ELSE pool
      /\ sp' = Appended(cleared, x) /\ tail' = x
      /\ kind' = kind /\ UNCHANGED <<removed, at, prev, cur, ran>>
  <2> HIDE DEF b
  <2> QED BY <1>6, <1>7 DEF SpawnInPartial, walk
<1>10. /\ x \in Addr /\ BlockOf(x) = b /\ SlotOf(x) = s /\ x \notin InUse
  BY <1>6, <1>7, Addresses, InUseIs
<1>11. /\ kind \in [Blocks -> Sizes \cup {"plain", "none"}] /\ free \in [Blocks -> SUBSET SlotNums]
       /\ sp \in [Addr \cup {Cap} -> Addr \cup {Cap, Null}]
       /\ pool \in [Sizes -> Addr \cup {Null}]
  BY <1>1 DEF TypeOK
<1> HIDE DEF b
<1>12. /\ cleared \in [Addr \cup {Cap} -> Addr \cup {Cap, Null}] /\ cleared[x] = Null
       /\ \A w \in Addr \cup {Cap} : w # x => cleared[w] = sp[w]
  BY <1>10, <1>11
<1> HIDE DEF x, cleared
<1>13. \A a \in Blocks : /\ kind'[a] = kind[a]
                         /\ free'[a] = IF a = b THEN free[b] \ {s} ELSE free[a]
  BY <1>9, <1>11
<1>14. InUse' = InUse \cup {x}
  <2>1. ASSUME NEW y \in Addr
        PROVE  y \in InUse' <=> y \in InUse \/ y = x
    <3>1. BlockOf(y) \in Blocks /\ y = Thinker(BlockOf(y), SlotOf(y))
      BY Addresses
    <3>2. y \in InUse' <=> \/ kind[BlockOf(y)] \in Sizes /\ SlotOf(y) \notin free'[BlockOf(y)]
                           \/ kind[BlockOf(y)] = "plain" /\ SlotOf(y) = 0
      BY <1>9 DEF InUse
    <3>3. CASE BlockOf(y) = b
      <4>1. y = x <=> SlotOf(y) = s
        BY <1>10, <3>1, <3>3 DEF x
      <4>2. y \in InUse' <=> SlotOf(y) \notin free[b] \/ SlotOf(y) = s
        BY <1>6, <1>13, <3>1, <3>2, <3>3
      <4>3. y \in InUse <=> SlotOf(y) \notin free[b]
        BY <1>6, <3>3, InUseIs
      <4> QED BY <4>1, <4>2, <4>3
    <3>4. CASE BlockOf(y) # b
      <4>1. free'[BlockOf(y)] = free[BlockOf(y)] /\ y # x
        BY <1>10, <1>13, <3>1, <3>4
      <4> QED BY <3>2, <4>1, InUseIs
    <3> QED BY <3>3, <3>4
  <2>2. InUse \subseteq Addr /\ InUse' \subseteq Addr
    BY DEF InUse
  <2> QED BY <1>10, <2>1, <2>2
<1>15. /\ kind' \in [Blocks -> Sizes \cup {"plain", "none"}]
       /\ free' \in [Blocks -> SUBSET SlotNums]
       /\ pool' \in [Sizes -> Addr \cup {Null}]
  <2>1. \A a \in Blocks : free[a] \subseteq SlotNums
    BY <1>11
  <2>2. free' \in [Blocks -> SUBSET SlotNums]
    BY <1>6, <1>9, <1>11
  <2>3. pool' \in [Sizes -> Addr \cup {Null}]
    BY <1>9, <1>11, <1>12
  <2> QED BY <1>9, <1>11, <2>2, <2>3
<1>16. \A w \in InUse \cup {Cap} : cleared[w] = sp[w]
  BY <1>10, <1>12, Addresses DEF InUse
<1>17. /\ TypeOK' /\ ListInv'
       /\ \A w \in Addr : w \notin InUse /\ w # x => sp'[w] = cleared[w]
  BY <1>1, <1>9, <1>10, <1>12, <1>14, <1>15, <1>16, Added
<1>18. \A w \in Addr : w \notin InUse /\ w # x => sp'[w] = sp[w]
  BY <1>12, <1>17
<1>19. PoolInv'
  <2> SUFFICES ASSUME NEW t \in Sizes
               PROVE  \E l \in Nat : \E d : Partials(t, l, d)'
    BY DEF PoolInv
  <2>1. CASE t # z
    <3>1. \A w \in Addr : kind[BlockOf(w)] = t /\ w \notin InUse => sp'[w] = sp[w]
      BY <1>6, <1>10, <1>18, <2>1
    <3>2. pool'[t] = pool[t]
      BY <1>9, <1>11, <2>1
    <3> QED BY <1>1, <1>6, <1>13, <2>1, <3>1, <3>2, OthersKept
  <2>2. CASE t = z /\ free[b] = {s}
    <3>1. pool'[t] = Null
      BY <1>9, <1>11, <1>12, <2>2
    <3> QED BY <3>1, NoneListed
  <2>3. CASE t = z /\ free[b] # {s}
    <3> DEFINE left == free[b] \ {s}
    <3>1. left # {} /\ left \subseteq SlotNums
      BY <1>6, <1>7, <2>3
    <3>2. Highest(left) = Highest(free[b]) /\ Highest(free[b]) # s
      <4>1. Highest(left) \in left /\ \A r \in left : r <= Highest(left)
        BY <3>1, Extremes
      <4>2. Highest(free[b]) \in free[b] /\ \A r \in free[b] : r <= Highest(free[b])
        BY <1>6, Extremes
      <4>3. \A r \in free[b] : r \in Int
        BY <1>6, ThinkersAssumption DEF SlotNums
      <4>4. Highest(free[b]) # s
        <5>1. Highest(left) \in free[b] /\ Highest(left) # s /\ s <= Highest(left)
          BY <1>8, <4>1
        <5> HIDE DEF left
        <5> QED BY <1>7, <4>2, <4>3, <5>1
      <4>5. Highest(free[b]) \in left /\ Highest(left) \in free[b]
        BY <4>1, <4>2, <4>4
      <4> HIDE DEF left
      <4> QED BY <4>1, <4>2, <4>3, <4>4, <4>5
    <3>3. ASSUME NEW i \in 1 .. m
          PROVE  /\ kind'[c[i]] = kind[c[i]] /\ free'[c[i]] # {}
                 /\ (sp[LinkSlot(c[i])])' = sp[LinkSlot(c[i])]
      <4>1. /\ c[i] \in Blocks /\ free[c[i]] # {}
            /\ LinkSlot(c[i]) \in Addr /\ LinkSlot(c[i]) \notin InUse /\ BlockOf(LinkSlot(c[i])) = c[i]
        BY <1>4
      <4>2. free'[c[i]] = IF c[i] = b THEN left ELSE free[c[i]]
        BY <1>13, <4>1
      <4>3. LinkSlot(c[i])' = LinkSlot(c[i])
        <5> HIDE DEF left
        <5> QED BY <3>2, <4>2 DEF LinkSlot
      <4>4. LinkSlot(c[i]) # x
        <5>1. CASE c[i] = b
          <6>1. Highest(free[b]) \in SlotNums
            BY <1>6, Extremes
          <6>2. SlotOf(LinkSlot(c[i])) = Highest(free[b])
            BY <1>6, <5>1, <6>1, Addresses DEF LinkSlot
          <6> QED BY <1>10, <3>2, <6>2
        <5>2. CASE c[i] # b
          BY <1>10, <4>1, <5>2
        <5> QED BY <5>1, <5>2
      <4>5. sp'[LinkSlot(c[i])] = sp[LinkSlot(c[i])]
        BY <1>18, <4>1, <4>4
      <4> QED BY <1>13, <3>1, <4>1, <4>2, <4>3, <4>5
    <3>4. pool'[t] = pool[t]
      BY <1>9, <2>3
    <3>5. Partials(t, m, c)'
      BY <1>3, <2>3, <3>3, <3>4, PartialsKept
    <3> QED BY <3>5
  <2> QED BY <2>1, <2>2, <2>3
<1> QED BY <1>17, <1>19 DEF ThinkersInv

LEMMA SpawnPlainKeeps ==
  ASSUME ThinkersInv, SpawnPlain
  PROVE  ThinkersInv'
<1>1. PICK b \in Blocks : b = NewBlock /\ kind[b] = "none"
  BY Given DEF SpawnPlain
<1>2. TypeOK /\ PoolInv /\ ListInv /\ at \in {"out", "turn"}
  BY DEF ThinkersInv, SpawnPlain, MaySpawn
<1>3. /\ kind' = [kind EXCEPT ![b] = "plain"] /\ free' = free /\ pool' = pool
      /\ sp' = Appended(sp, Base(b)) /\ tail' = Base(b)
      /\ UNCHANGED <<removed, at, prev, cur, ran>>
  BY <1>1 DEF SpawnPlain, walk
<1>4. /\ kind \in [Blocks -> Sizes \cup {"plain", "none"}] /\ free \in [Blocks -> SUBSET SlotNums]
      /\ sp \in [Addr \cup {Cap} -> Addr \cup {Cap, Null}]
      /\ pool \in [Sizes -> Addr \cup {Null}]
  BY <1>2 DEF TypeOK
<1>5. /\ Base(b) \in Addr /\ Base(b) \notin InUse /\ InUse' = InUse \cup {Base(b)}
  BY <1>1, <1>2, <1>3, FirstInUse
<1>6. /\ kind' \in [Blocks -> Sizes \cup {"plain", "none"}]
      /\ free' \in [Blocks -> SUBSET SlotNums]
      /\ pool' \in [Sizes -> Addr \cup {Null}]
  BY <1>3, <1>4
<1>7. /\ TypeOK' /\ ListInv'
      /\ \A w \in Addr : w \notin InUse /\ w # Base(b) => sp'[w] = sp[w]
  BY <1>2, <1>3, <1>4, <1>5, <1>6, Added
<1>8. PoolInv'
  <2> SUFFICES ASSUME NEW t \in Sizes
               PROVE  \E m \in Nat : \E c : Partials(t, m, c)'
    BY DEF PoolInv
  <2>1. t # kind[b]
    BY <1>1, ThinkersAssumption
  <2>2. ASSUME NEW w \in Addr, kind[BlockOf(w)] = t, w \notin InUse
        PROVE  sp'[w] = sp[w]
    <3>1. BlockOf(w) # BlockOf(Base(b))
      BY <2>1, <2>2, Bases
    <3> QED BY <1>7, <2>2, <3>1
  <2>3. \A a \in Blocks : a # b => kind'[a] = kind[a] /\ free'[a] = free[a]
    BY <1>3, <1>4
  <2> QED BY <1>2, <1>3, <2>1, <2>2, <2>3, OthersKept
<1> QED BY <1>7, <1>8 DEF ThinkersInv

-----------------------------------------------------------------------------
(***************************************************************************)
(* A thinker is freed.                                                     *)
(***************************************************************************)

LEMMA Freed ==
  ASSUME TypeOK, PoolInv, NEW x \in InUse, NEW links \in [Addr \cup {Cap} -> Addr \cup {Cap, Null}],
         \A y \in Addr : y \notin InUse => links[y] = sp[y],
         ThinkFree(x, links)
  PROVE  /\ kind' \in [Blocks -> Sizes \cup {"plain", "none"}]
         /\ free' \in [Blocks -> SUBSET SlotNums]
         /\ sp' \in [Addr \cup {Cap} -> Addr \cup {Cap, Null}]
         /\ pool' \in [Sizes -> Addr \cup {Null}]
         /\ InUse' = InUse \ {x} /\ removed' = removed \ {x}
         /\ \A y \in (InUse \ {x}) \cup {Cap} : sp'[y] = links[y]
         /\ PoolInv'
<1>1. removed' = removed \ {x} /\ (FreePlain(x, links) \/ FreeSlot(x, links) \/ FreeBlock(x, links))
  BY DEF ThinkFree
<1>2. CASE FreePlain(x, links)
  BY <1>1, <1>2, PlainFreed
<1>3. CASE FreeSlot(x, links)
  BY <1>1, <1>3, SlotFreed
<1>4. CASE FreeBlock(x, links)
  BY <1>1, <1>4, BlockFreed
<1> QED BY <1>1, <1>2, <1>3, <1>4

\* What TypeOK says of the list's variables.
LEMMA Typed ==
  ASSUME TypeOK
  PROVE  /\ sp \in [Addr \cup {Cap} -> Addr \cup {Cap, Null}]
         /\ removed \subseteq InUse /\ ran \subseteq InUse
         /\ tail \in Addr \cup {Cap} /\ prev \in Addr \cup {Cap} /\ cur \in Addr \cup {Cap}
         /\ at \in Places
BY DEF TypeOK

LEMMA ReapKeeps ==
  ASSUME ThinkersInv, Reap
  PROVE  ThinkersInv'
<1>1. TypeOK /\ PoolInv /\ ListInv
  BY DEF ThinkersInv
<1>2. PICK n \in Nat : \E e : InOrder(n, e) /\ Standing(n, e)
  BY <1>1 DEF ListInv
<1>3. PICK e : InOrder(n, e) /\ Standing(n, e)
  BY <1>2
<1>4. PICK k \in 1 .. n + 1 : prev = e[k - 1] /\ cur = e[k] /\ ran = {e[i] : i \in 1 .. k - 1}
  BY <1>3 DEF Reap, Standing, Walking
<1>5. k \in 1 .. n /\ k - 1 \in 0 .. n /\ k + 1 \in 0 .. n + 1 /\ k \in 0 .. n
  BY <1>3, <1>4, Placed DEF Reap
<1>6. PICK x : x = cur
  OBVIOUS
<1>7. PICK links : links = [sp EXCEPT ![prev] = sp[cur]]
  OBVIOUS
<1>8. /\ at = "walk" /\ at' = "walk" /\ prev' = prev /\ ThinkFree(x, links)
      /\ tail' = (IF links[prev] = Cap THEN prev ELSE tail) /\ cur' = links[prev]
      /\ ran' = ran \ {x}
  BY <1>6, <1>7 DEF Reap
<1>9. /\ x \in InUse /\ x = e[k] /\ sp[x] = e[k + 1]
      /\ \A i \in 1 .. n : e[i] \in InUse /\ sp[e[i]] = e[i + 1]
      /\ e[k + 1] \in InUse \cup {Cap} /\ prev \in InUse \cup {Cap}
      /\ Cap \notin InUse /\ InUse \subseteq Addr
      /\ e[0] = Cap /\ e[n + 1] = Cap /\ sp[Cap] = e[1] /\ tail = e[n]
  <2>1. \A i \in 1 .. n : e[i] \in InUse /\ sp[e[i]] = e[i + 1]
    BY <1>3 DEF InOrder
  <2>2. sp[Cap] = e[1] /\ tail = e[n]
    BY <1>3, <1>8 DEF Standing
  <2>3. e[k - 1] \in InUse \cup {Cap} /\ e[k + 1] \in InUse \cup {Cap}
    BY <1>3, <1>5, Placed
  <2> QED BY <1>3, <1>4, <1>5, <1>6, <2>1, <2>2, <2>3, Placed
<1>10. sp \in [Addr \cup {Cap} -> Addr \cup {Cap, Null}]
  BY <1>1, Typed
<1>11. /\ links \in [Addr \cup {Cap} -> Addr \cup {Cap, Null}]
       /\ links[prev] = e[k + 1]
       /\ \A y \in Addr \cup {Cap} : y # prev => links[y] = sp[y]
  BY <1>6, <1>7, <1>9, <1>10
<1>12. \A y \in Addr : y \notin InUse => links[y] = sp[y]
  BY <1>9, <1>11, Addresses
<1>13. /\ kind' \in [Blocks -> Sizes \cup {"plain", "none"}]
       /\ free' \in [Blocks -> SUBSET SlotNums]
       /\ sp' \in [Addr \cup {Cap} -> Addr \cup {Cap, Null}]
       /\ pool' \in [Sizes -> Addr \cup {Null}]
       /\ InUse' = InUse \ {x} /\ removed' = removed \ {x}
       /\ \A y \in (InUse \ {x}) \cup {Cap} : sp'[y] = links[y]
       /\ PoolInv'
  BY <1>1, <1>8, <1>9, <1>11, <1>12, Freed
<1> DEFINE f == [i \in 0 .. n |-> IF i < k THEN e[i] ELSE e[i + 1]]
<1>14. InOrder(n - 1, f)'
  <2>1. ASSUME NEW i \in 1 .. n, i # k
        PROVE  sp'[e[i]] = IF i = k - 1 THEN e[k + 1] ELSE sp[e[i]]
    <3>1. e[i] \in InUse /\ i \in 0 .. n
      BY <1>9, <2>1
    <3>2. e[i] # x
      BY <1>3, <1>5, <1>9, <2>1, <3>1, Placed
    <3>3. e[i] = prev <=> i = k - 1
      BY <1>3, <1>4, <1>5, <3>1, Placed
    <3>4. sp'[e[i]] = links[e[i]]
      BY <1>13, <3>1, <3>2
    <3> QED BY <1>9, <1>11, <3>1, <3>3, <3>4
  <2>2. InUse' = InUse \ {e[k]}
    BY <1>9, <1>13
  <2> HIDE DEF f
  <2> QED BY <1>3, <1>5, <2>1, <2>2, ListShortened DEF f
<1>15. /\ k \in Int /\ n \in Int /\ 1 <= k /\ k <= n
       /\ \A i \in 0 .. n : f[i] = IF i < k THEN e[i] ELSE e[i + 1]
  BY <1>5
<1> HIDE DEF f
<1>16. sp'[Cap] = f[1]
  <2>1. sp'[Cap] = links[Cap]
    BY <1>13
  <2>2. CASE k = 1
    <3>1. prev = Cap /\ f[1] = e[k + 1]
      BY <1>4, <1>9, <1>15, <2>2
    <3> QED BY <1>11, <2>1, <3>1
  <2>3. CASE k # 1
    <3>1. k - 1 \in 1 .. n /\ f[1] = e[1]
      BY <1>15, <2>3
    <3>2. prev # Cap
      BY <1>4, <1>9, <3>1
    <3> QED BY <1>9, <1>11, <2>1, <3>1, <3>2
  <2> QED BY <2>2, <2>3
<1>17. tail' = f[n - 1]
  <2>1. CASE k = n
    <3>1. links[prev] = Cap /\ f[n - 1] = e[k - 1]
      BY <1>9, <1>11, <1>15, <2>1
    <3> QED BY <1>4, <1>8, <3>1
  <2>2. CASE k # n
    <3>1. k + 1 \in 1 .. n /\ ~ (n - 1 < k) /\ n - 1 \in 0 .. n /\ (n - 1) + 1 = n
      BY <1>15, <2>2
    <3>2. links[prev] # Cap /\ f[n - 1] = e[n]
      BY <1>9, <1>11, <1>15, <3>1
    <3> QED BY <1>8, <1>9, <3>2
  <2> QED BY <2>1, <2>2
<1>18. ran' = {f[i] : i \in 1 .. k - 1}
  <2>1. \A i \in 1 .. k - 1 : f[i] = e[i] /\ e[i] # x
    <3> TAKE i \in 1 .. k - 1
    <3>1. i \in 0 .. n /\ i # k /\ i < k
      BY <1>15
    <3> QED BY <1>3, <1>5, <1>9, <1>15, <3>1, Placed
  <2>2. {f[i] : i \in 1 .. k - 1} = {e[i] : i \in 1 .. k - 1}
    BY <2>1
  <2>3. x \notin {e[i] : i \in 1 .. k - 1}
    BY <2>1
  <2> QED BY <1>4, <1>8, <2>2, <2>3
<1>19. Walking(n - 1, f)'
  <2>1. k \in 1 .. (n - 1) + 1 /\ k - 1 \in 0 .. n /\ k - 1 < k /\ k \in 0 .. n /\ ~ (k < k)
    BY <1>15
  <2>2. prev' = f[k - 1] /\ cur' = f[k]
    BY <1>4, <1>8, <1>11, <1>15, <2>1
  <2> QED BY <1>8, <1>18, <2>1, <2>2 DEF Walking
<1>20. ListInv'
  <2>1. Standing(n - 1, f)'
    BY <1>8, <1>16, <1>17, <1>19 DEF Standing
  <2>2. n - 1 \in Nat
    BY <1>15
  <2> QED BY <1>14, <2>1, <2>2 DEF ListInv
<1>21. TypeOK'
  <2>1. tail' \in Addr \cup {Cap} /\ prev' \in Addr \cup {Cap} /\ cur' \in Addr \cup {Cap}
    BY <1>8, <1>9, <1>11
  <2>2. removed' \subseteq InUse' /\ ran' \subseteq InUse'
    BY <1>1, <1>8, <1>13, Typed
  <2> QED BY <1>8, <1>13, <2>1, <2>2 DEF TypeOK, Places
<1> QED BY <1>13, <1>20, <1>21 DEF ThinkersInv

LEMMA WipeOneKeeps ==
  ASSUME ThinkersInv, WipeOne
  PROVE  ThinkersInv'
<1>1. TypeOK /\ PoolInv /\ ListInv /\ at = "wipe"
  BY DEF ThinkersInv, WipeOne
<1>2. PICK n \in Nat : \E e : InOrder(n, e) /\ Standing(n, e)
  BY <1>1 DEF ListInv
<1>3. PICK e : InOrder(n, e) /\ Standing(n, e)
  BY <1>2
<1>4. PICK x : x = cur
  OBVIOUS
<1>5. PICK links : links = sp
  OBVIOUS
<1>6. cur # Cap /\ ThinkFree(x, links) /\ cur' = sp[cur] /\ UNCHANGED <<tail, at, prev, ran>>
  BY <1>4, <1>5 DEF WipeOne
<1>7. cur = e[1] /\ ran = {}
  BY <1>1, <1>3 DEF Standing
<1>8. 1 \in 1 .. n /\ x \in InUse /\ x = e[1] /\ sp[x] = e[2] /\ e[2] \in InUse \cup {Cap}
  <2>1. 1 \in 1 .. n
    BY <1>3, <1>6, <1>7, Placed
  <2>2. 1 + 1 \in 0 .. n + 1 /\ 1 + 1 = 2
    BY <2>1
  <2> QED BY <1>3, <1>4, <1>7, <2>1, <2>2, Placed DEF InOrder
<1>9. links \in [Addr \cup {Cap} -> Addr \cup {Cap, Null}]
  BY <1>1, <1>5, Typed
<1>10. /\ kind' \in [Blocks -> Sizes \cup {"plain", "none"}]
       /\ free' \in [Blocks -> SUBSET SlotNums]
       /\ sp' \in [Addr \cup {Cap} -> Addr \cup {Cap, Null}]
       /\ pool' \in [Sizes -> Addr \cup {Null}]
       /\ InUse' = InUse \ {x} /\ removed' = removed \ {x}
       /\ \A y \in (InUse \ {x}) \cup {Cap} : sp'[y] = links[y]
       /\ PoolInv'
  BY <1>1, <1>5, <1>6, <1>8, <1>9, Freed
<1> DEFINE f == [i \in 0 .. n |-> IF i < 1 THEN e[i] ELSE e[i + 1]]
<1>11. InOrder(n - 1, f)'
  <2>1. ASSUME NEW i \in 1 .. n, i # 1
        PROVE  sp'[e[i]] = IF i = 1 - 1 THEN e[1 + 1] ELSE sp[e[i]]
    <3>1. e[i] \in InUse /\ i \in 0 .. n /\ 1 \in 0 .. n
      BY <1>3, <1>8, Placed
    <3>2. e[i] # x
      BY <1>3, <1>8, <2>1, <3>1, Placed
    <3>3. sp'[e[i]] = sp[e[i]]
      BY <1>5, <1>10, <3>1, <3>2
    <3> QED BY <3>3
  <2>2. InUse' = InUse \ {e[1]}
    BY <1>8, <1>10
  <2> HIDE DEF f
  <2> QED BY <1>3, <1>8, <2>1, <2>2, ListShortened DEF f
<1>12. f[1] = e[2] /\ n - 1 \in Nat
  BY <1>8
<1> HIDE DEF f
<1>13. cur' = f[1] /\ at' = "wipe" /\ ran' = {}
  BY <1>1, <1>4, <1>6, <1>7, <1>8, <1>12
<1>14. ListInv'
  <2>1. Standing(n - 1, f)'
    BY <1>13 DEF Standing
  <2> QED BY <1>11, <1>12, <2>1 DEF ListInv
<1>15. TypeOK'
  <2>1. tail' \in Addr \cup {Cap} /\ prev' \in Addr \cup {Cap} /\ cur' \in Addr \cup {Cap}
    <3>1. cur' \in InUse \cup {Cap} /\ InUse \subseteq Addr
      BY <1>3, <1>8, <1>12, <1>13, Placed
    <3> QED BY <1>1, <1>6, <3>1, Typed
  <2>2. removed' \subseteq InUse' /\ ran' \subseteq InUse'
    BY <1>1, <1>10, <1>13, Typed
  <2> QED BY <1>10, <1>13, <2>1, <2>2 DEF TypeOK, Places
<1> QED BY <1>10, <1>14, <1>15 DEF ThinkersInv

-----------------------------------------------------------------------------
(***************************************************************************)
(* The walk, and everything else.                                          *)
(***************************************************************************)

\* A step that leaves the memory of the level alone.
LEMMA MemoryKept ==
  ASSUME UNCHANGED <<kind, free, sp>>
  PROVE  /\ InUse' = InUse
         /\ \A n, e : InOrder(n, e) => InOrder(n, e)'
         /\ PoolInv /\ UNCHANGED pool => PoolInv'
<1>1. InUse' = InUse
  BY DEF InUse
<1>2. \A b : LinkSlot(b)' = LinkSlot(b)
  BY DEF LinkSlot
<1>3. ASSUME NEW n, NEW e, InOrder(n, e)
      PROVE  InOrder(n, e)'
  BY <1>1, <1>3 DEF InOrder
<1>4. ASSUME UNCHANGED pool, NEW z, NEW m, NEW c, Partials(z, m, c)
      PROVE  Partials(z, m, c)'
  BY <1>2, <1>4 DEF Partials
<1>5. PoolInv /\ UNCHANGED pool => PoolInv'
  BY <1>4 DEF PoolInv
<1> QED BY <1>1, <1>3, <1>5

\* With no thinkers the list is thinkercap alone.
LEMMA OnlyCap ==
  \E e : /\ e[0] = Cap /\ e[1] = Cap /\ e[0 + 1] = Cap
         /\ \A S : e \in [0 .. 0 + 1 -> S \cup {Cap}]
         /\ 0 \in Nat /\ \A i \in 1 .. 0 : FALSE
<1> DEFINE e == [i \in 0 .. 1 |-> Cap]
<1>1. \A S : e \in [0 .. 0 + 1 -> S \cup {Cap}]
  OBVIOUS
<1>2. e[0] = Cap /\ e[0 + 1] = Cap /\ e[1] = Cap
  OBVIOUS
<1>3. 0 \in Nat /\ \A i \in 1 .. 0 : FALSE
  OBVIOUS
<1> HIDE DEF e
<1> QED BY <1>1, <1>2, <1>3

LEMMA InitEstablishes == Init => ThinkersInv
<1> SUFFICES ASSUME Init PROVE ThinkersInv
  OBVIOUS
<1>1. InUse = {}
  BY ThinkersAssumption, Addresses DEF Init, InUse
<1>2. TypeOK
  <2>1. sp \in [Addr \cup {Cap} -> Addr \cup {Cap, Null}]
    BY DEF Init
  <2> QED BY <1>1, <2>1 DEF Init, TypeOK, Places
<1>3. PoolInv
  <2> SUFFICES ASSUME NEW z \in Sizes
               PROVE  \E m \in Nat : \E c : Partials(z, m, c)
    BY DEF PoolInv
  <2> DEFINE d == [i \in 1 .. 1 |-> 0]
  <2>1. d \in [1 .. 0 + 1 -> Blocks \cup {0}] /\ d[1] = 0 /\ d[0 + 1] = 0 /\ 0 \in Nat
    OBVIOUS
  <2>2. pool[z] = Base(d[1])
    BY <2>1, Bases DEF Init
  <2>3. \A i \in 1 .. 0 : FALSE
    OBVIOUS
  <2> HIDE DEF d
  <2>4. Partials(z, 0, d)
    BY <2>1, <2>2, <2>3 DEF Partials
  <2> QED BY <2>1, <2>4
<1>4. ListInv
  <2>1. PICK e : /\ e[0] = Cap /\ e[1] = Cap /\ e[0 + 1] = Cap
                 /\ \A S : e \in [0 .. 0 + 1 -> S \cup {Cap}]
                 /\ 0 \in Nat /\ \A i \in 1 .. 0 : FALSE
    BY OnlyCap
  <2>2. sp[Cap] = Cap /\ tail = Cap /\ at = "out" /\ ran = {}
    BY DEF Init
  <2>3. Standing(0, e)
    BY <2>1, <2>2 DEF Standing
  <2>4. InOrder(0, e)
    BY <1>1, <2>1 DEF InOrder
  <2> QED BY <2>1, <2>3, <2>4 DEF ListInv
<1> QED BY <1>2, <1>3, <1>4 DEF ThinkersInv

LEMMA RemoveKeeps ==
  ASSUME ThinkersInv, NEW x \in Addr, Remove(x)
  PROVE  ThinkersInv'
<1>1. /\ x \in InUse /\ removed' = removed \cup {x}
      /\ UNCHANGED <<kind, free, sp, pool, tail, at, prev, cur, ran>>
  BY DEF Remove, walk
<1>2. TypeOK /\ PoolInv /\ ListInv
  BY DEF ThinkersInv
<1>3. InUse' = InUse /\ PoolInv'
  BY <1>1, <1>2, MemoryKept
<1>4. TypeOK'
  BY <1>1, <1>2, <1>3 DEF TypeOK
<1>5. ListInv'
  <2>1. \A n, e : InOrder(n, e) => InOrder(n, e)'
    BY <1>1, MemoryKept
  <2>2. \A n, e : Standing(n, e) => Standing(n, e)'
    BY <1>1 DEF Standing, Walking
  <2> QED BY <1>2, <2>1, <2>2 DEF ListInv
<1> QED BY <1>3, <1>4, <1>5 DEF ThinkersInv

LEMMA StartWalkKeeps ==
  ASSUME ThinkersInv, StartWalk
  PROVE  ThinkersInv'
<1>1. TypeOK /\ PoolInv /\ ListInv
  BY DEF ThinkersInv
<1>2. PICK n \in Nat : \E e : InOrder(n, e) /\ Standing(n, e)
  BY <1>1 DEF ListInv
<1>3. PICK e : InOrder(n, e) /\ Standing(n, e)
  BY <1>2
<1>4. /\ at = "out" /\ at' = "walk" /\ prev' = Cap /\ cur' = sp[Cap] /\ ran' = {}
      /\ UNCHANGED <<kind, free, sp, removed, pool, tail>>
  BY DEF StartWalk, mem
<1>5. sp[Cap] = e[1] /\ tail = e[n] /\ e[0] = Cap /\ e[1] \in InUse \cup {Cap} /\ InUse \subseteq Addr
  <2>1. 1 \in 0 .. n + 1
    OBVIOUS
  <2> QED BY <1>3, <1>4, <2>1, Placed DEF Standing
<1>6. InUse' = InUse /\ InOrder(n, e)' /\ PoolInv'
  BY <1>1, <1>3, <1>4, MemoryKept
<1>7. Walking(n, e)'
  <2>1. 1 \in 1 .. n + 1 /\ 1 - 1 = 0 /\ {e[i] : i \in 1 .. 1 - 1} = {}
    OBVIOUS
  <2> QED BY <1>4, <1>5, <2>1 DEF Walking
<1>8. Standing(n, e)'
  BY <1>4, <1>5, <1>7 DEF Standing
<1>9. TypeOK'
  BY <1>1, <1>4, <1>5, <1>6 DEF TypeOK, Places
<1> QED BY <1>6, <1>8, <1>9 DEF ThinkersInv, ListInv

\* The walk stands at a place of the list.
LEMMA AtPlace ==
  ASSUME NEW n, NEW e, InOrder(n, e), Standing(n, e), at \in {"walk", "turn"}
  PROVE  \E k \in 1 .. n + 1 :
            /\ prev = e[k - 1] /\ cur = e[k]
            /\ cur # Cap <=> k <= n
            /\ at = "walk" => ran = {e[i] : i \in 1 .. k - 1}
            /\ at = "turn" => k <= n /\ ran = {e[i] : i \in 1 .. k}
<1>1. PICK k \in 1 .. n + 1 :
         /\ prev = e[k - 1] /\ cur = e[k]
         /\ at = "walk" => ran = {e[i] : i \in 1 .. k - 1}
         /\ at = "turn" => k <= n /\ ran = {e[i] : i \in 1 .. k}
  BY DEF Standing, Walking
<1>2. n \in Nat /\ e[n + 1] = Cap /\ \A i \in 1 .. n : e[i] # Cap
  BY Placed
<1>3. cur # Cap <=> k <= n
  <2>1. k <= n => k \in 1 .. n
    BY <1>2
  <2>2. ~ (k <= n) => k = n + 1
    BY <1>2
  <2> QED BY <1>1, <1>2, <2>1, <2>2
<1> QED BY <1>1, <1>3

LEMMA ThinkKeeps ==
  ASSUME ThinkersInv, Think
  PROVE  ThinkersInv'
<1>1. TypeOK /\ PoolInv /\ ListInv
  BY DEF ThinkersInv
<1>2. PICK n \in Nat : \E e : InOrder(n, e) /\ Standing(n, e)
  BY <1>1 DEF ListInv
<1>3. PICK e : InOrder(n, e) /\ Standing(n, e)
  BY <1>2
<1>4. /\ at = "walk" /\ cur # Cap /\ at' = "turn" /\ ran' = ran \cup {cur}
      /\ UNCHANGED <<kind, free, sp, removed, pool, tail, prev, cur>>
  BY DEF Think, mem
<1>5. PICK k \in 1 .. n + 1 : prev = e[k - 1] /\ cur = e[k] /\ k <= n /\ ran = {e[i] : i \in 1 .. k - 1}
  BY <1>3, <1>4, AtPlace
<1>6. InUse' = InUse /\ InOrder(n, e)' /\ PoolInv'
  BY <1>1, <1>3, <1>4, MemoryKept
<1>7. ran' = {e[i] : i \in 1 .. k}
  <2>1. 1 .. k = (1 .. k - 1) \cup {k}
    OBVIOUS
  <2> QED BY <1>4, <1>5, <2>1
<1>8. Walking(n, e)'
  BY <1>4, <1>5, <1>7 DEF Walking
<1>9. Standing(n, e)'
  BY <1>3, <1>4, <1>8 DEF Standing
<1>10. cur \in InUse
  BY <1>3, <1>5, Placed
<1>11. TypeOK'
  BY <1>1, <1>4, <1>6, <1>10 DEF TypeOK, Places
<1> QED BY <1>6, <1>9, <1>11 DEF ThinkersInv, ListInv

LEMMA EndTurnKeeps ==
  ASSUME ThinkersInv, EndTurn
  PROVE  ThinkersInv'
<1>1. TypeOK /\ PoolInv /\ ListInv
  BY DEF ThinkersInv
<1>2. PICK n \in Nat : \E e : InOrder(n, e) /\ Standing(n, e)
  BY <1>1 DEF ListInv
<1>3. PICK e : InOrder(n, e) /\ Standing(n, e)
  BY <1>2
<1>4. /\ at = "turn" /\ at' = "walk" /\ prev' = cur /\ cur' = sp[cur]
      /\ UNCHANGED <<kind, free, sp, removed, pool, tail, ran>>
  BY DEF EndTurn, mem
<1>5. PICK k \in 1 .. n + 1 : cur = e[k] /\ k <= n /\ ran = {e[i] : i \in 1 .. k}
  BY <1>3, <1>4, AtPlace
<1>6. InUse' = InUse /\ InOrder(n, e)' /\ PoolInv'
  BY <1>1, <1>3, <1>4, MemoryKept
<1>7. k \in 1 .. n /\ k + 1 \in 1 .. n + 1 /\ (k + 1) - 1 = k /\ k + 1 \in 0 .. n + 1
  BY <1>5
<1>8. sp[cur] = e[k + 1] /\ e[k + 1] \in InUse \cup {Cap} /\ InUse \subseteq Addr
  <2>1. \A i \in 1 .. n : sp[e[i]] = e[i + 1]
    BY <1>3 DEF InOrder
  <2>2. e[k + 1] \in InUse \cup {Cap} /\ InUse \subseteq Addr
    BY <1>3, <1>7, Placed
  <2> QED BY <1>5, <1>7, <2>1, <2>2
<1>9. Walking(n, e)'
  BY <1>4, <1>5, <1>7, <1>8 DEF Walking
<1>10. Standing(n, e)'
  BY <1>3, <1>4, <1>9 DEF Standing
<1>11. TypeOK'
  BY <1>1, <1>4, <1>6, <1>8 DEF TypeOK, Places
<1> QED BY <1>6, <1>10, <1>11 DEF ThinkersInv, ListInv

LEMMA EndWalkKeeps ==
  ASSUME ThinkersInv, EndWalk
  PROVE  ThinkersInv'
<1>1. TypeOK /\ PoolInv /\ ListInv
  BY DEF ThinkersInv
<1>2. PICK n \in Nat : \E e : InOrder(n, e) /\ Standing(n, e)
  BY <1>1 DEF ListInv
<1>3. PICK e : InOrder(n, e) /\ Standing(n, e)
  BY <1>2
<1>4. /\ at = "walk" /\ at' = "out" /\ prev' = Cap /\ ran' = {}
      /\ UNCHANGED <<kind, free, sp, removed, pool, tail, cur>>
  BY DEF EndWalk, mem
<1>5. InUse' = InUse /\ InOrder(n, e)' /\ PoolInv'
  BY <1>1, <1>3, <1>4, MemoryKept
<1>6. Standing(n, e)'
  BY <1>3, <1>4 DEF Standing
<1>7. TypeOK'
  BY <1>1, <1>4, <1>5 DEF TypeOK, Places
<1> QED BY <1>5, <1>6, <1>7 DEF ThinkersInv, ListInv

LEMMA SetupLevelKeeps ==
  ASSUME ThinkersInv, SetupLevel
  PROVE  ThinkersInv'
<1>1. TypeOK /\ ListInv /\ at = "out" /\ at' = "out"
  BY DEF ThinkersInv, SetupLevel, walk
<1>2. /\ kind' = [b \in Blocks |-> "none"] /\ free' = [b \in Blocks |-> {}]
      /\ sp' = [x \in DOMAIN sp |-> IF x = Cap THEN Cap ELSE Null]
      /\ tail' = Cap /\ pool' = [z \in Sizes |-> Null] /\ removed' = {}
      /\ UNCHANGED <<prev, cur, ran>>
  BY DEF SetupLevel, walk
<1>3. sp' \in [Addr \cup {Cap} -> Addr \cup {Cap, Null}] /\ sp'[Cap] = Cap
  BY <1>1, <1>2, Typed
<1>4. InUse' = {}
  BY <1>2, ThinkersAssumption, Addresses DEF InUse
<1>5. ran = {}
  BY <1>1 DEF ListInv, Standing
<1>6. PoolInv'
  BY <1>2, NoneListed DEF PoolInv
<1>7. ListInv'
  <2>1. PICK e : /\ e[0] = Cap /\ e[1] = Cap /\ e[0 + 1] = Cap
                 /\ \A S : e \in [0 .. 0 + 1 -> S \cup {Cap}]
                 /\ 0 \in Nat /\ \A i \in 1 .. 0 : FALSE
    BY OnlyCap
  <2>2. InOrder(0, e)'
    BY <1>4, <2>1 DEF InOrder
  <2>3. Standing(0, e)'
    BY <1>1, <1>2, <1>3, <1>5, <2>1 DEF Standing
  <2> QED BY <2>1, <2>2, <2>3 DEF ListInv
<1>8. TypeOK'
  BY <1>1, <1>2, <1>3, <1>4, <1>5 DEF TypeOK, Places
<1> QED BY <1>6, <1>7, <1>8 DEF ThinkersInv

LEMMA StartWipeKeeps ==
  ASSUME ThinkersInv, StartWipe
  PROVE  ThinkersInv'
<1>1. TypeOK /\ PoolInv /\ ListInv
  BY DEF ThinkersInv
<1>2. PICK n \in Nat : \E e : InOrder(n, e) /\ Standing(n, e)
  BY <1>1 DEF ListInv
<1>3. PICK e : InOrder(n, e) /\ Standing(n, e)
  BY <1>2
<1>4. /\ at = "out" /\ at' = "wipe" /\ cur' = sp[Cap]
      /\ UNCHANGED <<kind, free, sp, removed, pool, tail, prev, ran>>
  BY DEF StartWipe, mem
<1>5. sp[Cap] = e[1] /\ e[1] \in InUse \cup {Cap} /\ InUse \subseteq Addr /\ ran = {}
  <2>1. 1 \in 0 .. n + 1
    OBVIOUS
  <2> QED BY <1>3, <1>4, <2>1, Placed DEF Standing
<1>6. InUse' = InUse /\ InOrder(n, e)' /\ PoolInv'
  BY <1>1, <1>3, <1>4, MemoryKept
<1>7. Standing(n, e)'
  BY <1>4, <1>5 DEF Standing
<1>8. TypeOK'
  BY <1>1, <1>4, <1>5, <1>6 DEF TypeOK, Places
<1> QED BY <1>6, <1>7, <1>8 DEF ThinkersInv, ListInv

LEMMA EndWipeKeeps ==
  ASSUME ThinkersInv, EndWipe
  PROVE  ThinkersInv'
<1>1. TypeOK /\ PoolInv /\ ListInv
  BY DEF ThinkersInv
<1>2. PICK n \in Nat : \E e : InOrder(n, e) /\ Standing(n, e)
  BY <1>1 DEF ListInv
<1>3. PICK e : InOrder(n, e) /\ Standing(n, e)
  BY <1>2
<1>4. /\ at = "wipe" /\ cur = Cap /\ at' = "out"
      /\ sp' = [sp EXCEPT ![Cap] = Cap] /\ tail' = Cap /\ pool' = [z \in Sizes |-> Null]
      /\ UNCHANGED <<kind, free, removed, prev, cur, ran>>
  BY DEF EndWipe, InitThinkers
<1>5. InUse = {}
  <2>1. e[1] = Cap
    BY <1>3, <1>4 DEF Standing
  <2>2. n = 0
    <3>1. n # 0 => 1 \in 1 .. n
      OBVIOUS
    <3> QED BY <1>3, <2>1, <3>1, Placed
  <2>3. \A i \in 1 .. n : FALSE
    BY <2>2
  <2> QED BY <1>3, <2>3 DEF InOrder
<1>6. InUse' = {}
  BY <1>4, <1>5 DEF InUse
<1>7. sp' \in [Addr \cup {Cap} -> Addr \cup {Cap, Null}] /\ sp'[Cap] = Cap
  BY <1>1, <1>4, Typed
<1>8. ran = {}
  BY <1>3, <1>4 DEF Standing
<1>9. PoolInv'
  BY <1>4, NoneListed DEF PoolInv
<1>10. ListInv'
  <2>1. PICK f : /\ f[0] = Cap /\ f[1] = Cap /\ f[0 + 1] = Cap
                 /\ \A S : f \in [0 .. 0 + 1 -> S \cup {Cap}]
                 /\ 0 \in Nat /\ \A i \in 1 .. 0 : FALSE
    BY OnlyCap
  <2>2. InOrder(0, f)'
    BY <1>6, <2>1 DEF InOrder
  <2>3. Standing(0, f)'
    BY <1>4, <1>7, <1>8, <2>1 DEF Standing
  <2> QED BY <2>1, <2>2, <2>3 DEF ListInv
<1>11. TypeOK'
  BY <1>1, <1>4, <1>5, <1>6, <1>7, <1>8 DEF TypeOK, Places
<1> QED BY <1>9, <1>10, <1>11 DEF ThinkersInv

-----------------------------------------------------------------------------
(***************************************************************************)
(* The theorems.                                                           *)
(***************************************************************************)

LEMMA StepKeeps == ThinkersInv /\ [Next]_vars => ThinkersInv'
<1> SUFFICES ASSUME ThinkersInv, [Next]_vars
             PROVE  ThinkersInv'
  OBVIOUS
<1>1. ASSUME NEW z \in Sizes, SpawnInNew(z)
      PROVE  ThinkersInv'
  BY <1>1, SpawnInNewKeeps
<1>2. ASSUME NEW z \in Sizes, SpawnInPartial(z)
      PROVE  ThinkersInv'
  BY <1>2, SpawnInPartialKeeps
<1>3. CASE SpawnPlain
  BY <1>3, SpawnPlainKeeps
<1>4. ASSUME NEW x \in Addr, Remove(x)
      PROVE  ThinkersInv'
  BY <1>4, RemoveKeeps
<1>5. CASE Reap
  BY <1>5, ReapKeeps
<1>6. CASE Think
  BY <1>6, ThinkKeeps
<1>7. CASE EndTurn
  BY <1>7, EndTurnKeeps
<1>8. CASE EndWalk
  BY <1>8, EndWalkKeeps
<1>9. CASE WipeOne
  BY <1>9, WipeOneKeeps
<1>10. CASE EndWipe
  BY <1>10, EndWipeKeeps
<1>11. CASE StartWalk
  BY <1>11, StartWalkKeeps
<1>12. CASE SetupLevel
  BY <1>12, SetupLevelKeeps
<1>13. CASE StartWipe
  BY <1>13, StartWipeKeeps
<1>14. CASE UNCHANGED vars
  <2>1. UNCHANGED <<kind, free, sp, removed, pool, tail, at, prev, cur, ran>>
    BY <1>14 DEF vars
  <2>2. TypeOK /\ PoolInv /\ ListInv
    BY DEF ThinkersInv
  <2>3. InUse' = InUse /\ PoolInv' /\ \A n, e : InOrder(n, e) => InOrder(n, e)'
    BY <2>1, <2>2, MemoryKept
  <2>4. \A n, e : Standing(n, e) => Standing(n, e)'
    BY <2>1 DEF Standing, Walking
  <2>5. ListInv'
    BY <2>2, <2>3, <2>4 DEF ListInv
  <2>6. TypeOK'
    BY <2>1, <2>2, <2>3 DEF TypeOK
  <2> QED BY <2>3, <2>5, <2>6 DEF ThinkersInv
<1> QED BY <1>1, <1>2, <1>3, <1>4, <1>5, <1>6, <1>7, <1>8, <1>9, <1>10, <1>11, <1>12, <1>13, <1>14
        DEF Next, Loop

LEMMA InvAlways == Spec => []ThinkersInv
<1> QED BY InitEstablishes, StepKeeps, PTL DEF Spec

\* The two lists stay sound, whatever is spawned, removed and freed, and in
\* whatever order: every thinker in use is on thinkercap's list, once, and the
\* lists of partially full blocks have only such blocks of their size and end
\* (P_AddThinker, Z_ThinkMallocImpl, Z_ThinkFree, P_RunThinkers).
THEOREM ThinkersStaySound == Spec => []ThinkersSound
<1>1. ThinkersInv => ThinkersSound
  <2> SUFFICES ASSUME ThinkersInv PROVE ThinkersSound
    OBVIOUS
  <2>1. TypeOK /\ PoolInv /\ ListInv
    BY DEF ThinkersInv
  <2>2. PoolSound
    BY <2>1, PoolIsSound
  <2>3. at # "wipe" => ListSound
    BY <2>1, ListIsSound
  <2> QED BY <2>1, <2>2, <2>3 DEF ThinkersSound
<1> QED BY <1>1, InvAlways, PTL

\* Where a walk gives a turn, and where it ends.
LEMMA TurnStep ==
  ASSUME ThinkersInv, Next, at = "walk", at' # "walk"
  PROVE  /\ at' = "turn" => cur \notin ran /\ cur \notin removed
         /\ at' = "out" => InUse \subseteq ran
<1>1. PICK n \in Nat : \E e : InOrder(n, e) /\ Standing(n, e)
  BY DEF ThinkersInv, ListInv
<1>2. PICK e : InOrder(n, e) /\ Standing(n, e)
  BY <1>1
<1>3. PICK k \in 1 .. n + 1 : cur = e[k] /\ (cur # Cap <=> k <= n) /\ ran = {e[i] : i \in 1 .. k - 1}
  BY <1>2, AtPlace
<1>4. Think \/ EndWalk
  BY DEF Next, Loop, MaySpawn, SpawnInNew, SpawnInPartial, SpawnPlain, Remove, Reap, EndTurn,
         WipeOne, EndWipe, StartWalk, SetupLevel, StartWipe, walk
<1>5. CASE Think
  <2>1. k \in 0 .. n /\ cur # Cap
    BY <1>3, <1>5 DEF Think
  <2>2. \A i \in 1 .. k - 1 : i \in 0 .. n /\ i # k
    BY <2>1
  <2>3. \A i \in 1 .. k - 1 : e[i] # cur
    BY <1>2, <1>3, <2>1, <2>2, Placed
  <2>4. cur \notin ran
    BY <1>3, <2>3
  <2> QED BY <1>5, <2>4 DEF Think
<1>6. CASE EndWalk
  <2>1. k = n + 1
    BY <1>3, <1>6 DEF EndWalk
  <2>2. k - 1 = n
    BY <2>1
  <2>3. InUse \subseteq ran
    BY <1>2, <1>3, <2>2 DEF InOrder
  <2> QED BY <1>6, <2>3 DEF EndWalk
<1> QED BY <1>4, <1>5, <1>6

\* No walk gives a thinker two turns, and none ends before every thinker that is
\* not removed has had one, also one spawned during the walk (P_RunThinkers).
THEOREM EveryThinkerServed == Spec => ServesAll
<1> DEFINE Turn == /\ at = "walk" /\ at' = "turn" => cur \notin ran
                   /\ at = "walk" /\ at' = "out" => InUse \ removed \subseteq ran
<1>1. ThinkersInv /\ [Next]_vars => [Turn]_vars
  BY TurnStep
<1> QED BY <1>1, InvAlways, PTL DEF Spec, ServesAll

\* A removed thinker gets no turn, and at the end of a walk all that is in use has
\* had one in it: what was removed before the walk began is freed by then, though the
\* list changes under the walk (P_RemoveThinker, P_RunThinkers).
THEOREM WalksFreeTheRemoved ==
  Spec => [][/\ at = "walk" /\ at' = "turn" => cur \notin removed
             /\ at = "walk" /\ at' = "out" => InUse \subseteq ran]_vars
<1> DEFINE Turn == /\ at = "walk" /\ at' = "turn" => cur \notin removed
                   /\ at = "walk" /\ at' = "out" => InUse \subseteq ran
<1>1. ThinkersInv /\ [Next]_vars => [Turn]_vars
  BY TurnStep
<1> QED BY <1>1, InvAlways, PTL DEF Spec
=============================================================================
