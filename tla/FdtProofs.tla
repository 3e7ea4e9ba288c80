------------------------------ MODULE FdtProofs ------------------------------
(***************************************************************************)
(* The walk over a flattened tree stays on its tags and finds what it is   *)
(* asked for, for every well-formed tree, whole or cut anywhere, whose     *)
(* lengths do not lead around the address space; and it keeps to the data  *)
(* for every tree.                                                         *)
(***************************************************************************)
EXTENDS Fdt, FiniteSetTheorems, WellFoundedInduction, TLAPS

-----------------------------------------------------------------------------
(* Least and greatest numbers. *)

LEMMA NaturalOrder ==
  \E R : IsWellFoundedOn(R, Nat) /\ \A x, y \in Nat : x < y => <<x, y>> \in R
<1> DEFINE R == OpToRel(<, Nat)
<1>1. IsWellFoundedOn(R, Nat)
  BY NatLessThanWellFounded
<1>2. \A x, y \in Nat : x < y => <<x, y>> \in R
  BY DEF OpToRel
<1> HIDE DEF R
<1> QED BY <1>1, <1>2, Zenon

\* Every set of numbers that is not empty has a least one: what holds of no least
\* counterexample holds of all numbers.
LEMMA LeastNumber ==
  ASSUME NEW T \in SUBSET Nat, T # {}
  PROVE  \E x \in T : \A y \in T : x <= y
<1>1. PICK R : IsWellFoundedOn(R, Nat) /\ \A x, y \in Nat : x < y => <<x, y>> \in R
  BY NaturalOrder
<1>2. T \subseteq Nat
  OBVIOUS
<1>3. PICK x \in T : \A y \in T : ~ (<<y, x>> \in R)
  <2>1. IsWellFoundedOn(R, Nat)
    BY <1>1
  <2>2. \A S : S \subseteq Nat /\ S # {} => \E x \in S : \A y \in S : ~ (<<y, x>> \in R)
    BY <2>1, WFMin, ZenonT(30)
  <2> QED BY <1>2, <2>2
<1>4. ASSUME NEW y \in T PROVE x <= y
  <2>1. x \in Nat /\ y \in Nat
    BY <1>2
  <2>2. ~ (y < x)
    BY <1>1, <1>3, <2>1, Zenon
  <2> QED BY <2>1, <2>2
<1> QED BY <1>4

LEMMA MinIs ==
  ASSUME NEW T \in SUBSET Nat, T # {}
  PROVE  Min(T) \in T /\ \A y \in T : Min(T) <= y
BY LeastNumber DEF Min

\* So has one that is bounded a greatest.
LEMMA MaxIs ==
  ASSUME NEW T \in SUBSET Nat, T # {}, NEW n \in Nat, \A x \in T : x <= n
  PROVE  Max(T) \in T /\ \A y \in T : y <= Max(T)
<1> DEFINE D == {d \in Nat : \E x \in T : d = n - x}
<1>1. D \in SUBSET Nat /\ D # {}
  <2>1. PICK x \in T : TRUE
    OBVIOUS
  <2>2. n - x \in D
    BY <2>1
  <2> QED BY <2>2
<1>2. PICK d \in D : \A e \in D : d <= e
  BY <1>1, LeastNumber
<1>3. PICK x \in T : d = n - x
  BY <1>2
<1>4. \A y \in T : n - y \in D
  OBVIOUS
<1>5. \A y \in T : x >= y
  BY <1>2, <1>3, <1>4
<1> QED BY <1>5 DEF Max

-----------------------------------------------------------------------------
(* Where the items of a block start. *)

IsStart(items, s, n) ==
  s = [k \in 1 .. n |-> IF k = 1 THEN 0 ELSE ItemEnd(items[k - 1], s[k - 1])]

\* The recursion has a solution, however long the block.
LEMMA StartExists ==
  ASSUME NEW items, NEW n \in Nat
  PROVE  \E s : IsStart(items, s, n)
<1> DEFINE T == {m \in Nat : ~ \E s : IsStart(items, s, m)}
<1>1. SUFFICES ASSUME T # {} PROVE FALSE
  OBVIOUS
<1>2. PICK m \in T : \A y \in T : m <= y
  BY <1>1, LeastNumber
<1>3. IsStart(items, [k \in 1 .. 0 |-> 0], 0)
  BY DEF IsStart
<1>4. m # 0
  BY <1>3
<1>5. m - 1 \in Nat /\ m - 1 \notin T
  BY <1>2, <1>4
<1>6. PICK s : IsStart(items, s, m - 1)
  BY <1>5
<1> DEFINE t == [k \in 1 .. m |-> IF k = 1 THEN 0 ELSE ItemEnd(items[k - 1], s[k - 1])]
<1>7. ASSUME NEW k \in 1 .. m - 1 PROVE t[k] = s[k]
  <2>1. k \in 1 .. m
    BY <1>5
  <2> QED BY <1>6, <2>1 DEF IsStart
<1>8. \A k \in 1 .. m : k # 1 => k - 1 \in 1 .. m - 1
  BY <1>5
<1> HIDE DEF t
<1>9. \A k \in 1 .. m : k # 1 => t[k - 1] = s[k - 1]
  BY <1>7, <1>8
<1>10. t = [k \in 1 .. m |-> IF k = 1 THEN 0 ELSE ItemEnd(items[k - 1], t[k - 1])]
  BY <1>9 DEF t
<1>11. IsStart(items, t, m)
  BY <1>10 DEF IsStart
<1> QED BY <1>11

LEMMA StartsSolves ==
  ASSUME NEW items, Len(items) \in Nat PROVE IsStart(items, Starts(items), Len(items))
<1>1. \E s : IsStart(items, s, Len(items))
  BY StartExists
<1> QED BY <1>1 DEF Starts, IsStart

\* The first item starts at zero, each other one where the one before ends.
LEMMA StartsStep ==
  ASSUME NEW items \in Seq(Items)
  PROVE  /\ 1 \in 1 .. Len(items) => Starts(items)[1] = 0
         /\ \A k \in 1 .. Len(items) - 1 :
              Starts(items)[k + 1] = ItemEnd(items[k], Starts(items)[k])
<1> DEFINE s == Starts(items)
           n == Len(items)
<1>1. n \in Nat
  OBVIOUS
<1>2. IsStart(items, s, n)
  BY <1>1, StartsSolves
<1> HIDE DEF s
<1>3. \A k \in 1 .. n : s[k] = IF k = 1 THEN 0 ELSE ItemEnd(items[k - 1], s[k - 1])
  BY <1>2 DEF IsStart
<1>4. ASSUME NEW k \in 1 .. n - 1 PROVE s[k + 1] = ItemEnd(items[k], s[k])
  <2>1. k + 1 \in 1 .. n /\ k + 1 # 1 /\ (k + 1) - 1 = k
    BY <1>1
  <2> QED BY <1>3, <2>1
<1>5. 1 \in 1 .. n => s[1] = 0
  BY <1>3
<1> QED BY <1>4, <1>5 DEF s

\* Rounding up to the next multiple of four.
LEMMA AlignedIs ==
  ASSUME NEW x \in Nat
  PROVE  /\ Aligned(x) \in Nat /\ Aligned(x) >= x /\ Aligned(x) % 4 = 0
         /\ x % 4 = 0 => Aligned(x) = x
  BY DEF Aligned, TagSize

\* An item is at least a tag long, and ends at a multiple of four.
LEMMA ItemEndIs ==
  ASSUME NEW item \in Items, NEW s \in Nat, s % 4 = 0
  PROVE  /\ ItemEnd(item, s) \in Nat /\ ItemEnd(item, s) % 4 = 0 /\ ItemEnd(item, s) >= s + 4
         /\ item.tag = "BEGIN_NODE" => ItemEnd(item, s) = Aligned(s + TagSize + (Len(item.name) + 1))
         /\ item.tag = "PROP" => ItemEnd(item, s) = Aligned(s + TagSize + (PropertySize - TagSize + item.len))
         /\ item.tag \in {"END_NODE", "NOP"} => ItemEnd(item, s) = Aligned(s + TagSize + 0)
<1>1. CASE item.tag = "BEGIN_NODE"
  <2> DEFINE l == Len(item.name)
             x == s + TagSize + (l + 1)
  <2>1. l \in Nat
    BY <1>1 DEF Items
  <2>2. ItemEnd(item, s) = Aligned(s + TagSize + l + 1)
    BY <1>1 DEF ItemEnd
  <2> HIDE DEF l
  <2>3. x = s + TagSize + l + 1 /\ x \in Nat /\ x >= s + 4
    BY <2>1 DEF TagSize
  <2> HIDE DEF x
  <2>4. ItemEnd(item, s) = Aligned(x)
    BY <2>2, <2>3
  <2>5. Aligned(x) \in Nat /\ Aligned(x) >= s + 4 /\ Aligned(x) % 4 = 0
    BY <2>3, AlignedIs
  <2> QED BY <1>1, <2>4, <2>5 DEF l, x
<1>2. CASE item.tag = "PROP"
  <2>1. item.len \in Nat
    BY <1>2 DEF Items
  <2>2. ItemEnd(item, s) = Aligned(s + 12 + item.len)
    BY <1>2 DEF ItemEnd, TagSize, PropertySize
  <2> QED BY <1>2, <2>1, <2>2, AlignedIs DEF TagSize, PropertySize
<1>3. CASE item.tag \notin {"BEGIN_NODE", "PROP"}
  <2>1. ItemEnd(item, s) = s + 4
    BY <1>3 DEF ItemEnd, TagSize
  <2>2. (s + 4) % 4 = 0 /\ s + 4 \in Nat /\ s + TagSize + 0 = s + 4
    BY DEF TagSize
  <2>3. Aligned(s + 4) = s + 4
    BY <2>2, AlignedIs
  <2> QED BY <1>3, <2>1, <2>2, <2>3
<1> QED BY <1>1, <1>2, <1>3

LEMMA StartsTyped ==
  ASSUME NEW items \in Seq(Items)
  PROVE  \A k \in 1 .. Len(items) : Starts(items)[k] \in Nat /\ Starts(items)[k] % 4 = 0
<1> DEFINE s == Starts(items)
           n == Len(items)
           T == {k \in 1 .. n : ~ (s[k] \in Nat /\ s[k] % 4 = 0)}
<1>1. SUFFICES ASSUME T # {} PROVE FALSE
  OBVIOUS
<1>2. n \in Nat /\ T \in SUBSET Nat
  OBVIOUS
<1>3. PICK k \in T : \A y \in T : k <= y
  BY <1>1, <1>2, LeastNumber
<1>4. k # 1
  BY <1>3, StartsStep
<1>5. k - 1 \in 1 .. n - 1 /\ k - 1 \in 1 .. n /\ k - 1 \notin T /\ (k - 1) + 1 = k
  BY <1>2, <1>3, <1>4
<1>6. s[k - 1] \in Nat /\ s[k - 1] % 4 = 0 /\ items[k - 1] \in Items
  BY <1>5
<1>7. s[k] = ItemEnd(items[k - 1], s[k - 1])
  BY <1>5, StartsStep
<1>8. s[k] \in Nat /\ s[k] % 4 = 0
  <2>1. /\ ItemEnd(items[k - 1], s[k - 1]) \in Nat
        /\ ItemEnd(items[k - 1], s[k - 1]) % 4 = 0
    BY <1>6, ItemEndIs
  <2> QED BY <1>7, <2>1
<1> QED BY <1>3, <1>8

\* Items follow each other, at least a tag apart.
LEMMA StartsGrow ==
  ASSUME NEW items \in Seq(Items), NEW j \in 1 .. Len(items), NEW k \in 1 .. Len(items), j < k
  PROVE  Starts(items)[j] + 4 <= Starts(items)[k]
<1> DEFINE s == Starts(items)
           n == Len(items)
           T == {m \in 1 .. n : j < m /\ ~ (s[j] + 4 <= s[m])}
<1>1. SUFFICES ASSUME T # {} PROVE FALSE
  OBVIOUS
<1>2. n \in Nat /\ T \in SUBSET Nat
  OBVIOUS
<1>3. PICK m \in T : \A y \in T : m <= y
  BY <1>1, <1>2, LeastNumber
<1>4. m - 1 \in 1 .. n - 1 /\ m - 1 \in 1 .. n /\ m - 1 \notin T /\ (m - 1) + 1 = m /\ j <= m - 1
  BY <1>2, <1>3
<1>5. s[m] = ItemEnd(items[m - 1], s[m - 1])
  BY <1>4, StartsStep
<1>6. s[m - 1] \in Nat /\ s[m - 1] % 4 = 0 /\ items[m - 1] \in Items /\ s[j] \in Nat
  BY <1>4, StartsTyped
<1>7. s[m] \in Nat /\ s[m] >= s[m - 1] + 4
  BY <1>5, <1>6, ItemEndIs
<1>8. s[j] <= s[m - 1]
  <2>1. CASE j = m - 1
    BY <1>6, <2>1
  <2>2. CASE j < m - 1
    <3>1. s[j] + 4 <= s[m - 1]
      BY <1>4, <2>2
    <3> QED BY <1>6, <3>1
  <2> QED BY <1>4, <2>1, <2>2
<1> QED BY <1>3, <1>6, <1>7, <1>8

-----------------------------------------------------------------------------
(* Which node a property belongs to. *)

Inner == {"PROP", "NOP"}

\* The last node begun or ended before item i was begun, with this name.
InNode(items, name, i) ==
  \E j \in 1 .. i - 1 :
    /\ Begins(items, j) /\ items[j].name = name
    /\ \A k \in j + 1 .. i - 1 : items[k].tag \in Inner

\* In a well-formed block only the last item ends the walk.
LEMMA OnlyLast ==
  ASSUME NEW items \in Seq(Items), WellFormed(items)
  PROVE  /\ Len(items) \in Nat \ {0} /\ items[Len(items)].tag \in {"END", "UNKNOWN"}
         /\ \A k \in 1 .. Len(items) : items[k].tag \in {"END", "UNKNOWN"} <=> k = Len(items)
<1>1. Len(items) \in Nat \ {0} /\ items[Len(items)].tag \in {"END", "UNKNOWN"}
  BY DEF WellFormed
<1>2. \A k \in 1 .. Len(items) : k # Len(items) => k \in 1 .. Len(items) - 1
  BY <1>1
<1>3. \A k \in 1 .. Len(items) - 1 : items[k].tag \notin {"END", "UNKNOWN"}
  BY DEF WellFormed
<1> QED BY <1>1, <1>2, <1>3

\* A property's parent is the node begun last before it, with only properties and
\* NOPs between them.
LEMMA ParentIs ==
  ASSUME NEW items \in Seq(Items), WellFormed(items),
         NEW i \in 1 .. Len(items), items[i].tag = "PROP"
  PROVE  /\ ParentOf(items, i) \in 1 .. i - 1 /\ Begins(items, ParentOf(items, i))
         /\ \A k \in ParentOf(items, i) + 1 .. i : items[k].tag \in Inner
<1> DEFINE S == {j \in 1 .. i - 1 :
                   Begins(items, j) /\ \A k \in j .. i - 1 : Depth(items, k) >= Depth(items, j)}
           p == ParentOf(items, i)
<1>1. i \in 1 .. Len(items) - 1 /\ i \in Nat
  BY OnlyLast
<1>2. /\ Depth(items, i) > 0
      /\ \A k \in p + 1 .. i : items[k].tag \in Inner
  BY <1>1 DEF WellFormed, Inner
<1>3. p = Max(S \cup {0})
  BY DEF ParentOf
<1>4. S \cup {0} \in SUBSET Nat /\ \A x \in S \cup {0} : x <= i
  BY <1>1
<1> HIDE DEF S, p
<1>5. p \in S \cup {0}
  <2>1. S \cup {0} # {}
    OBVIOUS
  <2> QED BY <1>1, <1>3, <1>4, <2>1, MaxIs
<1>6. p # 0
  <2> SUFFICES ASSUME p = 0 PROVE FALSE
    OBVIOUS
  <2>1. \A k \in 1 .. i : items[k].tag \in Inner
    BY <1>2
  <2>2. {j \in 1 .. i : Begins(items, j)} = {} /\ {j \in 1 .. i : items[j].tag = "END_NODE"} = {}
    BY <2>1 DEF Inner, Begins
  <2>3. Depth(items, i) = 0 - 0
    BY <2>2, FS_EmptySet DEF Depth
  <2> QED BY <1>2, <2>3
<1>7. p \in S
  BY <1>5, <1>6
<1> QED BY <1>2, <1>7 DEF S, p

\* So a property is one of a node with that name just where the walk has it so.
LEMMA ParentNamed ==
  ASSUME NEW items \in Seq(Items), WellFormed(items), NEW name,
         NEW i \in 1 .. Len(items), items[i].tag = "PROP"
  PROVE  items[ParentOf(items, i)].name = name <=> InNode(items, name, i)
<1> DEFINE p == ParentOf(items, i)
<1>1. p \in 1 .. i - 1 /\ Begins(items, p) /\ \A k \in p + 1 .. i : items[k].tag \in Inner
  BY ParentIs
<1> HIDE DEF p
<1>2. ASSUME items[p].name = name PROVE InNode(items, name, i)
  BY <1>1, <1>2 DEF InNode
<1>3. ASSUME InNode(items, name, i) PROVE items[p].name = name
  <2>1. PICK j \in 1 .. i - 1 : /\ Begins(items, j) /\ items[j].name = name
                                /\ \A k \in j + 1 .. i - 1 : items[k].tag \in Inner
    BY <1>3 DEF InNode
  <2>2. ~ (j < p)
    <3> SUFFICES ASSUME j < p PROVE FALSE
      OBVIOUS
    <3>1. p \in j + 1 .. i - 1
      BY <1>1
    <3>2. items[p].tag \in Inner
      BY <2>1, <3>1
    <3> QED BY <1>1, <3>2 DEF Begins, Inner
  <2>3. ~ (p < j)
    <3> SUFFICES ASSUME p < j PROVE FALSE
      OBVIOUS
    <3>1. j \in p + 1 .. i
      BY <1>1, <2>1
    <3>2. items[j].tag \in Inner
      BY <1>1, <3>1
    <3> QED BY <2>1, <3>2 DEF Begins, Inner
  <2>4. j = p
    BY <1>1, <2>1, <2>2, <2>3
  <2> QED BY <2>1, <2>4
<1> QED BY <1>2, <1>3 DEF p

\* fdt_streq compares what it is given.
LEMMA StreqIs ==
  ASSUME NEW s1 \in Seq(STRING), NEW s2 \in Seq(STRING)
  PROVE  Streq(s1, s2) <=> s1 = s2
<1>1. Len(s1) \in Nat /\ Len(s2) \in Nat
  OBVIOUS
<1>2. ASSUME Streq(s1, s2) PROVE s1 = s2
  <2>1. Len(s1) = Len(s2)
    BY <1>2 DEF Streq
  <2>2. Min({Len(s1), Len(s2)}) = Len(s1)
    BY <1>1, <2>1, MinIs
  <2>3. \A k \in 1 .. Len(s1) : s1[k] = s2[k]
    BY <1>2, <2>2 DEF Streq
  <2> QED BY <2>1, <2>3
<1>3. ASSUME s1 = s2 PROVE Streq(s1, s2)
  <2>1. Min({Len(s1), Len(s2)}) = Len(s1)
    <3>1. {Len(s1), Len(s2)} = {Len(s1)} /\ {Len(s1)} \in SUBSET Nat /\ {Len(s1)} # {}
      BY <1>1, <1>3
    <3>2. Min({Len(s1)}) \in {Len(s1)}
      BY <3>1, MinIs
    <3> QED BY <3>1, <3>2
  <2> QED BY <1>3, <2>1 DEF Streq
<1> QED BY <1>2, <1>3

-----------------------------------------------------------------------------
(* The walk. *)

\* None of the properties before item i is the one wanted, nor lies outside the heap.
Passed(i) ==
  \A j \in 1 .. i - 1 :
    image.items[j].tag = "PROP" /\ InNode(image.items, node, j) =>
      image.items[j].inHeap /\ image.items[j].name # prop

AtItem(i) ==
  /\ offset = Starts(image.items)[i]
  /\ found <=> InNode(image.items, node, i)
  /\ Passed(i)

Result == ret = Wanted /\ lenp = IF ret = 0 THEN 0 ELSE image.items[ret].len

Typed ==
  /\ pc \in {"check", "walk", "done", "abort"} /\ found \in BOOLEAN
  /\ image \in Images /\ Fits(image, Wrap) /\ node \in Nodes /\ prop \in Props

WalkInv ==
  /\ Typed
  /\ pc = "check" => offset = 0 /\ ~found /\ ret = 0 /\ lenp = 0
  /\ pc = "walk" =>
       /\ Check = 0 /\ ret = 0 /\ lenp = 0
       /\ \E i \in 1 .. Len(image.items) : AtItem(i)
  /\ pc = "done" => IF Check = 0 THEN Result ELSE ret \in -6 .. -1

\* What is known of an image.
LEMMA ImageTyped ==
  ASSUME Typed
  PROVE  /\ image.items \in Seq(Items) /\ WellFormed(image.items)
         /\ Len(image.items) \in Nat \ {0} /\ Wrap \in Nat \ {0}
         /\ Starts(image.items)[Len(image.items)] < Wrap
         /\ image.struct \in Nat /\ image.total \in Nat /\ image.size \in Nat
         /\ node \in Seq(STRING) /\ prop \in Seq(STRING)
<1>1. image \in ImageType /\ WellFormed(image.items) /\ DataAt \in Nat /\ Wrap \in Nat
  BY FdtAssumption DEF Typed
<1>2. /\ image.items \in Seq(Items) /\ image.struct \in Nat /\ image.total \in Nat
      /\ image.size \in Nat
  BY <1>1 DEF ImageType
<1>3. Len(image.items) \in Nat \ {0}
  BY <1>1, <1>2, OnlyLast
<1>4. Starts(image.items)[Len(image.items)] < Wrap
  <2>1. Starts(image.items)[Len(image.items)] \in Nat
    BY <1>2, <1>3, StartsTyped
  <2>2. DataAt + image.struct + Starts(image.items)[Len(image.items)] + 4 <= Wrap
    BY DEF Typed, Fits, TagSize
  <2> QED BY <1>1, <1>2, <2>1, <2>2
<1> QED BY <1>1, <1>2, <1>3, <1>4, FdtAssumption DEF Typed

\* No two items start at the same place.
LEMMA HereIs ==
  ASSUME Typed, NEW i \in 1 .. Len(image.items), offset = Starts(image.items)[i]
  PROVE  Here = i
<1>1. image.items \in Seq(Items)
  BY ImageTyped
<1>2. \A j \in 1 .. Len(image.items) : Starts(image.items)[j] = offset => j = i
  <2> SUFFICES ASSUME NEW j \in 1 .. Len(image.items), Starts(image.items)[j] = offset, j # i
               PROVE  FALSE
    OBVIOUS
  <2>1. Starts(image.items)[i] \in Nat /\ Starts(image.items)[j] \in Nat
    BY <1>1, StartsTyped
  <2>2. CASE j < i
    BY <1>1, <2>1, <2>2, StartsGrow
  <2>3. CASE i < j
    BY <1>1, <2>1, <2>3, StartsGrow
  <2> QED BY <2>2, <2>3
<1> QED BY <1>2 DEF Here

\* No item starts behind the last.
LEMMA StartsLast ==
  ASSUME NEW items \in Seq(Items), NEW i \in 1 .. Len(items)
  PROVE  Starts(items)[i] <= Starts(items)[Len(items)]
<1>1. Len(items) \in Nat /\ Len(items) \in 1 .. Len(items)
  OBVIOUS
<1>2. Starts(items)[i] \in Nat /\ Starts(items)[Len(items)] \in Nat
  BY <1>1, StartsTyped
<1>3. CASE i = Len(items)
  BY <1>2, <1>3
<1>4. CASE i < Len(items)
  <2>1. Starts(items)[i] + 4 <= Starts(items)[Len(items)]
    BY <1>1, <1>4, StartsGrow
  <2> QED BY <1>2, <2>1
<1> QED BY <1>1, <1>3, <1>4

\* Below 2^32, sums are what they are.
LEMMA NoWrap == ASSUME NEW x \in Nat, NEW w \in Nat \ {0}, x < w PROVE x % w = x
  OBVIOUS

\* A step over an item that does not end the walk leads to the next.
LEMMA AdvanceIs ==
  ASSUME Typed, NEW i \in 1 .. Len(image.items), offset = Starts(image.items)[i],
         image.items[i].tag \notin {"END", "UNKNOWN"}, NEW bytes, Advance(bytes),
         ItemEnd(image.items[i], offset) = Aligned(offset + TagSize + bytes)
  PROVE  i + 1 \in 1 .. Len(image.items) /\ offset' = Starts(image.items)[i + 1]
<1> DEFINE items == image.items
           n == Len(items)
<1>1. items \in Seq(Items) /\ WellFormed(items) /\ n \in Nat \ {0} /\ Wrap \in Nat \ {0}
      /\ Starts(items)[n] < Wrap
  BY ImageTyped
<1>2. i \in 1 .. n - 1 /\ i + 1 \in 1 .. n
  BY <1>1, OnlyLast
<1>3. Starts(items)[i + 1] = Aligned(offset + TagSize + bytes)
  BY <1>1, <1>2, StartsStep
<1>4. Starts(items)[i + 1] \in Nat /\ Starts(items)[n] \in Nat
  BY <1>1, <1>2, StartsTyped
<1>5. Starts(items)[i + 1] <= Starts(items)[n]
  BY <1>1, <1>2, StartsLast
<1>6. offset' = Starts(items)[i + 1] % Wrap
  BY <1>3 DEF Advance
<1> HIDE DEF items
<1>7. Starts(items)[i + 1] % Wrap = Starts(items)[i + 1]
  <2>1. Starts(items)[i + 1] < Wrap
    BY <1>1, <1>4, <1>5
  <2> QED BY <1>1, <1>4, <2>1, NoWrap
<1> QED BY <1>2, <1>6, <1>7 DEF items

\* What a tag changes of the node the walk is in.
LEMMA InNodeNext ==
  ASSUME NEW items, NEW name, NEW i \in Nat \ {0}
  PROVE  /\ items[i].tag = "BEGIN_NODE" => (InNode(items, name, i + 1) <=> items[i].name = name)
         /\ items[i].tag = "END_NODE" => ~InNode(items, name, i + 1)
         /\ items[i].tag \in Inner => (InNode(items, name, i + 1) <=> InNode(items, name, i))
<1>1. InNode(items, name, i + 1) <=>
        \E j \in 1 .. i : /\ Begins(items, j) /\ items[j].name = name
                          /\ \A k \in j + 1 .. i : items[k].tag \in Inner
  BY DEF InNode
<1>2. ASSUME NEW j \in 1 .. i, \A k \in j + 1 .. i : items[k].tag \in Inner
      PROVE  items[i].tag \in Inner \/ j = i
  BY <1>2
<1>3. CASE items[i].tag = "BEGIN_NODE"
  <2>1. items[i].tag \notin Inner /\ Begins(items, i) /\ i \in 1 .. i
        /\ \A k \in i + 1 .. i : items[k].tag \in Inner
    BY <1>3 DEF Inner, Begins
  <2> QED BY <1>1, <1>2, <1>3, <2>1 DEF Inner
<1>4. CASE items[i].tag = "END_NODE"
  BY <1>1, <1>2, <1>4 DEF Inner, Begins
<1>5. CASE items[i].tag \in Inner
  <2>1. ~Begins(items, i)
    BY <1>5 DEF Inner, Begins
  <2>2. ASSUME InNode(items, name, i + 1) PROVE InNode(items, name, i)
    <3>1. PICK j \in 1 .. i : /\ Begins(items, j) /\ items[j].name = name
                              /\ \A k \in j + 1 .. i : items[k].tag \in Inner
      BY <1>1, <2>2
    <3>2. j \in 1 .. i - 1
      BY <2>1, <3>1
    <3> QED BY <3>1, <3>2 DEF InNode
  <2>3. ASSUME InNode(items, name, i) PROVE InNode(items, name, i + 1)
    <3>1. PICK j \in 1 .. i - 1 : /\ Begins(items, j) /\ items[j].name = name
                                  /\ \A k \in j + 1 .. i - 1 : items[k].tag \in Inner
      BY <2>3 DEF InNode
    <3>2. \A k \in j + 1 .. i : k \in j + 1 .. i - 1 \/ k = i
      OBVIOUS
    <3>3. \A k \in j + 1 .. i : items[k].tag \in Inner
      BY <1>5, <3>1, <3>2
    <3>4. j \in 1 .. i
      OBVIOUS
    <3> QED BY <1>1, <3>1, <3>3, <3>4
  <2>4. items[i].tag # "BEGIN_NODE" /\ items[i].tag # "END_NODE"
    BY <1>5 DEF Inner
  <2> QED BY <2>2, <2>3, <2>4
<1> QED BY <1>3, <1>4, <1>5

LEMMA InNodeBegun ==
  ASSUME NEW items, NEW name, NEW i \in Nat \ {0}, items[i].tag = "BEGIN_NODE"
  PROVE  InNode(items, name, i + 1) <=> items[i].name = name
  BY InNodeNext

LEMMA InNodeEnded ==
  ASSUME NEW items, NEW name, NEW i \in Nat \ {0}, items[i].tag = "END_NODE"
  PROVE  ~InNode(items, name, i + 1)
  BY InNodeNext

LEMMA InNodeStill ==
  ASSUME NEW items, NEW name, NEW i \in Nat \ {0}, items[i].tag \in Inner
  PROVE  InNode(items, name, i + 1) <=> InNode(items, name, i)
  BY InNodeNext

-----------------------------------------------------------------------------
(* What is wanted. *)

LEMMA CandidatesAre ==
  ASSUME Typed, NEW c \in 1 .. Len(image.items)
  PROVE  c \in Candidates <=>
           /\ image.items[c].tag = "PROP" /\ image.items[c].name = prop
           /\ InNode(image.items, node, c)
<1>1. image.items \in Seq(Items) /\ WellFormed(image.items)
  BY ImageTyped
<1>2. ASSUME image.items[c].tag = "PROP"
      PROVE  /\ ParentOf(image.items, c) # 0
             /\ image.items[ParentOf(image.items, c)].name = node <=> InNode(image.items, node, c)
  BY <1>1, <1>2, ParentIs, ParentNamed
<1> QED BY <1>2 DEF Candidates

LEMMA ReachableIs ==
  ASSUME Typed, NEW c \in 1 .. Len(image.items)
  PROVE  Reachable(c) <=>
           /\ image.struct + Starts(image.items)[c] + PropertySize < image.total
           /\ \A j \in 1 .. c :
                image.items[j].tag = "PROP" /\ InNode(image.items, node, j) => image.items[j].inHeap
<1>1. image.items \in Seq(Items) /\ WellFormed(image.items) /\ Len(image.items) \in Nat
  BY ImageTyped
<1>2. ASSUME NEW j \in 1 .. c, image.items[j].tag = "PROP"
      PROVE  image.items[ParentOf(image.items, j)].name = node <=> InNode(image.items, node, j)
  <2>1. j \in 1 .. Len(image.items)
    BY <1>1
  <2> QED BY <1>1, <1>2, <2>1, ParentNamed
<1> QED BY <1>2 DEF Reachable

\* Where nothing from here on can be reached, nothing is wanted.
LEMMA NothingWanted ==
  ASSUME Typed, NEW i \in 1 .. Len(image.items), Passed(i),
         \A c \in i .. Len(image.items) : c \in Candidates => ~Reachable(c)
  PROVE  Wanted = 0
<1>1. Len(image.items) \in Nat
  BY ImageTyped
<1>2. Candidates \in SUBSET Nat /\ Candidates \subseteq 1 .. Len(image.items)
  BY <1>1 DEF Candidates
<1>3. ASSUME NEW c \in Candidates PROVE c \in i .. Len(image.items)
  <2>1. c \in 1 .. Len(image.items)
    BY <1>2
  <2>2. c \notin 1 .. i - 1
    BY <2>1, CandidatesAre DEF Passed
  <2> QED BY <1>1, <2>1, <2>2
<1>4. Candidates # {} => Min(Candidates) \in Candidates
  BY <1>2, MinIs
<1>5. ~(Candidates # {} /\ Reachable(Min(Candidates)))
  BY <1>3, <1>4
<1> QED BY <1>5 DEF Wanted

\* Where the walk finds a property, it is the one wanted.
LEMMA ThisWanted ==
  ASSUME Typed, NEW i \in 1 .. Len(image.items), Passed(i), i \in Candidates, Reachable(i)
  PROVE  Wanted = i
<1>1. Len(image.items) \in Nat
  BY ImageTyped
<1>2. Candidates \in SUBSET Nat /\ Candidates \subseteq 1 .. Len(image.items) /\ Candidates # {}
  BY <1>1 DEF Candidates
<1>3. ASSUME NEW c \in Candidates PROVE i <= c
  <2>1. c \in 1 .. Len(image.items)
    BY <1>2
  <2>2. c \notin 1 .. i - 1
    BY <2>1, CandidatesAre DEF Passed
  <2> QED BY <1>1, <2>1, <2>2
<1>4. Min(Candidates) \in Candidates /\ Min(Candidates) <= i
  BY <1>2, MinIs
<1>5. Min(Candidates) = i
  <2>1. i <= Min(Candidates) /\ Min(Candidates) \in Nat
    BY <1>2, <1>3, <1>4
  <2> QED BY <1>4, <2>1
<1> QED BY <1>2, <1>5 DEF Wanted

\* What starts outside the tree is out of reach, and all behind it.
LEMMA OutOfReach ==
  ASSUME Typed, NEW i \in 1 .. Len(image.items), offset = Starts(image.items)[i],
         Outside(PropertySize)
  PROVE  \A c \in i .. Len(image.items) : ~Reachable(c)
<1> SUFFICES ASSUME NEW c \in i .. Len(image.items) PROVE ~Reachable(c)
  OBVIOUS
<1>1. image.items \in Seq(Items) /\ Len(image.items) \in Nat
      /\ image.struct \in Nat /\ image.total \in Nat
  BY ImageTyped
<1>2. c \in 1 .. Len(image.items)
  BY <1>1
<1>3. Starts(image.items)[i] \in Nat /\ Starts(image.items)[c] \in Nat
  BY <1>1, <1>2, StartsTyped
<1>4. Starts(image.items)[i] <= Starts(image.items)[c]
  <2>1. CASE c = i
    BY <1>3, <2>1
  <2>2. CASE i < c
    <3>1. Starts(image.items)[i] + 4 <= Starts(image.items)[c]
      BY <1>1, <1>2, <2>2, StartsGrow
    <3> QED BY <1>3, <3>1
  <2> QED BY <1>1, <1>2, <2>1, <2>2
<1>5. image.struct + offset + PropertySize >= image.total
  BY DEF Outside
<1>6. ~ (image.struct + Starts(image.items)[c] + PropertySize < image.total)
  BY <1>1, <1>3, <1>4, <1>5 DEF PropertySize, TagSize
<1> QED BY <1>2, <1>6, ReachableIs

-----------------------------------------------------------------------------
(* The steps of the walk. *)

\* The walk goes on at the next item.
LEMMA GoesOn ==
  ASSUME WalkInv, pc = "walk", NEW i \in 1 .. Len(image.items), AtItem(i),
         image.items[i].tag \notin {"END", "UNKNOWN"}, NEW bytes, Advance(bytes),
         ItemEnd(image.items[i], offset) = Aligned(offset + TagSize + bytes),
         found' \in BOOLEAN, found' <=> InNode(image.items, node, i + 1), Passed(i + 1)
  PROVE  WalkInv'
<1>1. Typed /\ offset = Starts(image.items)[i]
  BY DEF WalkInv, AtItem
<1>2. i + 1 \in 1 .. Len(image.items) /\ offset' = Starts(image.items)[i + 1]
  BY <1>1, AdvanceIs
<1>3. /\ pc' = pc /\ image' = image /\ node' = node /\ prop' = prop
      /\ ret' = ret /\ lenp' = lenp
  BY DEF Advance
<1>4. Passed(i + 1)'
  BY <1>3 DEF Passed
<1>5. AtItem(i + 1)'
  BY <1>2, <1>3, <1>4 DEF AtItem
<1>6. (\E k \in 1 .. Len(image.items) : AtItem(k))'
  BY <1>2, <1>3, <1>5
<1>7. Typed' /\ Check' = Check
  BY <1>1, <1>3 DEF Typed, Check
<1>8. Check = 0 /\ ret = 0 /\ lenp = 0
  BY DEF WalkInv
<1> QED BY <1>3, <1>6, <1>7, <1>8 DEF WalkInv

\* The walk ends with what is wanted.
LEMMA EndsRight ==
  ASSUME WalkInv, pc = "walk", pc' = "done", UNCHANGED <<image, node, prop, found>>,
         ret' = Wanted, lenp' = IF ret' = 0 THEN 0 ELSE image.items[ret'].len
  PROVE  WalkInv'
<1>1. Wanted' = Wanted
  BY DEF Wanted, Candidates, Reachable
<1>2. Result'
  BY <1>1 DEF Result
<1>3. Typed' /\ Check' = Check
  BY DEF WalkInv, Typed, Check
<1>4. Check = 0
  BY DEF WalkInv
<1> QED BY <1>2, <1>3, <1>4 DEF WalkInv

\* It ends with nothing where nothing from here on can be reached.
LEMMA EndsEmpty ==
  ASSUME WalkInv, pc = "walk", NEW i \in 1 .. Len(image.items), AtItem(i), Return(0),
         \A c \in i .. Len(image.items) : c \in Candidates => ~Reachable(c)
  PROVE  WalkInv'
<1>1. Wanted = 0
  BY NothingWanted DEF WalkInv, AtItem
<1>2. lenp = 0
  BY DEF WalkInv
<1>3. ret' = 0 /\ pc' = "done" /\ lenp' = lenp /\ UNCHANGED <<image, node, prop, found>>
  BY DEF Return
<1>4. lenp' = IF ret' = 0 THEN 0 ELSE image.items[ret'].len
  BY <1>2, <1>3
<1> QED BY <1>1, <1>3, <1>4, EndsRight

LEMMA CheckKeeps == ASSUME WalkInv, CheckHeader PROVE WalkInv'
<1>1. pc = "check" /\ offset = 0 /\ found = FALSE /\ ret = 0 /\ lenp = 0
  <2>1. pc = "check" /\ offset = 0 /\ ~found /\ ret = 0 /\ lenp = 0
    BY DEF WalkInv, CheckHeader
  <2> QED BY <2>1, Zenon DEF WalkInv, Typed
<1>2. /\ image.items \in Seq(Items) /\ Len(image.items) \in Nat \ {0}
  BY ImageTyped DEF WalkInv
<1>3. CASE Check # 0
  <2>1. pc' = "done" /\ ret' = Check /\ UNCHANGED <<image, node, prop, found>>
    BY <1>3 DEF CheckHeader, Return
  <2>2. Check \in -6 .. -1
    BY <1>3 DEF Check
  <2>3. Typed' /\ Check' = Check
    BY <2>1 DEF WalkInv, Typed, Check
  <2> QED BY <1>3, <2>1, <2>2, <2>3 DEF WalkInv
<1>4. CASE Check = 0
  <2>1. pc' = "walk" /\ UNCHANGED <<image, node, prop, offset, found, ret, lenp>>
    BY <1>4 DEF CheckHeader
  <2>2. 1 \in 1 .. Len(image.items) /\ Starts(image.items)[1] = 0
    BY <1>2, StartsStep
  <2>3. ~InNode(image.items, node, 1) /\ Passed(1)
    BY DEF InNode, Passed
  <2>4. AtItem(1)
    BY <1>1, <2>2, <2>3 DEF AtItem
  <2>5. AtItem(1)'
    BY <2>1, <2>4 DEF AtItem, Passed
  <2>6. Typed' /\ Check' = Check
    BY <2>1 DEF WalkInv, Typed, Check
  <2> QED BY <1>1, <1>4, <2>1, <2>2, <2>5, <2>6 DEF WalkInv
<1> QED BY <1>3, <1>4

\* What is cut off at its tag is cut off at its header.
LEMMA CutOff == ASSUME Typed, offset \in Nat, Outside(TagSize) PROVE Outside(PropertySize)
<1>1. image.struct \in Nat /\ image.total \in Nat
  BY ImageTyped
<1> QED BY <1>1 DEF Outside, PropertySize, TagSize

LEMMA LeaveKeeps == ASSUME WalkInv, Leave PROVE WalkInv'
<1>1. Typed /\ pc = "walk" /\ Outside(TagSize) /\ Return(0)
  BY DEF WalkInv, Leave
<1>2. PICK i \in 1 .. Len(image.items) : AtItem(i)
  BY <1>1 DEF WalkInv
<1>3. offset = Starts(image.items)[i] /\ offset \in Nat
  <2>1. offset = Starts(image.items)[i]
    BY <1>2 DEF AtItem
  <2> QED BY <1>1, <2>1, ImageTyped, StartsTyped
<1>4. \A c \in i .. Len(image.items) : ~Reachable(c)
  BY <1>1, <1>3, CutOff, OutOfReach
<1> QED BY <1>1, <1>2, <1>4, EndsEmpty

\* A read that does not return ends it without an answer.
LEMMA AbortKeeps == ASSUME WalkInv, Abort PROVE WalkInv'
<1>1. pc' = "abort" /\ UNCHANGED <<image, node, prop, found>>
  BY DEF Abort
<1>2. Typed'
  BY <1>1 DEF WalkInv, Typed
<1> QED BY <1>1, <1>2 DEF WalkInv

\* The walk does not go astray.
LEMMA NeverAstray == ASSUME WalkInv, Stray PROVE FALSE
<1>1. Typed /\ pc = "walk" /\ (Wraps \/ ~OnTag)
  BY DEF WalkInv, Stray
<1>2. PICK i \in 1 .. Len(image.items) : offset = Starts(image.items)[i]
  BY <1>1 DEF WalkInv, AtItem
<1>3. OnTag
  BY <1>2 DEF OnTag
<1>4. /\ image.items \in Seq(Items) /\ image.struct \in Nat /\ Len(image.items) \in Nat \ {0}
      /\ DataAt \in Nat /\ Wrap \in Nat
  BY <1>1, ImageTyped, FdtAssumption
<1>5. offset <= Starts(image.items)[Len(image.items)]
  BY <1>2, <1>4, StartsLast
<1>6. offset \in Nat /\ Starts(image.items)[Len(image.items)] \in Nat
  BY <1>2, <1>4, StartsTyped
<1>7. DataAt + image.struct + Starts(image.items)[Len(image.items)] + 4 <= Wrap
  BY <1>1 DEF Typed, Fits, TagSize
<1>8. ~Wraps
  <2> DEFINE last == Starts(image.items)[Len(image.items)]
             struct == image.struct
  <2>1. DataAt + struct + offset + 4 <= Wrap
    <3>1. /\ DataAt \in Nat /\ struct \in Nat /\ Wrap \in Nat /\ offset \in Nat /\ last \in Nat
          /\ offset <= last /\ DataAt + struct + last + 4 <= Wrap
      BY <1>4, <1>5, <1>6, <1>7
    <3> HIDE DEF last, struct
    <3> QED BY <3>1
  <2>2. ~(DataAt + image.struct + offset + 4 > Wrap)
    BY <1>4, <1>6, <2>1
  <2> QED BY <2>2 DEF Wraps, End, TagSize
<1> QED BY <1>1, <1>3, <1>8

\* The walk is at an item, and the item is the one it reads.
LEMMA ReadsItem ==
  ASSUME WalkInv, NEW t, AtTag(t)
  PROVE  \E i \in 1 .. Len(image.items) :
           /\ AtItem(i) /\ Here = i /\ Item = image.items[i]
           /\ image.items[i].tag = t /\ image.items[i] \in Items
           /\ offset = Starts(image.items)[i] /\ offset \in Nat /\ offset % 4 = 0
           /\ i \in Nat \ {0}
<1>1. pc = "walk" /\ Item.tag = t /\ Typed
  BY DEF AtTag, WalkInv
<1>2. PICK i \in 1 .. Len(image.items) : AtItem(i)
  BY <1>1 DEF WalkInv
<1>3. offset = Starts(image.items)[i]
  BY <1>2 DEF AtItem
<1>4. Here = i
  BY <1>1, <1>3, HereIs
<1>5. image.items \in Seq(Items)
  BY <1>1, ImageTyped
<1>6. image.items[i] \in Items /\ offset \in Nat /\ offset % 4 = 0
  BY <1>3, <1>5, StartsTyped
<1> QED BY <1>1, <1>2, <1>3, <1>4, <1>6 DEF Item

\* Nothing to watch for at an item that is no property of the node.
LEMMA StillPassed ==
  ASSUME NEW i \in Nat \ {0}, Passed(i),
         image.items[i].tag = "PROP" /\ InNode(image.items, node, i) =>
           image.items[i].inHeap /\ image.items[i].name # prop
  PROVE  Passed(i + 1)
<1>1. \A j \in 1 .. (i + 1) - 1 : j \in 1 .. i - 1 \/ j = i
  OBVIOUS
<1> QED BY <1>1 DEF Passed

LEMMA BeginNodeKeeps == ASSUME WalkInv, BeginNode PROVE WalkInv'
<1>1. pc = "walk" /\ Typed /\ AtTag("BEGIN_NODE") /\ Advance(Len(Item.name) + 1)
      /\ found' = Streq(node, Item.name)
  BY DEF BeginNode, AtTag, WalkInv
<1>2. PICK i \in 1 .. Len(image.items) :
        /\ AtItem(i) /\ Here = i /\ Item = image.items[i]
        /\ image.items[i].tag = "BEGIN_NODE" /\ image.items[i] \in Items
        /\ offset = Starts(image.items)[i] /\ offset \in Nat /\ offset % 4 = 0
        /\ i \in Nat \ {0}
  BY <1>1, ReadsItem
<1>3. image.items[i].name \in Seq(STRING) /\ node \in Seq(STRING)
  BY <1>1, <1>2, ImageTyped DEF Items
<1>4. Streq(node, image.items[i].name) <=> node = image.items[i].name
  BY <1>3, StreqIs
<1>5. found' \in BOOLEAN /\ (found' <=> Streq(node, image.items[i].name))
  <2>1. Streq(node, image.items[i].name) \in BOOLEAN
    BY DEF Streq
  <2>2. found' = Streq(node, image.items[i].name)
    BY <1>1, <1>2, Zenon
  <2> QED BY <2>1, <2>2, Zenon
<1>6. found' <=> InNode(image.items, node, i + 1)
  <2>1. InNode(image.items, node, i + 1) <=> image.items[i].name = node
    <3>1. i \in Nat \ {0} /\ image.items[i].tag = "BEGIN_NODE"
      BY <1>2
    <3> QED BY <3>1, InNodeBegun
  <2> QED BY <1>4, <1>5, <2>1, Zenon
<1>7. Passed(i + 1)
  BY <1>2, StillPassed DEF AtItem
<1>8. ItemEnd(image.items[i], offset) = Aligned(offset + TagSize + (Len(Item.name) + 1))
  BY <1>2, ItemEndIs
<1> QED BY <1>1, <1>2, <1>5, <1>6, <1>7, <1>8, GoesOn

LEMMA EndNodeKeeps == ASSUME WalkInv, EndNode PROVE WalkInv'
<1>1. pc = "walk" /\ Typed /\ AtTag("END_NODE") /\ Advance(0) /\ found' = FALSE
  BY DEF EndNode, AtTag, WalkInv
<1>2. PICK i \in 1 .. Len(image.items) :
        /\ AtItem(i) /\ Here = i /\ Item = image.items[i]
        /\ image.items[i].tag = "END_NODE" /\ image.items[i] \in Items
        /\ offset = Starts(image.items)[i] /\ offset \in Nat /\ offset % 4 = 0
        /\ i \in Nat \ {0}
  BY <1>1, ReadsItem
<1>3. found' \in BOOLEAN
  BY <1>1
<1>4. found' <=> InNode(image.items, node, i + 1)
  <2>1. ~InNode(image.items, node, i + 1)
    BY <1>2, InNodeEnded
  <2> QED BY <1>1, <2>1
<1>5. Passed(i + 1)
  BY <1>2, StillPassed DEF AtItem
<1>6. ItemEnd(image.items[i], offset) = Aligned(offset + TagSize + 0)
  BY <1>2, ItemEndIs
<1> QED BY <1>1, <1>2, <1>3, <1>4, <1>5, <1>6, GoesOn

LEMMA NopKeeps == ASSUME WalkInv, Nop PROVE WalkInv'
<1>1. pc = "walk" /\ Typed /\ AtTag("NOP") /\ Advance(0) /\ found' = found
  BY DEF Nop, AtTag, WalkInv
<1>2. PICK i \in 1 .. Len(image.items) :
        /\ AtItem(i) /\ Here = i /\ Item = image.items[i]
        /\ image.items[i].tag = "NOP" /\ image.items[i] \in Items
        /\ offset = Starts(image.items)[i] /\ offset \in Nat /\ offset % 4 = 0
        /\ i \in Nat \ {0}
  BY <1>1, ReadsItem
<1>3. found' \in BOOLEAN
  BY <1>1 DEF Typed
<1>4. found' <=> InNode(image.items, node, i + 1)
  <2>1. image.items[i].tag \in Inner /\ (found <=> InNode(image.items, node, i))
    BY <1>2 DEF Inner, AtItem
  <2>2. InNode(image.items, node, i + 1) <=> InNode(image.items, node, i)
    BY <1>2, <2>1, InNodeStill
  <2> QED BY <1>1, <2>1, <2>2, Zenon
<1>5. Passed(i + 1)
  BY <1>2, StillPassed DEF AtItem
<1>6. ItemEnd(image.items[i], offset) = Aligned(offset + TagSize + 0)
  BY <1>2, ItemEndIs
<1> QED BY <1>1, <1>2, <1>3, <1>4, <1>5, <1>6, GoesOn

LEMMA EndTagKeeps == ASSUME WalkInv, EndTag PROVE WalkInv'
<1>1. PICK t \in {"END", "UNKNOWN"} : AtTag(t)
  BY DEF EndTag
<1>2. pc = "walk" /\ Typed /\ Return(0)
  BY DEF EndTag, AtTag, WalkInv
<1>3. PICK i \in 1 .. Len(image.items) : AtItem(i) /\ image.items[i].tag = t
  BY <1>1, ReadsItem
<1>4. i = Len(image.items) /\ Len(image.items) \in Nat
  BY <1>1, <1>2, <1>3, ImageTyped, OnlyLast
<1>5. ASSUME NEW c \in i .. Len(image.items) PROVE c \notin Candidates
  <2>1. c = i
    BY <1>4
  <2> QED BY <1>1, <1>3, <2>1 DEF Candidates
<1> QED BY <1>2, <1>3, <1>5, EndsEmpty

LEMMA PropertyKeeps == ASSUME WalkInv, Property PROVE WalkInv'
<1>1. pc = "walk" /\ Typed /\ AtTag("PROP")
  BY DEF Property, AtTag, WalkInv
<1>2. PICK i \in 1 .. Len(image.items) :
        /\ AtItem(i) /\ Here = i /\ Item = image.items[i]
        /\ image.items[i].tag = "PROP" /\ image.items[i] \in Items
        /\ offset = Starts(image.items)[i] /\ offset \in Nat /\ offset % 4 = 0
        /\ i \in Nat \ {0}
  BY <1>1, ReadsItem
<1>3. image.items[i].name \in Seq(STRING) /\ prop \in Seq(STRING)
  BY <1>1, <1>2, ImageTyped DEF Items
<1>4. Streq(prop, Item.name) <=> image.items[i].name = prop
  BY <1>2, <1>3, StreqIs
<1>5. found <=> InNode(image.items, node, i)
  BY <1>2 DEF AtItem
<1>6. CASE found /\ Outside(PropertySize) /\ Return(0)
  BY <1>1, <1>2, <1>6, OutOfReach, EndsEmpty
<1>7. CASE found /\ ~Item.inHeap /\ Return(0)
  <2>1. ASSUME NEW c \in i .. Len(image.items) PROVE ~Reachable(c)
    <3>1. c \in 1 .. Len(image.items) /\ i \in 1 .. c
      <4>1. Len(image.items) \in Nat
        BY <1>1, ImageTyped
      <4> QED BY <1>2, <4>1
    <3> QED BY <1>1, <1>2, <1>5, <1>7, <3>1, ReachableIs
  <2> QED BY <1>1, <1>2, <1>7, <2>1, EndsEmpty
<1>8. CASE /\ found /\ ~Outside(PropertySize) /\ Item.inHeap /\ Matches
           /\ lenp' = Item.len /\ pc' = "done" /\ ret' = Here
           /\ UNCHANGED <<image, node, prop, offset, found>>
  <2>1. i \in Candidates
    BY <1>1, <1>2, <1>4, <1>5, <1>8, CandidatesAre DEF Matches
  <2>2. Reachable(i)
    <3>1. image.struct + offset + PropertySize < image.total
      <4>1. image.struct \in Nat /\ image.total \in Nat
        BY <1>1, ImageTyped
      <4> QED BY <1>2, <1>8, <4>1 DEF Outside, PropertySize, TagSize
    <3>2. \A j \in 1 .. i : j \in 1 .. i - 1 \/ j = i
      BY <1>2
    <3>3. \A j \in 1 .. i : image.items[j].tag = "PROP" /\ InNode(image.items, node, j)
            => image.items[j].inHeap
      BY <1>2, <1>8, <3>2 DEF AtItem, Passed
    <3> QED BY <1>1, <1>2, <3>1, <3>3, ReachableIs
  <2>3. Wanted = i
    BY <1>1, <1>2, <2>1, <2>2, ThisWanted DEF AtItem
  <2>4. ret' = Wanted /\ ret' # 0 /\ lenp' = image.items[ret'].len
    BY <1>2, <1>8, <2>3
  <2> QED BY <1>1, <1>8, <2>4, EndsRight
<1>9. CASE /\ found => ~Outside(PropertySize) /\ Item.inHeap /\ ~Matches
           /\ Advance(PropertySize - TagSize + Item.len) /\ UNCHANGED found
  <2>1. Passed(i + 1)
    <3>1. InNode(image.items, node, i) => image.items[i].inHeap /\ image.items[i].name # prop
      BY <1>2, <1>4, <1>5, <1>9 DEF Matches
    <3> QED BY <1>2, <3>1, StillPassed DEF AtItem
  <2>2. found' <=> InNode(image.items, node, i + 1)
    <3>1. image.items[i].tag \in Inner /\ found' = found
      BY <1>2, <1>9 DEF Inner
    <3>2. InNode(image.items, node, i + 1) <=> InNode(image.items, node, i)
      BY <1>2, <3>1, InNodeStill
    <3> QED BY <1>5, <3>1, <3>2, Zenon
  <2>3. found' \in BOOLEAN
    BY <1>1, <1>9 DEF Typed
  <2>4. ItemEnd(image.items[i], offset) = Aligned(offset + TagSize + (PropertySize - TagSize + Item.len))
    BY <1>2, ItemEndIs
  <2> QED BY <1>1, <1>2, <1>9, <2>1, <2>2, <2>3, <2>4, GoesOn
<1> QED BY <1>6, <1>7, <1>8, <1>9 DEF Property

-----------------------------------------------------------------------------
(* What holds of the walk (src/fdt.c). *)

\* As long as no length leads around the address space, the walk is at the start of an
\* item, knows whether that item belongs to a node with the name wanted, and has passed
\* nothing that was wanted; at its end it has what is wanted. The state of fdt_get_prop
\* between two tags.
THEOREM WalkInductive == Spec => [](Fits(image, Wrap) => WalkInv)
<1>1. Init /\ Fits(image, Wrap) => WalkInv
  BY DEF Init, WalkInv, Typed
<1>2. ASSUME [Next]_vars PROVE image' = image
  <2>1. CASE UNCHANGED vars
    BY <2>1 DEF vars
  <2>2. CASE Next
    BY <2>2 DEF Next, CheckHeader, Leave, Abort, Stray, BeginNode, Property, EndNode, Nop, EndTag,
                Advance, Return
  <2> QED BY <1>2, <2>1, <2>2
<1>3. WalkInv /\ [Next]_vars => WalkInv'
  <2> SUFFICES ASSUME WalkInv, [Next]_vars PROVE WalkInv'
    OBVIOUS
  <2>1. CASE UNCHANGED vars
    <3>1. UNCHANGED <<pc, image, node, prop, offset, found, ret, lenp>>
      BY <2>1 DEF vars
    <3> QED BY <3>1 DEF WalkInv, Typed, Check, AtItem, Passed, Result, Wanted, Candidates, Reachable
  <2>2. CASE Next
    BY <2>2, CheckKeeps, LeaveKeeps, AbortKeeps, NeverAstray, BeginNodeKeeps, PropertyKeeps,
       EndNodeKeeps, NopKeeps, EndTagKeeps DEF Next
  <2> QED BY <2>1, <2>2
<1>4. (Fits(image, Wrap) => WalkInv) /\ [Next]_vars => (Fits(image, Wrap) => WalkInv)'
  <2> SUFFICES ASSUME Fits(image, Wrap) => WalkInv, [Next]_vars, Fits(image, Wrap)' PROVE WalkInv'
    OBVIOUS
  <2>1. Fits(image, Wrap)
    BY <1>2
  <2> QED BY <1>3, <2>1
<1> QED BY <1>1, <1>4, PTL DEF Spec

\* Names, values and padding are never taken for tags: where the walk of fdt_get_prop
\* believes a tag to be, there is one, unless a length leads around the address space.
THEOREM StaysOnTrack == Spec => []OnTrack
<1>1. (Fits(image, Wrap) => WalkInv) => OnTrack
  BY DEF WalkInv, AtItem, OnTrack, OnTag
<1> QED BY <1>1, WalkInductive, PTL

\* fdt_get_prop returns the first property of that name in a node of that name, with
\* its length, or nothing where there is none before the cut.
THEOREM WalkFindsWanted == Spec => []FindsWanted
<1>1. (Fits(image, Wrap) => WalkInv) => FindsWanted
  BY DEF WalkInv, Result, FindsWanted
<1> QED BY <1>1, WalkInductive, PTL

\* What the walk knows of every tree, wherever its lengths lead.
WithinInv ==
  /\ image \in Images /\ offset \in Nat
  /\ pc = "check" => ret = 0
  /\ pc = "walk" => Check = 0 /\ ret = 0
  /\ pc = "done" /\ ret > 0 =>
       /\ Check = 0 /\ ret \in 1 .. Len(image.items)
       /\ image.struct + Starts(image.items)[ret] + PropertySize < image.total

\* Where the walk reads a tag, it reads an item.
LEMMA ItemRead ==
  ASSUME WithinInv, NEW t, AtTag(t)
  PROVE  Here \in 1 .. Len(image.items) /\ Starts(image.items)[Here] = offset /\ Item \in Items
<1>1. OnTag
  BY DEF AtTag
<1>2. Here \in 1 .. Len(image.items) /\ Starts(image.items)[Here] = offset
  BY <1>1 DEF OnTag, Here
<1>3. image.items \in Seq(Items)
  BY FdtAssumption DEF WithinInv, ImageType
<1> QED BY <1>2, <1>3 DEF Item

\* Wherever a length leads, the offset is a number again.
LEMMA OffsetNat ==
  ASSUME WithinInv, NEW bytes \in Nat, Advance(bytes)
  PROVE  offset' \in Nat
<1>1. offset + TagSize + bytes \in Nat /\ Wrap \in Nat \ {0}
  BY FdtAssumption DEF WithinInv, TagSize
<1>2. Aligned(offset + TagSize + bytes) \in Nat
  BY <1>1, AlignedIs
<1>3. offset' = Aligned(offset + TagSize + bytes) % Wrap
  BY DEF Advance
<1> HIDE DEF Aligned
<1>4. \A x \in Nat : x % Wrap \in Nat
  BY <1>1
<1> QED BY <1>2, <1>3, <1>4

\* The walk goes on in the same tree.
LEMMA StaysWithin ==
  ASSUME WithinInv, pc = "walk", NEW bytes \in Nat, Advance(bytes)
  PROVE  WithinInv'
<1>1. pc' = "walk" /\ image' = image /\ ret' = ret
  BY DEF Advance
<1>2. Check' = Check
  BY <1>1 DEF Check
<1> QED BY <1>1, <1>2, OffsetNat DEF WithinInv

\* The walk ends without a property.
LEMMA EndsWithin ==
  ASSUME WithinInv, UNCHANGED <<image, offset>>,
         (pc' = "done" /\ ~(ret' > 0)) \/ pc' \in {"abort", "astray"}
  PROVE  WithinInv'
BY DEF WithinInv

\* A step keeps what is known of every tree.
LEMMA WithinStep == WithinInv /\ [Next]_vars => WithinInv'
<1> SUFFICES ASSUME WithinInv, [Next]_vars PROVE WithinInv'
  OBVIOUS
<1>1. CASE UNCHANGED vars
  <2>1. UNCHANGED <<pc, image, offset, ret>>
    BY <1>1 DEF vars
  <2> QED BY <2>1 DEF WithinInv, Check
<1>2. CASE CheckHeader
  <2>1. CASE Check # 0
    <3>1. ~(Check > 0)
      BY DEF Check
    <3> QED BY <1>2, <2>1, <3>1, EndsWithin DEF CheckHeader, Return
  <2>2. CASE Check = 0
    <3>1. pc' = "walk" /\ UNCHANGED <<image, offset, ret>> /\ ret = 0
      BY <1>2, <2>2 DEF CheckHeader, WithinInv
    <3>2. Check' = Check
      BY <3>1 DEF Check
    <3> QED BY <2>2, <3>1, <3>2 DEF WithinInv
  <2> QED BY <2>1, <2>2
<1>3. CASE Leave \/ Abort \/ Stray \/ EndTag
  BY <1>3, EndsWithin DEF Leave, Abort, Stray, EndTag, Return
<1>4. CASE BeginNode
  <2>1. pc = "walk" /\ AtTag("BEGIN_NODE") /\ Advance(Len(Item.name) + 1)
    BY <1>4 DEF BeginNode, AtTag
  <2>2. Item \in Items /\ Item.tag = "BEGIN_NODE"
    BY <2>1, ItemRead DEF AtTag
  <2>3. Len(Item.name) + 1 \in Nat
    BY <2>2 DEF Items
  <2> QED BY <2>1, <2>3, StaysWithin
<1>5. CASE EndNode \/ Nop
  BY <1>5, StaysWithin DEF EndNode, Nop, AtTag
<1>6. CASE Property
  <2>1. pc = "walk" /\ AtTag("PROP")
    BY <1>6 DEF Property, AtTag
  <2>2. Here \in 1 .. Len(image.items) /\ Starts(image.items)[Here] = offset
        /\ Item \in Items /\ Item.tag = "PROP"
    BY <2>1, ItemRead DEF AtTag
  <2>3. CASE Return(0)
    BY <2>3, EndsWithin DEF Return
  <2>4. CASE ~Outside(PropertySize) /\ pc' = "done" /\ ret' = Here /\ UNCHANGED <<image, offset>>
    <3>1. image.struct \in Nat /\ image.total \in Nat /\ offset \in Nat /\ PropertySize \in Nat
      BY FdtAssumption DEF WithinInv, ImageType, PropertySize, TagSize
    <3>2. image.struct + offset + PropertySize < image.total
      BY <2>4, <3>1 DEF Outside
    <3>3. Check' = Check
      BY <2>4 DEF Check
    <3> QED BY <2>1, <2>2, <2>4, <3>2, <3>3 DEF WithinInv
  <2>5. CASE Advance(PropertySize - TagSize + Item.len)
    <3>1. PropertySize - TagSize + Item.len \in Nat
      BY <2>2 DEF Items, PropertySize, TagSize
    <3> QED BY <2>1, <2>5, <3>1, StaysWithin
  <2> QED BY <1>6, <2>3, <2>4, <2>5 DEF Property
<1> QED BY <1>1, <1>2, <1>3, <1>4, <1>5, <1>6 DEF Next

\* The tags acted on and the header of the property returned lie in the data the caller
\* has, for trees with any lengths: fdt_check_header refused every tree that says it is
\* longer.
THEOREM WalkWithinData == Spec => []WithinData
<1>1. Init => WithinInv
  BY DEF Init, WithinInv
<1>2. WithinInv => WithinData
  <2> SUFFICES ASSUME WithinInv PROVE WithinData
    OBVIOUS
  <2>1. /\ image.items \in Seq(Items) /\ image.struct \in Nat /\ image.total \in Nat
        /\ image.size \in Nat /\ offset \in Nat /\ PropertySize \in Nat /\ TagSize \in Nat
    BY FdtAssumption DEF WithinInv, ImageType, PropertySize, TagSize
  <2>2. Check = 0 => image.total <= image.size
    BY <2>1 DEF Check
  <2>3. pc = "walk" /\ ~Outside(TagSize) => image.struct + offset + TagSize < image.size
    BY <2>1, <2>2 DEF WithinInv, Outside
  <2>4. ASSUME pc = "done", ret > 0
        PROVE  image.struct + Starts(image.items)[ret] + PropertySize < image.size
    <3>1. /\ Check = 0 /\ ret \in 1 .. Len(image.items)
          /\ image.struct + Starts(image.items)[ret] + PropertySize < image.total
      BY <2>4 DEF WithinInv
    <3>2. Starts(image.items)[ret] \in Nat
      BY <2>1, <3>1, StartsTyped
    <3> QED BY <2>1, <2>2, <3>1, <3>2
  <2> QED BY <2>3, <2>4 DEF WithinData
<1> QED BY <1>1, <1>2, WithinStep, PTL DEF Spec

\* What lies before the walk: the bytes of the tree from its offset on.
ToDo ==
  CASE pc = "check" -> image.total + 2
    [] pc = "walk" -> IF offset < image.total THEN image.total - offset + 1 ELSE 1
    [] pc \in {"done", "abort", "astray"} -> 0

LEMMA ToDoTyped ==
  ASSUME WalkInv
  PROVE  ToDo \in Nat /\ (pc \in {"check", "walk"} => ToDo > 0) /\ (pc = "walk" => offset \in Nat)
<1>1. Typed /\ image.total \in Nat /\ image.items \in Seq(Items)
  BY ImageTyped DEF WalkInv
<1>2. ASSUME pc = "walk" PROVE offset \in Nat
  <2>1. PICK i \in 1 .. Len(image.items) : offset = Starts(image.items)[i]
    BY <1>2 DEF WalkInv, AtItem
  <2> QED BY <1>1, <2>1, StartsTyped
<1>3. pc = "check" \/ pc = "walk" \/ pc \in {"done", "abort"}
  BY <1>1 DEF Typed
<1> DEFINE total == image.total
<1>4. /\ pc = "check" => ToDo = total + 2
      /\ pc = "walk" => ToDo = IF offset < total THEN total - offset + 1 ELSE 1
      /\ pc \in {"done", "abort"} => ToDo = 0
  BY DEF ToDo
<1>5. total \in Nat
  BY <1>1
<1> HIDE DEF total
<1> QED BY <1>2, <1>3, <1>4, <1>5

\* Behind a tag inside the tree the walk goes on further down.
LEMMA FurtherDown ==
  ASSUME WalkInv, NEW t \in {"BEGIN_NODE", "PROP", "END_NODE", "NOP"}, AtTag(t),
         NEW bytes, Advance(bytes),
         \/ t = "BEGIN_NODE" /\ bytes = Len(Item.name) + 1
         \/ t = "PROP" /\ bytes = PropertySize - TagSize + Item.len
         \/ t \in {"END_NODE", "NOP"} /\ bytes = 0
  PROVE  ToDo' < ToDo
<1>1. Typed /\ pc = "walk" /\ ~Outside(TagSize)
  BY DEF WalkInv, AtTag
<1>2. PICK i \in 1 .. Len(image.items) :
        /\ Item = image.items[i] /\ image.items[i].tag = t /\ image.items[i] \in Items
        /\ offset = Starts(image.items)[i] /\ offset \in Nat /\ offset % 4 = 0
  BY ReadsItem
<1>3. i + 1 \in 1 .. Len(image.items) /\ offset' = Starts(image.items)[i + 1]
  <2>1. image.items[i].tag \notin {"END", "UNKNOWN"}
    BY <1>2
  <2>2. ItemEnd(image.items[i], offset) = Aligned(offset + TagSize + bytes)
    BY <1>2, ItemEndIs
  <2> QED BY <1>1, <1>2, <2>1, <2>2, AdvanceIs
<1>4. image.items \in Seq(Items) /\ image.total \in Nat /\ image.struct \in Nat
  BY <1>1, ImageTyped
<1>5. offset' \in Nat /\ offset + 4 <= offset'
  <2>1. i < i + 1
    OBVIOUS
  <2> QED BY <1>2, <1>3, <1>4, <2>1, StartsGrow, StartsTyped
<1> DEFINE total == image.total
<1>6. offset < total /\ total \in Nat
  BY <1>1, <1>2, <1>4 DEF Outside, TagSize
<1>7. pc' = "walk" /\ image' = image
  BY <1>1 DEF Advance
<1>8. /\ ToDo = total - offset + 1
      /\ offset' < total => ToDo' = total - offset' + 1
      /\ ~(offset' < total) => ToDo' = 1
  BY <1>1, <1>6, <1>7 DEF ToDo
<1> HIDE DEF total
<1>9. CASE offset' < total
  <2>1. total - offset' < total - offset
    BY <1>2, <1>5, <1>6
  <2> QED BY <1>2, <1>5, <1>6, <1>8, <1>9, <2>1
<1>10. CASE ~(offset' < total)
  <2>1. total - offset + 1 > 1
    BY <1>2, <1>6
  <2> QED BY <1>8, <1>10, <2>1
<1> QED BY <1>9, <1>10

\* Each pass of the loop of fdt_get_prop brings its end closer, in a tree that is whole as
\* in one that is cut, unless a length leads around the address space: there are fewer
\* than there are bytes, so all that WalkEnds asks besides is that the processor goes on.
THEOREM WalkShortens ==
  Spec => [](Fits(image, Wrap) => ToDo \in Nat) /\ [][Fits(image, Wrap) => ToDo' < ToDo]_vars
<1>1. (Fits(image, Wrap) => WalkInv) => (Fits(image, Wrap) => ToDo \in Nat)
  BY ToDoTyped
<1>2. (Fits(image, Wrap) => WalkInv) /\ [Next]_vars => [Fits(image, Wrap) => ToDo' < ToDo]_vars
  <2> SUFFICES ASSUME WalkInv, Next PROVE ToDo' < ToDo
    OBVIOUS
  <2>1. ASSUME pc \in {"check", "walk"}, pc' \in {"done", "abort"} PROVE ToDo' < ToDo
    <3>1. ToDo' = 0
      BY <2>1 DEF ToDo
    <3> QED BY <2>1, <3>1, ToDoTyped
  <2>2. CASE CheckHeader
    <3>1. CASE pc' = "done"
      BY <2>1, <2>2, <3>1 DEF CheckHeader
    <3>2. CASE pc' # "done"
      <4>1. pc = "check" /\ pc' = "walk" /\ image' = image /\ offset' = offset
        BY <2>2, <3>2 DEF CheckHeader, Return
      <4>2. offset = 0 /\ image.total \in Nat
        BY <4>1, ImageTyped DEF WalkInv
      <4> DEFINE total == image.total
      <4>3. ToDo = total + 2 /\ ToDo' = IF offset < total THEN total - offset + 1 ELSE 1
        BY <4>1 DEF ToDo
      <4> HIDE DEF total
      <4>4. total \in Nat
        BY <4>2 DEF total
      <4> QED BY <4>2, <4>3, <4>4
    <3> QED BY <3>1, <3>2
  <2>3. CASE Leave \/ Abort \/ Stray
    BY <2>1, <2>3, NeverAstray DEF Leave, Abort, Return
  <2>4. CASE EndTag
    BY <2>1, <2>4 DEF EndTag, AtTag, Return
  <2>5. CASE BeginNode
    <3>1. AtTag("BEGIN_NODE") /\ Advance(Len(Item.name) + 1)
      BY <2>5 DEF BeginNode
    <3> QED BY <3>1, FurtherDown
  <2>6. CASE EndNode
    <3>1. AtTag("END_NODE") /\ Advance(0)
      BY <2>6 DEF EndNode
    <3> QED BY <3>1, FurtherDown
  <2>7. CASE Nop
    <3>1. AtTag("NOP") /\ Advance(0)
      BY <2>7 DEF Nop
    <3> QED BY <3>1, FurtherDown
  <2>8. CASE Property
    <3>1. AtTag("PROP") /\ pc = "walk"
      BY <2>8 DEF Property, AtTag
    <3>2. CASE pc' = "done"
      BY <2>1, <3>1, <3>2
    <3>3. CASE pc' # "done"
      <4>1. Advance(PropertySize - TagSize + Item.len)
        BY <2>8, <3>3 DEF Property, Return
      <4> QED BY <3>1, <4>1, FurtherDown
    <3> QED BY <3>2, <3>3
  <2> QED BY <2>2, <2>3, <2>4, <2>5, <2>6, <2>7, <2>8 DEF Next
<1> QED BY <1>1, <1>2, WalkInductive, PTL DEF Spec
=============================================================================
