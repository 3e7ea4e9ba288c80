--------------------------------- MODULE Fdt ---------------------------------
(***************************************************************************)
(* The walk over a flattened tree (src/fdt.c): fdt_check_header and        *)
(* fdt_get_prop, on trees that are whole, cut short or damaged.            *)
(*                                                                         *)
(* A structure block is a sequence of items, each a tag with what belongs  *)
(* to it; the walk steps from tag to tag by an offset in bytes, and what   *)
(* it finds there is the item that starts at that offset.  The items are   *)
(* what memory holds, whether or not the tree and the data reach as far:   *)
(* nothing looks at where a name ends, or at where the length of a         *)
(* property lies in a node that is not wanted, so that either may come     *)
(* from memory behind the tree and be anything.                            *)
(***************************************************************************)
EXTENDS Integers, Sequences, FiniteSetsExt

CONSTANTS
  Images,        \* images: see ImageType
  Nodes, Props,  \* names the loader looks for
  DataAt,        \* the address of the data
  RamEnd,        \* where RAM ends
  Wrap           \* 2^32

TagSize == 4
PropertySize == 3 * TagSize
Aligned(x) == ((x + TagSize - 1) \div TagSize) * TagSize

\* Names are sequences of characters.
Items ==
  [tag : {"BEGIN_NODE"}, name : Seq(STRING)]
    \cup [tag : {"PROP"}, name : Seq(STRING), len : Nat, inHeap : BOOLEAN]
    \cup [tag : {"END_NODE", "NOP", "END", "UNKNOWN"}]

\* Where an item ends that starts at s: names end with a zero, and the next tag
\* is aligned.
ItemEnd(item, s) ==
  CASE item.tag = "BEGIN_NODE" -> Aligned(s + TagSize + Len(item.name) + 1)
    [] item.tag = "PROP" -> Aligned(s + PropertySize + item.len)
    [] OTHER -> s + TagSize

\* Where the items of a block start.
Starts(items) ==
  LET start[i \in 1 .. Len(items)] == IF i = 1 THEN 0 ELSE ItemEnd(items[i - 1], start[i - 1])
  IN  start

VARIABLES
  pc,            \* "check", "walk", "done"; "astray": took for a tag what is none,
                 \* "abort": read outside RAM
  image,         \* the image: header fields, and items from its structure on
  node, prop,    \* node_name, prop_name
  offset,        \* offset
  found,         \* is_node_found
  ret,           \* 0 for NULL, the property's item, or a result of the check
  lenp           \* *lenp_ret

vars == <<pc, image, node, prop, offset, found, ret, lenp>>

Return(r) ==
  pc' = "done" /\ ret' = r /\ UNCHANGED <<image, node, prop, offset, found, lenp>>

PrefixIsEnough(s1, s2) == \A k \in 1 .. Min({Len(s1), Len(s2)}) : s1[k] = s2[k]

\* fdt_streq: no character differs, and both end together.
Streq(s1, s2) ==
  /\ \A k \in 1 .. Min({Len(s1), Len(s2)}) : s1[k] = s2[k]
  /\ Len(s1) = Len(s2)

CheckNoSize ==
  IF ~image.magic THEN -1
  ELSE IF image.version < 16 THEN -3
  ELSE IF image.lastComp > 17 THEN -4
  ELSE IF image.struct = 0 \/ image.struct >= image.total THEN -5
  ELSE IF image.strings = 0 \/ image.strings >= image.total THEN -6
  ELSE 0

\* fdt_check_header
Check ==
  IF ~image.magic THEN -1
  ELSE IF image.size < image.total THEN -2
  ELSE IF image.version < 16 THEN -3
  ELSE IF image.lastComp > 17 THEN -4
  ELSE IF image.struct = 0 \/ image.struct >= image.total THEN -5
  ELSE IF image.strings = 0 \/ image.strings >= image.total THEN -6
  ELSE 0

\* The loader looks for properties only in trees whose header is good.
CheckHeader ==
  /\ pc = "check"
  /\ IF Check # 0 THEN Return(Check)
     ELSE pc' = "walk" /\ UNCHANGED <<image, node, prop, offset, found, ret, lenp>>

\* The item at the offset.
Here == CHOOSE i \in 1 .. Len(image.items) : Starts(image.items)[i] = offset
Item == image.items[Here]

\* Where the walk reads a tag, before it looks whether it may: memory ends there, or
\* the pointer wraps to somewhere before the tree.
End == DataAt + image.struct + offset + TagSize
Wraps == End > Wrap

\* if((void*)tagp + sizeof(*tagp) >= t), after the tag has been read: exact as long as
\* the pointer does not wrap.
Outside(bytes) == image.struct + offset + bytes >= image.total

Leave ==
  /\ pc = "walk"
  /\ Outside(TagSize) /\ ~Wraps /\ Return(0)

\* The read may not return where there is no RAM.  (A name that runs out of RAM stops
\* the walk here too, one tag late.)
Abort ==
  /\ pc = "walk" /\ End > RamEnd
  /\ pc' = "abort" /\ UNCHANGED <<image, node, prop, offset, found, ret, lenp>>

OnTag == \E i \in 1 .. Len(image.items) : Starts(image.items)[i] = offset

\* A pointer that wraps passes the test; an offset that wraps leads back into the tree,
\* and may miss the tags there.  What follows is not followed.
Stray ==
  /\ pc = "walk"
  /\ Wraps \/ (~Outside(TagSize) /\ ~OnTag)
  /\ pc' = "astray" /\ UNCHANGED <<image, node, prop, offset, found, ret, lenp>>

AtTag(tag) ==
  /\ pc = "walk"
  /\ ~Outside(TagSize) /\ OnTag /\ Item.tag = tag

AdvanceStale(bytes) ==
  /\ offset' = Aligned(offset)
  /\ UNCHANGED <<pc, image, node, prop, ret, lenp>>

\* On to the next tag, bytes behind this one's.
Advance(bytes) ==
  /\ offset' = Aligned(offset + TagSize + bytes) % Wrap
  /\ UNCHANGED <<pc, image, node, prop, ret, lenp>>

BeginNodeNoZero ==
  /\ AtTag("BEGIN_NODE")
  /\ found' = Streq(node, Item.name)
  /\ Advance(Len(Item.name))

BeginNode ==
  /\ AtTag("BEGIN_NODE")
  /\ found' = Streq(node, Item.name)
  /\ Advance(Len(Item.name) + 1)

\* A property of the node: its header has to be inside, and its name.
Matches == found /\ Streq(prop, Item.name)

Property ==
  /\ AtTag("PROP")
  /\ \/ found /\ (Outside(PropertySize) \/ ~Item.inHeap) /\ Return(0)
     \/ /\ found /\ ~Outside(PropertySize) /\ Item.inHeap /\ Matches
        /\ lenp' = Item.len
        /\ pc' = "done" /\ ret' = Here
        /\ UNCHANGED <<image, node, prop, offset, found>>
     \/ /\ found => ~Outside(PropertySize) /\ Item.inHeap /\ ~Matches
        /\ Advance(PropertySize - TagSize + Item.len) /\ UNCHANGED found

EndNode == AtTag("END_NODE") /\ found' = FALSE /\ Advance(0)

Nop == AtTag("NOP") /\ UNCHANGED found /\ Advance(0)

EndTag == (AtTag("END") \/ AtTag("UNKNOWN")) /\ Return(0)

Init ==
  /\ pc = "check" /\ image \in Images /\ node \in Nodes /\ prop \in Props
  /\ offset = 0 /\ found = FALSE /\ ret = 0 /\ lenp = 0

Next ==
  CheckHeader \/ Leave \/ Abort \/ Stray \/ BeginNode \/ Property \/ EndNode \/ Nop \/ EndTag

Spec == Init /\ [][Next]_vars

\* Straight-line code on one processor.
FairSpec == Spec /\ WF_vars(Next)

-----------------------------------------------------------------------------
(* What is to be found. *)

Begins(items, i) == items[i].tag = "BEGIN_NODE"

Depth(items, i) ==
  Cardinality({j \in 1 .. i : Begins(items, j)})
    - Cardinality({j \in 1 .. i : items[j].tag = "END_NODE"})

\* The node that item i belongs to: the last one begun before it and not ended.
ParentOf(items, i) ==
  Max({j \in 1 .. i - 1 :
         Begins(items, j) /\ \A k \in j .. i - 1 : Depth(items, k) >= Depth(items, j)} \cup {0})

\* Nodes nest, and a node's properties come before its subnodes, as the format
\* prescribes, up to the end of the tree or to where it is damaged.
WellFormed(items) ==
  LET n == Len(items) IN
    /\ n > 0
    /\ \/ items[n].tag = "END" /\ Depth(items, n) = 0
       \/ items[n].tag = "UNKNOWN"
    /\ \A i \in 1 .. n - 1 :
         /\ items[i].tag \notin {"END", "UNKNOWN"} /\ Depth(items, i) >= 0
         /\ items[i].tag = "PROP" =>
              /\ Depth(items, i) > 0
              /\ \A k \in ParentOf(items, i) + 1 .. i : items[k].tag \in {"PROP", "NOP"}

ImageType ==
  [magic : BOOLEAN, size : Nat, total : Nat, version : Nat, lastComp : Nat,
   struct : Nat, strings : Nat, items : Seq(Items)]

\* The items are well-formed, whatever lengths they give, and the data lies in RAM,
\* which does not reach up to 2^32 (the linker script and RouterBOOT see to that).
ASSUME FdtAssumption ==
  /\ Wrap \in Nat \ {0} /\ RamEnd \in Nat /\ RamEnd + PropertySize <= Wrap /\ DataAt \in Nat
  /\ \A im \in Images :
       im \in ImageType /\ WellFormed(im.items) /\ DataAt + im.size <= RamEnd
  /\ Nodes \subseteq Seq(STRING) /\ Props \subseteq Seq(STRING)

\* No length in the tree leads beyond an address.
Fits(im, address) == DataAt + im.struct + Starts(im.items)[Len(im.items)] + TagSize <= address

\* The properties with the names wanted, as the comment on fdt_get_prop has it:
\* "whose parent node name is node_name".
Candidates ==
  {i \in 1 .. Len(image.items) :
     /\ image.items[i].tag = "PROP" /\ image.items[i].name = prop
     /\ ParentOf(image.items, i) # 0 /\ image.items[ParentOf(image.items, i)].name = node}

\* Nothing before item i is cut off, nor the header of item i.
Reachable(i) ==
  /\ image.struct + Starts(image.items)[i] + PropertySize < image.total
  /\ \A j \in 1 .. i :
       image.items[j].tag = "PROP" /\ image.items[ParentOf(image.items, j)].name = node
         => image.items[j].inHeap

Wanted == IF Candidates # {} /\ Reachable(Min(Candidates)) THEN Min(Candidates) ELSE 0

-----------------------------------------------------------------------------
\* Where the walk believes a tag to be, there is one: names, values and their padding
\* are never taken for tags, unless a length leads around the end of the address space.
OnTrack == pc = "walk" /\ ~Outside(TagSize) /\ Fits(image, Wrap) => OnTag

\* The walk finds the first property of that name in a node of that name, and
\* its length, wherever the node is nested; or nothing where there is none or
\* the tree has been cut off before it.
FindsWanted ==
  pc = "done" /\ Check = 0 /\ Fits(image, Wrap) =>
    ret = Wanted /\ lenp = IF ret = 0 THEN 0 ELSE image.items[ret].len

\* Every tag the walk acts on, and the whole header of the property it returns, lie in
\* the data the caller has, whatever lengths led there: it does not walk at all in a
\* tree that says it is longer.  It promises no more: the ends of names, the headers of
\* other nodes' properties and the value returned may lie behind the tree and the data.
WithinData ==
  /\ pc = "walk" /\ ~Outside(TagSize) => image.struct + offset + TagSize < image.size
  /\ pc = "done" /\ ret > 0 => image.struct + Starts(image.items)[ret] + PropertySize < image.size

\* The walk ends with an answer, be the tree whole, cut or damaged, as long as no length
\* leads out of RAM.
WalkEnds == <>(pc = "done" \/ ~Fits(image, RamEnd))

\* "return NULL on error" (the comment at the end of fdt_get_prop): the walk ends,
\* whatever lengths the tree gives.
ErrorEndsWalk == <>(pc \notin {"check", "walk"})
=============================================================================
