-------------------------------- MODULE MCFdt --------------------------------
(* Small trees: nodes below and beside each other, whole, cut short and damaged. *)
EXTENDS Fdt, SequencesExt

Names == {<<>>, <<"k">>, <<"k", "1">>}
MCNodes == {<<"k">>}
MCProps == {<<"d">>}

\* What may stand for a letter of a shape.
Letters ==
  [R |-> {[tag |-> "BEGIN_NODE", name |-> <<>>]},
   B |-> [tag : {"BEGIN_NODE"}, name : Names],
   P |-> [tag : {"PROP"}, name : {<<"d">>, <<"d", "s">>}, len : {0, 5}, inHeap : {TRUE}],
   Q |-> [tag : {"PROP"}, name : {<<"d">>, <<"d", "s">>}, len : {5}, inHeap : {TRUE}],
   H |-> [tag : {"PROP"}, name : {<<"d">>}, len : {4}, inHeap : BOOLEAN],
   E |-> {[tag |-> "END_NODE"]}, N |-> {[tag |-> "NOP"]},
   Z |-> {[tag |-> "END"]}, X |-> {[tag |-> "UNKNOWN"]}]

Shapes ==
  {<<"R", "E", "Z">>, <<"B", "P", "P", "E", "Z">>, <<"R", "B", "P", "X">>,
   <<"B", "H", "P", "B", "H", "E", "E", "Z">>,
   <<"R", "B", "P", "N", "P", "E", "N", "B", "P", "E", "E", "Z">>,
   <<"R", "B", "P", "B", "Q", "E", "E", "B", "Q", "E", "E", "Z">>,
   <<"R", "P", "B", "B", "P", "E", "E", "B", "E", "X">>}

Trees ==
  UNION {FoldLeft(LAMBDA trees, letter :
                    {Append(t, x) : t \in trees, x \in Letters[letter]},
                  {<<>>}, shape) : shape \in Shapes}

\* Header 40 bytes, structure at 40, the strings behind it.
Whole(t) == 40 + Starts(t)[Len(t)] + 8
Image(t, total) ==
  [magic |-> TRUE, size |-> Whole(t), total |-> total, version |-> 17, lastComp |-> 16,
   struct |-> 40, strings |-> 41, items |-> t]

\* Whole trees, trees cut in the last tags, and one tree with a bad header.
Cuts(t) == {Whole(t), Whole(t) - 5, Whole(t) - 16, Whole(t) - 24} \ (0 .. 41)
OneTree ==
  <<[tag |-> "BEGIN_NODE", name |-> <<"k">>],
    [tag |-> "PROP", name |-> <<"d">>, len |-> 5, inHeap |-> TRUE],
    [tag |-> "END_NODE"], [tag |-> "END"]>>
Headers ==
  [magic : BOOLEAN, size : {Whole(OneTree), Whole(OneTree) - 1, 40 + 10},
   total : {Whole(OneTree), 41, 200}, version : {15, 16}, lastComp : {17, 18},
   struct : {0, 40, 200}, strings : {0, 41, 90, 200}, items : {OneTree}]

\* Trees with a damaged length, or one that lies behind the end of the data: short,
\* leading out of RAM, around the address space, back between two tags, to the same
\* tag again, and to the tag before.
Lengths == {0, 62000, 65000, Wrap - 4, Wrap - PropertySize, Wrap - PropertySize - 8}
Damageable ==
  {t \in Trees : Len(t) \in {5, 8} /\ \A i \in 1 .. Len(t) : t[i].tag = "PROP" => t[i].len # 0}
Damage(t, i, total) ==
  {[Image(t, total) EXCEPT !.size = total, !.items = [t EXCEPT ![i].len = l]] : l \in Lengths}
Damaged(t) ==
  UNION {Damage(t, i, Whole(t)) \cup Damage(t, i, 40 + Starts(t)[i] + TagSize + 1) :
           i \in {i \in 1 .. Len(t) : t[i].tag = "PROP"}}

MCImages ==
  UNION {{Image(t, total) : total \in Cuts(t)} : t \in Trees}
    \cup Headers \cup UNION {Damaged(t) : t \in Damageable}
=============================================================================
