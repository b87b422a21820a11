-------------------------------- MODULE Pages --------------------------------
(***************************************************************************)
(* A node on its way into a page and back: a leaf is edited, and keeps     *)
(* count of the bytes of its pairs; the node is serialized into a page     *)
(* whose size was computed before; the page may be cut short when it is    *)
(* stored (disk::put_one ignores what write() returns); and it is parsed,  *)
(* one field after the other.                                              *)
(*                                                                         *)
(* A page is its size and, for each offset where one begins, a field.      *)
(* Keys and values have one size each, of which the parser learns from the *)
(* first bytes of the item, as with the traits for numbers and strings.    *)
(***************************************************************************)
EXTENDS Sums, PairLists

CONSTANTS
  KeySizeOf,    \* the size of each key; its domain is the keys
  ValueSizeOf,  \* the size of each value; its domain is the values
  MaxPairs,     \* bound: pairs of a leaf, values of an overflow block
  MaxBranches,  \* bound: branches of an internal node
  MaxEdits      \* bound: edits in a queue, or made at once

Keys == DOMAIN KeySizeOf
Values == DOMAIN ValueSizeOf
NoValue == 0  \* the empty memslice

ASSUME PagesAssumption ==
  /\ KeySizeOf \in [Keys -> Nat \ {0}] /\ Keys \subseteq Nat \ {0}
  /\ ValueSizeOf \in [Values -> Nat \ {0}] /\ Values \subseteq Nat \ {NoValue}
  /\ MaxPairs \in Nat /\ MaxBranches \in Nat \ {0} /\ MaxEdits \in Nat

VARIABLES
  node,    \* the node in memory
  bytes,   \* LeafNode::m_elementsSize
  page,    \* its page
  got,     \* what the parser has read
  offset,  \* NodeParser::m_offset
  phase    \* "memory", "stored", "parsed" or "refused"

vars == <<node, bytes, page, got, offset, phase>>

-----------------------------------------------------------------------------
(* Nodes *)

ValueBytes(v) == IF v = NoValue THEN 0 ELSE ValueSizeOf[v]

\* Of a pair, or of an edit.
ItemBytes(x) == KeySizeOf[x.key] + ValueBytes(x.val)

\* LeafNode::calcSize
PairBytes(pairs) == Total([i \in DOMAIN pairs |-> ItemBytes(pairs[i])])

Sorted(items) == \A i \in 2..Len(items) : items[i - 1].key <= items[i].key

Pairs == [key : Keys, val : Values]

Edits ==
  [op : {"insert", "upsert", "removeKV"}, key : Keys, val : Values]
    \cup [op : {"removeKey"}, key : Keys, val : {NoValue}]

Queues(max) == {q \in UNION {[1..n -> Edits] : n \in 0..max} : Sorted(q)}

\* The i-th link to another node; the empty one of leaves and overflow blocks.
Link(i) == [count |-> i, id |-> i]
Links == {Link(0), Link(1)}

Leaf(pairs, next) == [kind |-> "leaf", pairs |-> pairs, next |-> next]

OverflowNodes ==
  [kind : {"overflow"}, vals : UNION {[1..n -> Values] : n \in 1..MaxPairs},
   next : Links]

\* The first key of an internal node is not stored; here it is missing already.
InternalNodes ==
  [kind : {"internal"},
   keys : {k \in UNION {[1..n -> Keys] : n \in 0..(MaxBranches - 1)} :
             \A i \in 2..Len(k) : k[i - 1] < k[i]},
   links : {[i \in 1..n |-> Link(i)] : n \in 1..MaxBranches},
   queue : Queues(MaxEdits)]

\* A new leaf, with or without an overflow chain, or any other node.
Init ==
  /\ \/ \E next \in Links : node = Leaf(<<>>, next)
     \/ node \in OverflowNodes
     \/ node \in InternalNodes /\ Len(node.links) = Len(node.keys) + 1
  /\ bytes = 0
  /\ page = [size |-> 0, fields |-> <<>>]
  /\ got = <<>> /\ offset = 0
  /\ phase = "memory"

-----------------------------------------------------------------------------
(* Edits of a leaf, and the count of its bytes *)

LeafBecomes(pairs, size) ==
  /\ phase = "memory" /\ node.kind = "leaf"
  /\ Len(pairs) <= MaxPairs
  /\ node' = [node EXCEPT !.pairs = pairs]
  /\ bytes' = size
  /\ UNCHANGED <<page, got, offset, phase>>

\* LeafNode::insert
Insert(pair) ==
  LeafBecomes(InsertPair(node.pairs, pair.key, pair.val), bytes + ItemBytes(pair))

\* LeafNode::erase
Erase(i) == LeafBecomes(RemoveAt(node.pairs, i), bytes - ItemBytes(node.pairs[i]))

\* Mistake: the new value is counted, and the old one as well.
UpdateValueTwice(i, v) ==
  LeafBecomes([node.pairs EXCEPT ![i].val = v], bytes + ValueBytes(v))

\* LeafNode::update_value
UpdateValue(i, v) ==
  LeafBecomes([node.pairs EXCEPT ![i].val = v],
              bytes - ValueBytes(node.pairs[i].val) + ValueBytes(v))

\* What one of the edits of applyAll adds to its count.
SizeChange(pairs, edit) ==
  LET hits == Hits(pairs, edit)
      old == pairs[Max(hits)]
  IN  CASE edit.op = "insert" \/ (edit.op = "upsert" /\ hits = {}) -> ItemBytes(edit)
        [] edit.op = "upsert" /\ hits # {} -> ValueBytes(edit.val) - ValueBytes(old.val)
        [] edit.op \in {"removeKey", "removeKV"} /\ hits # {} -> -ItemBytes(old)
        [] OTHER -> 0

\* One edit, with the count.
CountedMerge(acc, edit) ==
  LET merged == MergeEdit(acc, edit)
  IN  [out  |-> merged.out,
       rest |-> merged.rest,
       size |-> acc.size + SizeChange(acc.out \o acc.rest, edit)]

\* LeafNode::applyAll counts anew while it merges.
ApplyAll(edits) ==
  LET start == [out |-> <<>>, rest |-> node.pairs, size |-> PairBytes(node.pairs)]
      merged == FoldLeft(CountedMerge, start, edits)
  IN  LeafBecomes(merged.out \o merged.rest, merged.size)

EditLeaf ==
  /\ node.kind = "leaf"
  /\ \/ \E pair \in Pairs : Insert(pair)
     \/ \E i \in DOMAIN node.pairs : Erase(i)
     \/ \E i \in DOMAIN node.pairs, v \in Values : UpdateValue(i, v)
     \/ \E edits \in Queues(MaxEdits) : ApplyAll(edits)

-----------------------------------------------------------------------------
(* Serializing *)

\* The bytes of the fields whose size does not depend on what is in them.
Width == [flags |-> 2, count |-> 4, edits |-> 4, items |-> 4, id |-> 20, type |-> 1]

Field(what, v) ==
  [what |-> what, is |-> v,
   bytes |-> CASE what = "key"   -> KeySizeOf[v]
               [] what = "value" -> ValueBytes(v)
               [] OTHER          -> Width[what]]

FieldsOf(what, vals) == [i \in DOMAIN vals |-> Field(what, vals[i])]

\* One component of each record of a sequence.
KeysOf(s)   == [i \in DOMAIN s |-> s[i].key]
ValsOf(s)   == [i \in DOMAIN s |-> s[i].val]
CountsOf(s) == [i \in DOMAIN s |-> s[i].count]
IdsOf(s)    == [i \in DOMAIN s |-> s[i].id]
OpsOf(s)    == [i \in DOMAIN s |-> s[i].op]

HasValue(edit) == edit.op # "removeKey"

\* The values of a queue, of the edits that have one.
AddValue(vals, edit) == IF HasValue(edit) THEN Append(vals, edit.val) ELSE vals
QueueValues(queue) == FoldLeft(AddValue, <<>>, queue)

Start(n, count) == <<Field("flags", n.kind), Field("count", count)>>
Chain(next) == <<Field("items", next.count), Field("id", next.id)>>

\* SerializeNode, and the three functions behind it.
Serialized(n) ==
  CASE n.kind = "leaf" ->
         Start(n, Len(n.pairs)) \o FieldsOf("key", KeysOf(n.pairs))
           \o FieldsOf("value", ValsOf(n.pairs)) \o Chain(n.next)
    [] n.kind = "overflow" ->
         Start(n, Len(n.vals)) \o FieldsOf("value", n.vals) \o Chain(n.next)
    [] n.kind = "internal" ->
         Start(n, Len(n.links)) \o <<Field("edits", Len(n.queue))>>
           \o FieldsOf("key", n.keys)
           \o FieldsOf("id", IdsOf(n.links)) \o FieldsOf("items", CountsOf(n.links))
           \o FieldsOf("type", OpsOf(n.queue)) \o FieldsOf("key", KeysOf(n.queue))
           \o FieldsOf("value", QueueValues(n.queue))

\* LeafNodeSize, OverflowNodeSize, InternalNodeSize and its editQueueSize.
PageSize(n) ==
  CASE n.kind = "leaf"     -> 2 + 4 + 4 + 20 + bytes
    [] n.kind = "overflow" ->
         2 + 4 + 4 + 20 + Total([i \in DOMAIN n.vals |-> ValueBytes(n.vals[i])])
    [] n.kind = "internal" ->
         2 + 4 + 4 + Total([i \in DOMAIN n.keys |-> KeySizeOf[n.keys[i]]])
           + Len(n.links) * (20 + 4)
           + Total([i \in DOMAIN n.queue |-> 1 + ItemBytes(n.queue[i])])

FieldBytes(fields) == Total([i \in DOMAIN fields |-> fields[i].bytes])

\* Where each field goes.
Placed(fields) ==
  LET start(i) == FieldBytes(SubSeq(fields, 1, i - 1))
  IN  [o \in {start(i) : i \in DOMAIN fields} |->
         fields[CHOOSE i \in DOMAIN fields : start(i) = o]]

Store ==
  /\ phase = "memory"
  /\ page' = [size |-> PageSize(node), fields |-> Placed(Serialized(node))]
  /\ phase' = "stored"
  /\ UNCHANGED <<node, bytes, got, offset>>

\* Only the first n bytes get into the file.
CutShort(n) ==
  /\ phase = "stored" /\ got = <<>> /\ page.size = PageSize(node)
  /\ page' = [page EXCEPT !.size = n]
  /\ UNCHANGED <<node, bytes, got, offset, phase>>

-----------------------------------------------------------------------------
(* Parsing *)

Repeat(what, n) == [i \in 1..Max({0, n}) |-> what]

\* How many edits of these types have a value.
Valued(types) == Cardinality({i \in DOMAIN types : types[i] # "removeKey"})

\* Mistake: the parser expects a value for every edit.
WantedEditsAll(types, m) ==
  Repeat("type", m) \o Repeat("key", m) \o Repeat("value", m)

\* The keys and values of a queue are read only when all types were: what does
\* not follow from the fields that were read is not in the list yet.
WantedEdits(types, m) ==
  Repeat("type", m) \o Repeat("key", m)
    \o Repeat("value", IF Len(types) < m THEN 0 ELSE Valued(SubSeq(types, 1, m)))

\* The fields of a node with the given start, in order.
Wanted(read) ==
  LET n == read[2]
      m == read[3]
      keys == Repeat("key", n - 1)
      types == SubSeq(read, 3 + Len(keys) + n + n + 1, Len(read))
  IN  CASE Len(read) < 2 -> <<"flags", "count">>
        [] Len(read) >= 2 /\ read[1] = "leaf" ->
             <<"flags", "count">> \o Repeat("key", n) \o Repeat("value", n)
               \o <<"items", "id">>
        [] Len(read) >= 2 /\ read[1] = "overflow" ->
             <<"flags", "count">> \o Repeat("value", n) \o <<"items", "id">>
        [] Len(read) = 2 /\ read[1] = "internal" -> <<"flags", "count", "edits">>
        [] Len(read) > 2 /\ read[1] = "internal" ->
             <<"flags", "count", "edits">> \o keys
               \o Repeat("id", n) \o Repeat("items", n) \o WantedEdits(types, m)
        [] OTHER -> <<>>

\* What the parser reads without a look at the size of the page.
Unchecked == {"flags", "count", "edits"}

\* What may be read where the page has been cut.  A key or a value that is cut
\* goes beyond the end: a number has its size, and a string is read up to a NUL.
Garbled(what) ==
  CASE what = "flags" -> {[is |-> k, bytes |-> 2] :
                            k \in {"leaf", "overflow", "internal", "unknown"}}
    [] what \in {"count", "edits"} -> [is : 0..1, bytes : {4}]
    [] what \in {"items", "id", "type"} -> [is : {0}, bytes : {Width[what]}]
    [] OTHER -> [is : {0}, bytes : {page.size - offset + 1}]

\* The field at m_offset, if it is all there.
FieldsHere(what) ==
  IF /\ offset \in DOMAIN page.fields
     /\ page.fields[offset].what = what
     /\ offset + page.fields[offset].bytes <= page.size
  THEN {page.fields[offset]} ELSE Garbled(what)

Parsing == phase = "stored" /\ (got = <<>> \/ Wanted(got) # <<>>)

AtEnd == Len(got) = Len(Wanted(got))

NextWanted == Wanted(got)[Len(got) + 1]

Read ==
  /\ Parsing /\ ~AtEnd
  /\ NextWanted \in Unchecked \/ offset < page.size
  /\ \E field \in FieldsHere(NextWanted) :
       /\ got' = Append(got, field.is)
       /\ offset' = offset + field.bytes
  /\ UNCHANGED <<node, bytes, page, phase>>

Refuse ==
  /\ phase' = "refused"
  /\ UNCHANGED <<node, bytes, page, got, offset>>

\* VALIDATE_OFFSET throws.
EndsEarly == Parsing /\ ~AtEnd /\ NextWanted \notin Unchecked /\ offset >= page.size /\ Refuse

\* ParseNode does not know the type.
UnknownType == phase = "stored" /\ Wanted(got) = <<>> /\ Refuse

\* validateAtEnd throws.
Trailing == Parsing /\ AtEnd /\ offset # page.size /\ Refuse

Parsed ==
  /\ phase' = "parsed"
  /\ UNCHANGED <<node, bytes, page, got, offset>>

\* Mistake: the parser may end anywhere behind the last byte.
AcceptBeyond == Parsing /\ AtEnd /\ offset >= page.size /\ Parsed

Accept == Parsing /\ AtEnd /\ offset = page.size /\ Parsed

\* The node is read, or the call has thrown.
Over == phase \in {"parsed", "refused"} /\ UNCHANGED vars

Next ==
  \/ EditLeaf
  \/ Store
  \/ \E n \in 0..(page.size - 1) : CutShort(n)
  \/ Read \/ EndsEarly \/ UnknownType \/ Trailing \/ Accept
  \/ Over

Spec == Init /\ [][Next]_vars

\* The node that the parser has made of what it read.
ParsedNode(read) ==
  LET n == read[2]
      chain(at) == [count |-> read[at + 1], id |-> read[at + 2]]
      m == read[3]
      types == SubSeq(read, 3 * n + 3, 3 * n + 2 + m)
  IN  CASE read[1] = "leaf" ->
             Leaf([i \in 1..n |-> [key |-> read[2 + i], val |-> read[2 + n + i]]],
                  chain(2 + 2 * n))
        [] read[1] = "overflow" ->
             [kind |-> "overflow", vals |-> SubSeq(read, 3, 2 + n), next |-> chain(2 + n)]
        [] read[1] = "internal" ->
             [kind |-> "internal",
              keys |-> SubSeq(read, 4, 2 + n),
              links |-> [i \in 1..n |-> [id    |-> read[2 + n + i],
                                         count |-> read[2 + n + n + i]]],
              queue |-> [i \in 1..m |->
                           [op  |-> types[i],
                            key |-> read[2 + 3 * n + m + i],
                            val |-> IF types[i] = "removeKey" THEN NoValue
                                    ELSE read[2 + 3 * n + m + m + Valued(SubSeq(types, 1, i))]]]]
-----------------------------------------------------------------------------
(* Properties *)

\* The page has as many bytes as the serializer writes, however the count of a
\* leaf came about: with less it would write behind its end, with more the page
\* could not be parsed.  Only internal nodes assert it (serializing.cpp:514).
SizeRight == phase = "memory" => PageSize(node) = FieldBytes(Serialized(node))

\* A page that was stored in full is parsed, and gives the node it was made of
\* (testserializing.cpp:11-73).
ReadsBack ==
  /\ phase = "parsed" => ParsedNode(got) = node
  /\ phase = "refused" => page.size < FieldBytes(Serialized(node))

\* A page that was cut short is refused, wherever it was cut, though the parser
\* may read behind its end on the way (serializing.cpp:4-10).
CutRefused == phase = "parsed" => page.size = FieldBytes(Serialized(node))

-----------------------------------------------------------------------------
(* Behind them *)

\* A leaf is in order, as merging edits needs, and its count is right.
NodeInv ==
  \/ /\ node \in [kind : {"leaf"}, pairs : Seq(Pairs), next : Links]
     /\ Sorted(node.pairs)
     /\ bytes = PairBytes(node.pairs)
  \/ node \in OverflowNodes
  \/ node \in InternalNodes /\ Len(node.links) = Len(node.keys) + 1

\* The first k fields have been read as they were written.
Upto(k) ==
  LET whole == Serialized(node)
  IN  /\ got = [i \in 1..k |-> whole[i].is]
      /\ offset = FieldBytes(SubSeq(whole, 1, k))

\* What has been read is what was written, or the parser is behind the end of a
\* page that was cut, where it can only be refused.
ParseInv ==
  LET whole == Serialized(node)
  IN  /\ phase = "memory" => got = <<>> /\ offset = 0
      /\ phase # "memory" =>
           /\ page \in [size : 0..FieldBytes(whole), fields : {Placed(whole)}]
           /\ \/ \E k \in 0..Len(whole) : Upto(k)
              \/ page.size < FieldBytes(whole) /\ offset \in Nat /\ offset > page.size
      /\ phase = "parsed" => Upto(Len(whole)) /\ page.size = FieldBytes(whole)
      /\ phase = "refused" => page.size < FieldBytes(whole)

PagesInv == NodeInv /\ ParseInv
=============================================================================
