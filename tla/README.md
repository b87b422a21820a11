# A verification of libbruce

libbruce keeps a sorted multimap in a B+-tree of immutable pages that live in a
block engine: memory, files, or S3. This directory holds TLA+ models of it, the
TLC configurations that check them on small instances, and proofs that TLAPS
checks for every instance. `PROJECT.json` lists every run, the mutants that show
what each property can catch, the source lines behind each definition, and the
hazards the properties are for. Paths below are relative to `src/`.

## The system

| component | state | operations | interacts with |
|---|---|---|---|
| tree (`src/libbruce/src/tree_impl.cpp`) | root and the nodes loaded below it, `m_loadedIDs`, `m_putBlocks` | `insert`, `upsert`, `remove`, `find`, `get`, `seek`, `rank`, `write` | loads pages from an engine, writes pages to it, returns a mutation |
| leaves and overflow blocks (`leaf_node.*`, `overflow_node.*`) | sorted pairs; a chain of blocks with more values of the last key | `leafInsert`, `leafRemove`, `applyAll`, pulls and pushes along the chain | edited by the tree |
| internal nodes (`internal_node.*`, `nodes.*`) | branches with least key, item count and child; a queue of pending edits | `FindInternalKey`, `itemCount` | queues go down on flushes and on queries |
| sizes and serialization (`serializing.*`) | none | sizes, split positions, pages from nodes and back | used by `write` and by loading |
| iterators (`tree_iterator_impl.*`) | a path of forks | `next`, `skip`, `key`, `value`, `rank` | share nodes with the tree, apply its pending edits |
| mutations (`mutation.cpp`, `bruce.cpp`) | created and obsolete pages, new root, success | `finish_mutation` | deletes pages from the engine |
| block engines (`be/mem.cpp`, `be/disk.cpp`, `src/awsbruce/src/s3be.cpp`) | blocks by identifier | `id`, `get`, `get_all`, `put_all`, `del_all` | shared by all sessions |
| root register | the committed root | compare-and-swap | outside the library: `README.md:75-79` leaves it to the application |
| block cache (`util/blockcache.cpp`) | blocks in order of use, a size | `get`, `put`, `del` | in front of S3 |
| bkv (`src/bkv/src/bkv.cpp`) | none but the root that its user keeps | put, query, scan | a session that finishes its own mutation |
| bstat (`src/bstat/*.cpp`) | counters | visits of pages | reads pages from an engine |
| registry, traits, pools, slices, bcat | | | no state of interest |

What is hard in it:

* **Several sessions over one engine.** A session reads the root, loads pages when
  it needs them, writes new pages, tries to publish its root, and deletes either
  what it replaced or what it created. Puts and deletes fail one by one, throw in
  the middle, or lose their answer; a session may stop anywhere. The committed
  tree has to stay readable, and what belongs to no tree has to go.
* **Edits that wait.** An edit may sit in the queue of any internal node above its
  leaf; every flush and every query moves edits down, in different ways. The
  contents must not depend on that, and the item counts that `seek` and `rank`
  live on have to follow.
* **Guarantees.** The application may promise that an edit finds its key, so that
  it is counted before it arrives. Promises may be false (`README.md:45-48`), and
  pages forget them.
* **Duplicates.** Values of one key beyond a block go to overflow chains, which
  are filled, cut off, pulled back and searched by separate code.
* **Boundaries.** Splits by size, branches that become empty, growth of the root;
  pages whose size is computed in one place and written in another.
* **Answers of S3.** They come in any order, late or never; the first failing get
  throws, and the cache keeps an account of sizes that only drifts upwards.
* **Clients.** bkv deletes the old pages before its user has seen the new root.

There are no threads in the library: a tree is used by one thread, and the
concurrency is between sessions, at the steps where they touch the engine.

## The modules

```
 Multimap   PairBags                Snapshots ----- SnapshotsProofs
     ^      ^                          ^
     |      |                          | (implements)
   BruceTree --> Iterator --> Tree   Commit --- CommitProofs
       |            Stats -->  |       ^             |
       v                       v       |          BkvProofs
   MCBruceTree                Leaf    Bkv -----------'
                               |  ^
                               |  '-- LeafProofs --> ListsProofs, PairBags
                               v
   PagesProofs --> Pages --> PairLists         S3Engine --> BlockCache   LeafSplit
        |            |           ^               ^   |          |            ^
        |            '---------> Sums <----------|---'----------'            |
        |                         ^              |                           |
        '-------------------> ListsProofs <-- S3EngineProofs   LeafSplitProofs
                                    ^-------------------------------'
```

**`Commit`** is the protocol between sessions, engine and root register. A page is
reduced to the set of pages it refers to. State: the engine's blocks and what
they refer to; the committed root; per session its program counter, the base
root, the loaded pages, the pages being put, and the fields of its mutation.
Actions: `Open`, `Load`, `LoadFails`, `Close`, `BeginWrite` (flush, serialize,
ask for identifiers), `PutOne`, `PutFails`, `PutThrows`, `Collect`, `Publish` and
`Abort` (the application's compare-and-swap), `BeginFinish`, `DelOne`,
`DelFails`, `FinishReturns`, `FinishThrows`, `Crash`. Puts and deletes are single
steps, so that sessions interleave inside `put_all` and `del_all`. The constant
`Faults` chooses which failures exist (a `del_all` that throws is one failure for
commits and rollbacks alike, and another, harmless one, for rollbacks only);
`ContentAddressed` chooses between the counter of the memory engine and the SHA-1
of the other two. With the counter each page that is written is new and has one
parent. With hashes a write may give a page the identifier of one that was there
before, and the end of a chain of overflow blocks, which holds values and a link
but no key, may be the end of several chains (`Layouts`, `Shared`). The ghosts
`live`, `leaked`, `baseTree` and `newTree` only record.

**`Snapshots`** is what all of that promises: a store of versions. A version is a
root and its pages; sessions open the current one, pages come and go except those
of the current version, and a commit replaces the version its session has open
by one of stored pages whose fresh ones nobody else has open. `Commit` implements
it (`IsSnapshotStore == Snap!Spec`): the version is `root` and `live`, the stored
pages are `blocks`, and a session has its base open from `Open` until it commits
or is done.

**`Bkv`** is the command bkv on top of `Commit`, as `bkv.cpp:118-141` has it: no
compare-and-swap, the mutation is finished once and before the new root is
printed, and what that call leaves over is forgotten. Queries and scans open,
load and close. Its root register is its user, so a command starts from what
the last one printed. A command may be killed at any step; an exception of
`put_all`, which `main` catches to end the command, leaves the same behind and is
`Kill` as well. The engines that keep blocks from one command to the next name
pages by hashes, so a put deletes pages that the tree still needs: those that it
writes once more, and those that it loaded below one chain while another one
ends in them too (`Twins`). The ghost `risked` has these pages, and those that a
command that was killed had begun to delete from its user's tree.

**`Leaf`** and **`Tree`** are the algorithms of the tree as operators on nested
values: leaves with chains; nodes with branches and queues; flush, split, write,
open; find, seek and rank, which return the changed tree beside their answer.
`Leaf` has no recursive operators; `Tree` is recursive and is for TLC. A failed
assert, undefined behaviour or a page that reads back wrong is the node
`Undefined`; a `write()` that throws is `Refused`.

**`PairLists`** has what the pairs of a leaf are in both `Leaf` and `Pages`: a sequence
sorted by key, the insertion behind the pairs of a key, and one step of the merge
of `LeafNode::applyAll`.

**`Iterator`** adds `begin`, `next` and `skip`. An iterator is a path of branches,
an overflow block and a position in it; a step past the end of a leaf travels to
the next one and applies the edits that wait above it. As an edit invalidates
iterators, a scan of n items, or a skip, is one call.

**`Stats`** is bstat: the walk over pages, depth first, and the collector with its
counters, one of which (`m_lastLeafDepth`) has to survive from the visit of a
leaf to those of its overflow blocks.

**`BruceTree`** is one tree in use: a call per action (`Insert`, `Upsert`,
`RemoveKey`, `RemoveKV`, `FindKey`, `SeekItem`, `RankKey`, `ScanItems`,
`SkipItems`, and `Write`, which also opens the new root since a tree is frozen
after `write()`). The ghost `bag` is the contents of the tree with all queued
edits made, deepest first.

**`Multimap`** over **`PairBags`** is what a tree promises: a bag of pairs, each
edit changing it as its name says, and nothing else changing it. `BruceTree`
implements it: `IsMultimap == MM!Spec` with `bag` and `call` as the mapping.

**`LeafSplit`** cuts one leaf with keys and values of different sizes into leaves
and overflow blocks, with the arithmetic of `LeafNodeSize` and
`OverflowNodeSize` and the loops of `maybeSplitLeaf` and
`pushDownOverflowNodeSize`; one state per piece.

**`Pages`** takes a node into a page and back: edits of a leaf with the count of
bytes it keeps, one operator per serializer that lays out the fields, a write
that may be cut short, and the parser, one field per step, with its checks.

**`BlockCache`** and **`S3Engine`**: the cache as operators, and the calls of the
S3 engine of one process: a request per block, the service that handles them in
any order, the answers collected in the order of the list, the exception at the
first failing get. Other processes change the bucket at any time, and the
process may restart. A failing answer says nothing of what was done.

**`Sums`** is the total of a sequence of sizes, which the cache and the pages need.

`MCCommit`, `MCBkv`, `MCBruceTree`, `MCLeafSplit`, `MCPages` and `MCS3Engine` are
the modules TLC runs; each run has a `.cfg`.

What the models abstract: keys and values are small numbers; in `BruceTree` each
kind has one size in bytes, in `LeafSplit` and `Pages` they have several; sizes
are counted exactly (30 bytes of leaf header, 24 per branch, and so on) because
they decide splits. Pages in `BruceTree` have no identifiers and in `Commit` no
contents; the two meet in the rule of `Commit!Serialize` that a session rewrites
every page it loaded and refers to the rest.

## The runs

Protocol (`MCCommit_*.cfg`, `MCBkv_put.cfg`): two sessions that can open, write and
finish again and again until the identifiers are used up, with a write of one or
two pages (bounds `MaxId`, `MaxNew`). Two sessions are enough for every race
between winner and loser; a second write of two pages has shared, replaced and
new pages. bkv has one writer at a time, since two without a compare-and-swap
lose each other's puts by design; four identifiers and writes of up to three
pages, whose identifiers may be old ones, are enough for a put that writes the end
of one chain once more as that of another, and a later one that loads this end
and deletes it from under the chain that it did not load. Branches are not
dropped there, since bkv only inserts.

| run | shows |
|---|---|
| `commit_clean` | without failures: `TypeOK`; `SnapshotStable`, a session whose root is still the committed one works on exactly the committed tree; `RewriteExact`, a write accounts for each page it loaded or refers to; `QuiescentClean`, when all sessions are done only the committed tree is left; `Reclaimed`, a page that leaves the committed tree is deleted in the end |
| `commit_faults` | with puts and deletes that throw, fail one by one or lose their answer, deletes that silently do nothing, gets that fail, dropped branches and crashes: `CommittedReadable`, every page of the committed tree exists; `CommitInv`, the invariant of the proof; `CommitExtendsBase`, a commit replaces just the root its session opened and revives no page; `GarbageAccounted`, a block in no tree is owned by a session or was lost by a named failure; `IsSnapshotStore`, all of it is a store of versions |
| `bkv_put` | with hashes, puts and deletes that fail or lose their answer, and kills anywhere: `ShownReadable`, between commands the root that was printed last can be read but for the pages at risk; `OneTreeStored`, from the first delete on, before the new root is printed, the new tree (or the old one, if a put failed) is stored but for those; `LeftoversExplained`, every other block was left by a named failure |

Trees (`MCBruceTree_*.cfg`): block and queue sizes are chosen so that a leaf holds
two to four pairs, an internal node two or three branches and a queue none to
three edits; `MaxPending` bounds the edits in the queues, `MaxHeight` the levels,
`MaxItems` the pairs. The next larger values of `MaxItems` or `MaxPending` add
states but no new shape of tree: each run already has splits, merges of counts,
reloads and, where it says so, chains of more than one block.

| run | shows |
|---|---|
| `tree_edits` | three keys, two values, two levels, all edits, true, false and no guarantees: `IsMultimap`, and `LeafCountsExact`, the counts above leaves are right whatever was promised |
| `tree_insert` | six keys, three levels with queues in two: `TreeInOrder` (search order, equal depth, no empty node), `FindExact`, `WriteAccepted` (every page fits), `ScanExact` (a scan meets every pair once, in order, and changes nothing) |
| `tree_remove` | five keys, three levels, truthful removals: `RankExact`, `IsMultimap`, `SkipExact` (`skip` by one to either side gets to the pair there, except that it ends up invalid exactly when that pair is the first of the next leaf) |
| `tree_duplicates` | up to six pairs of three keys, edits with and without guarantees, queries between them: chains of up to two blocks, `IsMultimap`, `NothingUndefined`, `SeekExact`, `ScanExact`, and `StatsExact`, that bstat counts what is there, with the right depth and longest chain |

Pages and sizes:

| run | shows |
|---|---|
| `leaf_split` | every leaf of up to six pairs of three keys, one of them long, and four sizes of values, one of which fits into no block beside the header though `validateKVSize` accepts it, with and without a chain: `PairsKept`, `KeysTogether` (a key in one leaf, a chain with the last key of its leaf); `PushDownEnds`, a chain is pushed down for ever only if such a value is in it; and for leaves of pairs of at most half a block `PiecesFit` and `ChainHasLeaf` (the assertion of `maybeSplitLeaf`). Six pairs are two cuts with a chain at each |
| `pages` | leaves of up to three pairs after up to two edits at once, overflow blocks, nodes of two branches and two edits: `SizeRight`, a leaf's count of bytes is that of its pairs and a page is exactly as long as what is written into it; `ReadsBack`, the parser returns the node; `CutRefused`, a page cut anywhere is refused. Fields do not depend on how many there are, so two of each are enough for first, next and last |

The engine (`MCS3Engine.cfg`): three blocks of sizes 1, 2 and 3 and a cache of 3, so
that one block evicts one or two others, calls of one or two blocks, the same
one twice as well. `Wrap` is the range of `size_t`, 16 here: the accounted size gets at
most one block above `CacheSize`, so that only a number below zero could reach
it.

| run | shows |
|---|---|
| `s3_cache` | `TypeOK`; `SizeCovered`, the accounted size is never below the real one, which would let it wrap; `CacheBounded`; `CacheHonest`, what the cache or a `get_all` has is in the bucket or was deleted behind the back of the engine; `CallsReturn`, every call returns or throws |

The pinned key of the tree runs is never removed, so that no internal node becomes
empty. Two runs are expected to violate their property, where the code does not
do what its documents, comments or tests say; `PROJECT.json` quotes the text:

| run | what happens |
|---|---|
| `commit_content_ids` | with hashes as identifiers, one session after another: a session that loads the committed page and writes it as it was has it as created and as obsolete, and finishing its mutation, committed or rolled back, deletes it |
| `tree_order_inverted` | a later unguaranteed edit overtakes an earlier guaranteed one of its key |

`tree_order_inverted` stops at the violation and does not check for deadlock, since
a tree at `Undefined` or `Refused` has no next step.

### Other departures

The same modules show these; each row names a configuration to see it with
(`CHECK_DEADLOCK FALSE` in all of them), by what differs from one that is here.

Where the code departs from what a document, comment or test says:

| where | what happens | property | configuration |
|---|---|---|---|
| `bruce.cpp:35` | a `del_all` that throws while a commit is cleaned up marks the mutation as failed, and the next call deletes the committed pages (against `bruce.h:67-69`) | `CommittedReadable` | `MCCommit_clean.cfg` with `SPECIFICATION Spec`, `MaxId` 3, `Faults <- ThrowFaults` |
| `tree_impl.cpp:542`, `internal_node.cpp:38` | a false guarantee makes a node count as empty, and a key is lost (`README.md:45-46`) | `WriteExact` | `MCBruceTree_flat.cfg` with keys 1..6, values {1}, `BlockSize` 90, `QueueSize` 28, `ValueSize` 24, calls insert, removeKey, promises true, false, `MaxItems` 5, `MaxHeight` 3 |
| `leaf_node.cpp:81` | a flushed insertion behind the last key of a leaf gives its chain another key (`DESIGN.md:66-67`) | `WriteExact` | `MCBruceTree_dups.cfg` with `BlockSize` 113, `QueueSize` 23, calls insert, promises true, nothing pinned, `MaxPending` 3 |
| `tree_impl.cpp:440` | a full overflow block dereferences a link that is not loaded (`DESIGN.md:70-73`) | `NothingUndefined` | `MCBruceTree_dups.cfg` with keys {1}, calls insert, promises true, nothing pinned, `MaxItems` 8 |
| `tree_iterator_impl.cpp:99-121` | `skip(2)` that leaves its leaf has moved to the end of it already when it seeks `rank() + 2`, and comes out too far (`test_iterator.cpp:36-43` in one leaf, and the comment at :121); if it just reaches the end of its leaf it is invalid, with `skip(1)` as well, though pairs follow; `SkipExact` states this for single steps | `SkipExact` | `MCBruceTree_remove.cfg` with keys 1..6, `Skips <- TwoSteps`, calls insert, skip, promises none, `MaxItems` 6 |

Others:

| where | what happens | property | configuration |
|---|---|---|---|
| `tree_impl.cpp:803` | `rank` adds the count of a branch before the unguaranteed edits of that branch are applied; a second call is right | `RankExact` | `MCBruceTree_flat.cfg` with keys 1..4, one value, calls insert, removeKey, find, promises none, true, `MaxItems` 4 |
| `serializing.cpp:192` | pages forget guarantees, so counts are stale after queued edits of an intermediate node were written and read | `SeekExact` | `MCBruceTree_insert.cfg` with keys 1..5, `QueueSize` 51, promises true |
| `tree_iterator_impl.cpp:186` | a scan that travels over an intermediate node overwrites the count of a branch of the wrong node | `SeekExact` | `MCBruceTree_remove.cfg` with calls insert, scan |
| `tree_impl.cpp:705` | `seek` behind the last pair finds a value in the last overflow block, as an `if` lacks braces | `Seek(root, Items(bag)).item = Nothing` | `MCBruceTree_dups.cfg` |
| `tree_impl.cpp:232` | the loop of `overflowRemove` goes on after an erase, behind the end of the block | `NothingUndefined` | `MCBruceTree_dups.cfg` with values 1, 2 and calls insert, removeKV |
| `tree_impl.cpp:543` | a root without branches is written, and read back with one branch to nothing | `NothingUndefined` | `MCBruceTree_remove.cfg` with nothing pinned and calls insert, removeKey |
| `tree_impl.cpp:324` | a root that has to be cut more often than four times is refused, as each split takes off a single branch | `WriteAccepted` | `MCBruceTree_remove.cfg` with keys 1..12, calls insert, `MaxItems` 12, `MaxHeight` 5 |
| `tree_impl.cpp:305`, `serializing.cpp:264-298` | a pair that `validateKVSize` passes does not fit with the header, and a large pair at the cut stays in a leaf that is too full, or leaves a chain without a leaf | `PiecesFit` without `Moderate`; `phase # "assert"` | `MCLeafSplit.cfg` |
| `serializing.cpp:318-327` | an overflow block in which not even one value fits is pushed down for ever | `phase # "endless"` | `MCLeafSplit.cfg` |
| `bkv.cpp:129` | a kill between the deletes and the printing leaves the user with a root that was deleted | `ShownReadable` without `risked` | `MCBkv_put.cfg` with `ContentAddressed` FALSE |
| `bkv.cpp:129`, `disk.cpp:74` | a put deletes a page of the tree whose root it prints, since it wrote the page as it was, or another chain of the tree has the same end | `ShownReadable` without `risked` | `MCBkv_put.cfg` |

Seen while reading, and not shown by a run: `key()` in an overflow block takes it
for a leaf, which is undefined (`tree_iterator_impl.cpp:47-55`); an iterator that
arrives in a leaf that edits have emptied is invalid though pairs follow, which
`ScanExact` allows for; `rank` of an iterator in a chain leaves out the pairs of
the leaf; comparing iterators ignores the position; an option of an engine's URL
runs on into those behind it, as `be_registry.cpp:46` passes a position as a
length; the `binary` type compares with `bcmp`, which gives no order, and two
equal ones are never equal (`traits.h:111-116`); puts of cached blocks and deletes
leave the size of the cache too large, and in the end it may keep nothing
(`blockcache.cpp:31`).

Why the passing runs stay clear of these: `tree_edits` and `tree_duplicates` have
two levels, so no queue is bypassed; `tree_remove` has no area for queues on
pages, true guarantees only, and no scans; `tree_insert` scans but checks no
counts; `tree_duplicates` has too few pairs to overflow a full chain, and does not
remove by key and value; `tree_remove` skips by single steps; the properties of
`leaf_split` and `bkv_put` name the pairs and the pages that they do not hold of.
Within these limits all interleavings of calls are explored.

### Fairness

`commit_clean` uses `FairSpec` of `Commit`: a session that has begun to write goes
on, through its puts, the publication or the roll-back, its deletes and the
repetition of `finish_mutation` while it reports blocks that are left. The
library runs these steps in one thread without waiting for another session, and
`bruce.h:58-72` asks the application to finish every mutation. The run has no
failures and no crashes: a delete that always fails reclaims nothing. Nothing is
assumed about opening or loading.

`s3_cache` uses `FairSpec` of `S3Engine`: a call goes on while it can. The engine
runs it in one thread, and each request is answered or times out, by the
connect and request timeouts of `s3be.cpp:226-227`. Nothing is assumed about what
is answered, other processes or restarts. The trees have no liveness properties:
each call is one step, and that its loops end is part of evaluating it.

## The proofs

Each result holds for every value of the constants that its assumptions admit.
`SafeEngine` stands for what the protocol needs of an engine: identifiers are not
hashes of contents, and `del_all` does not throw while a committed mutation is
finished. The run `commit_content_ids` and the first of the other departures show
that neither can be left out.

| theorem | property | assumes |
|---|---|---|
| `CommitProofs!TypeCorrect` | `TypeOK` | nothing |
| `CommitInvariant`, `AlwaysReadable`, `AlwaysSnapshot` | `CommitInv`, `CommittedReadable`, `SnapshotStable` | `SafeEngine` |
| `CommitsExtend` | the action property `CommitExtendsBase` | `SafeEngine` |
| `ImplementsSnapshots` | `IsSnapshotStore` | `SafeEngine` |
| `NothingForgotten` | `GarbageAccounted` | `SafeEngine` |
| `MutationExact` | `RewriteExact` | `SafeEngine`, and no branch is dropped |
| `NothingLeft` | `QuiescentClean` | `SafeEngine`, and none of the failures that lose a page |
| `SnapshotsReadable` | of the abstract store | nothing |
| `BkvInvariant`, `AlwaysShown`, `AlwaysOneTree`, `AlwaysExplained` | `BkvInv`, `ShownReadable`, `OneTreeStored`, `LeftoversExplained` | one command at a time |
| `S3EngineProofs!TypeCorrect`, `AlwaysHonest`, `AlwaysOnce` | `TypeOK`, `CacheHonest`, no block twice | nothing |
| `AlwaysCovered`, `AlwaysBounded` | `SizeCovered`, `CacheBounded` | `RoomBelowWrap` |
| `SplitKeeps`, `KeysStayTogether` | `PairsKept`, `KeysTogether` | nothing |
| `PiecesAlwaysFit`, `ChainAlwaysHasLeaf`, `PushingDownEnds` | `PiecesFit`, `ChainHasLeaf`, `PushDownEnds` | nothing |
| `LeafProofs!EditExact` | of one leaf: what `PairBags` allows | numbers as keys, a leaf in order, no removal of a value that only the chain has |
| `FlushExact` | the same for the edits of a queue at once | numbers as keys, a leaf in order, keys in order and below that of a chain |
| `NodeAlwaysGood`, `SizesAlwaysRight` | `NodeInv`, `SizeRight` | nothing |
| `ParserOnTrack`, `CutAlwaysRefused`, `AlwaysReadsBack` | `PagesInv`, `CutRefused`, `ReadsBack` | nothing |

**The protocol** (`CommitProofs`). `CommittedReadable` is not inductive: it does not
say why a delete spares the committed tree. `CommitInv` adds what each session's
lists may contain at each program counter: created pages are its own and in
nobody else's tree or list; obsolete pages are of its base tree and, once it has
committed, of no committed tree; a base root that is still committed has its tree
intact, because identifiers are never issued twice, so that a root that was
replaced cannot come back. The proof that steps keep it has one step per action
of `Next` and under it one per part of `CommitInv`. The lemmas are about `Reach`:
that a set of pages is closed, that new pages extend a tree and change no old one.
The refinement of `Snapshots` rests on it as well: the initial state is one of
`Snapshots`, and each action is a step of it or a stutter, with one lemma per kind.

**What is left over** (`CommitProofs`). `GarbageAccounted` needs more of the
lists: that a page which a session put is on its list of created pages or was
lost, that a page it loaded is on the list of obsolete ones once it has written,
and that only what was deleted leaves the list it works on. These are `ListInv`,
and `AccountInv` is the whole.

**What a write replaces** (`CommitProofs`). `RewriteExact` compares whole trees: what
the new root reaches with what the session wrote and what it left alone. `ReachInv`
says that the committed tree, the base and the new tree of each session are what
their roots reach, that a session loads from the root down, and that what it did
not load is in the tree it writes. That all new pages are reached from the new root
needs induction over their parents; as a parent has the larger identifier, it
enters as the largest identifier of a set, which exists because `<` is
well-founded on the natural numbers (a theorem of the library). The assumption on
dropped branches is needed: a branch that is erased without being loaded is
neither in the new tree nor on the list (`dropBranch`, one of the failures of
`commit_faults`). `QuiescentClean` follows from `ReachInv`, `AccountInv` and that
nothing is ever counted as lost. The failures it excludes are those that lose a
page: a put or a delete whose outcome is not known, a `put_all` that throws, a
dropped branch and a crash. Puts, deletes and loads that fail, and a roll-back that
throws, are not among them: a mutation that is finished until nothing is left
leaves nothing.

**bkv** (`BkvProofs`). All that is assumed is that one command runs at a time, since
two lose each other's puts by design. Pages may be named by hashes, so that
`SafeEngine` and with it `CommitInv` are not to be had; `BkvInv` is an invariant of
its own, with four parts. `ShownInv`: references go from larger identifiers to
smaller ones, and the user's tree is what its root refers to. `SessionInv`: what a
command loaded is of that tree, from the root down. `PutInv`: its new tree is what
the new root refers to, and a page that it loaded is in there only as a twin.
`TakeInv`: what it may delete is needed by no tree but for the pages at risk. The
argument that matters is in `UnloadedClosed` and `Serialized`: what a command left
unloaded, with the pages that several pages share, refers to nothing else that
it loaded, so that a loaded page is in the new tree only if it was written once
more or was shared before; and these are the twins, which are at risk from the
call of `finish` on.

**The engine** (`S3EngineProofs`). `CacheHonest` is strengthened by what answers say:
a get that was answered well has its block in the bucket, or somebody deleted it
since, and so has a put; lists and answers have the same length. For the account
of sizes the invariant is `CacheFits`: the accounted size is at most `CacheSize`
and at least the sum of the blocks that are held. It needs `RoomBelowWrap`, that
the cache's size and that of any one block together are less than the range of
`size_t`: without it `m_size` wraps and the cache holds more than it may. Evicting
is a search for the least number of blocks that is enough, and that there is one,
and that what it leaves is covered, are facts about sums of a sequence and of its
front, which `ListsProofs` proves: `Total` folds over indices, so each of them is an
induction over the length, by way of the least counterexample.

**Cuts** (`LeafSplitProofs`). `SplitInv` says that what is left is in order, that every
leaf that was cut off is before all that follows it, and that its chain has its
last key. A cut at the first pair that is beyond half a block is described by
three places, `CutAt`: the first pair of its key, the pair, and the last of its key;
that they are in this order and that keys change only behind the last is where
the order of the leaf is used. `NothingLost` says that the pieces so far, chains
included, and what is left are the leaf that there was; it needs no order.
`FitInv`, which holds if all pairs are `Moderate`, adds that all pieces but the block
at hand fit, and that the last key of a leaf with a chain occurs once: no pair is
larger than half a block and each fits beside the header, so that what is kept
on the left is at most half a block and one pair. For a chain without a leaf the cut
would have to be behind the last pair, whose key is there once, so that all but
one pair are within half a block, and the leaf would not have been cut.
`validateKVSize` accepts larger pairs, up to a whole block without a header, and
with them pieces are too large and the assertion fails (see the other
departures). `PushDownEnds` needs neither: a block keeps nothing only if its first
value does not fit beside the header, and that value is one of the leaf that
there was, because nothing is lost.

**Leaves** (`LeafProofs`). What an edit of one leaf does is stated against the same
`PairBags` that `IsMultimap` uses for whole trees: the bag of the leaf and its chain
becomes one of `Results`, the leaf stays good (pairs in order, a chain that ends
with a value and has a leaf before it; TLC found every leaf in the states of the
four passing tree runs to be so), and the number of pairs changes by `Delta`
if the edit has what it speaks of, which is what a guaranteed edit is counted for
before it arrives. A bag is how often a pair occurs, so the argument is about
counting places: how appending, inserting, removing, replacing, reversing and
flattening change the number of places whose element is in a set. Places are taken
to places by bijections, since a sum over a sequence would be one more induction;
only flattening a chain needs one, over its length. Each of `leafInsert`,
`leafRemove`, `overflowInsert` and `overflowPull` then adds, drops or swaps one
pair, in whichever of the pairs and the chain. Left out is `OnlyInChain`, the removal
of a value that the chain has and the leaf has not: there the loop of
`overflowRemove` may take out several, or run past the end of a block. `FlushExact`
says of `applyAll` that there are leaves from the one before the flush to the one
after it, and that each edit is a step of the kind of `EditExact` from one to the next.
Those leaves are what the merge has moved and what it has not, put together, after
each edit: an insertion comes in between the two parts, and what an upsert or a
removal may meet is in the first part, since the keys of the queue are in order.
That they are is an assumption here; that a queue is kept in order is checked in
`TreeInOrder`. With a chain the edits have keys below the chain's: one behind it
takes the chain away from its key (`leaf_node.cpp:81` in the other departures).

**Pages** (`PagesProofs`). `SizeRight` speaks of the count of bytes a leaf keeps, so
its invariant, `NodeInv`, is that the count is that of the pairs; but the pairs have
to be in order as well, since `applyAll` counts only what its merge moves and
takes the last pair of a key for the one it meets. The merge is a fold, which is
described by what it has after each edit: a sorted part before the edit's key, a
sorted rest behind it, and a count that is that of both. The fold's definition is
unfolded once, in `FoldingExists` and the lemmas behind it, and every use then is
an induction over the number of edits, by way of the least counterexample. For
the two properties of the parser `ParseInv` says that the parser is on track,
`Upto(k)`: what it has read is the first k fields, and its offset is their length;
or else the page was cut and the offset is behind its end, from where on the
parser cannot get back, as no field has a negative length and the checks compare
with the length of the page. That a parser on track expects next exactly the field
that was written there needs one lemma per kind of node and place in it, since
what it expects depends on what it has read (the counts, and for the values of a
queue the types of its edits); that it finds the field at its offset needs that no
two fields begin at the same place, which is where no key and no value may be
empty (`PagesAssumption`). A page is accepted only on track at the last field, and
`ParsedNode` of what was written is the node: `ReadBack`, again by kind. For the
values of a queue the k-th edit that has one gets the k-th value, which is where
`Valued`, the number of edits so far that have a value, is used on both sides.

The invariants were checked as invariants of the runs before they were proved.

Only model-checked: `Reclaimed` and `CallsReturn`, since liveness and `ENABLED` are
outside the prover; and everything about whole trees (`BruceTree`, with
`IsMultimap`, `TreeInOrder`, `FindExact`, the counts, ranks and scans): its trees are
nested values, and what a recursive operator makes of them for every depth is an
induction over data, which the prover cannot do. `EditExact` and `FlushExact` are the steps of
such an induction that happen in a leaf.

## Not modelled

* The registry of engines (text without state), traits and the typed interface
  (conversions of one value), memory pools, slices and pages of memory
  (ownership, which a model without pointers cannot lose), bcat, the table that
  bstat prints, SHA-1 (only that equal pages have equal hashes is used), the
  file system below the file engine, and the test framework in `src/libs/catch`,
  which is larger than everything else in the repository together.
* Two iterators of one leaf, and iterators that are used after an edit: the code
  leaves them dangling, and a nested value has no pointers to dangle.
* Internal nodes with keys of different sizes, and an area for queues as large as
  a block, where `InternalNodeSize` wraps and nodes are never split.
* The `binary` trait in `Pages`: the length of such an item is read from the page,
  so a cut in it may give any length. `Pages` has the numbers and strings that
  bkv and the tests use. A short read (`disk.cpp:61`) leaves zeros behind what
  was read, which may parse as empty strings; `CutRefused` is about short writes,
  where the file itself ends.

`PROJECT.json` has the reasons per component, and its hazards name the places that
a property should cover.

## Plan

Done: `Commit` with its proofs, the trees with their iterators, `Snapshots` and the
refinement, `Bkv` and its proofs, the S3 engine with its cache and its account of
sizes, cuts of leaves and their proofs, edits and flushes of leaves and their
proofs, pages and their proofs, bstat. What is left:

1. Trees over a page store, with identifiers: the composition of `Commit` and
   `BruceTree`. As a store of nodes by identifier, instead of nested values, a tree
   would have an invariant that can be proved without induction over its shape.
