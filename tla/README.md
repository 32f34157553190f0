# A verification development for worktest

The repository is a store of test code: small, independent C programs and
libraries. There is no common main program. The files in `src/commoncode` are
copies, byte for byte, of the files of the same name in `src`, and whatever is
said here of the latter holds of the copies.

Each library or program is a component of its own here. No component calls
another one: `un7zip` calling `LzmaDecode` is the only call across files.

## 1. Inventory

| component | source | state | operations | what is hard |
|---|---|---|---|---|
| readers-writer lock | `rw_lock.h` | a mutex (`barrier`), a semaphore (`count`) of 16 permits | create, destroy, down/up of read and write | threads interleave between any two OSAL calls; the writer takes 16 permits one at a time |
| red-black tree | `rbtree.c`, `rbtree.h` | internal nodes, leaves in a circular list, a head; cached addresses of leaves in internal nodes | create, insert, insert_unique, find, find_value, delete_node, free, destroy | long sequences of calls before the deletion loop climbs; failing allocations; stale cached addresses; fields that are never written |
| linked lists | `link_list.c`, `link_list.h` | rings through `next` and `prev` | init, add, add_tail, del, del_init, splice, replace, and loops | stale links of deleted elements; changes while a loop runs; boundary cases of empty rings |
| file server | `socket_main.c` | `readfds`, `tmpfds`, `connfd`, a buffer | accept, `-get`, `-up`, `-ls`, other text, close | clients run between any two steps; `connfd` is not the connection that asked |
| LZMA decoder | `LzmaDecode.c`, `LzmaDecode.h`, `un7zip.c` | range coder, state machine, four distances, output | decode | numeric boundaries, 32-bit arithmetic, state shared by distant branches |
| converters | `BinToHexBatch.c`, `hexbin/*.c` | a directory that is read and written, two tables | bintohex, createcode, hextobin | the walk meets its own output; reads at the end of a file |
| chain reversal | `chaintest.c` | a single and a double chain | build, reverse | links rewritten in place |
| expression printer | `printmath.c` | random draws | draw sums and differences | ranges of 0 and 1 |
| file test | `rdwrtest/rdwrtest.c` | one block of a file, two processes | write, read | two processes without synchronisation |
| build scripts | `android-build/*` | none | sign and build | not modelled |

What makes each component correct:

- **lock**: no permit lost, a writer excludes everybody, only misuse
  deadlocks, a waiting writer is not starved by readers.
- **tree**: the links of parents, children and list agree after every call, the
  red-black rules hold, cached addresses are fresh, no memory leaks, lookups
  return what is there; to its client it is a sorted sequence.
- **lists**: rings stay whole, no ring reaches a deleted element, a loop visits
  what was on the list; to its client a head is a sequence of entries.
- **LZMA decoder**: one shift normalises, no bit is ruled out, every distance has one
  code, the tables do not overlap, the decoder stays in its window whatever it
  decodes, and it returns.
- **file server**: every open connection is watched, every client is accepted
  and read, answers reach the one that asked, the loop goes on, and where it
  does not there is a known cause.
- **converters**: headers hold what their files held although the walk meets
  what it writes, both tables list the same arrays, every number is written, the
  walks end.
- **chain reversal**: every link is there in the other direction, for any length.
- **expression printer**: no number leaves the range, formats fit their arguments.
- **file test**: what is read is from a write of its time, and reading goes on.

## 2. Modules

| module | models |
|---|---|
| `RwLock` | `rw_lock.h`, one action per OSAL call of every function |
| `ReadersWriter` | what a readers-writer lock promises |
| `MCRwLock` | an instance for TLC |
| `RwLockProofs` | theorems about `RwLock` |
| `RbHeap` | `rbtree.c`: memory, list and the local operations on nodes (`insert`, `delete_item`, `single_rotate`, `mk_new_ext`) |
| `RbTree` | `rbtree.c`: the algorithms, and a client that calls them |
| `RbTreeProperties` | the tree's properties; `rbtree_nblack`, `rbtree_plength` |
| `RbTreeShrink` | a client that fills a tree and then deletes |
| `SortedSequence` | what the tree promises |
| `MCRbTree`, `MCRbTreeShrink` | instances for TLC |
| `RbTreeInsertProofs` | the invariant of the tree, what it says of the tree's properties, insertion, and the turns of the lookups |
| `RbTreeProofs` | deletion, the order of the keys, the lookups, and the theorems about `RbTree` |
| `LinkList` | `link_list.c`, one action per function |
| `LinkListLoops` | the loops of `link_list.h`, one action per turn, with a client's body between turns |
| `Lists` | what the lists promise |
| `LinkListProofs` | theorems about `LinkList` and `LinkListLoops` |
| `SocketServer` | `socket_main.c`, one action per turn of the scan, with clients in between |
| `SocketServerProofs` | theorems about `SocketServer` |
| `MCSocketServer` | instances for TLC |
| `RangeDecoder` | `LzmaDecode.c`: the arithmetic of the range coder, one action per bit |
| `LzmaBits` | `LzmaDecode.c`: symbols, lengths and distances from bits, and the layout of the probabilities |
| `LzmaDecode` | `LzmaDecode.c`, `un7zip.c`: the decoding loop and its callers |
| `LzmaDecodeProofs` | what strings of bits stand for and which probabilities they use, and theorems about `LzmaDecode` and `RangeDecoder` |
| `Lz77` | what the decoder promises |
| `MCLzmaDecode` | instances for TLC |
| `Directory` | the directory in which the converters run |
| `BinToHex` | `BinToHexBatch.c`, both walks, one action per byte or file |
| `HexToBin` | `hextobin` of `hexbin/HexToBinBatch.c`, one action per number |
| `Converters`, `MCConverters` | both in one directory, and an instance for TLC |
| `Chains` | `chaintest.c`, one action per turn of a loop |
| `PrintMath` | `printmath.c` |
| `RdWrTest` | `rdwrtest/rdwrtest.c`, both processes |
| `TestPrograms` | the three programs above, one of which runs |
| `ProgramProofs` | theorems about `Converters` and about each of the three |
| `Induction` | induction over numbers, and functions defined by it, in a form the provers can use |

In the modules some definitions carry a comment that starts with "Slip". They
are operations of the code with one plausible mistake in them; no
specification uses them. Each property is run against one of them, put in the
place of the operation it imitates, and has to be violated: this shows that
the property would notice the mistake.

### RwLock

A thread is at one place (`pc[t]`) of one function. `DownReadCall`,
`DownReadLock`, `DownReadWait`, `DownReadUnlock` are the lines of `down_read`,
and so on. `left[t]` is the local variable `count` of `down_write` and
`up_write`: `while (count--)` is one action per turn. `up_write` posts without the
barrier, as in the code. The mutex and the semaphore belong to an OSAL that is
not in the repository: `OsalMutexLock`, `OsalMutexUnlock`, `osal_sema_wait` and
`osal_sema_post` model them as the lock uses them, a mutex that excludes and a
counting semaphore. `rw_lock_create` drops the result of `OsalMutexCreate`, so
`MutexResults` may contain FALSE: then locking does nothing.

A thread calls `up_read` or `up_write` only while it has the lock in that way, which
is what `depth[t]` (its reads) and `writers` (from the last wait of `down_write` to the
call of `up_write`) say: they are a history of the calls, the code keeps nothing of the
kind. Nothing stops a thread that reads or writes from calling `down_read` or `down_write`
again, so in the model it may; it then waits for permits it holds itself. `MaxNest` bounds
the reads that one thread nests.

### RbHeap, RbTree

`mem` is a function from the addresses that are allocated to records with the
fields of `struct rbtree_node`. Fields the code does not write keep `Junk`,
whatever the memory held. A loop is a recursive function: `recolor_turns`,
`delete_turns`, `free_turns` and `value_turns` give what is there after each turn, up to as many turns as
there are nodes (two for each node in `rbtree_find_value`), and a turn that need not run any more changes nothing; `climb`
and `descend` give a result for each node by that of its parent or child. A call of the client
is one action (the code is sequential and has no callbacks but the comparison).
`mem_alloc` may fail at the first or at the second allocation of an insertion.
`asserts` collects the `ASSERT(0)` that a deletion reached.

`rbtree_print_tree` is left out (debug output). `rbtree_traverse` is a macro over
`flink`, whose order is what `ListIsTree` is about.

### LinkList, LinkListLoops

`next` and `prev` are the two fields. `off` holds the elements that are on no
ring as far as the client knows: never initialised, deleted by `list_del`,
emptied by `list_splice` or overwritten by `list_replace`. It is a history of
the calls and is what the rules of use refer to (adding an element that is on a ring
already is a mistake of the client, which the code cannot notice). The order of the
writes in each function is kept, since they read links they wrote before.

`LinkListLoops` puts a loop of the client around these operations: `LoopStart`,
`LoopTurn`, `LoopExit` are the three parts of the `for` of `list_for_each` and
`list_for_each_safe`; between two turns `Body` deletes the entry the loop is at (in the safe
loop only) or adds free entries to another list.

### SocketServer

`pc` says whether the server waits in `select`, scans the descriptors, reads an
upload or has exited. The for loop over descriptors is `Meets`, in increasing order.
Each command is one action: the server is one thread, and the clients can only
change what the kernel holds for it. `-up` is three, as it waits for a
client. The kernel is external: `Readable`, `Open`, the queue of connections and
`accept` giving the lowest free descriptor. Stale values are kept as in the code:
`nread` is not written when `ioctl` fails, `buf` not when `read` fails. Files and
directories are left out: a `-get` or `-ls` may find something to send or nothing, and
the directory of an `-ls` may be one that cannot be opened (`ListFails`: after `perror` the
code calls `readdir` with the null pointer). The server ends in three ways (`Ends`): `exited`
after a failed `select`, `killed` by SIGPIPE, `crashed` in `readdir`.

### RangeDecoder, LzmaBits, LzmaDecode

The decoder is split where the code splits it: everything above
`RangeDecoderBitDecode` only sees bits. `RangeDecoder` has `Range`, `Code`,
`ExtraBytes` and the probabilities as its state, and bytes of the input that
may be anything; the bits asked for and their places are chosen freely too.
`LzmaBits` has no state. It gives the value that a string of bits stands for, and
the places of the probabilities that are used for it.

In `LzmaDecode` a turn of the decoding loop is one action, by its kind: `DecodeLiteral`,
`ShortRep`, `RepMatch`, `Match`; a turn of the copying loop is `Copy`. Each
turn may leave `extra` set, as the input can run out at any bit; as in the code
the next turn notices. `Found` is the part that both kinds of matches share.
`un7zip` reads the header, computes the memory and stores a size that
`LzmaDecode` may not have set; `LzmaDecode` with too little memory is called by other
clients. What locals hold after a return is not modelled. `_LZMA_IN_CB` and
`_LZMA_OUT_READ` are not defined in the repository and their branches are left out.

### Directory, BinToHex, HexToBin, Converters

A name is the sequence of its parts, so that `replaceadix`, which cuts at the last
dot and turns dashes into underscores, is modelled by what it does: two files
may get one header, and a header may be its own source. `Opendir` notes what is
there; `Reported` lets `readdir` hand out each of these once, and of what was made
since some or nothing. In `bintohex` the failing branches are actions of their own
(`SourceFails`, `HeaderFails`, which leaks the source's descriptor into `leaked`);
`ReadByte` and `ReadEnd` are the turns of the loop that tests `feof` before it
reads. `createcode` is `NoHeader`, or `Declare` (target.h) and then `Enlist` (target2.h).
Modes are those of the calls: what is opened with `w+`, a header or `RGB.bmp`, must be readable too
(`OpensAnew`). `hexbin/BinToHexBatch.c` has the same functions, but for one that nobody calls
there.

`HexToBin` reads `RGB.txt` number by number; `word` is the local `i`, which
`fwrite`'s result overwrites. A directory of that name can be opened, but what `fscanf` then returns
is neither a number nor the end of a file, and the loop writes for ever (`ScanDirectory`, of which the last word
is kept). `Converters` puts both programs into one directory,
one at a time: the `RGB.bmp` of the one becomes input of the other. `given`, `from` and `had` are
history: the files at first, what each header was written from, and the tables before `createcode`.

### Chains, PrintMath, RdWrTest

`Chains` keeps the links `next`, `l` and `r` as functions on nodes numbered in
order of their allocation; `p` and `q` are the pointers of the loops. `PrintMath` draws any
number that `rand` could give, and keeps which variables are passed to
which format. `RdWrTest` splits the block in two halves, each copied at once, so that
reads and writes of the two processes interleave. What a half holds is tagged with the write it is
from; `before` notes which writes were finished when the child began. Each `open`, in either process, may
fail at any time, and ends its process then.

The three programs share nothing and are checked in one run: `TestPrograms`
lets a user start one of them.

## 3. Runs

| run | instance | what it shows |
|---|---|---|
| `rwlock` | 4 threads, 3 permits, calls inside reads and writes, a mutex that may not exist | exclusion, the inductive invariant (permits conserved, one thread at a time at the semaphore), every deadlock has one of two causes, who is past the barrier is admitted, and the lock implements `ReadersWriter` |
| `rbtree` | 8 unique keys in descending order, 15 nodes | all structural properties and lookups |
| `rbtree_shrink` | 16 leaves, filled in two orders, any 5 deleted | the deletion loop with rotations above the leaves |
| `rbtree_dup` | 4 leaves with keys 0, 1, 2 and values 5, 6 | equal keys, the key 0 of the head, implements `SortedSequence` |
| `linklist` | 2 heads, 3 entries, one loop | rings, implements `Lists`, each call as its operation there, loops visit all and end |
| `socket` | 3 clients, 1 command each | watched descriptors, where answers go, what is behind each of the server's ends |
| `socket_live` | 2 clients, 2 commands each | clients are accepted and read unless the server ends |
| `range_decoder` | bytes of 3 bits, 1 place, probabilities out of 16 | the inductive invariant, both bits possible, `Code` below `Range` |
| `lzma` | output of 4 bytes, 16 distance slots, distances of 8 bits | window, tables, agreement of variables, implements `Lz77`, returns |
| `converters` | eleven directories of up to two entries, each converted twice | headers hold what their files held, tables agree, numbers are written, walks end |
| `programs` | chains of 0 to 5 entries, ranges from -2 to 5, files of four sizes and 10 writes | chains are reversed, numbers stay in range, formats fit, reads are fresh and, once the block is there, go on until an `open` fails |
| `socket_exit` | 2 clients | a violation, see section 5 |

**Bounds, and why they are enough.** The code has 16 permits, the run three, which is enough
for two writers to share them out unevenly and for a reader to be the one that is too
many; what holds for every number of permits is proved (section 4). Eight keys make trees of black
height three, in which every case of an insertion occurs; the rotations of
`rbtree_delete_node` above the leaves need sixteen, and `rbtree_shrink` was
sized until each of them occurred. Two heads
and three entries give every case of a splice (both empty, one, none) and a loop with entries
before and after the one that is deleted. Three clients give an asker, a
connection accepted after it, and one that is accepted while both are served.

The range coder is checked with small widths that keep the relations of the real ones
(`ConstantsAssumption`), and proved for all of them. Distances have 8 bits and 16 slots instead of 32 bits
and 64: that keeps all three kinds of slots (without more bits, with bits in a tree of their own,
with direct bits and the shared tree), and the largest distance wraps in the same way.
`LZMA_BASE_SIZE` shrinks by the slots that are gone. Octets and triples are
the bit strings of first and last symbols and one between. The two headers are
`lc = 3, lp = 0, pb = 2`, the usual one, and the largest, next to the first that is
rejected. Four bytes suffice for a literal, a copy that overlaps itself, a
literal after it, a copy that is cut off, and a match that repeats a distance; longer
exchanges of the four distances are covered by the theorems `StaysInWindow` and `DecoderImplementsLz77`.

The eleven directories of `MCConverters` are the cases of naming and of failing: two files with one header,
a header beside its file, a header of a header, names without a dot, with two, or with `.h` inside them, files that
cannot be read or written, a header that can be written and not read, a subdirectory, and a table or an `RGB.txt` that is a
directory. Two runs of the program let the second meet everything the first one
made, and with three descriptors a single leak closes the program off. Chains of 0, 1, 2 and
5 entries take each loop through no, one and several turns. Ranges go below, up to and above
`Widest`, which stands for 1000. Ten writes take the digit once around.

**View.** `MCRbTree` has a VIEW that renames addresses by their place in the tree.
The code never compares addresses except for equality, so states with the
same view behave alike. It cannot hide an error: a property of a state depends on its
shape, and every difference in a field is part of the shape.

**Symmetry** is used in one run without liveness, `socket`, over the clients,
which the server treats alike.

**Fairness.** `rwlock`: weak fairness of each thread's own steps inside the
lock, no strong fairness for mutex or semaphore, and threads that leave the
lock in the end. The barrier needs none, since the
property starts once a thread has passed it. `linklist`: the client's loop
goes on. `socket_live`: the server's thread is scheduled, and clients hang up
some day, without which an upload is never at its end. What is
sent after the server ended (section 5) is not read.
`lzma`: a call that began goes on. `converters`: a program that was started
goes on. `programs`: the child of `rdwrtest` is scheduled; nothing is assumed of its parent, nor that
any `open` succeeds: `ReadsGoOn` says that a child over a file with the block reads it, or ends because
`open` failed, and never because the block is missing.

**Deadlock** is checked in the runs of the tree and
of the lists. It is off where a stop is legal: misuse of the lock (then
`DeadlockExplained` states the causes: a thread that has the lock called it again, or
`OsalMutexCreate` failed unnoticed and two writers have part of the permits each), the bounded clients of the server, the
end of the shrinking, programs that end.

## 4. Proofs

`RwLockProofs` proves for every set of threads (that need not be finite) and
every number of permits:
`TypeCorrect`, `Invariance`, `Conservation`, `BarrierOwned`, `MutualExclusion`,
`OnlyMisuseDeadlocks`. The assumptions are those of `ConstantsAssumption`.
`PermitsConserved` is not inductive alone: it needs to know that a thread in
the waiting loop still has a turn to go (`LocalsOK`), that nobody is inside a lock that
does not exist (`UnusedUnlessLive`), and that the set `Taken` of permits given out
is finite, so that its cardinality means something. `IInv` is the conjunction.
`Taken` is a set of pairs rather than a sum so that a permit that moves is
one element added or removed (`UnitsAdd`, `UnitsRemove`); `HeldByChange` says which.
Exclusion follows from the number of permits alone: a writer holds all of them, any other
holder would make one more (`HeldFacts`, `ExclusionFromIInv`). That is why it needs no barrier,
and why it holds when the mutex was never created. For the deadlocks one shows that if
no thread that reads or writes is blocked in a call of its own, then who holds a permit and is blocked is a writer in
its loop behind the barrier (`NoWriterWhile`: nobody has the write lock then), and with a barrier there is only one.

`LinkListProofs` proves `RingsStay`: every element in use has neighbours that are in
use and point back to it, for any number of heads and any finite set of entries. `IInv` is inductive as
it stands; one lemma per operation (`Added`, `Deleted`, `Spliced`, `ReplacedOK`) shows that
its writes, in their order, keep both directions.

Rings of that kind need not be lists: they could hold two heads, or none. That they are
lists is a second invariant, `ListInv`, which says of the lists themselves that the links follow
them (`ListsAre`). The argument has three parts. A walk along `next` is determined by where it
starts, so it meets nothing twice and no two heads share an entry (`RunsMeet`, `RunOnce`,
`EachOnce`): the lists are the ones that `ListsOf` reads from the links (`ListsFound`). Each way of
writing `next` is one operation on sequences (`PutFirst`, `PutLast`, `TakenOut`, `PutInPlace`,
`SplicedIn`, `HeadMoved`), and rings of entries that are on no list may be rewritten as one likes
(`Elsewhere`). And what the functions read from `prev` is what the sequences say it is (`OnRing`,
`HeadLinks`), which is where `IInv` comes in. From this follow `WalksReturnAlways`,
`RingsImplementLists` (the refinement of `Lists`) and `CallsKept` (each call is the operation
its name promises). `LoopsVisitAll` adds what a loop depends on (`Ahead`): the entries it has yet to visit
and, in the loop that is not safe, the one it is at are in use, so no call of its body writes their
links (`BodyLeavesAhead`). A loop calls nothing else (`LoopsOnlyCall`: the specification with loops
implements the one without), so what is proved of the lists holds under it too.

`RefinesReadersWriter` is that `RwLock` implements `ReadersWriter`. A step that
takes a share needs the abstract lock to have no writer: `Exclusion` after the step says that
nobody writes then, and the step started no writing. That a share is left follows from the
permits: shares are some of the permits that are out (`SharesAreTaken`).

`ProgramProofs` proves `Reversed` for chains of any length. The invariant gives every
link, as far as the loops have come: up to the node at hand the links go down,
beyond it up (`Between`). It proves `AnswersInRange` and
`FormatFits` for every range, number of exercises and `Widest`; the arithmetic is in lemmas about
constants, the invariant adds that the second draw starts from a result that is in range, and that a format
stays as it was written. And it proves `ReadsFresh` for every file at the start and any number
of writes: the first half of the block is never behind the second
and both are from the last finished write or the one under way (`HalvesInOrder`), hence what the child has
read is no older than what was finished when it began.

`SocketServerProofs` proves `WatchesOpen`, `AnswersGoForward` and `ExitsExplained` for every
number of clients and commands, from `ServerIInv`. That `select` fails over `connfd` alone is `Watched` in the state
before. Neither `Watched` nor `AnswersGoForward` is inductive alone: a descriptor that is
closed and watched is always `connfd` only because the scan meets the listening
socket, the lowest descriptor, before any command closes something (`ScanInOrder`); and answers go
forward because the client of `connfd` is the last one accepted (`Acquainted`).

The last part of `LzmaDecodeProofs` proves `Normalisation` (`IInv`), `NoBitSettled` and `CodeBelow` for all
widths that satisfy `ConstantsAssumption`; `ConstantsOfTheSource` shows that those of
the source do. The argument: a probability `p` moves by a fraction of its
distance to the end, rounded down, so it stays `kMoveBy - 1` or more away from both ends (`Likely`, `Unlikely`).
`Range` is at least `kTopValue`, so `bound` and `Range - bound` are at least
`(kTopValue / kBitModelTotal) * (kMoveBy - 1)` (`BoundInside`), which `Base` times over is
`kTopValue` again (`Normalized`): hence one shift is enough.

The first half of `LzmaDecodeProofs` is about the recursive functions that make symbols from bits. What they compute is shown
by induction on the number of bits, with the lemmas of `Induction` (the library's induction theorems take an operator as a
parameter and cannot be applied here; those of `Induction` speak of a set of numbers instead, and rest
on the well-foundedness of the natural numbers, which the library proves). A string of `n` bits stands for a number
below `2^n`, in both orders of the bits, and each number has one string; the places it uses on the way lie between
1 and `2^n - 1`. `DistancesDecoded` (`DistancesOnce`) and `TablesStayApart` (`TablesApart`) follow, for 16, 32 or 64
slots and 8, 16 or 32 bits of a distance with them, which is `BitsAssumption`; the source has 64 and 32.

`LzmaDecodeProofs` proves for all headers, sizes and bits: `StaysInWindow`, `BranchesInStep`
(`BranchesAgree`), `TypesOK`, `SizesReported`, `TablesStayApart`, `DistancesDecoded`, and
`DecoderImplementsLz77`. The invariant `Inv` adds what a call starts with
and that `out` is a sequence; nothing is assumed of lengths and distances, since `Found` tests the
only distance that is new. For the reported size, nothing is
reported before the return (`ResultInv`), and un7zip makes room for as much as the header asks for, so
that its call never stops for memory (`EnoughMemory`). For the refinement a copy counts as done when it begins: the turns of the copying loop are stutters because
byte `i` of the extended output is a byte `rep0` before it, whether that one was there already or is itself part of the
copy, as in an overlapping match.

`ProgramProofs` proves `HeadersHold`, `TablesAgree` and `WordsWritten` for directories of any files,
with names and contents of any words. Three facts carry the invariant `IInv`. The name of a header is its own header
(`TargetOwn`): so what is read is never a file that another turn writes, unless it is the very header that
is written (`SourceKept`). A header that was started is one of a file that is still there, and
of a directory none is ever finished (`FromOK`). And whether target2.h can be opened does not change during
`createcode` (`TablesInv`). Nothing is assumed of the directory but that `.`, `h` and the other words in the code
are among the words of names (`DirectoriesAssumption`).

`RbTreeInsertProofs` and `RbTreeProofs` prove `TreeStaysSound` (`TreeSound`) and `FailedInsertsHarmless`
(`FailedInsertHarmless`) for trees of any size, any keys and comparison, any finite memory and allocations that fail at any
time. `TreeSound` is not inductive: that the list is in the order of the tree says nothing of the subtrees a rotation moves, and
equal lengths of the paths to the root nothing of the ones below a node. The invariant `TreeInv` says that there is no memory
without a tree, and a tree that is `Good` with one; a tree is good if it is `Sound` and has twice as many nodes as leaves. Sound is
`Shape` and `Coloured`:

- `Fine`, `Links`: the fields and the links in both directions, as they are read off the code.
- `Rising`: there is a rank that grows from children to parents, so nothing is above itself. A number for each node is what
  can be given anew after a step: a rotation doubles the ranks and takes the odd one between.
- `Ring`, `Spread`: there are functions that give the first and the last leaf of every subtree (`Ends`), the last leaf left of an internal
  node is next to the first one right of it in the list (`Gaps`), and these two are its separators (`Seps`).
- `Apart`, `Blacks`: no red node has a red parent, and there is a count of the black nodes from each node down to any leaf.

While a call runs, the invariant holds but for one thing, and each of its parts has a parameter for that: a separator that is
yet to be rewritten (the `X` of `Shape`), a red node that may have a red parent, a subtree that is one black node short
(the `v` and `z` of `Coloured`). One lemma per piece of the code says what it does to these: `RotationKeepsShape` (a
rotation moves no leaf), `GraftShape` and `LiftShape` (the new leaf and the one that goes change the order of the list where
they change the order of the tree, and leave one separator stale), `RefreshSplit` (which the climb of `lprev` and `rprev` finds),
`RecolorTurn`, `DeleteTurn` (a turn of a loop moves the exception up), `RecolorOuter`, `RecolorInner`, `RedSibling`, `FarRed`,
`RedParent`, `NearRed` (the rotations at the end of the loops, which is where the ASSERTs are shown not to fail). That the loops end in as
many turns as there are nodes, so that the recursive functions of the model run them to their end, follows from the
ranks (`SmallRanks`, `RecolorLoop`, `DeleteLoop`). That black counts make paths of equal length, and that no path has more red nodes
than black ones, is proved from the count by going down from the root (`BlackPaths`, `PathLengths`).

TLC checks `TreeSound` and not `TreeInv`: the invariant asks for functions and ranks without a bound, which TLC cannot
enumerate. What TLC would look for, a tree that the invariant rules out or a call that breaks it, the proof has settled.

On top of this, `RbTreeProofs` proves `FindsEveryKey` (`FindCorrect`) and `TreeImplementsSequence` (the refinement of
`SortedSequence`) for every comparison that orders the keys (`ComparisonAssumption`: of two keys one is not above the other, and
that is transitive; different keys may compare as equal). The source asks for no less, since `rbtree_find_greater` decides by one
comparison at a separator for a whole subtree, and `compare_local`, its default, is such an order. The invariant `SortInv`
says that the leaves can be numbered along the list from the head to the head (a `Row`) so that keys do not fall (`SortedRow`);
it is about the list alone, and `Seps` carries it into the tree.
`SplitKey` and `DescendsBy` say what the descent of `rbtree_find_greater` meets: at each internal node the separators are
neighbours in the row, so one comparison tells on which side the first key above the searched one is.
That the search ends at the right place of the row gives the place of the new leaf (`PutIn`: one entry more, in order), and a deletion
takes out one entry (`TakenOut`): these two are the lemmas `PutInInserts` and `TakenOutTakes` about sequences, with the `items` of
`SortedSequence` read off the row (`ItemsRead`). `ItemsStay` shows that a call that changes no leaf's key, value or
place, however it rotates, is a stutter.

`FindsValues` (`FindValueSound`) is about the walk of `rbtree_find_value`. From the leaf n on the list is a circle of
N+1 places (`Circle`, `OnCircle`), and `Walks` says where on it the walk is after i turns: going back, going
forward, found or missed. If some place stops it, it has ended after 2N+1 of the 4N turns the model allows
(`WalkEnds`); if none does, it never ends (`WalkRound`), and that happens just when the head and all leaves have the
head's key 0 and none the value, because `mk_tree` writes that 0 and nothing writes it again (a part of `Good`).
For a key other than 0 the walk sees only leaves with that key in one run, and `Sandwich` says that there are no others. The
theorem has a hypothesis for that, `TellsApart`: different keys do not compare as equal. The walk compares keys with `!=`, so with
a comparison that ties different keys the leaves with one key may stand apart, and the walk may miss some.
`compare_local` tells all keys apart; only this theorem needs it.

Model-checked only: liveness, which is out of the prover's reach.

## 5. Findings

`socket_exit`: `-ls` closes the connection that asked and `connfd`, but takes only the first
out of `readfds` (`src/socket_main.c:153-156`). If another connection was
accepted last, the next `select` is called with a closed descriptor, fails,
and the server exits, although it is meant to listen in a loop (comments
at lines 2 and 61). The model's loop ends in two more ways: a write to a client that left raises SIGPIPE
(line 109, `Killed`), and an `-ls` of a directory that cannot be opened crashes in
`readdir` (lines 145-147, `ListFails`). `ExitsExplained` in the run `socket`
says what is behind each of the three. These are the ends under the rules of section 6
(`accept` succeeds, commands fit the buffer, `select` fails for no other reason); without
those rules there may be others.

## 6. Not modelled, and the plan

Every component with state is modelled. Left for later: the composition of
`LzmaDecode` with `RangeDecoder`, whose bits and probabilities are now chosen
freely on either side.

One hazard has no property: at `src/LzmaDecode.c:366` the end of the input is noticed at
the next turn only. The source promises nothing about it; `LzmaDecode` has the behaviour.

Not planned: `android-build`, shell scripts around external tools (one of them
third-party); `printf` output anywhere; the macros that only convert
addresses (`list_entry`, `rbtree_traverse`); 32-bit casts of addresses
(`src/rbtree.c:31`).

Where the models keep a rule that the code does not enforce: `up_read` and `up_write` are called by
a thread that has the lock in that way (`src/rw_lock.h:57`, `:91`), nobody is inside or has a
lock when it is destroyed (`src/rw_lock.h:129`), a loop that deletes its own entry is the
safe one (`src/link_list.h:53`), no traversal of the tree deletes the node it is at
(`src/rbtree.c:58`), `accept` succeeds (`src/socket_main.c:78`), commands fit the
buffer (`src/socket_main.c:95`), `select` fails only over a descriptor that is not open
(`src/socket_main.c:65`), `malloc` gives memory (`src/chaintest.c:17`), `lseek` succeeds
(`src/rdwrtest/rdwrtest.c:35`, `:77`) and `read` gives less than a block only where the file ends
(`src/rdwrtest/rdwrtest.c:83`), names fit the buffers of the walk (`src/BinToHexBatch.c:37`),
nobody else changes the directory that is converted, and the two converters do
not run at the same time. Numbers of `printmath` are mathematical integers: a range whose sums exceed 32 bits is left out.
