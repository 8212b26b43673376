# A TLA+ verification project for generic_os

generic_os is a kernel in the making with a UEFI loader of its own. This
directory holds TLA+ models of its code, TLC configurations that check them on
small instances, and TLAPS proofs for every value of the constants.
`PROJECT.json` lists the components, the runs, the mutants that show that each
property can fail, the source lines behind each definition, the findings, the
hazards and the theorems.

    tlc -config MCMemoryRange_any.cfg MCMemoryRange     # a run
    tlapm MemoryRangeProofs.tla                         # the proofs

The code is unfinished: the Makefile compiles `kernel/os_entry.c`, whose
`KernelEntry` is empty, and several files do not compile as they stand
(`loader.c:104` and `:109` lack a semicolon, `Spinlock.c` uses the value of a
void function, `MCS.c:15` passes a bool where `AtomicLoad` takes a pointer,
`SLAB.c`'s lists use undeclared variables, `Architecture.c` has the operands of
its bit scans in the wrong order). Where the meaning is beyond doubt (the
loader, `MCS.c`, the bit scans) it is modelled as meant; where it is not
(`Spinlock.c`, `SLAB.c`'s lists) it is left out.

## Inventory

| Part | State | Operations | Who uses it |
|---|---|---|---|
| UEFI loader (`loader/loader.c`, `utils.c`) | firmware memory, RootTable, memory map entries | download the kernel file, load it, allocate a stack, form the RootTable, recover video mode, ACPI pointer and memory map, enter the kernel | calls the firmware; hands the RootTable to the kernel |
| ELF loading (`loader/elf.c`) | none | validate, measure, copy segments | loader |
| Page allocator (`kernel/memman/MemoryRange.c`) | free ranges, an address list and three size lists, descriptors inside the free pages | insert a region (split, link, merge), allocate pages (best fit) | future kernel code; built on the skip lists |
| Skip lists (`SkipList.c`) | weights and links of nodes, heights only by a NULL in Prev | init, insert, remove, next, prev, best fit | page allocator |
| Slab allocator (`SLAB.c`) | a header with a bitmap in each page, lists of pages by block size | first free block, mark a block, recognise an empty page, list moves | nothing yet |
| Memory map iterator (`MemoryMap.c`) | position in the loader's map | next entry in a domain | nothing yet (meant to feed the page allocator) |
| Queue lock (`utils/MCS.c`) | pointer to the last ticket, tickets | lock, unlock | nothing yet |
| Spinlock and atomics (`Spinlock.c`, `Atomic.c`) | a word | lock, unlock, atomic operations | queue lock, slab allocator |
| ACPI tables (`kernel/acpi`) | firmware tables | find a table, latencies of a domain, iterate affinity entries, domain of a processor | NUMA code to come |
| Heapsort, Random, Architecture (`kernel/utils`) | array; generator state; none | sort; next number; CPUID and bit scans | skip lists use Random for heights |
| Kernel entry, NUMA, MemoryManager.h | none | none | - |

How they interact. The loader is one sequence of firmware calls; between any
two of them firmware code may run and change the memory map. The kernel's
memory managers are sequential code called by whoever holds a lock; their
difficulty is the shared memory between them and their callers, because a free
range's descriptor and list nodes live in the free pages themselves, so that
whether a list is intact depends on what callers own. The queue lock and the
slabs are the parts that several processors use at once: any processor may free
a block of a page from which the page's owner allocates.

What is hard here, and where:

- *sequences of legal calls*: does any order of insertions and allocations lose
  a page, hand one out twice, leave two ranges unmerged, or leave a descriptor
  in a page that a caller owns?
- *stale state*: skip list nodes keep pointers of earlier lists and heights;
  the loader sizes its array from a memory map that later calls change; a slab's
  owner searches a bitmap that others change behind it;
- *ordering*: a node's weight changes while it is linked; a ticket is visible
  before it is initialised; the map must be taken after the last allocation;
- *boundaries*: address 0, requests of 0 pages, requests of exactly or more
  than a range's length, equal weights, the unparenthesised `HUGEPAGE_SIZE`;
  block lengths that follow from offsets, masks at the end of a bitmap word,
  children of a heap's root;
- *liveness*: pointer loops without a bound, spinning on another's memory.

`PROJECT.json` lists each of these as a hazard at its line, with the properties
that would catch it going wrong, or the reason why none does yet.

## Modules

| Module | Models | Remarks |
|---|---|---|
| `BestFit` | what `SkipListBest` may return | shared by the next three, so that allocator and lists agree on one definition |
| `PageAllocator` | abstract: available pages, insert, grant, refuse | no ranges |
| `MemoryRange` | `MemoryRange.c` | implements `PageAllocator` for exact requests |
| `MemoryRangeProofs` | - | the theorems about `MemoryRange` |
| `SortedLists` | abstract: each sentinel is a sorted sequence | no links |
| `SkipList` | `SkipList.c`, link by link | implements `SortedLists` |
| `SkipListProofs` | - | types and links of `SkipList` |
| `SkipListOrderProofs` | - | levels, order and refinement of `SkipList` |
| `MCS` | `MCS.c`, one step per shared access | |
| `MCSProofs` | - | the theorems about `MCS` |
| `ELF` | `elf.c`: the bodies of the loops that measure and write the image | operators only |
| `Loader` | `loader.c`, `utils.c`, and the loops of `elf.c` | uses `ELF`; firmware external |
| `LoaderProofs` | - | the theorems about `Loader` |
| `ACPITables` | `SDT.c`, `SRAT.c`, `SLIT.c` | operators only |
| `MemoryMap` | `MemoryMap.c` | operators only |
| `MemoryDomains` | the iterators in nested loops, then the latency tables | composes the last two; the caller is external |
| `MemoryDomainsProofs` | - | the theorems about `MemoryDomains` |
| `SLAB` | `SLAB.c`: layout and bitmap of a page | the owner's allocation is external |
| `SLABProofs` | - | the theorems about `SLAB` |
| `NumberLemmas` | - | least and greatest elements, quotients and divisors, for four of the proof modules |
| `Heapsort` | `Heapsort.c` | `RECURSIVE`, for TLC only |
| `MC*` | small instances | one `.cfg` per question |

### MemoryRange

A range is its first page and its length (`ranges`); `held` is the set of pages
that callers own, which at boot is everything. The address list is the domain of
`ranges`; the size list of a range is a function of its first page and length
(`MemoryRangeToSentinel`), because `SetMemoryRangePages` moves the range at each
change. `InsertNewMemoryRange` is one action that includes the split, the link,
and both merges; `AllocatePages` is one action that includes the fall-through
over the lists, the best fit, and the removal or shortening of the range. The
search is allowed every answer that `BestFit` allows, for any heights.

`corrupt` records that a descriptor that is still linked has been written over,
either by its page's owner (`OverwriteDescriptor`, external) or by
`NewMemoryRange` initialising nodes in a page whose nodes are still linked
(`InsertOverLinkedNodes`). The latter links the region again and loses the tails
of the lists behind the zeroed nodes; which ranges that are depends on their
heights, so that the model lets any of the others be lost. From there on, what
corrupted links do is not followed. Both need an inexact request for more than a
range has (`ranges_descriptors`); with exact requests neither happens
(`DescriptorsSafe`).

Two details are the code's and not the model's: `HugeRemainder` is
`(b % 512) * 4096`, as C reads the macro, so that every range counts as aligned;
and a range at page 0 is the NULL pointer (`IsNull`), so that it enters no size
list and is never merged.

### SkipList

`next` and `prev` hold every pointer of every node and sentinel on every level,
including what is left over above a node's height and in removed nodes. `pc`,
`cur`, `level`, `path` and `weightDiff` are the loops' variables: each iteration
of a loop over a list is a step. Loops over the levels of one node (linking,
unlinking) touch different pointers in each iteration and are one step. The
height of an inserted node is any number from 1 to `MaxLevels`, which covers
whatever `Random` draws. Callers are those of `MemoryRange.c`: a node is
initialised, gets a weight and enters a list in one call
(`SetMemoryRangeBegin`, `SetMemoryRangePages`), moves by the same call, and is
removed (`MemoryRangeRemove`); a node is initialised again only when it is in no
list, which is what `DescriptorsSafe` of `MemoryRange` shows.

`Chain` is the list as a sequence, read off the links: `Walk` follows `next` for one
step more than there are nodes, so that it is defined, and cut off, even if links
made a ring. It is a recursive function and not a `RECURSIVE` operator, and
`SortedLists` inserts and removes with the sequence operators of the community
modules, so that both can be reasoned about.

### MCS

Each access to memory that another processor sees is a step: the exchange, the
initialisation of the ticket after it, the spinning read, and the two stores of
`MCSUnlock`. The queue (`queue`) is a history variable. Nothing calls the lock
yet, and neither `MCS.c` nor `MCS.h` says what a caller has to see to, so that
`Declare` (external) assumes nothing: a ticket may be any memory that is not
another processor's ticket at the moment, with any value of `Finished` in it
(`Stale`), also while the lock, other tickets or processors inside `MCSLock` still
point to it.

The lock is then not safe. `MCSLock` publishes the ticket (line 12) before it
initialises it (line 13); if `Finished` is still set from an earlier use, a
processor that reads it in this window enters beside the ticket's owner. The
history variable `early` records such a read, and `MutualExclusion` and
`FirstComeFirstServed` say that it is the only way to two holders or a wrong order.
`reused` records that a ticket was taken that was still pointed to; a processor
whose ticket is still the lock's last one then waits for itself for ever (line
15), and `EveryoneIsServed` says that nothing else starves anybody. A caller avoids
the first by clearing `Finished` before `MCSLock` (theorem `ZeroedTicketsExclude`);
initialising before publishing would avoid it in the lock.

### Loader

Every early return of `main`, `DownloadFileToMemory`, `FormRootTable`,
`RecoverVideoMode`, `RecoverACPITable` and `RecoverMemoryMap` is a step to
`"ended"`; a use of a NULL pointer leads to `"undefined"`, and nothing is claimed
behind it. The firmware is a type per page; a descriptor is a longest run of one
type, so that each allocation may add up to two. `FirmwareEvent` lets the firmware
take or return a page, for boot services (which the kernel may reuse) or for
runtime services (which it may not), between any two steps while boot services run.

Two results are ignored by the code and kept by the model. The status of the
second `GetMemoryMap` (`status`, `loader.c:52`): if the map has outgrown the buffer,
the firmware fills nothing in and says how much it needs, and `RecoverMemoryMap`
copies that many entries of whatever lies there (`GarbageMaps`) and goes on to the
kernel. `BufferFits` says when this happens: only if firmware allocated or freed
between the two calls (`raced`). And `exit_bs` (`loader.c:149`): if it fails,
`bootServices` stays true and firmware goes on changing memory beside the kernel.
`MapIsCurrent` is therefore about the pages that firmware has not changed since the
snapshot (`late`); about the others the kernel's map may be wrong, and no code
of the loader would notice.

A kernel file is its sequence of program headers. `RetrieveELFInfo` and `LoadELF`
are loops over it, one step per header (`header` is the loops' pointer,
`NextHeader` its advance); the image is a function from offsets in the target to
the byte of the file or the zero that was written there. A file without headers
leads to `"undefined"`, because the do-while loops read one anyway.
`ValidateELF` is a choice between its two results.

### ACPITables, MemoryMap, MemoryDomains

`FindACPITable` compares signatures as `SDT.c`'s own `memcmp` does, by the sums of
their bytes. The model uses the real bytes: of the tables that the ACPI
specification names (`KnownSignatures`) none has the sum of "SRAT" (theorem
`SRATUnmistakable`; a vendor's "OEMY" would), but "SLIT" has that of "CSRT" and
"SBST" (`SLITMistakenFor`), and on a machine with one of these in front of the
SLIT the code reads its bytes as latencies. The model does so too;
`OwnArenaNearest` is stated for the other machines (`SLITNotMistaken`).
`NextSRATEntry` and `NextMemoryEntryWithin` are functions of their arguments and
of the position that the caller keeps. `MemoryDomains` is a caller as these
iterators intend it: for each memory entry of the SRAT all entries of the memory
map. The comment says that the entries returned are within the region, the code
returns those that overlap it, so that an entry that reaches into two regions is
found for both: `EntriesWithin` states the comment and is violated, `EntriesFoundOnce`
states what the code does. `MachineAssumption`
names what the iterators rely on: entries of the SRAT fill the table and have
positive lengths (with length 0 the walk does not end), there is at least one
(else the first call points behind the table), and no region or entry of the map is
empty or wraps around.

When the walk is over, the caller fills the latency table of each domain that has
memory, in any order, each by a call of `SLITToLatencyTable`, which looks the SLIT
up again. A latency table is a function from the domains it lists, which the code
writes in ascending order. The code reads the matrix by column (`i * Localities +
arenaID`): the table of a domain has the latencies of the others for it, not its own
for the others, which differ if the matrix is not symmetric. `IsSLIT` does not
assume that it is, and nothing is claimed about which of the two is meant. A domain
with memory beyond the SLIT's localities would be read from behind the table,
which `MachineAssumption` excludes.

### SLAB

One page of one block length. `Bitmap` is the bitmap, word by word, as sets of
bits; `live` is the set of the blocks that callers have. `SLABFirst` reads one
word per step, so that frees happen between any two reads and between the
search and the marking of its result. `SLABSet` is one step, because its only
access to shared memory is a locked OR or AND of one word. The code has neither
an initialised page nor an allocation that calls the two: they follow the
comments (everything behind the header is free; "we lookup first free element
and atomically mark it as occupied", `SLAB.c:142`) and are external. There is one
owner, as line 3 says; nobody frees a block that nobody has.

In front of the first main block lie residual blocks, each as long as its
offset. `SLABFirst` finds these first, whatever block length was asked for: which
caller wants which length is left to the lists that are not modelled.
`EmptyPageRecognised` gives `SLABCanFree` the numbers of free blocks of either
kind; the code has the fields for them and nothing that updates them.

Block lengths below a cache line (16 and 32) are excluded (`SlabAssumption`).
For them `SLABMainOffset` takes the smaller of header and block length, as the
comment at `SLAB.c:125` does: the first block would lie inside the header, the
total counts such blocks, and there is no code for the bitmap of such a page. `BSF` of
a length is the number of powers of two above 1 that divide it; `MCSLAB` evaluates
that this is the position of the lowest bit, which is what `Architecture.c:22` is
meant to return (its `bsf` has the operands in the wrong order).

### Heapsort

The array is a function from indices, the caller's comparison is `<`. `Heapify`
is recursive as in the code, the two loops are folds, and `Sort` is one step from
each array. With children 2i and 2i+1 the root is its own left child; the model
keeps this.

## Runs

| Run | Shows | Result |
|---|---|---|
| `ranges_any` | `PagesAccounted`: no page is lost or owned twice as long as no linked descriptor is overwritten; `SmallRequestsServed` | holds |
| `ranges_exact` | `Coalesced`, `DescriptorsSafe`, `ImplementsPageAllocator`, for exact requests | holds |
| `ranges_descriptors` | an inexact request for more than a range has leaves an empty range listed, its descriptor in the caller's page | violated |
| `skiplist_lists` | `LinksConsistent`: stale pointers are never followed; `LevelsAreSublists`, `ImplementsSortedLists`, `EveryCallReturns` | holds |
| `skiplist_closest` | an inexact search does not always return the closest node | violated |
| `mcs` | `MutualExclusion`, `FirstComeFirstServed`, `EveryoneIsServed` | holds |
| `loader_map` | `LoadStaysInside`, `SegmentsLoaded`, `KernelMemoryReserved`, `MapIsCurrent`, `BufferFits`, `EntriesFit` | holds |
| `loader_boots` | no machine gets past `RecoverACPITable` | violated |
| `domains` | `TableIsTheOneAskedFor`, `EntriesFoundOnce`, `ProcessorsPlaced`, `OwnArenaNearest`, `IterationEnds` | holds |
| `domains_within` | entries are returned that reach out of the region | violated |
| `slab` | `BlocksDisjoint`, `FreeSlotsExact`, `FirstFindsFree`, `EmptyPageRecognised` | holds |
| `heapsort` | three elements are not always sorted: 1, 1, 2 becomes 1, 2, 1 (with several workers TLC may show 1, 1, 3 and 1, 3, 1) | violated |

The five violations are disagreements between the code and its comments; each is
a finding in `PROJECT.json` with both lines. Two more disagreements need no run,
because they hold for every input. The alignment tests of the page allocator
succeed for every address, although `MemoryRange.c:120` says that a region may be
split by its alignment: that is the theorems `EverythingIsAligned` and
`NeverSplits`. And a range at page 0 is the NULL pointer, so that
`MemoryRangeToSentinel` gives it no size list and it is never allocated, although
`MemoryRange.c:66` says that it is inserted: the theorem `NullRangeNeverUsed`.

### Bounds

- `MemoryRange`: seven pages in two runs of four and three (`TopPage` 9), a hole
  between them that may never be merged over, hugepages of three pages so that
  both sides of every size test occur, and requests from 0 to 5, which is more
  than any run. Four pages are enough for three ranges with gaps, whose middle
  one is freed last: both merges of one insertion happen. `PageSize` 6 and
  `PagesPerHuge` 3 keep the divisibility of 4096 and 512 on which the macro's
  behaviour rests. The theorems remove the bounds.
- `SkipList`: two nodes, two lists and three levels are the smallest instance in
  which a node brings pointers of another list and of a larger height with it.
  The weights are 0, which a sentinel has too, and 2, so that the two nodes may
  be equal or at the same distance from the request, 1. For more nodes there are
  the theorems; only `EveryCallReturns` rests on the run alone. Nodes are
  interchangeable: symmetry is used in `_closest`, where no liveness is checked.
- `MCS`: three processors make a queue with a first, a middle and a last one;
  three tickets are used again all the time, with either value of `Finished`.
- `Loader`: twelve pages, of which the firmware has a few, so that allocations split
  descriptors and one event between the two calls of `GetMemoryMap` makes the
  buffer too small; one firmware event at any point (`MaxEvents` 1); a buffer that
  was not filled holds nothing or says that everything is available; kernel files
  with headers out of order and of another type, a gap, an end that is not in the
  file, no bytes in the file at all, and no headers; pages of four bytes.
- `MemoryDomains`: all memory maps of up to three of four entries (touching,
  overlapping two regions, not available) and six machines: with two SRATs, one
  of them invalid, in different places among other tables; with no SLIT, one
  behind an invalid one, one by which one of the two domains with memory cannot
  reach the other, and a CSRT that is taken for the SLIT; a processor whose domain
  has four different bytes (TLC's numbers have 32 bits, so that the top one is
  below 128; the theorem is for all).
- `SLAB`: a page of 32 slots in two words of 16 bits, so that the search crosses a
  word, a header and cache line of two slots, and blocks of two, four and eight
  slots with none, one and two residual blocks in front: the proportions of the
  code's lengths from 64 to 256. The owner has a search under way while any
  subset of the blocks is out and any of them is freed. Shorter blocks are excluded by `SlabAssumption`.
- `Heapsort`: all arrays of up to four of three values.

`loader_map` gives `XSDP_FIRST_PART_SIZE` the value 20, the length of the first
part of the ACPI root pointer, because with the code's 8 nothing behind
`RecoverACPITable` is ever reached (that is `loader_boots`, which uses 8). The run
shows what the steps behind it do. The value 20 alone does not correct
`RecoverACPITable`: its second loop starts at the first byte again, so that with 20
it sums the first 16 bytes, which a conforming root pointer need not let sum to 0;
the pointer of the run is one that passes both loops.

Deadlock is checked where the system never stops. It is not in the runs of
`MemoryRange` with inexact requests (the model stops at `corrupt`), nor in those
of `Loader` and `MemoryDomains` (they end), nor in that of `MCS` (a processor may
wait for itself).

### Fairness

- `SkipList`: weak fairness of the running call's steps. The code is sequential
  and does not wait for anything; callers need not make a call.
- `MCS`: weak fairness of each processor's steps from the declaration of its
  ticket on: processors keep running and critical sections end. Nobody has to
  ask for the lock.
- `Loader`: `HealthySpec` only, for `HealthyMachineBoots`: the loader keeps
  running and no firmware call fails. This makes its refutation stronger.
- `MemoryDomains`: weak fairness of the caller's loops, which wait for nothing.
- `MemoryRange`, `SLAB` and `Heapsort` state no liveness and have no fairness.

## Proofs

`MemoryRangeProofs` proves, for every memory map, every page and hugepage size
with `PageSize % PagesPerHuge = 0` (`ArchAssumption`) and every set of requests:

- `TypeCorrect` and `PagesAlwaysAccounted`: `TypeOK` and `PagesAccounted`, the latter
  as long as no linked descriptor has been overwritten. Their conjunction
  `Accounting` is inductive: neither is alone, because lengths stay
  non-negative only as long as ranges are disjoint and inside the memory map, and
  disjointness is preserved by a merge only if lengths are numbers. The lemmas
  follow the code: `TryMergeLemma`, `LinkedLemma`, `NewMemoryRangeLemma` and
  `InsertedLemma` say that each operator covers the right pages and keeps ranges
  disjoint, and `RemainingLemma` says it of the two ways to take pages.
- `AlwaysCoalesced`, `DescriptorsAlwaysSafe`, `ExactLosesNoPage` (`EveryPageOnce`,
  without the condition of `PagesAccounted`) and `ExactImplementsPageAllocator`, under two further assumptions stated in the theorems: requests are exact
  (`ExactModes = {TRUE}`) and there is no page 0. Both are necessary: without
  the first `DescriptorsSafe` fails (`ranges_descriptors`), and a free page 0 is
  found by no request. The inductive invariant
  `ExactInv` adds to `Accounting` that no range is empty and none ends where
  another begins (`Tight`), and that nothing is corrupt. Emptiness matters
  because an empty range begins where a non-empty one may begin too.
  `NewMemoryRangeTight` is the argument for the comment "there can be no cascade
  merging": of an almost tight set only the new range's two ends can touch
  another range, ends are unique (`UniqueEnd`), and one merge repairs each.
  That a refused request really had no run of pages follows from
  `RunInOneRange` (in a tight set a run lies in one range; by well-founded
  minimum on the first page outside) and `LightestExists` (a non-empty set of
  sufficient ranges has a lightest one, so best fit answers).

`EverythingIsAligned` and `NeverSplits` prove what the macro does for every
address: `begin % HUGEPAGE_SIZE` is `(begin % 512) * 4096`, hence 0 for every
page, no insertion is ever split and the no-merge rule never applies. The proofs
use them; if the macro were corrected the merging proofs would need a
weaker `Tight`.

`NullRangeNeverUsed` proves, with no assumption about requests, what being the NULL
pointer means for a range at page 0: once listed, it keeps its length in every
later step that overwrites no linked descriptor, because no search returns it (`NullIsNoCandidate`), no insertion merges
it (`TryMergeKeepsNull`, `InsertedKeepsNull`) and nothing else changes a range. Its
pages are lost to the machine.

`MCSProofs` proves, for every set of processors and of tickets and whatever the
memory of tickets holds, from the one assumption that the null pointer is not a
ticket: `TicketsTypeCorrect`, `OneHolder` and `ServedInOrder`, that is `TypeOK`,
`MutualExclusion` and `FirstComeFirstServed`. That two processors do not hold the lock together says
nothing about why the second one waits, so the inductive invariant `IInv` adds
what makes it wait: the queue holds every waiting processor once
(`QueueHoldsWaiting`); each has a ticket of its own, which is unfinished from its
initialisation until the release (`TicketsOwned`); and, as long as nobody has read
a ticket too early (`Order`), each in the queue waits for the ticket of the one
before it (`QueueLinked`), the lock points to the ticket the next one has to wait
for (`TopIsLast`), and only the first has the lock (`HolderIsFirst`). `Before` is the
ticket a processor waits for: between the exchange and the initialisation of its
ticket only its local variable knows it. The proof has one lemma per action.
`Declare` disturbs nothing because the ticket taken is no queued processor's, though
one may have left a pointer to it; `Enter` is where the holder is shown to be the
first: the ticket of the one before it is unfinished, unless it is not yet
initialised, and then `early` is set.

`ZeroedTicketsExclude` proves that with `Stale = {FALSE}`, that is if callers clear
`Finished` before `MCSLock`, there is never more than one holder (`OneInside`, without
the condition of `MutualExclusion`): the ticket of every processor from the
declaration to the release is unfinished (`ZeroInv`), so that nobody gets past it in
the window, even if tickets are used again while they are pointed to.

`MemoryRangeProofs` also proves `SmallRequestsAlwaysServed`, for exact and inexact
requests, if there is no page 0: a request for less than a huge page tries every
list, and a non-empty list always has a best fit for a request that accepts less.

`SkipListProofs` proves, for every set of nodes and lists, every number of levels
and all weights: `LinksTypeCorrect` and `LinksAlwaysConsistent`. The links are
consistent and sorted after an insertion only if the search found the right place
on every level, so `IInv` adds what a search knows while it is under way. `FindInv`:
the current node is on the level that is searched and lighter than the new one, and
on each level above, `path[i]` is on that level of this list, lighter than the new
node and with nothing lighter behind it (`Found`); the new node is in no list
meanwhile. `BestInv` says of `SkipListBest` that it stands on the level it searches.
`FreshUnlinked`: an initialised node has height 0, so that the removal with which
`SetMemoryRangePages` begins does nothing. The theorems rest on `NodesAssumption`
(nodes, lists and NULL differ, and there are finitely many nodes) and `SizesAssumption` (at least one level, weights up
to `SizeMax`).

`SkipListOrderProofs` proves, from the same assumptions, `LevelsAlwaysSublists` and
`SkipListImplementsSortedLists`, that is `LevelsAreSublists` and
`ImplementsSortedLists`. Consistent links are not enough: a ring of nodes apart from
the list has consistent links too, and so have two levels that visit the same
nodes in different orders. `OInv` adds to `IInv`:

- `OrderInv`: for each list there is a sequence of exactly its nodes, once each and
  ascending in weight, that every link of every level follows forwards. Rings and
  contradicting levels are excluded at once, and neither heights nor distances have
  to be mentioned. Removal keeps it by leaving the node out of the sequence
  (`RemoveOrder`), insertion by putting it behind the last lighter node
  (`LinkOrder`): this is the place that `path` stands for on every level
  (`LinkPlace`), which is why `Found` says lighter and not only not heavier.
- `ListedInv`, `AnswerInv`, `BestFound`: a node in a list is on its level 0; the last
  answer is forgotten while a node moves; and a search has not passed the lightest
  sufficient node, and `weightDiff` belongs to where it stands.

That links jump over nobody is a lemma and not part of the invariant (`Nearest`: a
link on level i does not pass a node that reaches level i, because that node's own
Prev pointers lead back to where the link starts). Hence on level 0 it leads to the next node
(`LevelZero`), a walk visits growing positions and misses none (`WalkAscends`,
`WalkCovers`), and `Chain(s, 0)` is the sequence itself (`ChainZero`). What the
recursive function `Walk` computes is obtained without an induction theorem: if
there were a number of steps with no solution, the least one would have a solution
after all, the one before it continued (`WalkSteps`). The refinement maps `Link` to `InsertNode`, `SkipListRemove` to
`SetWeight` or `RemoveNode`, the start and the end of a search to `Forget` and
`Best` (`BestAnswer`: the node on which the scan stops is one that `BestFit`
allows), and all other steps to stuttering.

`LoaderProofs` proves, for every number of pages, every memory map the firmware
begins with and every kernel file:

- `LoaderTypeCorrect`, `MapAlwaysCurrent` and `KernelMemoryAlwaysReserved`, from
  `MapInv`: every block that was allocated still has its type in the firmware's map
  and shares no page with another (`BlocksKept`), the header at hand is one of the
  file (`HeaderInv`), and from a successful recovery on the entries list exactly
  the available pages, but for those the firmware has changed since (`Snapshot`).
  The kernel's blocks are of a type that neither the firmware nor a later allocation
  takes, and the buffer freed after the recovery was available and stays so.
- `BufferAlwaysFits`, from `BufferInv`: after the buffer's own allocation there are at
  most two descriptors more than when the size was asked for (`AllocationCost`), and
  only a firmware event can add to them before the second call. With no events at
  all (`MaxEvents = 0`) the second call cannot fail and nothing is changed later,
  hence `QuietFirmwareMapExact`: the kernel's map is exactly right.
- `EntriesAlwaysFit`, if firmware allocates or frees at most once on its own
  (`MaxEvents <= 1`). `RoomInv` counts: when the array is sized there is room for
  six more descriptors, and the RootTable, the buffer for the firmware's map and
  the event make at most two more each (`AllocationCost`: a changed run can only
  begin a descriptor at its first page and behind its last). The code's margin
  leaves nothing for a second event. A failed second call writes as many entries
  as the firmware says it needs, so that the count covers the garbage too.
- `LoadAlwaysStaysInside` for kernel files in which no segment is longer in the
  file than in memory or wraps around (`WellFormed`), and `SegmentsAlwaysLoaded` if
  in addition no two segments overlap (`SegmentsApart`). Both loops have an
  invariant about the headers they have passed: measured (`LoadInv`), loaded
  (`SegmentInv`). The second needs that the first ended with every header measured,
  and that the lowest address is that of some segment (`LowestInv`).
- `KernelNeverEntered`, for the code's `XSDP_FIRST_PART_SIZE` of 8: no machine gets
  past `RecoverACPITable`, whatever its ACPI root pointer. `loader_boots` shows this
  for one healthy machine; the theorem is about all of them. The theorems above make
  no assumption about this constant.

`SLABProofs` proves, for every size of page, header, block and bitmap word that
`SlabAssumption` admits: `SlabTypeCorrect`, `FreeSlotsAlwaysExact`,
`BlocksAlwaysDisjoint` and `FirstAlwaysFindsFree`. The assumptions are those the
code's constants meet: sizes divide each other, and blocks and header are powers of
two (`IsPowerOfTwo`, in the form the proof uses: a divisor that is not the number
itself can be doubled). A block's length is stored nowhere, so `IInv` says that
callers only have offsets at which a block begins (`BlocksInPlace`, `IsBlock`), that
what the owner's search returned is one, free until the owner marks it
(`FoundBlock`), and that a search before which something was free has not passed all
of it (`SearchInv`). The arithmetic behind it: divisors of a power of two are a
factor of two apart (`DivisorsApart`), hence residual blocks, each as long as its
offset, do not reach into each other (`BlocksApart`); residual and main blocks tile
the page (`BlocksTile`); none crosses a word (`BlockInWord`); so that the first free
slot of a word is the first slot of a block (`FirstIsBlock`), and `SLABSet`, which
recovers the length from the offset alone, changes that block's bits and no others.

`EmptyPageAlwaysRecognised` is `EmptyPageRecognised` for all these sizes. It compares
two counts with totals that the code computes with a bit scan and a shift, so it is
about numbers of blocks. A divisor of a power of two is one itself
(`DivisorIsPowerOfTwo`) and divides every larger one (`DivisorsNested`); the
residual offsets are the divisors of the block length from a cache line up, and
doubling maps them one to one to the divisors above a cache line, of which there are
as many as the difference of the two bit scans (`LowestBitDivisors`,
`ResidualCount`). The main blocks are the multiples of the
block length behind these (`MainCount`). A kind's free blocks reach its total
exactly if all of them are free (`CountKept`).

`MemoryDomainsProofs` proves, for every machine that `MachineAssumption` admits:
`DomainsTypeCorrect`, `TableAlwaysTheOneAskedFor`, `EntriesAlwaysFoundOnce`,
`ProcessorsAlwaysPlaced` and `OwnArenaAlwaysNearest`.
`EntriesFoundOnce` speaks of the end of the loops only; `FoundInv` says what was
found at every point: everything that matches in the regions passed, and in the
current one what lies up to the position that the caller keeps. `TableInv` and
`LoopInv` say where the loops are, `ProcessorInv` is the same invariant for the
processors, and `LatencyInv` says that each latency table is what a call would
return now: no domain with memory comes up once tables are filled.

Only model-checked:

- liveness (`EveryCallReturns`, `EveryoneIsServed`, `IterationEnds`), which is out
  of the prover's reach; every other property of a run that passes is a theorem;
- the violations, which need a counterexample and not a proof;
- `Heapsort`, which uses a `RECURSIVE` operator.

The inductive invariants were checked by TLC on the instances of the runs before
they were proved.

## Not modelled

- Spinlock and atomics: which lock is meant has to be decided first. As written,
  nothing excludes a second processor.
- The slab allocator's lists: their functions use undeclared variables
  (`removeLock`, `slab`) and nothing calls them. As written `SLABListRemove`
  compares an object with the address of the head (line 312), so that the first
  object of a list is never taken for the first, and `SLABSafeListAdd` makes an
  object its own predecessor (line 338 lacks a dereference). The long comment
  from line 137 on weighs protocols against each other and settles on none.
  `SLABAllocate` is a stub.
- Random, and Architecture but for `BSF`: a generator whose only use is covered by
  nondeterminism, and inline assembly whose bit scans have their operands in the
  wrong order.
- The bytes of ACPI tables: entries are records. `ACPI_MemoryAffinity` lacks two
  reserved bytes that the standard has behind `ProximityDomain` (`SDT.h:45`).
- Weak memory order: x86 keeps stores in order; a compiler that moves the
  critical section's stores behind `Finished` is outside the model of `MCS`.
- What follows corrupted links or NULL pointers.
- The kernel's own writes: `rsp` is set to the lowest address of the stack's pages
  (`loader.c:153`), so that the kernel's first push is below them.
- The order of a size in the slab allocator (`SLABSizeToOrder`), which wraps below
  0 for sizes of 8 bytes or less: only the stub would use it.

## Plan

In this order; each step ends with its runs, mutants and proofs.

1. **Boot**: the map that `Loader` produces walked by `MemoryMap` and inserted
   into `MemoryRange`, domain by domain; an entry that reaches into two domains,
   and the entries counted but never written (`loader.c:21`).
2. **MemoryRange over SkipList**: the size lists as links in the ranges' own
   first pages, to replace the flag `corrupt` by what follows.
3. **SLAB's lists** and **Spinlock**, once their meaning is settled.

Theorems to prove next: for the boot composition, that every page the loader lists
as available reaches the page allocator once; for `MemoryRange` over `SkipList`, that
the composition implements `MemoryRange`, which `SkipListImplementsSortedLists`
prepares. Runs that are subsumed by theorems make room for those of new modules.
