---------------------------- MODULE LoaderProofs ----------------------------
(***************************************************************************)
(* Proofs about Loader, for every machine, every kernel file and every     *)
(* choice the firmware makes.                                              *)
(***************************************************************************)
EXTENDS Loader, NumberLemmas, FiniteSetTheorems, TLAPS

-----------------------------------------------------------------------------
(* Pages.                                                                  *)

\* The pages are the numbers below their number.
LEMMA PagesInterval ==
  /\ Cardinality(Pages) \in Nat
  /\ Pages = 0..(Cardinality(Pages) - 1)
  /\ Pages \subseteq Nat
  /\ IsFiniteSet(Pages)
<1>1. Cardinality(Pages) \in Nat
  BY LoaderAssumption, FS_CardinalityType
<1>2. QED
  BY <1>1, LoaderAssumption

-----------------------------------------------------------------------------
(* The firmware's memory map.                                              *)

\* The run that begins at a page ends somewhere.
LEMMA RunLast ==
  ASSUME NEW b \in Pages
  PROVE  /\ LastOfRun(b) \in Pages
         /\ b <= LastOfRun(b)
         /\ \A g \in b..LastOfRun(b) : mem[g] = mem[b]
         /\ LastOfRun(b) + 1 \in Pages => mem[LastOfRun(b) + 1] # mem[b]
<1> DEFINE T == {e \in Pages : b <= e /\ \A g \in b..e : mem[g] = mem[b]}
           last(e) == /\ b <= e
                      /\ \A g \in b..e : mem[g] = mem[b]
                      /\ e + 1 \in Pages => mem[e + 1] # mem[b]
<1>1. b \in Nat /\ b \in T
  BY PagesInterval
<1>2. PICK e \in T : \A x \in T : x <= e
  <2>1. Cardinality(Pages) - 1 \in Nat /\ T \subseteq 0..(Cardinality(Pages) - 1)
    BY PagesInterval
  <2> HIDE DEF T
  <2>2. QED
    BY <1>1, <2>1, GreatestExists
<1>3. e + 1 \in Pages => mem[e + 1] # mem[b]
  <2> SUFFICES ASSUME e + 1 \in Pages, mem[e + 1] = mem[b] PROVE FALSE
    OBVIOUS
  <2>1. e \in Nat /\ e \in Pages
    BY PagesInterval
  <2>2. \A g \in b..(e + 1) : g \in b..e \/ g = e + 1
    BY <1>1, <2>1
  <2>3. e + 1 \in T
    BY <1>1, <2>1, <2>2
  <2>4. QED
    BY <1>2, <2>1, <2>3
<1>4. e \in Pages /\ last(e)
  BY <1>2, <1>3
<1>5. last(LastOfRun(b)) /\ LastOfRun(b) \in Pages
  <2>1. LastOfRun(b) = CHOOSE x \in Pages : last(x)
    BY DEF LastOfRun
  <2> HIDE DEF last
  <2>2. QED
    BY <1>4, <2>1
<1>6. QED
  BY <1>5

\* Every page belongs to a run that begins somewhere.
LEMMA RunFirst ==
  ASSUME NEW g \in Pages
  PROVE  \E b \in Pages : b <= g /\ Begins(b) /\ \A x \in b..g : mem[x] = mem[b]
<1> DEFINE T == {b \in Pages : b <= g /\ \A x \in b..g : mem[x] = mem[g]}
<1>1. g \in Nat /\ g \in T
  BY PagesInterval
<1>2. PICK b \in T : \A x \in T : b <= x
  <2>1. T \subseteq Nat
    BY PagesInterval
  <2> HIDE DEF T
  <2>2. QED
    BY <1>1, <2>1, LeastExists
<1>3. b \in Nat /\ b <= g /\ mem[b] = mem[g] /\ \A x \in b..g : mem[x] = mem[g]
  <2>1. b \in Nat /\ b <= g /\ \A x \in b..g : mem[x] = mem[g]
    BY PagesInterval
  <2>2. QED
    BY <1>1, <2>1
<1>4. Begins(b)
  <2> SUFFICES ASSUME b - 1 \in Pages, mem[b - 1] = mem[b] PROVE FALSE
    BY DEF Begins
  <2>1. \A x \in (b - 1)..g : x = b - 1 \/ x \in b..g
    BY <1>1, <1>3
  <2>2. b - 1 \in T
    BY <1>1, <1>3, <2>1
  <2>3. QED
    BY <1>2, <1>3, <2>2
<1>5. QED
  BY <1>3, <1>4

\* Every page lies in a descriptor.
LEMMA InADescriptor ==
  ASSUME NEW g \in Pages
  PROVE  \E d \in Descriptors : g \in d.begin..d.last
<1>1. PICK b \in Pages : b <= g /\ Begins(b) /\ \A x \in b..g : mem[x] = mem[b]
  BY RunFirst
<1> DEFINE e == LastOfRun(b)
           d == [begin |-> b, last |-> e, type |-> mem[b]]
<1>2. e \in Pages /\ b <= e /\ (e + 1 \in Pages => mem[e + 1] # mem[b])
  BY RunLast
<1> HIDE DEF e
<1>3. b \in Nat /\ e \in Nat /\ g \in Nat
  BY <1>2, PagesInterval
<1>4. g <= e
  <2> SUFFICES ASSUME e < g PROVE FALSE
    BY <1>3
  <2>1. e + 1 \in b..g /\ e + 1 \in Pages
    BY <1>2, <1>3, PagesInterval
  <2>2. QED
    BY <1>1, <1>2, <2>1
<1>5. d \in Descriptors /\ d.begin = b /\ d.last = e
  BY <1>1 DEF Descriptors, e
<1>6. g \in d.begin..d.last
  BY <1>1, <1>3, <1>4, <1>5
<1> HIDE DEF d
<1>7. QED
  BY <1>5, <1>6

\* All pages of a descriptor have its type.
LEMMA DescriptorFacts ==
  ASSUME mem \in [Pages -> MemTypes], NEW d \in Descriptors
  PROVE  /\ d.begin \in Pages /\ d.last \in Pages /\ d.type \in MemTypes
         /\ Begins(d.begin) /\ d = [begin |-> d.begin, last |-> LastOfRun(d.begin), type |-> mem[d.begin]]
         /\ \A g \in d.begin..d.last : g \in Pages /\ mem[g] = d.type
<1>1. PICK b \in Pages : Begins(b) /\ d = [begin |-> b, last |-> LastOfRun(b), type |-> mem[b]]
  BY DEF Descriptors
<1>2. LastOfRun(b) \in Pages /\ \A g \in b..LastOfRun(b) : mem[g] = mem[b]
  BY RunLast
<1>3. \A g \in b..LastOfRun(b) : g \in Pages
  BY <1>2, PagesInterval
<1>4. QED
  BY <1>1, <1>2, <1>3

\* The pages at which a run begins.
Beginnings == {b \in Pages : Begins(b)}

\* There are as many descriptors as pages at which a run begins.
LEMMA DescriptorCount ==
  /\ IsFiniteSet(Beginnings) /\ Cardinality(Beginnings) \in Nat
  /\ IsFiniteSet(Descriptors) /\ Cardinality(Descriptors) = Cardinality(Beginnings)
<1> DEFINE f == [b \in Beginnings |-> [begin |-> b, last |-> LastOfRun(b), type |-> mem[b]]]
<1>1. IsFiniteSet(Beginnings) /\ Cardinality(Beginnings) \in Nat
  BY PagesInterval, FS_Subset, FS_CardinalityType DEF Beginnings
<1>2. \A b \in Beginnings : f[b].begin = b
  OBVIOUS
<1>3. f \in [Beginnings -> Descriptors]
  BY DEF Descriptors, Beginnings
<1>4. \A d \in Descriptors : \E b \in Beginnings : f[b] = d
  BY DEF Descriptors, Beginnings
<1> HIDE DEF f
<1>5. f \in Surjection(Beginnings, Descriptors)
  BY <1>3, <1>4 DEF Surjection
<1>6. f \in Injection(Beginnings, Descriptors)
  BY <1>2, <1>3 DEF Injection, IsInjective
<1>7. QED
  BY <1>1, <1>5, <1>6, FS_Surjection

\* Two more elements make a set larger by at most two.
LEMMA TwoMore ==
  ASSUME NEW S, IsFiniteSet(S), NEW x, NEW y, NEW T, T \subseteq (S \cup {x}) \cup {y}
  PROVE  Cardinality(T) <= Cardinality(S) + 2
<1> DEFINE U == S \cup {x}
           V == U \cup {y}
<1>1. IsFiniteSet(U) /\ Cardinality(U) = IF x \in S THEN Cardinality(S) ELSE Cardinality(S) + 1
  BY FS_AddElement
<1> HIDE DEF U
<1>2. IsFiniteSet(V) /\ Cardinality(V) = IF y \in U THEN Cardinality(U) ELSE Cardinality(U) + 1
  BY <1>1, FS_AddElement
<1>3. T \in SUBSET V
  BY DEF U
<1> HIDE DEF V
<1>4. Cardinality(T) <= Cardinality(V) /\ IsFiniteSet(T)
  BY <1>2, <1>3, FS_Subset
<1>5. Cardinality(S) \in Nat /\ Cardinality(T) \in Nat
  BY <1>4, FS_CardinalityType
<1>6. QED
  BY <1>1, <1>2, <1>4, <1>5

\* Giving the pages of one run a new type makes at most two more descriptors.
LEMMA OneRunMore ==
  ASSUME mem \in [Pages -> MemTypes], NEW b \in Int, NEW e \in Int, NEW type,
         SetType(b..e, type)
  PROVE  Cardinality(Descriptors') <= Cardinality(Descriptors) + 2
<1> DEFINE more == (Beginnings \cup {b}) \cup {e + 1}
<1>1. Beginnings' \subseteq more
  <2> SUFFICES ASSUME NEW x \in Pages, Begins(x)', x # b, x # e + 1
               PROVE  Begins(x)
    BY DEF Beginnings
  <2>1. SUFFICES ASSUME x - 1 \in Pages, mem[x - 1] = mem[x] PROVE FALSE
    BY DEF Begins
  <2>2. x \in Nat
    BY PagesInterval
  <2>3. x - 1 \in b..e <=> x \in b..e
    BY <2>2
  <2>4. mem'[x - 1] = mem'[x]
    BY <2>1, <2>3 DEF SetType
  <2>5. QED
    BY <2>1, <2>4 DEF Begins
<1>2. Cardinality(Beginnings') <= Cardinality(Beginnings) + 2
  <2> HIDE DEF more
  <2>1. more = (Beginnings \cup {b}) \cup {e + 1}
    BY DEF more
  <2>2. QED
    BY <1>1, <2>1, DescriptorCount, TwoMore
<1>3. (/\ IsFiniteSet(Beginnings) /\ Cardinality(Beginnings) \in Nat
       /\ IsFiniteSet(Descriptors) /\ Cardinality(Descriptors) = Cardinality(Beginnings))'
  BY DescriptorCount, PTL
<1>4. QED
  BY <1>2, <1>3, DescriptorCount

-----------------------------------------------------------------------------
(* The invariant about memory.                                             *)

\* The loops over the headers look at headers that exist.
HeaderInv ==
  /\ pc \in {"open", "info", "size", "read", "validate", "load"} => header = 1
  /\ pc \in {"measure", "copy"} /\ elf # <<>> => header \in DOMAIN elf
  /\ pc \in {"load", "copy"} => elf # <<>>

BlockType(b) == IF b \in {"kernel", "stack", "root"} THEN "LoaderData" ELSE "BootServicesData"

\* The blocks keep the type they were allocated with, and share no page: neither
\* a later allocation nor the firmware takes them, and freeing one leaves the
\* others alone.
BlocksKept ==
  /\ \A b \in Blocks : \A g \in block[b] : mem[g] = BlockType(b)
  /\ \A b, c \in Blocks : b # c => block[b] \cap block[c] = {}

\* From the second call on, if it succeeded, the entries say what the memory is
\* that the firmware leaves alone: what the loader changes later was and stays
\* available.
Snapshot ==
  pc \in {"free", "exit", "kernel", "kernelOnStack"} /\ status = "success" => ListsAvailable(late)

\* There is a result as soon as there are entries.
StatusInv == (status = "none") <=> (pc \notin {"free", "exit", "kernel", "kernelOnStack"})

MapInv == TypeOK /\ HeaderInv /\ BlocksKept /\ Snapshot /\ StatusInv

\* MapInv holds before main begins.
LEMMA MapInvInit == Init => MapInv
<1> SUFFICES ASSUME Init PROVE MapInv
  OBVIOUS
<1>1. /\ 0 \in 0..(AddressSpace - 1) /\ AddressSpace - 1 \in 0..(AddressSpace - 1)
      /\ 0 \in 0..MaxEvents
  BY AddressAssumption, LoaderAssumption
<1>2. NothingMeasured \in [high : 0..(AddressSpace - 1), low : 0..(AddressSpace - 1)]
  BY <1>1 DEF NothingMeasured
<1>3. TypeOK
  <2>1. raced \in BOOLEAN /\ bootServices \in BOOLEAN
    BY Zenon DEF Init
  <2>2. QED
    BY <1>1, <1>2, <2>1, LoaderAssumption DEF Init, TypeOK
<1>4. HeaderInv /\ BlocksKept /\ Snapshot /\ StatusInv
  BY DEF Init, HeaderInv, BlocksKept, Snapshot, StatusInv
<1>5. QED
  BY <1>3, <1>4 DEF MapInv

\* A block that is allocated, with any type the loader asks for.
LEMMA AllocateKeeps ==
  ASSUME TypeOK, BlocksKept, NEW b \in Blocks, NEW n, NEW S \in FreeRuns(n),
         SetType(S, BlockType(b)), block' = [block EXCEPT ![b] = S]
  PROVE  /\ mem' \in [Pages -> MemTypes] /\ block' \in [Blocks -> SUBSET Pages]
         /\ BlocksKept'
<1>1. S \subseteq Pages /\ \A g \in S : mem[g] = "Conventional"
  BY DEF FreeRuns
<1>2. mem' \in [Pages -> MemTypes] /\ block' \in [Blocks -> SUBSET Pages]
  BY <1>1 DEF TypeOK, SetType, BlockType, MemTypes
<1>3. \A c \in Blocks : block'[c] = IF c = b THEN S ELSE block[c]
  BY DEF TypeOK
<1>4. \A c \in Blocks : block[c] \cap S = {} /\ block[c] \subseteq Pages
  BY <1>1 DEF BlocksKept, BlockType, TypeOK
<1>5. \A c \in Blocks : \A g \in block'[c] : mem'[g] = BlockType(c)
  BY <1>1, <1>3, <1>4 DEF BlocksKept, SetType
<1>6. \A c, d \in Blocks : c # d => block'[c] \cap block'[d] = {}
  BY <1>3, <1>4 DEF BlocksKept
<1>7. QED
  BY <1>2, <1>5, <1>6 DEF BlocksKept, BlockType

\* A block that is freed.
LEMMA FreeKeeps ==
  ASSUME TypeOK, BlocksKept, NEW b \in Blocks,
         SetType(block[b], "Conventional"), block' = [block EXCEPT ![b] = {}]
  PROVE  /\ mem' \in [Pages -> MemTypes] /\ block' \in [Blocks -> SUBSET Pages]
         /\ BlocksKept'
<1>1. mem' \in [Pages -> MemTypes] /\ block' \in [Blocks -> SUBSET Pages]
  BY DEF TypeOK, SetType, MemTypes
<1>2. \A c \in Blocks : block'[c] = IF c = b THEN {} ELSE block[c]
  BY DEF TypeOK
<1>3. \A c \in Blocks : \A g \in block'[c] : mem'[g] = BlockType(c)
  <2> SUFFICES ASSUME NEW c \in Blocks, NEW g \in block'[c] PROVE mem'[g] = BlockType(c)
    OBVIOUS
  <2>1. c # b /\ g \in block[c] /\ g \in Pages
    BY <1>2 DEF TypeOK
  <2>2. g \notin block[b]
    BY <2>1 DEF BlocksKept
  <2>3. QED
    BY <2>1, <2>2 DEF SetType, BlocksKept
<1>4. \A c, d \in Blocks : c # d => block'[c] \cap block'[d] = {}
  BY <1>2 DEF BlocksKept
<1>5. QED
  BY <1>1, <1>3, <1>4 DEF BlocksKept, BlockType

\* What a header that is measured leaves.
LEMMA MeasureType ==
  ASSUME NEW s \in [high : 0..(AddressSpace - 1), low : 0..(AddressSpace - 1)],
         NEW p \in ProgramHeaders
  PROVE  MeasureHeader(s, p) \in [high : 0..(AddressSpace - 1), low : 0..(AddressSpace - 1)]
<1>1. p.vAddr \in Nat /\ p.sizeInMemory \in Nat
  BY DEF ProgramHeaders
<1>2. (p.vAddr + p.sizeInMemory) % AddressSpace \in 0..(AddressSpace - 1)
  BY <1>1, AddressAssumption
<1>3. s.high \in 0..(AddressSpace - 1) /\ s.low \in 0..(AddressSpace - 1)
  OBVIOUS
<1>4. p.vAddr < s.low => p.vAddr \in 0..(AddressSpace - 1)
  BY <1>1, <1>3, AddressAssumption
<1>5. QED
  BY <1>2, <1>3, <1>4 DEF MeasureHeader

\* What a header that is loaded leaves.
LEMMA LoadType ==
  ASSUME NEW f, f \in [DOMAIN f -> {"file", "zero"} \X Nat], NEW p \in ProgramHeaders,
         NEW base \in Nat
  PROVE  LoadHeader(f, p, base) \in [DOMAIN LoadHeader(f, p, base) -> {"file", "zero"} \X Nat]
<1> DEFINE at == p.vAddr - base
           copied == at .. (at + p.sizeInFile - 1)
           zeroed == (at + p.sizeInFile) .. (at + p.sizeInMemory - 1)
           byte(o) == IF o \in copied THEN FileByte(p.dataOffset + (o - at))
                      ELSE IF o \in zeroed THEN ZeroByte ELSE f[o]
<1>1. /\ p.vAddr \in Nat /\ p.sizeInMemory \in Nat /\ p.sizeInFile \in Nat /\ p.dataOffset \in Nat
  BY DEF ProgramHeaders
<1>2. CASE ~p.load
  BY <1>2 DEF LoadHeader
<1>3. CASE p.load
  <2>1. LoadHeader(f, p, base) = [o \in DOMAIN f \cup copied \cup zeroed |-> byte(o)]
    BY <1>3 DEF LoadHeader
  <2>2. \A o \in copied : p.dataOffset + (o - at) \in Nat
    BY <1>1
  <2> HIDE DEF copied, zeroed
  <2>3. \A o \in DOMAIN f \cup copied \cup zeroed : byte(o) \in {"file", "zero"} \X Nat
    BY <2>2 DEF FileByte, ZeroByte
  <2> HIDE DEF byte
  <2>4. QED
    BY <2>1, <2>3
<1>4. QED
  BY <1>2, <1>3

Places == {"open", "info", "size", "read", "validate", "measure", "load", "copy", "stack", "root",
           "video", "acpi", "query", "recover", "free", "exit", "kernel", "kernelOnStack",
           "ended", "undefined"}

Recovered == {"free", "exit", "kernel", "kernelOnStack"}

\* A step that only moves on.
LEMMA QuietKeeps ==
  ASSUME MapInv, UNCHANGED <<mem, block, loading, count, recovered, expected, events, raced, late>>,
         bootServices' \in BOOLEAN,
         pc' \in Places, HeaderInv', pc' \in Recovered <=> pc \in Recovered
  PROVE  MapInv'
<1>1. TypeOK'
  BY DEF MapInv, TypeOK, loading, recovered, Places
<1>2. BlocksKept'
  BY DEF MapInv, BlocksKept
<1>3. Snapshot' /\ StatusInv'
  BY DEF MapInv, Snapshot, StatusInv, Recovered, recovered, Listed, ListsAvailable
<1>4. QED
  BY <1>1, <1>2, <1>3 DEF MapInv

\* Steps that only move on, or end the loader, keep MapInv.
LEMMA MovesOn ==
  ASSUME MapInv,
         \/ OpenFile \/ ValidateELF \/ RetrieveELFInfoWithoutHeaders \/ AllocationFails
         \/ RecoverVideoMode \/ (\E x \in XSDPs : RecoverACPITable(x)) \/ NoACPITable
         \/ EnterKernel \/ EnterKernelOnStack
  PROVE  MapInv'
<1> USE DEF At
<1>1. /\ UNCHANGED <<mem, block, loading, count, recovered, expected, events, raced, late>>
      /\ bootServices' \in BOOLEAN
  BY DEF OpenFile, ValidateELF, RetrieveELFInfoWithoutHeaders, AllocationFails, firmware,
     RecoverVideoMode, RecoverACPITable, NoACPITable, EnterKernel, EnterKernelOnStack, MapInv, TypeOK
<1>2. pc' \in Places /\ (pc' \in Recovered <=> pc \in Recovered)
  BY DEF OpenFile, ValidateELF, RetrieveELFInfoWithoutHeaders, AllocationFails,
     RecoverVideoMode, RecoverACPITable, NoACPITable, EnterKernel, EnterKernelOnStack,
     Places, Recovered
<1>3. HeaderInv'
  <2>1. elf # <<>> => 1 \in DOMAIN elf
    BY LoaderAssumption DEF MapInv, TypeOK
  <2>2. elf' = elf /\ header' = header
    BY <1>1 DEF loading
  <2>3. CASE OpenFile
    BY <2>2, <2>3 DEF OpenFile, HeaderInv, MapInv
  <2>4. CASE ValidateELF
    BY <2>1, <2>2, <2>4 DEF ValidateELF, HeaderInv, MapInv
  <2>5. CASE ~OpenFile /\ ~ValidateELF
    <3>1. pc' \notin {"open", "info", "size", "read", "validate", "load", "measure", "copy"}
      BY <2>5 DEF RetrieveELFInfoWithoutHeaders, AllocationFails,
         RecoverVideoMode, RecoverACPITable, NoACPITable, EnterKernel, EnterKernelOnStack
    <3>2. QED
      BY <3>1 DEF HeaderInv
  <2>6. QED
    BY <2>3, <2>4, <2>5
<1>4. QED
  BY <1>1, <1>2, <1>3, QuietKeeps

\* A step that allocates a block.
Allocates(b) == \E n : \E S \in FreeRuns(n) : SetType(S, BlockType(b)) /\ block' = [block EXCEPT ![b] = S]

\* AllocateBytes takes a free run for a block that the kernel keeps.
LEMMA KernelBlock ==
  ASSUME NEW b \in {"kernel", "stack", "root"}, NEW bytes, AllocateBytes(b, bytes)
  PROVE  Allocates(b)
<1>1. BlockType(b) = "LoaderData"
  BY DEF BlockType
<1>2. QED
  BY <1>1 DEF Allocates, AllocateBytes

\* AllocateLoaderBytes takes a free run for a block that the kernel may use.
LEMMA LoaderBlock ==
  ASSUME NEW b \in {"info", "kernelFile", "memMap"}, NEW bytes, AllocateLoaderBytes(b, bytes)
  PROVE  Allocates(b)
<1>1. BlockType(b) = "BootServicesData"
  BY DEF BlockType
<1>2. QED
  BY <1>1 DEF Allocates, AllocateLoaderBytes

\* What the steps that allocate or free a block before the map is recovered do.
LEMMA BlockSteps ==
  ASSUME MapInv,
         \/ GetFileInfo \/ FreeFileInfo \/ ReadFile \/ AllocateKernel \/ AllocateStack
         \/ FormRootTable \/ QueryMemoryMap
  PROVE  /\ (\E b \in Blocks : Allocates(b))
            \/ (SetType(block["info"], "Conventional") /\ block' = [block EXCEPT !["info"] = {}])
            \/ UNCHANGED <<mem, block>>
         /\ elf' \in Kernels \cup {<<>>} /\ UNCHANGED <<header, size, image, recovered, firmware>>
         /\ count' \in Nat /\ expected' \in Nat
         /\ pc' \in Places /\ pc \notin Recovered /\ pc' \notin Recovered
         /\ HeaderInv'
<1> USE DEF At, loading
<1>1. /\ Cardinality(Descriptors) \in Nat /\ count \in Nat /\ expected \in Nat
      /\ elf \in Kernels \cup {<<>>} /\ HeaderInv
      /\ elf # <<>> => 1 \in DOMAIN elf
  BY DescriptorCount, LoaderAssumption DEF MapInv, TypeOK
<1>2. CASE GetFileInfo
  <2>1. Allocates("info")
    BY <1>2, LoaderBlock DEF GetFileInfo
  <2>2. QED
    BY <1>1, <1>2, <2>1 DEF GetFileInfo, Blocks, Places, Recovered, HeaderInv
<1>3. CASE FreeFileInfo
  BY <1>1, <1>3 DEF FreeFileInfo, Places, Recovered, HeaderInv
<1>4. CASE ReadFile
  <2>1. Allocates("kernelFile")
    BY <1>4, LoaderBlock DEF ReadFile
  <2>2. QED
    BY <1>1, <1>4, <2>1 DEF ReadFile, Blocks, Places, Recovered, HeaderInv
<1>5. CASE AllocateKernel
  <2>1. Allocates("kernel")
    BY <1>5, KernelBlock DEF AllocateKernel
  <2>2. QED
    BY <1>1, <1>5, <2>1 DEF AllocateKernel, Blocks, Places, Recovered, HeaderInv
<1>6. CASE AllocateStack
  <2>1. Allocates("stack") \/ UNCHANGED <<mem, block>>
    BY <1>6, KernelBlock DEF AllocateStack
  <2>2. QED
    BY <1>1, <1>6, <2>1 DEF AllocateStack, Blocks, Places, Recovered, HeaderInv
<1>7. CASE FormRootTable
  <2>1. Allocates("root")
    BY <1>7, KernelBlock DEF FormRootTable
  <2>2. QED
    BY <1>1, <1>7, <2>1 DEF FormRootTable, Blocks, Places, Recovered, HeaderInv
<1>8. CASE QueryMemoryMap
  <2>1. Allocates("memMap")
    BY <1>8, LoaderBlock DEF QueryMemoryMap
  <2>2. QED
    BY <1>1, <1>8, <2>1 DEF QueryMemoryMap, Blocks, Places, Recovered, HeaderInv
<1>9. QED
  BY <1>2, <1>3, <1>4, <1>5, <1>6, <1>7, <1>8

\* The steps that allocate or free a block before the map is recovered keep MapInv.
LEMMA BlockStepsKeep ==
  ASSUME MapInv,
         \/ GetFileInfo \/ FreeFileInfo \/ ReadFile \/ AllocateKernel \/ AllocateStack
         \/ FormRootTable \/ QueryMemoryMap
  PROVE  MapInv'
<1>1. TypeOK /\ BlocksKept
  BY DEF MapInv
<1>2. mem' \in [Pages -> MemTypes] /\ block' \in [Blocks -> SUBSET Pages] /\ BlocksKept'
  <2>1. CASE \E b \in Blocks : Allocates(b)
    BY <1>1, <2>1, AllocateKeeps DEF Allocates
  <2>2. CASE SetType(block["info"], "Conventional") /\ block' = [block EXCEPT !["info"] = {}]
    BY <1>1, <2>2, FreeKeeps DEF Blocks
  <2>3. CASE UNCHANGED <<mem, block>>
    BY <1>1, <2>3 DEF TypeOK, BlocksKept
  <2>4. QED
    BY <2>1, <2>2, <2>3, BlockSteps
<1>3. TypeOK'
  BY <1>1, <1>2, BlockSteps DEF TypeOK, Places, recovered, firmware
<1>4. Snapshot' /\ StatusInv'
  BY BlockSteps DEF MapInv, Snapshot, StatusInv, Recovered, recovered
<1>5. QED
  BY <1>2, <1>3, <1>4, BlockSteps DEF MapInv

\* The header that a loop looks at.
LEMMA HeaderAtHand ==
  ASSUME MapInv, pc \in {"measure", "copy"}, elf # <<>>
  PROVE  /\ elf \in Kernels /\ elf \in Seq(ProgramHeaders)
         /\ header \in 1..Len(elf) /\ Len(elf) \in Nat /\ DOMAIN elf = 1..Len(elf)
         /\ elf[header] \in ProgramHeaders
<1>1. elf \in Kernels /\ elf \in Seq(ProgramHeaders)
  BY LoaderAssumption DEF MapInv, TypeOK
<1>2. header \in DOMAIN elf
  BY DEF MapInv, HeaderInv
<1>3. QED
  BY <1>1, <1>2

\* A loop over the headers goes on with a header of the file or ends.
LEMMA NextHeaderKeeps ==
  ASSUME MapInv, NEW from \in {"measure", "copy"}, NEW to \in {"load", "stack"},
         NextHeader(from, to), elf' = elf
  PROVE  /\ HeaderInv' /\ header' \in Nat \ {0} /\ pc' \in {from, to}
<1>1. pc = from /\ elf # <<>>
  BY DEF NextHeader
<1>2. header \in 1..Len(elf) /\ Len(elf) \in Nat /\ DOMAIN elf = 1..Len(elf)
  BY <1>1, HeaderAtHand
<1>3. CASE header < Len(elf)
  <2>1. header' = header + 1 /\ pc' = pc
    BY <1>3 DEF NextHeader
  <2>2. header' \in DOMAIN elf
    BY <1>2, <1>3, <2>1
  <2>3. QED
    BY <1>1, <1>2, <2>1, <2>2 DEF HeaderInv
<1>4. CASE ~(header < Len(elf))
  <2>1. header' = 1 /\ pc' = to
    BY <1>4 DEF NextHeader
  <2>2. QED
    BY <1>1, <2>1 DEF HeaderInv
<1>5. QED
  BY <1>3, <1>4

\* Measuring one header keeps MapInv.
LEMMA RetrieveELFInfoKeeps ==
  ASSUME MapInv, RetrieveELFInfo
  PROVE  MapInv'
<1>1. /\ pc = "measure" /\ elf # <<>> /\ NextHeader("measure", "load")
      /\ size' = MeasureHeader(size, elf[header])
      /\ UNCHANGED <<mem, block, elf, image, count, recovered, expected, firmware>>
  BY DEF RetrieveELFInfo, NextHeader
<1>2. HeaderInv' /\ header' \in Nat \ {0} /\ pc' \in {"measure", "load"}
  BY <1>1, NextHeaderKeeps
<1>3. size' \in [high : 0..(AddressSpace - 1), low : 0..(AddressSpace - 1)]
  BY <1>1, HeaderAtHand, MeasureType DEF MapInv, TypeOK
<1>4. TypeOK'
  BY <1>1, <1>2, <1>3 DEF MapInv, TypeOK, recovered, firmware
<1>5. BlocksKept' /\ Snapshot' /\ StatusInv'
  BY <1>1, <1>2 DEF MapInv, BlocksKept, Snapshot, StatusInv, recovered
<1>6. QED
  BY <1>2, <1>4, <1>5 DEF MapInv

\* Loading one header keeps MapInv.
LEMMA LoadELFKeeps ==
  ASSUME MapInv, LoadELF
  PROVE  MapInv'
<1>1. /\ pc = "copy" /\ elf # <<>> /\ NextHeader("copy", "stack")
      /\ image' = LoadHeader(image, elf[header], size.low)
      /\ UNCHANGED <<mem, block, elf, size, count, recovered, expected, firmware>>
  BY DEF LoadELF, NextHeader
<1>2. HeaderInv' /\ header' \in Nat \ {0} /\ pc' \in {"copy", "stack"}
  BY <1>1, NextHeaderKeeps
<1>3. size.low \in Nat
  BY AddressAssumption DEF MapInv, TypeOK
<1>4. image' \in [DOMAIN image' -> {"file", "zero"} \X Nat]
  BY <1>1, <1>3, HeaderAtHand, LoadType DEF MapInv, TypeOK
<1>5. TypeOK'
  BY <1>1, <1>2, <1>4 DEF MapInv, TypeOK, recovered, firmware
<1>6. BlocksKept' /\ Snapshot' /\ StatusInv'
  BY <1>1, <1>2 DEF MapInv, BlocksKept, Snapshot, StatusInv, recovered
<1>7. QED
  BY <1>2, <1>5, <1>6 DEF MapInv

\* The entries that RecoverMemoryMap copies from a buffer that was filled list
\* exactly the available pages.
LEMMA RecoverMemoryMapKeeps ==
  ASSUME MapInv, RecoverMemoryMap
  PROVE  MapInv'
<1>1. mem \in [Pages -> MemTypes]
  BY DEF MapInv, TypeOK
<1>2. /\ pc = "recover" /\ pc' = "free"
      /\ written' = Cardinality(Descriptors) /\ status' \in {"success", "tooSmall"}
      /\ UNCHANGED <<mem, block, loading, count, expected, firmware>>
      /\ status' = "success" => entries' = Map
      /\ status' = "tooSmall" => entries' \in GarbageMaps
  BY DEF RecoverMemoryMap, At
<1>3. entries' \subseteq MemoryEntries
  <2>1. \A d \in Descriptors : [begin |-> d.begin, last |-> d.last,
                                available |-> IsAvailableMemoryType(d.type)]
                                 \in MemoryEntries
    BY <1>1, DescriptorFacts DEF IsAvailableMemoryType, MemoryEntries
  <2>2. Map \subseteq MemoryEntries
    BY <2>1 DEF Map
  <2>3. QED
    BY <1>2, <2>2, LoaderAssumption
<1>4. TypeOK'
  BY <1>2, <1>3, DescriptorCount DEF MapInv, TypeOK, loading, firmware
<1>5. BlocksKept' /\ HeaderInv' /\ StatusInv'
  BY <1>2 DEF MapInv, BlocksKept, HeaderInv, StatusInv
<1>6. Snapshot'
  <2> SUFFICES ASSUME status' = "success", NEW g \in Pages
               PROVE  Listed(g)' <=> IsAvailableMemoryType(mem[g])
    BY <1>2 DEF Snapshot, ListsAvailable
  <2>1. ASSUME Listed(g)' PROVE IsAvailableMemoryType(mem[g])
    <3>1. PICK e \in entries' : g \in e.begin .. e.last /\ e.available
      BY <2>1 DEF Listed
    <3>2. PICK d \in Descriptors : e = [begin |-> d.begin, last |-> d.last,
                                        available |-> IsAvailableMemoryType(d.type)]
      BY <1>2, <3>1 DEF Map
    <3>3. mem[g] = d.type
      BY <1>1, <3>1, <3>2, DescriptorFacts
    <3>4. QED
      BY <3>1, <3>2, <3>3
  <2>2. ASSUME IsAvailableMemoryType(mem[g]) PROVE Listed(g)'
    <3>1. PICK d \in Descriptors : g \in d.begin .. d.last
      BY InADescriptor
    <3>2. mem[g] = d.type
      BY <1>1, <3>1, DescriptorFacts
    <3> DEFINE e == [begin |-> d.begin, last |-> d.last, available |-> IsAvailableMemoryType(d.type)]
    <3>3. e \in entries' /\ g \in e.begin .. e.last /\ e.available
      BY <1>2, <2>2, <3>1, <3>2 DEF Map
    <3> HIDE DEF e
    <3>4. QED
      BY <3>3 DEF Listed
  <2>3. QED
    BY <2>1, <2>2
<1>7. QED
  BY <1>4, <1>5, <1>6 DEF MapInv

\* Freeing the firmware's map, after the snapshot of it, keeps MapInv.
LEMMA FreeMemoryMapKeeps ==
  ASSUME MapInv, FreeMemoryMap
  PROVE  MapInv'
<1>1. /\ pc = "free" /\ pc' = "exit"
      /\ SetType(block["memMap"], "Conventional") /\ block' = [block EXCEPT !["memMap"] = {}]
      /\ UNCHANGED <<loading, count, recovered, expected, firmware>>
  BY DEF FreeMemoryMap, At
<1>2. mem' \in [Pages -> MemTypes] /\ block' \in [Blocks -> SUBSET Pages] /\ BlocksKept'
  BY <1>1, FreeKeeps DEF MapInv, Blocks
<1>3. TypeOK'
  BY <1>1, <1>2 DEF MapInv, TypeOK, loading, recovered, firmware
<1>4. Snapshot'
  <2>1. \A g \in Pages : IsAvailableMemoryType(mem'[g]) <=> IsAvailableMemoryType(mem[g])
    BY <1>1 DEF MapInv, BlocksKept, BlockType, Blocks, SetType, IsAvailableMemoryType
  <2>2. QED
    BY <1>1, <2>1 DEF MapInv, Snapshot, Listed, ListsAvailable, recovered, firmware
<1>5. HeaderInv' /\ StatusInv'
  BY <1>1 DEF MapInv, HeaderInv, StatusInv, recovered
<1>6. QED
  BY <1>2, <1>3, <1>4, <1>5 DEF MapInv

\* What firmware takes or returns by itself keeps MapInv.
LEMMA FirmwareEventKeeps ==
  ASSUME MapInv, FirmwareEvent
  PROVE  MapInv'
<1>1. PICK g \in Pages, type \in {"BootServicesData", "RuntimeServicesData"} :
        /\ \/ mem[g] = "Conventional" /\ SetType({g}, type)
           \/ /\ mem[g] = type /\ \A b \in Blocks : g \notin block[b]
              /\ SetType({g}, "Conventional")
        /\ late' = IF status = "none" THEN late ELSE late \cup {g}
  BY DEF FirmwareEvent
<1>2. /\ events < MaxEvents /\ events' = events + 1 /\ raced' = (raced \/ pc = "recover")
      /\ UNCHANGED <<block, loading, count, recovered, expected, bootServices, pc>>
  BY DEF FirmwareEvent
<1>3. \A b \in Blocks : g \notin block[b]
  BY <1>1 DEF MapInv, BlocksKept, BlockType
<1>4. \A x \in Pages \ {g} : mem'[x] = mem[x]
  BY <1>1 DEF SetType
<1>5. mem' \in [Pages -> MemTypes]
  BY <1>1 DEF MapInv, TypeOK, SetType, MemTypes
<1>6. events' \in 0..MaxEvents /\ late' \subseteq Pages /\ raced' \in BOOLEAN
  BY <1>1, <1>2, LoaderAssumption DEF MapInv, TypeOK
<1>7. TypeOK'
  BY <1>2, <1>5, <1>6 DEF MapInv, TypeOK, loading, recovered
<1>8. BlocksKept'
  BY <1>2, <1>3, <1>4 DEF MapInv, TypeOK, BlocksKept
<1>9. HeaderInv' /\ StatusInv'
  BY <1>2 DEF MapInv, HeaderInv, StatusInv, loading, recovered
<1>10. Snapshot'
  <2> SUFFICES ASSUME pc' \in Recovered, status' = "success", NEW x \in Pages \ late'
               PROVE  Listed(x)' <=> IsAvailableMemoryType(mem'[x])
    BY DEF Snapshot, Recovered, ListsAvailable
  <2>1. pc \in Recovered /\ status = "success" /\ entries' = entries
    BY <1>2 DEF recovered
  <2>2. x \in Pages \ late /\ x # g
    BY <1>1, <2>1
  <2>3. QED
    BY <1>4, <2>1, <2>2 DEF MapInv, Snapshot, Recovered, ListsAvailable, Listed
<1>11. QED
  BY <1>7, <1>8, <1>9, <1>10 DEF MapInv

\* Every step keeps MapInv.
LEMMA MapInvNext == MapInv /\ [Next]_vars => MapInv'
<1> SUFFICES ASSUME MapInv, [Next]_vars PROVE MapInv'
  OBVIOUS
<1>1. CASE Main
  BY <1>1, MovesOn, BlockStepsKeep, RetrieveELFInfoKeeps, LoadELFKeeps, RecoverMemoryMapKeeps,
     FreeMemoryMapKeeps DEF Main
<1>2. CASE FirmwareEvent
  BY <1>2, FirmwareEventKeeps
<1>3. CASE UNCHANGED vars
  BY <1>3 DEF vars, loading, recovered, firmware, MapInv, TypeOK, HeaderInv, BlocksKept, Snapshot,
              StatusInv, ListsAvailable, Listed
<1>4. QED
  BY <1>1, <1>2, <1>3 DEF Next

\* The state keeps its type: the loops over the headers look at headers that
\* exist, and what LoadELF and RecoverMemoryMap write is well formed.
THEOREM LoaderTypeCorrect == Spec => []TypeOK
<1>1. MapInv => TypeOK
  BY DEF MapInv
<1>2. QED
  BY <1>1, MapInvInit, MapInvNext, PTL DEF Spec

\* On every machine, wherever the firmware puts the loader's blocks and whatever
\* it allocates and frees, before the snapshot and after it, also beside a kernel
\* that was entered although exit_bs failed: a map that was filled in is right
\* for every page that the firmware has not changed itself since.
THEOREM MapAlwaysCurrent == Spec => []MapIsCurrent
<1>1. MapInv => MapIsCurrent
  BY DEF MapInv, Snapshot, MapIsCurrent, InKernel
<1>2. QED
  BY <1>1, MapInvInit, MapInvNext, PTL DEF Spec

\* The pages that the firmware changes after the snapshot are none of the
\* kernel's.
LateInv == \A b \in {"kernel", "stack", "root"} : block[b] \cap late = {}

\* Every step keeps LateInv: when the firmware's later changes begin, the
\* kernel's blocks are allocated.
LEMMA LateInvNext == MapInv /\ LateInv /\ (status = "none" => late = {}) /\ [Next]_vars
                       => LateInv' /\ (status = "none" => late = {})'
<1> SUFFICES ASSUME MapInv, LateInv, status = "none" => late = {}, [Next]_vars
             PROVE  LateInv' /\ (status' = "none" => late' = {})
  OBVIOUS
<1>1. CASE FirmwareEvent
  <2>1. PICK g \in Pages, type \in {"BootServicesData", "RuntimeServicesData"} :
        /\ mem[g] = "Conventional" \/ mem[g] = type
        /\ late' = IF status = "none" THEN late ELSE late \cup {g}
    BY <1>1 DEF FirmwareEvent
  <2>2. UNCHANGED <<block, status>>
    BY <1>1 DEF FirmwareEvent, recovered
  <2>3. \A b \in {"kernel", "stack", "root"} : b \in Blocks /\ g \notin block[b]
    BY <2>1 DEF MapInv, BlocksKept, BlockType, Blocks
  <2>4. QED
    BY <2>1, <2>2, <2>3 DEF LateInv
<1>2. CASE UNCHANGED vars
  BY <1>2 DEF vars, recovered, firmware, LateInv
<1>3. CASE \/ GetFileInfo \/ FreeFileInfo \/ ReadFile \/ AllocateKernel \/ AllocateStack
           \/ FormRootTable \/ QueryMemoryMap
  <2>1. status = "none" /\ status' = status /\ late' = late
    BY <1>3, BlockSteps DEF MapInv, StatusInv, Recovered, recovered, firmware
  <2>2. QED
    BY <2>1 DEF LateInv
<1>4. CASE FreeMemoryMap
  <2>1. /\ block' = [block EXCEPT !["memMap"] = {}] /\ late' = late /\ status' = status
    BY <1>4 DEF FreeMemoryMap, recovered, firmware
  <2>2. QED
    BY <2>1 DEF MapInv, TypeOK, Blocks, LateInv
<1>5. CASE RecoverMemoryMap
  BY <1>5 DEF RecoverMemoryMap, firmware, LateInv
<1>6. CASE \/ OpenFile \/ ValidateELF \/ RetrieveELFInfoWithoutHeaders \/ AllocationFails
           \/ RecoverVideoMode \/ (\E x \in XSDPs : RecoverACPITable(x)) \/ NoACPITable
           \/ EnterKernel \/ EnterKernelOnStack \/ RetrieveELFInfo \/ LoadELF
  <2>1. UNCHANGED <<block, late, status>>
    BY <1>6 DEF OpenFile, ValidateELF, RetrieveELFInfoWithoutHeaders, AllocationFails,
     RecoverVideoMode, RecoverACPITable, NoACPITable, EnterKernel, EnterKernelOnStack,
     RetrieveELFInfo, LoadELF, recovered, firmware
  <2>2. QED
    BY <2>1 DEF LateInv
<1>7. QED
  BY <1>1, <1>2, <1>3, <1>4, <1>5, <1>6 DEF Next, Main

\* If the firmware filled the map in, the kernel is entered with its image, its
\* stack and the RootTable outside of every available entry.
THEOREM KernelMemoryAlwaysReserved == Spec => []KernelMemoryReserved
<1> DEFINE Inv == MapInv /\ LateInv /\ (status = "none" => late = {})
<1>1. Inv => KernelMemoryReserved
  <2> SUFFICES ASSUME Inv, InKernel, status = "success",
                      NEW b \in {"kernel", "stack", "root"}, NEW g \in block[b]
               PROVE  ~Listed(g)
    BY DEF KernelMemoryReserved, KernelUnlisted
  <2>1. b \in Blocks /\ g \in Pages \ late /\ mem[g] = "LoaderData"
    BY DEF MapInv, TypeOK, BlocksKept, BlockType, Blocks, LateInv
  <2>2. QED
    BY <2>1 DEF MapInv, Snapshot, InKernel, IsAvailableMemoryType, ListsAvailable
<1>2. Init => Inv
  BY MapInvInit DEF Init, LateInv
<1>3. Inv /\ [Next]_vars => Inv'
  BY MapInvNext, LateInvNext
<1>4. QED
  BY <1>1, <1>2, <1>3, PTL DEF Spec

-----------------------------------------------------------------------------
(* The room for the entries.                                               *)

\* What the margin of FormRootTable still has to cover: the allocation in
\* RecoverMemoryMap and the firmware's own ones, each with two descriptors.
RoomInv ==
  /\ pc \in {"video", "acpi", "query"} =>
       Cardinality(Descriptors) + 2 + 2 * (MaxEvents - events) <= count
  /\ pc = "recover" => Cardinality(Descriptors) + 2 * (MaxEvents - events) <= count
  /\ pc \notin Recovered => written = 0
  /\ EntriesFit

\* RoomInv holds before main begins.
LEMMA RoomInvInit == Init => RoomInv
BY DEF Init, RoomInv, EntriesFit

\* Allocating a block makes at most two more descriptors.
LEMMA AllocationCost ==
  ASSUME MapInv, NEW n \in Int, NEW S \in FreeRuns(n), NEW type, SetType(S, type)
  PROVE  Cardinality(Descriptors') <= Cardinality(Descriptors) + 2
<1>1. PICK b \in Pages : S = b..(b + n - 1)
  BY DEF FreeRuns
<1>2. b \in Int /\ b + n - 1 \in Int
  BY PagesInterval
<1>3. SetType(b..(b + n - 1), type)
  BY <1>1
<1>4. mem \in [Pages -> MemTypes]
  BY DEF MapInv, TypeOK
<1>5. QED
  BY <1>2, <1>3, <1>4, OneRunMore

\* Every step keeps RoomInv.
LEMMA RoomInvNext ==
  ASSUME MaxEvents <= 1
  PROVE  MapInv /\ RoomInv /\ [Next]_vars => RoomInv'
<1> SUFFICES ASSUME MapInv, RoomInv, [Next]_vars PROVE RoomInv'
  OBVIOUS
<1> DEFINE D == Cardinality(Descriptors)
<1>1. D \in Nat /\ D' \in Nat
  <2>1. Cardinality(Descriptors) \in Nat
    BY DescriptorCount
  <2>2. (IsFiniteSet(Descriptors))'
    BY DescriptorCount, PTL
  <2>3. IsFiniteSet(Descriptors')
    BY <2>2
  <2>4. QED
    BY <2>1, <2>3, FS_CardinalityType
<1>2. MaxEvents \in Nat /\ events \in 0..MaxEvents /\ count \in Nat
  BY LoaderAssumption DEF MapInv, TypeOK
<1>2a. 2 * (MaxEvents - events) \in Nat /\ 2 * (MaxEvents - events) <= 2
  BY <1>2
<1>3. \A bytes \in Nat : PagesFor(bytes) \in Int
  BY LoaderAssumption DEF PagesFor
<1>4. mem' = mem => D' = D
  <2> SUFFICES ASSUME mem' = mem PROVE D' = D
    OBVIOUS
  <2>1. Descriptors' = Descriptors
    BY DEF Descriptors, LastOfRun, Begins
  <2>2. QED
    BY <2>1
<1> HIDE DEF D
<1>5. CASE FormRootTable
  <2>1. D' <= D + 2
    <3>1. Sizes["root"] \in Nat
      BY LoaderAssumption DEF Blocks
    <3>2. PICK S \in FreeRuns(PagesFor(Sizes["root"])) : SetType(S, "LoaderData")
      BY <1>5 DEF FormRootTable, AllocateBytes
    <3>3. QED
      BY <1>3, <3>1, <3>2, AllocationCost DEF D
  <2>2. count' = D + 6 /\ written' = written /\ events' = events /\ pc = "root" /\ pc' = "video"
    BY <1>5 DEF FormRootTable, At, D, recovered, firmware
  <2>3. written = 0
    BY <2>2 DEF RoomInv, Recovered
  <2>4. D' + 2 + 2 * (MaxEvents - events) <= D + 6
    BY <1>1, <1>2a, <2>1
  <2>5. QED
    BY <1>1, <2>2, <2>3, <2>4 DEF RoomInv, EntriesFit, D, Recovered
<1>6. CASE QueryMemoryMap
  <2>1. D' <= D + 2
    <3>1. Sizes["memMap"] \in Nat
      BY LoaderAssumption DEF Blocks
    <3>2. PICK S \in FreeRuns(PagesFor(Sizes["memMap"])) : SetType(S, "BootServicesData")
      BY <1>6 DEF QueryMemoryMap, AllocateLoaderBytes
    <3>3. QED
      BY <1>3, <3>1, <3>2, AllocationCost DEF D
  <2>2. count' = count /\ written' = written /\ events' = events /\ pc = "query" /\ pc' = "recover"
    BY <1>6 DEF QueryMemoryMap, At, recovered, firmware
  <2>3. D + 2 + 2 * (MaxEvents - events) <= count
    BY <2>2 DEF RoomInv, D
  <2>4. D' + 2 * (MaxEvents - events) <= count
    <3>1. \A d, e, k, c \in Nat : e <= d + 2 /\ d + 2 + k <= c => e + k <= c
      OBVIOUS
    <3>2. QED
      BY <1>1, <1>2, <1>2a, <2>1, <2>3, <3>1
  <2>5. QED
    BY <2>2, <2>4 DEF RoomInv, EntriesFit, D, Recovered
<1>7. CASE RecoverMemoryMap
  <2>1. pc = "recover" /\ pc' = "free" /\ count' = count /\ written' = D
    BY <1>7 DEF RecoverMemoryMap, At, D
  <2>2. D <= count
    <3>1. D + 2 * (MaxEvents - events) <= count
      BY <2>1 DEF RoomInv, D
    <3>2. QED
      BY <1>1, <1>2, <3>1
  <2>3. QED
    BY <2>1, <2>2 DEF RoomInv, EntriesFit, Recovered
<1>8. CASE FirmwareEvent
  <2>1. D' <= D + 2
    <3>1. PICK g \in Pages, type \in MemTypes : SetType({g}, type)
      BY <1>8 DEF FirmwareEvent, MemTypes
    <3>2. g \in Int /\ {g} = g..g
      BY PagesInterval
    <3>3. SetType(g..g, type)
      BY <3>1, <3>2
    <3>4. mem \in [Pages -> MemTypes]
      BY DEF MapInv, TypeOK
    <3>5. QED
      BY <3>2, <3>3, <3>4, OneRunMore DEF D
  <2>2. /\ count' = count /\ written' = written /\ events' = events + 1 /\ pc' = pc
        /\ events < MaxEvents
    BY <1>8 DEF FirmwareEvent, recovered
  <2>3. 2 * (MaxEvents - events') = 2 * (MaxEvents - events) - 2
    BY <1>2, <2>2
  <2>4. /\ pc \in {"video", "acpi", "query"} => D' + 2 + 2 * (MaxEvents - events') <= count
        /\ pc = "recover" => D' + 2 * (MaxEvents - events') <= count
    <3>1. /\ pc \in {"video", "acpi", "query"} => D + 2 + 2 * (MaxEvents - events) <= count
          /\ pc = "recover" => D + 2 * (MaxEvents - events) <= count
      BY DEF RoomInv, D
    <3>2. QED
      BY <1>1, <1>2, <2>1, <2>3, <3>1
  <2>5. QED
    BY <2>2, <2>4 DEF RoomInv, EntriesFit, D, Recovered
<1>9. CASE \/ OpenFile \/ GetFileInfo \/ FreeFileInfo \/ ReadFile \/ ValidateELF
           \/ RetrieveELFInfo \/ RetrieveELFInfoWithoutHeaders \/ AllocateKernel \/ LoadELF
           \/ AllocateStack
  <2>1. /\ pc \in {"open", "info", "size", "read", "validate", "measure", "load", "copy", "stack"}
        /\ pc' \in Places \ {"video", "acpi", "query", "recover"}
        /\ written' = written /\ count' = count
    BY <1>9 DEF OpenFile, GetFileInfo, FreeFileInfo, ReadFile, ValidateELF, RetrieveELFInfo,
       RetrieveELFInfoWithoutHeaders, AllocateKernel, LoadELF, AllocateStack, At, NextHeader, Places, recovered
  <2>2. QED
    BY <2>1 DEF RoomInv, EntriesFit, Recovered
<1>10. CASE \/ AllocationFails \/ RecoverVideoMode \/ (\E x \in XSDPs : RecoverACPITable(x))
            \/ NoACPITable \/ EnterKernel \/ EnterKernelOnStack
  <2>1. UNCHANGED <<mem, count, written, events>>
    BY <1>10 DEF AllocationFails, RecoverVideoMode, RecoverACPITable, NoACPITable, EnterKernel,
       EnterKernelOnStack, recovered, firmware
  <2>2. \/ pc \notin Recovered /\ pc' \in {"ended", "undefined"}
        \/ pc \in Recovered /\ pc' \in {"kernel", "kernelOnStack"}
        \/ pc \in {"video", "acpi", "query"} /\ pc' \in {"acpi", "query"}
    BY <1>10 DEF AllocationFails, RecoverVideoMode, RecoverACPITable, NoACPITable, EnterKernel,
       EnterKernelOnStack, At, Recovered
  <2>3. D' = D
    BY <1>4, <2>1
  <2>4. QED
    BY <2>1, <2>2, <2>3 DEF RoomInv, EntriesFit, D, Recovered
<1>11. CASE FreeMemoryMap
  BY <1>11 DEF FreeMemoryMap, At, RoomInv, EntriesFit, Recovered, recovered
<1>12. CASE UNCHANGED vars
  <2>1. UNCHANGED <<mem, count, written, events, pc>>
    BY <1>12 DEF vars, recovered, firmware
  <2>2. D' = D
    BY <1>4, <2>1
  <2>3. QED
    BY <2>1, <2>2 DEF RoomInv, EntriesFit, D
<1>13. QED
  BY <1>5, <1>6, <1>7, <1>8, <1>9, <1>10, <1>11, <1>12 DEF Next, Main

\* If the firmware allocates at most once on its own while the loader runs, the
\* array that FormRootTable reserved has room for the map recovered later: each
\* allocation, its own one included, makes at most two more descriptors, and 6
\* is enough for three.
THEOREM EntriesAlwaysFit ==
  ASSUME MaxEvents <= 1
  PROVE  Spec => []EntriesFit
<1>1. RoomInv => EntriesFit
  BY DEF RoomInv
<1>2. QED
  BY <1>1, MapInvInit, MapInvNext, RoomInvInit, RoomInvNext, PTL DEF Spec

\* What the margin of RecoverMemoryMap covers: the buffer's own allocation.
BufferInv ==
  /\ pc = "recover" /\ ~raced => Cardinality(Descriptors) <= expected
  /\ BufferFits
  /\ raced \/ late # {} => events > 0

\* Every step keeps BufferInv.
LEMMA BufferInvNext == MapInv /\ BufferInv /\ [Next]_vars => BufferInv'
<1> SUFFICES ASSUME MapInv, BufferInv, [Next]_vars PROVE BufferInv'
  OBVIOUS
<1>1. CASE QueryMemoryMap
  <2>1. \A bytes \in Nat : PagesFor(bytes) \in Int
    BY LoaderAssumption DEF PagesFor
  <2>2. Sizes["memMap"] \in Nat
    BY LoaderAssumption DEF Blocks
  <2>3. PICK S \in FreeRuns(PagesFor(Sizes["memMap"])) : SetType(S, "BootServicesData")
    BY <1>1 DEF QueryMemoryMap, AllocateLoaderBytes
  <2>4. Cardinality(Descriptors') <= Cardinality(Descriptors) + 2
    BY <2>1, <2>2, <2>3, AllocationCost
  <2>5. Cardinality(Descriptors) \in Nat /\ Cardinality(Descriptors') \in Nat
    <3>1. (IsFiniteSet(Descriptors))'
      BY DescriptorCount, PTL
    <3>2. IsFiniteSet(Descriptors')
      BY <3>1
    <3>3. QED
      BY <3>2, DescriptorCount, FS_CardinalityType
  <2>6. expected' = Cardinality(Descriptors) + 3 /\ UNCHANGED <<status, raced, late, events>>
    BY <1>1 DEF QueryMemoryMap, recovered, firmware
  <2>7. Cardinality(Descriptors') <= expected'
    BY <2>4, <2>5, <2>6
  <2>8. QED
    BY <2>6, <2>7 DEF BufferInv, BufferFits
<1>2. CASE RecoverMemoryMap
  <2>1. /\ pc = "recover" /\ pc' = "free" /\ UNCHANGED <<raced, late, events>>
        /\ status' = "tooSmall" => Cardinality(Descriptors) > expected
    BY <1>2 DEF RecoverMemoryMap, At, firmware
  <2>2. Cardinality(Descriptors) \in Nat /\ expected \in Nat
    BY DescriptorCount DEF MapInv, TypeOK
  <2>3. QED
    BY <2>1, <2>2 DEF BufferInv, BufferFits
<1>3. CASE FirmwareEvent
  <2>1. /\ events' = events + 1 /\ raced' = (raced \/ pc = "recover") /\ pc' = pc /\ status' = status
    BY <1>3 DEF FirmwareEvent, recovered
  <2>2. events \in Nat
    BY LoaderAssumption DEF MapInv, TypeOK
  <2>3. events' > 0
    BY <2>1, <2>2
  <2>4. (raced => raced') /\ (pc' = "recover" => raced')
    BY <2>1, Zenon
  <2>5. BufferFits'
    BY <2>1, <2>4 DEF BufferInv, BufferFits
  <2>6. QED
    BY <2>3, <2>4, <2>5 DEF BufferInv
<1>4. CASE UNCHANGED vars
  <2>1. UNCHANGED <<mem, expected, status, raced, late, events, pc>>
    BY <1>4 DEF vars, recovered, firmware
  <2>2. Descriptors' = Descriptors
    BY <2>1 DEF Descriptors, LastOfRun, Begins
  <2>3. QED
    BY <2>1, <2>2 DEF BufferInv, BufferFits
<1>5. CASE Main /\ ~QueryMemoryMap /\ ~RecoverMemoryMap
  <2>1. /\ pc' # "recover"
        /\ UNCHANGED <<status, raced, late, events>>
    BY <1>5 DEF Main, OpenFile, GetFileInfo, FreeFileInfo, ReadFile, ValidateELF, RetrieveELFInfo,
       RetrieveELFInfoWithoutHeaders, AllocateKernel, LoadELF, AllocateStack, FormRootTable,
       AllocationFails, RecoverVideoMode, RecoverACPITable, NoACPITable, FreeMemoryMap, EnterKernel,
       EnterKernelOnStack, NextHeader, At, recovered, firmware
  <2>2. QED
    BY <2>1 DEF BufferInv, BufferFits
<1>6. QED
  BY <1>1, <1>2, <1>3, <1>4, <1>5 DEF Next

\* BufferInv holds before main begins.
LEMMA BufferInvInit == Init => BufferInv
BY DEF Init, BufferInv, BufferFits

\* On every machine the buffer of RecoverMemoryMap is large enough, unless the
\* firmware allocates or frees memory between the two calls of GetMemoryMap.
THEOREM BufferAlwaysFits == Spec => []BufferFits
<1>1. BufferInv => BufferFits
  BY DEF BufferInv
<1>2. QED
  BY <1>1, MapInvInit, MapInvNext, BufferInvInit, BufferInvNext, PTL DEF Spec

\* On every machine whose firmware does not allocate or free memory on its own
\* while the loader runs, the kernel gets a map that lists exactly the memory it
\* may use, and nothing of its own.
THEOREM QuietFirmwareMapExact ==
  ASSUME MaxEvents = 0
  PROVE  Spec => [](InKernel => ListsAvailable({}) /\ KernelUnlisted)
<1>1. MapInv /\ BufferInv /\ MapIsCurrent /\ KernelMemoryReserved
        => (InKernel => ListsAvailable({}) /\ KernelUnlisted)
  <2> SUFFICES ASSUME MapInv, BufferInv, MapIsCurrent, KernelMemoryReserved, InKernel
               PROVE  ListsAvailable({}) /\ KernelUnlisted
    OBVIOUS
  <2>1. ~(events > 0)
    BY DEF MapInv, TypeOK
  <2>2. status = "success" /\ late = {}
    BY <2>1 DEF MapInv, TypeOK, StatusInv, InKernel, BufferInv, BufferFits
  <2>3. QED
    BY <2>2 DEF MapIsCurrent, KernelMemoryReserved
<1>2. QED
  BY <1>1, MapInvInit, MapInvNext, BufferInvInit, BufferInvNext, MapAlwaysCurrent,
     KernelMemoryAlwaysReserved, PTL DEF Spec

-----------------------------------------------------------------------------
(* The image.                                                              *)

\* What the ELF format asks of program headers: a segment has at least as many
\* bytes in memory as in the file and does not reach the end of the addresses.
WellFormed ==
  \A k \in Kernels : \A i \in DOMAIN k : k[i].load =>
    /\ k[i].sizeInFile <= k[i].sizeInMemory
    /\ k[i].vAddr + k[i].sizeInMemory < AddressSpace

\* Segments do not overlap.
SegmentsApart ==
  \A k \in Kernels : \A i, j \in DOMAIN k : i # j /\ k[i].load /\ k[j].load =>
    \/ k[i].vAddr + k[i].sizeInMemory <= k[j].vAddr
    \/ k[j].vAddr + k[j].sizeInMemory <= k[i].vAddr

\* Header i was measured.
Measured(i) ==
  elf[i].load => size.low <= elf[i].vAddr /\ elf[i].vAddr + elf[i].sizeInMemory <= size.high

\* Segment i is in memory.
Loaded(i) ==
  elf[i].load =>
    \A k \in 0..(elf[i].sizeInMemory - 1) :
      /\ elf[i].vAddr - size.low + k \in DOMAIN image
      /\ image[elf[i].vAddr - size.low + k] =
           IF k < elf[i].sizeInFile THEN FileByte(elf[i].dataOffset + k) ELSE ZeroByte

BeforeCopy == {"open", "info", "size", "read", "validate", "measure", "load"}
AfterCopy == {"stack", "root", "video", "acpi", "query", "recover", "free", "exit", "kernel",
              "kernelOnStack"}

\* The lowest address is that of a header, or the one before the first header.
LowestInv ==
  \/ size.low = AddressSpace - 1
  \/ \E i \in DOMAIN elf : elf[i].load /\ size.low = elf[i].vAddr

\* RetrieveELFInfo has measured the headers it has passed, and there is room for
\* what it measured.
LoadInv ==
  /\ pc \in {"open", "info", "size", "read", "validate"} => size = NothingMeasured
  /\ pc \in {"open", "info", "size", "read"} => elf = <<>>
  /\ LowestInv
  /\ pc = "measure" => \A i \in DOMAIN elf : i < header => Measured(i)
  /\ pc \in {"load", "copy"} \cup AfterCopy => \A i \in DOMAIN elf : Measured(i)
  /\ pc \in BeforeCopy => DOMAIN image = {}
  /\ pc = "copy" => ExecutiveSize(size) <= Cardinality(block["kernel"]) * PageSize
  /\ LoadStaysInside

\* LoadELF has loaded the headers it has passed.
SegmentInv ==
  /\ pc = "copy" => \A i \in DOMAIN elf : i < header => Loaded(i)
  /\ pc \in AfterCopy => \A i \in DOMAIN elf : Loaded(i)

\* An address does not wrap.
LEMMA SmallRemainder ==
  ASSUME NEW x \in Nat, x < AddressSpace
  PROVE  x % AddressSpace = x
BY AddressAssumption

\* The pages that are asked for hold the bytes.
LEMMA PagesEnough ==
  ASSUME NEW bytes \in Nat
  PROVE  PagesFor(bytes) \in Nat /\ bytes <= PagesFor(bytes) * PageSize
<1> DEFINE q == bytes \div PageSize
           r == bytes % PageSize
<1>1. PageSize \in Nat /\ PageSize > 0
  BY LoaderAssumption
<1>2. q \in Nat /\ r \in 0..(PageSize - 1) /\ bytes = PageSize * q + r
  BY <1>1
<1>3. PagesFor(bytes) = q + (IF r # 0 THEN 1 ELSE 0)
  BY DEF PagesFor
<1> HIDE DEF q, r
<1>4. q * PageSize = PageSize * q /\ (q + 1) * PageSize = PageSize * q + PageSize
  BY <1>1, <1>2
<1>5. CASE r = 0
  <2>1. PagesFor(bytes) = q
    BY <1>2, <1>3, <1>5
  <2>2. QED
    BY <1>1, <1>2, <1>4, <1>5, <2>1
<1>6. CASE r # 0
  <2>1. PagesFor(bytes) = q + 1
    BY <1>2, <1>3, <1>6
  <2>2. PageSize * q \in Nat
    BY <1>1, <1>2
  <2>3. bytes <= PageSize * q + PageSize
    BY <1>1, <1>2, <2>2
  <2>4. QED
    BY <1>2, <1>4, <2>1, <2>3
<1>7. QED
  BY <1>5, <1>6

\* A run of n free pages has n pages.
LEMMA RunSize ==
  ASSUME NEW n \in Nat, NEW S \in FreeRuns(n)
  PROVE  Cardinality(S) = n
<1>1. PICK b \in Pages : S = b..(b + n - 1)
  BY DEF FreeRuns
<1>2. b \in Int /\ b + n - 1 \in Int
  BY PagesInterval
<1>3. Cardinality(b..(b + n - 1)) = IF b > b + n - 1 THEN 0 ELSE (b + n - 1) - b + 1
  BY <1>2, FS_Interval
<1>4. QED
  BY <1>1, <1>2, <1>3

\* The type of what is measured.
LEMMA SizeFacts ==
  ASSUME TypeOK
  PROVE  /\ size.low \in 0..(AddressSpace - 1) /\ size.high \in 0..(AddressSpace - 1)
         /\ size.low \in Nat /\ size.high \in Nat /\ AddressSpace \in Nat \ {0}
         /\ ExecutiveSize(size) \in Nat
         /\ size.low <= size.high => ExecutiveSize(size) = size.high - size.low
<1>1. /\ size.low \in 0..(AddressSpace - 1) /\ size.high \in 0..(AddressSpace - 1)
      /\ AddressSpace \in Nat \ {0}
  BY AddressAssumption DEF TypeOK
<1>2. ExecutiveSize(size) \in Nat
  BY <1>1 DEF ExecutiveSize
<1>3. ASSUME size.low <= size.high PROVE ExecutiveSize(size) = size.high - size.low
  BY <1>1, <1>3, SmallRemainder DEF ExecutiveSize
<1>4. QED
  BY <1>1, <1>2, <1>3

\* A program header of the file that was read.
LEMMA HeaderFacts ==
  ASSUME TypeOK, WellFormed, NEW i \in DOMAIN elf
  PROVE  /\ elf \in Kernels /\ i \in Nat \ {0}
         /\ elf[i].vAddr \in Nat /\ elf[i].sizeInMemory \in Nat /\ elf[i].sizeInFile \in Nat
         /\ elf[i].dataOffset \in Nat /\ elf[i].load \in BOOLEAN
         /\ elf[i].load => /\ elf[i].sizeInFile <= elf[i].sizeInMemory
                           /\ elf[i].vAddr + elf[i].sizeInMemory < AddressSpace
<1>1. elf \in Kernels /\ elf \in Seq(ProgramHeaders)
  BY LoaderAssumption DEF TypeOK
<1>2. i \in Nat \ {0} /\ elf[i] \in ProgramHeaders
  BY <1>1
<1>3. QED
  BY <1>1, <1>2 DEF WellFormed, ProgramHeaders

\* LoadInv and SegmentInv hold before main begins.
LEMMA LoadInvInit == Init => LoadInv /\ SegmentInv
BY AddressAssumption DEF Init, LoadInv, SegmentInv, LowestInv, NothingMeasured, LoadStaysInside, AfterCopy

\* A step outside of the loops.
LEMMA LoadingKept ==
  ASSUME MapInv, LoadInv, UNCHANGED loading, block'["kernel"] = block["kernel"],
         \/ pc' = pc
         \/ pc \in {"open", "info", "size"} /\ pc' \in {"open", "info", "size", "read"}
         \/ pc = "validate" /\ pc' = "measure"
         \/ pc' \in {"ended", "undefined"}
         \/ pc \in AfterCopy /\ pc' \in AfterCopy
  PROVE  LoadInv' /\ (SegmentInv => SegmentInv')
<1>1. UNCHANGED <<elf, header, size, image>>
  BY DEF loading
<1>2. \A i \in DOMAIN elf : pc = "validate" => ~(i < header)
  BY LoaderAssumption DEF MapInv, HeaderInv, TypeOK
<1>3. LowestInv' /\ LoadStaysInside' /\ ExecutiveSize(size)' = ExecutiveSize(size)
  BY <1>1 DEF LoadInv, LowestInv, LoadStaysInside
<1>4. \A i : (Measured(i)' <=> Measured(i)) /\ (Loaded(i)' <=> Loaded(i))
  BY <1>1 DEF Measured, Loaded
<1>5. LoadInv'
  BY <1>1, <1>2, <1>3, <1>4 DEF LoadInv, AfterCopy, BeforeCopy
<1>6. SegmentInv => SegmentInv'
  BY <1>1, <1>4 DEF SegmentInv, AfterCopy
<1>7. QED
  BY <1>5, <1>6

\* Steps that neither read, measure, place nor load the kernel leave its image alone.
LEMMA OtherSteps ==
  ASSUME MapInv, LoadInv, [Next]_vars,
         ~ReadFile, ~RetrieveELFInfo, ~AllocateKernel, ~LoadELF
  PROVE  LoadInv' /\ (SegmentInv => SegmentInv')
<1>1. ASSUME NEW b \in {"info", "stack", "root", "memMap"}, NEW S, block' = [block EXCEPT ![b] = S]
      PROVE  block'["kernel"] = block["kernel"]
  BY <1>1 DEF MapInv, TypeOK, Blocks
<1> USE DEF At
<1>2. CASE OpenFile \/ ValidateELF \/ RetrieveELFInfoWithoutHeaders \/ AllocationFails
           \/ RecoverVideoMode \/ (\E x \in XSDPs : RecoverACPITable(x)) \/ NoACPITable
           \/ EnterKernel \/ EnterKernelOnStack \/ RecoverMemoryMap
  <2>1. UNCHANGED <<loading, block>>
    BY <1>2 DEF OpenFile, ValidateELF, RetrieveELFInfoWithoutHeaders, AllocationFails,
       RecoverVideoMode, RecoverACPITable, NoACPITable, EnterKernel, EnterKernelOnStack, RecoverMemoryMap
  <2>2. \/ pc \in {"open", "info", "size"} /\ pc' \in {"open", "info", "size", "read"}
        \/ pc = "validate" /\ pc' = "measure"
        \/ pc' \in {"ended", "undefined"}
        \/ pc \in AfterCopy /\ pc' \in AfterCopy
    BY <1>2 DEF OpenFile, ValidateELF, RetrieveELFInfoWithoutHeaders, AllocationFails,
       RecoverVideoMode, RecoverACPITable, NoACPITable, EnterKernel, EnterKernelOnStack,
       RecoverMemoryMap, AfterCopy
  <2>3. QED
    BY <2>1, <2>2, LoadingKept
<1>3. CASE GetFileInfo \/ FreeFileInfo
  <2>1. UNCHANGED loading /\ pc \in {"info", "size"} /\ pc' \in {"size", "read"}
    BY <1>3 DEF GetFileInfo, FreeFileInfo
  <2>2. block'["kernel"] = block["kernel"]
    <3>1. \E b \in {"info"} : \E S : block' = [block EXCEPT ![b] = S]
      BY <1>3 DEF GetFileInfo, FreeFileInfo, AllocateLoaderBytes
    <3>2. QED
      BY <1>1, <3>1
  <2>3. QED
    BY <2>1, <2>2, LoadingKept
<1>4. CASE AllocateStack \/ FormRootTable \/ QueryMemoryMap \/ FreeMemoryMap
  <2>1. UNCHANGED loading /\ pc \in AfterCopy /\ pc' \in AfterCopy
    BY <1>4 DEF AllocateStack, FormRootTable, QueryMemoryMap, FreeMemoryMap, AfterCopy
  <2>2. block'["kernel"] = block["kernel"]
    <3>1. block' = block \/ \E b \in {"stack", "root", "memMap"} : \E S : block' = [block EXCEPT ![b] = S]
      BY <1>4 DEF AllocateStack, FormRootTable, QueryMemoryMap, FreeMemoryMap, AllocateBytes,
         AllocateLoaderBytes
    <3>2. QED
      BY <1>1, <3>1
  <2>3. QED
    BY <2>1, <2>2, LoadingKept
<1>5. CASE FirmwareEvent \/ UNCHANGED vars
  <2>1. UNCHANGED <<loading, block, pc>>
    BY <1>5 DEF FirmwareEvent, vars
  <2>2. QED
    BY <2>1, LoadingKept
<1>6. QED
  BY <1>2, <1>3, <1>4, <1>5 DEF Next, Main

\* Reading the file starts with nothing measured and nothing written.
LEMMA ReadFileLoading ==
  ASSUME MapInv, LoadInv, ReadFile
  PROVE  LoadInv' /\ SegmentInv'
<1>1. pc = "read" /\ pc' = "validate" /\ UNCHANGED <<header, size, image>>
  BY DEF ReadFile, At
<1>2. size = NothingMeasured /\ DOMAIN image = {}
  BY <1>1 DEF LoadInv, BeforeCopy
<1>3. LowestInv'
  BY <1>1, <1>2 DEF LowestInv, NothingMeasured
<1>4. LoadStaysInside'
  BY <1>1, <1>2 DEF LoadStaysInside
<1>5. QED
  BY <1>1, <1>2, <1>3, <1>4 DEF LoadInv, SegmentInv, AfterCopy, BeforeCopy

\* The loop of RetrieveELFInfo.
LEMMA MeasureLoading ==
  ASSUME WellFormed, MapInv, LoadInv, RetrieveELFInfo
  PROVE  LoadInv' /\ SegmentInv'
<1> DEFINE p == elf[header]
<1>1. /\ pc = "measure" /\ elf # <<>> /\ NextHeader("measure", "load")
      /\ size' = MeasureHeader(size, p)
      /\ UNCHANGED <<block, elf, image>>
  BY DEF RetrieveELFInfo, NextHeader
<1>2. /\ header \in 1..Len(elf) /\ Len(elf) \in Nat /\ DOMAIN elf = 1..Len(elf)
      /\ TypeOK
  BY <1>1, HeaderAtHand DEF MapInv
<1>3. /\ size.low \in 0..(AddressSpace - 1) /\ size.high \in 0..(AddressSpace - 1)
      /\ AddressSpace \in Nat \ {0}
  BY <1>2, SizeFacts
<1>4. \A i \in DOMAIN elf : i < header => Measured(i)
  BY <1>1 DEF LoadInv
<1>5. /\ p.vAddr \in Nat /\ p.sizeInMemory \in Nat /\ p.load \in BOOLEAN
      /\ p.load => p.vAddr + p.sizeInMemory < AddressSpace
  BY <1>2, HeaderFacts
<1>6. p.load => (p.vAddr + p.sizeInMemory) % AddressSpace = p.vAddr + p.sizeInMemory
  BY <1>5, SmallRemainder
<1> HIDE DEF p
<1>7. /\ size'.low <= size.low /\ size.high <= size'.high
      /\ size'.low \in Int /\ size'.high \in Int
      /\ p.load => size'.low <= p.vAddr /\ p.vAddr + p.sizeInMemory <= size'.high
      /\ size'.low = size.low \/ (p.load /\ size'.low = p.vAddr)
  <2>1. CASE ~p.load
    <3>1. size' = size
      BY <1>1, <2>1 DEF MeasureHeader
    <3>2. QED
      BY <1>3, <2>1, <3>1
  <2>2. CASE p.load
    <3>1. /\ size'.high = IF p.vAddr + p.sizeInMemory > size.high THEN p.vAddr + p.sizeInMemory
                                                                  ELSE size.high
          /\ size'.low = IF p.vAddr < size.low THEN p.vAddr ELSE size.low
      BY <1>1, <1>6, <2>2 DEF MeasureHeader
    <3>2. QED
      BY <1>3, <1>5, <2>2, <3>1
  <2>3. QED
    BY <1>5, <2>1, <2>2
<1>8. ASSUME NEW i \in DOMAIN elf, i <= header
      PROVE  Measured(i)'
  <2>1. elf[i].vAddr \in Nat /\ elf[i].sizeInMemory \in Nat
    BY <1>2, HeaderFacts
  <2>2. CASE i = header
    BY <1>1, <1>7, <2>2 DEF Measured, p
  <2>3. CASE i # header
    <3>1. i < header
      BY <1>2, <1>8, <2>3
    <3>2. Measured(i)
      BY <1>4, <3>1
    <3>3. QED
      BY <1>1, <1>3, <1>7, <2>1, <3>2 DEF Measured
  <2>4. QED
    BY <2>2, <2>3
<1>9. LowestInv'
  <2>1. LowestInv
    BY DEF LoadInv
  <2>2. QED
    BY <1>1, <1>2, <1>7, <2>1 DEF LowestInv, p
<1>10. LoadStaysInside' /\ DOMAIN image' = {}
  <2>1. LoadStaysInside /\ DOMAIN image = {}
    BY <1>1 DEF LoadInv, BeforeCopy
  <2>2. QED
    BY <1>1, <2>1 DEF LoadStaysInside
<1>11. CASE header < Len(elf)
  <2>1. header' = header + 1 /\ pc' = "measure"
    BY <1>1, <1>11 DEF NextHeader
  <2>2. \A i \in DOMAIN elf : i < header' => i <= header
    BY <1>2, <2>1
  <2>3. \A i \in DOMAIN elf' : i < header' => Measured(i)'
    BY <1>1, <1>8, <2>2
  <2>4. QED
    BY <1>9, <1>10, <2>1, <2>3 DEF LoadInv, SegmentInv, AfterCopy
<1>12. CASE ~(header < Len(elf))
  <2>1. pc' = "load"
    BY <1>1, <1>12 DEF NextHeader
  <2>2. \A i \in DOMAIN elf : i <= header
    BY <1>2, <1>12
  <2>3. \A i \in DOMAIN elf' : Measured(i)'
    BY <1>1, <1>8, <2>2
  <2>4. QED
    BY <1>9, <1>10, <2>1, <2>3 DEF LoadInv, SegmentInv, AfterCopy
<1>13. QED
  BY <1>11, <1>12

\* The pages that are allocated hold the measured image.
LEMMA AllocateLoading ==
  ASSUME WellFormed, MapInv, LoadInv, AllocateKernel
  PROVE  LoadInv' /\ SegmentInv'
<1> DEFINE bytes == ExecutiveSize(size)
<1>1. pc = "load" /\ pc' = "copy" /\ UNCHANGED <<elf, header, size, image>>
  BY DEF AllocateKernel, At, loading
<1>2. bytes \in Nat
  BY SizeFacts DEF MapInv
<1>3. PICK S \in FreeRuns(PagesFor(bytes)) : block' = [block EXCEPT !["kernel"] = S]
  BY DEF AllocateKernel, AllocateBytes
<1>4. block'["kernel"] = S
  BY <1>3 DEF MapInv, TypeOK, Blocks
<1> HIDE DEF bytes
<1>5. Cardinality(S) = PagesFor(bytes) /\ bytes <= PagesFor(bytes) * PageSize
  BY <1>2, <1>3, PagesEnough, RunSize
<1>6. bytes <= Cardinality(block'["kernel"]) * PageSize
  BY <1>4, <1>5
<1>7. DOMAIN image = {} /\ LowestInv /\ \A i \in DOMAIN elf : Measured(i)
  BY <1>1 DEF LoadInv, BeforeCopy
<1>8. LoadStaysInside' /\ LowestInv' /\ \A i \in DOMAIN elf' : Measured(i)'
  BY <1>1, <1>7 DEF LoadStaysInside, LowestInv, Measured
<1>9. LoadInv'
  BY <1>1, <1>6, <1>8 DEF LoadInv, BeforeCopy, AfterCopy, bytes
<1>10. \A i \in DOMAIN elf : ~(i < header)
  BY <1>1, LoaderAssumption DEF MapInv, HeaderInv, TypeOK
<1>11. SegmentInv'
  BY <1>1, <1>10 DEF SegmentInv, AfterCopy
<1>12. QED
  BY <1>9, <1>11

\* The loop of LoadELF writes inside what was measured ...
LEMMA CopyLoading ==
  ASSUME WellFormed, MapInv, LoadInv, LoadELF
  PROVE  LoadInv'
<1> DEFINE p == elf[header]
           at == p.vAddr - size.low
           room == Cardinality(block["kernel"]) * PageSize
<1>1. /\ pc = "copy" /\ elf # <<>> /\ NextHeader("copy", "stack")
      /\ image' = LoadHeader(image, p, size.low)
      /\ UNCHANGED <<block, elf, size>>
  BY DEF LoadELF, NextHeader
<1>2. header \in DOMAIN elf /\ TypeOK /\ pc' \in {"copy", "stack"}
  BY <1>1, HeaderAtHand, NextHeaderKeeps DEF MapInv
<1>3. /\ Measured(header) /\ (\A i \in DOMAIN elf : Measured(i)) /\ LowestInv
      /\ ExecutiveSize(size) <= room /\ DOMAIN image \subseteq 0..(room - 1)
  BY <1>1, <1>2 DEF LoadInv, LoadStaysInside
<1>4. room \in Int
  <2>1. block["kernel"] \subseteq Pages
    BY <1>2 DEF TypeOK, Blocks
  <2>2. IsFiniteSet(block["kernel"])
    BY <2>1, PagesInterval, FS_Subset
  <2>3. Cardinality(block["kernel"]) \in Nat
    BY <2>2, FS_CardinalityType
  <2>4. QED
    BY <2>3, LoaderAssumption
<1>5. /\ p.vAddr \in Nat /\ p.sizeInMemory \in Nat /\ p.sizeInFile \in Nat
      /\ p.load => p.sizeInFile <= p.sizeInMemory
  BY <1>2, HeaderFacts
<1>6. /\ size.low \in Nat /\ size.high \in Nat
      /\ size.low <= size.high => ExecutiveSize(size) = size.high - size.low
  BY <1>2, SizeFacts
<1>7. DOMAIN image' \subseteq 0..(room - 1)
  <2>1. CASE ~p.load
    BY <1>1, <1>3, <2>1 DEF LoadHeader
  <2>2. CASE p.load
    <3>1. DOMAIN image' = DOMAIN image \cup (at .. (at + p.sizeInFile - 1))
                            \cup ((at + p.sizeInFile) .. (at + p.sizeInMemory - 1))
      BY <1>1, <2>2 DEF LoadHeader
    <3>2. size.low <= p.vAddr /\ p.vAddr + p.sizeInMemory <= size.high
      BY <1>3, <2>2 DEF Measured
    <3> HIDE DEF p, room
    <3>3. at \in Nat /\ at + p.sizeInMemory <= room
      BY <1>3, <1>4, <1>5, <1>6, <3>2
    <3> HIDE DEF at
    <3>4. /\ (at .. (at + p.sizeInFile - 1)) \subseteq 0..(room - 1)
          /\ ((at + p.sizeInFile) .. (at + p.sizeInMemory - 1)) \subseteq 0..(room - 1)
      BY <1>4, <1>5, <2>2, <3>3
    <3>5. QED
      BY <1>3, <3>1, <3>4
  <2>3. QED
    BY <2>1, <2>2
<1>8. LoadStaysInside' /\ LowestInv'
  BY <1>1, <1>3, <1>7 DEF LoadStaysInside, LowestInv
<1>9. \A i \in DOMAIN elf' : Measured(i)'
  BY <1>1, <1>3 DEF Measured
<1>10. ExecutiveSize(size)' <= (Cardinality(block["kernel"]) * PageSize)'
  BY <1>1, <1>3
<1>11. QED
  BY <1>2, <1>8, <1>9, <1>10 DEF LoadInv, BeforeCopy

\* ... and leaves the segments loaded before alone.
LEMMA CopySegment ==
  ASSUME WellFormed, SegmentsApart, MapInv, LoadInv, SegmentInv, LoadELF
  PROVE  SegmentInv'
<1> DEFINE p == elf[header]
           at == p.vAddr - size.low
           copied == at .. (at + p.sizeInFile - 1)
           zeroed == (at + p.sizeInFile) .. (at + p.sizeInMemory - 1)
<1>1. /\ pc = "copy" /\ elf # <<>> /\ NextHeader("copy", "stack")
      /\ image' = LoadHeader(image, p, size.low)
      /\ UNCHANGED <<block, elf, size>>
  BY DEF LoadELF, NextHeader
<1>2. /\ header \in 1..Len(elf) /\ Len(elf) \in Nat /\ DOMAIN elf = 1..Len(elf)
      /\ TypeOK
  BY <1>1, HeaderAtHand DEF MapInv
<1>3. /\ p.vAddr \in Nat /\ p.sizeInMemory \in Nat /\ p.sizeInFile \in Nat
      /\ p.load => p.sizeInFile <= p.sizeInMemory
  BY <1>2, HeaderFacts
<1>4. size.low \in Nat
  BY <1>2, SizeFacts
<1>5. ASSUME NEW i \in DOMAIN elf, i <= header, elf[i].load, NEW k \in 0..(elf[i].sizeInMemory - 1),
             NEW o, o = elf[i].vAddr - size.low + k
      PROVE  o \in DOMAIN image' /\ image'[o] = IF k < elf[i].sizeInFile
                                               THEN FileByte(elf[i].dataOffset + k) ELSE ZeroByte
  <2>1. /\ elf \in Kernels
        /\ elf[i].vAddr \in Nat /\ elf[i].sizeInMemory \in Nat /\ elf[i].sizeInFile \in Nat
    BY <1>2, HeaderFacts
  <2>2. CASE i = header
    <3>1. /\ DOMAIN image' = DOMAIN image \cup copied \cup zeroed
          /\ \A x \in DOMAIN image' :
               image'[x] = IF x \in copied THEN FileByte(p.dataOffset + (x - at))
                           ELSE IF x \in zeroed THEN ZeroByte ELSE image[x]
      BY <1>1, <1>5, <2>2 DEF LoadHeader
    <3>2. elf[i] = p /\ k \in Int /\ o = at + k /\ o - at = k
      BY <1>3, <1>4, <1>5, <2>2
    <3>3. IF k < p.sizeInFile THEN o \in copied ELSE o \notin copied /\ o \in zeroed
      BY <1>3, <1>4, <1>5, <3>2
    <3> HIDE DEF p, at, copied, zeroed
    <3>4. QED
      BY <3>1, <3>2, <3>3
  <2>3. CASE i # header
    <3>1. i < header
      BY <1>2, <1>5, <2>3
    <3>2. Loaded(i)
      BY <1>1, <3>1 DEF SegmentInv
    <3>3. o \in DOMAIN image /\ image[o] = IF k < elf[i].sizeInFile
                                           THEN FileByte(elf[i].dataOffset + k) ELSE ZeroByte
      BY <1>5, <3>2 DEF Loaded
    <3>4. CASE ~p.load
      BY <1>1, <3>3, <3>4 DEF LoadHeader
    <3>5. CASE p.load
      <4>1. /\ DOMAIN image' = DOMAIN image \cup copied \cup zeroed
            /\ \A x \in DOMAIN image' :
                 image'[x] = IF x \in copied THEN FileByte(p.dataOffset + (x - at))
                             ELSE IF x \in zeroed THEN ZeroByte ELSE image[x]
        BY <1>1, <3>5 DEF LoadHeader
      <4>2. \/ elf[i].vAddr + elf[i].sizeInMemory <= p.vAddr
            \/ p.vAddr + p.sizeInMemory <= elf[i].vAddr
        BY <1>2, <1>5, <2>1, <2>3, <3>5 DEF SegmentsApart
      <4>3. o \notin copied /\ o \notin zeroed
        <5> HIDE DEF p
        <5>1. QED
          BY <1>3, <1>4, <1>5, <2>1, <3>5, <4>2
      <4> HIDE DEF copied, zeroed
      <4>4. QED
        BY <3>3, <4>1, <4>3
    <3>6. QED
      BY <3>4, <3>5
  <2>4. QED
    BY <2>2, <2>3
<1>6. ASSUME NEW i \in DOMAIN elf, i <= header PROVE Loaded(i)'
  BY <1>1, <1>5, <1>6 DEF Loaded
<1>7. CASE header < Len(elf)
  <2>1. header' = header + 1 /\ pc' = "copy"
    BY <1>1, <1>7 DEF NextHeader
  <2>2. \A i \in DOMAIN elf : i < header' => i <= header
    BY <1>2, <2>1
  <2>3. QED
    BY <1>1, <1>6, <2>1, <2>2 DEF SegmentInv, AfterCopy
<1>8. CASE ~(header < Len(elf))
  <2>1. pc' = "stack"
    BY <1>1, <1>8 DEF NextHeader
  <2>2. \A i \in DOMAIN elf : i <= header
    BY <1>2, <1>8
  <2>3. QED
    BY <1>1, <1>6, <2>1, <2>2 DEF SegmentInv, AfterCopy
<1>9. QED
  BY <1>7, <1>8

\* Every step keeps LoadInv.
LEMMA LoadInvNext ==
  ASSUME WellFormed
  PROVE  MapInv /\ LoadInv /\ [Next]_vars => LoadInv'
BY OtherSteps, ReadFileLoading, MeasureLoading, AllocateLoading, CopyLoading

\* Every step keeps SegmentInv.
LEMMA SegmentInvNext ==
  ASSUME WellFormed, SegmentsApart
  PROVE  MapInv /\ LoadInv /\ SegmentInv /\ [Next]_vars => SegmentInv'
BY OtherSteps, ReadFileLoading, MeasureLoading, AllocateLoading, CopySegment

\* For every kernel file whose headers are well formed, in whatever order they
\* are and whatever lies between the segments, LoadELF writes only into the
\* pages that main allocated for the size RetrieveELFInfo measured.
THEOREM LoadAlwaysStaysInside ==
  ASSUME WellFormed
  PROVE  Spec => []LoadStaysInside
<1>1. LoadInv => LoadStaysInside
  BY DEF LoadInv
<1>2. Init => LoadInv
  BY LoadInvInit
<1>3. QED
  BY <1>1, <1>2, MapInvInit, MapInvNext, LoadInvNext, PTL DEF Spec

\* If the segments of a well-formed file do not overlap either, every one of
\* them is in memory with its bytes and its zeroes, at its distance from the
\* lowest one, when the kernel is entered.
THEOREM SegmentsAlwaysLoaded ==
  ASSUME WellFormed, SegmentsApart
  PROVE  Spec => []SegmentsLoaded
<1>1. MapInv /\ LoadInv /\ SegmentInv => SegmentsLoaded
  <2> SUFFICES ASSUME MapInv, LoadInv, SegmentInv, InKernel,
                      NEW i \in DOMAIN elf, NEW low \in DOMAIN elf, elf[i].load, elf[low].load,
                      \A j \in DOMAIN elf : elf[j].load => elf[low].vAddr <= elf[j].vAddr,
                      NEW k \in 0..(elf[i].sizeInMemory - 1)
               PROVE  /\ elf[i].vAddr - elf[low].vAddr + k \in DOMAIN image
                      /\ image[elf[i].vAddr - elf[low].vAddr + k] =
                           IF k < elf[i].sizeInFile THEN FileByte(elf[i].dataOffset + k) ELSE ZeroByte
    BY DEF SegmentsLoaded
  <2>1. Loaded(i) /\ Measured(low) /\ LowestInv
    BY DEF InKernel, LoadInv, SegmentInv, AfterCopy
  <2>2. size.low = elf[low].vAddr
    <3>1. /\ size.low \in Nat /\ elf[low].vAddr \in Nat /\ elf[low].sizeInMemory \in Nat
          /\ elf[low].vAddr + elf[low].sizeInMemory < AddressSpace /\ AddressSpace \in Nat
      BY SizeFacts, HeaderFacts DEF MapInv
    <3>2. size.low <= elf[low].vAddr
      BY <2>1 DEF Measured
    <3>3. elf[low].vAddr <= size.low
      BY <2>1, <3>1 DEF LowestInv
    <3>4. QED
      BY <3>1, <3>2, <3>3
  <2>3. QED
    BY <2>1, <2>2 DEF Loaded
<1>2. Init => LoadInv /\ SegmentInv
  BY LoadInvInit
<1>3. QED
  BY <1>1, <1>2, MapInvInit, MapInvNext, LoadInvNext, SegmentInvNext, PTL DEF Spec

-----------------------------------------------------------------------------
(* The ACPI root pointer.                                                  *)

\* The steps of the loader that RecoverACPITable guards.
BehindACPI == {"query", "recover", "free", "exit", "kernel", "kernelOnStack"}

\* With the code's XSDP_FIRST_PART_SIZE of 8 the kernel is never entered, on any
\* machine and with any ACPI root pointer: the first of the two loops sums up
\* the signature alone, whose bytes do not add up to 0, so that RecoverACPITable
\* refuses every pointer (loader_boots shows the same for one healthy machine).
THEOREM KernelNeverEntered ==
  ASSUME XSDP_FIRST_PART_SIZE = 8
  PROVE  Spec => []~InKernel
<1> DEFINE Inv == pc \notin BehindACPI
<1>1. Init => Inv
  BY DEF Init, BehindACPI
<1>2. \A x : ~IsValidXSDP(x)
  BY DEF IsValidXSDP, Checksum
<1>3. Inv /\ [Next]_vars => Inv'
  <2> SUFFICES ASSUME Inv, [Next]_vars PROVE Inv'
    OBVIOUS
  <2>1. CASE UNCHANGED vars
    BY <2>1 DEF vars
  <2>2. CASE FirmwareEvent
    BY <2>2 DEF FirmwareEvent
  <2>3. CASE \E x \in XSDPs : RecoverACPITable(x)
    BY <2>3, <1>2 DEF RecoverACPITable, BehindACPI
  <2>4. CASE OpenFile \/ GetFileInfo \/ FreeFileInfo \/ ReadFile \/ ValidateELF
    BY <2>4 DEF OpenFile, GetFileInfo, FreeFileInfo, ReadFile, ValidateELF, At, BehindACPI
  <2>5. CASE RetrieveELFInfo \/ RetrieveELFInfoWithoutHeaders \/ AllocateKernel \/ LoadELF
    BY <2>5 DEF RetrieveELFInfo, RetrieveELFInfoWithoutHeaders, AllocateKernel, LoadELF,
                NextHeader, At, BehindACPI
  <2>6. CASE AllocateStack \/ FormRootTable \/ AllocationFails \/ RecoverVideoMode \/ NoACPITable
    BY <2>6 DEF AllocateStack, FormRootTable, AllocationFails, RecoverVideoMode, NoACPITable,
                At, BehindACPI
  <2>7. CASE QueryMemoryMap \/ RecoverMemoryMap \/ FreeMemoryMap \/ EnterKernel \/ EnterKernelOnStack
    BY <2>7 DEF QueryMemoryMap, RecoverMemoryMap, FreeMemoryMap, EnterKernel,
                EnterKernelOnStack, At, BehindACPI
  <2> QED
    BY <2>1, <2>2, <2>3, <2>4, <2>5, <2>6, <2>7 DEF Next, Main
<1>4. Inv => ~InKernel
  BY DEF InKernel, BehindACPI
<1> QED
  BY <1>1, <1>3, <1>4, PTL DEF Spec
=============================================================================
