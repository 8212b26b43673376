------------------------------- MODULE Loader -------------------------------
(***************************************************************************)
(* The UEFI loader (loader/loader.c, loader/utils.c): it reads the kernel  *)
(* file, loads it (ELF), allocates a stack, forms the RootTable with the   *)
(* memory map and enters the kernel.  Every firmware call may fail, also   *)
(* those whose result nobody looks at: GetMemoryMap for the map itself,    *)
(* and exit_bs.  What follows a use of a NULL pointer is not modelled      *)
(* ("undefined").                                                          *)
(*                                                                         *)
(* The firmware is modelled by its memory: each page has a type, and a     *)
(* descriptor of the firmware's memory map is a longest run of pages of    *)
(* one type.  While boot services run, the firmware may allocate and free  *)
(* pages of its own, for itself or for its runtime services, at most       *)
(* MaxEvents times; if exit_bs fails they still run beside the kernel.     *)
(***************************************************************************)
EXTENDS ELF, FiniteSets

CONSTANTS InitialMemory,       \* page -> type, when the loader starts
          PageSize,            \* PAGE_SIZE (4096 in the code)
          Sizes,               \* bytes of each block whose size the loader does not compute
          Kernels,             \* the program headers a kernel file may have
          XSDP_FIRST_PART_SIZE,\* 8 in the code
          XSDPs,               \* the ACPI root pointers a machine may have
          GarbageMaps,         \* what a buffer that was never filled may look like
          MaxEvents            \* bound on the firmware's own allocations

Blocks == {"info", "kernelFile", "kernel", "stack", "root", "memMap"}

MemTypes == {"Conventional", "BootServicesCode", "BootServicesData", "LoaderCode",
             "LoaderData", "RuntimeServicesData", "Persistent", "Unaccepted"}

Pages == DOMAIN InitialMemory

MemoryEntries == [begin : Pages, last : Pages, available : BOOLEAN]

ASSUME LoaderAssumption ==
  /\ IsFiniteSet(Pages)
  /\ Pages = 0..(Cardinality(Pages) - 1)
  /\ InitialMemory \in [Pages -> MemTypes]
  /\ PageSize \in Nat \ {0}
  /\ Sizes \in [Blocks \ {"kernel"} -> Nat \ {0}]
  /\ Kernels \subseteq Seq(ProgramHeaders)
  /\ GarbageMaps \subseteq SUBSET MemoryEntries
  /\ MaxEvents \in Nat

VARIABLES mem,        \* page -> type
          block,      \* the pages of each block the loader has allocated
          elf,        \* the program headers of the file that was read
          header,     \* the header that RetrieveELFInfo or LoadELF looks at
          size,       \* highestMem and lowestMem of RetrieveELFInfo
          image,      \* the bytes LoadELF wrote, by their offset in the kernel's block
          count,      \* root->MemoryMapEntryCount
          entries,    \* what the written entries of root->MemoryMap say
          written,    \* the number of entries that were written
          status,     \* the result of the second GetMemoryMap
          expected,   \* descriptors the buffer of RecoverMemoryMap has room for
          events,     \* the firmware's own allocations so far
          raced,      \* history: one fell between the two calls of GetMemoryMap
          late,       \* history: the pages it changed after the second one
          bootServices, \* boot services still run
          pc          \* the next step of main, or how it ended

loading == <<elf, header, size, image>>
recovered == <<entries, written, status>>
firmware == <<events, raced, late, bootServices>>
vars == <<mem, block, loading, count, recovered, expected, firmware, pc>>

-----------------------------------------------------------------------------
(* The firmware.                                                           *)

Begins(b) == b - 1 \in Pages => mem[b - 1] # mem[b]

LastOfRun(b) ==
  CHOOSE e \in Pages : /\ b <= e
                       /\ \A g \in b..e : mem[g] = mem[b]
                       /\ e + 1 \in Pages => mem[e + 1] # mem[b]

\* The firmware's memory map: first page, last page and type of each longest run.
Descriptors ==
  {[begin |-> b, last |-> LastOfRun(b), type |-> mem[b]] : b \in {b \in Pages : Begins(b)}}

SetType(S, type) == mem' = [g \in Pages |-> IF g \in S THEN type ELSE mem[g]]

\* The runs of free pages that AllocatePages may return.
FreeRuns(n) ==
  {S \in {b..(b + n - 1) : b \in Pages} :
     S \subseteq Pages /\ \A g \in S : mem[g] = "Conventional"}

\* Firmware code that runs between the loader's steps takes or returns a page.
FirmwareEvent ==
  /\ bootServices
  /\ pc \notin {"ended", "undefined"}
  /\ events < MaxEvents
  /\ \E g \in Pages, type \in {"BootServicesData", "RuntimeServicesData"} :
       /\ \/ mem[g] = "Conventional" /\ SetType({g}, type)
          \/ /\ mem[g] = type /\ \A b \in Blocks : g \notin block[b]
             /\ SetType({g}, "Conventional")
       /\ late' = IF status = "none" THEN late ELSE late \cup {g}
  /\ events' = events + 1
  /\ raced' = (raced \/ pc = "recover")
  /\ UNCHANGED <<block, loading, count, recovered, expected, bootServices, pc>>

-----------------------------------------------------------------------------
(* main.                                                                   *)

Init ==
  /\ mem = InitialMemory
  /\ block = [b \in Blocks |-> {}]
  /\ elf = <<>>
  /\ header = 1
  /\ size = NothingMeasured
  /\ image = [o \in {} |-> ZeroByte]
  /\ count = 0
  /\ entries = {}
  /\ written = 0
  /\ status = "none"
  /\ expected = 0
  /\ events = 0
  /\ raced = FALSE
  /\ late = {}
  /\ bootServices = TRUE
  /\ pc = "open"

At(from, to) == pc = from /\ pc' = to

PagesFor(bytes) == bytes \div PageSize + (IF bytes % PageSize # 0 THEN 1 ELSE 0)

\* Mutant of AllocateBytes: kernel data in memory of the boot services.
AllocateBytesOfBootServices(b, bytes) ==
  \E S \in FreeRuns(PagesFor(bytes)) :
    /\ SetType(S, "BootServicesData")
    /\ block' = [block EXCEPT ![b] = S]

\* AllocateBytes: memory for the kernel to keep.
AllocateBytes(b, bytes) ==
  \E S \in FreeRuns(PagesFor(bytes)) :
    /\ SetType(S, "LoaderData")
    /\ block' = [block EXCEPT ![b] = S]

\* Mutant of AllocateLoaderBytes: the loader's own buffers look like kernel data.
AllocateLoaderBytesForKernel(b, bytes) ==
  \E S \in FreeRuns(PagesFor(bytes)) :
    /\ SetType(S, "LoaderData")
    /\ block' = [block EXCEPT ![b] = S]

\* AllocateLoaderBytes: memory the kernel may reuse.
AllocateLoaderBytes(b, bytes) ==
  \E S \in FreeRuns(PagesFor(bytes)) :
    /\ SetType(S, "BootServicesData")
    /\ block' = [block EXCEPT ![b] = S]

\* DownloadFileToMemory: without a file system protocol or a volume there is no
\* file handle; a file that cannot be opened ends the loader.
OpenFile ==
  /\ pc = "open"
  /\ pc' \in {"info", "ended", "undefined"}
  /\ UNCHANGED <<mem, block, loading, count, recovered, expected, firmware>>

\* The buffer for the file's information, freed when the size is known.
GetFileInfo ==
  /\ At("info", "size")
  /\ AllocateLoaderBytes("info", Sizes["info"])
  /\ UNCHANGED <<loading, count, recovered, expected, firmware>>

FreeFileInfo ==
  /\ At("size", "read")
  /\ SetType(block["info"], "Conventional")
  /\ block' = [block EXCEPT !["info"] = {}]
  /\ UNCHANGED <<loading, count, recovered, expected, firmware>>

ReadFile ==
  /\ At("read", "validate")
  /\ AllocateLoaderBytes("kernelFile", Sizes["kernelFile"])
  /\ elf' \in Kernels
  /\ UNCHANGED <<header, size, image, count, recovered, expected, firmware>>

ValidateELF ==
  /\ pc = "validate"
  /\ pc' \in {"measure", "ended"}
  /\ UNCHANGED <<mem, block, loading, count, recovered, expected, firmware>>

\* The do-while loops over the program headers take a step per header.
NextHeader(from, to) ==
  /\ pc = from
  /\ elf # <<>>
  /\ IF header < Len(elf)
     THEN header' = header + 1 /\ UNCHANGED pc
     ELSE header' = 1 /\ pc' = to

RetrieveELFInfo ==
  /\ NextHeader("measure", "load")
  /\ size' = MeasureHeader(size, elf[header])
  /\ UNCHANGED <<mem, block, elf, image, count, recovered, expected, firmware>>

\* Without program headers the loop reads one all the same, and the unsigned
\* count wraps.
RetrieveELFInfoWithoutHeaders ==
  /\ At("measure", "undefined")
  /\ elf = <<>>
  /\ UNCHANGED <<mem, block, loading, count, recovered, expected, firmware>>

AllocateKernel ==
  /\ At("load", "copy")
  /\ AllocateBytes("kernel", ExecutiveSize(size))
  /\ UNCHANGED <<loading, count, recovered, expected, firmware>>

LoadELF ==
  /\ NextHeader("copy", "stack")
  /\ image' = LoadHeader(image, elf[header], size.low)
  /\ UNCHANGED <<mem, block, elf, size, count, recovered, expected, firmware>>

\* The result is not looked at: the stack may be NULL.
AllocateStack ==
  /\ At("stack", "root")
  /\ \/ AllocateBytes("stack", Sizes["stack"])
     \/ UNCHANGED <<mem, block>>
  /\ UNCHANGED <<loading, count, recovered, expected, firmware>>

\* Mutant of FormRootTable: later allocations are not accounted for.
FormRootTableWithoutMargin ==
  /\ At("root", "video")
  /\ count' = Cardinality(Descriptors)
  /\ AllocateBytes("root", Sizes["root"])
  /\ UNCHANGED <<loading, recovered, expected, firmware>>

\* FormRootTable: the entry count is the number of descriptors, plus 6.
FormRootTable ==
  /\ At("root", "video")
  /\ count' = Cardinality(Descriptors) + 6
  /\ AllocateBytes("root", Sizes["root"])
  /\ UNCHANGED <<loading, recovered, expected, firmware>>

\* An allocation fails: checked for the kernel and in RecoverMemoryMap, for the
\* file only after Read was called with it, and not at all for the file's
\* information and the RootTable.
AllocationFails ==
  /\ \/ pc \in {"read", "load", "query"} /\ pc' = "ended"
     \/ pc \in {"info", "read", "root"} /\ pc' = "undefined"
  /\ UNCHANGED <<mem, block, loading, count, recovered, expected, firmware>>

RecoverVideoMode ==
  /\ pc = "video"
  /\ pc' \in {"acpi", "ended"}
  /\ UNCHANGED <<mem, block, loading, count, recovered, expected, firmware>>

\* The sum modulo 256 of the first n bytes of an ACPI root pointer.  The first
\* eight are "RSD PTR ", if the signature is right.
Checksum(x, n) == IF n = 8 THEN 543 % 256 ELSE x.sum[n]

\* RecoverACPITable accepts x: both loops start at the first byte.
IsValidXSDP(x) ==
  /\ x.signature
  /\ x.revision = 2
  /\ Checksum(x, XSDP_FIRST_PART_SIZE) = 0
  /\ Checksum(x, 36 - XSDP_FIRST_PART_SIZE) = 0

RecoverACPITable(x) ==
  /\ pc = "acpi"
  /\ pc' = IF IsValidXSDP(x) THEN "query" ELSE "ended"
  /\ UNCHANGED <<mem, block, loading, count, recovered, expected, firmware>>

\* The firmware has no ACPI 2.0 table.
NoACPITable ==
  /\ At("acpi", "ended")
  /\ UNCHANGED <<mem, block, loading, count, recovered, expected, firmware>>

\* Mutant of QueryMemoryMap: the buffer has no room for its own allocation.
QueryMemoryMapWithoutMargin ==
  /\ At("query", "recover")
  /\ expected' = Cardinality(Descriptors)
  /\ AllocateLoaderBytes("memMap", Sizes["memMap"])
  /\ UNCHANGED <<loading, count, recovered, firmware>>

\* RecoverMemoryMap asks for the size and allocates a buffer for three more ...
QueryMemoryMap ==
  /\ At("query", "recover")
  /\ expected' = Cardinality(Descriptors) + 3
  /\ AllocateLoaderBytes("memMap", Sizes["memMap"])
  /\ UNCHANGED <<loading, count, recovered, firmware>>

IsAvailableMemoryType(type) ==
  type \in {"BootServicesCode", "LoaderCode", "BootServicesData", "Conventional",
           "Persistent", "Unaccepted"}

\* Mutant of Map: an entry reaches one page too far.
MapTooLong == {[begin |-> d.begin, last |-> d.last + 1,
                available |-> IsAvailableMemoryType(d.type)] : d \in Descriptors}

\* The map as the kernel gets it.
Map == {[begin |-> d.begin, last |-> d.last, available |-> IsAvailableMemoryType(d.type)] :
          d \in Descriptors}

\* ... gets the map and copies it; the status of the second call is not looked
\* at: if the map has outgrown the buffer nothing is filled in, and as many
\* entries as the firmware says it needs are copied from what lies there ...
RecoverMemoryMap ==
  /\ At("recover", "free")
  /\ written' = Cardinality(Descriptors)
  /\ \/ written' <= expected /\ status' = "success" /\ entries' = Map
     \/ written' > expected /\ status' = "tooSmall" /\ entries' \in GarbageMaps
  /\ UNCHANGED <<mem, block, loading, count, expected, firmware>>

\* ... and frees the buffer.
FreeMemoryMap ==
  /\ At("free", "exit")
  /\ SetType(block["memMap"], "Conventional")
  /\ block' = [block EXCEPT !["memMap"] = {}]
  /\ UNCHANGED <<loading, count, recovered, expected, firmware>>

\* exit_bs, whose result is not looked at, then KernelEntry on the firmware's stack.
EnterKernel ==
  /\ At("exit", "kernel")
  /\ bootServices' \in BOOLEAN
  /\ UNCHANGED <<mem, block, loading, count, recovered, expected, events, raced, late>>

\* KernelEntry has returned and is called again on the allocated stack.
EnterKernelOnStack ==
  /\ At("kernel", "kernelOnStack")
  /\ UNCHANGED <<mem, block, loading, count, recovered, expected, firmware>>

Main ==
  \/ OpenFile \/ GetFileInfo \/ FreeFileInfo \/ ReadFile \/ ValidateELF
  \/ RetrieveELFInfo \/ RetrieveELFInfoWithoutHeaders \/ AllocateKernel \/ LoadELF
  \/ AllocateStack \/ FormRootTable \/ AllocationFails \/ RecoverVideoMode
  \/ (\E x \in XSDPs : RecoverACPITable(x)) \/ NoACPITable \/ QueryMemoryMap \/ RecoverMemoryMap \/ FreeMemoryMap
  \/ EnterKernel \/ EnterKernelOnStack

Next == Main \/ FirmwareEvent

Spec == Init /\ [][Next]_vars

\* A machine on which the firmware does what it is asked: no allocation fails,
\* the file, the kernel and the video mode are fine, there is an ACPI table.
HealthyStep ==
  /\ Main
  /\ ~AllocationFails
  /\ pc \in {"open", "validate", "video"} => pc' \notin {"ended", "undefined"}
  /\ pc = "acpi" => \E x \in XSDPs : RecoverACPITable(x)

HealthySpec == Init /\ [][HealthyStep]_vars /\ WF_vars(HealthyStep)

-----------------------------------------------------------------------------
(* Properties.                                                             *)

InKernel == pc \in {"kernel", "kernelOnStack"}

\* The type of the state.
TypeOK ==
  /\ mem \in [Pages -> MemTypes]
  /\ block \in [Blocks -> SUBSET Pages]
  /\ elf \in Kernels \cup {<<>>}
  /\ header \in Nat \ {0}
  /\ size \in [high : 0..(AddressSpace - 1), low : 0..(AddressSpace - 1)]
  /\ image \in [DOMAIN image -> {"file", "zero"} \X Nat]
  /\ count \in Nat /\ expected \in Nat
  /\ entries \subseteq MemoryEntries /\ written \in Nat
  /\ status \in {"none", "success", "tooSmall"}
  /\ events \in 0..MaxEvents /\ late \subseteq Pages
  /\ raced \in BOOLEAN /\ bootServices \in BOOLEAN
  /\ pc \in {"open", "info", "size", "read", "validate", "measure", "load", "copy", "stack", "root",
             "video", "acpi", "query", "recover", "free", "exit", "kernel", "kernelOnStack", "ended", "undefined"}

\* LoadELF writes into the kernel's pages only, which AllocateBytes got for the
\* size that another loop over the same headers measured, in whatever order
\* the headers are and whatever lies between the segments.
LoadStaysInside ==
  DOMAIN image \subseteq 0..(Cardinality(block["kernel"]) * PageSize - 1)

\* When the kernel is entered every PT_LOAD segment is in memory at its distance
\* from the lowest one, its first sizeInFile bytes from the file and the others
\* zero.
SegmentsLoaded ==
  InKernel =>
    \A i, low \in DOMAIN elf :
      /\ elf[i].load /\ elf[low].load
      /\ \A j \in DOMAIN elf : elf[j].load => elf[low].vAddr <= elf[j].vAddr
      => \A k \in 0..(elf[i].sizeInMemory - 1) :
           /\ elf[i].vAddr - elf[low].vAddr + k \in DOMAIN image
           /\ image[elf[i].vAddr - elf[low].vAddr + k] =
                IF k < elf[i].sizeInFile THEN FileByte(elf[i].dataOffset + k) ELSE ZeroByte

Listed(g) == \E e \in entries : g \in e.begin .. e.last /\ e.available

\* The available entries hold nothing of the kernel's image, its stack and the
\* RootTable.
KernelUnlisted == \A b \in {"kernel", "stack", "root"} : \A g \in block[b] : ~Listed(g)

\* If the firmware filled the map in, the kernel's own memory is in no entry that
\* it may allocate from, wherever the firmware put it and whatever the firmware
\* allocated and freed before, in between and afterwards.
KernelMemoryReserved == InKernel /\ status = "success" => KernelUnlisted

\* Outside of S the entries list the memory the kernel may use, and nothing else.
ListsAvailable(S) == \A g \in Pages \ S : Listed(g) <=> IsAvailableMemoryType(mem[g])

\* The map is a snapshot taken before the loader's last change of the memory, and
\* before exit_bs, which may fail; if the firmware filled it in, the kernel
\* finds it right for every page that the firmware itself has not changed since
\* (the loader's own buffers, freed after the snapshot, are in it).
MapIsCurrent == InKernel /\ status = "success" => ListsAvailable(late)

\* Three descriptors more than the map had are room enough for it after the
\* buffer itself is allocated ("allocation could split range into three",
\* loader.c:47): only a firmware allocation between the two calls can make the
\* unchecked second one fail.
BufferFits == status = "tooSmall" => raced

\* The array that FormRootTable reserved before the last allocations has room
\* for the entries written after them ("FormRootTable accounts for it's own
\* allocation and all allocations afterwards", loader.c:137), also when what is
\* written there is garbage.
EntriesFit == written <= count

\* On a healthy machine the kernel is entered.
HealthyMachineBoots == <>InKernel
=============================================================================
