----------------------------- MODULE ModuleLoader -----------------------------
(***************************************************************************)
(* From the memory map to a started program: MemoryManager::init as in     *)
(* PhysicalMemory, with the page table entries it sets, then               *)
(* Multiboot::loadModules and load of Elf.cpp, which maps the segments of  *)
(* each module and copies them out of its image.  loadModules runs in      *)
(* main; meanwhile other tasks take pages, write to them and give them     *)
(* back.  The tasks of modules use the kernel's page directory, so there   *)
(* is one page table for all.                                              *)
(*                                                                         *)
(* A byte of memory is the pair <<module, offset>> it was copied from.     *)
(* Where VirtualAllocate puts the pages of other tasks is left to          *)
(* MemoryManager: it keeps away from pages that are present.               *)
(***************************************************************************)
EXTENDS PhysicalMemory

CONSTANTS
    Files,       \* for each memory map, the contents the modules may have
    FieldLimit,  \* 2^16: m_filesz is a 16 bit field
    StackPages,  \* TASK_STACK_SIZE in pages
    Absent       \* an entry that is not present

\* A file: the verdict of verifyElfHeader, the program headers, and the offset
\* of the first one's m_vaddr, a field that stands in one byte here; the next
\* headers' fields follow.
Segment == [offset : Nat, vaddr : Nat, filesz : Nat]
File == [valid : BOOLEAN, segments : Seq(Segment), phoff : Nat]

ModuleSize(m) == Modules[m].modEnd - Modules[m].modStart

\* The pages of a module's image.
Image(m) == {PageOf(Modules[m].modStart + k) : k \in 0 .. ModuleSize(m) - 1}

\* The boot loader puts the modules apart, into the address space and not below
\* the kernel.
ASSUME ImageAssumption ==
    /\ \A m \in 1 .. Len(Modules) :
           __start <= Modules[m].modStart /\ Modules[m].modEnd <= AddressSpace
    /\ \A m, n \in 1 .. Len(Modules) : m # n =>
           Modules[m].modEnd <= Modules[n].modStart \/ Modules[n].modEnd <= Modules[m].modStart

\* Headers and segments lie inside the file, and no segment is linked for the
\* place of the file's own image, where load goes on reading headers.
ASSUME FileAssumption ==
    /\ \A map_ \in Maps : Files[map_] \subseteq [1 .. Len(Modules) -> File]
    /\ \A map_ \in Maps : \A file \in Files[map_] : \A m \in 1 .. Len(Modules) :
           /\ file[m].phoff + Len(file[m].segments) <= ModuleSize(m)
           /\ \A i \in 1 .. Len(file[m].segments) :
                  LET seg == file[m].segments[i]
                      size == seg.filesz % FieldLimit
                  IN  /\ seg.offset + size <= ModuleSize(m)
                      /\ Image(m) \cap Pages(PageOf(seg.vaddr), NumPagesOf(size)) = {}
    /\ FieldLimit \in Nat \ {0} /\ StackPages \in Nat \ {0} /\ Absent \notin Nat

\* The largest segment is no longer than the memory below the kernel.
ASSUME LimitAssumption == FieldLimit <= __start

VARIABLES
    kernelPageTable,
    memory,   \* the contents of physical memory, by address
    files,    \* the contents of the modules
    mod, sec, \* the module and the program header the loops are at
    loaded,   \* the modules whose task was started
    mishap    \* history: a present page was mapped to another frame ("clash"),
              \* physical memory ran out, the copy touched an absent page

loaderVars == <<kernelPageTable, memory, files, mod, sec, loaded, mishap>>
allVars == <<vars, loaderVars>>

Byte == 0 .. AddressSpace - 1
Other == <<0, 0>>
Rounded == <<0, 1>>   \* an m_vaddr that load has changed

\* What the boot loader left in memory.
Placed(b) ==
    LET holding == {m \in 1 .. Len(Modules) : Modules[m].modStart <= b /\ b < Modules[m].modEnd}
    IN  IF holding = {} THEN Other
        ELSE LET m == CHOOSE m \in holding : TRUE IN <<m, b - Modules[m].modStart>>

LoaderInit ==
    /\ Init
    /\ kernelPageTable = [v \in Page |-> Absent]
    /\ memory = [b \in Byte |-> Placed(b)]
    /\ files \in Files[map]
    /\ mod = 1 /\ sec = 0 /\ loaded = {} /\ mishap = {}

-----------------------------------------------------------------------------
(* VirtualMap on the tables of the kernel.                                 *)
VirtualMap(table, v, p, n) ==
    [w \in Page |-> LET i == (w + NumPages - v) % NumPages
                    IN  IF i < n THEN (p + i) % NumPages ELSE table[w]]

\* The virtual side of identityMap(address, size).
identityMap(table, address, size) ==
    VirtualMap(table, PageOf(address), PageOf(address), PAGE_ALIGN(size) \div PAGE_SIZE)

Clash(table) ==
    IF \E v \in Page : kernelPageTable[v] \notin {Absent, table[v]} THEN {"clash"} ELSE {}

(* init, with the page tables.                                             *)
BootMap ==
    /\ \/ (LoadEntry \/ LoadEnd \/ reserveEnd) /\ UNCHANGED kernelPageTable
       \/ mapKernelMemory /\ kernelPageTable' =
              identityMap(kernelPageTable, __start - (__start % PAGE_SIZE), KernelSize)
       \/ mapLowMemory /\ kernelPageTable' = identityMap(kernelPageTable, 0, __start)
       \/ reserveModule /\ kernelPageTable' =
              identityMap(kernelPageTable, Modules[index].modStart, ModuleSize(index))
    /\ UNCHANGED <<memory, files, mod, sec, loaded, mishap>>

Overwrite(pages) ==
    memory' = [b \in Byte |-> IF PageOf(b) \in pages THEN Other ELSE memory[b]]

(* Another task takes pages and writes to them, or gives them back.        *)
OtherTask ==
    /\ \/ \E numPages \in Requests :
              /\ Allocate(numPages)
              /\ Overwrite(memManData'.used \ memManData.used)
       \/ (\E grant \in grants : Free(grant)) /\ UNCHANGED memory
    /\ UNCHANGED <<kernelPageTable, files, mod, sec, loaded, mishap>>

-----------------------------------------------------------------------------
(* loadModules at the next module: it maps the image again; load checks    *)
(* the header and creates a task, whose new stack is cleared.              *)
LoadModule ==
    LET module == Modules[mod]
        mapped == Identity(memManData, module.modStart, ModuleSize(mod))
        table  == identityMap(kernelPageTable, module.modStart, ModuleSize(mod))
    IN  /\ pc = "up" /\ mod <= Len(Modules) /\ sec = 0
        /\ kernelPageTable' = table
        /\ mishap' = mishap \cup Clash(table)
        /\ IF files[mod].valid
           THEN /\ memManData' = physicalAllocate(mapped, StackPages)
                /\ Overwrite(memManData'.used \ mapped.used)
                /\ sec' = 1 /\ UNCHANGED mod
           ELSE memManData' = mapped /\ mod' = mod + 1 /\ UNCHANGED <<memory, sec>>
        /\ UNCHANGED <<map, index, total, pc, grants, failed, files, loaded>>

\* The physical address behind a virtual one.
Translate(table, address) ==
    table[PageOf(address)] * PAGE_SIZE + (address % PAGE_SIZE)

(* Libk::memcpy through the page table.                                    *)
Copy(contents, table, to, from, size) ==
    IF \E k \in 0 .. size - 1 : table[PageOf(to + k)] = Absent
    THEN contents
    ELSE [b \in Byte |->
             LET hit == {k \in 0 .. size - 1 : Translate(table, to + k) = b}
             IN  IF hit = {} THEN contents[b]
                 ELSE contents[Translate(table, from + (CHOOSE k \in hit : TRUE))]]

\* load rounds m_vaddr down in the image itself.
FieldOf(m, i) == Modules[m].modStart + files[m].phoff + i - 1

RoundHeader ==
    IF files[mod].segments[sec].vaddr % PAGE_SIZE = 0 THEN memory
    ELSE [memory EXCEPT ![Translate(kernelPageTable, FieldOf(mod, sec))] = Rounded]

Faults(table, to, size) ==
    IF \E k \in 0 .. size - 1 : table[PageOf(to + k)] = Absent THEN {"fault"} ELSE {}

\* One program header: its pages are mapped at the address rounded down, and
\* n pages and size bytes of the file from offset on are copied there.
MapAndCopy(vaddr, offset, size, n) ==
    LET page  == FirstPlace(memManData, n)
        table == VirtualMap(kernelPageTable, PageOf(vaddr), page, n)
    IN  /\ memManData' = physicalAllocate(memManData, n)
        /\ kernelPageTable' = table
        /\ memory' = Copy(RoundHeader, table, vaddr, Modules[mod].modStart + offset, size)
        /\ mishap' = mishap \cup Clash(table) \cup Faults(table, vaddr, size)
                     \cup (IF n > 0 /\ page = 0 THEN {"exhausted"} ELSE {})

AtSegment == pc = "up" /\ mod <= Len(Modules) /\ sec \in 1 .. Len(files[mod].segments)

NextSegment ==
    /\ sec' = sec + 1
    /\ UNCHANGED <<map, index, total, pc, grants, failed, files, mod, loaded>>

\* Mutant: the segment is taken from the start of the file.
LoadSegment_NoOffset ==
    /\ AtSegment
    /\ LET seg  == files[mod].segments[sec]
           size == seg.filesz % FieldLimit
       IN  MapAndCopy(seg.vaddr - (seg.vaddr % PAGE_SIZE), 0, size, NumPagesOf(size))
    /\ NextSegment

\* Mutant: the address is rounded down for the map and not for the copy.
LoadSegment_Unrounded ==
    /\ AtSegment
    /\ LET seg  == files[mod].segments[sec]
           size == seg.filesz % FieldLimit
       IN  MapAndCopy(seg.vaddr, seg.offset, size, NumPagesOf(size))
    /\ NextSegment

LoadSegment ==
    /\ AtSegment
    /\ LET seg  == files[mod].segments[sec]
           size == seg.filesz % FieldLimit
       IN  MapAndCopy(seg.vaddr - (seg.vaddr % PAGE_SIZE), seg.offset, size, NumPagesOf(size))
    /\ NextSegment

(* The end of load: the task starts, and the loop goes to the next module. *)
LoadEndModule ==
    /\ pc = "up" /\ mod <= Len(Modules) /\ sec > Len(files[mod].segments) /\ sec > 0
    /\ loaded' = loaded \cup {mod}
    /\ mod' = mod + 1 /\ sec' = 0
    /\ UNCHANGED <<vars, kernelPageTable, memory, files, mishap>>

LoaderNext == BootMap \/ OtherTask \/ LoadModule \/ LoadSegment \/ LoadEndModule

LoaderSpec == LoaderInit /\ [][LoaderNext]_allVars

-----------------------------------------------------------------------------
Linked(m) == {files[m].segments[i] : i \in 1 .. Len(files[m].segments)}

\* The offsets in a file that load changes.
Unaligned(m) == {files[m].phoff + i - 1 :
                    i \in {i \in 1 .. Len(files[m].segments) : files[m].segments[i].vaddr % PAGE_SIZE # 0}}

(* load: a program that was started finds every byte of its file at the    *)
(* address it was linked for, while later modules are loaded and other     *)
(* tasks use memory; only the addresses that load has rounded in the       *)
(* headers differ.  It holds for segments that start a page and are below  *)
(* 64 KiB, and as long as no page is mapped over another one.              *)
LoadedAsLinked ==
    mishap = {} =>
        \A m \in loaded : \A seg \in Linked(m) :
            seg.vaddr % PAGE_SIZE = 0 /\ seg.filesz < FieldLimit =>
                \A k \in 0 .. seg.filesz - 1 :
                    \/ memory[Translate(kernelPageTable, seg.vaddr + k)] = <<m, seg.offset + k>>
                    \/ seg.offset + k \in Unaligned(m)

(* memoryMap and memcpy in load, whatever the program headers say: a copy  *)
(* stays inside the pages mapped for it and changes only frames that were  *)
(* free; beside it load changes its own header.  When memory has run out   *)
(* the copy goes to the frames from 0 on, and no further than the kernel.  *)
CopyStaysInside ==
    [][/\ "fault" \notin mishap'
       /\ \A b \in Byte : memory'[b] # memory[b] =>
              \/ PageOf(b) \notin memManData.used
              \/ sec > 0 /\ b = FieldOf(mod, sec)
              \/ "exhausted" \in mishap' /\ b < __start]_allVars

(* reserveModuleMemory and loadModules: from boot on, nothing overwrites   *)
(* the images of the modules but load, which rounds addresses in their     *)
(* headers: neither the loading of a module before them nor the tasks that *)
(* run meanwhile.                                                          *)
ImagesIntact ==
    \A m \in 1 .. Len(Modules) : \A k \in 0 .. ModuleSize(m) - 1 :
        memory[Modules[m].modStart + k] = <<m, k>> \/ k \in Unaligned(m)
===============================================================================
