---------------------------- MODULE MCModuleLoader ----------------------------
(* Instances of ModuleLoader for TLC: 24 pages of 4 bytes, a kernel at     *)
(* byte 8, modules at bytes 20 and 28 that fill a page and a half each.    *)
EXTENDS ModuleLoader, TLC

MCModules == <<[modStart |-> 20, modEnd |-> 26], [modStart |-> 28, modEnd |-> 34]>>

Region(type, address, length) ==
    [type |-> type, address |-> address, length |-> length]

RegionMap(type, address, length, tail) ==
    <<Region(1, 0, 6), Region(2, 6, 2), Region(type, address, length),
      Region(1, address + length, tail)>>

\* Low memory up to byte 6, a hole, then one region of any place and size and
\* a last one behind it.  A region that starts inside a page fills a page.
GoodMaps ==
    {RegionMap(type, address, length, tail) :
        type \in {1, 2}, address \in 8 .. 12, length \in 4 .. 31, tail \in {4, 25}}

Seg(offset, vaddr, filesz) == [offset |-> offset, vaddr |-> vaddr, filesz |-> filesz]
Elf(phoff, segments) == [valid |-> TRUE, segments |-> segments, phoff |-> phoff]
NotElf == [valid |-> FALSE, segments |-> <<>>, phoff |-> 0]

\* Two aligned segments; one; one that is not aligned and one that is, with the
\* headers in both; two segments in one page, one of them beyond the 16 bits;
\* one over the image of the other module.
Shapes == {Elf(0, <<Seg(0, 64, 5), Seg(2, 72, 3)>>), Elf(0, <<Seg(1, 76, 4)>>),
           Elf(1, <<Seg(0, 67, 6), Seg(0, 80, 4)>>), Elf(4, <<Seg(0, 76, 2), Seg(3, 78, 10)>>),
           NotElf}
Over == Elf(0, <<Seg(0, 28, 6)>>)

\* Every pair of files with one of the maps, no programs with the others.
MCFiles ==
    [m \in GoodMaps |-> IF m = RegionMap(1, 9, 31, 25)
                        THEN {<<f, g>> : f \in Shapes \cup {Over}, g \in Shapes}
                        ELSE {<<NotElf, NotElf>>}]
===============================================================================
