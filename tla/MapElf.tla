--------------------------------- MODULE MapElf --------------------------------
(***************************************************************************)
(* Which ELF image a map of the process belongs to, and where in it the    *)
(* map starts (unwindstack/MapInfo.cpp, Elf.cpp).  The image is looked for *)
(* in the file, at the map's offset, at the file's start, at the offset of *)
(* the read-only map before it, and then in the process's memory.          *)
(*                                                                         *)
(* A world is [maps, elfs, st_size, readable, arch]: the maps in order,    *)
(* the images the file they are maps of holds, the file's size, whether it *)
(* can be opened, and the process's architecture.  A map is [start, end,   *)
(* offset, flags, name]; an image is [at, max, bias, arch], with max the   *)
(* size its section headers tell.  A memory object is [base, holds]: the   *)
(* place in the file of its first byte, and the places it can read.        *)
(***************************************************************************)
EXTENDS ProcessMemory

EhdrSize == 2    \* of an ELF header; a page is longer
NotSet == -1     \* UINT64_MAX, or no build id read yet
NoBuildID == -2  \* read, and empty

NoMemory == [base |-> 0, holds |-> {}]
NoElf == [id |-> 0, valid |-> FALSE, memory |-> NoMemory, bias |-> 0]
NoFields == [elf |-> NoElf, elf_offset |-> 0, elf_start_offset |-> 0, memory_backed |-> FALSE,
             load_bias |-> NotSet, build_id |-> NotSet]

IsBlank(map) == map.offset = 0 /\ map.flags = {} /\ map.name = ""
Size(map) == map.end - map.start

GetPrevRealMap(maps, i) ==
    LET real == {j \in 1..i - 1 : ~IsBlank(maps[j])}
    IN IF maps[i].name = "" \/ real = {} \/ maps[Max(real)].name # maps[i].name THEN 0 ELSE Max(real)
GetNextRealMap(maps, i) ==
    LET real == {j \in i + 1..Len(maps) : ~IsBlank(maps[j])}
    IN IF maps[i].name = "" \/ real = {} \/ maps[Min(real)].name # maps[i].name THEN 0 ELSE Min(real)

--------------------------------------------------------------------------------
(* The image whose header is at the start of a memory object. *)
Images(world, memory) ==
    {e \in world.elfs : e.at = memory.base /\ memory.base..memory.base + EhdrSize - 1 \subseteq memory.holds}
IsValidElf(world, memory) == Images(world, memory) # {}
ImageIn(world, memory) == CHOOSE e \in Images(world, memory) : TRUE
MaxSize(world, memory) == ImageIn(world, memory).max
ElfLoadBias(world, memory) == IF IsValidElf(world, memory) THEN ImageIn(world, memory).bias ELSE 0
(* The section headers, which lead to the build id, are at the end of an image. *)
ElfBuildID(world, memory) ==
    IF IsValidElf(world, memory) /\ MaxSize(world, memory) > 0 /\ memory.base + MaxSize(world, memory) - 1 \in memory.holds
    THEN ImageIn(world, memory).at ELSE NoBuildID

(* MemoryFileAtOffset::Init on the file of the maps. *)
FileMemory(world, offset, size) ==
    LET view == FileInit(world.st_size, offset, size)
    IN IF ~world.readable \/ ~view.ok THEN NoMemory
       ELSE [base |-> view.base, holds |-> view.base..view.base + view.size - 1]
WholeFile(world) == FileMemory(world, 0, SizeSpace - 1)

(* A MemoryRange over a map: what of the file is mapped there and can be read. *)
RangeOver(map) == [base |-> map.offset, holds |-> IF "r" \in map.flags THEN map.offset..map.offset + Size(map) - 1 ELSE {}]
(* Two of them; the second is dropped where both end at the same place. *)
SameEnd(first, second) == first.offset + Size(first) = second.offset + Size(second)
RangesOver(first, second) ==
    [base |-> first.offset,
     holds |-> RangeOver(first).holds \cup IF SameEnd(first, second) THEN {} ELSE RangeOver(second).holds]

--------------------------------------------------------------------------------
(* What a search for the memory of a map leaves: the object, and the map's fields. *)
Found(fields, memory) == [fields |-> fields, memory |-> memory]

ReadOnlyBefore(maps, i) ==
    LET prev == GetPrevRealMap(maps, i)
    IN IF prev # 0 /\ maps[prev].flags = {"r"} /\ maps[prev].offset < maps[i].offset THEN prev ELSE 0

(* Slip: the offset is that of the map, not of the map in the image. *)
InitFileMemoryFromPreviousReadOnlyMapAtFile(world, fields, i) ==
    LET maps == world.maps
        prev == ReadOnlyBefore(maps, i)
        map_size == maps[i].end - maps[prev].end
        memory == FileMemory(world, maps[prev].offset, map_size)
    IN IF prev = 0 \/ ~IsValidElf(world, memory) \/ MaxSize(world, memory) < map_size THEN Found(fields, NoMemory)
       ELSE Found([fields EXCEPT !.elf_offset = maps[i].offset, !.elf_start_offset = maps[prev].offset],
                  FileMemory(world, maps[prev].offset, MaxSize(world, memory)))

InitFileMemoryFromPreviousReadOnlyMap(world, fields, i) ==
    LET maps == world.maps
        prev == ReadOnlyBefore(maps, i)
        map_size == maps[i].end - maps[prev].end
        memory == FileMemory(world, maps[prev].offset, map_size)
    IN IF prev = 0 \/ ~IsValidElf(world, memory) \/ MaxSize(world, memory) < map_size THEN Found(fields, NoMemory)
       ELSE Found([fields EXCEPT !.elf_offset = maps[i].offset - maps[prev].offset,
                                 !.elf_start_offset = maps[prev].offset],
                  FileMemory(world, maps[prev].offset, MaxSize(world, memory)))

GetFileMemory(world, fields, i) ==
    LET map == world.maps[i]
        map_size == Max({Size(map), EhdrSize})
        here == FileMemory(world, map.offset, map_size)
        before == InitFileMemoryFromPreviousReadOnlyMap(world, fields, i)
    IN IF "device" \in map.flags THEN Found(fields, NoMemory)
       ELSE IF map.offset = 0 THEN Found(fields, WholeFile(world))
       ELSE IF here = NoMemory THEN Found(fields, NoMemory)
       ELSE IF IsValidElf(world, here)
            THEN Found([fields EXCEPT !.elf_start_offset = map.offset],
                       IF MaxSize(world, here) > map_size THEN FileMemory(world, map.offset, MaxSize(world, here)) ELSE here)
       ELSE IF IsValidElf(world, WholeFile(world)) THEN Found([fields EXCEPT !.elf_offset = map.offset], WholeFile(world))
       ELSE IF before.memory # NoMemory THEN before
       ELSE Found(fields, here)

(* The part of CreateMemory behind the file: the image as it is mapped. *)
MappedImage(world, fields, i) ==
    LET maps == world.maps
        map == maps[i]
        prev == GetPrevRealMap(maps, i)
        next == GetNextRealMap(maps, i)
        backed == [fields EXCEPT !.memory_backed = TRUE]
        after == [backed EXCEPT !.elf_offset = map.offset - maps[prev].offset, !.elf_start_offset = maps[prev].offset]
    IN IF IsValidElf(world, RangeOver(map))
       THEN Found([backed EXCEPT !.elf_start_offset = map.offset],
                  IF map.offset # 0 \/ next = 0 \/ map.offset >= maps[next].offset THEN RangeOver(map)
                  ELSE RangesOver(map, maps[next]))
       ELSE IF map.offset = 0 \/ prev = 0 \/ maps[prev].offset >= map.offset
            THEN Found([fields EXCEPT !.memory_backed = FALSE], NoMemory)
       ELSE Found(after, IF SameEnd(maps[prev], map) THEN NoMemory ELSE RangesOver(maps[prev], map))

CreateMemory(world, fields, i) ==
    LET map == world.maps[i]
        fresh == [fields EXCEPT !.elf_offset = 0]
        file == IF map.name = "" THEN Found(fresh, NoMemory) ELSE GetFileMemory(world, fresh, i)
    IN IF map.end <= map.start THEN Found(fields, NoMemory)
       ELSE IF "device" \in map.flags THEN Found(fresh, NoMemory)
       ELSE IF file.memory # NoMemory THEN file
       ELSE MappedImage(world, file.fields, i)

--------------------------------------------------------------------------------
(* Elf::Init, and Invalidate for another architecture. *)
NewElf(world, memory, id) ==
    LET valid == IsValidElf(world, memory)
    IN [id |-> id, valid |-> valid /\ ImageIn(world, memory).arch = world.arch, memory |-> memory,
        bias |-> ElfLoadBias(world, memory)]

(* Slip: an object the map before already has is not taken over. *)
ShareElfKeepsOwn(world, all, i) ==
    LET prev == ReadOnlyBefore(world.maps, i)
        mine == all[i]
    IN IF prev # 0 /\ all[prev].elf = NoElf
       THEN [all EXCEPT ![prev] = [@ EXCEPT !.elf = mine.elf, !.memory_backed = mine.memory_backed,
                                            !.elf_start_offset = mine.elf_start_offset,
                                            !.elf_offset = world.maps[prev].offset - mine.elf_start_offset]]
       ELSE all

(* One object for the read-only map and the map behind it. *)
ShareElf(world, all, i) ==
    LET prev == ReadOnlyBefore(world.maps, i)
        mine == all[i]
    IN IF prev = 0 THEN all
       ELSE IF all[prev].elf = NoElf
            THEN [all EXCEPT ![prev] = [@ EXCEPT !.elf = mine.elf, !.memory_backed = mine.memory_backed,
                                                 !.elf_start_offset = mine.elf_start_offset,
                                                 !.elf_offset = world.maps[prev].offset - mine.elf_start_offset]]
       ELSE IF all[prev].elf_start_offset = mine.elf_start_offset THEN [all EXCEPT ![i].elf = all[prev].elf]
       ELSE all

GetElf(world, all, i) ==
    LET found == CreateMemory(world, all[i], i)
        elf == NewElf(world, found.memory, i)
        made == [all EXCEPT ![i] = [found.fields EXCEPT !.elf = elf]]
    IN IF all[i].elf # NoElf THEN all
       ELSE IF elf.valid THEN ShareElf(world, made, i)
       ELSE [made EXCEPT ![i].elf_start_offset = world.maps[i].offset]

(* GetLoadBias(process_memory), which needs no Elf. *)
MapLoadBias(world, all, i) ==
    LET found == CreateMemory(world, all[i], i)
    IN IF all[i].load_bias # NotSet THEN all
       ELSE IF all[i].elf # NoElf THEN [all EXCEPT ![i].load_bias = IF all[i].elf.valid THEN all[i].elf.bias ELSE 0]
       ELSE [all EXCEPT ![i] = [found.fields EXCEPT !.load_bias = ElfLoadBias(world, found.memory)]]

(* GetBuildID: a build id is named by its image. *)
BuildID(world, all, i) ==
    LET found == GetFileMemory(world, all[i], i)
    IN IF all[i].build_id # NotSet THEN all
       ELSE IF all[i].elf # NoElf
            THEN [all EXCEPT ![i].build_id = IF all[i].elf.valid THEN ElfBuildID(world, all[i].elf.memory) ELSE NoBuildID]
       ELSE [all EXCEPT ![i] = [found.fields EXCEPT !.build_id = ElfBuildID(world, found.memory)]]

GetRelPc(world, all, i, pc) == (pc - world.maps[i].start) + all[i].elf.bias + all[i].elf_offset
================================================================================
