----------------------------- MODULE ProcessMemory -----------------------------
(***************************************************************************)
(* How the unwinder reads memory (unwindstack/Memory.cpp): system calls    *)
(* split at page boundaries, the page cache in front of them, strings,     *)
(* ranges stitched together into the image of an ELF file, and a part of a *)
(* file mapped from an offset that need not be a page's.                   *)
(*                                                                         *)
(* A world is [pages, zeros]: the pages that can be read, and the          *)
(* addresses that hold 0.  Any other byte is its own address, so that a    *)
(* reader that mixes up places is seen.                                    *)
(***************************************************************************)
EXTENDS Integers, Sequences, FiniteSets, SequencesExt, FiniteSetsExt

CONSTANTS
    PageSize,    \* of the system
    CachePage,   \* kCacheSize
    CacheLimit,  \* the longest read that looks at the cache
    StringBlock, \* sizeof(buffer) in ReadString
    MaxIovecs,   \* kMaxIovecs
    SizeSpace    \* 2^64

Byte(world, a) == IF a \in world.zeros THEN 0 ELSE a
Bytes(world, addr, n) == [i \in 1..n |-> Byte(world, addr + i - 1)]
Least(a, b) == IF a < b THEN a ELSE b

(* The page-wise pieces of a read, at most MaxIovecs of them. *)
RECURSIVE Iovecs(_, _, _)
Iovecs(addr, len, room) ==
    IF len = 0 \/ room = 0 THEN << >>
    ELSE LET n == Least(PageSize - (addr % PageSize), len)
         IN <<[base |-> addr, len |-> n]>> \o Iovecs(addr + n, len - n, room - 1)

(* process_vm_readv: the pieces before the first that cannot be read. *)
Transferred(world, iovecs) ==
    LET bad == {i \in 1..Len(iovecs) : iovecs[i].base \div PageSize \notin world.pages}
        upto == IF bad = {} THEN Len(iovecs) ELSE Min(bad) - 1
    IN FoldLeft(LAMBDA data, iov : data \o Bytes(world, iov.base, iov.len), << >>, SubSeq(iovecs, 1, upto))

RECURSIVE ProcessVmRead(_, _, _)
ProcessVmRead(world, addr, len) ==
    IF len = 0 THEN << >>
    ELSE LET iovecs == Iovecs(addr, len, MaxIovecs)
             asked == FoldLeft(LAMBDA n, iov : n + iov.len, 0, iovecs)
             data == Transferred(world, iovecs)
         IN IF data = << >> THEN << >> ELSE data \o ProcessVmRead(world, addr + asked, len - asked)

--------------------------------------------------------------------------------
(* A page of the cache, read when it is missing and dropped when it cannot be
   read whole. *)
Fetch(world, cache, page) ==
    IF page \in DOMAIN cache THEN cache
    ELSE LET data == ProcessVmRead(world, page * CachePage, CachePage)
         IN IF Len(data) # CachePage THEN cache
            ELSE [p \in DOMAIN cache \cup {page} |-> IF p = page THEN data ELSE cache[p]]

(* Slip: the part from the second page skips its first byte. *)
InternalCachedReadAgain(world, cache, addr, size) ==
    LET page == addr \div CachePage
        within == addr % CachePage
        room == CachePage - within
        once == Fetch(world, cache, page)
        twice == Fetch(world, once, page + 1)
        tail == IF page + 1 \in DOMAIN twice THEN SubSeq(twice[page + 1], 2, Least(size - room + 1, CachePage))
                ELSE ProcessVmRead(world, (page + 1) * CachePage, size - room)
    IN IF page \notin DOMAIN once THEN [data |-> ProcessVmRead(world, addr, size), cache |-> once]
       ELSE IF size <= room THEN [data |-> SubSeq(once[page], within + 1, within + size), cache |-> once]
       ELSE [data |-> SubSeq(once[page], within + 1, CachePage) \o tail, cache |-> twice]

InternalCachedRead(world, cache, addr, size) ==
    LET page == addr \div CachePage
        within == addr % CachePage
        room == CachePage - within
        once == Fetch(world, cache, page)
        twice == Fetch(world, once, page + 1)
        tail == IF page + 1 \in DOMAIN twice THEN SubSeq(twice[page + 1], 1, size - room)
                ELSE ProcessVmRead(world, (page + 1) * CachePage, size - room)
    IN IF page \notin DOMAIN once THEN [data |-> ProcessVmRead(world, addr, size), cache |-> once]
       ELSE IF size <= room THEN [data |-> SubSeq(once[page], within + 1, within + size), cache |-> once]
       ELSE [data |-> SubSeq(once[page], within + 1, CachePage) \o tail, cache |-> twice]

(* MemoryCacheBase::Read *)
CachedRead(world, cache, addr, size) ==
    IF size > CacheLimit THEN [data |-> ProcessVmRead(world, addr, size), cache |-> cache]
    ELSE InternalCachedRead(world, cache, addr, size)

--------------------------------------------------------------------------------
NoString == <<-1>>

(* Slip: a block that could not be read whole ends the search. *)
ReadStringWhole(world, addr, max_read) ==
    LET RECURSIVE From(_)
        From(offset) ==
            LET read == Least(StringBlock, max_read - offset)
                data == ProcessVmRead(world, addr + offset, read)
                ends == {i \in 1..Len(data) : data[i] = 0}
            IN IF offset >= max_read \/ Len(data) < read THEN NoString
               ELSE IF ends # {} THEN ProcessVmRead(world, addr, offset + Min(ends) - 1)
               ELSE From(offset + Len(data))
    IN From(0)

(* Memory::ReadString: block after block until the 0 is found. *)
ReadString(world, addr, max_read) ==
    LET RECURSIVE From(_)
        From(offset) ==
            LET data == ProcessVmRead(world, addr + offset, Least(StringBlock, max_read - offset))
                ends == {i \in 1..Len(data) : data[i] = 0}
                whole == ProcessVmRead(world, addr, offset + Min(ends) - 1)
            IN IF offset >= max_read \/ data = << >> THEN NoString
               ELSE IF ends = {} THEN From(offset + Len(data))
               ELSE IF Len(whole) = offset + Min(ends) - 1 THEN whole ELSE NoString
    IN From(0)

--------------------------------------------------------------------------------
(* MemoryRange [begin, length, offset] and MemoryRanges, keyed by their ends. *)
RangeRead(world, range, addr, size) ==
    LET read_offset == addr - range.offset
    IN IF addr < range.offset \/ read_offset >= range.length THEN << >>
       ELSE ProcessVmRead(world, range.begin + read_offset, Least(size, range.length - read_offset))

(* MemoryRanges::Insert: a range that ends where another does is dropped. *)
Insert(ranges, range) ==
    LET end == range.offset + range.length
    IN [e \in DOMAIN ranges \cup {end} |-> IF e \in DOMAIN ranges THEN ranges[e] ELSE range]

(* Slip: lower_bound for upper_bound. *)
RangesReadAtEnd(world, ranges, addr, size) ==
    LET ends == {e \in DOMAIN ranges : e >= addr}
    IN IF ends = {} THEN << >> ELSE RangeRead(world, ranges[Min(ends)], addr, size)

RangesRead(world, ranges, addr, size) ==
    LET ends == {e \in DOMAIN ranges : e > addr}
    IN IF ends = {} THEN << >> ELSE RangeRead(world, ranges[Min(ends)], addr, size)

--------------------------------------------------------------------------------
NoView == [base |-> 0, size |-> 0, ok |-> FALSE]

(* Slip: the part before the offset is not given back. *)
FileInitWide(st_size, offset, size) ==
    LET within == offset % PageSize
        rest == st_size - (offset - within)
        max == size + within
    IN IF offset >= st_size THEN NoView
       ELSE [base |-> offset, size |-> IF max < SizeSpace /\ max < rest THEN max ELSE rest, ok |-> TRUE]

(* MemoryFileAtOffset::Init: pages are mapped from the one with the offset. *)
FileInit(st_size, offset, size) ==
    LET within == offset % PageSize
        rest == st_size - (offset - within)
        max == size + within
        mapped == IF max < SizeSpace /\ max < rest THEN max ELSE rest
    IN IF offset >= st_size THEN NoView ELSE [base |-> offset, size |-> mapped - within, ok |-> TRUE]

FileRead(view, addr, size) ==
    IF addr >= view.size THEN << >>
    ELSE [i \in 1..Least(view.size - addr, size) |-> view.base + addr + i - 1]

--------------------------------------------------------------------------------
(* References. *)
ReadablePrefix(world, addr, size) ==
    LET holes == {i \in 0..size - 1 : (addr + i) \div PageSize \notin world.pages}
    IN Bytes(world, addr, IF holes = {} THEN size ELSE Min(holes))
StringAt(world, addr, max_read) ==
    LET data == ReadablePrefix(world, addr, max_read)
        ends == {i \in 1..Len(data) : data[i] = 0}
    IN IF ends = {} THEN NoString ELSE SubSeq(data, 1, Min(ends) - 1)
================================================================================
