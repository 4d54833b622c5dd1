-------------------------------- MODULE MapsList -------------------------------
(***************************************************************************)
(* The list of the process's maps (unwindstack/Maps.cpp): the binary       *)
(* search, and the second parse that merges what the kernel says now into  *)
(* the list without replacing the MapInfo objects that are still right,    *)
(* since other threads may hold them.                                      *)
(*                                                                         *)
(* A list is [heap, maps]: MapInfo objects by number, and maps_, the       *)
(* numbers in order; 0 is nullptr.  The kernel's file is [lines, whole]: a *)
(* line is [start, end, offset, flags, name], and whole is false when the  *)
(* reader gives up behind these lines.                                     *)
(***************************************************************************)
EXTENDS Integers, Sequences, FiniteSets, SequencesExt, FiniteSetsExt

Unmapped == 0
EmptyList == [heap |-> << >>, maps |-> << >>]

(* Maps::Find between places first and last, counted from 0. *)
RECURSIVE FindFrom(_, _, _, _)
FindFrom(list, pc, first, last) ==
    IF first >= last THEN Unmapped
    ELSE LET index == (first + last) \div 2
             cur == list.heap[list.maps[index + 1]]
         IN IF pc >= cur.start /\ pc < cur.end THEN list.maps[index + 1]
            ELSE IF pc < cur.start THEN FindFrom(list, pc, first, index)
            ELSE FindFrom(list, pc, index + 1, last)
Find(list, pc) == FindFrom(list, pc, 0, Len(list.maps))

(* Maps::Parse: a new object per line, behind those of the list, linked to the
   one before it.  A reader that gives up leaves those of the lines it gave. *)
Parse(list, lines) ==
    LET n == Len(list.heap)
        Object(i) == [start |-> lines[i].start, end |-> lines[i].end, offset |-> lines[i].offset,
                      flags |-> lines[i].flags, name |-> lines[i].name,
                      prev |-> IF i = 1 THEN 0 ELSE n + i - 1, next |-> IF i = Len(lines) THEN 0 ELSE n + i + 1]
    IN [heap |-> list.heap \o [i \in DOMAIN lines |-> Object(i)],
        maps |-> list.maps \o [i \in DOMAIN lines |-> n + i]]

(* What Reparse compares; the offset is not part of it. *)
SameMap(a, b) == a.start = b.start /\ a.end = b.end /\ a.flags = b.flags /\ a.name = b.name

(* Slip: the neighbours go on to point at the object that is dropped. *)
AdoptAlone(heap, old, new) ==
    [heap EXCEPT ![old].prev = heap[new].prev, ![old].next = heap[new].next]

(* The old object takes the place of the new one between its neighbours. *)
Adopt(heap, old, new) ==
    LET prev == heap[new].prev
        next == heap[new].next
    IN [id \in DOMAIN heap |->
          CASE id = old -> [heap[id] EXCEPT !.prev = prev, !.next = next]
            [] id = prev /\ id # old -> [heap[id] EXCEPT !.next = old]
            [] id = next /\ id # old -> [heap[id] EXCEPT !.prev = old]
            [] OTHER -> heap[id]]

(* The inner loop of Reparse: the old places from st.search on are looked at for
   the object at place new. *)
RECURSIVE MatchOld(_, _, _)
MatchOld(st, new, last) ==
    IF st.search > last THEN st
    ELSE LET info == st.heap[st.maps[st.search]]
             this == st.heap[st.maps[new]]
         IN IF SameMap(this, info)
            THEN [heap |-> Adopt(st.heap, st.maps[st.search], st.maps[new]),
                  maps |-> [st.maps EXCEPT ![new] = 0], search |-> st.search + 1]
            ELSE IF info.start > this.start THEN st
            ELSE MatchOld([st EXCEPT !.maps[st.search] = 0, !.search = @ + 1], new, last)

RECURSIVE MatchFrom(_, _, _)
MatchFrom(st, new, last) ==
    IF new > Len(st.maps) \/ st.search > last THEN st
    ELSE MatchFrom(MatchOld(st, new, last), new + 1, last)

(* The objects of the new lines that are not in the list already. *)
Merged(list, lines) ==
    LET last == Len(list.maps)
        parsed == Parse(list, lines)
        st == MatchFrom([heap |-> parsed.heap, maps |-> parsed.maps, search |-> 1], last + 1, last)
        left == {i \in DOMAIN st.maps : st.maps[i] # 0 /\ ~(i \in st.search..last)}
        kept == {st.maps[i] : i \in left}
    IN [heap |-> st.heap, maps |-> SetToSortSeq(kept, LAMBDA a, b : st.heap[a].start < st.heap[b].start)]

(* Slip: the lines of a file that was not read to its end stay in the list. *)
ReparseKeeps(list, file) ==
    IF file.whole THEN Merged(list, file.lines) ELSE Parse(list, file.lines)

(* LocalUpdatableMaps::Reparse: the list as it was if the file cannot be read. *)
Reparse(list, file) == IF file.whole THEN Merged(list, file.lines) ELSE list

(* LocalUpdatableMaps::Find: the file is read again only for a pc without map. *)
UpdatableFind(list, file, pc) ==
    LET again == Reparse(list, file)
    IN IF Find(list, pc) # Unmapped THEN [list |-> list, map |-> Find(list, pc)]
       ELSE [list |-> again, map |-> IF file.whole THEN Find(again, pc) ELSE Unmapped]

--------------------------------------------------------------------------------
(* References. *)
(* The list has a map for every line, in order, that differs in its offset at most. *)
FollowsFile(list, lines) ==
    /\ Len(list.maps) = Len(lines)
    /\ \A i \in DOMAIN lines : SameMap(list.heap[list.maps[i]], lines[i])
Linked(list) ==
    \A i \in DOMAIN list.maps :
        /\ list.heap[list.maps[i]].prev = IF i = 1 THEN 0 ELSE list.maps[i - 1]
        /\ list.heap[list.maps[i]].next = IF i = Len(list.maps) THEN 0 ELSE list.maps[i + 1]
(* The objects that stayed, with the offset they had. *)
Kept(before, after) ==
    \A i \in DOMAIN before.maps, j \in DOMAIN after.maps :
        SameMap(before.heap[before.maps[i]], after.heap[after.maps[j]])
        => /\ before.maps[i] = after.maps[j]
           /\ before.heap[before.maps[i]].offset = after.heap[after.maps[j]].offset
(* Every other map has the offset the kernel says. *)
Placed(before, after, lines) ==
    \A j \in DOMAIN after.maps :
        after.maps[j] \in Range(before.maps) \/ after.heap[after.maps[j]].offset = lines[j].offset
================================================================================
