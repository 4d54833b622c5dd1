------------------------------ MODULE SymbolTable ------------------------------
(***************************************************************************)
(* Function names by address (unwindstack/Symbols.cpp): a binary search    *)
(* that trusts the symbol table's order first, a table of sorted indices   *)
(* once that trust has failed, and a cache of the symbols read, which also *)
(* narrows later searches.                                                 *)
(*                                                                         *)
(* A table is a sequence of [value, size, func], read up to `readable`     *)
(* entries; indices count from 0 as in the program.  A symbol's name is    *)
(* its index.                                                              *)
(***************************************************************************)
EXTENDS Integers, Sequences, FiniteSets, SequencesExt, FiniteSetsExt

NoTable == <<-1>>
(* symbols_, keyed by the end of the symbol, and remap_. *)
NewSymbols == [symbols |-> << >>, remap |-> NoTable]
NoInfo == [found |-> FALSE]

SymbolAt(table, i) == table[i + 1]
IsFunc(entry) == entry.func
EndOf(entry) == entry.value + entry.size

(* symbols_.upper_bound(addr): the first key above addr, or 0 at the end. *)
UpperBound(cache, addr) ==
    LET above == {k \in DOMAIN cache : k > addr} IN IF above = {} THEN 0 ELSE Min(above)

(* std::map::emplace leaves an entry that is there. *)
Emplace(cache, key, info) ==
    [k \in DOMAIN cache \cup {key} |-> IF k \in DOMAIN cache THEN cache[k] ELSE info]

(* The loop of BinarySearch; index maps places of the search to symbols. *)
RECURSIVE SearchFrom(_, _, _, _, _, _, _)
SearchFrom(cache, table, readable, index, addr, first, last) ==
    IF first >= last THEN [info |-> NoInfo, symbols |-> cache]
    ELSE LET current == first + (last - first) \div 2
             i == index[current + 1]
             sym == SymbolAt(table, i)
             known == Emplace(cache, EndOf(sym), [size |-> sym.size, index |-> current])
         IN IF i >= readable THEN [info |-> NoInfo, symbols |-> cache]
            ELSE IF addr < sym.value
            THEN SearchFrom(known, table, readable, index, addr, first, current)
            ELSE IF addr < EndOf(sym)
            THEN [info |-> [found |-> TRUE, index |-> known[EndOf(sym)].index, offset |-> addr - sym.value],
                  symbols |-> known]
            ELSE SearchFrom(known, table, readable, index, addr, current + 1, last)

(* The first place to search: behind the cached symbol below the address. *)
Below(below, cache) == IF below = {} THEN 0 ELSE cache[Max(below)].index + 1

(* Slip: a cached symbol that ends above the address is taken to hold it. *)
BinarySearchTrusting(cache, table, readable, index, addr) ==
    LET key == UpperBound(cache, addr)
        below == {k \in DOMAIN cache : k <= addr}
    IN IF key # 0
       THEN [info |-> [found |-> TRUE, index |-> cache[key].index, offset |-> addr - (key - cache[key].size)],
             symbols |-> cache]
       ELSE SearchFrom(cache, table, readable, index, addr, Below(below, cache), Len(index))

BinarySearch(cache, table, readable, index, addr) ==
    LET key == UpperBound(cache, addr)
        start == key - cache[key].size
        below == {k \in DOMAIN cache : k <= addr}
    IN IF key # 0 /\ start <= addr
       THEN [info |-> [found |-> TRUE, index |-> cache[key].index, offset |-> addr - start], symbols |-> cache]
       ELSE SearchFrom(cache, table, readable, index, addr, Below(below, cache),
                       IF key # 0 THEN cache[key].index ELSE Len(index))

(* The functions' indices, by address and then by index, one per address. *)
BuildRemapTable(table, readable) ==
    LET funcs == {i \in 0..readable - 1 : IsFunc(SymbolAt(table, i))}
        firsts == {i \in funcs : \A j \in funcs : SymbolAt(table, j).value = SymbolAt(table, i).value => i <= j}
    IN SetToSortSeq(firsts, LAMBDA a, b : SymbolAt(table, a).value < SymbolAt(table, b).value)

InOrder(table) == [k \in 1..Len(table) |-> k - 1]

(* The end of GetName: the symbol is read again for its name. *)
Named(st, search, table) ==
    LET i == IF st.remap = NoTable THEN search.info.index ELSE st.remap[search.info.index + 1]
        known == [st EXCEPT !.symbols = search.symbols]
    IN IF ~search.info.found \/ ~IsFunc(SymbolAt(table, i)) THEN [found |-> FALSE, state |-> known]
       ELSE [found |-> TRUE, name |-> i, offset |-> search.info.offset, state |-> known]

GetName(st, table, readable, addr) ==
    IF st.remap # NoTable THEN Named(st, BinarySearch(st.symbols, table, readable, st.remap, addr), table)
    ELSE LET plain == BinarySearch(st.symbols, table, readable, InOrder(table), addr)
             remap == BuildRemapTable(table, readable)
         IN IF plain.info.found THEN Named(st, plain, table)
            ELSE Named([st EXCEPT !.remap = remap], BinarySearch(<< >>, table, readable, remap, addr), table)

(* The answers of one lookup after the other. *)
RECURSIVE Lookups(_, _, _, _)
Lookups(st, table, readable, addrs) ==
    IF addrs = << >> THEN << >>
    ELSE LET answer == GetName(st, table, readable, Head(addrs))
         IN <<[f \in DOMAIN answer \ {"state"} |-> answer[f]]>>
            \o Lookups(answer.state, table, readable, Tail(addrs))

--------------------------------------------------------------------------------
(* Reference: the function that holds the address. *)
Holder(table, addr) ==
    LET holders == {i \in 0..Len(table) - 1 :
                      SymbolAt(table, i).func /\ addr \in SymbolAt(table, i).value..EndOf(SymbolAt(table, i)) - 1}
    IN IF holders = {} THEN [found |-> FALSE]
       ELSE LET i == CHOOSE j \in holders : TRUE IN [found |-> TRUE, name |-> i, offset |-> addr - SymbolAt(table, i).value]
(* No two symbols share an address. *)
Disjoint(table) ==
    \A i, j \in 1..Len(table) : i < j => EndOf(table[i]) <= table[j].value \/ EndOf(table[j]) <= table[i].value
================================================================================
