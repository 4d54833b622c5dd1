------------------------------ MODULE Interposer -------------------------------
(***************************************************************************)
(* The exported allocation functions (src/alloc_hook.cpp) from the first   *)
(* call of a process on: lookup of the libc functions, the bootstrap       *)
(* allocator that serves calls while there is nothing to forward to, and   *)
(* the construction of the tracker inside the first call that may track.   *)
(*                                                                         *)
(* The process has one thread here; the difficulty is re-entrance.  dlsym  *)
(* and the tracker's constructor allocate, and their calls come back       *)
(* through the same functions.  A frame is such an activity, with the call *)
(* that will go on when it ends.                                           *)
(***************************************************************************)
EXTENDS Integers, Sequences, FiniteSets

CONSTANTS
    Sizes,      \* requested sizes, 0 among them
    Allocators, \* the functions that only allocate: "malloc", "calloc", ...
    Lacking,    \* what libc may lack: sets of function names
    MaxBlocks,  \* bound: blocks allocated in a behaviour
    MaxFrames   \* bound: nested activities

ASSUME AllocatorsAssumption == "malloc" \in Allocators /\ {"realloc", "free"} \cap Allocators = {}
ASSUME SizesAssumption == Sizes \subseteq Nat
ASSUME LackingAssumption == \A lack \in Lacking : lack \subseteq Allocators \cup {"realloc", "free"}
ASSUME BoundsAssumption == MaxBlocks \in Nat /\ MaxFrames \in Nat

Symbols == Allocators \cup {"realloc", "free"}
Null == 0
Ids == 1..MaxBlocks

(* A block: who made it, its requested size, what of its data is intact, and
   whether the tracker has a record of it. *)
Blocks == [origin : {"bootstrap", "libc"}, size : Sizes, intact : BOOLEAN, tracked : BOOLEAN]

Calls == [fn : Allocators, ptr : {Null}, size : Sizes]
           \cup [fn : {"realloc"}, ptr : Ids \cup {Null}, size : Sizes]
           \cup [fn : {"free"}, ptr : Ids \cup {Null}, size : {0}]
NoCall == [fn |-> "none", ptr |-> Null, size |-> 0]

(* A lookup, a lookup whose call is about to go on, or the constructor with the
   symbols it has tried. *)
Frames == [kind : {"resolve", "returned", "construct"}, symbol : Symbols, call : Calls \cup {NoCall},
           tried : SUBSET Symbols]
Frame(kind, symbol, call) == [kind |-> kind, symbol |-> symbol, call |-> call, tried |-> {}]

VARIABLES
    m_sys,    \* the symbols found
    missing,  \* the symbols neither dlsym nor the libc.so it opens can name
    frames,
    built,    \* AllocHook::inst() has been constructed
    bypass,   \* the observe-only gate's answer for this process
    blocks,   \* live blocks
    made,     \* number of blocks made
    wrong     \* what went to the wrong owner, or was given up

vars == <<m_sys, missing, frames, built, bypass, blocks, made, wrong>>

g_resolving_symbols == \E i \in 1..Len(frames) : frames[i].kind = "resolve"
allocHook_setup == \E i \in 1..Len(frames) : frames[i].kind = "construct"
Top == frames[Len(frames)]
Pop == SubSeq(frames, 1, Len(frames) - 1)

(* What went wrong, and where the function concerned was: still to be found, as a
   lookup was running, not in libc, or within reach. *)
Faults == [kind : {"wrongOwner", "recursion", "dataLost", "leaked", "leakedEmpty", "nullCall"},
           libc : {"resolving", "missing", "reachable"}]
Fault(kind, symbol) ==
    [kind |-> kind, libc |-> IF g_resolving_symbols THEN "resolving"
                             ELSE IF symbol \in missing THEN "missing" ELSE "reachable"]
Blame(kinds, symbol) == wrong' = wrong \cup {Fault(k, symbol) : k \in kinds}

TypeOK ==
    /\ m_sys \subseteq Symbols \ missing /\ missing \in Lacking
    /\ frames \in Seq(Frames) /\ Len(frames) <= MaxFrames
    /\ built \in BOOLEAN /\ bypass \in BOOLEAN
    /\ DOMAIN blocks \subseteq Ids /\ \A b \in DOMAIN blocks : blocks[b] \in Blocks
    /\ made \in 0..MaxBlocks
    /\ wrong \subseteq Faults

Init ==
    /\ m_sys = {} /\ missing \in Lacking /\ frames = << >> /\ built = FALSE /\ bypass \in BOOLEAN
    /\ blocks = << >> /\ made = 0 /\ wrong = {}

--------------------------------------------------------------------------------
IsBootstrapPointer(ptr) == ptr \in DOMAIN blocks /\ blocks[ptr].origin = "bootstrap"

With(bs, ptr, block) == [b \in DOMAIN bs \cup {ptr} |-> IF b = ptr THEN block ELSE bs[b]]
Without(bs, ptr) == [b \in DOMAIN bs \ {ptr} |-> bs[b]]

New(origin, size, intact, tracked) ==
    [origin |-> origin, size |-> size, intact |-> intact, tracked |-> tracked]

(* Slip: the payload is counted from the header before it. *)
MakeBefore(origin, size, intact, tracked, bs) ==
    \/ /\ made < MaxBlocks
       /\ made' = made + 1
       /\ blocks' = With(bs, made, New(origin, size, intact, tracked))
    \/ made' = made /\ blocks' = blocks

(* malloc from one of the two allocators; it may fail. *)
Make(origin, size, intact, tracked, bs) ==
    \/ /\ made < MaxBlocks
       /\ made' = made + 1
       /\ blocks' = With(bs, made + 1, New(origin, size, intact, tracked))
    \/ made' = made /\ blocks' = blocks

(* Slip: the new block takes over without a copy. *)
BootstrapReallocForgets(ptr, size) ==
    LET mine == IsBootstrapPointer(ptr)
    IN CASE ptr = Null -> Make("bootstrap", size, TRUE, FALSE, blocks) /\ UNCHANGED wrong
         [] ptr # Null /\ size = 0 ->
              /\ blocks' = Without(blocks, ptr)
              /\ made' = made
              /\ Blame(IF mine THEN {} ELSE {"leaked"}, "realloc")
         [] OTHER ->
              /\ made < MaxBlocks /\ made' = made + 1
              /\ blocks' = With(Without(blocks, ptr), made + 1, New("bootstrap", size, FALSE, FALSE))
              /\ Blame({"dataLost"}, "realloc")

(* BootstrapRealloc.  A block that is not a bootstrap one, or that has size 0,
   is neither copied nor freed: its caller no longer has it, and nobody else. *)
BootstrapRealloc(ptr, size) ==
    LET mine == IsBootstrapPointer(ptr)
        moves == mine /\ blocks[ptr].size # 0
    IN CASE ptr = Null -> Make("bootstrap", size, TRUE, FALSE, blocks) /\ UNCHANGED wrong
         [] ptr # Null /\ size = 0 ->
              /\ blocks' = Without(blocks, ptr)
              /\ made' = made
              /\ Blame(IF mine THEN {} ELSE {"leaked"}, "realloc")
         [] OTHER ->
              \/ /\ made < MaxBlocks /\ made' = made + 1
                 /\ blocks' = With(Without(blocks, ptr), made + 1, New("bootstrap", size, mine, FALSE))
                 /\ Blame(IF moves THEN {} ELSE IF mine THEN {"leakedEmpty"} ELSE {"dataLost", "leaked"},
                          "realloc")
              \/ UNCHANGED <<blocks, made, wrong>>

(* libc's own functions; a bootstrap block handed to them is a fault. *)
LibcRealloc(ptr, size, tracked) ==
    IF ptr = Null THEN Make("libc", size, TRUE, tracked, blocks) /\ UNCHANGED wrong
    ELSE /\ Blame(IF IsBootstrapPointer(ptr) THEN {"wrongOwner"} ELSE {}, "realloc")
         /\ \/ /\ size = 0 /\ made' = made /\ blocks' = Without(blocks, ptr)
            \/ /\ size # 0 /\ made < MaxBlocks /\ made' = made + 1
               /\ blocks' = With(Without(blocks, ptr), made + 1,
                                 New("libc", size, blocks[ptr].intact, tracked))
            \/ size # 0 /\ UNCHANGED <<blocks, made>>
LibcFree(ptr) ==
    /\ blocks' = Without(blocks, ptr) /\ made' = made
    /\ Blame(IF IsBootstrapPointer(ptr) THEN {"wrongOwner"} ELSE {}, "free")

--------------------------------------------------------------------------------
(* The exported functions once their symbol has been looked up: the bypass, or
   the tracker.  tracked is FALSE for a bypassed call. *)
Bypassing(symbol) == allocHook_setup \/ g_resolving_symbols \/ symbol \notin m_sys \/ bypass

(* debug_realloc of no block is an allocation, to nothing a release; both go
   through the other function's pointer. *)
Through(c) == IF c.fn # "realloc" THEN c.fn ELSE IF c.ptr = Null THEN "malloc"
              ELSE IF c.size = 0 THEN "free" ELSE "realloc"

(* Slip: realloc does not ask where its block is from. *)
ForwardBlindly(c, tracked) ==
    CASE c.fn \in Allocators ->
           /\ IF c.fn \notin m_sys THEN Make("bootstrap", c.size, TRUE, FALSE, blocks)
              ELSE Make("libc", c.size, TRUE, tracked, blocks)
           /\ UNCHANGED wrong
      [] c.fn = "realloc" ->
           IF "realloc" \notin m_sys THEN BootstrapRealloc(c.ptr, c.size)
           ELSE LibcRealloc(c.ptr, c.size, tracked)
      [] c.fn = "free" ->
           IF IsBootstrapPointer(c.ptr)
           THEN blocks' = Without(blocks, c.ptr) /\ UNCHANGED <<made, wrong>>
           ELSE IF "free" \notin m_sys
           THEN /\ Blame(IF c.ptr = Null THEN {} ELSE {"leaked"}, "free")
                /\ blocks' = Without(blocks, c.ptr) /\ made' = made
           ELSE LibcFree(c.ptr)

Forward(c, tracked) ==
    CASE c.fn \in Allocators ->
           /\ IF c.fn \notin m_sys THEN Make("bootstrap", c.size, TRUE, FALSE, blocks)
              ELSE Make("libc", c.size, TRUE, tracked, blocks)
           /\ UNCHANGED wrong
      [] c.fn = "realloc" ->
           IF "realloc" \notin m_sys \/ IsBootstrapPointer(c.ptr) THEN BootstrapRealloc(c.ptr, c.size)
           ELSE LibcRealloc(c.ptr, c.size, tracked)
      [] c.fn = "free" ->
           IF IsBootstrapPointer(c.ptr)
           THEN blocks' = Without(blocks, c.ptr) /\ UNCHANGED <<made, wrong>>
           ELSE IF "free" \notin m_sys
           THEN /\ Blame(IF c.ptr = Null THEN {} ELSE {"leaked"}, "free")
                /\ blocks' = Without(blocks, c.ptr) /\ made' = made
           ELSE LibcFree(c.ptr)

(* Slip: calls from the constructor reach the singleton. *)
NeedsTrackerAlways(c) == c.fn \in m_sys /\ ~bypass /\ ~IsBootstrapPointer(c.ptr)

(* free, and realloc of a bootstrap block, need no tracker. *)
NeedsTracker(c) == ~Bypassing(c.fn) /\ ~IsBootstrapPointer(c.ptr)

(* A call of the tracker. *)
Track(c) ==
    IF Through(c) \in m_sys THEN Forward(c, TRUE)
    ELSE Blame({"nullCall"}, Through(c)) /\ UNCHANGED <<blocks, made>>

(* The rest of a call; rest are the frames it leaves behind. *)
Proceed(c, rest) ==
    IF ~NeedsTracker(c) THEN frames' = rest /\ Forward(c, FALSE) /\ UNCHANGED built
    ELSE IF built THEN frames' = rest /\ Track(c) /\ UNCHANGED built
    ELSE IF \E i \in 1..Len(rest) : rest[i].kind = "construct"
    THEN /\ Blame({"recursion"}, c.fn)
         /\ frames' = rest /\ UNCHANGED <<blocks, made, built>>
    ELSE /\ Len(rest) < MaxFrames
         /\ frames' = Append(rest, Frame("construct", c.fn, c))
         /\ UNCHANGED <<blocks, made, wrong, built>>

(* Slip: free does not look its symbol up. *)
LooksUpNotFree(c) == c.fn \notin m_sys /\ ~g_resolving_symbols /\ c.fn # "free"

(* RESOLVE of the function's own symbol: nothing while another lookup runs. *)
LooksUp(c) ==
    c.fn \notin m_sys /\ ~g_resolving_symbols /\ ~(c.fn = "free" /\ IsBootstrapPointer(c.ptr))

(* A call by the application, or from within dlsym or the constructor. *)
Call ==
    /\ frames # << >> => Top.kind # "returned"
    /\ \E c \in Calls :
        /\ c.ptr \in DOMAIN blocks \cup {Null}
        /\ c.ptr \notin {frames[i].call.ptr : i \in 1..Len(frames)} \ {Null}
        /\ IF LooksUp(c)
           THEN /\ Len(frames) < MaxFrames
                /\ frames' = Append(frames, Frame("resolve", c.fn, c))
                /\ UNCHANGED <<m_sys, built, blocks, made, wrong>>
           ELSE Proceed(c, frames) /\ UNCHANGED m_sys
    /\ UNCHANGED <<missing, bypass>>

(* ResolveLibcSymbol returns, to a call or to the constructor, with the function
   or with nullptr. *)
Resolved ==
    /\ frames # << >> /\ Top.kind = "resolve"
    /\ m_sys' = m_sys \cup ({Top.symbol} \ missing)
    /\ frames' = IF Top.call = NoCall THEN Pop ELSE [frames EXCEPT ![Len(frames)].kind = "returned"]
    /\ UNCHANGED <<missing, built, bypass, blocks, made, wrong>>

GoOn ==
    /\ frames # << >> /\ Top.kind = "returned"
    /\ Proceed(Top.call, Pop)
    /\ UNCHANGED <<m_sys, missing, bypass>>

(* ResolveAllLibcAllocationSymbols, a part of the constructor, tries every
   symbol that is not known yet. *)
Untried == Symbols \ (m_sys \cup Top.tried)

ResolveNext ==
    /\ frames # << >> /\ Top.kind = "construct" /\ Len(frames) < MaxFrames
    /\ \E s \in Untried :
          frames' = Append([frames EXCEPT ![Len(frames)].tried = @ \cup {s}],
                           Frame("resolve", s, NoCall))
    /\ UNCHANGED <<m_sys, missing, built, bypass, blocks, made, wrong>>

(* Slip: the constructor leaves the lookups to the functions' first calls. *)
ConstructedLazily ==
    /\ frames # << >> /\ Top.kind = "construct"
    /\ built' = TRUE
    /\ frames' = Pop
    /\ Track(Top.call)
    /\ UNCHANGED <<m_sys, missing, bypass>>

(* The constructor ends and the call that needed the tracker goes on. *)
Constructed ==
    /\ frames # << >> /\ Top.kind = "construct" /\ Untried = {}
    /\ built' = TRUE
    /\ frames' = Pop
    /\ Track(Top.call)
    /\ UNCHANGED <<m_sys, missing, bypass>>

Next == Call \/ Resolved \/ GoOn \/ ResolveNext \/ Constructed
Spec == Init /\ [][Next]_vars

--------------------------------------------------------------------------------
(* libc is never handed a bootstrap block, at whatever depth of re-entrance the
   block was made and whatever has been looked up since. *)
RightOwner == \A w \in wrong : w.kind # "wrongOwner"

(* The singleton's constructor is never entered while it is running: the static
   guard would wait for itself. *)
ConstructedOnce == \A w \in wrong : w.kind # "recursion"

(* A reallocated block keeps its data.  Only a libc block whose realloc is called
   from inside dlsym, or with no realloc to be found in libc, is replaced by a
   fresh bootstrap block. *)
DataKept == \A w \in wrong : w.kind = "dataLost" => w.libc # "reachable"

(* A block the caller gave back is released.  A libc block is given up only
   inside dlsym, while libc's free or realloc is not known, or when libc has none.
   A bootstrap block of size 0 that is reallocated is not released
   (BootstrapRealloc asks for old_size != 0): that leak is the code's, is recorded
   as leakedEmpty, and is the only one this leaves out. *)
LibcBlocksReleased == \A w \in wrong : w.kind = "leaked" => w.libc # "reachable"

(* The tracker calls libc through a pointer it has: its constructor has looked up
   every function, also those debug_realloc turns to for a null block or a size
   of 0. *)
NeverThroughNull == \A w \in wrong : w.kind = "nullCall" => w.libc = "missing"

(* Every block goes back to the allocator that made it, with its data intact where
   libc's function can be known; no libc block is given up there, and of the
   bootstrap blocks only empty ones that are reallocated; and the tracker is not
   constructed inside its own constructor nor before its functions are known. *)
BlocksSurvive ==
    TypeOK /\ RightOwner /\ ConstructedOnce /\ DataKept /\ LibcBlocksReleased /\ NeverThroughNull
================================================================================
