------------------------------ MODULE DmaFdProofs ------------------------------
(***************************************************************************)
(* The registry of DMA descriptors is exact, for any number of threads,    *)
(* descriptors, handles, sizes and calls.                                  *)
(*                                                                         *)
(* None of the three invariants of DmaFd is inductive: each speaks of a    *)
(* descriptor nobody is working on, and what makes it true is done by a    *)
(* call's second step.  DmaInv says of every call in flight what it may    *)
(* count on when it does its bookkeeping, and of every descriptor and ION  *)
(* handle which call in flight will put right what is not right yet.  It   *)
(* rests on fd_transaction_mutex: two calls on descriptors are never in    *)
(* flight together.                                                        *)
(***************************************************************************)
EXTENDS DmaFd, TLAPS

(* Some call with this operation has still to do its bookkeeping for the
   descriptor, or for the handle of an ION descriptor. *)
OnFd(op, f) == \E t \in Threads : call[t].op = op /\ call[t].fd = f
OnHandle(op, dev, h) == \E t \in Threads : call[t].op = op /\ call[t].dev = dev /\ call[t].handle = h

(* Calls that work on a descriptor hold fd_transaction_mutex. *)
Locking == {"create", "share", "camera", "closed", "mapped"}
MutexInv == \A t \in Threads : call[t].op \in Locking => fd_transaction_mutex = t

(* Only ION descriptors have handles. *)
IonInv == \A f \in Fds, h \in Handles : ion[f][h] # NoIon => file[f].kind = "ion"

(* What a call in flight may count on. *)
CreateOK(c) == /\ file[c.fd].kind = "dma" /\ ~file[c.fd].mapped
               /\ file[c.fd].born = "create" /\ file[c.fd].size = c.size
ShareOK(c) == /\ file[c.fd].kind = "dma" /\ ~file[c.fd].mapped
              /\ ion[c.dev][c.handle] # NoIon
              /\ file[c.fd].size = ion[c.dev][c.handle].size
              /\ file[c.fd].raced = ion[c.dev][c.handle].raced
              /\ file[c.fd].born = IF ion[c.dev][c.handle].seen THEN "share" ELSE "elsewhere"
ClosedOK(c) == file[c.fd].born = "elsewhere" /\ ~file[c.fd].mapped
RecordOK(c) == /\ ion[c.dev][c.handle] # NoIon /\ ion[c.dev][c.handle].seen
               /\ c.size = ion[c.dev][c.handle].size
CallOK(c) ==
    /\ c.op \in Locking => c.fd \in Fds
    /\ c.op \in {"share", "ionRecord", "ionDrop"} => c.dev \in Fds /\ c.handle \in Handles
    /\ c.op = "create" => CreateOK(c)
    /\ c.op = "share" => ShareOK(c) /\ ~OnHandle("ionRecord", c.dev, c.handle)
    /\ c.op = "closed" => ClosedOK(c)
    /\ c.op = "ionRecord" => RecordOK(c)
CallInv == \A t \in Threads : CallOK(call[t])

(* Only buffers have a size, a birth, a legible fdinfo and mappings. *)
FileOK(f) ==
    IF file[f].kind = "dma" THEN file[f].size \in Sizes
    ELSE file[f].born = "elsewhere" /\ ~file[f].mapped /\ ~file[f].told

(* An entry is tracked and has the size of its record. *)
EntryOK(f) == \/ dma_fds[f] = NoEntry /\ records[f] = NoSize
              \/ dma_fds[f] = [size |-> records[f], tracked |-> TRUE] /\ records[f] \in Sizes

(* What is not yet counted is about to be: a buffer that was mapped while its
   fdinfo could be read has a record, or is being mapped with such an fdinfo. *)
CountOK(f) == /\ file[f].born = "create" => records[f] = file[f].size \/ OnFd("create", f)
              /\ file[f].mapped => records[f] # NoSize \/ (OnFd("mapped", f) /\ file[f].told)

(* A number has a stale record only while its close is in flight. *)
StaleOK(f) == /\ file[f].kind # "dma" => records[f] = NoSize \/ OnFd("closed", f)
              /\ OnFd("create", f) \/ OnFd("share", f) => records[f] = NoSize

(* A buffer's record has the buffer's size. *)
SizeOK(f) ==
    file[f].kind = "dma" /\ ~file[f].raced =>
        /\ records[f] \in {NoSize, file[f].size} \/ OnFd("closed", f)
        /\ file[f].born = "share" => records[f] = file[f].size \/ OnFd("share", f)

(* The last two hold as long as no close escapes the hook. *)
FdOK(f) == /\ FileOK(f) /\ EntryOK(f) /\ CountOK(f)
           /\ "close" \notin unseen => StaleOK(f) /\ SizeOK(f)
FdInv == \A f \in Fds : FdOK(f)

(* The size kept for a handle is the handle's, unless its number was reissued
   while it was being freed, or a close escaped the hook. *)
LiveOK(f, h) == /\ ~FreeInFlight(f, h)
                /\ IF ion[f][h].seen
                   THEN \/ pending_ion_allocations[f][h] = ion[f][h].size
                        \/ OnHandle("ionRecord", f, h)
                   ELSE pending_ion_allocations[f][h] = NoSize
HandleOK(f, h) == IF ion[f][h] = NoIon
                  THEN pending_ion_allocations[f][h] = NoSize \/ FreeInFlight(f, h)
                  ELSE ion[f][h].raced \/ LiveOK(f, h)
HandleInv == "close" \notin unseen => \A f \in Fds, h \in Handles : HandleOK(f, h)

FlightInv == MutexInv /\ CallInv /\ FdInv /\ IonInv /\ HandleInv
DmaInv == TypeOK /\ FlightInv

(* Calls. *)
LEMMA CallFields ==
    /\ NoCall.op = "none" /\ NoCall \notin Calls /\ "none" \notin Ops
    /\ \A c \in Calls : c.op \in Ops
<1>1. NoCall.op = "none" /\ "none" \notin Ops
  BY Zenon DEF NoCall, Ops
<1>2. \A c \in Calls : c.op \in Ops
  BY Zenon DEF Calls
<1> QED BY <1>1, <1>2, Zenon

(* The calls that the steps enter: on a descriptor, with a buffer's size, on a
   handle, with its size, and one that makes a descriptor of a handle. *)
FdCall(op, f) == [NoCall EXCEPT !.op = op, !.fd = f]
SizedCall(op, f, size) == [NoCall EXCEPT !.op = op, !.fd = f, !.size = size]
HandleCall(op, dev, h) == [NoCall EXCEPT !.op = op, !.dev = dev, !.handle = h]
RecordCall(op, dev, h, size) == [NoCall EXCEPT !.op = op, !.dev = dev, !.handle = h, !.size = size]
ShareCall(op, dev, h, f) == [NoCall EXCEPT !.op = op, !.fd = f, !.dev = dev, !.handle = h]

(* The fields of a call on a descriptor. *)
LEMMA FdCallFields ==
    ASSUME NEW op \in Ops, NEW f \in Fds
    PROVE  /\ FdCall(op, f) \in Calls /\ FdCall(op, f).op = op
           /\ FdCall(op, f).fd = f
BY Zenon DEF FdCall, NoCall, Calls

(* The fields of a call that knows the buffer's size. *)
LEMMA SizedCallFields ==
    ASSUME NEW op \in Ops, NEW f \in Fds, NEW size \in Sizes
    PROVE  /\ SizedCall(op, f, size) \in Calls /\ SizedCall(op, f, size).op = op
           /\ SizedCall(op, f, size).fd = f /\ SizedCall(op, f, size).size = size
BY Zenon DEF SizedCall, NoCall, Calls

(* The fields of a call on a handle. *)
LEMMA HandleCallFields ==
    ASSUME NEW op \in Ops, NEW dev \in Fds, NEW h \in Handles
    PROVE  /\ HandleCall(op, dev, h) \in Calls /\ HandleCall(op, dev, h).op = op
           /\ HandleCall(op, dev, h).dev = dev /\ HandleCall(op, dev, h).handle = h
BY Zenon DEF HandleCall, NoCall, Calls

(* The fields of a call that knows the handle's size. *)
LEMMA RecordCallFields ==
    ASSUME NEW op \in Ops, NEW dev \in Fds, NEW h \in Handles, NEW size \in Sizes
    PROVE  /\ RecordCall(op, dev, h, size) \in Calls /\ RecordCall(op, dev, h, size).op = op
           /\ RecordCall(op, dev, h, size).dev = dev /\ RecordCall(op, dev, h, size).handle = h
           /\ RecordCall(op, dev, h, size).size = size
BY Zenon DEF RecordCall, NoCall, Calls

(* The fields of a call that makes a descriptor of a handle. *)
LEMMA ShareCallFields ==
    ASSUME NEW op \in Ops, NEW dev \in Fds, NEW h \in Handles, NEW f \in Fds
    PROVE  /\ ShareCall(op, dev, h, f) \in Calls /\ ShareCall(op, dev, h, f).op = op
           /\ ShareCall(op, dev, h, f).fd = f /\ ShareCall(op, dev, h, f).dev = dev
           /\ ShareCall(op, dev, h, f).handle = h
BY Zenon DEF ShareCall, NoCall, Calls

(* Files. *)
LEMMA FileFields ==
    /\ NoFile.kind = "none" /\ NoFile.born = "elsewhere" /\ ~NoFile.mapped /\ ~NoFile.told
    /\ Plain \in Files /\ Plain.kind = "plain" /\ Plain.born = "elsewhere" /\ ~Plain.mapped /\ ~Plain.told
    /\ Ion \in Files /\ Ion.kind = "ion" /\ Ion.born = "elsewhere" /\ ~Ion.mapped /\ ~Ion.told
<1>1. /\ NoFile.kind = "none" /\ NoFile.born = "elsewhere" /\ ~NoFile.mapped /\ ~NoFile.told
  BY DEF NoFile
<1>2. Plain.kind = "plain" /\ Plain.born = "elsewhere" /\ ~Plain.mapped /\ ~Plain.told
  BY Zenon DEF NoFile, Plain
<1>3. Ion.kind = "ion" /\ Ion.born = "elsewhere" /\ ~Ion.mapped /\ ~Ion.told
  BY Zenon DEF NoFile, Ion
<1>4. Plain \in Files
  BY Zenon DEF NoFile, Plain, Files
<1>5. Ion \in Files
  BY Zenon DEF NoFile, Ion, Files
<1> QED BY <1>1, <1>2, <1>3, <1>4, <1>5, Zenon
(* Buffers. *)
LEMMA BufferFields ==
    ASSUME NEW size \in Sizes, NEW born \in {"create", "share", "elsewhere"}, NEW raced \in BOOLEAN
    PROVE  /\ Buffer(size, born, raced) \in Files
           /\ Buffer(size, born, raced).kind = "dma" /\ Buffer(size, born, raced).size = size
           /\ Buffer(size, born, raced).born = born /\ Buffer(size, born, raced).raced = raced
           /\ ~Buffer(size, born, raced).mapped /\ ~Buffer(size, born, raced).told
BY Zenon DEF Buffer, Files

(* Entering a call adds it to those in flight, ... *)
LEMMA Entered ==
    ASSUME NEW t \in Threads, call[t] = NoCall, \A u \in Threads : u # t => call'[u] = call[u]
    PROVE  /\ \A op \in Ops, f \in Fds :
                 OnFd(op, f)' <=> OnFd(op, f) \/ (call'[t].op = op /\ call'[t].fd = f)
           /\ \A op \in Ops, dev \in Fds, h \in Handles :
                 OnHandle(op, dev, h)' <=>
                     OnHandle(op, dev, h) \/ (call'[t].op = op /\ call'[t].dev = dev /\ call'[t].handle = h)
<1>1. call[t].op = "none" /\ "none" \notin Ops
  BY CallFields, Zenon
<1>2. ASSUME NEW op \in Ops, NEW f \in Fds
      PROVE  OnFd(op, f)' <=> OnFd(op, f) \/ (call'[t].op = op /\ call'[t].fd = f)
  BY <1>1, Zenon DEF OnFd
<1>3. ASSUME NEW op \in Ops, NEW dev \in Fds, NEW h \in Handles
      PROVE  OnHandle(op, dev, h)' <=>
                 OnHandle(op, dev, h) \/ (call'[t].op = op /\ call'[t].dev = dev /\ call'[t].handle = h)
  BY <1>1, Zenon DEF OnHandle
<1> QED BY <1>2, <1>3, Zenon
(* ... and finishing it takes it away. *)
LEMMA Finished ==
    ASSUME NEW t \in Threads, call'[t] = NoCall, \A u \in Threads : u # t => call'[u] = call[u]
    PROVE  /\ \A op \in Ops, f \in Fds :
                 OnFd(op, f) <=> OnFd(op, f)' \/ (call[t].op = op /\ call[t].fd = f)
           /\ \A op \in Ops, dev \in Fds, h \in Handles :
                 OnHandle(op, dev, h) <=>
                     OnHandle(op, dev, h)' \/ (call[t].op = op /\ call[t].dev = dev /\ call[t].handle = h)
<1>1. call'[t].op = "none" /\ "none" \notin Ops
  BY CallFields, Zenon
<1>2. ASSUME NEW op \in Ops, NEW f \in Fds
      PROVE  OnFd(op, f) <=> OnFd(op, f)' \/ (call[t].op = op /\ call[t].fd = f)
  BY <1>1, Zenon DEF OnFd
<1>3. ASSUME NEW op \in Ops, NEW dev \in Fds, NEW h \in Handles
      PROVE  OnHandle(op, dev, h) <=>
                 OnHandle(op, dev, h)' \/ (call[t].op = op /\ call[t].dev = dev /\ call[t].handle = h)
  BY <1>1, Zenon DEF OnHandle
<1> QED BY <1>2, <1>3, Zenon
(* A handle is being freed by a call on it or by the close of its descriptor. *)
LEMMA FreeFlights ==
    \A f \in Fds, h \in Handles : FreeInFlight(f, h) <=> OnHandle("ionDrop", f, h) \/ OnFd("closed", f)
BY Zenon DEF FreeInFlight, OnFd, OnHandle

(* Initially nothing is open but ION descriptors, and nothing is known. *)
LEMMA DmaInit == Init => DmaInv
<1> SUFFICES ASSUME Init PROVE DmaInv
  BY Zenon
<1>1. \A t \in Threads : call[t] = NoCall /\ call[t].op = "none"
  BY CallFields, Zenon DEF Init
<1>2. \A f \in Fds : file[f] \in {NoFile, Ion} /\ dma_fds[f] = NoEntry /\ records[f] = NoSize
  BY Zenon DEF Init
<1>3. \A f \in Fds, h \in Handles : ion[f][h] = NoIon /\ pending_ion_allocations[f][h] = NoSize
  BY Zenon DEF Init
<1>4. TypeOK
  <2>1. file \in [Fds -> Files \cup {NoFile}]
    BY FileFields, Zenon DEF Init
  <2>2. calls \in 0..MaxCalls
    BY BoundAssumption DEF Init
  <2> QED BY <2>1, <2>2, Zenon DEF Init, TypeOK
<1>5. MutexInv
  BY <1>1, Zenon DEF MutexInv, Locking
<1>6. CallInv
  BY <1>1, Zenon DEF CallInv, CallOK, Locking
<1>7. FdInv
  <2> SUFFICES ASSUME NEW f \in Fds PROVE FdOK(f)
    BY Zenon DEF FdInv
  <2>1. /\ file[f].kind # "dma" /\ file[f].born = "elsewhere" /\ ~file[f].mapped /\ ~file[f].told
        /\ dma_fds[f] = NoEntry /\ records[f] = NoSize
    BY <1>2, FileFields, Zenon
  <2> QED BY <2>1, Zenon DEF FdOK, FileOK, EntryOK, CountOK, StaleOK, SizeOK
<1>8. IonInv /\ HandleInv
  BY <1>3, Zenon DEF IonInv, HandleInv, HandleOK
<1> QED BY <1>4, <1>5, <1>6, <1>7, <1>8, Zenon DEF DmaInv, FlightInv

--------------------------------------------------------------------------------
(* What a step leaves alone stays right. *)

(* A descriptor whose file, entry and calls in flight are left alone. *)
LEMMA FdKept ==
    ASSUME NEW g \in Fds, FdOK(g), unseen' = unseen,
           file'[g] = file[g], dma_fds'[g] = dma_fds[g], records'[g] = records[g],
           \A op \in {"create", "share", "closed", "mapped"} : OnFd(op, g)' <=> OnFd(op, g)
    PROVE  FdOK(g)'
<1>1. /\ OnFd("create", g)' <=> OnFd("create", g)
      /\ OnFd("share", g)' <=> OnFd("share", g)
      /\ OnFd("closed", g)' <=> OnFd("closed", g)
      /\ OnFd("mapped", g)' <=> OnFd("mapped", g)
  BY Zenon
<1>2. FileOK(g)' /\ EntryOK(g)'
  BY Zenon DEF FdOK, FileOK, EntryOK
<1>3. CountOK(g)'
  BY <1>1, Zenon DEF FdOK, CountOK
<1>4. StaleOK(g) => StaleOK(g)'
  BY <1>1, Zenon DEF StaleOK
<1>5. SizeOK(g) => SizeOK(g)'
  BY <1>1, Zenon DEF SizeOK
<1> QED BY <1>2, <1>3, <1>4, <1>5, Zenon DEF FdOK

(* A handle of which the size and the calls in flight are left alone. *)
LEMMA HandleKept ==
    ASSUME NEW f \in Fds, NEW h \in Handles, HandleOK(f, h), ion'[f][h] = ion[f][h],
           pending_ion_allocations'[f][h] = pending_ion_allocations[f][h],
           OnFd("closed", f)' <=> OnFd("closed", f),
           \A op \in {"ionRecord", "ionDrop"} : OnHandle(op, f, h)' <=> OnHandle(op, f, h)
    PROVE  HandleOK(f, h)'
<1>1. OnHandle("ionRecord", f, h)' <=> OnHandle("ionRecord", f, h)
  BY Zenon
<1>2. FreeInFlight(f, h)' <=> FreeInFlight(f, h)
  <2>1. FreeInFlight(f, h)' <=> OnHandle("ionDrop", f, h)' \/ OnFd("closed", f)'
    BY Zenon DEF FreeInFlight, OnFd, OnHandle
  <2> QED BY <2>1, FreeFlights, Zenon
<1> QED BY <1>1, <1>2, Zenon DEF HandleOK, LiveOK

(* A call in flight of which the file and the handle are left alone. *)
LEMMA CallKept ==
    ASSUME NEW u \in Threads, CallOK(call[u]), call'[u] = call[u],
           call[u].op \in {"create", "share", "closed"} => file'[call[u].fd] = file[call[u].fd],
           call[u].op \in {"share", "ionRecord"} =>
               ion'[call[u].dev][call[u].handle] = ion[call[u].dev][call[u].handle],
           call[u].op = "share" => ~OnHandle("ionRecord", call[u].dev, call[u].handle)'
    PROVE  CallOK(call[u])'
<1>1. CASE call[u].op = "create"
  BY <1>1, Zenon DEF CallOK, CreateOK
<1>2. CASE call[u].op = "share"
  <2>1. ~OnHandle("ionRecord", call[u].dev, call[u].handle)'
    BY <1>2, Zenon
  <2>2. ShareOK(call[u])'
    BY <1>2, Zenon DEF CallOK, ShareOK
  <2> QED BY <1>2, <2>1, <2>2, Zenon DEF CallOK
<1>3. CASE call[u].op = "closed"
  BY <1>3, Zenon DEF CallOK, ClosedOK
<1>4. CASE call[u].op = "ionRecord"
  BY <1>4, Zenon DEF CallOK, RecordOK
<1>5. CASE call[u].op \notin {"create", "share", "closed", "ionRecord"}
  BY <1>5, Zenon DEF CallOK
<1> QED BY <1>1, <1>2, <1>3, <1>4, <1>5, Zenon

(* A step that takes fd_transaction_mutex finds no call on a descriptor in
   flight, and adds its own. *)
LEMMA LockTaken ==
    ASSUME DmaInv, NEW t \in Threads, NEW c \in Calls, LockFds(t), Enter(t, c), c.op \in Locking
    PROVE  /\ call'[t] = c /\ \A u \in Threads : u # t => call'[u] = call[u]
           /\ \A u \in Threads : call[u].op \notin Locking
           /\ MutexInv'
           /\ \A op \in Locking, f \in Fds : ~OnFd(op, f) /\ (OnFd(op, f)' <=> c.op = op /\ c.fd = f)
           /\ \A op \in {"ionRecord", "ionDrop"}, dev \in Fds, h \in Handles :
                 OnHandle(op, dev, h)' <=> OnHandle(op, dev, h)
<1>1. /\ call[t] = NoCall /\ call'[t] = c /\ \A u \in Threads : u # t => call'[u] = call[u]
      /\ fd_transaction_mutex = NoThread /\ fd_transaction_mutex' = t
  BY Zenon DEF LockFds, Enter, DmaInv, TypeOK
<1>2. \A u \in Threads : call[u].op \notin Locking
  BY <1>1, NamesAssumption, Zenon DEF DmaInv, FlightInv, MutexInv
<1>3. MutexInv'
  BY <1>1, <1>2, Zenon DEF MutexInv
<1>4. Locking \subseteq Ops /\ {"ionRecord", "ionDrop"} \subseteq Ops \ Locking
  BY Zenon DEF Locking, Ops
<1>5. ASSUME NEW op \in Locking, NEW f \in Fds
      PROVE  ~OnFd(op, f) /\ (OnFd(op, f)' <=> c.op = op /\ c.fd = f)
  <2>1. ~OnFd(op, f)
    BY <1>2, Zenon DEF OnFd
  <2>2. OnFd(op, f)' <=> OnFd(op, f) \/ (call'[t].op = op /\ call'[t].fd = f)
    BY <1>1, <1>4, Entered, Zenon
  <2> QED BY <1>1, <2>1, <2>2, Zenon
<1>6. ASSUME NEW op \in {"ionRecord", "ionDrop"}, NEW dev \in Fds, NEW h \in Handles
      PROVE  OnHandle(op, dev, h)' <=> OnHandle(op, dev, h)
  <2>1. op \in Ops /\ op # c.op
    BY <1>4, Zenon
  <2> QED BY <1>1, <2>1, Entered, Zenon
<1> QED BY <1>1, <1>2, <1>3, <1>5, <1>6, Zenon

(* The others' calls are on handles, and stay right. *)
LEMMA LockCalls ==
    ASSUME DmaInv, NEW t \in Threads, \A u \in Threads : u # t => call'[u] = call[u],
           \A u \in Threads : call[u].op \notin Locking, CallOK(call[t])',
           \A u \in Threads : call[u].op = "ionRecord" =>
               ion'[call[u].dev][call[u].handle] = ion[call[u].dev][call[u].handle]
    PROVE  CallInv'
<1> SUFFICES ASSUME NEW u \in Threads, u # t PROVE CallOK(call[u])'
  BY Zenon DEF CallInv
<1>1. call[u].op \notin {"create", "share", "closed"}
  BY Zenon DEF Locking
<1> QED BY <1>1, CallKept, Zenon DEF DmaInv, FlightInv, CallInv

--------------------------------------------------------------------------------
(* The system calls. *)

(* A number that is free has no handles and, unless a close escaped, no record. *)
LEMMA FreeNumber ==
    ASSUME DmaInv, NEW f \in Fds, file[f] = NoFile
    PROVE  /\ \A h \in Handles : ion[f][h] = NoIon
           /\ "close" \notin unseen => records[f] = NoSize \/ OnFd("closed", f)
<1>1. file[f].kind # "dma" /\ file[f].kind # "ion"
  BY FileFields, Zenon
<1> QED BY <1>1, Zenon DEF DmaInv, FlightInv, IonInv, FdInv, FdOK, StaleOK

(* A birth, by either kind of ioctl. *)
CreateCall(c, size, born) == c.op = "create" /\ c.size = size /\ born = "create"
ExportCall(c, size, born, raced) ==
    /\ c.op = "share" /\ c.dev \in Fds /\ c.handle \in Handles
    /\ ion[c.dev][c.handle] # NoIon /\ size = ion[c.dev][c.handle].size
    /\ raced = ion[c.dev][c.handle].raced
    /\ born = IF ion[c.dev][c.handle].seen THEN "share" ELSE "elsewhere"
    /\ Returned(c.dev, c.handle)
BirthCall(c, size, born, raced) == CreateCall(c, size, born) \/ ExportCall(c, size, born, raced)

(* A buffer comes to be at a free descriptor, with the call that will register it. *)
LEMMA Birth ==
    ASSUME DmaInv, NEW t \in Threads, NEW f \in Fds, NEW c \in Calls, NEW size \in Sizes,
           NEW born \in {"create", "share", "elsewhere"}, NEW raced \in BOOLEAN,
           file[f] = NoFile, LockFds(t), Enter(t, c), c.fd = f, BirthCall(c, size, born, raced),
           file' = [file EXCEPT ![f] = Buffer(size, born, raced)],
           UNCHANGED <<ion, stateVars, unseen>>
    PROVE  FlightInv'
<1>1. c.op \in Locking /\ c.op \in {"create", "share"}
  BY Zenon DEF Locking, BirthCall, CreateCall, ExportCall
<1>2. /\ call'[t] = c /\ (\A u \in Threads : u # t => call'[u] = call[u])
      /\ (\A u \in Threads : call[u].op \notin Locking) /\ MutexInv'
      /\ \A op \in Locking, g \in Fds : ~OnFd(op, g) /\ (OnFd(op, g)' <=> c.op = op /\ c.fd = g)
      /\ \A op \in {"ionRecord", "ionDrop"}, dev \in Fds, h \in Handles :
            OnHandle(op, dev, h)' <=> OnHandle(op, dev, h)
  BY <1>1, LockTaken, Zenon
<1>3. /\ file'[f].kind = "dma" /\ file'[f].size = size /\ file'[f].born = born
      /\ file'[f].raced = raced /\ ~file'[f].mapped
  <2>1. file'[f] = Buffer(size, born, raced)
    BY Zenon DEF DmaInv, TypeOK
  <2> QED BY <2>1, BufferFields
<1>4. \A g \in Fds : g # f => file'[g] = file[g]
  BY Zenon DEF DmaInv, TypeOK
<1>5. UNCHANGED <<ion, dma_fds, records, pending_ion_allocations, unseen>>
  BY Zenon DEF stateVars
<1>6. \A g \in Fds, op \in Locking : ~OnFd(op, g) /\ (g # f => ~OnFd(op, g)')
  BY <1>2, Zenon
<1>7. FdInv'
  <2> SUFFICES ASSUME NEW g \in Fds PROVE FdOK(g)'
    BY Zenon DEF FdInv
  <2>1. FdOK(g)
    BY Zenon DEF DmaInv, FlightInv, FdInv
  <2>2. CASE g # f
    <3>1. \A op \in {"create", "share", "closed", "mapped"} : OnFd(op, g)' <=> OnFd(op, g)
      BY <1>6, <2>2, Zenon DEF Locking
    <3> QED BY <1>4, <1>5, <2>1, <2>2, <3>1, FdKept, Zenon
  <2>3. CASE g = f
    <3>1. FileOK(f)' /\ EntryOK(f)'
      BY <1>3, <1>5, <2>1, <2>3, Zenon DEF FileOK, EntryOK, FdOK
    <3>2. OnFd(c.op, f)'
      BY <1>1, <1>2, Zenon
    <3>3. CountOK(f)'
      <4>1. born = "create" => c.op = "create"
        BY Zenon DEF BirthCall, CreateCall, ExportCall
      <4> QED BY <1>3, <3>2, <4>1, Zenon DEF CountOK
    <3>4. "close" \notin unseen => records[f] = NoSize
      <4>1. ~OnFd("closed", f)
        BY <1>2, Zenon DEF Locking
      <4> QED BY <4>1, FreeNumber, Zenon
    <3>5. "close" \notin unseen' => StaleOK(f)'
      BY <1>3, <1>5, <3>4, Zenon DEF StaleOK
    <3>6. "close" \notin unseen' => SizeOK(f)'
      <4>1. born = "share" => c.op = "share"
        BY Zenon DEF BirthCall, CreateCall, ExportCall
      <4> QED BY <1>3, <1>5, <3>2, <3>4, <4>1, Zenon DEF SizeOK
    <3> QED BY <2>3, <3>1, <3>3, <3>5, <3>6, Zenon DEF FdOK
  <2> QED BY <2>2, <2>3, Zenon
<1>8. CallInv'
  <2>1. CallOK(call[t])'
    <3>1. CASE c.op = "create"
      <4>1. c.size = size /\ born = "create"
        BY <3>1, Zenon DEF BirthCall, CreateCall, ExportCall
      <4> QED BY <1>2, <1>3, <3>1, <4>1, Zenon DEF CallOK, CreateOK
    <3>2. CASE c.op = "share"
      <4>0. /\ c.dev \in Fds /\ c.handle \in Handles /\ ion[c.dev][c.handle] # NoIon
            /\ size = ion[c.dev][c.handle].size /\ raced = ion[c.dev][c.handle].raced
            /\ born = IF ion[c.dev][c.handle].seen THEN "share" ELSE "elsewhere"
            /\ Returned(c.dev, c.handle)
        BY <3>2, Zenon DEF BirthCall, CreateCall, ExportCall
      <4>1. ~OnHandle("ionRecord", c.dev, c.handle)
        BY <4>0, Zenon DEF Returned, OnHandle
      <4>2. ~OnHandle("ionRecord", call[t].dev, call[t].handle)'
        <5>1. \A d \in Fds, h \in Handles :
                 call'[t].dev = d /\ call'[t].handle = h /\ ~OnHandle("ionRecord", d, h)'
                    => ~OnHandle("ionRecord", call[t].dev, call[t].handle)'
          BY Zenon DEF OnHandle
        <5> QED BY <1>2, <4>0, <4>1, <5>1, Zenon
      <4>3. ShareOK(call[t])'
        BY <1>2, <1>3, <1>5, <4>0, Zenon DEF ShareOK
      <4> QED BY <1>2, <3>2, <4>0, <4>2, <4>3, Zenon DEF CallOK
    <3> QED BY <1>1, <3>1, <3>2, Zenon
  <2> QED BY <1>2, <1>5, <2>1, LockCalls, Zenon
<1>9. IonInv'
  <2>1. \A h \in Handles : ion'[f][h] = NoIon
    BY <1>5, FreeNumber, Zenon
  <2>2. \A g \in Fds, h \in Handles : ion[g][h] # NoIon => file[g].kind = "ion"
    BY Zenon DEF IonInv, DmaInv, FlightInv
  <2>3. ASSUME NEW g \in Fds, NEW h \in Handles, ion'[g][h] # NoIon PROVE file'[g].kind = "ion"
    <3>1. g # f /\ file[g].kind = "ion"
      BY <1>5, <2>1, <2>2, <2>3, Zenon
    <3> QED BY <1>4, <3>1, Zenon
  <2> QED BY <2>3, Zenon DEF IonInv
<1>10. HandleInv'
  <2> SUFFICES ASSUME "close" \notin unseen, NEW g \in Fds, NEW h \in Handles PROVE HandleOK(g, h)'
    BY <1>5, Zenon DEF HandleInv
  <2>1. HandleOK(g, h)
    BY Zenon DEF DmaInv, FlightInv, HandleInv
  <2>2. OnFd("closed", g)' <=> OnFd("closed", g)
    BY <1>1, <1>2, Zenon DEF Locking
  <2> QED BY <1>2, <1>5, <2>1, <2>2, HandleKept, Zenon
<1> QED BY <1>2, <1>7, <1>8, <1>9, <1>10, Zenon DEF FlightInv

(* Births, by the ioctls that return a descriptor. *)
LEMMA BirthSteps ==
    ASSUME DmaInv, NEW t \in Threads, IoctlCreate(t) \/ IoctlShare(t)
    PROVE  FlightInv'
<1>1. CASE IoctlCreate(t)
  <2>1. PICK f \in Fds, size \in Sizes :
          /\ file[f] = NoFile /\ LockFds(t)
          /\ file' = [file EXCEPT ![f] = Buffer(size, "create", FALSE)]
          /\ Enter(t, SizedCall("create", f, size))
          /\ UNCHANGED <<ion, stateVars, unseen>>
    BY <1>1, Zenon DEF IoctlCreate, SizedCall
  <2>2. /\ SizedCall("create", f, size) \in Calls /\ SizedCall("create", f, size).fd = f
        /\ BirthCall(SizedCall("create", f, size), size, "create", FALSE)
    <3>1. "create" \in Ops
      BY Zenon DEF Ops
    <3>2. /\ SizedCall("create", f, size) \in Calls /\ SizedCall("create", f, size).op = "create"
          /\ SizedCall("create", f, size).fd = f /\ SizedCall("create", f, size).size = size
      BY <3>1, SizedCallFields
    <3> QED BY <3>2, Zenon DEF BirthCall, CreateCall
  <2> QED BY <2>1, <2>2, Birth, Zenon
<1>2. CASE IoctlShare(t)
  <2>1. PICK dev \in Fds, h \in Handles, f \in Fds :
          /\ ion[dev][h] # NoIon /\ file[f] = NoFile
          /\ Returned(dev, h) /\ LockFds(t)
          /\ file' = [file EXCEPT ![f] = Buffer(ion[dev][h].size,
                                                IF ion[dev][h].seen THEN "share" ELSE "elsewhere",
                                                ion[dev][h].raced)]
          /\ Enter(t, ShareCall("share", dev, h, f))
          /\ UNCHANGED <<ion, stateVars, unseen>>
    BY <1>2, Zenon DEF IoctlShare, ShareCall
  <2>2. PICK size \in Sizes, raced \in BOOLEAN : size = ion[dev][h].size /\ raced = ion[dev][h].raced
    <3>1. ion[dev] \in [Handles -> IonHandles \cup {NoIon}]
      BY Zenon DEF DmaInv, TypeOK
    <3>2. ion[dev][h] \in IonHandles
      BY <2>1, <3>1, Zenon
    <3> QED BY <3>2, Zenon DEF IonHandles
  <2>3. PICK born \in {"create", "share", "elsewhere"} : born = IF ion[dev][h].seen THEN "share" ELSE "elsewhere"
    BY Zenon
  <2>4. file' = [file EXCEPT ![f] = Buffer(size, born, raced)]
    BY <2>1, <2>2, <2>3, Zenon
  <2>5. /\ ShareCall("share", dev, h, f) \in Calls /\ ShareCall("share", dev, h, f).fd = f
        /\ BirthCall(ShareCall("share", dev, h, f), size, born, raced)
    <3>1. /\ ShareCall("share", dev, h, f) \in Calls /\ ShareCall("share", dev, h, f).op = "share"
          /\ ShareCall("share", dev, h, f).fd = f /\ ShareCall("share", dev, h, f).dev = dev
          /\ ShareCall("share", dev, h, f).handle = h
      <4>1. "share" \in Ops
        BY Zenon DEF Ops
      <4> QED BY <4>1, ShareCallFields
    <3> QED BY <2>1, <2>2, <2>3, <3>1, Zenon DEF BirthCall, ExportCall
  <2>6. /\ file[f] = NoFile /\ LockFds(t) /\ Enter(t, ShareCall("share", dev, h, f))
        /\ UNCHANGED <<ion, stateVars, unseen>>
    BY <2>1, Zenon
  <2> QED BY <2>4, <2>5, <2>6, Birth, Zenon
<1> QED BY <1>1, <1>2, Zenon

(* Nothing is known of a descriptor yet that a call has just been entered on. *)
LEMMA LockSteps ==
    ASSUME DmaInv, NEW t \in Threads, NEW f \in Fds, NEW op \in {"camera", "mapped"},
           LockFds(t), Enter(t, FdCall(op, f)), UNCHANGED <<ion, stateVars, unseen>>,
           \A g \in Fds : g # f => file'[g] = file[g],
           file'[f].kind = file[f].kind, file'[f].size = file[f].size,
           file'[f].born = file[f].born, file'[f].raced = file[f].raced,
           file'[f].told => file[f].kind = "dma",
           file'[f].mapped => file[f].mapped \/ (op = "mapped" /\ file'[f].told)
    PROVE  FlightInv'
<1> DEFINE c == FdCall(op, f)
<1>1. c \in Calls /\ c.op = op /\ c.fd = f /\ op \in Locking
  <2>1. op \in Ops /\ op \in Locking
    BY Zenon DEF Ops, Locking
  <2> QED BY <2>1, FdCallFields
<1> HIDE DEF c
<1>2. /\ call'[t] = c /\ (\A u \in Threads : u # t => call'[u] = call[u])
      /\ (\A u \in Threads : call[u].op \notin Locking) /\ MutexInv'
      /\ \A o \in Locking, g \in Fds : ~OnFd(o, g) /\ (OnFd(o, g)' <=> op = o /\ f = g)
      /\ \A o \in {"ionRecord", "ionDrop"}, dev \in Fds, h \in Handles :
            OnHandle(o, dev, h)' <=> OnHandle(o, dev, h)
  <2>1. Enter(t, c)
    BY Zenon DEF c
  <2> QED BY <1>1, <2>1, LockTaken, Zenon
<1>3. UNCHANGED <<ion, dma_fds, records, pending_ion_allocations, unseen>>
  BY Zenon DEF stateVars
<1>4. \A g \in Fds : /\ ~OnFd("create", g) /\ ~OnFd("share", g) /\ ~OnFd("closed", g) /\ ~OnFd("mapped", g)
                     /\ ~OnFd("create", g)' /\ ~OnFd("share", g)' /\ ~OnFd("closed", g)'
                     /\ g # f => ~OnFd("mapped", g)'
                     /\ g = f /\ op = "mapped" => OnFd("mapped", g)'
  BY <1>2, Zenon DEF Locking
<1>5. FdInv'
  <2> SUFFICES ASSUME NEW g \in Fds PROVE FdOK(g)'
    BY Zenon DEF FdInv
  <2>1. FdOK(g)
    BY Zenon DEF DmaInv, FlightInv, FdInv
  <2>2. CASE g # f
    <3>1. \A o \in {"create", "share", "closed", "mapped"} : OnFd(o, g)' <=> OnFd(o, g)
      BY <1>4, <2>2, Zenon
    <3>2. file'[g] = file[g] /\ dma_fds'[g] = dma_fds[g] /\ records'[g] = records[g] /\ unseen' = unseen
      BY <1>3, <2>2, Zenon
    <3> QED BY <2>1, <3>1, <3>2, FdKept, Zenon
  <2>3. CASE g = f
    <3>1. FileOK(f)' /\ EntryOK(f)'
      <4>1. FileOK(f) /\ EntryOK(f)
        BY <2>1, <2>3, Zenon DEF FdOK
      <4>2. EntryOK(f)'
        BY <1>3, <4>1, Zenon DEF EntryOK
      <4>3. file[f].kind # "dma" => ~file'[f].mapped /\ ~file'[f].told
        BY <4>1, Zenon DEF FileOK
      <4> QED BY <4>1, <4>2, <4>3, Zenon DEF FileOK
    <3>2. CountOK(f)'
      <4>1. file[f].born = "create" => records[f] = file[f].size
        BY <1>4, <2>1, <2>3, Zenon DEF FdOK, CountOK
      <4>2. file'[f].mapped => records[f] # NoSize \/ (OnFd("mapped", f)' /\ file'[f].told)
        BY <1>4, <2>1, <2>3, Zenon DEF FdOK, CountOK
      <4> QED BY <1>3, <4>1, <4>2, Zenon DEF CountOK
    <3>3. StaleOK(f) => StaleOK(f)'
      BY <1>3, <1>4, Zenon DEF StaleOK
    <3>4. SizeOK(f) => SizeOK(f)'
      BY <1>3, <1>4, Zenon DEF SizeOK
    <3> QED BY <1>3, <2>1, <2>3, <3>1, <3>2, <3>3, <3>4, Zenon DEF FdOK
  <2> QED BY <2>2, <2>3, Zenon
<1>6. CallInv'
  <2>1. CallOK(call[t])'
    BY <1>1, <1>2, Zenon DEF CallOK
  <2> QED BY <1>2, <1>3, <2>1, LockCalls, Zenon
<1>7. IonInv'
  BY <1>3, Zenon DEF IonInv, DmaInv, FlightInv
<1>8. HandleInv'
  <2> SUFFICES ASSUME "close" \notin unseen, NEW g \in Fds, NEW h \in Handles PROVE HandleOK(g, h)'
    BY <1>3, Zenon DEF HandleInv
  <2>1. HandleOK(g, h)
    BY Zenon DEF DmaInv, FlightInv, HandleInv
  <2>2. OnFd("closed", g)' <=> OnFd("closed", g)
    BY <1>4, Zenon
  <2> QED BY <1>2, <1>3, <2>1, <2>2, HandleKept, Zenon
<1> QED BY <1>2, <1>5, <1>6, <1>7, <1>8, Zenon DEF FlightInv

(* A descriptor that is going to be closed. *)
LEMMA CloseStep ==
    ASSUME DmaInv, NEW t \in Threads, Close(t)
    PROVE  FlightInv'
<1>1. PICK f \in Fds :
        /\ ~Busy(f) /\ LockFds(t)
        /\ file' = [file EXCEPT ![f] = NoFile]
        /\ ion' = [ion EXCEPT ![f] = [h \in Handles |-> NoIon]]
        /\ Enter(t, FdCall("closed", f))
        /\ UNCHANGED <<stateVars, unseen>>
  BY Zenon DEF Close, FdCall
<1> DEFINE c == FdCall("closed", f)
<1>2. c \in Calls /\ c.op = "closed" /\ c.fd = f
  <2>1. "closed" \in Ops
    BY Zenon DEF Ops
  <2> QED BY <2>1, FdCallFields
<1> HIDE DEF c
<1>3. /\ call'[t] = c /\ (\A u \in Threads : u # t => call'[u] = call[u])
      /\ (\A u \in Threads : call[u].op \notin Locking) /\ MutexInv'
      /\ \A o \in Locking, g \in Fds : ~OnFd(o, g) /\ (OnFd(o, g)' <=> c.op = o /\ c.fd = g)
      /\ \A o \in {"ionRecord", "ionDrop"}, dev \in Fds, h \in Handles :
            OnHandle(o, dev, h)' <=> OnHandle(o, dev, h)
  <2>1. Enter(t, c) /\ c.op \in Locking
    BY <1>1, <1>2, Zenon DEF c, Locking
  <2> QED BY <1>1, <1>2, <2>1, LockTaken, Zenon
<1>4. UNCHANGED <<dma_fds, records, pending_ion_allocations, unseen>>
  BY <1>1, Zenon DEF stateVars
<1>5. /\ file'[f] = NoFile /\ \A h \in Handles : ion'[f][h] = NoIon
      /\ \A g \in Fds : g # f => file'[g] = file[g] /\ ion'[g] = ion[g]
  BY <1>1, Zenon DEF DmaInv, TypeOK
<1>6. \A g \in Fds : /\ ~OnFd("create", g) /\ ~OnFd("share", g) /\ ~OnFd("closed", g) /\ ~OnFd("mapped", g)
                     /\ ~OnFd("create", g)' /\ ~OnFd("share", g)' /\ ~OnFd("mapped", g)'
                     /\ OnFd("closed", g)' <=> g = f
  BY <1>2, <1>3, Zenon DEF Locking
<1>7. FdInv'
  <2> SUFFICES ASSUME NEW g \in Fds PROVE FdOK(g)'
    BY Zenon DEF FdInv
  <2>1. FdOK(g)
    BY Zenon DEF DmaInv, FlightInv, FdInv
  <2>2. CASE g # f
    <3>1. \A o \in {"create", "share", "closed", "mapped"} : OnFd(o, g)' <=> OnFd(o, g)
      BY <1>6, <2>2, Zenon
    <3>2. file'[g] = file[g] /\ dma_fds'[g] = dma_fds[g] /\ records'[g] = records[g] /\ unseen' = unseen
      BY <1>4, <1>5, <2>2, Zenon
    <3> QED BY <2>1, <3>1, <3>2, FdKept, Zenon
  <2>3. CASE g = f
    <3>1. file'[f].kind # "dma" /\ file'[f].born = "elsewhere" /\ ~file'[f].mapped /\ ~file'[f].told
      BY <1>5, FileFields, Zenon
    <3>2. FileOK(f)' /\ CountOK(f)'
      BY <3>1, Zenon DEF FileOK, CountOK
    <3>3. EntryOK(f)'
      BY <1>4, <2>1, <2>3, Zenon DEF EntryOK, FdOK
    <3>4. StaleOK(f)' /\ SizeOK(f)'
      BY <1>6, <3>1, Zenon DEF StaleOK, SizeOK
    <3> QED BY <2>3, <3>2, <3>3, <3>4, Zenon DEF FdOK
  <2> QED BY <2>2, <2>3, Zenon
<1>8. CallInv'
  <2>1. CallOK(call[t])'
    <3>1. ClosedOK(call[t])'
      BY <1>2, <1>3, <1>5, FileFields, Zenon DEF ClosedOK
    <3> QED BY <1>2, <1>3, <3>1, Zenon DEF CallOK
  <2>2. ASSUME NEW u \in Threads, call[u].op = "ionRecord"
        PROVE  ion'[call[u].dev][call[u].handle] = ion[call[u].dev][call[u].handle]
    <3>1. call[u] # NoCall
      BY <2>2, CallFields, Zenon
    <3>2. call[u].dev \in Fds /\ call[u].dev # f
      BY <1>1, <2>2, <3>1, Zenon DEF Busy, DmaInv, FlightInv, CallInv, CallOK
    <3> QED BY <1>5, <3>2, Zenon
  <2> QED BY <1>3, <2>1, <2>2, LockCalls, Zenon
<1>9. IonInv'
  <2>1. \A g \in Fds, h \in Handles : ion[g][h] # NoIon => file[g].kind = "ion"
    BY Zenon DEF IonInv, DmaInv, FlightInv
  <2> QED BY <1>5, <2>1, Zenon DEF IonInv
<1>10. HandleInv'
  <2> SUFFICES ASSUME "close" \notin unseen, NEW g \in Fds, NEW h \in Handles PROVE HandleOK(g, h)'
    BY <1>4, Zenon DEF HandleInv
  <2>1. HandleOK(g, h)
    BY Zenon DEF DmaInv, FlightInv, HandleInv
  <2>2. CASE g # f
    <3>1. OnFd("closed", g)' <=> OnFd("closed", g)
      BY <1>6, <2>2, Zenon
    <3>2. ion'[g][h] = ion[g][h]
      BY <1>5, <2>2, Zenon
    <3> QED BY <1>3, <1>4, <2>1, <3>1, <3>2, HandleKept, Zenon
  <2>3. CASE g = f
    <3>1. FreeInFlight(g, h)'
      <4>1. OnFd("closed", g)'
        BY <1>6, <2>3, Zenon
      <4> QED BY <4>1, Zenon DEF OnFd, FreeInFlight
    <3> QED BY <1>5, <2>3, <3>1, Zenon DEF HandleOK
  <2> QED BY <2>2, <2>3, Zenon
<1> QED BY <1>3, <1>7, <1>8, <1>9, <1>10, Zenon DEF FlightInv

(* The handle that an allocation or an import makes. *)
NewHandle(size, seen, raced) == [size |-> size, seen |-> seen, raced |-> raced]

(* So it has the fields it is given and is no empty slot. *)
LEMMA NewHandleFields ==
    ASSUME NEW size \in Sizes, NEW seen \in BOOLEAN, NEW raced \in BOOLEAN
    PROVE  /\ NewHandle(size, seen, raced) \in IonHandles /\ NewHandle(size, seen, raced) # NoIon
           /\ NewHandle(size, seen, raced).size = size
           /\ NewHandle(size, seen, raced).seen <=> seen
           /\ NewHandle(size, seen, raced).raced <=> raced
<1>1. NewHandle(size, seen, raced) \in IonHandles /\ NewHandle(size, seen, raced).size = size
  BY Zenon DEF NewHandle, IonHandles
<1>2. NewHandle(size, seen, raced).seen = seen /\ NewHandle(size, seen, raced).raced = raced
  BY Zenon DEF NewHandle
<1>3. NoIon.size = NoSize
  BY Zenon DEF NoIon
<1>4. size # NoSize
  BY SizesAssumption DEF NoSize
<1> QED BY <1>1, <1>2, <1>3, <1>4, Zenon

(* An update of the handles of all devices at one of them. *)
IonWith(dev, h, x) == [ion EXCEPT ![dev][h] = x]

(* That update is one of its slot only. *)
LEMMA IonUpdated ==
    ASSUME TypeOK, NEW dev \in Fds, NEW h \in Handles, NEW x
    PROVE  /\ IonWith(dev, h, x)[dev][h] = x
           /\ \A g \in Fds, k \in Handles : g # dev \/ k # h => IonWith(dev, h, x)[g][k] = ion[g][k]
<1> DEFINE new == IonWith(dev, h, x)
<1>1. ion \in [Fds -> [Handles -> IonHandles \cup {NoIon}]]
  BY Zenon DEF TypeOK
<1>2. new = [ion EXCEPT ![dev] = [ion[dev] EXCEPT ![h] = x]]
  BY DEF IonWith
<1> HIDE DEF new
<1>3. new[dev] = [ion[dev] EXCEPT ![h] = x] /\ \A g \in Fds : g # dev => new[g] = ion[g]
  BY <1>1, <1>2, Zenon
<1>4. ion[dev] \in [Handles -> IonHandles \cup {NoIon}]
  BY <1>1, Zenon
<1>5. new[dev][h] = x /\ \A k \in Handles : k # h => new[dev][k] = ion[dev][k]
  BY <1>3, <1>4, Zenon
<1>6. ASSUME NEW g \in Fds, NEW k \in Handles, g # dev \/ k # h PROVE new[g][k] = ion[g][k]
  <2>1. CASE g = dev
    BY <1>5, <1>6, <2>1, Zenon
  <2>2. CASE g # dev
    BY <1>3, <2>2, Zenon
  <2> QED BY <2>1, <2>2, Zenon
<1> QED BY <1>5, <1>6, Zenon DEF new

(* Calls on handles hold no lock and disturb no descriptor. *)
LEMMA HandleCalls ==
    ASSUME DmaInv, NEW t \in Threads, call[t] = NoCall, \A u \in Threads : u # t => call'[u] = call[u],
           call'[t].op \in {"none", "ionRecord", "ionDrop"},
           UNCHANGED <<file, stateVars, unseen, fd_transaction_mutex>>
    PROVE  /\ MutexInv' /\ FdInv'
           /\ \A g \in Fds : OnFd("closed", g)' <=> OnFd("closed", g)
<1>1. MutexInv'
  BY Zenon DEF MutexInv, Locking, DmaInv, FlightInv
<1>2. \A o \in {"create", "share", "closed", "mapped"}, g \in Fds : OnFd(o, g)' <=> OnFd(o, g)
  <2> SUFFICES ASSUME NEW o \in {"create", "share", "closed", "mapped"}, NEW g \in Fds
               PROVE  OnFd(o, g)' <=> OnFd(o, g)
    BY Zenon
  <2>1. o \in Ops /\ call'[t].op # o
    BY Zenon DEF Ops
  <2> QED BY <2>1, Entered, Zenon
<1>3. FdInv'
  <2> SUFFICES ASSUME NEW g \in Fds PROVE FdOK(g)'
    BY Zenon DEF FdInv
  <2>1. FdOK(g)
    BY Zenon DEF DmaInv, FlightInv, FdInv
  <2>2. file'[g] = file[g] /\ dma_fds'[g] = dma_fds[g] /\ records'[g] = records[g] /\ unseen' = unseen
    BY Zenon DEF stateVars
  <2> QED BY <1>2, <2>1, <2>2, FdKept, Zenon
<1> QED BY <1>1, <1>2, <1>3, Zenon

(* A handle comes: allocated, with a call that will record its size, or imported. *)
BornHandle(t, dev, h, size, seen) ==
    IF seen THEN call'[t] = RecordCall("ionRecord", dev, h, size) ELSE call'[t] = NoCall

(* A handle comes to be at a free slot of its device, with or without such a call. *)
LEMMA HandleBirth ==
    ASSUME DmaInv, NEW t \in Threads, NEW dev \in Fds, NEW h \in Handles, NEW size \in Sizes,
           NEW seen \in BOOLEAN, file[dev].kind = "ion", ion[dev][h] = NoIon,
           NEW raced \in BOOLEAN, raced <=> FreeInFlight(dev, h),
           ion' = IonWith(dev, h, NewHandle(size, seen, raced)),
           call[t] = NoCall, \A u \in Threads : u # t => call'[u] = call[u],
           BornHandle(t, dev, h, size, seen),
           UNCHANGED <<file, stateVars, unseen, fd_transaction_mutex>>
    PROVE  FlightInv'
<1>1. /\ call'[t].op \in {"none", "ionRecord", "ionDrop"}
      /\ call'[t].op # "ionDrop"
      /\ IF seen THEN /\ call'[t].op = "ionRecord" /\ call'[t].dev = dev /\ call'[t].handle = h
                      /\ call'[t].size = size
                 ELSE call'[t].op = "none"
  <2>1. CASE seen
    <3>1. "ionRecord" \in Ops
      BY Zenon DEF Ops
    <3>2. /\ call'[t].op = "ionRecord" /\ call'[t].dev = dev /\ call'[t].handle = h
          /\ call'[t].size = size
      <4>1. call'[t] = RecordCall("ionRecord", dev, h, size)
        BY <2>1, Zenon DEF BornHandle
      <4> QED BY <3>1, <4>1, RecordCallFields
    <3> QED BY <2>1, <3>2, Zenon
  <2>2. CASE ~seen
    BY <2>2, CallFields, Zenon DEF BornHandle
  <2> QED BY <2>1, <2>2, Zenon
<1>2. MutexInv' /\ FdInv' /\ \A g \in Fds : OnFd("closed", g)' <=> OnFd("closed", g)
  BY <1>1, HandleCalls, Zenon
<1>3. /\ ion'[dev][h] # NoIon /\ ion'[dev][h].size = size /\ (ion'[dev][h].seen <=> seen)
      /\ (ion'[dev][h].raced <=> FreeInFlight(dev, h))
      /\ \A g \in Fds, k \in Handles : g # dev \/ k # h => ion'[g][k] = ion[g][k]
  <2>1. /\ ion'[dev][h] = NewHandle(size, seen, raced)
        /\ \A g \in Fds, k \in Handles : g # dev \/ k # h => ion'[g][k] = ion[g][k]
    <3>1. TypeOK
      BY Zenon DEF DmaInv
    <3> QED BY <3>1, IonUpdated
  <2>2. /\ NewHandle(size, seen, raced) # NoIon /\ NewHandle(size, seen, raced).size = size
        /\ (NewHandle(size, seen, raced).seen <=> seen) /\ (NewHandle(size, seen, raced).raced <=> raced)
    BY NewHandleFields
  <2> QED BY <2>1, <2>2, Zenon
<1>4. /\ \A g \in Fds, k \in Handles : OnHandle("ionDrop", g, k)' <=> OnHandle("ionDrop", g, k)
      /\ \A g \in Fds, k \in Handles : g # dev \/ k # h =>
            (OnHandle("ionRecord", g, k)' <=> OnHandle("ionRecord", g, k))
      /\ seen => OnHandle("ionRecord", dev, h)'
  <2>1. {"ionDrop", "ionRecord"} \subseteq Ops
    BY Zenon DEF Ops
  <2>2. \A o \in Ops, g \in Fds, k \in Handles :
           OnHandle(o, g, k)' <=>
               OnHandle(o, g, k) \/ (call'[t].op = o /\ call'[t].dev = g /\ call'[t].handle = k)
    BY Entered, Zenon
  <2>3. \A g \in Fds, k \in Handles : OnHandle("ionDrop", g, k)' <=> OnHandle("ionDrop", g, k)
    BY <1>1, <2>1, <2>2, Zenon
  <2>4. ASSUME NEW g \in Fds, NEW k \in Handles, g # dev \/ k # h
        PROVE  OnHandle("ionRecord", g, k)' <=> OnHandle("ionRecord", g, k)
    <3>1. ~(call'[t].op = "ionRecord" /\ call'[t].dev = g /\ call'[t].handle = k)
      BY <1>1, <2>4, Zenon
    <3> QED BY <2>1, <2>2, <3>1, Zenon
  <2>5. seen => OnHandle("ionRecord", dev, h)'
    BY <1>1, <2>1, <2>2, Zenon
  <2> QED BY <2>3, <2>4, <2>5, Zenon
<1>5. IonInv'
  <2>1. \A g \in Fds, k \in Handles : ion[g][k] # NoIon => file[g].kind = "ion"
    BY Zenon DEF IonInv, DmaInv, FlightInv
  <2>2. ASSUME NEW g \in Fds, NEW k \in Handles, ion'[g][k] # NoIon PROVE file'[g].kind = "ion"
    <3>1. CASE g = dev
      BY <3>1, Zenon
    <3>2. CASE g # dev
      <4>1. ion'[g][k] = ion[g][k]
        BY <1>3, <3>2, Zenon
      <4> QED BY <2>1, <2>2, <4>1, Zenon
    <3> QED BY <3>1, <3>2, Zenon
  <2> QED BY <2>2, Zenon DEF IonInv
<1>6. HandleInv'
  <2> SUFFICES ASSUME "close" \notin unseen, NEW g \in Fds, NEW k \in Handles PROVE HandleOK(g, k)'
    BY Zenon DEF HandleInv
  <2>1. HandleOK(g, k)
    BY Zenon DEF DmaInv, FlightInv, HandleInv
  <2>2. pending_ion_allocations' = pending_ion_allocations
    BY Zenon DEF stateVars
  <2>3. CASE g # dev \/ k # h
    <3>1. ion'[g][k] = ion[g][k]
      BY <1>3, <2>3, Zenon
    <3>2. \A o \in {"ionRecord", "ionDrop"} : OnHandle(o, g, k)' <=> OnHandle(o, g, k)
      BY <1>4, <2>3, Zenon
    <3> QED BY <1>2, <2>1, <2>2, <3>1, <3>2, HandleKept, Zenon
  <2>4. CASE g = dev /\ k = h
    <3>1. FreeInFlight(dev, h)' <=> FreeInFlight(dev, h)
      <4>1. FreeInFlight(dev, h)' <=> OnHandle("ionDrop", dev, h)' \/ OnFd("closed", dev)'
        BY Zenon DEF FreeInFlight, OnFd, OnHandle
      <4> QED BY <1>2, <1>4, <4>1, FreeFlights, Zenon
    <3>2. pending_ion_allocations[dev][h] = NoSize \/ FreeInFlight(dev, h)
      BY <2>1, <2>4, Zenon DEF HandleOK
    <3>3. ~FreeInFlight(dev, h) => LiveOK(dev, h)'
      BY <1>3, <1>4, <2>2, <3>1, <3>2, Zenon DEF LiveOK
    <3> QED BY <1>3, <2>4, <3>3, Zenon DEF HandleOK
  <2> QED BY <2>3, <2>4, Zenon
<1>7. CallInv'
  <2> SUFFICES ASSUME NEW u \in Threads PROVE CallOK(call[u])'
    BY Zenon DEF CallInv
  <2>1. CASE u = t
    <3>1. CASE seen
      <4>1. RecordOK(call[t])'
        BY <1>1, <1>3, <3>1, Zenon DEF RecordOK
      <4> QED BY <1>1, <2>1, <3>1, <4>1, Zenon DEF CallOK, Locking
    <3>2. CASE ~seen
      BY <1>1, <2>1, <3>2, Zenon DEF CallOK, Locking
    <3> QED BY <3>1, <3>2, Zenon
  <2>2. CASE u # t
    <3>1. CallOK(call[u]) /\ call'[u] = call[u]
      BY <2>2, Zenon DEF DmaInv, FlightInv, CallInv
    <3>2. call[u].op \in {"share", "ionRecord"} =>
             /\ call[u].dev \in Fds /\ call[u].handle \in Handles
             /\ call[u].dev # dev \/ call[u].handle # h
      BY <3>1, Zenon DEF CallOK, ShareOK, RecordOK
    <3>3. call[u].op \in {"share", "ionRecord"} =>
             ion'[call[u].dev][call[u].handle] = ion[call[u].dev][call[u].handle]
      BY <1>3, <3>2, Zenon
    <3>4. call[u].op = "share" => ~OnHandle("ionRecord", call[u].dev, call[u].handle)'
      <4>1. ASSUME NEW g \in Fds, NEW k \in Handles, call'[u].dev = g, call'[u].handle = k,
                   ~OnHandle("ionRecord", g, k)'
            PROVE  ~OnHandle("ionRecord", call[u].dev, call[u].handle)'
        BY <4>1, Zenon DEF OnHandle
      <4>2. call[u].op = "share" => ~OnHandle("ionRecord", call[u].dev, call[u].handle)
        BY <3>1, Zenon DEF CallOK
      <4> QED BY <1>4, <3>1, <3>2, <4>1, <4>2, Zenon
    <3> QED BY <3>1, <3>3, <3>4, CallKept, Zenon
  <2> QED BY <2>1, <2>2, Zenon
<1> QED BY <1>2, <1>5, <1>6, <1>7, Zenon DEF FlightInv

(* A handle goes: no thread is still allocating or exporting it. *)
LEMMA HandleDeath ==
    ASSUME DmaInv, NEW t \in Threads, IoctlIonFree(t)
    PROVE  FlightInv'
<1>1. PICK dev \in Fds, h \in Handles :
        /\ ion[dev][h] # NoIon /\ Returned(dev, h)
        /\ ion' = IonWith(dev, h, NoIon)
        /\ Enter(t, HandleCall("ionDrop", dev, h))
        /\ UNCHANGED <<file, stateVars, unseen, fd_transaction_mutex>>
  BY Zenon DEF IoctlIonFree, HandleCall, IonWith
<1>2. /\ call[t] = NoCall /\ call'[t].op = "ionDrop" /\ call'[t].dev = dev /\ call'[t].handle = h
      /\ \A u \in Threads : u # t => call'[u] = call[u]
  <2>1. /\ call[t] = NoCall /\ call'[t] = HandleCall("ionDrop", dev, h)
        /\ \A u \in Threads : u # t => call'[u] = call[u]
    BY <1>1, Zenon DEF Enter, DmaInv, TypeOK
  <2>2. "ionDrop" \in Ops
    BY Zenon DEF Ops
  <2>3. call'[t].op = "ionDrop" /\ call'[t].dev = dev /\ call'[t].handle = h
    BY <2>1, <2>2, HandleCallFields
  <2> QED BY <2>1, <2>3, Zenon
<1>3. MutexInv' /\ FdInv' /\ \A g \in Fds : OnFd("closed", g)' <=> OnFd("closed", g)
  BY <1>1, <1>2, HandleCalls, Zenon
<1>4. /\ ion'[dev][h] = NoIon
      /\ \A g \in Fds, k \in Handles : g # dev \/ k # h => ion'[g][k] = ion[g][k]
  <2>1. TypeOK
    BY Zenon DEF DmaInv
  <2> QED BY <1>1, <2>1, IonUpdated
<1>5. /\ \A g \in Fds, k \in Handles : OnHandle("ionRecord", g, k)' <=> OnHandle("ionRecord", g, k)
      /\ \A g \in Fds, k \in Handles : g # dev \/ k # h =>
            (OnHandle("ionDrop", g, k)' <=> OnHandle("ionDrop", g, k))
      /\ OnHandle("ionDrop", dev, h)'
  <2>1. {"ionDrop", "ionRecord"} \subseteq Ops
    BY Zenon DEF Ops
  <2>2. \A o \in Ops, g \in Fds, k \in Handles :
           OnHandle(o, g, k)' <=>
               OnHandle(o, g, k) \/ (call'[t].op = o /\ call'[t].dev = g /\ call'[t].handle = k)
    BY <1>2, Entered, Zenon
  <2>3. \A g \in Fds, k \in Handles : OnHandle("ionRecord", g, k)' <=> OnHandle("ionRecord", g, k)
    BY <1>2, <2>1, <2>2, Zenon
  <2>4. ASSUME NEW g \in Fds, NEW k \in Handles, g # dev \/ k # h
        PROVE  OnHandle("ionDrop", g, k)' <=> OnHandle("ionDrop", g, k)
    <3>1. ~(call'[t].op = "ionDrop" /\ call'[t].dev = g /\ call'[t].handle = k)
      BY <1>2, <2>4, Zenon
    <3> QED BY <2>1, <2>2, <3>1, Zenon
  <2>5. OnHandle("ionDrop", dev, h)'
    BY <1>2, <2>1, <2>2, Zenon
  <2> QED BY <2>3, <2>4, <2>5, Zenon
<1>6. IonInv'
  BY <1>1, <1>4, Zenon DEF IonInv, DmaInv, FlightInv
<1>7. HandleInv'
  <2> SUFFICES ASSUME "close" \notin unseen, NEW g \in Fds, NEW k \in Handles PROVE HandleOK(g, k)'
    BY <1>1, Zenon DEF HandleInv
  <2>1. HandleOK(g, k)
    BY Zenon DEF DmaInv, FlightInv, HandleInv
  <2>2. CASE g # dev \/ k # h
    <3>1. /\ ion'[g][k] = ion[g][k] /\ pending_ion_allocations'[g][k] = pending_ion_allocations[g][k]
          /\ \A o \in {"ionRecord", "ionDrop"} : OnHandle(o, g, k)' <=> OnHandle(o, g, k)
      BY <1>1, <1>4, <1>5, <2>2, Zenon DEF stateVars
    <3> QED BY <1>3, <2>1, <3>1, HandleKept, Zenon
  <2>3. CASE g = dev /\ k = h
    <3>1. FreeInFlight(dev, h)'
      BY <1>5, Zenon DEF FreeInFlight, OnHandle
    <3> QED BY <1>4, <2>3, <3>1, Zenon DEF HandleOK
  <2> QED BY <2>2, <2>3, Zenon
<1>8. CallInv'
  <2> SUFFICES ASSUME NEW u \in Threads PROVE CallOK(call[u])'
    BY Zenon DEF CallInv
  <2>1. CASE u = t
    BY <1>2, <2>1, Zenon DEF CallOK, Locking
  <2>2. CASE u # t
    <3>1. CallOK(call[u]) /\ call'[u] = call[u]
      BY <1>2, <2>2, Zenon DEF DmaInv, FlightInv, CallInv
    <3>2. call[u].op \in {"share", "ionRecord"} =>
             /\ call[u].dev \in Fds /\ call[u].handle \in Handles
             /\ call[u].dev # dev \/ call[u].handle # h
      BY <1>1, <3>1, Zenon DEF CallOK, Returned
    <3>3. call[u].op \in {"share", "ionRecord"} =>
             ion'[call[u].dev][call[u].handle] = ion[call[u].dev][call[u].handle]
      BY <1>4, <3>2, Zenon
    <3>4. call[u].op = "share" => ~OnHandle("ionRecord", call[u].dev, call[u].handle)'
      <4>1. ASSUME NEW g \in Fds, NEW k \in Handles, call'[u].dev = g, call'[u].handle = k,
                   ~OnHandle("ionRecord", g, k)'
            PROVE  ~OnHandle("ionRecord", call[u].dev, call[u].handle)'
        BY <4>1, Zenon DEF OnHandle
      <4>2. call[u].op = "share" => ~OnHandle("ionRecord", call[u].dev, call[u].handle)
        BY <3>1, Zenon DEF CallOK
      <4> QED BY <1>5, <3>1, <3>2, <4>1, <4>2, Zenon
    <3> QED BY <1>1, <3>1, <3>3, <3>4, CallKept, Zenon
  <2> QED BY <2>1, <2>2, Zenon
<1> QED BY <1>3, <1>6, <1>7, <1>8, Zenon DEF FlightInv

(* Handles come by allocation and by import. *)
LEMMA HandleSteps ==
    ASSUME DmaInv, NEW t \in Threads, IoctlIonAlloc(t) \/ IoctlIonImport(t)
    PROVE  FlightInv'
<1>1. CASE IoctlIonAlloc(t)
  <2>1. PICK dev \in Fds, h \in Handles, size \in Sizes :
          /\ file[dev].kind = "ion" /\ ion[dev][h] = NoIon
          /\ ion' = IonWith(dev, h, NewHandle(size, TRUE, FreeInFlight(dev, h)))
          /\ Enter(t, RecordCall("ionRecord", dev, h, size))
          /\ UNCHANGED <<file, stateVars, unseen, fd_transaction_mutex>>
    BY <1>1, Zenon DEF IoctlIonAlloc, IonWith, NewHandle, RecordCall
  <2>2. PICK raced \in BOOLEAN : raced = FreeInFlight(dev, h)
    BY Zenon DEF FreeInFlight
  <2>3. /\ call[t] = NoCall /\ call'[t] = RecordCall("ionRecord", dev, h, size)
        /\ \A u \in Threads : u # t => call'[u] = call[u]
    BY <2>1, Zenon DEF Enter, DmaInv, TypeOK
  <2>4. BornHandle(t, dev, h, size, TRUE)
    BY <2>3, Zenon DEF BornHandle
  <2>5. (raced <=> FreeInFlight(dev, h)) /\ ion' = IonWith(dev, h, NewHandle(size, TRUE, raced))
    BY <2>1, <2>2, Zenon
  <2>6. file[dev].kind = "ion" /\ ion[dev][h] = NoIon /\ UNCHANGED <<file, stateVars, unseen, fd_transaction_mutex>>
    BY <2>1, Zenon
  <2>7. call[t] = NoCall /\ \A u \in Threads : u # t => call'[u] = call[u]
    BY <2>3, Zenon
  <2> QED BY <2>4, <2>5, <2>6, <2>7, HandleBirth, Zenon
<1>2. CASE IoctlIonImport(t)
  <2>1. PICK dev \in Fds, h \in Handles, size \in Sizes :
          /\ file[dev].kind = "ion" /\ ion[dev][h] = NoIon
          /\ call[t] = NoCall
          /\ ion' = IonWith(dev, h, NewHandle(size, FALSE, FreeInFlight(dev, h)))
          /\ UNCHANGED <<file, stateVars, unseen, fd_transaction_mutex, call>>
    BY <1>2, Zenon DEF IoctlIonImport, IonWith, NewHandle
  <2>2. PICK raced \in BOOLEAN : raced = FreeInFlight(dev, h)
    BY Zenon DEF FreeInFlight
  <2>3. BornHandle(t, dev, h, size, FALSE)
    BY <2>1, Zenon DEF BornHandle
  <2>4. (raced <=> FreeInFlight(dev, h)) /\ ion' = IonWith(dev, h, NewHandle(size, FALSE, raced))
    BY <2>1, <2>2, Zenon
  <2>5. file[dev].kind = "ion" /\ ion[dev][h] = NoIon /\ UNCHANGED <<file, stateVars, unseen, fd_transaction_mutex>>
    BY <2>1, Zenon
  <2>6. call[t] = NoCall /\ \A u \in Threads : u # t => call'[u] = call[u]
    BY <2>1, Zenon
  <2> QED BY <2>3, <2>4, <2>5, <2>6, HandleBirth, Zenon
<1> QED BY <1>1, <1>2, Zenon

(* What fdinfo says, and a mapping, leave everything else about a file. *)
LEMMA ShownFields ==
    ASSUME NEW x \in Files, NEW told \in BOOLEAN, NEW mapped \in BOOLEAN
    PROVE  /\ Shown(x, told, mapped) \in Files
           /\ Shown(x, told, mapped).kind = x.kind /\ Shown(x, told, mapped).size = x.size
           /\ Shown(x, told, mapped).born = x.born /\ Shown(x, told, mapped).raced = x.raced
           /\ Shown(x, told, mapped).told = told /\ Shown(x, told, mapped).mapped = mapped
BY Zenon DEF Shown, Files

(* A camera call or a mapping under the lock, whatever fdinfo says. *)
LEMMA ShownStep ==
    ASSUME DmaInv, NEW t \in Threads, NEW f \in Fds, NEW op \in {"camera", "mapped"},
           NEW told \in BOOLEAN, NEW mapped \in BOOLEAN, file[f] \in Files,
           told => file[f].kind = "dma", mapped => file[f].mapped \/ (op = "mapped" /\ told),
           LockFds(t), Enter(t, FdCall(op, f)), UNCHANGED <<ion, stateVars, unseen>>,
           file' = [file EXCEPT ![f] = Shown(file[f], told, mapped)]
    PROVE  FlightInv'
<1>1. file'[f] = Shown(file[f], told, mapped) /\ \A g \in Fds : g # f => file'[g] = file[g]
  BY Zenon DEF DmaInv, TypeOK
<1>2. /\ file'[f].kind = file[f].kind /\ file'[f].size = file[f].size
      /\ file'[f].born = file[f].born /\ file'[f].raced = file[f].raced
      /\ file'[f].told = told /\ file'[f].mapped = mapped
  BY <1>1, ShownFields
<1>3. /\ file'[f].told => file[f].kind = "dma"
      /\ file'[f].mapped => file[f].mapped \/ (op = "mapped" /\ file'[f].told)
  BY <1>2, Zenon
<1> QED BY <1>1, <1>2, <1>3, LockSteps, Zenon

(* A step of which no conjunct of the invariant speaks. *)
LEMMA QuietStep ==
    ASSUME DmaInv, UNCHANGED <<file, ion, stateVars, fd_transaction_mutex, call, unseen>>
    PROVE  FlightInv'
<1>1. UNCHANGED <<file, ion, dma_fds, records, pending_ion_allocations, fd_transaction_mutex, call, unseen>>
  BY Zenon DEF stateVars
<1>2. MutexInv' /\ IonInv'
  BY <1>1, Zenon DEF MutexInv, IonInv, DmaInv, FlightInv
<1>3. /\ \A op, g : OnFd(op, g)' <=> OnFd(op, g)
      /\ \A op, g, h : OnHandle(op, g, h)' <=> OnHandle(op, g, h)
  BY <1>1, Zenon DEF OnFd, OnHandle
<1>4. ASSUME NEW g \in Fds PROVE FdOK(g)'
  <2>1. FdOK(g)
    BY Zenon DEF DmaInv, FlightInv, FdInv
  <2> QED BY <1>1, <1>3, <2>1, FdKept, Zenon
<1>5. ASSUME NEW g \in Fds, NEW h \in Handles, "close" \notin unseen PROVE HandleOK(g, h)'
  <2>1. HandleOK(g, h)
    BY <1>5, Zenon DEF DmaInv, FlightInv, HandleInv
  <2> QED BY <1>1, <1>3, <2>1, HandleKept, Zenon
<1>6. ASSUME NEW u \in Threads PROVE CallOK(call[u])'
  <2>1. CallOK(call[u])
    BY Zenon DEF DmaInv, FlightInv, CallInv
  <2>2. call[u].op = "share" => ~OnHandle("ionRecord", call[u].dev, call[u].handle)'
    BY <1>1, <2>1, Zenon DEF CallOK, OnHandle
  <2> QED BY <1>1, <2>1, <2>2, CallKept, Zenon
<1>7. FdInv' /\ HandleInv' /\ CallInv'
  BY <1>1, <1>4, <1>5, <1>6, Zenon DEF FdInv, HandleInv, CallInv
<1> QED BY <1>2, <1>7, Zenon DEF FlightInv

(* Calls on a descriptor the application has, and calls that touch none. *)
LEMMA OtherSteps ==
    ASSUME DmaInv, NEW t \in Threads,
           IoctlCamera(t) \/ MmapShared(t) \/ IoctlGpuAlloc(t) \/ MmapOther(t)
    PROVE  FlightInv'
<1>1. CASE IoctlCamera(t)
  <2>1. PICK f \in Fds, told \in BOOLEAN :
          /\ file[f].kind \in {"dma", "plain"} /\ (told => file[f].kind = "dma")
          /\ LockFds(t) /\ Enter(t, FdCall("camera", f)) /\ UNCHANGED <<ion, stateVars, unseen>>
          /\ file' = [file EXCEPT ![f] = Shown(file[f], told, file[f].mapped)]
    BY <1>1, Zenon DEF IoctlCamera, FdCall
  <2>2. file[f] \in Files
    BY <2>1, FileFields, Zenon DEF DmaInv, TypeOK
  <2>3. PICK mapped \in BOOLEAN : mapped = file[f].mapped
    BY <2>2, Zenon DEF Files
  <2> QED BY <2>1, <2>2, <2>3, ShownStep, Zenon
<1>2. CASE MmapShared(t)
  <2>1. PICK f \in Fds, told \in BOOLEAN :
          /\ file[f] # NoFile /\ (told => file[f].kind = "dma") /\ UNCHANGED <<ion, stateVars, unseen>>
          /\ \/ /\ LockFds(t) /\ Enter(t, FdCall("mapped", f))
                /\ file' = [file EXCEPT ![f] = Shown(file[f], told, file[f].mapped \/ told)]
             \/ UNCHANGED <<file, fd_transaction_mutex, call>>
    BY <1>2, Zenon DEF MmapShared, FdCall
  <2>2. CASE UNCHANGED <<file, fd_transaction_mutex, call>>
    BY <2>1, <2>2, QuietStep, Zenon
  <2>3. CASE /\ LockFds(t) /\ Enter(t, FdCall("mapped", f))
             /\ file' = [file EXCEPT ![f] = Shown(file[f], told, file[f].mapped \/ told)]
    <3>1. file[f] \in Files
      BY <2>1, Zenon DEF DmaInv, TypeOK
    <3>2. PICK mapped \in BOOLEAN : mapped = (file[f].mapped \/ told)
      BY Zenon
    <3> QED BY <2>1, <2>3, <3>1, <3>2, ShownStep, Zenon
  <2> QED BY <2>1, <2>2, <2>3, Zenon
<1>3. CASE IoctlGpuAlloc(t) \/ MmapOther(t)
  <2>1. UNCHANGED <<file, ion, stateVars, fd_transaction_mutex, call, unseen>>
    BY <1>3, Zenon DEF IoctlGpuAlloc, MmapOther, kernelVars
  <2> QED BY <2>1, QuietStep, Zenon
<1> QED BY <1>1, <1>2, <1>3, Zenon

--------------------------------------------------------------------------------
(* What happens unseen. *)

(* A file that comes from elsewhere under a free number. *)
LEMMA UnseenOpenStep ==
    ASSUME DmaInv, UnseenOpen
    PROVE  FlightInv'
<1>1. PICK f \in Fds, new \in {Plain, Ion} \cup {Buffer(size, "elsewhere", FALSE) : size \in Sizes} :
        file[f] = NoFile /\ file' = [file EXCEPT ![f] = new]
  BY Zenon DEF UnseenOpen
<1>2. UNCHANGED <<ion, dma_fds, records, pending_ion_allocations, fd_transaction_mutex, call, unseen>>
  BY Zenon DEF UnseenOpen, stateVars
<1>3. file'[f] = new /\ \A g \in Fds : g # f => file'[g] = file[g]
  BY <1>1, Zenon DEF DmaInv, TypeOK
<1>4. new.born = "elsewhere" /\ ~new.mapped /\ ~new.told /\ (new.kind = "dma" => new.size \in Sizes)
  <2>1. CASE new \in {Plain, Ion}
    BY <2>1, FileFields, Zenon
  <2>2. CASE new \in {Buffer(size, "elsewhere", FALSE) : size \in Sizes}
    <3>1. PICK size \in Sizes : new = Buffer(size, "elsewhere", FALSE)
      BY <2>2, Zenon
    <3>2. /\ Buffer(size, "elsewhere", FALSE).born = "elsewhere" /\ ~Buffer(size, "elsewhere", FALSE).mapped
          /\ Buffer(size, "elsewhere", FALSE).size = size /\ ~Buffer(size, "elsewhere", FALSE).told
      BY BufferFields
    <3> QED BY <3>1, <3>2, Zenon
  <2> QED BY <2>1, <2>2, Zenon
<1>5. file[f].kind = "none" /\ file[f].kind # "dma" /\ file[f].kind # "ion"
  BY <1>1, FileFields, Zenon
<1>6. /\ \A op, g : OnFd(op, g)' <=> OnFd(op, g)
      /\ \A op, g, h : OnHandle(op, g, h)' <=> OnHandle(op, g, h)
  BY <1>2, Zenon DEF OnFd, OnHandle
<1>7. MutexInv'
  BY <1>2, Zenon DEF MutexInv, DmaInv, FlightInv
<1>8. IonInv'
  <2>1. \A g \in Fds, h \in Handles : ion[g][h] # NoIon => file[g].kind = "ion"
    BY Zenon DEF IonInv, DmaInv, FlightInv
  <2> QED BY <1>2, <1>3, <1>5, <2>1, Zenon DEF IonInv
<1>9. ASSUME NEW g \in Fds PROVE FdOK(g)'
  <2>1. FdOK(g)
    BY Zenon DEF DmaInv, FlightInv, FdInv
  <2>2. CASE g # f
    BY <1>2, <1>3, <1>6, <2>1, <2>2, FdKept, Zenon
  <2>3. CASE g = f
    <3>1. file'[f].born = "elsewhere" /\ ~file'[f].mapped /\ ~file'[f].told /\ (file'[f].kind = "dma" => file'[f].size \in Sizes)
      BY <1>3, <1>4, Zenon
    <3>2. FileOK(f)' /\ CountOK(f)'
      BY <3>1, Zenon DEF FileOK, CountOK
    <3>3. EntryOK(f)'
      BY <1>2, <2>1, <2>3, Zenon DEF FdOK, EntryOK
    <3>4. ASSUME "close" \notin unseen PROVE StaleOK(f)' /\ SizeOK(f)'
      <4>1. /\ records[f] = NoSize \/ OnFd("closed", f)
            /\ OnFd("create", f) \/ OnFd("share", f) => records[f] = NoSize
        BY <1>5, <2>1, <2>3, <3>4, Zenon DEF FdOK, StaleOK
      <4>2. StaleOK(f)'
        BY <1>2, <1>6, <4>1, Zenon DEF StaleOK
      <4>3. SizeOK(f)'
        BY <1>2, <1>6, <3>1, <4>1, Zenon DEF SizeOK
      <4> QED BY <4>2, <4>3, Zenon
    <3> QED BY <1>2, <2>3, <3>2, <3>3, <3>4, Zenon DEF FdOK
  <2> QED BY <2>2, <2>3, Zenon
<1>10. ASSUME NEW g \in Fds, NEW h \in Handles, "close" \notin unseen PROVE HandleOK(g, h)'
  <2>1. HandleOK(g, h)
    BY <1>10, Zenon DEF DmaInv, FlightInv, HandleInv
  <2> QED BY <1>2, <1>6, <2>1, HandleKept, Zenon
<1>11. ASSUME NEW u \in Threads PROVE CallOK(call[u])'
  <2>1. CallOK(call[u])
    BY Zenon DEF DmaInv, FlightInv, CallInv
  <2>2. call[u].op = "share" => ~OnHandle("ionRecord", call[u].dev, call[u].handle)'
    BY <1>2, <2>1, Zenon DEF CallOK, OnHandle
  <2>3. CASE call[u].op = "closed"
    <3>1. call[u].fd \in Fds /\ ClosedOK(call[u])
      BY <2>1, <2>3, Zenon DEF CallOK, Locking
    <3>2. ClosedOK(call[u])'
      <4>1. CASE call[u].fd = f
        BY <1>2, <1>3, <1>4, <4>1, Zenon DEF ClosedOK
      <4>2. CASE call[u].fd # f
        BY <1>2, <1>3, <3>1, <4>2, Zenon DEF ClosedOK
      <4> QED BY <4>1, <4>2, Zenon
    <3> QED BY <1>2, <2>3, <3>1, <3>2, Zenon DEF CallOK
  <2>4. CASE call[u].op # "closed"
    <3>1. call[u].op \in {"create", "share"} => call[u].fd \in Fds /\ file[call[u].fd].kind = "dma"
      BY <2>1, Zenon DEF CallOK, Locking, CreateOK, ShareOK
    <3>2. call[u].op \in {"create", "share", "closed"} => file'[call[u].fd] = file[call[u].fd]
      BY <1>3, <1>5, <2>4, <3>1, Zenon
    <3>3. call'[u] = call[u] /\ ion' = ion
      BY <1>2, Zenon
    <3> QED BY <2>1, <2>2, <3>2, <3>3, CallKept, Zenon
  <2> QED BY <2>3, <2>4, Zenon
<1>12. FdInv' /\ HandleInv' /\ CallInv'
  BY <1>2, <1>9, <1>10, <1>11, Zenon DEF FdInv, HandleInv, CallInv
<1> QED BY <1>7, <1>8, <1>12, Zenon DEF FlightInv

(* A descriptor that is closed unseen: after that only what the hook saw born or
   mapped counts. *)
LEMMA UnseenCloseStep ==
    ASSUME DmaInv, UnseenClose
    PROVE  FlightInv'
<1>1. PICK f \in Fds : /\ ~Busy(f) /\ file' = [file EXCEPT ![f] = NoFile]
                       /\ ion' = [ion EXCEPT ![f] = [h \in Handles |-> NoIon]]
  BY Zenon DEF UnseenClose
<1>2. /\ "close" \in unseen
      /\ UNCHANGED <<dma_fds, records, pending_ion_allocations, fd_transaction_mutex, call, unseen>>
  BY Zenon DEF UnseenClose, stateVars
<1>3. /\ file'[f] = NoFile /\ \A h \in Handles : ion'[f][h] = NoIon
      /\ \A g \in Fds : g # f => file'[g] = file[g] /\ ion'[g] = ion[g]
  BY <1>1, Zenon DEF DmaInv, TypeOK
<1>4. \A op, g : OnFd(op, g)' <=> OnFd(op, g)
  BY <1>2, Zenon DEF OnFd
<1>5. MutexInv'
  BY <1>2, Zenon DEF MutexInv, DmaInv, FlightInv
<1>6. IonInv'
  <2>1. \A g \in Fds, h \in Handles : ion[g][h] # NoIon => file[g].kind = "ion"
    BY Zenon DEF IonInv, DmaInv, FlightInv
  <2> QED BY <1>3, <2>1, Zenon DEF IonInv
<1>7. ASSUME NEW g \in Fds PROVE FdOK(g)'
  <2>1. FdOK(g)
    BY Zenon DEF DmaInv, FlightInv, FdInv
  <2>2. CASE g # f
    BY <1>2, <1>3, <1>4, <2>1, <2>2, FdKept, Zenon
  <2>3. CASE g = f
    <3>1. file'[f].kind # "dma" /\ file'[f].born = "elsewhere" /\ ~file'[f].mapped /\ ~file'[f].told
      BY <1>3, FileFields, Zenon
    <3>2. FileOK(f)' /\ CountOK(f)'
      BY <3>1, Zenon DEF FileOK, CountOK
    <3>3. EntryOK(f)'
      BY <1>2, <2>1, <2>3, Zenon DEF FdOK, EntryOK
    <3> QED BY <1>2, <2>3, <3>2, <3>3, Zenon DEF FdOK
  <2> QED BY <2>2, <2>3, Zenon
<1>8. ASSUME NEW u \in Threads PROVE CallOK(call[u])'
  <2>1. CallOK(call[u])
    BY Zenon DEF DmaInv, FlightInv, CallInv
  <2>2. call[u].op = "share" => ~OnHandle("ionRecord", call[u].dev, call[u].handle)'
    BY <1>2, <2>1, Zenon DEF CallOK, OnHandle
  <2>3. call[u].op # "none" => call[u].fd # f /\ call[u].dev # f
    BY <1>1, CallFields, Zenon DEF Busy
  <2>4. call[u].op \in {"create", "share", "closed"} => file'[call[u].fd] = file[call[u].fd]
    <3>1. call[u].op \in {"create", "share", "closed"} => call[u].fd \in Fds
      BY <2>1, Zenon DEF CallOK, Locking
    <3> QED BY <1>3, <2>3, <3>1, Zenon
  <2>5. call[u].op \in {"share", "ionRecord"} =>
           ion'[call[u].dev][call[u].handle] = ion[call[u].dev][call[u].handle]
    <3>1. call[u].op \in {"share", "ionRecord"} => call[u].dev \in Fds
      BY <2>1, Zenon DEF CallOK
    <3> QED BY <1>3, <2>3, <3>1, Zenon
  <2>6. call'[u] = call[u]
    BY <1>2, Zenon
  <2> QED BY <2>1, <2>2, <2>4, <2>5, <2>6, CallKept, Zenon
<1>9. FdInv' /\ HandleInv' /\ CallInv'
  BY <1>2, <1>7, <1>8, Zenon DEF FdInv, HandleInv, CallInv
<1> QED BY <1>5, <1>6, <1>9, Zenon DEF FlightInv

--------------------------------------------------------------------------------
(* The bookkeeping. *)

(* A call that is finished: the others' calls stay right, and if it held
   fd_transaction_mutex no call on a descriptor is left. *)
LEMMA Finishing ==
    ASSUME DmaInv, NEW t \in Threads, call[t].op \in Ops, Finish(t)
    PROVE  /\ call'[t] = NoCall /\ (\A u \in Threads : u # t => call'[u] = call[u])
           /\ UNCHANGED <<file, ion, unseen>>
           /\ MutexInv' /\ IonInv' /\ CallInv'
<1>1. /\ call'[t] = NoCall /\ (\A u \in Threads : u # t => call'[u] = call[u])
      /\ UNCHANGED <<file, ion, unseen>>
  BY Zenon DEF Finish, kernelVars, DmaInv, TypeOK
<1>2. NoCall.op = "none"
  BY CallFields, Zenon
<1>3. MutexInv'
  <2> SUFFICES ASSUME NEW u \in Threads, call'[u].op \in Locking PROVE fd_transaction_mutex' = u
    BY Zenon DEF MutexInv
  <2>1. u # t
    BY <1>1, <1>2, Zenon DEF Locking
  <2>2. fd_transaction_mutex = u
    BY <1>1, <2>1, Zenon DEF MutexInv, DmaInv, FlightInv
  <2> QED BY <2>1, <2>2, Zenon DEF Finish
<1>4. IonInv'
  BY <1>1, Zenon DEF IonInv, DmaInv, FlightInv
<1>5. ASSUME NEW u \in Threads PROVE CallOK(call[u])'
  <2>1. CASE u = t
    BY <1>1, <1>2, <2>1, Zenon DEF CallOK, Locking
  <2>2. CASE u # t
    <3>1. CallOK(call[u]) /\ call'[u] = call[u]
      BY <1>1, <2>2, Zenon DEF DmaInv, FlightInv, CallInv
    <3>2. call[u].op = "share" => ~OnHandle("ionRecord", call[u].dev, call[u].handle)'
      <4>1. ASSUME call[u].op = "share", NEW v \in Threads, call'[v].op = "ionRecord",
                   call'[v].dev = call'[u].dev, call'[v].handle = call'[u].handle
            PROVE  FALSE
        <5>1. v # t
          BY <1>1, <1>2, <4>1, Zenon
        <5> QED BY <1>1, <3>1, <4>1, <5>1, Zenon DEF CallOK, OnHandle
      <4> QED BY <4>1, Zenon DEF OnHandle
    <3> QED BY <1>1, <3>1, <3>2, CallKept, Zenon
  <2> QED BY <2>1, <2>2, Zenon
<1> QED BY <1>1, <1>3, <1>4, <1>5, Zenon DEF CallInv

(* After a call that held fd_transaction_mutex no call on a descriptor is left. *)
LEMMA LockFreed ==
    ASSUME DmaInv, NEW t \in Threads, call[t].op \in Locking, call'[t] = NoCall,
           \A u \in Threads : u # t => call'[u] = call[u]
    PROVE  /\ call[t].fd \in Fds
           /\ \A o \in Locking, g \in Fds : ~OnFd(o, g)' /\ (OnFd(o, g) <=> call[t].op = o /\ call[t].fd = g)
           /\ \A o \in {"ionRecord", "ionDrop"}, g \in Fds, h \in Handles :
                 OnHandle(o, g, h)' <=> OnHandle(o, g, h)
<1>1. Locking \subseteq Ops /\ {"ionRecord", "ionDrop"} \subseteq Ops \ Locking
  BY Zenon DEF Locking, Ops
<1>2. call[t].fd \in Fds
  BY Zenon DEF DmaInv, FlightInv, CallInv, CallOK
<1>3. \A u \in Threads : u # t => call'[u].op \notin Locking
  BY Zenon DEF DmaInv, FlightInv, MutexInv
<1>4. call'[t].op \notin Locking
  BY CallFields, Zenon DEF Locking
<1>5. ASSUME NEW o \in Locking, NEW g \in Fds
      PROVE  ~OnFd(o, g)' /\ (OnFd(o, g) <=> call[t].op = o /\ call[t].fd = g)
  <2>1. ~OnFd(o, g)'
    BY <1>3, <1>4, Zenon DEF OnFd
  <2> QED BY <1>1, <2>1, Finished, Zenon
<1>6. ASSUME NEW o \in {"ionRecord", "ionDrop"}, NEW g \in Fds, NEW h \in Handles
      PROVE  OnHandle(o, g, h)' <=> OnHandle(o, g, h)
  <2>1. o \in Ops /\ call[t].op # o
    BY <1>1, Zenon
  <2> QED BY <2>1, Finished, Zenon
<1> QED BY <1>2, <1>5, <1>6, Zenon

(* What such a call knows of a handle stays right. *)
LEMMA HandlesKept ==
    ASSUME DmaInv, NEW t \in Threads, call[t].op \in Locking, call[t].op # "closed", call'[t] = NoCall,
           \A u \in Threads : u # t => call'[u] = call[u],
           UNCHANGED <<ion, unseen, pending_ion_allocations>>
    PROVE  HandleInv'
<1> SUFFICES ASSUME "close" \notin unseen, NEW g \in Fds, NEW h \in Handles PROVE HandleOK(g, h)'
  BY Zenon DEF HandleInv
<1>1. HandleOK(g, h)
  BY Zenon DEF DmaInv, FlightInv, HandleInv
<1>2. /\ \A o \in Locking : ~OnFd(o, g)' /\ (OnFd(o, g) <=> call[t].op = o /\ call[t].fd = g)
      /\ \A o \in {"ionRecord", "ionDrop"} : OnHandle(o, g, h)' <=> OnHandle(o, g, h)
  BY LockFreed, Zenon
<1>3. OnFd("closed", g)' <=> OnFd("closed", g)
  <2>1. "closed" \in Locking
    BY Zenon DEF Locking
  <2> QED BY <1>2, <2>1, Zenon
<1> QED BY <1>1, <1>2, <1>3, HandleKept, Zenon

(* Nor is a descriptor disturbed that the call is not on. *)
LEMMA OtherFds ==
    ASSUME DmaInv, NEW t \in Threads, call[t].op \in Locking, call'[t] = NoCall,
           \A u \in Threads : u # t => call'[u] = call[u], UNCHANGED <<file, unseen>>,
           NEW g \in Fds, g # call[t].fd, dma_fds'[g] = dma_fds[g], records'[g] = records[g]
    PROVE  FdOK(g)'
<1>1. FdOK(g) /\ file'[g] = file[g]
  BY Zenon DEF DmaInv, FlightInv, FdInv
<1>2. \A o \in {"create", "share", "closed", "mapped"} : OnFd(o, g)' <=> OnFd(o, g)
  <2> SUFFICES ASSUME NEW o \in {"create", "share", "closed", "mapped"} PROVE OnFd(o, g)' <=> OnFd(o, g)
    BY Zenon
  <2>1. o \in Locking
    BY Zenon DEF Locking
  <2> QED BY <2>1, LockFreed, Zenon
<1> QED BY <1>1, <1>2, FdKept, Zenon

(* A descriptor with no call on it in flight any more. *)
Counted(x, size, hidden) ==
    /\ x.born = "create" => size = x.size
    /\ x.mapped => size # NoSize
    /\ "close" \notin hidden /\ x.kind # "dma" => size = NoSize
    /\ "close" \notin hidden /\ x.kind = "dma" /\ ~x.raced =>
          size \in {NoSize, x.size} /\ (x.born = "share" => size = x.size)
CountedOK(f) == Counted(file[f], records[f], unseen)

(* Such a descriptor satisfies all that the invariant says of one. *)
LEMMA SettledFd ==
    ASSUME NEW f \in Fds, FileOK(f)', EntryOK(f)', CountedOK(f)', \A o \in Locking : ~OnFd(o, f)'
    PROVE  FdOK(f)'
<1>1. ~OnFd("create", f)' /\ ~OnFd("share", f)'
  BY Zenon DEF Locking
<1>2. CountOK(f)'
  BY Zenon DEF CountOK, CountedOK, Counted
<1>3. "close" \notin unseen' => StaleOK(f)'
  BY <1>1, Zenon DEF StaleOK, CountedOK, Counted
<1>4. "close" \notin unseen' => SizeOK(f)'
  BY Zenon DEF SizeOK, CountedOK, Counted
<1> QED BY <1>2, <1>3, <1>4, Zenon DEF FdOK

(* The entry that registers a size. *)
Entry(size) == [size |-> size, tracked |-> TRUE]

(* An entry has the size it is given, and is no empty slot. *)
LEMMA EntryFields ==
    /\ ~NoEntry.tracked /\ NoEntry.size = NoSize
    /\ \A size \in Sizes : /\ Entry(size) \in Entries /\ Entry(size) # NoEntry /\ Entry(size).tracked
                           /\ Entry(size).size = size /\ size # NoSize
<1>1. ~NoEntry.tracked /\ NoEntry.size = NoSize
  BY DEF NoEntry
<1>2. ASSUME NEW size \in Sizes
      PROVE  /\ Entry(size) \in Entries /\ Entry(size).tracked /\ Entry(size).size = size
  BY Zenon DEF Entry, Entries
<1>3. \A size \in Sizes : size # NoSize
  BY SizesAssumption DEF NoSize
<1> QED BY <1>1, <1>2, <1>3, Zenon

(* What registering a size does to an unmarked entry. *)
LEMMA Registered ==
    ASSUME NEW f \in Fds, NEW size \in Sizes,
           NEW fds \in [Fds -> Entries \cup {NoEntry}], NEW recs \in [Fds -> Sizes \cup {NoSize}],
           ~fds[f].tracked, Register(f, size, fds, recs)
    PROVE  /\ dma_fds'[f] = Entry(size) /\ records'[f] = size
           /\ \A g \in Fds : g # f => dma_fds'[g] = fds[g] /\ records'[g] = recs[g]
           /\ dma_fds' \in [Fds -> Entries \cup {NoEntry}] /\ records' \in [Fds -> Sizes \cup {NoSize}]
<1>1. size # NoSize /\ Entry(size) \in Entries
  BY EntryFields, Zenon
<1>2. dma_fds' = [fds EXCEPT ![f] = Entry(size)] /\ records' = [recs EXCEPT ![f] = size]
  BY <1>1, Zenon DEF Register, Entry
<1> QED BY <1>1, <1>2, Zenon

(* Forgetting a descriptor: an unmarked entry has no record. *)
LEMMA ForgottenFd ==
    ASSUME TypeOK, NEW f \in Fds
    PROVE  /\ Forgotten(f) \in [Fds -> Entries \cup {NoEntry}] /\ RecordsWithout(f) \in [Fds -> Sizes \cup {NoSize}]
           /\ Forgotten(f)[f] = NoEntry /\ (EntryOK(f) => RecordsWithout(f)[f] = NoSize)
           /\ \A g \in Fds : g # f => Forgotten(f)[g] = dma_fds[g] /\ RecordsWithout(f)[g] = records[g]
<1>1. Forgotten(f) \in [Fds -> Entries \cup {NoEntry}] /\ Forgotten(f)[f] = NoEntry
      /\ \A g \in Fds : g # f => Forgotten(f)[g] = dma_fds[g]
  BY Zenon DEF Forgotten, TypeOK
<1>2. CASE dma_fds[f].tracked
  <2>1. RecordsWithout(f) = [records EXCEPT ![f] = NoSize]
    BY <1>2, Zenon DEF RecordsWithout
  <2>2. /\ RecordsWithout(f) \in [Fds -> Sizes \cup {NoSize}] /\ RecordsWithout(f)[f] = NoSize
        /\ \A g \in Fds : g # f => RecordsWithout(f)[g] = records[g]
    BY <2>1, Zenon DEF TypeOK
  <2> QED BY <1>1, <2>2, Zenon
<1>3. CASE ~dma_fds[f].tracked
  <2>1. RecordsWithout(f) = records
    BY <1>3, Zenon DEF RecordsWithout
  <2>2. EntryOK(f) => records[f] = NoSize
    <3>1. records[f] \in Sizes => Entry(records[f]).tracked
      BY EntryFields, Zenon
    <3> QED BY <1>3, <3>1, Zenon DEF EntryOK, Entry
  <2> QED BY <1>1, <2>1, <2>2, Zenon DEF TypeOK
<1> QED BY <1>2, <1>3, Zenon

(* The size a descriptor is registered with when it is born: its own, unless the
   handle it was exported from was raced or a close escaped. *)
BornSize(c) == IF c.op = "create" THEN c.size ELSE SharedSize(c)

(* That size agrees with the buffer that the descriptor opens. *)
LEMMA BornSizes ==
    ASSUME DmaInv, NEW t \in Threads, call[t].op \in {"create", "share"}, NEW f \in Fds, f = call[t].fd
    PROVE  /\ BornSize(call[t]) \in Sizes \cup {NoSize}
           /\ file[f].kind = "dma" /\ ~file[f].mapped
           /\ file[f].born = "create" => BornSize(call[t]) = file[f].size /\ file[f].size \in Sizes
           /\ "close" \notin unseen /\ ~file[f].raced =>
                 /\ BornSize(call[t]) \in {NoSize, file[f].size}
                 /\ file[f].born = "share" => BornSize(call[t]) = file[f].size
<1>1. CallOK(call[t]) /\ FileOK(f)
  BY Zenon DEF DmaInv, FlightInv, CallInv, FdInv, FdOK
<1>2. CASE call[t].op = "create"
  <2>1. /\ file[f].kind = "dma" /\ ~file[f].mapped /\ file[f].size = call[t].size
        /\ BornSize(call[t]) = file[f].size
    BY <1>1, <1>2, Zenon DEF CallOK, CreateOK, BornSize
  <2>2. file[f].size \in Sizes
    BY <1>1, <2>1, Zenon DEF FileOK
  <2> QED BY <2>1, <2>2, Zenon
<1>3. CASE call[t].op = "share"
  <2>1. PICK dev \in Fds, h \in Handles : dev = call[t].dev /\ h = call[t].handle
    BY <1>1, <1>3, Zenon DEF CallOK
  <2>2. ShareOK(call[t]) /\ ~OnHandle("ionRecord", dev, h)
    <3>1. ShareOK(call[t]) /\ ~OnHandle("ionRecord", call[t].dev, call[t].handle)
      BY <1>1, <1>3, Zenon DEF CallOK
    <3> QED BY <2>1, <3>1, Zenon
  <2>3. /\ file[f].kind = "dma" /\ ~file[f].mapped /\ file[f].size = ion[dev][h].size /\ ion[dev][h] # NoIon
        /\ file[f].raced = ion[dev][h].raced
    BY <2>1, <2>2, Zenon DEF ShareOK
  <2>4. file[f].born # "create" /\ (file[f].born = "share" => ion[dev][h].seen)
    BY <2>1, <2>2, Zenon DEF ShareOK
  <2>5. BornSize(call[t]) = pending_ion_allocations[dev][h]
    BY <1>3, <2>1, Zenon DEF BornSize, SharedSize
  <2>6. BornSize(call[t]) \in Sizes \cup {NoSize}
    <3>1. pending_ion_allocations[dev] \in [Handles -> Sizes \cup {NoSize}]
      BY Zenon DEF DmaInv, TypeOK
    <3> QED BY <2>5, <3>1, Zenon
  <2>7. ASSUME "close" \notin unseen, ~file[f].raced
        PROVE  /\ BornSize(call[t]) \in {NoSize, file[f].size}
               /\ file[f].born = "share" => BornSize(call[t]) = file[f].size
    <3>1. HandleOK(dev, h)
      BY <2>7, Zenon DEF DmaInv, FlightInv, HandleInv
    <3>2. LiveOK(dev, h)
      BY <2>3, <2>7, <3>1, Zenon DEF HandleOK
    <3>3. /\ ion[dev][h].seen => pending_ion_allocations[dev][h] = ion[dev][h].size
          /\ ~ion[dev][h].seen => pending_ion_allocations[dev][h] = NoSize
      BY <2>2, <3>2, Zenon DEF LiveOK
    <3> QED BY <2>3, <2>4, <2>5, <3>3, Zenon
  <2> QED BY <2>3, <2>4, <2>6, <2>7, Zenon
<1> QED BY <1>2, <1>3, Zenon

(* A descriptor just born is registered. *)
LEMMA RegisterCreatedStep ==
    ASSUME DmaInv, NEW t \in Threads, RegisterCreated(t)
    PROVE  FlightInv'
<1>1. /\ call[t].op \in {"create", "share"} /\ Finish(t) /\ UNCHANGED pending_ion_allocations
      /\ IF BornSize(call[t]) = NoSize THEN UNCHANGED <<dma_fds, records>>
         ELSE Register(call[t].fd, BornSize(call[t]), Forgotten(call[t].fd), RecordsWithout(call[t].fd))
  BY Zenon DEF RegisterCreated, BornSize
<1>2. call[t].op \in Locking /\ call[t].op \in Ops /\ call[t].op # "closed"
  BY <1>1, Zenon DEF Locking, Ops
<1>3. /\ call'[t] = NoCall /\ (\A u \in Threads : u # t => call'[u] = call[u])
      /\ UNCHANGED <<file, ion, unseen>> /\ MutexInv' /\ IonInv' /\ CallInv'
  BY <1>1, <1>2, Finishing, Zenon
<1>4. PICK f \in Fds : f = call[t].fd
  BY <1>2, <1>3, LockFreed, Zenon
<1>5. \A o \in Locking : ~OnFd(o, f)' /\ (OnFd(o, f) <=> call[t].op = o /\ call[t].fd = f)
  BY <1>2, <1>3, LockFreed, Zenon
<1>6. HandleInv'
  BY <1>1, <1>2, <1>3, HandlesKept, Zenon
<1>7. PICK size \in Sizes \cup {NoSize} : size = BornSize(call[t])
  BY <1>1, <1>4, BornSizes, Zenon
<1>8. /\ file[f].kind = "dma" /\ ~file[f].mapped
      /\ file[f].born = "create" => size = file[f].size /\ file[f].size \in Sizes
      /\ "close" \notin unseen /\ ~file[f].raced =>
            size \in {NoSize, file[f].size} /\ (file[f].born = "share" => size = file[f].size)
  BY <1>1, <1>4, <1>7, BornSizes, Zenon
<1>9. FdOK(f) /\ TypeOK /\ EntryOK(f)
  BY Zenon DEF DmaInv, FlightInv, FdInv, FdOK
<1>10. FileOK(f)' /\ \A o \in Locking : ~OnFd(o, f)'
  BY <1>3, <1>5, <1>9, Zenon DEF FdOK, FileOK
<1>11. CASE size = NoSize
  <2>1. UNCHANGED <<dma_fds, records>>
    BY <1>1, <1>7, <1>11, Zenon
  <2>2. EntryOK(f)'
    BY <1>9, <2>1, Zenon DEF EntryOK
  <2>3. "close" \notin unseen => records[f] = NoSize
    <3>1. OnFd("create", f) \/ OnFd("share", f)
      BY <1>1, <1>4, Zenon DEF OnFd
    <3> QED BY <1>9, <3>1, Zenon DEF FdOK, StaleOK
  <2>4. file[f].born # "create"
    BY <1>8, <1>11, EntryFields, Zenon
  <2>5. CountedOK(f)'
    <3>1. file'[f] = file[f] /\ records'[f] = records[f] /\ unseen' = unseen
      BY <1>3, <2>1, Zenon
    <3>2. "close" \notin unseen /\ ~file[f].raced /\ file[f].born = "share" => records[f] = file[f].size
      BY <1>8, <1>11, <2>3, Zenon
    <3>3. Counted(file[f], records[f], unseen)
      BY <1>8, <2>3, <2>4, <3>2, Zenon DEF Counted
    <3> QED BY <3>1, <3>3, Zenon DEF CountedOK
  <2>6. FdOK(f)'
    BY <1>10, <2>2, <2>5, SettledFd, Zenon
  <2>7. ASSUME NEW g \in Fds, g # f PROVE FdOK(g)'
    BY <1>2, <1>3, <1>4, <2>1, <2>7, OtherFds, Zenon
  <2> QED BY <1>3, <1>6, <2>6, <2>7, Zenon DEF FlightInv, FdInv
<1>12. CASE size # NoSize
  <2>1. size \in Sizes /\ Register(f, size, Forgotten(f), RecordsWithout(f))
    BY <1>1, <1>4, <1>7, <1>12, Zenon
  <2>2. /\ Forgotten(f) \in [Fds -> Entries \cup {NoEntry}] /\ RecordsWithout(f) \in [Fds -> Sizes \cup {NoSize}]
        /\ Forgotten(f)[f] = NoEntry
        /\ \A g \in Fds : g # f => Forgotten(f)[g] = dma_fds[g] /\ RecordsWithout(f)[g] = records[g]
    BY <1>9, ForgottenFd, Zenon
  <2>3. ~Forgotten(f)[f].tracked
    BY <2>2, EntryFields, Zenon
  <2>4. /\ dma_fds'[f] = Entry(size) /\ records'[f] = size
        /\ \A g \in Fds : g # f => dma_fds'[g] = Forgotten(f)[g] /\ records'[g] = RecordsWithout(f)[g]
    <3>1. PICK fds \in [Fds -> Entries \cup {NoEntry}], recs \in [Fds -> Sizes \cup {NoSize}] :
             fds = Forgotten(f) /\ recs = RecordsWithout(f)
      BY <2>2, Zenon
    <3>2. ~fds[f].tracked /\ Register(f, size, fds, recs) /\ size \in Sizes
      BY <2>1, <2>3, <3>1, Zenon
    <3>3. /\ dma_fds'[f] = Entry(size) /\ records'[f] = size
          /\ \A g \in Fds : g # f => dma_fds'[g] = fds[g] /\ records'[g] = recs[g]
      BY <3>2, Registered
    <3> QED BY <3>1, <3>3, Zenon
  <2>5. EntryOK(f)'
    BY <2>1, <2>4, Zenon DEF EntryOK, Entry
  <2>6. CountedOK(f)'
    <3>1. file'[f] = file[f] /\ records'[f] = size /\ unseen' = unseen
      BY <1>3, <2>4, Zenon
    <3>2. Counted(file[f], size, unseen)
      BY <1>8, Zenon DEF Counted
    <3> QED BY <3>1, <3>2, Zenon DEF CountedOK
  <2>7. FdOK(f)'
    BY <1>10, <2>5, <2>6, SettledFd, Zenon
  <2>8. ASSUME NEW g \in Fds, g # f PROVE FdOK(g)'
    <3>1. dma_fds'[g] = dma_fds[g] /\ records'[g] = records[g] /\ g # call[t].fd
      BY <1>4, <2>2, <2>4, <2>8, Zenon
    <3> QED BY <1>2, <1>3, <3>1, OtherFds, Zenon
  <2> QED BY <1>3, <1>6, <2>7, <2>8, Zenon DEF FlightInv, FdInv
<1> QED BY <1>11, <1>12, Zenon

(* What is known of a descriptor that is mapped or named by a camera call is
   what is registered, or what the buffer's fdinfo says if it can be read. *)
LEMMA KnownSizes ==
    ASSUME DmaInv, NEW f \in Fds
    PROVE  \/ /\ dma_fds[f] = Entry(records[f]) /\ dma_fds[f].tracked /\ records[f] \in Sizes
              /\ KnownSize(f) = dma_fds[f].size /\ KnownSize(f) # NoSize
           \/ /\ dma_fds[f] = NoEntry /\ records[f] = NoSize /\ ~dma_fds[f].tracked
              /\ file[f].told /\ file[f].kind = "dma" /\ KnownSize(f) = file[f].size /\ KnownSize(f) \in Sizes
           \/ /\ dma_fds[f] = NoEntry /\ records[f] = NoSize /\ ~dma_fds[f].tracked
              /\ ~file[f].told /\ KnownSize(f) = NoSize
<1>1. EntryOK(f) /\ FileOK(f)
  BY Zenon DEF DmaInv, FlightInv, FdInv, FdOK
<1>2. CASE dma_fds[f] = NoEntry /\ records[f] = NoSize
  <2>1. ~dma_fds[f].tracked
    BY <1>2, EntryFields, Zenon
  <2>2. CASE file[f].told
    BY <1>1, <1>2, <2>1, <2>2, Zenon DEF FileOK, KnownSize
  <2>3. CASE ~file[f].told
    BY <1>2, <2>1, <2>3, Zenon DEF KnownSize
  <2> QED BY <2>2, <2>3, Zenon
<1>3. CASE dma_fds[f] = Entry(records[f]) /\ records[f] \in Sizes
  BY <1>3, EntryFields, Zenon DEF KnownSize
<1> QED BY <1>1, <1>2, <1>3, Zenon DEF EntryOK, Entry

(* Writing an entry's size once more changes nothing. *)
LEMMA SizeRewritten ==
    ASSUME TypeOK, NEW f \in Fds, dma_fds[f].tracked, Register(f, dma_fds[f].size, dma_fds, records),
           dma_fds[f].size # NoSize
    PROVE  UNCHANGED <<dma_fds, records>>
<1>1. dma_fds' = [dma_fds EXCEPT ![f] = [dma_fds[f] EXCEPT !.size = dma_fds[f].size]] /\ records' = records
  BY Zenon DEF Register
<1>2. [dma_fds[f] EXCEPT !.size = dma_fds[f].size] = dma_fds[f]
  <2>1. ASSUME NEW e \in Entries PROVE [e EXCEPT !.size = e.size] = e
    BY DEF Entries
  <2>2. dma_fds[f] \in Entries
    BY EntryFields, Zenon DEF TypeOK
  <2> QED BY <2>1, <2>2
<1>3. [dma_fds EXCEPT ![f] = dma_fds[f]] = dma_fds
  BY Zenon DEF TypeOK
<1> QED BY <1>1, <1>2, <1>3, Zenon

(* Registering what is known: a legible buffer without an entry gets one. *)
LEMMA RegisterKnown ==
    ASSUME DmaInv, NEW f \in Fds, Register(f, KnownSize(f), dma_fds, records)
    PROVE  \/ UNCHANGED <<dma_fds, records>> /\ (file[f].told => records[f] \in Sizes)
           \/ /\ file[f].kind = "dma" /\ file[f].size \in Sizes
              /\ dma_fds'[f] = Entry(file[f].size) /\ records'[f] = file[f].size
              /\ \A g \in Fds : g # f => dma_fds'[g] = dma_fds[g] /\ records'[g] = records[g]
<1>1. /\ TypeOK /\ dma_fds \in [Fds -> Entries \cup {NoEntry}] /\ records \in [Fds -> Sizes \cup {NoSize}]
  BY Zenon DEF DmaInv, TypeOK
<1>2. CASE /\ dma_fds[f].tracked /\ records[f] \in Sizes
           /\ KnownSize(f) = dma_fds[f].size /\ KnownSize(f) # NoSize
  <2>1. Register(f, dma_fds[f].size, dma_fds, records) /\ dma_fds[f].size # NoSize
    BY <1>2, Zenon
  <2> QED BY <1>1, <1>2, <2>1, SizeRewritten, Zenon
<1>3. CASE /\ ~dma_fds[f].tracked /\ file[f].kind = "dma" /\ KnownSize(f) = file[f].size
           /\ KnownSize(f) \in Sizes
  <2>1. PICK size \in Sizes : size = file[f].size
    BY <1>3, Zenon
  <2>2. Register(f, size, dma_fds, records) /\ ~dma_fds[f].tracked
    BY <1>3, <2>1, Zenon
  <2>3. /\ dma_fds'[f] = Entry(size) /\ records'[f] = size
        /\ \A g \in Fds : g # f => dma_fds'[g] = dma_fds[g] /\ records'[g] = records[g]
    BY <1>1, <2>2, Registered
  <2> QED BY <1>3, <2>1, <2>3, Zenon
<1>4. CASE ~file[f].told /\ KnownSize(f) = NoSize
  BY <1>4, Zenon DEF Register
<1> QED BY <1>2, <1>3, <1>4, KnownSizes, Zenon

(* The outcome of a mapping's or a camera call's bookkeeping. *)
KnownRegistered(f) ==
    \/ UNCHANGED <<dma_fds, records>> /\ (file[f].told => records[f] \in Sizes)
    \/ /\ file[f].kind = "dma" /\ file[f].size \in Sizes
       /\ dma_fds'[f] = Entry(file[f].size) /\ records'[f] = file[f].size
       /\ \A g \in Fds : g # f => dma_fds'[g] = dma_fds[g] /\ records'[g] = records[g]

(* Either outcome keeps the invariant and ends the call. *)
LEMMA KnownStep ==
    ASSUME DmaInv, NEW t \in Threads, call[t].op \in {"camera", "mapped"}, NEW f \in Fds, f = call[t].fd,
           Finish(t), UNCHANGED pending_ion_allocations, KnownRegistered(f)
    PROVE  FlightInv'
<1>1. call[t].op \in Locking /\ call[t].op \in Ops /\ call[t].op # "closed"
  BY Zenon DEF Locking, Ops
<1>2. /\ call'[t] = NoCall /\ (\A u \in Threads : u # t => call'[u] = call[u])
      /\ UNCHANGED <<file, ion, unseen>> /\ MutexInv' /\ IonInv' /\ CallInv'
  BY <1>1, Finishing, Zenon
<1>3. \A o \in Locking : ~OnFd(o, f)' /\ (OnFd(o, f) <=> call[t].op = o /\ call[t].fd = f)
  <2>1. \A o \in Locking, g \in Fds : ~OnFd(o, g)' /\ (OnFd(o, g) <=> call[t].op = o /\ call[t].fd = g)
    BY <1>1, <1>2, LockFreed
  <2> QED BY <2>1, Zenon
<1>4. HandleInv'
  BY <1>1, <1>2, HandlesKept, Zenon
<1>5. FdOK(f) /\ EntryOK(f) /\ FileOK(f)
  BY Zenon DEF DmaInv, FlightInv, FdInv, FdOK
<1>6. FileOK(f)' /\ \A o \in Locking : ~OnFd(o, f)'
  BY <1>2, <1>3, <1>5, Zenon DEF FileOK
<1>7. ~OnFd("create", f) /\ ~OnFd("share", f) /\ ~OnFd("closed", f)
  BY <1>3, Zenon DEF Locking
<1>8. CASE UNCHANGED <<dma_fds, records>> /\ (file[f].told => records[f] \in Sizes)
  <2>1. EntryOK(f)'
    BY <1>5, <1>8, Zenon DEF EntryOK
  <2>2. file[f].mapped => records[f] # NoSize
    BY <1>5, <1>8, EntryFields, Zenon DEF FdOK, CountOK
  <2>3. file[f].born = "create" => records[f] = file[f].size
    BY <1>5, <1>7, Zenon DEF FdOK, CountOK
  <2>4. "close" \notin unseen => /\ file[f].kind # "dma" => records[f] = NoSize
                                 /\ file[f].kind = "dma" /\ ~file[f].raced =>
                                       /\ records[f] \in {NoSize, file[f].size}
                                       /\ file[f].born = "share" => records[f] = file[f].size
    BY <1>5, <1>7, Zenon DEF FdOK, StaleOK, SizeOK
  <2>5. CountedOK(f)'
    <3>1. Counted(file[f], records[f], unseen)
      BY <2>2, <2>3, <2>4, Zenon DEF Counted
    <3> QED BY <1>2, <1>8, <3>1, Zenon DEF CountedOK
  <2>6. FdOK(f)'
    BY <1>6, <2>1, <2>5, SettledFd, Zenon
  <2>7. ASSUME NEW g \in Fds, g # f PROVE FdOK(g)'
    BY <1>1, <1>2, <1>8, <2>7, OtherFds, Zenon
  <2> QED BY <1>2, <1>4, <2>6, <2>7, Zenon DEF FlightInv, FdInv
<1>9. CASE /\ file[f].kind = "dma" /\ file[f].size \in Sizes
           /\ dma_fds'[f] = Entry(file[f].size) /\ records'[f] = file[f].size
           /\ \A g \in Fds : g # f => dma_fds'[g] = dma_fds[g] /\ records'[g] = records[g]
  <2>1. EntryOK(f)'
    BY <1>9, Zenon DEF EntryOK, Entry
  <2>2. CountedOK(f)'
    <3>1. Counted(file[f], file[f].size, unseen)
      BY <1>9, EntryFields, Zenon DEF Counted
    <3> QED BY <1>2, <1>9, <3>1, Zenon DEF CountedOK
  <2>3. FdOK(f)'
    BY <1>6, <2>1, <2>2, SettledFd, Zenon
  <2>4. ASSUME NEW g \in Fds, g # f PROVE FdOK(g)'
    <3>1. dma_fds'[g] = dma_fds[g] /\ records'[g] = records[g]
      BY <1>9, <2>4, Zenon
    <3> QED BY <1>1, <1>2, <2>4, <3>1, OtherFds, Zenon
  <2> QED BY <1>2, <1>4, <2>3, <2>4, Zenon DEF FlightInv, FdInv
<1> QED BY <1>8, <1>9, Zenon DEF KnownRegistered

(* A camera call and a shared mapping. *)
LEMMA KnownSteps ==
    ASSUME DmaInv, NEW t \in Threads, RegisterCamera(t) \/ TrackMapping(t)
    PROVE  FlightInv'
<1>1. /\ call[t].op \in {"camera", "mapped"} /\ Finish(t) /\ UNCHANGED pending_ion_allocations
      /\ \/ Register(call[t].fd, KnownSize(call[t].fd), dma_fds, records)
         \/ UNCHANGED <<dma_fds, records>> /\ (call[t].fd = NoFd \/ dma_fds[call[t].fd].tracked)
  BY Zenon DEF RegisterCamera, TrackMapping
<1>2. PICK f \in Fds : f = call[t].fd
  BY <1>1, Zenon DEF Locking, DmaInv, FlightInv, CallInv, CallOK
<1>3. CASE Register(f, KnownSize(f), dma_fds, records)
  <2>1. KnownRegistered(f)
    BY <1>3, RegisterKnown, Zenon DEF KnownRegistered
  <2> QED BY <1>1, <1>2, <2>1, KnownStep, Zenon
<1>4. CASE UNCHANGED <<dma_fds, records>> /\ (call[t].fd = NoFd \/ dma_fds[call[t].fd].tracked)
  <2>1. dma_fds[f].tracked
    BY <1>2, <1>4, FdsAssumption, Zenon
  <2>2. records[f] \in Sizes
    BY <2>1, KnownSizes, Zenon
  <2>3. KnownRegistered(f)
    BY <1>4, <2>2, Zenon DEF KnownRegistered
  <2> QED BY <1>1, <1>2, <2>3, KnownStep, Zenon
<1> QED BY <1>1, <1>2, <1>3, <1>4, Zenon

(* Bookkeeping for a handle disturbs no descriptor. *)
LEMMA HandleFinished ==
    ASSUME DmaInv, NEW t \in Threads, call[t].op \in {"ionRecord", "ionDrop"}, Finish(t),
           UNCHANGED <<dma_fds, records>>
    PROVE  /\ call[t].dev \in Fds /\ call[t].handle \in Handles
           /\ UNCHANGED <<ion, unseen>>
           /\ MutexInv' /\ IonInv' /\ CallInv' /\ FdInv'
           /\ \A g \in Fds : OnFd("closed", g)' <=> OnFd("closed", g)
           /\ \A o \in {"ionRecord", "ionDrop"}, g \in Fds, k \in Handles :
                 OnHandle(o, g, k) <=>
                     OnHandle(o, g, k)' \/ (call[t].op = o /\ call[t].dev = g /\ call[t].handle = k)
<1>1. call[t].op \in Ops /\ {"ionRecord", "ionDrop"} \subseteq Ops
  BY Zenon DEF Ops
<1>2. /\ call'[t] = NoCall /\ (\A u \in Threads : u # t => call'[u] = call[u])
      /\ UNCHANGED <<file, ion, unseen>> /\ MutexInv' /\ IonInv' /\ CallInv'
  BY <1>1, Finishing, Zenon
<1>3. call[t].dev \in Fds /\ call[t].handle \in Handles
  BY Zenon DEF DmaInv, FlightInv, CallInv, CallOK
<1>4. \A o \in {"create", "share", "closed", "mapped"}, g \in Fds : OnFd(o, g)' <=> OnFd(o, g)
  <2> SUFFICES ASSUME NEW o \in {"create", "share", "closed", "mapped"}, NEW g \in Fds
               PROVE  OnFd(o, g)' <=> OnFd(o, g)
    BY Zenon
  <2>1. o \in Ops /\ call[t].op # o
    BY Zenon DEF Ops
  <2> QED BY <1>2, <2>1, Finished, Zenon
<1>5. ASSUME NEW g \in Fds PROVE FdOK(g)'
  <2>1. FdOK(g)
    BY Zenon DEF DmaInv, FlightInv, FdInv
  <2>2. file'[g] = file[g] /\ dma_fds'[g] = dma_fds[g] /\ records'[g] = records[g] /\ unseen' = unseen
    BY <1>2, Zenon
  <2> QED BY <1>4, <2>1, <2>2, FdKept, Zenon
<1>6. \A o \in Ops, g \in Fds, k \in Handles :
         OnHandle(o, g, k) <=>
             OnHandle(o, g, k)' \/ (call[t].op = o /\ call[t].dev = g /\ call[t].handle = k)
  BY <1>2, Finished, Zenon
<1> QED BY <1>1, <1>2, <1>3, <1>4, <1>5, <1>6, Zenon DEF FdInv

(* One pending size is written, and no other. *)
PendingWith(dev, h, size) == [pending_ion_allocations EXCEPT ![dev][h] = size]

(* So every other pending size stays. *)
LEMMA PendingUpdated ==
    ASSUME TypeOK, NEW dev \in Fds, NEW h \in Handles, NEW size
    PROVE  /\ PendingWith(dev, h, size)[dev][h] = size
           /\ \A g \in Fds, k \in Handles :
                 g # dev \/ k # h => PendingWith(dev, h, size)[g][k] = pending_ion_allocations[g][k]
           /\ size \in Sizes \cup {NoSize} =>
                 PendingWith(dev, h, size) \in [Fds -> [Handles -> Sizes \cup {NoSize}]]
<1> DEFINE new == PendingWith(dev, h, size)
<1> DEFINE row == [pending_ion_allocations[dev] EXCEPT ![h] = size]
<1>1. pending_ion_allocations \in [Fds -> [Handles -> Sizes \cup {NoSize}]]
  BY Zenon DEF TypeOK
<1>2. new = [pending_ion_allocations EXCEPT ![dev] = row]
  BY DEF PendingWith
<1>3. pending_ion_allocations[dev] \in [Handles -> Sizes \cup {NoSize}]
  BY <1>1, Zenon
<1>4. row[h] = size /\ \A k \in Handles : k # h => row[k] = pending_ion_allocations[dev][k]
  BY <1>3, Zenon
<1>5. size \in Sizes \cup {NoSize} => row \in [Handles -> Sizes \cup {NoSize}]
  BY <1>3, Zenon
<1> HIDE DEF new, row
<1>6. new[dev] = row /\ \A g \in Fds : g # dev => new[g] = pending_ion_allocations[g]
  BY <1>1, <1>2, Zenon
<1>7. size \in Sizes \cup {NoSize} => new \in [Fds -> [Handles -> Sizes \cup {NoSize}]]
  BY <1>1, <1>2, <1>5, Zenon
<1>8. ASSUME NEW g \in Fds, NEW k \in Handles, g # dev \/ k # h
      PROVE  new[g][k] = pending_ion_allocations[g][k]
  <2>1. CASE g = dev
    BY <1>4, <1>6, <1>8, <2>1, Zenon
  <2>2. CASE g # dev
    BY <1>6, <2>2, Zenon
  <2> QED BY <2>1, <2>2, Zenon
<1>9. new[dev][h] = size
  BY <1>4, <1>6, Zenon
<1> QED BY <1>7, <1>8, <1>9, Zenon DEF new

(* The size of an allocated handle is kept, and that of a freed one dropped. *)
LEMMA PendingSteps ==
    ASSUME DmaInv, NEW t \in Threads, RecordIonAllocation(t) \/ DropIonAllocation(t)
    PROVE  FlightInv'
<1>1. /\ call[t].op \in {"ionRecord", "ionDrop"} /\ Finish(t) /\ UNCHANGED <<dma_fds, records>>
      /\ \/ call[t].op = "ionRecord" /\ pending_ion_allocations' = PendingWith(call[t].dev, call[t].handle, call[t].size)
         \/ call[t].op = "ionDrop" /\ pending_ion_allocations' = PendingWith(call[t].dev, call[t].handle, NoSize)
  BY Zenon DEF RecordIonAllocation, DropIonAllocation, PendingWith
<1>2. /\ call[t].dev \in Fds /\ call[t].handle \in Handles
      /\ UNCHANGED <<ion, unseen>>
      /\ MutexInv' /\ IonInv' /\ CallInv' /\ FdInv'
      /\ \A g \in Fds : OnFd("closed", g)' <=> OnFd("closed", g)
      /\ \A o \in {"ionRecord", "ionDrop"}, g \in Fds, k \in Handles :
            OnHandle(o, g, k) <=>
                OnHandle(o, g, k)' \/ (call[t].op = o /\ call[t].dev = g /\ call[t].handle = k)
  BY <1>1, HandleFinished, Zenon
<1>3. PICK dev \in Fds, h \in Handles : dev = call[t].dev /\ h = call[t].handle
  BY <1>2, Zenon
<1>4. PICK size : /\ pending_ion_allocations' = PendingWith(dev, h, size)
                  /\ \/ call[t].op = "ionRecord" /\ size = call[t].size
                     \/ call[t].op = "ionDrop" /\ size = NoSize
  BY <1>1, <1>3, Zenon
<1>5. /\ pending_ion_allocations'[dev][h] = size
      /\ \A g \in Fds, k \in Handles :
            g # dev \/ k # h => pending_ion_allocations'[g][k] = pending_ion_allocations[g][k]
  <2>1. TypeOK
    BY Zenon DEF DmaInv
  <2> QED BY <1>4, <2>1, PendingUpdated
<1>6. HandleInv'
  <2> SUFFICES ASSUME "close" \notin unseen, NEW g \in Fds, NEW k \in Handles PROVE HandleOK(g, k)'
    BY <1>2, Zenon DEF HandleInv
  <2>1. HandleOK(g, k)
    BY Zenon DEF DmaInv, FlightInv, HandleInv
  <2>2. CASE g # dev \/ k # h
    <3>1. /\ pending_ion_allocations'[g][k] = pending_ion_allocations[g][k] /\ ion'[g][k] = ion[g][k]
          /\ OnFd("closed", g)' <=> OnFd("closed", g)
      BY <1>2, <1>5, <2>2, Zenon
    <3>2. ~(call[t].dev = g /\ call[t].handle = k)
      BY <1>3, <2>2, Zenon
    <3>3. \A o \in {"ionRecord", "ionDrop"} : OnHandle(o, g, k)' <=> OnHandle(o, g, k)
      BY <1>2, <3>2, Zenon
    <3> QED BY <2>1, <3>1, <3>3, HandleKept, Zenon
  <2>3. CASE g = dev /\ k = h
    <3>1. FreeInFlight(dev, h)' => FreeInFlight(dev, h)
      <4>1. FreeInFlight(dev, h)' <=> OnHandle("ionDrop", dev, h)' \/ OnFd("closed", dev)'
        BY Zenon DEF FreeInFlight, OnFd, OnHandle
      <4>2. OnHandle("ionDrop", dev, h)' => OnHandle("ionDrop", dev, h)
        BY <1>2, Zenon
      <4>3. OnFd("closed", dev)' <=> OnFd("closed", dev)
        BY <1>2, Zenon
      <4> QED BY <4>1, <4>2, <4>3, FreeFlights, Zenon
    <3>2. CASE call[t].op = "ionRecord" /\ size = call[t].size
      <4>1. ion[dev][h] # NoIon /\ ion[dev][h].seen /\ size = ion[dev][h].size
        BY <1>3, <3>2, Zenon DEF DmaInv, FlightInv, CallInv, CallOK, RecordOK
      <4>2. LiveOK(dev, h) => LiveOK(dev, h)'
        BY <1>2, <1>5, <3>1, <4>1, Zenon DEF LiveOK
      <4> QED BY <1>2, <2>1, <2>3, <4>1, <4>2, Zenon DEF HandleOK
    <3>3. CASE call[t].op = "ionDrop" /\ size = NoSize
      <4>1. FreeInFlight(dev, h)
        BY <1>3, <3>3, Zenon DEF FreeInFlight
      <4>2. ion[dev][h] # NoIon => ion[dev][h].raced
        BY <2>1, <2>3, <4>1, Zenon DEF HandleOK, LiveOK
      <4> QED BY <1>2, <1>5, <2>3, <3>3, <4>2, Zenon DEF HandleOK
    <3> QED BY <1>4, <3>2, <3>3, Zenon
  <2> QED BY <2>2, <2>3, Zenon
<1> QED BY <1>2, <1>6, Zenon DEF FlightInv

(* A closed descriptor is forgotten with the handles it had. *)
LEMMA ForgetClosedStep ==
    ASSUME DmaInv, NEW t \in Threads, ForgetClosed(t)
    PROVE  FlightInv'
<1>1. /\ call[t].op = "closed" /\ Finish(t)
      /\ dma_fds' = Forgotten(call[t].fd) /\ records' = RecordsWithout(call[t].fd)
      /\ pending_ion_allocations' = [pending_ion_allocations EXCEPT ![call[t].fd] = [h \in Handles |-> NoSize]]
  BY Zenon DEF ForgetClosed
<1>2. call[t].op \in Locking /\ call[t].op \in Ops
  BY <1>1, Zenon DEF Locking, Ops
<1>3. /\ call'[t] = NoCall /\ (\A u \in Threads : u # t => call'[u] = call[u])
      /\ UNCHANGED <<file, ion, unseen>> /\ MutexInv' /\ IonInv' /\ CallInv'
  BY <1>1, <1>2, Finishing, Zenon
<1>4. PICK f \in Fds : f = call[t].fd
  BY <1>2, <1>3, LockFreed, Zenon
<1>5. /\ \A o \in Locking, g \in Fds : ~OnFd(o, g)' /\ (OnFd(o, g) <=> call[t].op = o /\ call[t].fd = g)
      /\ \A o \in {"ionRecord", "ionDrop"}, g \in Fds, h \in Handles :
            OnHandle(o, g, h)' <=> OnHandle(o, g, h)
  BY <1>2, <1>3, LockFreed, Zenon
<1>6. FdOK(f) /\ TypeOK /\ EntryOK(f) /\ ClosedOK(call[t])
  BY <1>1, Zenon DEF DmaInv, FlightInv, FdInv, FdOK, CallInv, CallOK
<1>7. /\ dma_fds'[f] = NoEntry /\ records'[f] = NoSize
      /\ \A g \in Fds : g # f => dma_fds'[g] = dma_fds[g] /\ records'[g] = records[g]
  <2>1. dma_fds' = Forgotten(f) /\ records' = RecordsWithout(f)
    BY <1>1, <1>4, Zenon
  <2>2. /\ Forgotten(f)[f] = NoEntry /\ RecordsWithout(f)[f] = NoSize
        /\ \A g \in Fds : g # f => Forgotten(f)[g] = dma_fds[g] /\ RecordsWithout(f)[g] = records[g]
    BY <1>6, ForgottenFd, Zenon
  <2> QED BY <2>1, <2>2, Zenon
<1>8. FdOK(f)'
  <2>1. FileOK(f)' /\ EntryOK(f)'
    BY <1>3, <1>6, <1>7, Zenon DEF FdOK, FileOK, EntryOK
  <2>2. file[f].born = "elsewhere" /\ ~file[f].mapped
    BY <1>4, <1>6, Zenon DEF ClosedOK
  <2>3. Counted(file[f], NoSize, unseen)
    BY <2>2, Zenon DEF Counted
  <2>4. CountedOK(f)'
    BY <1>3, <1>7, <2>3, Zenon DEF CountedOK
  <2>5. \A o \in Locking : ~OnFd(o, f)'
    BY <1>5, Zenon
  <2> QED BY <2>1, <2>4, <2>5, SettledFd, Zenon
<1>9. ASSUME NEW g \in Fds, g # f PROVE FdOK(g)'
  <2>1. dma_fds'[g] = dma_fds[g] /\ records'[g] = records[g] /\ g # call[t].fd
    BY <1>4, <1>7, <1>9, Zenon
  <2> QED BY <1>2, <1>3, <2>1, OtherFds, Zenon
<1>10. HandleInv'
  <2> SUFFICES ASSUME "close" \notin unseen, NEW g \in Fds, NEW h \in Handles PROVE HandleOK(g, h)'
    BY <1>3, Zenon DEF HandleInv
  <2>1. HandleOK(g, h)
    BY Zenon DEF DmaInv, FlightInv, HandleInv
  <2>2. /\ \A k \in Handles : pending_ion_allocations'[f][k] = NoSize
        /\ \A d \in Fds : d # f => pending_ion_allocations'[d] = pending_ion_allocations[d]
    BY <1>1, <1>4, <1>6, Zenon DEF TypeOK
  <2>3. CASE g # f
    <3>1. OnFd("closed", g)' <=> OnFd("closed", g)
      <4>1. "closed" \in Locking
        BY Zenon DEF Locking
      <4> QED BY <1>4, <1>5, <2>3, <4>1, Zenon
    <3>2. pending_ion_allocations'[g][h] = pending_ion_allocations[g][h] /\ ion'[g][h] = ion[g][h]
      BY <1>3, <2>2, <2>3, Zenon
    <3>3. \A o \in {"ionRecord", "ionDrop"} : OnHandle(o, g, h)' <=> OnHandle(o, g, h)
      BY <1>5, Zenon
    <3> QED BY <2>1, <3>1, <3>2, <3>3, HandleKept, Zenon
  <2>4. CASE g = f
    <3>1. FreeInFlight(f, h)
      BY <1>1, <1>4, Zenon DEF FreeInFlight
    <3>2. ion[f][h] # NoIon => ion[f][h].raced
      BY <2>1, <2>4, <3>1, Zenon DEF HandleOK, LiveOK
    <3> QED BY <1>3, <2>2, <2>4, <3>2, Zenon DEF HandleOK
  <2> QED BY <2>3, <2>4, Zenon
<1> QED BY <1>3, <1>8, <1>9, <1>10, Zenon DEF FlightInv, FdInv

--------------------------------------------------------------------------------
(* Types. *)

(* A call is entered with one of the calls. *)
LEMMA EnterTypes ==
    ASSUME TypeOK, NEW t \in Threads, NEW c \in Calls, Enter(t, c)
    PROVE  call' \in [Threads -> Calls \cup {NoCall}] /\ calls' \in 0..MaxCalls
<1>1. call' \in [Threads -> Calls \cup {NoCall}]
  BY Zenon DEF TypeOK, Enter
<1>2. calls \in 0..MaxCalls /\ calls < MaxCalls /\ calls' = calls + 1
  BY Zenon DEF TypeOK, Enter
<1> QED BY <1>1, <1>2, BoundAssumption

(* Bookkeeping gives up the call and perhaps the mutex. *)
LEMMA FinishTypes ==
    ASSUME TypeOK, NEW t \in Threads, Finish(t)
    PROVE  /\ call' \in [Threads -> Calls \cup {NoCall}] /\ fd_transaction_mutex' \in Threads \cup {NoThread}
           /\ UNCHANGED <<file, ion, pending_gpu_allocation, calls, unseen>>
BY Zenon DEF TypeOK, Finish, kernelVars

(* The system calls on descriptors keep the types. *)
LEMMA FdCallTypes ==
    ASSUME TypeOK, NEW t \in Threads, IoctlCreate(t) \/ IoctlShare(t) \/ IoctlCamera(t) \/ Close(t)
    PROVE  TypeOK'
<1>1. fd_transaction_mutex' \in Threads \cup {NoThread}
  BY Zenon DEF IoctlCreate, IoctlShare, IoctlCamera, Close, LockFds
<1>2. UNCHANGED <<dma_fds, pending_ion_allocations, records, pending_gpu_allocation, unseen>>
  BY Zenon DEF IoctlCreate, IoctlShare, IoctlCamera, Close, stateVars
<1>3. {"create", "share", "camera", "closed"} \subseteq Ops
  BY Zenon DEF Ops
<1>4. /\ file' \in [Fds -> Files \cup {NoFile}] /\ ion' \in [Fds -> [Handles -> IonHandles \cup {NoIon}]]
      /\ call' \in [Threads -> Calls \cup {NoCall}] /\ calls' \in 0..MaxCalls
  <2>1. CASE IoctlCreate(t)
    <3>1. PICK f \in Fds, size \in Sizes :
            /\ file' = [file EXCEPT ![f] = Buffer(size, "create", FALSE)]
            /\ Enter(t, SizedCall("create", f, size)) /\ ion' = ion
      BY <2>1, Zenon DEF IoctlCreate, SizedCall
    <3>2. Buffer(size, "create", FALSE) \in Files
      BY BufferFields
    <3>3. SizedCall("create", f, size) \in Calls
      BY <1>3, SizedCallFields
    <3>4. call' \in [Threads -> Calls \cup {NoCall}] /\ calls' \in 0..MaxCalls
      BY <3>1, <3>3, EnterTypes, Zenon
    <3> QED BY <3>1, <3>2, <3>4, Zenon DEF TypeOK
  <2>2. CASE IoctlShare(t)
    <3>1. PICK dev \in Fds, h \in Handles, f \in Fds :
            /\ ion[dev][h] # NoIon /\ ion' = ion
            /\ file' = [file EXCEPT ![f] = Buffer(ion[dev][h].size,
                                                  IF ion[dev][h].seen THEN "share" ELSE "elsewhere",
                                                  ion[dev][h].raced)]
            /\ Enter(t, ShareCall("share", dev, h, f))
      BY <2>2, Zenon DEF IoctlShare, ShareCall
    <3>2. PICK size \in Sizes, raced \in BOOLEAN : size = ion[dev][h].size /\ raced = ion[dev][h].raced
      <4>1. ion[dev] \in [Handles -> IonHandles \cup {NoIon}]
        BY Zenon DEF TypeOK
      <4>2. ion[dev][h] \in IonHandles
        BY <3>1, <4>1, Zenon
      <4> QED BY <4>2, Zenon DEF IonHandles
    <3>3. PICK born \in {"create", "share", "elsewhere"} : born = IF ion[dev][h].seen THEN "share" ELSE "elsewhere"
      BY Zenon
    <3>4. Buffer(size, born, raced) \in Files
      BY BufferFields
    <3>5. file' = [file EXCEPT ![f] = Buffer(size, born, raced)]
      BY <3>1, <3>2, <3>3, Zenon
    <3>6. ShareCall("share", dev, h, f) \in Calls
      BY <1>3, ShareCallFields
    <3>7. call' \in [Threads -> Calls \cup {NoCall}] /\ calls' \in 0..MaxCalls
      BY <3>1, <3>6, EnterTypes, Zenon
    <3>8. ion' = ion
      BY <3>1, Zenon
    <3> QED BY <3>4, <3>5, <3>7, <3>8, Zenon DEF TypeOK
  <2>3. CASE IoctlCamera(t)
    <3>1. PICK f \in Fds, told \in BOOLEAN :
            /\ file[f].kind \in {"dma", "plain"} /\ Enter(t, FdCall("camera", f)) /\ ion' = ion
            /\ file' = [file EXCEPT ![f] = Shown(file[f], told, file[f].mapped)]
      BY <2>3, Zenon DEF IoctlCamera, FdCall
    <3>2. FdCall("camera", f) \in Calls
      BY <1>3, FdCallFields
    <3>3. call' \in [Threads -> Calls \cup {NoCall}] /\ calls' \in 0..MaxCalls
      BY <3>1, <3>2, EnterTypes, Zenon
    <3>4. file[f] \in Files
      BY <3>1, FileFields, Zenon DEF TypeOK
    <3>5. PICK mapped \in BOOLEAN : mapped = file[f].mapped
      BY <3>4, Zenon DEF Files
    <3>6. Shown(file[f], told, mapped) \in Files
      BY <3>4, ShownFields
    <3>7. file' \in [Fds -> Files \cup {NoFile}]
      BY <3>1, <3>5, <3>6, Zenon DEF TypeOK
    <3> QED BY <3>1, <3>3, <3>7, Zenon DEF TypeOK
  <2>4. CASE Close(t)
    <3>1. PICK f \in Fds :
            /\ file' = [file EXCEPT ![f] = NoFile] /\ ion' = [ion EXCEPT ![f] = [h \in Handles |-> NoIon]]
            /\ Enter(t, FdCall("closed", f))
      BY <2>4, Zenon DEF Close, FdCall
    <3>2. FdCall("closed", f) \in Calls
      BY <1>3, FdCallFields
    <3>3. call' \in [Threads -> Calls \cup {NoCall}] /\ calls' \in 0..MaxCalls
      BY <3>1, <3>2, EnterTypes, Zenon
    <3>4. file' \in [Fds -> Files \cup {NoFile}] /\ ion' \in [Fds -> [Handles -> IonHandles \cup {NoIon}]]
      BY <3>1, Zenon DEF TypeOK
    <3> QED BY <3>3, <3>4, Zenon
  <2> QED BY <2>1, <2>2, <2>3, <2>4, Zenon
<1> QED BY <1>1, <1>2, <1>4, Zenon DEF TypeOK

(* An update of one handle keeps the handles' type. *)
LEMMA IonTypes ==
    ASSUME TypeOK, NEW dev \in Fds, NEW h \in Handles, NEW x \in IonHandles \cup {NoIon}
    PROVE  IonWith(dev, h, x) \in [Fds -> [Handles -> IonHandles \cup {NoIon}]]
<1> DEFINE row == [ion[dev] EXCEPT ![h] = x]
<1>1. ion \in [Fds -> [Handles -> IonHandles \cup {NoIon}]]
  BY Zenon DEF TypeOK
<1>2. IonWith(dev, h, x) = [ion EXCEPT ![dev] = row]
  BY DEF IonWith
<1>3. row \in [Handles -> IonHandles \cup {NoIon}]
  BY <1>1, Zenon
<1> HIDE DEF row
<1> QED BY <1>1, <1>2, <1>3, Zenon

(* The calls on handles keep the types. *)
LEMMA HandleCallTypes ==
    ASSUME TypeOK, NEW t \in Threads, IoctlIonAlloc(t) \/ IoctlIonImport(t) \/ IoctlIonFree(t)
    PROVE  TypeOK'
<1>1. UNCHANGED <<file, dma_fds, pending_ion_allocations, records, pending_gpu_allocation,
                  fd_transaction_mutex, unseen>>
  BY Zenon DEF IoctlIonAlloc, IoctlIonImport, IoctlIonFree, stateVars
<1>2. {"ionRecord", "ionDrop"} \subseteq Ops
  BY Zenon DEF Ops
<1>3. /\ ion' \in [Fds -> [Handles -> IonHandles \cup {NoIon}]]
      /\ call' \in [Threads -> Calls \cup {NoCall}] /\ calls' \in 0..MaxCalls
  <2>1. CASE IoctlIonAlloc(t)
    <3>1. PICK dev \in Fds, h \in Handles, size \in Sizes :
            /\ ion' = IonWith(dev, h, NewHandle(size, TRUE, FreeInFlight(dev, h)))
            /\ Enter(t, RecordCall("ionRecord", dev, h, size))
      BY <2>1, Zenon DEF IoctlIonAlloc, IonWith, NewHandle, RecordCall
    <3>2. PICK raced \in BOOLEAN : raced = FreeInFlight(dev, h)
      BY Zenon DEF FreeInFlight
    <3>3. PICK x \in IonHandles : x = NewHandle(size, TRUE, raced)
      <4>1. NewHandle(size, TRUE, raced) \in IonHandles
        BY NewHandleFields
      <4> QED BY <4>1, Zenon
    <3>4. ion' = IonWith(dev, h, x)
      BY <3>1, <3>2, <3>3, Zenon
    <3>5. ion' \in [Fds -> [Handles -> IonHandles \cup {NoIon}]]
      BY <3>4, IonTypes, Zenon
    <3>6. RecordCall("ionRecord", dev, h, size) \in Calls
      BY <1>2, RecordCallFields
    <3> QED BY <3>1, <3>5, <3>6, EnterTypes, Zenon
  <2>2. CASE IoctlIonImport(t)
    <3>1. PICK dev \in Fds, h \in Handles, size \in Sizes :
            ion' = IonWith(dev, h, NewHandle(size, FALSE, FreeInFlight(dev, h)))
      BY <2>2, Zenon DEF IoctlIonImport, IonWith, NewHandle
    <3>2. PICK raced \in BOOLEAN : raced = FreeInFlight(dev, h)
      BY Zenon DEF FreeInFlight
    <3>3. PICK x \in IonHandles : x = NewHandle(size, FALSE, raced)
      <4>1. NewHandle(size, FALSE, raced) \in IonHandles
        BY NewHandleFields
      <4> QED BY <4>1, Zenon
    <3>4. ion' = IonWith(dev, h, x)
      BY <3>1, <3>2, <3>3, Zenon
    <3>5. ion' \in [Fds -> [Handles -> IonHandles \cup {NoIon}]]
      BY <3>4, IonTypes, Zenon
    <3>6. calls \in 0..MaxCalls /\ calls < MaxCalls /\ calls' = calls + 1
      BY <2>2, Zenon DEF IoctlIonImport, TypeOK
    <3>7. calls' \in 0..MaxCalls
      BY <3>6, BoundAssumption
    <3>8. call' \in [Threads -> Calls \cup {NoCall}]
      BY <2>2, Zenon DEF IoctlIonImport, TypeOK
    <3> QED BY <3>5, <3>7, <3>8, Zenon
  <2>3. CASE IoctlIonFree(t)
    <3>1. PICK dev \in Fds, h \in Handles :
            ion' = IonWith(dev, h, NoIon) /\ Enter(t, HandleCall("ionDrop", dev, h))
      BY <2>3, Zenon DEF IoctlIonFree, IonWith, HandleCall
    <3>2. ion' \in [Fds -> [Handles -> IonHandles \cup {NoIon}]]
      BY <3>1, IonTypes, Zenon
    <3>3. HandleCall("ionDrop", dev, h) \in Calls
      BY <1>2, HandleCallFields
    <3> QED BY <3>1, <3>2, <3>3, EnterTypes, Zenon
  <2> QED BY <2>1, <2>2, <2>3, Zenon
<1> QED BY <1>1, <1>3, Zenon DEF TypeOK

(* So do mappings, GPU allocations and what happens unseen. *)
LEMMA OtherTypes ==
    ASSUME TypeOK,
           (\E t \in Threads : IoctlGpuAlloc(t) \/ MmapShared(t) \/ MmapOther(t)) \/ UnseenOpen \/ UnseenClose
    PROVE  TypeOK'
<1>1. CASE \E t \in Threads : IoctlGpuAlloc(t) \/ MmapOther(t)
  BY <1>1, Zenon DEF IoctlGpuAlloc, MmapOther, kernelVars, stateVars, TypeOK
<1>2. ASSUME NEW t \in Threads, MmapShared(t) PROVE TypeOK'
  <2>1. PICK f \in Fds, told \in BOOLEAN :
          /\ file[f] # NoFile /\ UNCHANGED <<ion, stateVars, unseen>>
          /\ pending_gpu_allocation' = [pending_gpu_allocation EXCEPT ![t] = FALSE]
          /\ \/ /\ LockFds(t) /\ Enter(t, FdCall("mapped", f))
                /\ file' = [file EXCEPT ![f] = Shown(file[f], told, file[f].mapped \/ told)]
             \/ UNCHANGED <<file, fd_transaction_mutex, call, calls>>
    BY <1>2, Zenon DEF MmapShared, FdCall
  <2>2. /\ pending_gpu_allocation' \in [Threads -> BOOLEAN]
        /\ UNCHANGED <<ion, dma_fds, pending_ion_allocations, records, unseen>>
    BY <2>1, Zenon DEF TypeOK, stateVars
  <2>3. CASE UNCHANGED <<file, fd_transaction_mutex, call, calls>>
    BY <2>2, <2>3, Zenon DEF TypeOK
  <2>4. CASE /\ LockFds(t) /\ Enter(t, FdCall("mapped", f))
             /\ file' = [file EXCEPT ![f] = Shown(file[f], told, file[f].mapped \/ told)]
    <3>1. file[f] \in Files
      BY <2>1, Zenon DEF TypeOK
    <3>2. PICK mapped \in BOOLEAN : mapped = (file[f].mapped \/ told)
      BY Zenon
    <3>3. Shown(file[f], told, mapped) \in Files
      BY <3>1, ShownFields
    <3>4. file' \in [Fds -> Files \cup {NoFile}]
      BY <2>4, <3>2, <3>3, Zenon DEF TypeOK
    <3>5. "mapped" \in Ops
      BY Zenon DEF Ops
    <3>6. FdCall("mapped", f) \in Calls
      BY <3>5, FdCallFields
    <3>7. call' \in [Threads -> Calls \cup {NoCall}] /\ calls' \in 0..MaxCalls
      BY <2>4, <3>6, EnterTypes, Zenon
    <3>8. fd_transaction_mutex' \in Threads \cup {NoThread}
      BY <2>4, Zenon DEF LockFds
    <3> QED BY <2>2, <3>4, <3>7, <3>8, Zenon DEF TypeOK
  <2> QED BY <2>1, <2>3, <2>4, Zenon
<1>3. CASE UnseenOpen
  <2>1. PICK f \in Fds, new \in {Plain, Ion} \cup {Buffer(size, "elsewhere", FALSE) : size \in Sizes} :
          file' = [file EXCEPT ![f] = new]
    BY <1>3, Zenon DEF UnseenOpen
  <2>2. new \in Files
    <3>1. CASE new \in {Plain, Ion}
      BY <3>1, FileFields, Zenon
    <3>2. CASE new \in {Buffer(size, "elsewhere", FALSE) : size \in Sizes}
      <4>1. PICK size \in Sizes : new = Buffer(size, "elsewhere", FALSE)
        BY <3>2, Zenon
      <4>2. Buffer(size, "elsewhere", FALSE) \in Files
        BY BufferFields
      <4> QED BY <4>1, <4>2, Zenon
    <3> QED BY <3>1, <3>2, Zenon
  <2>3. file' \in [Fds -> Files \cup {NoFile}]
    BY <2>1, <2>2, Zenon DEF TypeOK
  <2>4. UNCHANGED <<ion, dma_fds, pending_ion_allocations, records, pending_gpu_allocation,
                    fd_transaction_mutex, call, calls, unseen>>
    BY <1>3, Zenon DEF UnseenOpen, stateVars
  <2> QED BY <2>3, <2>4, Zenon DEF TypeOK
<1>4. CASE UnseenClose
  <2>1. file' \in [Fds -> Files \cup {NoFile}] /\ ion' \in [Fds -> [Handles -> IonHandles \cup {NoIon}]]
    <3>1. PICK f \in Fds : /\ file' = [file EXCEPT ![f] = NoFile]
                           /\ ion' = [ion EXCEPT ![f] = [h \in Handles |-> NoIon]]
      BY <1>4, Zenon DEF UnseenClose
    <3> QED BY <3>1, Zenon DEF TypeOK
  <2>2. UNCHANGED <<dma_fds, pending_ion_allocations, records, pending_gpu_allocation,
                    fd_transaction_mutex, call, calls, unseen>>
    BY <1>4, Zenon DEF UnseenClose, stateVars
  <2> QED BY <2>1, <2>2, Zenon DEF TypeOK
<1> QED BY <1>1, <1>2, <1>3, <1>4, Zenon

(* And the bookkeeping. *)
LEMMA BookkeepingTypes ==
    ASSUME DmaInv, NEW t \in Threads, Bookkeeping(t)
    PROVE  TypeOK'
<1>1. TypeOK /\ Finish(t)
  BY Zenon DEF DmaInv, Bookkeeping, RegisterCreated, RegisterCamera, TrackMapping, RecordIonAllocation,
               DropIonAllocation, ForgetClosed
<1>2. /\ call' \in [Threads -> Calls \cup {NoCall}] /\ fd_transaction_mutex' \in Threads \cup {NoThread}
      /\ UNCHANGED <<file, ion, pending_gpu_allocation, calls, unseen>>
  BY <1>1, FinishTypes, Zenon
<1>3. call[t].op \in Locking => call[t].fd \in Fds
  BY Zenon DEF DmaInv, FlightInv, CallInv, CallOK
<1>4. /\ dma_fds' \in [Fds -> Entries \cup {NoEntry}] /\ records' \in [Fds -> Sizes \cup {NoSize}]
      /\ pending_ion_allocations' \in [Fds -> [Handles -> Sizes \cup {NoSize}]]
  <2>1. CASE RegisterCreated(t)
    <3>1. PICK f \in Fds : f = call[t].fd
      BY <1>3, <2>1, Zenon DEF RegisterCreated, Locking
    <3>2. call[t].op \in {"create", "share"} /\ UNCHANGED pending_ion_allocations
      BY <2>1, Zenon DEF RegisterCreated
    <3>3. PICK size \in Sizes \cup {NoSize} : size = BornSize(call[t])
      BY <3>1, <3>2, BornSizes, Zenon
    <3>4. IF size = NoSize THEN UNCHANGED <<dma_fds, records>>
          ELSE Register(f, size, Forgotten(f), RecordsWithout(f))
      BY <2>1, <3>1, <3>3, Zenon DEF RegisterCreated, BornSize
    <3>5. CASE size = NoSize
      BY <1>1, <3>2, <3>4, <3>5, Zenon DEF TypeOK
    <3>6. CASE size # NoSize
      <4>1. PICK fds \in [Fds -> Entries \cup {NoEntry}], recs \in [Fds -> Sizes \cup {NoSize}] :
               fds = Forgotten(f) /\ recs = RecordsWithout(f) /\ fds[f] = NoEntry
        BY <1>1, ForgottenFd, Zenon
      <4>2. ~fds[f].tracked /\ Register(f, size, fds, recs) /\ size \in Sizes
        BY <3>3, <3>4, <3>6, <4>1, EntryFields, Zenon
      <4>3. dma_fds' \in [Fds -> Entries \cup {NoEntry}] /\ records' \in [Fds -> Sizes \cup {NoSize}]
        BY <4>2, Registered
      <4> QED BY <1>1, <3>2, <4>3, Zenon DEF TypeOK
    <3> QED BY <3>5, <3>6, Zenon
  <2>2. CASE RegisterCamera(t) \/ TrackMapping(t)
    <3>1. call[t].op \in {"camera", "mapped"} /\ UNCHANGED pending_ion_allocations
      BY <2>2, Zenon DEF RegisterCamera, TrackMapping
    <3>2. PICK f \in Fds : f = call[t].fd
      BY <1>3, <3>1, Zenon DEF Locking
    <3>3. Register(f, KnownSize(f), dma_fds, records) \/ UNCHANGED <<dma_fds, records>>
      BY <2>2, <3>2, Zenon DEF RegisterCamera, TrackMapping
    <3>4. CASE UNCHANGED <<dma_fds, records>>
      BY <1>1, <3>1, <3>4, Zenon DEF TypeOK
    <3>5. CASE Register(f, KnownSize(f), dma_fds, records)
      <4>1. CASE dma_fds[f].tracked /\ KnownSize(f) = dma_fds[f].size /\ KnownSize(f) # NoSize
        <5>1. Register(f, dma_fds[f].size, dma_fds, records) /\ dma_fds[f].size # NoSize
          BY <3>5, <4>1, Zenon
        <5>2. UNCHANGED <<dma_fds, records>>
          BY <1>1, <4>1, <5>1, SizeRewritten, Zenon
        <5> QED BY <1>1, <3>1, <5>2, Zenon DEF TypeOK
      <4>2. CASE ~dma_fds[f].tracked /\ KnownSize(f) \in Sizes
        <5>1. PICK size \in Sizes : size = KnownSize(f)
          BY <4>2, Zenon
        <5>2. Register(f, size, dma_fds, records) /\ ~dma_fds[f].tracked
          BY <3>5, <4>2, <5>1, Zenon
        <5>3. dma_fds \in [Fds -> Entries \cup {NoEntry}] /\ records \in [Fds -> Sizes \cup {NoSize}]
          BY <1>1, Zenon DEF TypeOK
        <5>4. dma_fds' \in [Fds -> Entries \cup {NoEntry}] /\ records' \in [Fds -> Sizes \cup {NoSize}]
          BY <5>2, <5>3, Registered
        <5> QED BY <1>1, <3>1, <5>4, Zenon DEF TypeOK
      <4>3. CASE KnownSize(f) = NoSize
        <5>1. UNCHANGED <<dma_fds, records>>
          BY <3>5, <4>3, Zenon DEF Register
        <5> QED BY <1>1, <3>1, <5>1, Zenon DEF TypeOK
      <4> QED BY <4>1, <4>2, <4>3, KnownSizes, Zenon
    <3> QED BY <3>3, <3>4, <3>5, Zenon
  <2>3. CASE RecordIonAllocation(t) \/ DropIonAllocation(t)
    <3>1. /\ call[t].op \in {"ionRecord", "ionDrop"} /\ UNCHANGED <<dma_fds, records>>
          /\ \/ /\ call[t].op = "ionRecord"
                /\ pending_ion_allocations' = PendingWith(call[t].dev, call[t].handle, call[t].size)
             \/ pending_ion_allocations' = PendingWith(call[t].dev, call[t].handle, NoSize)
      BY <2>3, Zenon DEF RecordIonAllocation, DropIonAllocation, PendingWith
    <3>2. PICK dev \in Fds, h \in Handles : dev = call[t].dev /\ h = call[t].handle
      BY <3>1, Zenon DEF DmaInv, FlightInv, CallInv, CallOK
    <3>3. call[t].op = "ionRecord" => call[t].size \in Sizes
      <4>1. call[t] \in Calls \cup {NoCall}
        BY <1>1, Zenon DEF TypeOK
      <4>2. call[t].op = "ionRecord" => /\ ion[dev][h] # NoIon /\ call[t].size = ion[dev][h].size
        BY <3>2, Zenon DEF DmaInv, FlightInv, CallInv, CallOK, RecordOK
      <4>3. ion[dev] \in [Handles -> IonHandles \cup {NoIon}]
        BY <1>1, Zenon DEF TypeOK
      <4>4. ion[dev][h] # NoIon => ion[dev][h] \in IonHandles
        BY <4>3, Zenon
      <4> QED BY <4>2, <4>4, Zenon DEF IonHandles
    <3>4. PICK size \in Sizes \cup {NoSize} : pending_ion_allocations' = PendingWith(dev, h, size)
      BY <3>1, <3>2, <3>3, Zenon
    <3>5. pending_ion_allocations' \in [Fds -> [Handles -> Sizes \cup {NoSize}]]
      BY <1>1, <3>4, PendingUpdated
    <3> QED BY <1>1, <3>1, <3>5, Zenon DEF TypeOK
  <2>4. CASE ForgetClosed(t)
    <3>1. PICK f \in Fds : f = call[t].fd
      BY <1>3, <2>4, Zenon DEF ForgetClosed, Locking
    <3>2. /\ dma_fds' = Forgotten(f) /\ records' = RecordsWithout(f)
          /\ pending_ion_allocations' = [pending_ion_allocations EXCEPT ![f] = [h \in Handles |-> NoSize]]
      BY <2>4, <3>1, Zenon DEF ForgetClosed
    <3>3. dma_fds' \in [Fds -> Entries \cup {NoEntry}] /\ records' \in [Fds -> Sizes \cup {NoSize}]
      BY <1>1, <3>2, ForgottenFd, Zenon
    <3>4. pending_ion_allocations' \in [Fds -> [Handles -> Sizes \cup {NoSize}]]
      BY <1>1, <3>2, Zenon DEF TypeOK
    <3> QED BY <3>3, <3>4, Zenon
  <2> QED BY <2>1, <2>2, <2>3, <2>4, Zenon DEF Bookkeeping
<1> QED BY <1>1, <1>2, <1>4, Zenon DEF TypeOK

--------------------------------------------------------------------------------
(* Every step keeps the invariant. *)
LEMMA DmaNext == DmaInv /\ [Next]_vars => DmaInv'
<1> SUFFICES ASSUME DmaInv, [Next]_vars PROVE DmaInv'
  BY Zenon
<1>1. TypeOK
  BY Zenon DEF DmaInv
<1>2. ASSUME NEW t \in Threads, SystemCall(t) PROVE DmaInv'
  <2>1. CASE IoctlCreate(t) \/ IoctlShare(t) \/ IoctlCamera(t) \/ Close(t)
    <3>1. TypeOK'
      BY <1>1, <2>1, FdCallTypes, Zenon
    <3>2. FlightInv'
      BY <2>1, BirthSteps, OtherSteps, CloseStep, Zenon
    <3> QED BY <3>1, <3>2, Zenon DEF DmaInv
  <2>2. CASE IoctlIonAlloc(t) \/ IoctlIonImport(t) \/ IoctlIonFree(t)
    <3>1. TypeOK'
      BY <1>1, <2>2, HandleCallTypes, Zenon
    <3>2. FlightInv'
      BY <2>2, HandleSteps, HandleDeath, Zenon
    <3> QED BY <3>1, <3>2, Zenon DEF DmaInv
  <2>3. CASE IoctlGpuAlloc(t) \/ MmapShared(t) \/ MmapOther(t)
    <3>1. TypeOK'
      BY <1>1, <2>3, OtherTypes, Zenon
    <3>2. FlightInv'
      BY <2>3, OtherSteps, Zenon
    <3> QED BY <3>1, <3>2, Zenon DEF DmaInv
  <2> QED BY <1>2, <2>1, <2>2, <2>3, Zenon DEF SystemCall
<1>3. ASSUME NEW t \in Threads, Bookkeeping(t) PROVE DmaInv'
  <2>1. TypeOK'
    BY <1>3, BookkeepingTypes, Zenon
  <2>2. FlightInv'
    BY <1>3, RegisterCreatedStep, KnownSteps, PendingSteps, ForgetClosedStep, Zenon DEF Bookkeeping
  <2> QED BY <2>1, <2>2, Zenon DEF DmaInv
<1>4. CASE UnseenOpen \/ UnseenClose
  <2>1. TypeOK'
    BY <1>1, <1>4, OtherTypes, Zenon
  <2>2. FlightInv'
    BY <1>4, UnseenOpenStep, UnseenCloseStep, Zenon
  <2> QED BY <2>1, <2>2, Zenon DEF DmaInv
<1>5. CASE UNCHANGED vars
  <2>1. UNCHANGED <<file, ion, stateVars, fd_transaction_mutex, call, unseen>>
    BY <1>5, Zenon DEF vars, kernelVars
  <2>2. FlightInv'
    BY <2>1, QuietStep, Zenon
  <2>3. TypeOK'
    BY <1>1, <1>5, Zenon DEF TypeOK, vars, kernelVars, stateVars
  <2> QED BY <2>2, <2>3, Zenon DEF DmaInv
<1> QED BY <1>2, <1>3, <1>4, <1>5, Zenon DEF Next

(* A descriptor that nobody works on has no call in flight. *)
LEMMA SettledMeans ==
    ASSUME NEW f \in Fds, Settled(f), NEW op \in Ops
    PROVE  ~OnFd(op, f)
<1> SUFFICES ASSUME NEW t \in Threads, call[t].op = op, call[t].fd = f PROVE FALSE
  BY Zenon DEF OnFd
<1>1. call[t] # NoCall
  BY CallFields, Zenon
<1> QED BY <1>1, Zenon DEF Settled, Busy

(* The descriptors and handles of the registry, and the calls in flight on them,
   always fit what the kernel has: what the three theorems rest on. *)
THEOREM DmaInvariant == Spec => []DmaInv
BY DmaInit, DmaNext, PTL DEF Spec

(* RegistryExact for every set of threads, descriptors, handles and sizes: an
   entry is marked exactly when debug_ioctl, debug_close_with and debug_mmap have
   left a DMA record of its size, and unless a close escapes the hook no number
   that is free or belongs to another file keeps either. *)
THEOREM RegistryAlwaysExact == Spec => []RegistryExact
<1>1. DmaInv => RegistryExact
  <2> SUFFICES ASSUME DmaInv PROVE RegistryExact
    BY Zenon
  <2>1. ASSUME NEW f \in Fds PROVE records[f] = IF dma_fds[f].tracked THEN dma_fds[f].size ELSE NoSize
    <3>1. EntryOK(f)
      BY Zenon DEF DmaInv, FlightInv, FdInv, FdOK
    <3>2. CASE dma_fds[f] = NoEntry /\ records[f] = NoSize
      BY <3>2, EntryFields, Zenon
    <3>3. CASE dma_fds[f] = Entry(records[f]) /\ records[f] \in Sizes
      BY <3>3, EntryFields, Zenon
    <3> QED BY <3>1, <3>2, <3>3, Zenon DEF EntryOK, Entry
  <2>2. ASSUME "close" \notin unseen, NEW f \in Fds, file[f].kind # "dma", Settled(f)
        PROVE  dma_fds[f] = NoEntry /\ records[f] = NoSize
    <3>1. EntryOK(f) /\ StaleOK(f)
      BY <2>2, Zenon DEF DmaInv, FlightInv, FdInv, FdOK
    <3>2. "closed" \in Ops
      BY Zenon DEF Ops
    <3>3. records[f] = NoSize
      BY <2>2, <3>1, <3>2, SettledMeans, Zenon DEF StaleOK
    <3> QED BY <3>1, <3>3, EntryFields, Zenon DEF EntryOK
  <2>3. TypeOK
    BY Zenon DEF DmaInv
  <2> QED BY <2>1, <2>2, <2>3, Zenon DEF RegistryExact, RegistryBacksRecords, NothingStale
<1> QED BY <1>1, DmaInvariant, PTL

(* BuffersCounted for every set of threads, descriptors, handles and sizes: a
   buffer the hook saw made has a record of its own size, whatever was known under
   its number before, and one that was mapped while its fdinfo could be read has a
   record; a mapping whose fdinfo is_dma_buf cannot read promises nothing. *)
THEOREM BuffersAlwaysCounted == Spec => []BuffersCounted
<1>1. DmaInv => BuffersCounted
  <2> SUFFICES ASSUME DmaInv PROVE BuffersCounted
    BY Zenon
  <2>1. ASSUME NEW f \in Fds, Settled(f)
        PROVE  /\ file[f].born = "create" => records[f] = file[f].size
               /\ file[f].mapped => records[f] # NoSize
    <3>1. CountOK(f)
      BY Zenon DEF DmaInv, FlightInv, FdInv, FdOK
    <3>2. "create" \in Ops /\ "mapped" \in Ops
      BY Zenon DEF Ops
    <3>3. ~OnFd("create", f) /\ ~OnFd("mapped", f)
      BY <2>1, <3>2, SettledMeans, Zenon
    <3> QED BY <3>1, <3>3, Zenon DEF CountOK
  <2> QED BY <2>1, Zenon DEF BuffersCounted, BornCounted, MappedCounted
<1> QED BY <1>1, DmaInvariant, PTL

(* SharedSized for every set of threads, descriptors, handles and sizes: unless a
   close escapes the hook, a record has its buffer's size, and a buffer exported
   from a handle the hook saw allocated has one; only a handle number reissued
   while the end of an earlier one was in flight is excepted. *)
THEOREM SharedAlwaysSized == Spec => []SharedSized
<1>1. DmaInv => SharedSized
  <2> SUFFICES ASSUME DmaInv, "close" \notin unseen, NEW f \in Fds, file[f].kind = "dma",
                      ~file[f].raced, Settled(f)
               PROVE  /\ records[f] \in {NoSize, file[f].size}
                      /\ file[f].born = "share" => records[f] = file[f].size
    BY Zenon DEF SharedSized
  <2>1. SizeOK(f)
    BY Zenon DEF DmaInv, FlightInv, FdInv, FdOK
  <2>2. "closed" \in Ops /\ "share" \in Ops
    BY Zenon DEF Ops
  <2>3. ~OnFd("closed", f) /\ ~OnFd("share", f)
    BY <2>2, SettledMeans, Zenon
  <2> QED BY <2>1, <2>3, Zenon DEF SizeOK
<1> QED BY <1>1, DmaInvariant, PTL
================================================================================
