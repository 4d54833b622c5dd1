--------------------------------- MODULE DmaFd ---------------------------------
(***************************************************************************)
(* DMA buffers known by their descriptor (namespace DMA_BUF of             *)
(* backtrace/src/malloc_debug.cpp): the registry of descriptors, the sizes *)
(* of ION handles that have no descriptor yet, and the DMA records that    *)
(* debug_ioctl, debug_close_with and a shared debug_mmap keep under the    *)
(* descriptor's number.                                                    *)
(*                                                                         *)
(* A call is two steps: the system call, after which the kernel may give   *)
(* the number away again, and the bookkeeping.  Births, shared mappings    *)
(* and closes hold fd_transaction_mutex over both; other ioctls hold no    *)
(* lock.  The application is a correct one: it never closes a descriptor   *)
(* another thread's call is working on.                                    *)
(***************************************************************************)
EXTENDS Integers, FiniteSets

CONSTANTS
    Threads, NoThread,
    Fds,        \* descriptor numbers, non-negative
    Handles,    \* ION handle numbers
    Sizes,      \* buffer sizes, positive
    Environments, \* choices of what happens unseen by the hook: "open", "close"
    MaxCalls    \* bound: interposed calls in a behaviour

ASSUME SizesAssumption == Sizes \subseteq Nat \ {0}
ASSUME NamesAssumption == NoThread \notin Threads /\ Environments \subseteq SUBSET {"open", "close"}
ASSUME BoundAssumption == MaxCalls \in Nat

NoFd == -1
ASSUME FdsAssumption == NoFd \notin Fds

NoSize == 0
NoHandle == "noHandle"

(* What the kernel has behind a descriptor.  born tells how a buffer's
   descriptor came about, told what /proc/self/fdinfo said when the hook last
   looked (it can be opened, and names an exporter and a size), mapped that an
   interposed shared mapping was made, with no GPU allocation pending, while it
   said so. *)
Files == [kind : {"dma", "ion", "plain"}, size : Sizes \cup {NoSize},
          born : {"create", "share", "elsewhere"}, raced : BOOLEAN, told : BOOLEAN,
          mapped : BOOLEAN]
NoFile == [kind |-> "none", size |-> NoSize, born |-> "elsewhere", raced |-> FALSE,
           told |-> FALSE, mapped |-> FALSE]
Plain == [NoFile EXCEPT !.kind = "plain"]
Ion == [NoFile EXCEPT !.kind = "ion"]
Buffer(size, born, raced) ==
    [kind |-> "dma", size |-> size, born |-> born, raced |-> raced,
     told |-> FALSE, mapped |-> FALSE]

(* An ION handle: the size behind it, whether the hook saw it allocated, and
   whether its number was reissued while the call that ended an earlier handle of
   that number was still in flight. *)
IonHandles == [size : Sizes, seen : BOOLEAN, raced : BOOLEAN]
NoIon == [size |-> NoSize, seen |-> FALSE, raced |-> FALSE]

(* DmaFdInfo *)
Entries == [size : Sizes, tracked : BOOLEAN]
NoEntry == [size |-> NoSize, tracked |-> FALSE]

Ops == {"create", "share", "camera", "ionRecord", "ionDrop", "closed", "mapped"}
Calls == [op : Ops, fd : Fds \cup {NoFd}, dev : Fds \cup {NoFd},
          handle : Handles \cup {NoHandle}, size : Sizes \cup {NoSize}]
NoCall == [op |-> "none", fd |-> NoFd, dev |-> NoFd, handle |-> NoHandle, size |-> NoSize]

VARIABLES
    file,       \* the kernel's descriptor table
    ion,        \* the kernel's handles of each ION descriptor
    dma_fds,
    pending_ion_allocations,
    pending_gpu_allocation,
    records,    \* descriptor -> size of its DMA record in PointerData
    fd_transaction_mutex,
    call,       \* thread -> the bookkeeping its call still has to do
    calls,
    unseen      \* the environment of this behaviour

kernelVars == <<file, ion>>
stateVars == <<dma_fds, pending_ion_allocations, records>>
vars == <<kernelVars, stateVars, pending_gpu_allocation, fd_transaction_mutex, call, calls, unseen>>

TypeOK ==
    /\ file \in [Fds -> Files \cup {NoFile}]
    /\ ion \in [Fds -> [Handles -> IonHandles \cup {NoIon}]]
    /\ dma_fds \in [Fds -> Entries \cup {NoEntry}]
    /\ pending_ion_allocations \in [Fds -> [Handles -> Sizes \cup {NoSize}]]
    /\ pending_gpu_allocation \in [Threads -> BOOLEAN]
    /\ records \in [Fds -> Sizes \cup {NoSize}]
    /\ fd_transaction_mutex \in Threads \cup {NoThread}
    /\ call \in [Threads -> Calls \cup {NoCall}]
    /\ calls \in 0..MaxCalls
    /\ unseen \in Environments

Init ==
    /\ file \in [Fds -> {NoFile, Ion}]
    /\ ion = [f \in Fds |-> [h \in Handles |-> NoIon]]
    /\ dma_fds = [f \in Fds |-> NoEntry]
    /\ pending_ion_allocations = [f \in Fds |-> [h \in Handles |-> NoSize]]
    /\ pending_gpu_allocation = [t \in Threads |-> FALSE]
    /\ records = [f \in Fds |-> NoSize]
    /\ fd_transaction_mutex = NoThread
    /\ call = [t \in Threads |-> NoCall]
    /\ calls = 0
    /\ unseen \in Environments

--------------------------------------------------------------------------------
(* The system calls. *)

Busy(f) == \E t \in Threads : call[t] # NoCall /\ f \in {call[t].fd, call[t].dev}

Enter(t, c) ==
    /\ call[t] = NoCall /\ calls < MaxCalls
    /\ calls' = calls + 1
    /\ call' = [call EXCEPT ![t] = c]

(* registers_fd: births, CAM_MEM_ION_MAP_PA, closes and shared mappings. *)
LockFds(t) == fd_transaction_mutex = NoThread /\ fd_transaction_mutex' = t

(* DMA_HEAP_IOCTL_ALLOC and ION's newer allocation return a descriptor; its
   size is in the argument.  A failing ioctl changes nothing. *)
IoctlCreate(t) ==
    \E f \in Fds, size \in Sizes :
        /\ file[f] = NoFile
        /\ LockFds(t)
        /\ file' = [file EXCEPT ![f] = Buffer(size, "create", FALSE)]
        /\ Enter(t, [NoCall EXCEPT !.op = "create", !.fd = f, !.size = size])
        /\ UNCHANGED <<ion, stateVars, pending_gpu_allocation, unseen>>

(* No thread is still inside the call that allocates or exports the handle. *)
Returned(dev, h) ==
    \A t \in Threads :
        ~(call[t].op \in {"ionRecord", "share"} /\ call[t].dev = dev /\ call[t].handle = h)

(* ION_IOC_MAP and ION_IOC_SHARE export a handle as a descriptor. *)
IoctlShare(t) ==
    \E dev \in Fds, h \in Handles, f \in Fds :
        /\ file[dev].kind = "ion" /\ ion[dev][h] # NoIon /\ file[f] = NoFile
        /\ Returned(dev, h)
        /\ LockFds(t)
        /\ file' = [file EXCEPT ![f] = Buffer(ion[dev][h].size,
                                              IF ion[dev][h].seen THEN "share" ELSE "elsewhere",
                                              ion[dev][h].raced)]
        /\ Enter(t, [NoCall EXCEPT !.op = "share", !.fd = f, !.dev = dev, !.handle = h])
        /\ UNCHANGED <<ion, stateVars, pending_gpu_allocation, unseen>>

(* The kernel's choice of what fdinfo will say: an open that fails, a kernel
   without the exporter's or the size's line, or all of them legible. *)
Shown(x, told, mapped) == [x EXCEPT !.told = told, !.mapped = mapped]

(* CAM_MEM_ION_MAP_PA names a descriptor the application has. *)
IoctlCamera(t) ==
    \E f \in Fds, legible \in BOOLEAN :
        /\ file[f].kind \in {"dma", "plain"} /\ ~Busy(f)
        /\ legible => file[f].kind = "dma"
        /\ LockFds(t)
        /\ file' = [file EXCEPT ![f] = Shown(file[f], legible, file[f].mapped)]
        /\ Enter(t, [NoCall EXCEPT !.op = "camera", !.fd = f])
        /\ UNCHANGED <<ion, stateVars, pending_gpu_allocation, unseen>>

FreeInFlight(dev, h) ==
    \E t \in Threads :
        \/ call[t].op = "ionDrop" /\ call[t].dev = dev /\ call[t].handle = h
        \/ call[t].op = "closed" /\ call[t].fd = dev

(* The legacy ION allocation returns a handle only. *)
IoctlIonAlloc(t) ==
    \E dev \in Fds, h \in Handles, size \in Sizes :
        /\ file[dev].kind = "ion" /\ ion[dev][h] = NoIon
        /\ ion' = [ion EXCEPT ![dev][h] = [size |-> size, seen |-> TRUE,
                                           raced |-> FreeInFlight(dev, h)]]
        /\ Enter(t, [NoCall EXCEPT !.op = "ionRecord", !.dev = dev, !.handle = h, !.size = size])
        /\ UNCHANGED <<file, stateVars, pending_gpu_allocation, fd_transaction_mutex, unseen>>

(* ION_IOC_IMPORT returns a handle whose size the hook does not learn. *)
IoctlIonImport(t) ==
    \E dev \in Fds, h \in Handles, size \in Sizes :
        /\ file[dev].kind = "ion" /\ ion[dev][h] = NoIon
        /\ call[t] = NoCall /\ calls < MaxCalls
        /\ calls' = calls + 1
        /\ ion' = [ion EXCEPT ![dev][h] = [size |-> size, seen |-> FALSE,
                                           raced |-> FreeInFlight(dev, h)]]
        /\ UNCHANGED <<file, stateVars, pending_gpu_allocation, fd_transaction_mutex, call, unseen>>

IoctlIonFree(t) ==
    \E dev \in Fds, h \in Handles :
        /\ file[dev].kind = "ion" /\ ion[dev][h] # NoIon
        /\ Returned(dev, h)
        /\ ion' = [ion EXCEPT ![dev][h] = NoIon]
        /\ Enter(t, [NoCall EXCEPT !.op = "ionDrop", !.dev = dev, !.handle = h])
        /\ UNCHANGED <<file, stateVars, pending_gpu_allocation, fd_transaction_mutex, unseen>>

(* KBASE_IOCTL_MEM_ALLOC(_EX) and IOCTL_KGSL_GPUOBJ_ALLOC: the next mapping of
   this thread is the buffer's. *)
IoctlGpuAlloc(t) ==
    /\ call[t] = NoCall /\ ~pending_gpu_allocation[t]
    /\ pending_gpu_allocation' = [pending_gpu_allocation EXCEPT ![t] = TRUE]
    /\ UNCHANGED <<kernelVars, stateVars, fd_transaction_mutex, call, calls, unseen>>

(* Slip: the descriptor is forgotten only when close returned 0. *)
CloseUnlessInterrupted(t) ==
    \E f \in Fds, result \in {"zero", "interrupted"} :
        /\ file[f] # NoFile /\ ~Busy(f)
        /\ LockFds(t)
        /\ file' = [file EXCEPT ![f] = NoFile]
        /\ ion' = [ion EXCEPT ![f] = [h \in Handles |-> NoIon]]
        /\ Enter(t, IF result = "zero" THEN [NoCall EXCEPT !.op = "closed", !.fd = f]
                                       ELSE [NoCall EXCEPT !.op = "mapped", !.fd = NoFd])
        /\ UNCHANGED <<stateVars, pending_gpu_allocation, unseen>>

(* The descriptor may be closed although close reports EINTR or EIO; only EBADF,
   which changes nothing, proves that there was none. *)
Close(t) ==
    \E f \in Fds :
        /\ file[f] # NoFile /\ ~Busy(f)
        /\ LockFds(t)
        /\ file' = [file EXCEPT ![f] = NoFile]
        /\ ion' = [ion EXCEPT ![f] = [h \in Handles |-> NoIon]]
        /\ Enter(t, [NoCall EXCEPT !.op = "closed", !.fd = f])
        /\ UNCHANGED <<stateVars, pending_gpu_allocation, unseen>>

(* MAP_SHARED of a descriptor.  With a GPU allocation pending the mapping is
   recorded under its address instead; a failed mapping takes the mark too. *)
MmapShared(t) ==
    \E f \in Fds, legible \in BOOLEAN :
        /\ file[f] # NoFile /\ ~Busy(f)
        /\ legible => file[f].kind = "dma"
        /\ pending_gpu_allocation' = [pending_gpu_allocation EXCEPT ![t] = FALSE]
        /\ \/ /\ ~pending_gpu_allocation[t]
              /\ LockFds(t)
              /\ file' = [file EXCEPT ![f] = Shown(file[f], legible, file[f].mapped \/ legible)]
              /\ Enter(t, [NoCall EXCEPT !.op = "mapped", !.fd = f])
           \/ /\ fd_transaction_mutex = NoThread
              /\ pending_gpu_allocation[t] /\ call[t] = NoCall
              /\ UNCHANGED <<file, fd_transaction_mutex, call, calls>>
        /\ UNCHANGED <<ion, stateVars, unseen>>

(* Any other mapping takes this thread's mark too. *)
MmapOther(t) ==
    /\ call[t] = NoCall /\ pending_gpu_allocation[t]
    /\ pending_gpu_allocation' = [pending_gpu_allocation EXCEPT ![t] = FALSE]
    /\ UNCHANGED <<kernelVars, stateVars, fd_transaction_mutex, call, calls, unseen>>

--------------------------------------------------------------------------------
(* The bookkeeping. *)

Finish(t) ==
    /\ call' = [call EXCEPT ![t] = NoCall]
    /\ fd_transaction_mutex' = IF fd_transaction_mutex = t THEN NoThread
                               ELSE fd_transaction_mutex
    /\ UNCHANGED <<kernelVars, pending_gpu_allocation, calls, unseen>>

(* Slip: the entry is never marked as tracked. *)
RegisterUnmarked(f, size, fds, recs) ==
    IF size = NoSize \/ fds[f].tracked
    THEN dma_fds' = fds /\ records' = recs
    ELSE /\ dma_fds' = [fds EXCEPT ![f] = [size |-> size, tracked |-> FALSE]]
         /\ records' = [recs EXCEPT ![f] = size]

(* RegisterDmaFd, and where it says so PointerData::Add and MarkDmaFdTracked. *)
Register(f, size, fds, recs) ==
    IF size = NoSize \/ fds[f].tracked
    THEN /\ dma_fds' = IF size = NoSize THEN fds ELSE [fds EXCEPT ![f].size = size]
         /\ records' = recs
    ELSE /\ dma_fds' = [fds EXCEPT ![f] = [size |-> size, tracked |-> TRUE]]
         /\ records' = [recs EXCEPT ![f] = size]

(* TakeDmaFd, and PointerData::Remove if the entry was tracked. *)
Forgotten(f) == [dma_fds EXCEPT ![f] = NoEntry]
RecordsWithout(f) == IF dma_fds[f].tracked THEN [records EXCEPT ![f] = NoSize] ELSE records

(* LookupIonAllocation: the size a shared descriptor is registered with. *)
SharedSize(c) == pending_ion_allocations[c.dev][c.handle]

(* Slip: the entry of an earlier buffer with this number is kept. *)
RegisterCreatedInherits(t) ==
    LET f == call[t].fd
        size == IF call[t].op = "create" THEN call[t].size ELSE SharedSize(call[t])
    IN /\ call[t].op \in {"create", "share"}
       /\ IF dma_fds[f].tracked THEN UNCHANGED <<dma_fds, records>>
          ELSE Register(f, size, dma_fds, records)
       /\ UNCHANGED pending_ion_allocations
       /\ Finish(t)

(* Slip: a shared descriptor is registered although no size is known. *)
RegisterCreatedUnsized(t) ==
    LET f == call[t].fd
        size == IF call[t].op = "create" THEN call[t].size ELSE SharedSize(call[t])
    IN /\ call[t].op \in {"create", "share"}
       /\ dma_fds' = [dma_fds EXCEPT ![f] = [size |-> size, tracked |-> TRUE]]
       /\ records' = [records EXCEPT ![f] = size]
       /\ UNCHANGED pending_ion_allocations
       /\ Finish(t)

(* A descriptor that was just created replaces whatever is still known under
   its number; without a known size it is not recognized and nothing happens. *)
RegisterCreated(t) ==
    LET f == call[t].fd
        size == IF call[t].op = "create" THEN call[t].size ELSE SharedSize(call[t])
    IN /\ call[t].op \in {"create", "share"}
       /\ IF size = NoSize THEN UNCHANGED <<dma_fds, records>>
          ELSE Register(f, size, Forgotten(f), RecordsWithout(f))
       /\ UNCHANGED pending_ion_allocations
       /\ Finish(t)

(* is_dma_buf: the registered size, or what /proc/self/fdinfo says of a buffer;
   a descriptor whose fdinfo cannot be opened, or names no exporter or no size,
   is not recognized. *)
KnownSize(f) ==
    IF dma_fds[f] # NoEntry THEN dma_fds[f].size
    ELSE IF file[f].told THEN file[f].size ELSE NoSize

RegisterCamera(t) ==
    /\ call[t].op = "camera"
    /\ Register(call[t].fd, KnownSize(call[t].fd), dma_fds, records)
    /\ UNCHANGED pending_ion_allocations
    /\ Finish(t)

(* Slip: the first mapping registers, only a second one would record. *)
TrackMappingLate(t) ==
    /\ call[t].op = "mapped"
    /\ dma_fds' = IF call[t].fd # NoFd /\ KnownSize(call[t].fd) # NoSize /\ dma_fds[call[t].fd] = NoEntry
                  THEN [dma_fds EXCEPT ![call[t].fd] = [size |-> KnownSize(call[t].fd), tracked |-> FALSE]]
                  ELSE dma_fds
    /\ UNCHANGED <<pending_ion_allocations, records>>
    /\ Finish(t)

(* ShouldTrackDmaMapping: a buffer that came from elsewhere is recorded when it
   is first mapped. *)
TrackMapping(t) ==
    /\ call[t].op = "mapped"
    /\ IF call[t].fd = NoFd \/ dma_fds[call[t].fd].tracked THEN UNCHANGED <<dma_fds, records>>
       ELSE Register(call[t].fd, KnownSize(call[t].fd), dma_fds, records)
    /\ UNCHANGED pending_ion_allocations
    /\ Finish(t)

RecordIonAllocation(t) ==
    /\ call[t].op = "ionRecord"
    /\ pending_ion_allocations' =
          [pending_ion_allocations EXCEPT ![call[t].dev][call[t].handle] = call[t].size]
    /\ UNCHANGED <<dma_fds, records>>
    /\ Finish(t)

(* Slip: the size of a freed handle stays. *)
DropIonAllocationForgets(t) ==
    /\ call[t].op = "ionDrop"
    /\ UNCHANGED stateVars
    /\ Finish(t)

DropIonAllocation(t) ==
    /\ call[t].op = "ionDrop"
    /\ pending_ion_allocations' =
          [pending_ion_allocations EXCEPT ![call[t].dev][call[t].handle] = NoSize]
    /\ UNCHANGED <<dma_fds, records>>
    /\ Finish(t)

(* The descriptor, its record, and the handles of an ION descriptor go. *)
ForgetClosed(t) ==
    LET f == call[t].fd
    IN /\ call[t].op = "closed"
       /\ dma_fds' = Forgotten(f)
       /\ records' = RecordsWithout(f)
       /\ pending_ion_allocations' =
             [pending_ion_allocations EXCEPT ![f] = [h \in Handles |-> NoSize]]
       /\ Finish(t)

--------------------------------------------------------------------------------
(* Descriptors that come and go where the hook does not look: received over a
   socket, opened as another file, closed by a raw system call. *)
UnseenOpen ==
    /\ "open" \in unseen
    /\ \E f \in Fds :
          /\ file[f] = NoFile
          /\ \E new \in {Plain, Ion} \cup {Buffer(size, "elsewhere", FALSE) : size \in Sizes} :
                file' = [file EXCEPT ![f] = new]
    /\ UNCHANGED <<ion, stateVars, pending_gpu_allocation, fd_transaction_mutex, call, calls, unseen>>

UnseenClose ==
    /\ "close" \in unseen
    /\ \E f \in Fds :
          /\ file[f] # NoFile /\ ~Busy(f)
          /\ file' = [file EXCEPT ![f] = NoFile]
          /\ ion' = [ion EXCEPT ![f] = [h \in Handles |-> NoIon]]
    /\ UNCHANGED <<stateVars, pending_gpu_allocation, fd_transaction_mutex, call, calls, unseen>>

SystemCall(t) ==
    \/ IoctlCreate(t) \/ IoctlShare(t) \/ IoctlCamera(t) \/ IoctlIonAlloc(t)
    \/ IoctlIonImport(t) \/ IoctlIonFree(t) \/ IoctlGpuAlloc(t) \/ Close(t) \/ MmapShared(t)
    \/ MmapOther(t)
Bookkeeping(t) ==
    \/ RegisterCreated(t) \/ RegisterCamera(t) \/ TrackMapping(t)
    \/ RecordIonAllocation(t) \/ DropIonAllocation(t) \/ ForgetClosed(t)

Next == \/ \E t \in Threads : SystemCall(t) \/ Bookkeeping(t)
        \/ UnseenOpen \/ UnseenClose

Spec == Init /\ [][Next]_vars

--------------------------------------------------------------------------------
Settled(f) == ~Busy(f)

(* A descriptor has a DMA record exactly when its entry is marked as tracked,
   and with the registered size: Remove is called for every record that Add
   made, and the DMA counter is the sum over the registry. *)
RegistryBacksRecords ==
    \A f \in Fds : records[f] = IF dma_fds[f].tracked THEN dma_fds[f].size ELSE NoSize

(* Every open buffer whose birth the hook saw is recorded with its own size,
   even if an earlier descriptor of that number was closed unseen. *)
BornCounted ==
    \A f \in Fds : file[f].born = "create" /\ Settled(f) => records[f] = file[f].size

(* A buffer from elsewhere is recorded once it has been mapped while its fdinfo
   could be read, as long as no close escapes the hook, and stays recorded
   whatever fdinfo says at later mappings. *)
MappedCounted ==
    "close" \notin unseen =>
        \A f \in Fds : file[f].mapped /\ Settled(f) => records[f] # NoSize

(* As long as no close escapes the hook, a number that is free, or that belongs
   to another kind of file, has no entry and no record: closing and the reuse of
   the number by another thread's allocation are never confused. *)
NothingStale ==
    "close" \notin unseen =>
        \A f \in Fds : file[f].kind # "dma" /\ Settled(f)
                          => dma_fds[f] = NoEntry /\ records[f] = NoSize

(* As long as no close escapes the hook, a record has the size of the buffer it
   stands for, and a buffer exported from an ION handle the hook saw allocated
   has a record; only a handle number that was reissued while ION_IOC_FREE of it,
   or the close of an earlier ION descriptor of that number, was in flight can
   make a difference. *)
SharedSized ==
    "close" \notin unseen =>
        \A f \in Fds :
            (file[f].kind = "dma" /\ ~file[f].raced /\ Settled(f))
                => /\ records[f] \in {NoSize, file[f].size}
                   /\ file[f].born = "share" => records[f] = file[f].size

(* The registry tells the truth: its marks are the records, and a closed or recycled
   number has neither. *)
RegistryExact == TypeOK /\ RegistryBacksRecords /\ NothingStale

(* A buffer the hook saw made, or saw mapped with a legible fdinfo, is counted. *)
BuffersCounted == BornCounted /\ MappedCounted
================================================================================
