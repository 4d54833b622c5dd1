------------------------------- MODULE Lifecycle -------------------------------
(***************************************************************************)
(* Which process, and which copy of the library in it, tracks, samples and *)
(* reports: the observe-only gate and the election                         *)
(* (backtrace/src/ObserveOnlyProbe.cpp), the interposers' routing and the  *)
(* library's constructor (src/alloc_hook.cpp), the tracker's construction, *)
(* helper threads, dump signal, fork handlers and finalization             *)
(* (backtrace/src/malloc_debug.cpp).                                       *)
(*                                                                         *)
(* A process runs the preloaded copy and may load a second copy of the     *)
(* same file into a linker namespace.  It may fork, and it may replace its *)
(* image; environ goes along.  In the executable's preinit callbacks, and  *)
(* in allocations the loader makes, environ may not be published yet.      *)
(***************************************************************************)
EXTENDS Integers, FiniteSets

CONSTANTS
    Pids,      \* process ids, positive
    Target,    \* the process LD_PRELOAD was set for
    Requests,  \* what the variables ask for: "bare", "observe", "report"
    Settings,  \* sets of "early": allocation before environ; "reexec": the target
               \* execs; "atfork": pthread_atfork may fail
    MaxImages, \* bound: program images started in a behaviour
    MaxSignals \* bound: dump signals in a behaviour

ASSUME PidsAssumption == Target \in Pids /\ Pids \subseteq Nat \ {0}
ASSUME RequestAssumption == Requests \subseteq {"bare", "observe", "report"}
ASSUME SettingsAssumption == Settings \subseteq SUBSET {"early", "reexec", "atfork"}
ASSUME BoundsAssumption == MaxImages \in Nat /\ MaxSignals \in Nat

Copies == {"preload", "plugin"}
Modes == {"undecided", "bypass", "track", "suppressed"}
Unset == 0
Refused == -1

(* The statics of one mapped copy. *)
Libs ==
    [loaded : BOOLEAN, preinit : BOOLEAN,
     mode : Modes, target : Pids \cup {Unset, Refused}, ready : BOOLEAN,
     guarded : BOOLEAN, depth : 0..1, primary : {-1, 0, 1},
     tracker : {"none", "bare", "report"}, \* the configuration it was built with
     started : BOOLEAN,                    \* debug_start_helper_threads ran
     owner : Pids \cup {Unset},            \* g_signal_owner_pid
     sampler : {"off", "tracker", "probe"},\* started_, and for whom
     probe : Pids \cup {Unset}, reported : BOOLEAN]

Unloaded ==
    [loaded |-> FALSE, preinit |-> TRUE, mode |-> "undecided", target |-> Unset,
     ready |-> FALSE, guarded |-> FALSE, depth |-> 0, primary |-> -1,
     tracker |-> "none", started |-> FALSE, owner |-> Unset, sampler |-> "off",
     probe |-> Unset, reported |-> FALSE]
Loaded == [Unloaded EXCEPT !.loaded = TRUE]

(* environ: published, and the two stamps the copies leave in it. *)
Envs == [ready : BOOLEAN, target : Pids \cup {Unset}, primary : Pids \cup {Unset}]

VARIABLES
    request, setting, \* chosen once
    proc,     \* pid -> life of the process
    env, lib,
    threads,  \* pid -> helper threads that exist: <<copy, "sampler" / "dump">>
    action,   \* pid -> disposition of the dump signal: a copy's handler, or
              \* "default" or "ignore"
    pipe,     \* pid -> copies with a dump command in their pipe
    written,  \* summaries written at exit or dlclose: [pid, copy, kind, image]
    hung,     \* processes that joined a thread they do not have
    images, signals

vars == <<request, setting, proc, env, lib, threads, action, pipe, written, hung, images, signals>>

Lives == [status : {"none", "running", "dead"}, fork : {"no", "parent", "child"}, image : 0..MaxImages]
NoLife == [status |-> "none", fork |-> "no", image |-> 0]

TypeOK ==
    /\ request \in Requests /\ setting \in Settings
    /\ proc \in [Pids -> Lives]
    /\ env \in [Pids -> Envs]
    /\ lib \in [Pids -> [Copies -> Libs]]
    /\ threads \in [Pids -> SUBSET (Copies \X {"sampler", "dump"})]
    /\ action \in [Pids -> Copies \cup {"default", "ignore"}]
    /\ pipe \in [Pids -> SUBSET Copies]
    /\ \A w \in written : w.pid \in Pids /\ w.copy \in Copies /\ w.kind \in {"observed", "tracked"}
    /\ hung \subseteq Pids
    /\ images \in 0..MaxImages /\ signals \in 0..MaxSignals

NoEnv == [ready |-> FALSE, target |-> Unset, primary |-> Unset]

Init ==
    /\ request \in Requests /\ setting \in Settings
    /\ proc = [p \in Pids |-> IF p = Target THEN [NoLife EXCEPT !.status = "running", !.image = 1] ELSE NoLife]
    /\ env = [p \in Pids |-> [NoEnv EXCEPT !.ready = p = Target /\ "early" \notin setting]]
    /\ lib = [p \in Pids |-> [c \in Copies |-> IF p = Target /\ c = "preload" THEN Loaded ELSE Unloaded]]
    /\ threads = [p \in Pids |-> {}]
    /\ action = [p \in Pids |-> "default"]
    /\ pipe = [p \in Pids |-> {}]
    /\ written = {} /\ hung = {} /\ images = 1 /\ signals = 0

--------------------------------------------------------------------------------
(* ObserveOnlyProbe.cpp: operators on one copy L of process p with environ e.  *)

TargetIdentity(L, e, p) ==
    CASE L.target # Unset -> L.target
      [] e.ready /\ e.target # Unset -> e.target
      [] OTHER -> p

InForkChild(L, p) == L.target \in Pids /\ L.target # p

SuppressAfterFork(L) == [L EXCEPT !.mode = "suppressed", !.depth = 0]

(* ResolveMode latches nothing before environ is published. *)
ResolveMode(L, e, p) ==
    IF ~e.ready THEN L
    ELSE [L EXCEPT !.target = TargetIdentity(L, e, p),
                   !.mode = CASE TargetIdentity(L, e, p) # p -> "suppressed"
                              [] request = "observe" -> "bypass"
                              [] OTHER -> "track"]

(* CurrentMode: the statics after the call, and the answer. *)
Consulted(L, e, p) ==
    IF (L.depth # 0 /\ InForkChild(L, p)) \/ L.mode # "undecided" THEN L ELSE ResolveMode(L, e, p)
CurrentMode(L, e, p) ==
    IF L.depth # 0 /\ InForkChild(L, p) THEN "suppressed" ELSE Consulted(L, e, p).mode

(* Slip: an observed process is tracked as well. *)
BypassedSuppressed(L, e, p) == CurrentMode(L, e, p) = "suppressed"

Bypassed(L, e, p) == CurrentMode(L, e, p) \in {"bypass", "suppressed"}

IsTargetProcess(L, e, p) ==
    CurrentMode(L, e, p) # "suppressed" /\ L.target \in {Unset, p}

(* IsPrimary: the first copy of a process to ask stamps environ. *)
IsPrimary(L, e, p) ==
    e.ready /\ (IF L.primary >= 0 THEN L.primary = 1 ELSE e.primary # p)
Elected(L, e, p) ==
    IF ~e.ready \/ L.primary >= 0 THEN L
    ELSE [L EXCEPT !.primary = IF IsPrimary(L, e, p) THEN 1 ELSE 0]
Stamped(L, e, p) ==
    IF L.primary < 0 /\ IsPrimary(L, e, p) THEN [e EXCEPT !.primary = p] ELSE e

OwnsAutomaticReports(L, e, p) == IsTargetProcess(L, e, p) /\ IsPrimary(L, e, p)

IsSecondaryCopy(L, e, p) == L.primary = 0 \/ (L.primary < 0 /\ e.ready /\ e.primary = p)

(* Slip: the identity an earlier process left in environ is not looked at. *)
InitializedTargetAnew(L, e, p, failing) ==
    IF L.ready THEN L
    ELSE [L EXCEPT !.target = p, !.ready = e.ready, !.guarded = TRUE]

(* The call of InitializeTargetProcess that fails, if any.  setenv may always
   fail; that ends the process where it is made. *)
ScopeFailures == {"none"} \cup (setting \cap {"atfork"})

(* The identity InitializeTargetProcess arrives at before it installs guards:
   the cached one, unless environ names another. *)
NamedTarget(L, e, p) ==
    LET first == TargetIdentity(L, e, p)
    IN IF e.ready /\ e.target # Unset /\ e.target # first THEN Refused ELSE first

(* InitializeTargetProcess.  Without its fork guards a copy refuses to track. *)
InitializedTarget(L, e, p, failing) ==
    LET named == NamedTarget(L, e, p)
        unguarded == failing = "atfork" /\ named = p /\ ~L.guarded
        target == IF unguarded THEN Refused ELSE named
        known == [L EXCEPT !.target = target, !.ready = e.ready \/ target = Refused,
                           !.guarded = @ \/ target = p]
    IN IF L.ready THEN L ELSE IF target # p THEN SuppressAfterFork(known) ELSE known

(* The stamp it leaves in environ, before the guards. *)
Publishes(L, e, p) == ~L.ready /\ e.ready /\ e.target = Unset /\ NamedTarget(L, e, p) # Refused
PublishedTarget(L, e, p) ==
    IF Publishes(L, e, p) THEN [e EXCEPT !.target = NamedTarget(L, e, p)] ELSE e

(* _exit: the identity cannot be published, or there are no guards and it is too
   early to publish that this process is refused. *)
ScopeExits(L, e, p, failing) ==
    \/ failing = "setenv" /\ Publishes(L, e, p)
    \/ failing = "atfork" /\ ~L.ready /\ ~e.ready /\ ~L.guarded /\ NamedTarget(L, e, p) = p

(* InitializeTargetScope: identity, then the election. *)
ScopedLib(L, e, p, failing) ==
    LET known == InitializedTarget(L, e, p, failing)
    IN IF IsTargetProcess(known, e, p) /\ known.ready
       THEN Elected(known, PublishedTarget(L, e, p), p) ELSE known
ScopedEnv(L, e, p, failing) ==
    LET known == InitializedTarget(L, e, p, failing)
    IN IF IsTargetProcess(known, e, p) /\ known.ready
       THEN Stamped(known, PublishedTarget(L, e, p), p) ELSE PublishedTarget(L, e, p)

--------------------------------------------------------------------------------
Running(p) == proc[p].status = "running"
Here(p, c) == Running(p) /\ lib[p][c].loaded

(* pthread_create fails for lack of resources: once it does, it does again. *)
ThreadFailures == {{}, {"sampler"}, {"dump", "sampler"}}

(* debug_start_helper_threads after the election, with the threads it starts.
   A thread that cannot be created is left out. *)
StartHelpers(p, c, L, e, failed) ==
    LET starts == L.tracker # "none" /\ OwnsAutomaticReports(L, e, p) /\ ~L.started
        samples == starts /\ L.tracker = "report" /\ L.sampler = "off" /\ "sampler" \notin failed
    IN [lib |-> IF starts THEN [Elected(L, e, p) EXCEPT !.started = TRUE,
                                                        !.sampler = IF samples THEN "tracker" ELSE @]
                ELSE IF L.tracker # "none" /\ IsTargetProcess(L, e, p) THEN Elected(L, e, p) ELSE L,
        env |-> IF L.tracker # "none" /\ IsTargetProcess(L, e, p) THEN Stamped(L, e, p) ELSE e,
        threads |-> threads[p] \cup (IF samples THEN {<<c, "sampler">>} ELSE {})
                               \cup (IF starts /\ "dump" \notin failed THEN {<<c, "dump">>} ELSE {})]

(* Slip: the probe starts in every copy. *)
StartProbeEverywhere(p, c, L, e, known, failed) ==
    LET samples == CurrentMode(L, e, p) = "bypass" /\ request = "observe" /\ L.sampler = "off"
    IN [lib |-> IF samples THEN [L EXCEPT !.sampler = "probe", !.probe = p] ELSE L,
        threads |-> known \cup (IF samples THEN {<<c, "sampler">>} ELSE {}),
        action |-> action[p]]

(* StartProbe: the dump signal is ignored and the sampler started without a
   callback. *)
StartProbe(p, c, L, e, known, failed) ==
    LET probes == CurrentMode(L, e, p) = "bypass" /\ request = "observe" /\ OwnsAutomaticReports(L, e, p)
        samples == probes /\ L.sampler = "off" /\ "sampler" \notin failed
    IN [lib |-> IF samples THEN [L EXCEPT !.sampler = "probe", !.probe = p] ELSE L,
        threads |-> known \cup (IF samples THEN {<<c, "sampler">>} ELSE {}),
        action |-> IF probes THEN "ignore" ELSE action[p]]

(* debug_initialize: the configuration is read, the dump signal installed. *)
BuiltLib(p, L, e) ==
    [Consulted(L, e, p) EXCEPT
        !.tracker = IF e.ready /\ request = "report" THEN "report" ELSE "bare",
        !.owner = IF IsSecondaryCopy(L, e, p) THEN @ ELSE p]

(* An allocation served by copy c: the tracker is built by the first one that
   is not bypassed, and starts its threads itself after preinit. *)
Allocate(p, c) ==
    /\ Here(p, c)
    /\ LET L == lib[p][c] e == env[p] built == BuiltLib(p, L, e)
       IN IF Bypassed(L, e, p) \/ L.tracker # "none"
          THEN /\ Consulted(L, e, p) # L
               /\ lib' = [lib EXCEPT ![p][c] = Consulted(L, e, p)]
               /\ UNCHANGED <<env, threads, action>>
          ELSE /\ action' = [action EXCEPT ![p] = IF IsSecondaryCopy(L, e, p) THEN @ ELSE c]
               /\ \E failed \in ThreadFailures :
                     LET s == StartHelpers(p, c, built, e, failed)
                     IN IF L.preinit
                        THEN lib' = [lib EXCEPT ![p][c] = built] /\ UNCHANGED <<env, threads>>
                        ELSE /\ lib' = [lib EXCEPT ![p][c] = s.lib]
                             /\ env' = [env EXCEPT ![p] = s.env]
                             /\ threads' = [threads EXCEPT ![p] = s.threads]
    /\ UNCHANGED <<request, setting, proc, pipe, written, hung, images, signals>>

(* The loader publishes environ before it runs constructors. *)
PublishEnviron(p) ==
    /\ Running(p) /\ ~env[p].ready
    /\ env' = [env EXCEPT ![p].ready = TRUE]
    /\ UNCHANGED <<request, setting, proc, lib, threads, action, pipe, written, hung, images, signals>>

(* InitializeTargetScope ends the process: no exit handler runs. *)
ScopeAbort(p, c) ==
    /\ Here(p, c) /\ proc[p].fork = "no"
    /\ \E failing \in ScopeFailures \cup {"setenv"} : ScopeExits(lib[p][c], env[p], p, failing)
    /\ proc' = [proc EXCEPT ![p].status = "dead"]
    /\ threads' = [threads EXCEPT ![p] = {}]
    /\ UNCHANGED <<request, setting, env, lib, action, pipe, written, hung, images, signals>>

(* mark_init_done. *)
MarkInitDone(p, c, failing) ==
    /\ Here(p, c) /\ lib[p][c].preinit /\ env[p].ready /\ proc[p].fork # "child"
    /\ ~ScopeExits(lib[p][c], env[p], p, failing)
    /\ LET scoped == [ScopedLib(lib[p][c], env[p], p, failing) EXCEPT !.preinit = FALSE]
           e == ScopedEnv(lib[p][c], env[p], p, failing)
           consulted == Consulted(scoped, e, p)
       IN IF ~IsTargetProcess(scoped, e, p)
          THEN /\ lib' = [lib EXCEPT ![p][c] = consulted]
               /\ env' = [env EXCEPT ![p] = e]
               /\ UNCHANGED <<threads, action>>
          ELSE \E failed \in ThreadFailures :
                 LET s == StartHelpers(p, c, consulted, e, failed)
                     o == StartProbe(p, c, s.lib, s.env, s.threads, failed)
                 IN /\ lib' = [lib EXCEPT ![p][c] = o.lib]
                    /\ env' = [env EXCEPT ![p] = s.env]
                    /\ threads' = [threads EXCEPT ![p] = o.threads]
                    /\ action' = [action EXCEPT ![p] = o.action]
    /\ UNCHANGED <<request, setting, proc, pipe, written, hung, images, signals>>

(* The application loads a plugin into a namespace of its own. *)
LoadPlugin(p) ==
    /\ Here(p, "preload") /\ ~lib[p]["preload"].preinit /\ ~lib[p]["plugin"].loaded
    /\ proc[p].fork = "no" /\ images < MaxImages
    /\ images' = images + 1
    /\ lib' = [lib EXCEPT ![p]["plugin"] = Loaded]
    /\ UNCHANGED <<request, setting, proc, env, threads, action, pipe, written, hung, signals>>

--------------------------------------------------------------------------------
(* fork: the interposer initializes this copy, the guarded copies count the
   fork window, and the child gets the memory but one thread. *)
Fork(p, c, child, failing) ==
    /\ Here(p, c) /\ proc[p].fork = "no" /\ proc[child].status # "running" /\ child # Target
    /\ images < MaxImages
    /\ ~ScopeExits(lib[p][c], env[p], p, failing)
    /\ images' = images + 1
    /\ LET scoped == [lib[p] EXCEPT ![c] = IF @.ready THEN @ ELSE ScopedLib(@, env[p], p, failing)]
           e == IF lib[p][c].ready THEN env[p] ELSE ScopedEnv(lib[p][c], env[p], p, failing)
           prepared == [d \in Copies |-> IF scoped[d].guarded /\ scoped[d].mode # "suppressed"
                                         THEN [scoped[d] EXCEPT !.depth = @ + 1] ELSE scoped[d]]
       IN /\ lib' = [lib EXCEPT ![p] = prepared, ![child] = prepared]
          /\ env' = [env EXCEPT ![p] = e, ![child] = e]
    /\ proc' = [proc EXCEPT ![p].fork = "parent",
                            ![child] = [status |-> "running", fork |-> "child", image |-> images + 1]]
    /\ threads' = [threads EXCEPT ![child] = {}]
    /\ action' = [action EXCEPT ![child] = action[p]]
    /\ pipe' = [pipe EXCEPT ![child] = {}]
    /\ UNCHANGED <<request, setting, written, hung, signals>>

(* Slip: the parent does not leave the fork window. *)
ForkParentStays(p) ==
    /\ Running(p) /\ proc[p].fork = "parent"
    /\ proc' = [proc EXCEPT ![p].fork = "no"]
    /\ UNCHANGED <<request, setting, env, lib, threads, action, pipe, written, hung, images, signals>>

ForkParent(p) ==
    /\ Running(p) /\ proc[p].fork = "parent"
    /\ proc' = [proc EXCEPT ![p].fork = "no"]
    /\ lib' = [lib EXCEPT ![p] = [c \in Copies |->
                 IF lib[p][c].depth > 0 THEN [lib[p][c] EXCEPT !.depth = @ - 1] ELSE lib[p][c]]]
    /\ UNCHANGED <<request, setting, env, threads, action, pipe, written, hung, images, signals>>

(* The child callbacks of the copies: SuppressAfterFork, and HookAtForkChild
   where a tracker was built (it also forgets the dump thread, which only
   debug_start_helper_threads starts, and that at most once).  Callbacks of the
   application may come first. *)
ForkChild(p) ==
    /\ Running(p) /\ proc[p].fork = "child"
    /\ proc' = [proc EXCEPT ![p].fork = "no"]
    /\ lib' = [lib EXCEPT ![p] = [c \in Copies |->
                 LET L == lib[p][c]
                     S == IF L.guarded \/ L.tracker # "none" THEN SuppressAfterFork(L) ELSE L
                 IN IF L.tracker # "none" THEN [S EXCEPT !.sampler = "off"] ELSE S]]
    /\ UNCHANGED <<request, setting, env, threads, action, pipe, written, hung, images, signals>>

(* exec: a new image with the inherited environ; handlers become the default. *)
Exec(p) ==
    /\ Here(p, "preload") /\ ~lib[p]["preload"].preinit
    /\ proc[p].fork = "no" /\ images < MaxImages
    /\ p # Target \/ "reexec" \in setting
    /\ images' = images + 1
    /\ proc' = [proc EXCEPT ![p].image = images + 1]
    /\ env' = [env EXCEPT ![p].ready = "early" \notin setting]
    /\ lib' = [lib EXCEPT ![p] = [c \in Copies |-> IF c = "preload" THEN Loaded ELSE Unloaded]]
    /\ threads' = [threads EXCEPT ![p] = {}]
    /\ action' = [action EXCEPT ![p] = IF @ = "ignore" THEN @ ELSE "default"]
    /\ pipe' = [pipe EXCEPT ![p] = {}]
    /\ UNCHANGED <<request, setting, written, hung, signals>>

--------------------------------------------------------------------------------
(* singal_dump_heap, and the thread that drains the pipe. *)
DumpSignal(p) ==
    /\ Running(p) /\ signals < MaxSignals
    /\ signals' = signals + 1
    /\ IF action[p] = "default" THEN proc' = [proc EXCEPT ![p].status = "dead"] ELSE UNCHANGED proc
    /\ pipe' = IF action[p] \in Copies /\ lib[p][action[p]].owner = p
                  /\ lib[p][action[p]].mode # "suppressed"
               THEN [pipe EXCEPT ![p] = @ \cup {action[p]}] ELSE pipe
    /\ UNCHANGED <<request, setting, env, lib, threads, action, written, hung, images>>

DrainPipe(p, c) ==
    /\ Running(p) /\ c \in pipe[p] /\ <<c, "dump">> \in threads[p]
    /\ pipe' = [pipe EXCEPT ![p] = @ \ {c}]
    /\ UNCHANGED <<request, setting, proc, env, lib, threads, action, written, hung, images, signals>>

(* Slip: only the tracker has an exit handler. *)
FinalSummariesTracked(p, c) ==
    {[pid |-> p, copy |-> c, kind |-> "tracked", image |-> proc[p].image] :
        L \in {M \in {lib[p][c]} : M.tracker # "none" /\ OwnsAutomaticReports(M, env[p], p)}}

(* Slip: the summaries are not reserved to the primary copy. *)
FinalSummariesUngated(p, c) ==
    {[pid |-> p, copy |-> c, kind |-> IF lib[p][c].probe = p THEN "observed" ELSE "tracked",
      image |-> proc[p].image] :
        L \in {M \in {lib[p][c]} : (M.tracker # "none" \/ M.probe = p) /\ IsTargetProcess(M, env[p], p)}}

(* debug_finalize and report_observe_only_probe of one copy: what they write,
   and the sampler's Stop, which joins. *)
FinalSummaries(p, c) ==
    LET L == lib[p][c] e == env[p]
        tracked == L.tracker # "none" /\ OwnsAutomaticReports(L, e, p)
        observed == IsTargetProcess(L, e, p) /\ L.probe = p /\ ~L.reported
    IN {[pid |-> p, copy |-> c, kind |-> k, image |-> proc[p].image] :
            k \in (IF tracked THEN {"tracked"} ELSE {}) \cup (IF observed THEN {"observed"} ELSE {})}

(* Slip: a sampler that counts as started is stopped in any process. *)
StopsAnywhere(p, c) == lib[p][c].sampler # "off"

Stops(p, c) == IsTargetProcess(lib[p][c], env[p], p) /\ lib[p][c].sampler # "off"
                 /\ (lib[p][c].tracker # "none" \/ lib[p][c].probe = p)

FinalizedLib(L) == [L EXCEPT !.sampler = "off", !.reported = TRUE]

(* dlclose of the plugin's namespace. *)
UnloadPlugin(p) ==
    /\ Here(p, "plugin") /\ ~lib[p]["plugin"].preinit /\ proc[p].fork = "no"
    /\ written' = written \cup FinalSummaries(p, "plugin")
    /\ hung' = IF Stops(p, "plugin") /\ <<"plugin", "sampler">> \notin threads[p] THEN hung \cup {p} ELSE hung
    /\ lib' = [lib EXCEPT ![p]["plugin"] = Unloaded]
    /\ threads' = [threads EXCEPT ![p] = @ \ {<<"plugin", "sampler">>}]
    /\ UNCHANGED <<request, setting, proc, env, action, pipe, images, signals>>

(* exit: the exit handlers of the copies that are loaded. *)
Exit(p) ==
    LET here == {c \in Copies : lib[p][c].loaded}
    IN /\ Running(p)
       /\ proc' = [proc EXCEPT ![p].status = "dead"]
       /\ written' = written \cup UNION {FinalSummaries(p, c) : c \in here}
       /\ hung' = IF \E c \in here : Stops(p, c) /\ <<c, "sampler">> \notin threads[p]
                  THEN hung \cup {p} ELSE hung
       /\ lib' = [lib EXCEPT ![p] = [c \in Copies |-> FinalizedLib(lib[p][c])]]
       /\ threads' = [threads EXCEPT ![p] = {}]
       /\ UNCHANGED <<request, setting, env, action, pipe, images, signals>>

Step(p) ==
    \/ \E c \in Copies : Allocate(p, c) \/ DrainPipe(p, c) \/ ScopeAbort(p, c)
    \/ \E c \in Copies, failing \in ScopeFailures : MarkInitDone(p, c, failing)
    \/ \E c \in Copies, child \in Pids, failing \in ScopeFailures : Fork(p, c, child, failing)
    \/ PublishEnviron(p) \/ LoadPlugin(p) \/ UnloadPlugin(p)
    \/ ForkParent(p) \/ ForkChild(p) \/ Exec(p) \/ DumpSignal(p) \/ Exit(p)

Next == \E p \in Pids : Step(p)

Spec == Init /\ [][Next]_vars

--------------------------------------------------------------------------------
(* Only the target process writes a summary, and only one copy of an image
   does: "exactly one copy does the work and prints". *)
OneReporter ==
    /\ \A w \in written : w.pid = Target
    /\ \A v, w \in written : v.image = w.image => v.copy = w.copy

(* Descendants of the target, by fork or by exec, stay silent.  None ever has a
   helper thread, so a dump is never written.  A copy of the library that has run
   its constructor there is suppressed, and so is one in the fork window, where
   callbacks of the application come before its own.  A descendant builds a
   tracker and queues a dump only where the loader serves allocations before it
   publishes environ: an exec'd image cannot tell then that it is a descendant,
   and tracks until its constructor has run.  ("Descendant process: no tracking,
   sampling, helpers, or reports" holds from there on.) *)
DescendantsSilent ==
    \A p \in Pids \ {Target} :
        /\ threads[p] = {}
        /\ \A c \in Copies :
              Here(p, c) /\ (~lib[p][c].preinit \/ (proc[p].fork = "child" /\ lib[p][c].guarded))
              => CurrentMode(lib[p][c], env[p], p) = "suppressed"
        /\ "early" \notin setting => pipe[p] = {} /\
              \A c \in Copies : lib[p][c].tracker # "none" => lib[p][c].owner # p

(* Finalization joins a sampler thread only where the thread exists: a forked
   child never waits for the parent's. *)
NoPhantomJoin == hung = {}

(* At most one sampler runs in a process, although every copy has its own. *)
OneSampler ==
    \A p \in Pids : Cardinality({c \in Copies : <<c, "sampler">> \in threads[p]}) <= 1

(* A tracker and the observe-only probe exclude each other in the target as
   long as no allocation came before environ. *)
OneMode ==
    "early" \notin setting =>
        \A p \in Pids, c \in Copies : lib[p][c].probe # Unset => lib[p][c].tracker = "none"

(* An image of the target that exits after its constructor has reported, unless
   it was preceded by another image of the same process, or its fork guards
   could not be installed ("tracking disabled"). *)
TargetReports ==
    (proc[Target].status = "dead" /\ proc[Target].image = 1 /\ lib[Target]["preload"].reported
        /\ lib[Target]["preload"].target # Refused
        /\ (lib[Target]["preload"].probe = Target
              \/ (lib[Target]["preload"].tracker # "none" /\ ~lib[Target]["preload"].preinit)))
    => \E w \in written : w.pid = Target /\ w.copy = "preload"

(* The preloaded copy of the target is the primary one from its constructor on:
   "the whole-life LD_PRELOAD copy always wins". *)
PreloadWins ==
    Here(Target, "preload") /\ ~lib[Target]["preload"].preinit
       /\ IsTargetProcess(lib[Target]["preload"], env[Target], Target)
    => lib[Target]["preload"].primary = 1

(* Exactly one copy of the library does the work: it alone reports, it alone samples,
   and it either tracks or observes. *)
OneCopyWorks == TypeOK /\ OneReporter /\ OneSampler /\ OneMode
================================================================================
