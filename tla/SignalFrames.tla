------------------------------ MODULE SignalFrames -----------------------------
(***************************************************************************)
(* The steps of the unwinder that need no unwind table: out of a signal    *)
(* handler through the frame the kernel left (StepIfSignalHandler, one per *)
(* architecture), out of a leaf by its return address, and from a return   *)
(* address back into the call (GetPcAdjustment).                           *)
(*                                                                         *)
(* A memory maps the addresses of the readable words to their values; code *)
(* is what is compared with the trampoline's, by its name: the word at the *)
(* pc, which MIPS64 compares also when only a part of it could be read.    *)
(* Registers are numbered on ARM and MIPS and named on x86.                *)
(***************************************************************************)
EXTENDS Integers, Sequences, FiniteSets, SequencesExt, FiniteSetsExt

Stepped(regs) == [ok |-> TRUE, regs |-> regs]
Stays(regs) == [ok |-> FALSE, regs |-> regs]

(* ReadFully of n words. *)
Readable(memory, addr, width, n) == \A i \in 0..n - 1 : addr + width * i \in DOMAIN memory

(* Read of n words: those before the first that cannot be read. *)
ReadCount(memory, addr, width, n) == Max({k \in 0..n : Readable(memory, addr, width, k)})

(* Slip: a read that fails has left its destination alone. *)
ReadIntoWhole(regs, memory, addr, width, n) ==
    [r \in DOMAIN regs |->
       IF r < n /\ Readable(memory, addr, width, n) THEN memory[addr + width * r] ELSE regs[r]]

(* The registers after a Read of n words straight into them, full or not. *)
ReadInto(regs, memory, addr, width, n) ==
    [r \in DOMAIN regs |->
       IF r < ReadCount(memory, addr, width, n) THEN memory[addr + width * r] ELSE regs[r]]

ArmSp == 13
Magic == 1522779994 \* 0x5ac3c35a, the kernel's mark in uc_flags

(* Slip: the frame of a kernel before the mark is not told from a newer one. *)
ArmOffsetNew(code, sp, word) ==
    CASE code \in {"e3a07077", "ef900077", "df002777"} -> sp + 20 + 12
      [] code \in {"e3a070ad", "ef9000ad", "df0027ad"} ->
           IF word = sp + 8 THEN sp + 8 + 128 + 20 + 12 ELSE sp + 128 + 20 + 12

(* Where r0 was saved, by the call of the trampoline and the word on top. *)
ArmOffset(code, sp, word) ==
    CASE code \in {"e3a07077", "ef900077", "df002777"} ->
           IF word = Magic THEN sp + 20 + 12 ELSE sp + 12
      [] code \in {"e3a070ad", "ef9000ad", "df0027ad"} ->
           IF word = sp + 8 THEN sp + 8 + 128 + 20 + 12 ELSE sp + 128 + 20 + 12

ArmStepIfSignalHandler(code, regs, memory) ==
    LET sp == regs[ArmSp]
        offset == ArmOffset(code, sp, memory[sp])
    IN IF \/ code \notin {"e3a07077", "ef900077", "df002777", "e3a070ad", "ef9000ad", "df0027ad"}
          \/ ~Readable(memory, sp, 4, 1)
       THEN Stays(regs)
       ELSE [ok |-> Readable(memory, offset, 4, 16), regs |-> ReadInto(regs, memory, offset, 4, 16)]

(* ARM64_REG_R0 to PSTATE *)
Arm64StepIfSignalHandler(code, regs, memory) ==
    LET offset == regs[31] + 128 + 176 + 8
    IN IF code # "d4000001d2801168" THEN Stays(regs)
       ELSE [ok |-> Readable(memory, offset, 8, 34), regs |-> ReadInto(regs, memory, offset, 8, 34)]

(* struct x86_mcontext_t *)
X86Context == <<"gs", "fs", "es", "ds", "edi", "esi", "ebp", "esp", "ebx", "edx", "ecx", "eax",
                "trapno", "err", "eip", "cs", "efl", "uesp", "ss">>
(* The named fields of a context at addr, put into the registers. *)
FromContext(regs, names, context, width, memory, addr) ==
    [r \in DOMAIN regs |->
       IF r \in names THEN memory[addr + width * ((CHOOSE i \in DOMAIN context : context[i] = r) - 1)] ELSE regs[r]]

X86StepIfSignalHandler(code, regs, memory) ==
    LET plain == regs["esp"] + 4
        rt == memory[regs["esp"] + 8] + 20
    IN CASE code = "80cd00000077b858" ->
              IF ~Readable(memory, plain, 4, 19) THEN Stays(regs)
              ELSE Stepped(FromContext(regs, DOMAIN regs \ {"edi", "esi"}, X86Context, 4, memory, plain))
         [] code = "0080cd000000adb8" ->
              IF ~Readable(memory, regs["esp"] + 8, 4, 1) \/ ~Readable(memory, rt, 4, 19) THEN Stays(regs)
              ELSE Stepped(FromContext(regs, DOMAIN regs, X86Context, 4, memory, rt))
         [] OTHER -> Stays(regs)

(* struct x86_64_mcontext_t *)
X86_64Context == <<"r8", "r9", "r10", "r11", "r12", "r13", "r14", "r15", "rdi", "rsi", "rbp", "rbx", "rdx",
                   "rax", "rcx", "rsp", "rip", "efl", "csgsfs", "err", "trapno", "oldmask", "cr2">>

X86_64StepIfSignalHandler(code, regs, memory) ==
    LET context == regs["rsp"] + 40
    IN IF code # "0f0000000fc0c748 05" \/ ~Readable(memory, context, 8, 23) THEN Stays(regs)
       ELSE Stepped(FromContext(regs, DOMAIN regs, X86_64Context, 8, memory, context))

(* sc_pc, then the 32 registers. *)
MipsStepIfSignalHandler(code, regs, memory) ==
    LET offset == regs[29] + (IF code = "c24021061" THEN 24 + 128 + 24 + 8 ELSE 24 + 8)
    IN IF code \notin {"c24021061", "c24021017"} \/ ~Readable(memory, offset, 8, 33) THEN Stays(regs)
       ELSE Stepped([r \in 0..32 |-> IF r = 32 THEN memory[offset] ELSE memory[offset + 8 * (r + 1)]])

(* Plain reads: any of the registers, then the pc. *)
Mips64StepIfSignalHandler(code, regs, memory) ==
    LET offset == regs[29] + 24 + 128 + 40
        read == ReadInto(regs, memory, offset, 8, 32)
    IN IF code # "c2402145b" \/ ReadCount(memory, offset, 8, 32) = 0 THEN Stays(regs)
       ELSE IF ReadCount(memory, offset + 576, 8, 1) = 0 THEN Stays(read)
       ELSE Stepped([read EXCEPT ![32] = memory[offset + 576]])

StepIfSignalHandler(arch, code, regs, memory) ==
    CASE arch = "arm" -> ArmStepIfSignalHandler(code, regs, memory)
      [] arch = "arm64" -> Arm64StepIfSignalHandler(code, regs, memory)
      [] arch = "x86" -> X86StepIfSignalHandler(code, regs, memory)
      [] arch = "x86_64" -> X86_64StepIfSignalHandler(code, regs, memory)
      [] arch = "mips" -> MipsStepIfSignalHandler(code, regs, memory)
      [] arch = "mips64" -> Mips64StepIfSignalHandler(code, regs, memory)

--------------------------------------------------------------------------------
(* An elf is [valid, bias, tops]: tops maps the offset of a readable halfword
   of code to its top four bits. *)

(* The word before a Thumb return address is a BL: 1111 then 111. *)
LongThumbCall(elf, at) ==
    /\ {at, at + 2} \subseteq DOMAIN elf.tops
    /\ elf.tops[at] = 15 /\ elf.tops[at + 2] \in {14, 15}

(* Slip: a Thumb call is taken to be a long one. *)
ArmAdjustmentLong(rel_pc, elf) ==
    LET adjusted == rel_pc - elf.bias
        low == IF rel_pc < elf.bias THEN rel_pc ELSE adjusted
    IN IF ~elf.valid THEN 2
       ELSE IF low < 2 THEN 0
       ELSE IF rel_pc < elf.bias \/ adjusted < 5 THEN 2
       ELSE 4

ArmAdjustment(rel_pc, elf) ==
    LET adjusted == rel_pc - elf.bias
        low == IF rel_pc < elf.bias THEN rel_pc ELSE adjusted
    IN IF ~elf.valid THEN 2
       ELSE IF low < 2 THEN 0
       ELSE IF rel_pc < elf.bias \/ adjusted < 5 THEN 2
       ELSE IF adjusted % 2 = 1 /\ ~LongThumbCall(elf, adjusted - 5) THEN 2
       ELSE 4

GetPcAdjustment(rel_pc, elf, arch) ==
    CASE arch = "arm" -> ArmAdjustment(rel_pc, elf)
      [] arch = "arm64" -> IF rel_pc < 4 THEN 0 ELSE 4
      [] arch \in {"mips", "mips64"} -> IF rel_pc < 8 THEN 0 ELSE 8
      [] arch \in {"x86", "x86_64"} -> IF rel_pc = 0 THEN 0 ELSE 1

--------------------------------------------------------------------------------
(* Reference: the frames the kernels write, as lists of fields from the
   stack pointer of the handler's return upwards; regs is what a field saves. *)
F(kind, size) == <<[kind |-> kind, regs |-> {}, size |-> size]>>
Gap(size) == F("gap", size)
Listed(names, size) == [i \in DOMAIN names |-> [kind |-> "saved", regs |-> {names[i]}, size |-> size]]
Numbered(first, last, size) == Listed([i \in 1..last - first + 1 |-> first + i - 1], size)

SigInfo == Gap(128)
Stack32 == Gap(4) \o Gap(4) \o Gap(4)
Stack64 == Gap(8) \o Gap(8) \o Gap(8)
ArmSigcontext == Gap(4) \o Gap(4) \o Gap(4) \o Numbered(0, 15, 4)
ArmUcontext(flags) == F(flags, 4) \o Gap(4) \o Stack32 \o ArmSigcontext
Arm64Frame == SigInfo \o Gap(8) \o Gap(8) \o Stack64 \o Gap(8) \o Gap(120) \o Gap(8) \* alignment
              \o Gap(8) \o Numbered(0, 33, 8)
X86Ucontext == F("uc", 4) \o Gap(4) \o Stack32 \o Listed(X86Context, 4)
MipsUcontext == Gap(4) \o Gap(4) \o Stack32 \o Gap(4)
MipsSigcontext == Gap(4) \o Gap(4) \o Numbered(32, 32, 8) \o Numbered(0, 31, 8)
Mips64Sigcontext == Numbered(0, 31, 8) \o Gap(32 * 8) \o Gap(8 * 8) \o Numbered(32, 32, 8)

Frames == <<
    [arch |-> "arm", codes |-> {"e3a07077", "ef900077", "df002777"}, lost |-> {},
     fields |-> ArmSigcontext],
    [arch |-> "arm", codes |-> {"e3a07077", "ef900077", "df002777"}, lost |-> {},
     fields |-> ArmUcontext("magic")],
    [arch |-> "arm", codes |-> {"e3a070ad", "ef9000ad", "df0027ad"}, lost |-> {},
     fields |-> SigInfo \o ArmUcontext("gap")],
    [arch |-> "arm", codes |-> {"e3a070ad", "ef9000ad", "df0027ad"}, lost |-> {},
     fields |-> F("pinfo", 4) \o Gap(4) \o F("info", 128) \o ArmUcontext("gap")],
    [arch |-> "arm64", codes |-> {"d4000001d2801168"}, lost |-> {}, fields |-> Arm64Frame],
    [arch |-> "x86", codes |-> {"80cd00000077b858"}, lost |-> {"edi", "esi"},
     fields |-> Gap(4) \o Listed(X86Context, 4)],
    [arch |-> "x86", codes |-> {"0080cd000000adb8"}, lost |-> {},
     fields |-> Gap(4) \o Gap(4) \o F("puc", 4) \o SigInfo \o X86Ucontext],
    [arch |-> "x86_64", codes |-> {"0f0000000fc0c748 05"}, lost |-> {},
     fields |-> Gap(8) \o Gap(8) \o Stack64 \o Listed(X86_64Context, 8)],
    [arch |-> "mips", codes |-> {"c24021061"}, lost |-> {},
     fields |-> Gap(24) \o SigInfo \o MipsUcontext \o MipsSigcontext],
    [arch |-> "mips", codes |-> {"c24021017"}, lost |-> {}, fields |-> Gap(24) \o MipsSigcontext],
    [arch |-> "mips64", codes |-> {"c2402145b"}, lost |-> {},
     fields |-> Gap(24) \o SigInfo \o Gap(8) \o Gap(8) \o Stack64 \o Mips64Sigcontext] >>

RegistersOf(arch) ==
    CASE arch = "arm" -> 0..15
      [] arch = "arm64" -> 0..33
      [] arch = "x86" -> {"eax", "ebx", "ecx", "edx", "ebp", "edi", "esi", "esp", "eip"}
      [] arch = "x86_64" -> {"rax", "rbx", "rcx", "rdx", "r8", "r9", "r10", "r11", "r12", "r13", "r14", "r15",
                             "rdi", "rsi", "rbp", "rsp", "rip"}
      [] OTHER -> 0..32
StackPointer(arch) == CASE arch = "arm" -> 13 [] arch = "arm64" -> 31 [] arch = "x86" -> "esp"
                        [] arch = "x86_64" -> "rsp" [] OTHER -> 29

SizeBefore(fields, i) == FoldLeft(LAMBDA n, f : n + f.size, 0, SubSeq(fields, 1, i - 1))
FieldAt(fields, sp, kind) == sp + SizeBefore(fields, CHOOSE i \in DOMAIN fields : fields[i].kind = kind)
(* A field's content; that of a saved register is told by its place in the frame. *)
Content(fields, sp, i) ==
    CASE fields[i].kind = "saved" -> 5000 + i
      [] fields[i].kind = "magic" -> Magic
      [] fields[i].kind = "pinfo" -> FieldAt(fields, sp, "info")
      [] fields[i].kind = "puc" -> FieldAt(fields, sp, "uc")
      [] OTHER -> 0
(* A frame of which the first `words` words of four bytes can be read. *)
FrameMemory(fields, sp, words) ==
    LET starts == {<<sp + SizeBefore(fields, i), i>> : i \in DOMAIN fields}
    IN [a \in {sp + 4 * k : k \in 0..words - 1} |->
          LET at == {s[2] : s \in {s \in starts : s[1] = a}}
          IN IF at = {} THEN 0 ELSE Content(fields, sp, Min(at))]
FrameWords(fields) == SizeBefore(fields, Len(fields) + 1) \div 4
(* The registers at the interruption, as the frame holds them. *)
SavedIn(frame, r) ==
    LET at == {i \in DOMAIN frame.fields : r \in frame.fields[i].regs} IN 5000 + Min(at)
(* It lies in the first `words` words of the frame. *)
SavedWithin(frame, r, words) ==
    \E i \in DOMAIN frame.fields :
        r \in frame.fields[i].regs /\ SizeBefore(frame.fields, i + 1) <= 4 * words
InHandler(frame, sp) == [r \in RegistersOf(frame.arch) |-> IF r = StackPointer(frame.arch) THEN sp ELSE 1]

StepOut(frame, code, words) ==
    LET regs == InHandler(frame, 2000)
    IN StepIfSignalHandler(frame.arch, code, regs, FrameMemory(frame.fields, 2000, words))

(* Code as a list of instructions [size, tops, call], and the bytes before one. *)
CodeBefore(code, i) == FoldLeft(LAMBDA n, ins : n + ins.size, 0, SubSeq(code, 1, i - 1))
TopsOf(code) == FoldLeft(LAMBDA tops, ins : tops \o ins.tops, << >>, code)
Halfwords(code) == [a \in {2 * k : k \in 0..Len(TopsOf(code)) - 1} |-> TopsOf(code)[a \div 2 + 1]]
================================================================================
