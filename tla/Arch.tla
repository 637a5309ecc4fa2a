--------------------------------- MODULE Arch ---------------------------------
(***************************************************************************)
(* The machine-level helpers of src/src/utils/arch.rs that compute rather  *)
(* than schedule: get_msb (CLZ), save_context / load_context (the inline   *)
(* assembly that moves r4-r11 and PSP between the core and a TCB), and    *)
(* the initial stack frame of create_tcb (task_manager.rs).               *)
(*                                                                         *)
(* Memory is a function from word addresses to words; an offset of #16 in *)
(* the assembly is 4 words here.  Registers r4-r11 are the function `regs` *)
(* over 4 .. 11.                                                           *)
(***************************************************************************)
EXTENDS Integers, Sequences, FiniteSetsExt

(***************************************************************************)
(* get_msb(val: u32) -> Option<usize>                                      *)
(***************************************************************************)
\* The value get_msb returns for None.
NoMsb == -1

Bit(val, i) == (val \div 2^i) % 2

\* The significant bits of a word: its length once leading zeros go.
RECURSIVE BitLength(_)
BitLength(val) == IF val = 0 THEN 0 ELSE 1 + BitLength(val \div 2)

\* CLZ of a 32-bit word.  (TLC's integers stop at 2^31 - 1, so the words
\* here are bitmaps of at most 31 tasks.)
clz(val) == 32 - BitLength(val)

\* Mutation of get_msb: the final `res -= 1` is missing.
get_msb_NoDecrement(val) ==
  LET res == 32 - clz(val) IN IF res = 0 THEN NoMsb ELSE res

\* res = 32 - clz(val); None when res = 0, else res - 1.
get_msb(val) ==
  LET res == 32 - clz(val) IN IF res = 0 THEN NoMsb ELSE res - 1

\* A bitmap as a u32: bit i set <=> i \in S.
Bitmap(S) == SumSet({2^i : i \in S})

(***************************************************************************)
(* stmia / ldmia on word addresses.                                        *)
(***************************************************************************)
Stmia(mem, addr, ws) ==
  [a \in DOMAIN mem |->
     IF a \in addr .. addr + Len(ws) - 1 THEN ws[a - addr + 1] ELSE mem[a]]

Ldmia(mem, addr, n) == [i \in 1 .. n |-> mem[addr + i - 1]]

Regs(regs, lo) == <<regs[lo], regs[lo + 1], regs[lo + 2], regs[lo + 3]>>

\* save_context: r0 = psp - 16 bytes, stmia {r4-r7} (r0 back at psp),
\* r0 -= 32 bytes, stmia {r8-r11}, r0 -= 16 bytes, *tcb.sp = r0.
save_context(regs, psp, mem) ==
  LET m1 == Stmia(mem, psp - 4, Regs(regs, 4))
      m2 == Stmia(m1, psp - 8, Regs(regs, 8))
  IN [mem |-> m2, sp |-> psp - 8]

\* Mutation of load_context: both ldmia land straight in r4-r7 and r8-r11.
load_context_NoSwap(sp, mem) ==
  LET lo == Ldmia(mem, sp, 4)
      hi == Ldmia(mem, sp + 4, 4)
  IN [regs |-> [i \in 4 .. 11 |-> IF i < 8 THEN lo[i - 3] ELSE hi[i - 7]],
      psp  |-> sp + 8]

\* load_context: r0 = tcb.sp, ldmia {r4-r7} then mov r8-r11 <- r4-r7,
\* ldmia {r4-r7} again, msr psp, r0.
load_context(sp, mem) ==
  LET lo == Ldmia(mem, sp, 4)
      hi == Ldmia(mem, sp + 4, 4)
  IN [regs |-> [i \in 4 .. 11 |-> IF i < 8 THEN hi[i - 3] ELSE lo[i - 7]],
      psp  |-> sp + 8]

(***************************************************************************)
(* create_tcb(stack, handler) on a stack of `len` words at address `base`. *)
(***************************************************************************)
\* Mutation of create_tcb: sp points at the hardware frame itself.
create_tcb_FrameSp(base, len, handler, mem) ==
  IF len < 32 THEN "StackTooSmall"
  ELSE [mem |-> [mem EXCEPT ![base + len - 1] = 2^24,
                            ![base + len - 2] = handler],
        sp  |-> base + len - 8]

\* StackTooSmall below 32 words; else xPSR (Thumb bit) in the top word,
\* the entry PC below it, and sp = &stack[len - 16].
create_tcb(base, len, handler, mem) ==
  IF len < 32 THEN "StackTooSmall"
  ELSE [mem |-> [mem EXCEPT ![base + len - 1] = 2^24,
                            ![base + len - 2] = handler],
        sp  |-> base + len - 16]

\* Exception return to thread mode on PSP pops r0-r3, r12, lr, pc, xPSR.
ExcReturn(psp, mem) ==
  LET f == Ldmia(mem, psp, 8) IN [pc |-> f[7], xpsr |-> f[8], psp |-> psp + 8]

(***************************************************************************)
(* Memory for the checks: task stacks live in the first 64 words.                    *)
(***************************************************************************)
Mem0 == [a \in 0 .. 79 |-> 0]

\* Memory whose eight words at psp hold a hardware-stacked frame.
Stacked(psp) == Stmia(Mem0, psp, [i \in 1 .. 8 |-> <<"frame", i>>])

=============================================================================
