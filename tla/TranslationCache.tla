-------------------------- MODULE TranslationCache --------------------------
(***************************************************************************)
(* The translation cache of the JIT compiler                               *)
(* (src/src/uae_cpu/compiler/compemu_support.cpp): blocks of guest code,   *)
(* the lists they are on, the handlers through which they are entered, the *)
(* jumps from one to the next, and their fate when the guest flushes the   *)
(* instruction cache.                                                      *)
(*                                                                         *)
(* A block is known by its address.  Its code in memory is a value that    *)
(* tells where it may go next and what its checksum is; a translation      *)
(* remembers the value it was made from.  The build is the default one:    *)
(* USE_MATCH 0, USE_CHECKSUM_INFO 1 and LAZY_FLUSH_ICACHE_RANGE 0, in      *)
(* which no block is BI_NEED_RECOMP, and JITInline is off, so that a block *)
(* covers memory at its address only.  The cache belongs to the emulation  *)
(* thread alone.                                                           *)
(***************************************************************************)
EXTENDS Integers, FiniteSets, SequencesExt

CONSTANTS
  Addr,         \* addresses at which blocks begin
  Lines,        \* number of cache lines
  Rom,          \* addresses in the ROM
  Code,         \* for an address, its contents: [to : Seq(Addr), sum : Nat]; the sum is 0
                \* for code longer than MAX_CHECKSUM_LEN
  Lazy,         \* bx_options.jit.jitlazyflush
  Opt0,         \* optcount[0]: runs of a block before it is translated
  LateFaults    \* whether a bus error may hit a block that is run for recompilation

ASSUME ConstantsAssumption ==
  /\ Addr \subseteq Nat /\ Rom \subseteq Addr
  /\ Lines \in Nat \ {0}
  /\ \A a \in Addr : \A c \in Code[a] : /\ c.to \in Seq(Addr) /\ Len(c.to) <= 2
                                        /\ c.sum \in Nat
  /\ Lazy \in BOOLEAN /\ LateFaults \in BOOLEAN
  /\ Opt0 \in Nat \ {0}

MAX_HOLD_BI == 3

VARIABLES
  cache,    \* blocks, lists and tags, see Empty
  mem,      \* guest memory
  letit,    \* the guest has its instruction cache on
  pc,       \* regs.pc_p, and the block that runs
  mode,     \* the routine or code that runs
  run,      \* the code that runs
  leave,    \* SPCFLAG_JIT_EXEC_RETURN
  dirty,    \* addresses written since the guest last flushed
  excused   \* the block that runs was dirty when it was entered

vars == <<cache, mem, letit, pc, mode, run, leave, dirty, excused>>

cacheline(a) == a % Lines
Line == {cacheline(a) : a \in Addr}
NoCode == [to |-> <<>>, sum |-> 0, none |-> TRUE]  \* the handler is NULL

\* A blockinfo that was invalidated.  level 1 is the first optlevel of optcount that
\* is in use after level 0, and has count -2: no further recompilation.
Invalid ==
  [status |-> "invalid", level |-> 0, count |-> Opt0 - 1, handler_to_use |-> "normal",
   dhtu |-> "pen", code |-> NoCode, jumps |-> <<>>]

\* bi: the blocks on active or dormant; the latter are those not in active.
\* chain: the blocks of a line, the one that is tried first at its head.
\* panic: an assertion of the code has failed.
Empty ==
  [bi |-> [a \in {} |-> Invalid], active |-> {}, hold |-> {},
   chain |-> [l \in Line |-> <<>>], tag |-> [l \in Line |-> <<"normal">>],
   panic |-> FALSE]

Init ==
  /\ cache = Empty
  /\ mem \in {m \in [Addr -> UNION Range(Code)] : \A a \in Addr : m[a] \in Code[a]}
  /\ letit = FALSE
  /\ pc \in Addr
  /\ mode = "loop"
  /\ run = NoCode
  /\ leave = FALSE
  /\ dirty = {}
  /\ excused = FALSE

(***************************************************************************)
(* Lists and handlers.                                                     *)
(***************************************************************************)
Exists(c, a) == a \in DOMAIN c.bi
First(c, a) == Head(c.chain[cacheline(a)])

\* The address in handler_to_use: a routine, or the block's own code.
HandlerOf(c, a) ==
  LET h == c.bi[a].handler_to_use IN IF h = "own" THEN <<"own", a>> ELSE <<h>>

raise_in_cl_list(c, a) ==
  LET l == cacheline(a)
  IN  [c EXCEPT !.chain[l] = <<a>> \o SelectSeq(@, LAMBDA x : x # a),
                !.tag[l] = HandlerOf(c, a)]

\* Every jump to a goes where dh says.
Redirect(jumps, a, dh) ==
  [i \in DOMAIN jumps |->
     IF jumps[i].target = a THEN [jumps[i] EXCEPT !.to = dh] ELSE jumps[i]]

\* Mutant: the jumps to the block stay as they are.
set_dhtu_alone(c, a, dh) == [c EXCEPT !.bi[a].dhtu = dh]

set_dhtu(c, a, dh) ==
  IF c.bi[a].dhtu = dh THEN c
  ELSE [c EXCEPT !.bi = [x \in DOMAIN c.bi |->
          [c.bi[x] EXCEPT !.jumps = Redirect(@, a, dh),
                          !.dhtu = IF x = a THEN dh ELSE @]]]

invalidate_block(c, a) == [set_dhtu(c, a, "pen") EXCEPT !.bi[a] = Invalid]

\* A block that is not known takes one of those on hold.
get_blockinfo_addr_new(c, a) ==
  IF Exists(c, a) THEN c
  ELSE IF c.hold = {} THEN [c EXCEPT !.panic = TRUE]
  ELSE raise_in_cl_list([c EXCEPT !.hold = @ \ {Min(c.hold)},
                                  !.bi = [x \in DOMAIN c.bi \cup {a} |->
                                            IF x = a THEN Invalid ELSE c.bi[x]],
                                  !.active = @ \cup {a}], a)

\* Blocks are put on hold up to the first place that has one.
alloc_blockinfos(c) ==
  [c EXCEPT !.hold = @ \cup {i \in 1..MAX_HOLD_BI : \A j \in 1..i : j \notin c.hold}]

(***************************************************************************)
(* Flushing.                                                               *)
(***************************************************************************)
FlushOne(c, a) ==
  LET valid == c.bi[a].status # "invalid"
      d == set_dhtu(c, a, IF valid THEN "pcc" ELSE "pen")
      e == [d EXCEPT !.bi[a].handler_to_use = IF valid THEN "check" ELSE "normal",
                     !.bi[a].status = IF valid THEN "need_check" ELSE "invalid"]
  IN  IF First(c, a) = a THEN [e EXCEPT !.tag[cacheline(a)] = HandlerOf(e, a)] ELSE e

flush_icache_lazy(c) ==
  [FoldSet(LAMBDA a, d : FlushOne(d, a), c, c.active) EXCEPT !.active = {}]

flush_icache_hard(c) == [Empty EXCEPT !.panic = c.panic]

flush_icache(c) == IF Lazy THEN flush_icache_lazy(c) ELSE flush_icache_hard(c)

(***************************************************************************)
(* Checksums.                                                              *)
(***************************************************************************)
\* Mutant: the two sums of a long block, 0 and 0, agree.
AgreesLong(b, a) == b.code.sum \in {0, mem[a].sum}

\* calc_checksum over the memory the translation was made from; sums of 0 never agree.
Agrees(b, a) == b.code.sum # 0 /\ b.code.sum = mem[a].sum

RECURSIVE block_check_checksum(_, _), called_check_checksum(_, _)

\* The cache and whether the block may be used.
block_check_checksum(c, a) ==
  IF c.bi[a].status # "need_check" THEN [cache |-> c, good |-> TRUE]
  ELSE LET d == [set_dhtu(c, a, "own") EXCEPT !.bi[a].handler_to_use = "own",
                                              !.bi[a].status = "checking"]
           r == IF Agrees(c.bi[a], a)
                THEN called_check_checksum(d, [i \in DOMAIN d.bi[a].jumps |->
                                                 d.bi[a].jumps[i].target])
                ELSE [cache |-> c, good |-> FALSE]
       IN  [r EXCEPT !.cache =
              raise_in_cl_list(IF r.good
                               THEN [@ EXCEPT !.active = @ \cup {a},
                                              !.bi[a].status = "active"]
                               ELSE invalidate_block(@, a), a)]

\* The blocks a translation jumps to, until one fails.
called_check_checksum(c, targets) ==
  IF targets = <<>> THEN [cache |-> c, good |-> TRUE]
  ELSE LET r == block_check_checksum(c, Head(targets))
       IN  IF r.good THEN called_check_checksum(r.cache, Tail(targets)) ELSE r

(***************************************************************************)
(* Compilation.                                                            *)
(***************************************************************************)
\* The end of a translated block: a jump to t, whose block is checked first.
JumpTo(c, a, t) ==
  LET d == block_check_checksum(get_blockinfo_addr_new(c, t), t).cache
  IN  [d EXCEPT !.bi[a].jumps = Append(@, [target |-> t, to |-> d.bi[t].dhtu])]

\* compile_block refuses a block that needs no compilation, by its assertions.
Refused(c, a) ==
  /\ c.bi[a].status # "invalid"
  /\ First(c, a) # a \/ c.bi[a].count # -1

\* The block goes to level 0, where it counts its runs, or is translated.
BeginBlock(c, a, translate) ==
  [set_dhtu(c, a, "own") EXCEPT
     !.bi[a] = [@ EXCEPT !.level = IF translate THEN 1 ELSE 0,
                         !.count = IF translate THEN -2 ELSE @,
                         !.status = "compiling",
                         !.code = mem[a], !.jumps = <<>>]]

\* A block in the ROM needs no checks and is kept on dormant.
FinishBlock(c, a) ==
  raise_in_cl_list(
    [c EXCEPT !.active = IF a \in Rom THEN @ \ {a} ELSE @ \cup {a},
              !.bi[a].handler_to_use = "own",
              !.bi[a].status = "active"], a)

\* The jumps are emitted after the instructions, and only on level 1.
Translate(c, a, to) ==
  LET translate == c.bi[a].count = -1
  IN  FinishBlock(FoldLeft(LAMBDA d, t : JumpTo(d, a, t), BeginBlock(c, a, translate),
                           IF translate THEN to ELSE <<>>), a)

compile_block(c, a, to) ==
  LET d == get_blockinfo_addr_new(alloc_blockinfos(c), a)
  IN  IF d.panic \/ Refused(d, a) THEN [d EXCEPT !.panic = TRUE] ELSE Translate(d, a, to)

(***************************************************************************)
(* The routines of the dispatcher.                                         *)
(***************************************************************************)
Guest == UNCHANGED <<mem, letit, dirty>>
Goto(routine) == mode' = routine /\ UNCHANGED <<pc, run, excused>>
Panic == cache' = [cache EXCEPT !.panic = TRUE] /\ Goto("abort")

\* The code of block a, entered behind its test of the address.
Enter(a) ==
  LET b == cache.bi[a]
      recompile == b.level = 0 /\ b.count - 1 < 0
  IN  /\ cache' = IF b.level = 0 THEN [cache EXCEPT !.bi[a].count = @ - 1] ELSE cache
      /\ pc' = a
      /\ mode' = IF recompile THEN "recompile_block"
                 ELSE IF b.level = 0 THEN "exec_nostats" ELSE "native"
      /\ run' = IF b.level = 0 THEN mem[a] ELSE b.code
      /\ excused' = (a \in dirty)

\* pushall_call_handler: a jump through the tag of pc's line.
Dispatch ==
  LET tag == cache.tag[cacheline(pc)]
  IN  /\ mode = "loop"
      /\ leave' = FALSE
      /\ CASE tag = <<"normal">> -> Goto("execute_normal") /\ UNCHANGED cache
           [] tag = <<"check">> -> Goto("check_checksum") /\ UNCHANGED cache
           [] tag = <<"own", pc>> -> Enter(pc)
           [] OTHER -> Goto("cache_miss") /\ UNCHANGED cache
      /\ Guest

\* Mutant: a block that is not the first of its line stays where it is.
execute_normal_stuck ==
  /\ mode = "execute_normal"
  /\ IF Exists(cache, pc) /\ First(cache, pc) # pc
     THEN UNCHANGED cache /\ Goto("loop")
     ELSE /\ mode' = "normal"
          /\ run' = mem[pc]
          /\ UNCHANGED <<cache, pc, excused>>
  /\ UNCHANGED leave
  /\ Guest

\* check_for_cache_miss and the beginning of the do-it-normal loop.
execute_normal ==
  /\ mode = "execute_normal"
  /\ IF Exists(cache, pc) /\ First(cache, pc) # pc
     THEN cache' = raise_in_cl_list(cache, pc) /\ Goto("loop")
     ELSE /\ mode' = "normal"
          /\ run' = mem[pc]
          /\ UNCHANGED <<cache, pc, excused>>
  /\ UNCHANGED leave
  /\ Guest

cache_miss ==
  /\ mode = "cache_miss"
  /\ CASE ~Exists(cache, pc) -> Goto("execute_normal") /\ UNCHANGED cache
       [] Exists(cache, pc) /\ First(cache, pc) = pc -> Panic
       [] OTHER -> cache' = raise_in_cl_list(cache, pc) /\ Goto("loop")
  /\ UNCHANGED leave
  /\ Guest

\* Mutant: the block is not made the first of its line.
recompile_block_low ==
  /\ mode = "recompile_block"
  /\ Goto("execute_normal")
  /\ UNCHANGED <<cache, leave>>
  /\ Guest

recompile_block ==
  /\ mode = "recompile_block"
  /\ IF Exists(cache, pc)
     THEN cache' = raise_in_cl_list(cache, pc) /\ Goto("execute_normal")
     ELSE Panic
  /\ UNCHANGED leave
  /\ Guest

check_checksum ==
  /\ mode = "check_checksum"
  /\ CASE ~Exists(cache, pc) -> Goto("execute_normal") /\ UNCHANGED cache
       [] Exists(cache, pc) /\ First(cache, pc) # pc -> Goto("cache_miss") /\ UNCHANGED cache
       [] OTHER -> LET r == block_check_checksum(cache, pc)
                   IN  /\ cache' = r.cache
                       /\ Goto(IF r.good THEN "loop" ELSE "execute_normal")
  /\ UNCHANGED leave
  /\ Guest

(***************************************************************************)
(* The guest's code.                                                       *)
(***************************************************************************)
Running == mode \in {"normal", "exec_nostats", "native"}

\* Instructions before the last one.  The guest writes code it does not execute yet.
Write(a, code) ==
  /\ Running
  /\ a \notin Rom \cup {pc} /\ mem[a] # code
  /\ mem' = [mem EXCEPT ![a] = code]
  /\ dirty' = dirty \cup {a}
  /\ UNCHANGED <<cache, letit, pc, mode, run, leave, excused>>

\* CINV, CPUSH and PFLUSH, and MOVEC to CACR with its flush bit.
Flush ==
  /\ Running
  /\ cache' = flush_icache(cache)
  /\ leave' = (leave \/ ~Lazy)
  /\ dirty' = {}
  /\ UNCHANGED <<mem, letit, pc, mode, run, excused>>

\* MOVEC to CACR, which turns the cache on or off.
set_cache_state ==
  /\ Running
  /\ letit' = ~letit
  /\ cache' = flush_icache_hard(cache)
  /\ leave' = TRUE
  /\ dirty' = {}
  /\ UNCHANGED <<mem, pc, mode, run, excused>>

Recompiling == mode = "normal" /\ Exists(cache, pc) /\ cache.bi[pc].count < 0

\* A bus error: m68k_compile_execute flushes and goes on at the guest's handler.
Fault(handler) ==
  /\ Running
  /\ Recompiling => LateFaults
  /\ cache' = flush_icache(cache)
  /\ leave' = (leave \/ ~Lazy)
  /\ pc' = handler
  /\ mode' = "loop"
  /\ run' = NoCode
  /\ excused' = FALSE
  /\ Guest

\* The last instruction of a block that was interpreted.
Interpreted(next) ==
  /\ pc' = next
  /\ mode' = "loop"
  /\ run' = NoCode
  /\ excused' = FALSE
  /\ Guest

\* execute_normal ends with the compilation of what it has run, after which the space
\* for translations may be used up.  A special flag may have ended the block early, and
\* then it goes on at the next instruction.
EndNormal(next, full) ==
  LET to == IF run.to = <<>> \/ next \in Range(run.to) THEN run.to ELSE <<next>>
      c == IF letit THEN compile_block(cache, pc, to) ELSE cache
  IN  /\ mode = "normal"
      /\ full => letit
      /\ cache' = IF full THEN flush_icache_hard(c) ELSE c
      /\ leave' = (leave \/ full)
      /\ Interpreted(next)

EndNostats(next) ==
  /\ mode = "exec_nostats"
  /\ UNCHANGED <<cache, leave>>
  /\ Interpreted(next)

\* The end of translated code with special flags up, or with the next address in a
\* register: by way of the tags.
EndNative(next) ==
  /\ mode = "native"
  /\ UNCHANGED <<cache, leave>>
  /\ Interpreted(next)

\* With no special flag, a jump goes to the next block, past the tags.
JumpNative(i) ==
  LET jump == cache.bi[pc].jumps[i]
  IN  /\ mode = "native"
      /\ ~leave
      /\ i \in DOMAIN cache.bi[pc].jumps
      /\ IF jump.to = "own"
         THEN Enter(jump.target)
         ELSE /\ mode' = IF jump.to = "pen" THEN "execute_normal" ELSE "check_checksum"
              /\ pc' = jump.target
              /\ run' = NoCode
              /\ excused' = FALSE
              /\ UNCHANGED cache
      /\ UNCHANGED leave
      /\ Guest

EndBlock ==
  \/ \E next \in Addr : \/ \E full \in BOOLEAN : EndNormal(next, full)
                        \/ EndNostats(next)
                        \/ EndNative(next)
  \/ \E i \in 1..2 : JumpNative(i)

Instruction ==
  \/ \E a \in Addr : \E code \in Code[a] : Write(a, code)
  \/ Flush
  \/ set_cache_state
  \/ \E handler \in Addr : Fault(handler)

Dispatcher ==
  \/ Dispatch \/ execute_normal \/ cache_miss \/ recompile_block \/ check_checksum

Next == Dispatcher \/ Instruction \/ EndBlock

Spec == Init /\ [][Next]_vars

\* The emulation thread does not stop between two blocks.
FairSpec == Spec /\ WF_vars(Dispatcher)

(***************************************************************************)
(* Properties.                                                             *)
(***************************************************************************)
\* The copies of handlers are fresh: the tag of a line is the handler of its first
\* block, and the jumps in translated code go where their target's direct handler says.
HandlersFresh ==
  /\ \A l \in Line : cache.tag[l] = IF cache.chain[l] = <<>> THEN <<"normal">>
                                    ELSE HandlerOf(cache, Head(cache.chain[l]))
  /\ \A a \in DOMAIN cache.bi : \A i \in DOMAIN cache.bi[a].jumps :
       LET jump == cache.bi[a].jumps[i]
       IN  Exists(cache, jump.target) /\ jump.to = cache.bi[jump.target].dhtu

\* Translated code that runs is the translation of what is in memory, unless the guest
\* wrote it and entered it without a flush.
RunsCurrent == mode = "native" => excused \/ run = mem[pc]

\* No assertion of the compiler fails: there is a blockinfo on hold when one is needed,
\* no cache miss is unexplained, and no block is compiled that needs no compilation.
AssertionsHold == ~cache.panic

\* The emulator does not go round between the routines of the dispatcher for ever:
\* always, guest code will run again.
GuestAdvances == []<>Running
=============================================================================
