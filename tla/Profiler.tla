-------------------------------- MODULE Profiler --------------------------------
(***************************************************************************)
(* The heap behind sbrk() and the profiler on top of it: mcount(), which   *)
(* the compiler calls at the start of every function, keeps a list of      *)
(* functions and for each a list of the arcs it was called over, and an    *)
(* alarm samples the program counter.  Interrupt handlers call functions,  *)
(* too, at any instruction of main's; what a handler does is one step,     *)
(* since main does not move meanwhile.  All functions here hash to the     *)
(* same of the HASH_BUCKETS lists.                                         *)
(*                                                                         *)
(* Nothing looks at the -1 of an sbrk() that fails for the profiler, so    *)
(* the heap must hold what it needs, and the samples of a last, partial    *)
(* bucket would be counted behind the buffer, so the text is whole ones.   *)
(***************************************************************************)
EXTENDS Integers, Sequences, SequencesExt

CONSTANTS HeapStart, HeapLimit,   \* __alt_heap_start and __alt_heap_limit
          SlabBytes, EntryBytes,  \* MCOUNT_SLAB_INCREMENT; the size of an entry, and of an arc
          BucketBytes, TextBytes, \* PCSAMPLE_BYTES_PER_BUCKET; etext - stext
          Arcs,                   \* <<function, caller>> of the calls there are
          Requests,               \* what the program asks sbrk() for
          MaxCalls, MaxRequests, MaxTicks     \* bounds

ASSUME ProfilerAssumption ==
    /\ HeapStart \in Nat \ {0} /\ HeapLimit \in Nat /\ Requests \subseteq Nat
    /\ {SlabBytes, EntryBytes, BucketBytes, TextBytes} \subseteq Nat \ {0}
    /\ EntryBytes % 4 = 0 /\ EntryBytes <= SlabBytes /\ TextBytes % BucketBytes = 0

VARIABLES
    memory,     \* heap_end, the slab, and history: the blocks handed out, <<first byte, bytes>>
    functions,  \* the list at __mcount_fn_head: address, self_pc and arcs of an entry
    sampling,   \* pcsample_need_init, s_pcsamples, the samples, and how often the alarm was started
    ticks_per_second,  \* alt_ticks_per_second()
    mcount,     \* what main is at in mcount() and __mcount_record()
    called      \* history: how often each arc was called

profiler_vars == <<memory, functions, sampling, ticks_per_second, mcount, called>>

Buckets == TextBytes \div BucketBytes
NoSamples == [b \in 0..Buckets - 1 |-> 0]

ProfilerInit ==
    /\ memory = [heap_end |-> HeapStart, slab_ptr |-> 0, slab_size |-> 0, blocks |-> <<>>]
    /\ functions = <<>> /\ ticks_per_second = 0
    /\ sampling = [need_init |-> TRUE, pcsamples |-> 0, samples |-> NoSamples, starts |-> 0]
    /\ mcount = [pc |-> "idle"] /\ called = [arc \in Arcs |-> 0]

----------------------------------------------------------------------------
(* The heap.  sbrk() runs with the interrupts disabled.                    *)

Aligned(address) == ((address + 3) \div 4) * 4

ALT_SBRK(m, incr) ==
    LET base == Aligned(m.heap_end) IN
    IF base + incr > HeapLimit
    THEN [ptr |-> -1, m |-> [m EXCEPT !.heap_end = base]]
    ELSE [ptr |-> base, m |-> [m EXCEPT !.heap_end = base + incr]]

HandedOut(r, bytes) == [r EXCEPT !.m.blocks = Append(@, <<r.ptr, bytes>>)]

(* Mutant of Carved: the size left in the slab is forgotten. *)
Carved_SizeKept(m) == [m EXCEPT !.slab_ptr = @ + EntryBytes]

Carved(m) == [m EXCEPT !.slab_ptr = @ + EntryBytes, !.slab_size = @ - EntryBytes]

(* mcount_allocate(), for an entry or an arc: what is left of a slab that  *)
(* is too small is given up.                                               *)
mcount_allocate(m) ==
    LET slab == ALT_SBRK(m, SlabBytes)
        from == IF EntryBytes > m.slab_size
                THEN [slab.m EXCEPT !.slab_ptr = slab.ptr, !.slab_size = SlabBytes] ELSE m
    IN  HandedOut([ptr |-> from.slab_ptr, m |-> Carved(from)], EntryBytes)

----------------------------------------------------------------------------
(* The lists.  New entries go to the head, so that a walk sees the list as *)
(* it was when the walk read the head.                                     *)

FindFunction(self) ==
    LET found == SelectSeq(functions, LAMBDA e : e.self = self)
    IN  IF found = <<>> THEN 0 ELSE found[1].address

FunctionAt(address) == SelectSeq(functions, LAMBDA e : e.address = address)[1]

FindArc(address, from) ==
    LET found == SelectSeq(FunctionAt(address).arcs, LAMBDA a : a.from = from)
    IN  IF found = <<>> THEN 0 ELSE found[1].address

WithCount(arc, count) ==
    [i \in DOMAIN functions |->
        [functions[i] EXCEPT !.arcs =
            [k \in DOMAIN @ |-> IF @[k].address = arc THEN [@[k] EXCEPT !.count = count] ELSE @[k]]]]

CountAt(arc) ==
    (CHOOSE a \in UNION {Range(functions[i].arcs) : i \in DOMAIN functions} : a.address = arc).count

(* Mutant of WithArc: the new arc does not point to the others. *)
WithArc_Unlinked(entry, arc) == [entry EXCEPT !.arcs = <<arc>>]

WithArc(entry, arc) == [entry EXCEPT !.arcs = <<arc>> \o @]

(* The masked part of __mcount_record(): an entry if the walk found none,  *)
(* and an arc.                                                             *)
Record(m, self, from, address) ==
    LET entry == IF address = 0 THEN mcount_allocate(m) ELSE [ptr |-> address, m |-> m]
        list == IF address = 0 THEN <<[address |-> entry.ptr, self |-> self, arcs |-> <<>>]>> \o functions
                ELSE functions
        arc == mcount_allocate(entry.m)
    IN  [m |-> arc.m,
         functions |-> [i \in DOMAIN list |->
            IF list[i].address # entry.ptr THEN list[i]
            ELSE WithArc(list[i], [address |-> arc.ptr, from |-> from, count |-> 1])]]

(* nios2_pcsample_init(), and what __mcount_record() does with its result: *)
(* it allocates the histogram and starts the alarm of the sampler, whether *)
(* or not it was started before.  Both happen twice when a handler enters  *)
(* mcount() between main's test of need_init and its reset.                *)
PcsampleInit(m) ==
    LET buffer == ALT_SBRK(m, 2 * Buckets) IN
    IF ticks_per_second = 0 THEN [m |-> m, sampling |-> [sampling EXCEPT !.need_init = TRUE]]
    ELSE [m |-> HandedOut(buffer, 2 * Buckets).m,
          sampling |-> [need_init |-> FALSE, pcsamples |-> buffer.ptr, samples |-> NoSamples,
                        starts |-> sampling.starts + 1]]

----------------------------------------------------------------------------
(* main calls functions and asks for memory                                *)

CallsMade == FoldSet(LAMBDA arc, n : n + called[arc], 0, Arcs)
MainReturns(arc) == mcount' = [pc |-> "idle"] /\ called' = [called EXCEPT ![arc] = @ + 1]
MainAt(pc) == mcount.pc = pc
MainGoes(pc) == mcount' = [mcount EXCEPT !.pc = pc] /\ UNCHANGED called
ThisArc == <<mcount.self, mcount.from>>

WalkFunctions(arc) ==
    /\ MainAt("idle") /\ CallsMade < MaxCalls
    /\ LET entry == FindFunction(arc[1]) IN
       mcount' = [pc |-> IF entry = 0 THEN "test" ELSE "arcs", self |-> arc[1], from |-> arc[2],
                  entry |-> entry, arc |-> 0, count |-> 0]
    /\ UNCHANGED <<memory, functions, sampling, ticks_per_second, called>>

WalkArcs ==
    /\ MainAt("arcs")
    /\ LET arc == FindArc(mcount.entry, mcount.from) IN
       mcount' = [mcount EXCEPT !.pc = IF arc = 0 THEN "test" ELSE "load", !.arc = arc]
    /\ UNCHANGED <<memory, functions, sampling, ticks_per_second, called>>

LoadCount ==
    /\ MainAt("load") /\ mcount' = [mcount EXCEPT !.pc = "store", !.count = CountAt(mcount.arc)]
    /\ UNCHANGED <<memory, functions, sampling, ticks_per_second, called>>

StoreCount ==
    /\ MainAt("store") /\ MainReturns(ThisArc)
    /\ functions' = WithCount(mcount.arc, mcount.count + 1)
    /\ UNCHANGED <<memory, sampling, ticks_per_second>>

TestNeedInit ==
    /\ MainAt("test") /\ MainGoes(IF sampling.need_init THEN "clear" ELSE "record")
    /\ UNCHANGED <<memory, functions, sampling, ticks_per_second>>

ClearNeedInit ==
    /\ MainAt("clear") /\ MainGoes("init")
    /\ sampling' = [sampling EXCEPT !.need_init = FALSE]
    /\ UNCHANGED <<memory, functions, ticks_per_second>>

nios2_pcsample_init ==
    /\ MainAt("init") /\ MainGoes("record")
    /\ memory' = PcsampleInit(memory).m /\ sampling' = PcsampleInit(memory).sampling
    /\ UNCHANGED <<functions, ticks_per_second>>

RecordArc ==
    /\ MainAt("record") /\ MainReturns(ThisArc)
    /\ LET r == Record(memory, mcount.self, mcount.from, mcount.entry) IN
       memory' = r.m /\ functions' = r.functions
    /\ UNCHANGED <<sampling, ticks_per_second>>

main_calls ==
    \/ \E arc \in Arcs : WalkFunctions(arc)
    \/ WalkArcs \/ LoadCount \/ StoreCount
    \/ TestNeedInit \/ ClearNeedInit \/ nios2_pcsample_init \/ RecordArc

(* malloc() and the like: a request that fails is theirs to deal with. *)
main_allocates(bytes) ==
    /\ MainAt("idle") /\ Len(SelectSeq(memory.blocks, LAMBDA b : b[2] \in Requests)) < MaxRequests
    /\ LET r == ALT_SBRK(memory, bytes) IN
       memory' = IF r.ptr = -1 THEN r.m ELSE HandedOut(r, bytes).m
    /\ UNCHANGED <<functions, sampling, ticks_per_second, mcount, called>>

(* alt_sysclk_init(): now the sampler can start. *)
ClockStarts ==
    /\ MainAt("idle") /\ ticks_per_second = 0 /\ ticks_per_second' = 1
    /\ UNCHANGED <<memory, functions, sampling, mcount, called>>

----------------------------------------------------------------------------
(* Interrupt handlers                                                      *)

HandlerCalls(arc) ==
    /\ CallsMade < MaxCalls /\ called' = [called EXCEPT ![arc] = @ + 1]
    /\ LET entry == FindFunction(arc[1])
           found == IF entry = 0 THEN 0 ELSE FindArc(entry, arc[2])
           start == IF sampling.need_init THEN PcsampleInit(memory) ELSE [m |-> memory, sampling |-> sampling]
           r == Record(start.m, arc[1], arc[2], entry)
       IN  IF found # 0
           THEN functions' = WithCount(found, CountAt(found) + 1) /\ UNCHANGED <<memory, sampling>>
           ELSE memory' = r.m /\ functions' = r.functions /\ sampling' = start.sampling
    /\ UNCHANGED <<ticks_per_second, mcount>>

Bucket(pc) == pc \div BucketBytes

(* The alarm, while it was started once: an alarm that is started again    *)
(* while it is in the list points to itself, and what alt_tick() does then *)
(* is not modelled.                                                        *)
nios2_pcsample(pc) ==
    /\ sampling.starts = 1 /\ sampling.samples[Bucket(pc)] < MaxTicks
    /\ sampling' = [sampling EXCEPT !.samples[Bucket(pc)] = @ + 1]
    /\ UNCHANGED <<memory, functions, ticks_per_second, mcount, called>>

ProfilerNext ==
    \/ main_calls \/ \E bytes \in Requests : main_allocates(bytes)
    \/ ClockStarts
    \/ \E arc \in Arcs : HandlerCalls(arc)
    \/ \E pc \in 0..TextBytes - 1 : nios2_pcsample(pc)

ProfilerSpec == ProfilerInit /\ [][ProfilerNext]_profiler_vars

----------------------------------------------------------------------------

(* Memory that sbrk() and mcount_allocate() handed out is aligned, in the  *)
(* heap and nobody else's, at every interleaving of main and the handlers, *)
(* and no sample is counted outside of the histogram (alt_sbrk.c:65-100,   *)
(* alt_gmon.c:133-148, 216-271).  That every block ends below HeapLimit is *)
(* the check of alt_sbrk.c:88, although lines 46-48 say that there is none *)
(* and that memory is allocated even if it overflows.                      *)
BlocksApart ==
    /\ \A i \in DOMAIN memory.blocks : LET b == memory.blocks[i] IN
          /\ b[1] % 4 = 0 /\ b[1] >= HeapStart /\ b[1] + b[2] <= HeapLimit
          /\ \A k \in 1..i - 1 : LET c == memory.blocks[k] IN
                b[1] + b[2] <= c[1] \/ c[1] + c[2] <= b[1]
    /\ sampling.pcsamples # 0 =>
          \A pc \in 0..TextBytes - 1 : \E i \in DOMAIN memory.blocks : LET b == memory.blocks[i] IN
             /\ b = <<sampling.pcsamples, 2 * Buckets>>
             /\ 2 * Bucket(pc) + 2 <= b[2]

CountsOf(arc) ==
    FlattenSeq([i \in DOMAIN functions |->
        IF functions[i].self = arc[1] THEN SelectSeq(functions[i].arcs, LAMBDA a : a.from = arc[2]) ELSE <<>>])

(* Every arc that was called is in the lists, whatever handler called it   *)
(* or changed the lists meanwhile; it may be there twice, and counts that  *)
(* main and a handler made together may be lost, but no call is counted    *)
(* that was not made (alt_gmon.c:151-207).                                 *)
ArcsRecorded ==
    \A arc \in Arcs :
        LET total == FoldSeq(LAMBDA a, n : n + a.count, 0, CountsOf(arc))
        IN  total <= called[arc] /\ (called[arc] > 0 => total > 0)
================================================================================
