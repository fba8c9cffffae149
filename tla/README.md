# Verification of the CS202 kernels and paging units

The repository holds course projects in C that are linked with binaries of a
simulator. Two systems are worth verifying:

* **Process management** – two operating system kernels (`Project 1/kernel.c`,
  round robin; `Project 1 Honors/kernel.c`, multilevel feedback queues) under a
  simulated machine (`hardware.o`, `drivers.o`) that raises traps and
  interrupts.
* **Demand paging** – a TLB (`Project 2/tlb.c`, the same file as
  `Project 3/tlb.c`), an MMU (`Project 2 Honors/mmu.c`) and a two-level page table
  (`Project 3/page.c`), driven by a CPU and a kernel that are binaries
  (`cpu.o`, `kernel.o`). Each build replaces one or two of the instructor's
  object files by a student's source file.

Where the simulator's binaries matter, the model follows how the sources and
headers use them (`hardware.h`, `drivers.h`, `cpu.h`, `kernel.h`, `mmu.h`); these
definitions are marked external in `PROJECT.json`.

## Inventory

| component | state | operations | interacts with |
|---|---|---|---|
| round-robin kernel, `Project 1/kernel.c` | process table (state, CPU time), ready queue, 16 semaphores with queues, quantum start, `active_processes`, `io_processes`, `current_pid` | traps: disk read, disk write, keyboard read, fork, exit, semaphore up/down; interrupts: clock, disk, keyboard; `schedule()`, `enqueue()` | called by the machine; calls the drivers; writes `current_pid` |
| feedback kernel, `Project 1 Honors/kernel.c` | the same, with 5 ready queues and a priority per process | the same | the same |
| PID queues | head and tail pointers, nodes | enqueue, dequeue, wake | used by both kernels |
| machine and drivers (binaries) | clock, event queue | one tick: traps of the running process, due I/O interrupts, clock interrupt every 10 ms | calls the kernel |
| TLB, `tlb.c` | entries (valid, page, R, M, frame), replacement pointer, `tlb_miss` | initialize, lookup, insert, clear entry, clear R bits, write back | writes the MMU's bitmaps; called by the MMU and the kernel |
| MMU, `mmu.c` | R, M and occupied bitmaps | initialize, translate, clear R bits, set/get a bit, find a free frame | calls TLB and page table; traps to the kernel |
| page table, `page.c` | first-level table, second-level tables, `page_fault` | initialize, look up, map, clear | called by MMU and kernel |
| CPU and kernel of the paging simulator (binaries) | inverse page table, victim pointer, current instruction | fetch, retry, page in, evict (not recently used), clock interrupt | call the MMU, TLB and page table |
| `backup.c` | as `page.c` | an earlier draft of `page.c`, built by no Makefile; its update of the page table loses a new second-level table | – |
| `prog.py`, `*.dat`, Makefiles | – | workload generation, data, builds | – |

What is hard about them:

* handlers run with interrupts off, but their *order* is free: a read may
  complete while the processor is idle or busy, in the tick of a clock
  interrupt, or together with other reads; a quantum may end at any of them;
* the process table, the queues, the drivers' requests and two counters hold the
  same facts four times, and every handler updates them in separate statements;
* the deadlock verdict rests on those counters;
* CPU time is charged in pieces, by unsigned arithmetic on a clock that wraps;
* the linked lists keep tail pointers to nodes that have left the list;
* the R and M bits of a page are in its TLB entry or in a bitmap, and the kernel
  looks at the bitmaps only; a page number is in the TLB, the page table and the
  inverse page table;
* the faulting instruction is retried; memory that `malloc` returned is read.

What makes each component correct is stated by the properties below; the list
`hazards` of `PROJECT.json` says, line by line, which property guards what.

## Modules

    Hardware                       the machine and its drivers (external)
      KernelState                  what both kernels have in common
        KernelStateProofs          lemmas about it
        Kernel                     Project 1/kernel.c
          KernelProofs             its inductive invariant (with KernelStateProofs),
                                     what it promises from step to step
          MCKernel                 its small instances
        HonorsKernel               Project 1 Honors/kernel.c
          HonorsKernelProofs       the same for it
          MCHonorsKernel
    ProcessManager                 what a kernel promises; implemented by both
    PidQueue, MCPidQueue           the linked lists of kernel.c
      PidQueueProofs               their theorems
    Fifo                           what they implement
    Bitmaps                        the bitmaps of mmu.c / mmu.o
      Tlb                          tlb.c
      PageTable                    page.c / page.o
        Mmu                        mmu.c / mmu.o, over Tlb and PageTable
          VirtualMemory            with the CPU and the kernel (external)
            VirtualMemoryProofs    theorems about the tables, lemmas about Mmu
              PagingProofs         theorems about bits and data
            MCVirtualMemory
    FlatMemory                     what a program is promised,
    DemandPaging                   what is promised about page frames;
                                     both implemented by VirtualMemory
    MmuWords, MCMmuWords           the words, masks and loops of tlb.c, page.c and
                                     mmu.c; they implement Mmu
      MmuWordsProofs               theorems about them
    Arithmetic                     sums, remainders and digits, for the proofs

### Process management

`Hardware` divides a millisecond into the phases *run* (the running process
traps any number of times), *events* (due reads complete), *timer* (a clock
interrupt, every `CLOCK_INTERRUPT_PERIOD`) and *advance*. How long a read takes
is abstracted: it completes in the events phase of this or any later tick. What a
process does is abstracted to any trap at any time. `clock` counts modulo
`CLOCK_MOD` (2^32 in the code).

`KernelState`, `Kernel` and `HonorsKernel` name their variables after the code;
`outcome` replaces `exit(0)`, and `total_CPU_time_used` counts modulo `INT_MOD`.
There is one action per handler, with every function it calls: `schedule` is an
operator that takes the process table, the ready queue(s) and the counters as its
caller has left them and determines their next values, including the blocked
processes it drops from the front of a queue. `handle_semaphore` has
four branches, which are four actions. A fork names a pid that is not in use:
the workloads guarantee it and the code relies on it. `MaxSemValue` bounds the
values of the semaphores (an UP beyond it is not explored).

`PidQueue` has the pointers and nodes; a node is what `malloc` returns, nothing
is ever freed, and `wake` keeps the code's order of enqueueing a pid again before
its old node is dropped. Its refinement of `Fifo` justifies that the kernels use
sequences.

`ProcessManager` is the specification of a kernel without policy: a set of ready
processes, of which any may be dispatched, signed semaphore counters with lines of
waiters, a CPU account, and a verdict read off the processes themselves rather
than off counters.

### Demand paging

`Bitmaps`, `Tlb` and `PageTable` keep the functions' names. The bit fields of an
entry are record fields; a bitmap is a function on the frames that have a bit.
One call of `mmu_translate`, with all it calls, is one action
(`TranslateByTlb`, `TranslateByPageTable`, `PageFault`). `VirtualMemory` composes
them with the CPU (`Fetch`, `Translate`, `Fault`) and the kernel (`BringIn`,
`Evict`, `ClockInterrupt`), and two constants say what a build is linked with:

| build | `MMU` | `PAGE` | checked by |
|---|---|---|---|
| Project 2 (`tlb.c`) | `mmu.o` | `page.o` | project2 |
| Project 2 Honors (`mmu.c`) | `mmu.c` | `page.o` | honors_project2, honors_store_bit, honors_frame_count |
| Project 3 (`page.c`) | `mmu.o` | `page.c` | project3, project3_garbage |

`mmu.c` differs from `mmu.o` in the words it allocates, the initial bits, the
order of the search for a free frame and the bits an entry comes in with. What
`mmu.o` does is known from how the rest uses it; the bits of an inserted entry
are taken to count the access that missed (`CountedRBit`, `CountedMBit`, external).
`MallocZeroes` says whether memory from `malloc` happens to be zero: where the code
relies on it, both cases are checked. `modified` and `referenced` are history
variables: which pages have been stored to, or accessed, as the disk and the
last clock interrupt see it.

The kernel's calls for a page fault are `InstallPage` and `RemovePage` of `Mmu`.
The sources announce page-ins and write-backs and move no data; the variables
`memory`, `disk` and `loaded` hold the data they would move (`Stored` gives the
data a program may store to each page), so that what the announcements amount to
can be stated: `FlatMemory`, a memory in which a LOAD finds what the last STORE
left. `misses` is `tlb_miss_count` since the instruction was fetched, counted up to
`MaxMisses`. While no instruction executes, `op` is "none" and `vpage` is `NO_PAGE`.
`DemandPaging` says when a page is brought in, when one is evicted and which (none
in memory is of a lower not-recently-used class by what was really accessed).
The draft of `pt_update_pagetable` in `backup.c` is `pt_update_pagetable_draft` of
`PageTable`: a mutant that `ImplementsMemory` rejects.

`Mmu` has records where the code has words, and a set and CHOOSE where it has a
loop. `MmuWords` is the code below that abstraction: the two words of a TLB entry and
the word of a page table entry with their masks and unused bits, bitmaps packed
into words, the scan of the free-frame search from the high bits, the two loops of
the search for a TLB slot, and the shifts and masks that split a virtual address
and put a physical one together. Its constants are the widths of the fields
(11, 10, 11, 21 and 32 bits in the code). A word is the set of the positions of its
one bits, so that `&`, `|` and `& ~` are intersection, union and difference, and a shift
moves every position; a page frame number is a number where the code divides or
counts with it (`pframe / 32`, `pframe % 32`), and `Bits` and `Number` convert.
What `malloc` may return is a constant for each kind of block
(`TlbGarbage`, `BitmapGarbage`, `TableGarbage`); frames may therefore look
occupied from the start, and a TLB entry has an old page and frame number.
(`Tlb` has `TlbGarbage` too.) A second-level table is entered as `malloc` returned it
(`page.c:121`). `CleanTables` says that no entry of such a table looks present,
`TablesInRange` that the entries which do name page frames: the first is the
`CleanMemory` of `VirtualMemory` and gives `MappingsAgree` and `NoAliasing`, the
second is all that the types and the refinement of `Mmu` need.
`MappingsAgree` says of the words what `TablesAgree` says of the
records, and `ImplementsRecords` that each step is a
step of `Mmu` on the records the words stand for.

## Runs

| run | instance | shows |
|---|---|---|
| kernel | 3 pids, 2 semaphores, quantum 2, period 2, clock mod 5 | every live process in one place (`OneHome`), counters exact, verdict true, no waiter while a unit is left, first come first served; a ready process runs, and a process that waits for a read runs again |
| kernel_time | 3 pids, 1 semaphore, quantum 4, clock mod 9, CPU time mod 3 | the quantum is bounded across the wrap of the clock, each millisecond is charged once and to the right process, `Kernel` implements `ProcessManager` |
| kernel_quantum | as kernel_time | *violated*: the comment that an interrupt of any kind ends a used-up quantum |
| honors_kernel | 3 pids, 1 semaphore, 3 priorities | one place, on the queue of one's own priority; the highest is dispatched; a forked process starts lowest; the verdict; the top priority is not starved; `HonorsKernel` implements `ProcessManager` (CPU accounts left out: `INT_MOD` 1) |
| pid_queue | 3 queues, 5 nodes, 2 pids | the lists are well formed and first-in first-out |
| project2 | 3 frames, 2 TLB slots, 4 pages in 2 second-level tables | the tables agree, R and M bits are exact wherever they are, no store is lost, the bitmaps are current when a victim is chosen |
| project3 | 2 frames, 1 slot, 3 pages with data of their own | the same agreement with constant replacement of entries, and `page.c`; an instruction misses once and completes; `FlatMemory` and `DemandPaging` are implemented |
| honors_project2 | 2 frames of 2-bit words, 1 slot, 3 pages | `mmu.c` keeps the tables in agreement and invents no bit, from arbitrary initial R and M bits; instructions complete |
| mmu_words | words of 6 bits, frame numbers of 3, indices and offset of 1 bit, 4 frames in 2 words, 2 slots, 3 addresses; garbage, but for the present bits of new tables | words keep their widths; TLB, page table and occupied bitmap agree; no two addresses are translated to one; the words of `tlb.c`, `page.c` and `mmu.c` implement `Mmu`'s records |
| honors_store_bit | as honors_project2 with 2 slots | *violated*: the M bit of a page stored to after a TLB miss |
| honors_frame_count | 3 frames of 2-bit words | *violated*: a free frame is returned if there is one |
| project3_garbage | memory not zeroed | *violated*: a page that is not in memory faults |

Why the bounds suffice. With three processes one can run, one wait on a
queue and one be anywhere else, so every pair of places and every queue of length
two occurs; two semaphores let waiting be mixed up between them. The clock is made
to wrap at a value that is no multiple of the period, as 2^32 is none of 10. The
quantum is two periods (kernel_time) or one, so that it ends on a clock interrupt or between
two. Clock and CPU time are cyclic, so nothing is cut off by a bound on time.
In the paging runs there are more pages than frames, so that pages are evicted and
come back, and fewer slots than frames, so that valid entries are replaced too;
two of the pages share a second-level table. project2 has the frames and pages for
a victim to be chosen among three; it has one datum and no fairness, because the
data and the liveness of that instance are beyond a run of minutes. project3 has
them with two frames: data that tell every page from every other, and the old
data of one page from the new. In mmu_words two of the four frames look occupied
from the start, so that three pages compete for two frames and are evicted; every
field has a neighbour and an unused bit next to it, the TLB's words
are all ones in one slot, zero and mixed in the other. A new second-level table is
all zeroes, or all ones but for the present bits (`CleanTables`): with present bits
`MappingsAgree` fails, as project3_garbage shows of the records, and what is left is
proved (`WordsTypes`, `WordsImplementRecords`). The run needs bitmaps whose words
are full (`num_page_frames` a multiple of `WORD_BITS`), because `mmu.c` handles no
others: see honors_frame_count.
Five nodes let each of three queues empty and fill again
while its stale tail is on no list.

Fairness. In `Kernel!FairSpec` the machine goes on (`WF` of `Tick` and of the clock
interrupt: the actions of a process are a finite list, so a tick ends) and an
accepted read completes (`SF` of the two I/O interrupts, which are enabled in the
events phase of each tick only: a request has a due time). No trap is fair:
processes may compute for ever. `HonorsKernel!FairSpec` needs the first two only. In
`VirtualMemory` the CPU goes on with an instruction it has begun; fetching and
clock interrupts are not fair. (project2 is checked without fairness; it has
safety properties only.) `ReadyRuns` does not hold of the feedback kernel: a
process of low priority starves while higher queues stay busy, as in any such
scheduler without ageing. `TopRuns` is what is left of it.

Deadlock is checked in all runs but pid_queue, where the supply of nodes ends, and
mmu_words: with frames that only look occupied the kernel may find no page to
evict, and the simulator ends with an error.

## Disagreements with the documentation

* `Project 1/kernel.c:118` – a quantum ends at interrupts of any kind; the code
  looks at it in the clock interrupt only (kernel_quantum).
* `Project 2 Honors/mmu.c:250` – the STORE that causes a TLB miss does not set
  the M bit, so that its page may be evicted without being written (honors_store_bit).
* `Project 2 Honors/mmu.c:53` – the size of the bitmaps is rounded down
  although the comment below it asks for rounding up; the rounded-up `num_page` is
  not used (honors_frame_count).
* `Project 3/page.c:121` – a new second-level table is not cleared
  (project3_garbage). `page.o` clears it.

## Proofs

What the runs show on small instances the theorems show for every value of the
constants: any number of processes, semaphores, priorities, queues, nodes, frames,
slots and pages, any quantum, period and width of the clock, any width of the fields
of an entry or an address. They rest on the named assumptions of the modules, which
TLC evaluates in the runs, and on the hypotheses in this table, which are part of the
theorems; those named `Clean...` and `TablesInRange` are about the contents of the memory
that `malloc` returns, which are otherwise arbitrary.

| module | theorem | proves | hypotheses |
|---|---|---|---|
| KernelProofs | `TypeCorrect`, `OneHomeHolds`, `CountersHold`, `VerdictHolds`, `WaitersHold` | `TypeOK`, `OneHome`, `CountersAgree`, `VerdictIsTrue`, `WaitersFindNoUnit` | – |
| | `NobodyOvertakes` | `NoOvertaking` | – |
| | `QuantumIsBounded` | `QuantumBound` | `QUANTUM # 0` |
| | `EveryMillisecondIsCharged`, `ProcessesManaged` | `EveryMillisecondCharged`, `ManagesProcesses` | `CLOCK_MOD % INT_MOD = 0` |
| HonorsKernelProofs | `TypeCorrect`, `OneHomeHolds`, `NewProcessesLowest`, `VerdictHolds` | `TypeOK`, `OneHome`, `NewProcessesAreLowest`, `VerdictIsTrue` | – |
| | `HighestAlwaysDispatched` | `HighestIsDispatched` | – |
| | `ProcessesManaged` | `ManagesProcesses` | `CLOCK_MOD % INT_MOD = 0` |
| PidQueueProofs | `ListsAlwaysWellFormed`, `ListsAreFifo` | `ListsWellFormed`, `IsFifo` | – |
| VirtualMemoryProofs | `TypesKept`, `TablesKeptInAgreement`, `MissesCountedOnce` | `TypeOK`, `TablesAgree`, `OneMissPerInstruction` | `CleanMemory` |
| | `EvictionAlwaysFindsPages` | `EvictionFindsPages` | `CleanMemory`; every frame has a bit |
| PagingProofs | `BitsNeverInvented` | `BitsNotInvented` | `CleanMemory` |
| | `MBitsAlwaysTruthful`, `RBitsAlwaysTruthful`, `NoStoreEverLost`, `VictimBitsAlwaysCurrent` | `MBitsTruthful`, `RBitsTruthful`, `NoStoreLost`, `VictimBitsCurrent` | `CleanMemory`, `mmu.o` |
| | `MemoryImplemented`, `PagingImplemented` | `ImplementsMemory`, `ImplementsPaging` | `CleanMemory`, `mmu.o` |
| MmuWordsProofs | `WordsTypes`, `WordsImplementRecords` | `TypeOK`, `ImplementsRecords` | `TablesInRange` |
| | `WordsAgree`, `WordsDoNotAlias` | `MappingsAgree`, `NoAliasing` | `CleanTables` |
| | `RecordsAreAnMmu` | the assumptions of the instance of `Mmu` that is implemented | – |

Why the hypotheses are what they are:

* `CLOCK_MOD % INT_MOD = 0`: time is charged as a difference of two readings of the
  clock, added to a counter. Both are 32-bit words in the code, so a wrap of the
  clock is a multiple of the counter's range. If it were not, each wrap would lose time.
* `QUANTUM # 0`: the code's is 40. Without it `QuantumBound` is false: a process
  dispatched by one clock interrupt is still running, with the whole of
  `LongestPeriod` elapsed, when the next one is raised.
* `CleanMemory`: a page table or bitmap that the build in question does not clear
  happens to be zero. It holds of every run but project3_garbage, which shows what
  happens without it; for `mmu.o` with `page.o`, the build of Project 2, it is true
  whatever `malloc` returns.
* `CleanTables`: the same of the words of `page.c`. It is not true of every build:
  `page.c:121` enters a second-level table as `malloc` returned it. If an entry looks
  present, its page never faults and may share the frame of another, so that neither
  `MappingsAgree` nor `NoAliasing` holds.
* `TablesInRange`: weaker than `CleanTables`: entries may look present, but with the number
  of a page frame. With another number `mmu.c` indexes its bitmaps outside the memory it
  allocated, which the model does not show.
* every frame has a bit: with `mmu.c` only if `num_page_frames` is a multiple of
  `WORD_BITS`; honors_frame_count shows the other case.
* `mmu.o`: with `mmu.c` these properties fail (honors_store_bit).

The assumptions named `NullAssumption`, `NoPageAssumption`, `NoFrameAssumption` and
`NoFreeAssumption` say that a null pointer or a "none" is no ordinary value;
`NodesAssumption` that finitely many nodes are ever allocated.
In `MmuWords`, `WidthAssumption` says that the fields of a word do not reach each other
(21 bits of a page or frame number, and the valid, R and M bits above them),
`SizeAssumption` that there are a slot and a frame, that a page frame number fits its field,
and that the frames fill the words of a bitmap: with others, `mmu.c` addresses
bits it has not allocated (honors_frame_count).

### The arguments

**Kernels.** None of `OneHome`, `CountersAgree`, `VerdictIsTrue`, `WaitersFindNoUnit`
is inductive alone. That the counters count needs `OneHome` (the running process
is live and has no request, so a trap changes each set by one); that the verdict is
true needs the counters; that a process is in one place needs that whoever is woken
is on exactly one queue. Their conjunction `IInv` is inductive. The argument goes
through `schedule()` once: `ScheduleOutcome` says what it does, `ScheduleKeepsIInv`
that a handler which calls it keeps `IInv` if what it did before put every process
in one place and counted it; each handler's lemma then establishes that much.
`NothingToClear` shows that the branch of `schedule()` for blocked processes at the
head of the ready queue is never taken. In `HonorsKernel` `IInv` has
`NewProcessesAreLowest` too: a fork sets no priority, so that its process is on the
queue of its priority only because the pid was left at the lowest.

`QuantumBound` is not inductive: it bounds the time since the quantum began
at a clock interrupt only through the time since the last one. `QuantumLeft` relates the
two (the elapsed time is less than the quantum plus `SinceTimer`), and holds across the
wrap of the clock because the two periods that the wrap runs together are no longer
than `LongestPeriod`. For the accounts, `Charged` says what a step does to the time a
process has used, charged or not; each handler that charges, blocks, forks or kills
does exactly that. In the refinements of `ProcessManager` the ready set is that of
the elements of the queue(s), which `IInv` shows to be the processes whose state is
READY; every handler is then one action of the manager.

**Lists.** Nothing is proved by walking along a list. The inductive invariant says
that for each queue there is a sequence of nodes, linked from head to tail
(`Linked`), and that these sequences and the stale tails of other queues have no
node in common (`Apart`). A step appends a new node to one sequence and drops the
first of another (`Relinked`): the link is written to the tail of the one queue,
and `Apart` is why no other list sees it. Only then the recursion: a function that
satisfies the equation of `Walk` is known from the sequence (`WalkVisits`), and
there is one only (`OneWalk`, by the least index where two differ).

**Tables.** `TablesInv` adds to `TablesAgree` that a page in memory is in a frame that
has a bit (`FramesMapped`) and that the page being brought in is absent while others
are evicted for it (`FaultPending`): without the first, an insertion could write bits of a
frame that has none, and without the second, `BringIn` could give a page a second frame.
`MissesInv` adds to `OneMissPerInstruction` that after a miss the page waited for hits.

**Bits and data.** `BitsInv` adds to the truth of the bits that from the write-back in
`PageFault` to the choice of a victim no bit changes (`WrittenBack`), although
the kernel may evict several pages, and that only pages in memory are counted as
modified or referenced. `CleanCopies`, that an unmodified page is on disk as it is in memory, is
what lets an eviction skip the write. The refinements of `FlatMemory` and
`DemandPaging` follow: a translation is an access, `BringIn` and `Evict` are page-in
and page-out (stutters of `FlatMemory`), the clock interrupt forgets the accesses.

**Words.** `Legal` is inductive under `TablesInRange`, and the refinement needs no more:
words have their widths, the frame numbers in the TLB and in present entries
are in range (`FramesInRange`), and the page being brought in is absent. `MappingsAgree` is
inductive together with `Legal`, under `CleanTables`. The conjunct that
matters is that every frame of a page in memory is marked occupied, since the frame
that a page is brought into is found by a scan of the bitmap: with it, the new
page has a frame of its own (`InstallStep`), and with a TLB that agrees, an
eviction leaves no entry behind (`RemoveStep`). The records are then read off
the words. That masks do not reach each other follows from the
widths, field by field; `FoundAgrees` shows the two loops of the search to find the slot
of the least distance in `Tlb`, and `FreeFrame` the scan down the bits of a word
to find the frame of `Bitmaps`. The write-back loop is a recursive function
(`AfterRounds`). It is not reasoned about by induction: `RoundsSolved` gives the
bitmaps after every round explicitly (a frame has the bit of the last entry so far
that holds it), shows that this satisfies the equations of the loop, and that there is one
solution only, by the least round where two differ. Numbers and their bits
correspond one to one (`NumberOfBits`) by the same device in
`Arithmetic`. `NoAliasing` follows from `MappingsAgree`: a shifted frame number and
an offset have no position in common, so an address determines its frame, the
frame its page, and the page and the offset the virtual address.

### Only model-checked

* Liveness (`ReadyRuns`, `ReadReturns`, `TopRuns`, `InstructionCompletes`): fairness
  and ENABLED are out of the prover's reach.
* The four runs that show a disagreement.

## Not modelled

Console output; instruction decoding and the choice of addresses within a page
(except in `MmuWords`); statistics other than TLB misses; the failure of `malloc` and
the memory that is never freed; the time a read takes; the functions of `backup.c`
other than `pt_update_pagetable` (they are those of `page.c`); `prog.py`, the workloads
and the Makefiles, which choose what is linked. `cpu.o`, `kernel.o`, `mmu.o`, `page.o`,
`hardware.o` and `drivers.o` are binaries: their parts of the models are external.
A TLB without slots (`tlb.c:172`) and a fork of a live pid are excluded by assumptions.

## Plan

1. (done) `Hardware`, `Kernel`, `PidQueue`, the abstract `ProcessManager` and `Fifo`,
   and the inductive invariant of `Kernel`.
2. (done) `Bitmaps`, `Tlb`, `PageTable`, `Mmu`, `VirtualMemory` and its builds.
3. (done) `HonorsKernel` over the same `KernelState`.
4. (done) `DemandPaging` and `FlatMemory`, which the builds of `VirtualMemory` implement,
   and `MmuWords`, the words below `Mmu`.
5. (done) Proofs: every safety and action property of the passing runs and every refinement,
   with the words of `MmuWords` as sets of bit positions.

What could follow is the composition of `MmuWords` with the CPU and the kernel: the
theorems about `VirtualMemory` for `mmu.c` apply to the words through
`WordsImplementRecords` and `RecordsAreAnMmu`, step by step, but no module states it.
