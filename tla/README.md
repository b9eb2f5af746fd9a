# Nachos (UCR, 64 bit): TLA+ verification

This directory specifies the Nachos instructional operating system as it is in
`src/nachos64`, checks the specifications with TLC on small instances and proves
central results with TLAPS for every instance.

## The system

Nachos runs as one UNIX process that simulates a single processor and its
devices. Paths below are relative to `src/nachos64/code`.

| part | code | modules |
|---|---|---|
| semaphores, locks, conditions | `threads/synch.cc` | `CountingSemaphore`, `Semaphore`, `MesaMonitor`, `Monitor` |
| threads, scheduler, context switch | `threads/thread.cc`, `scheduler.cc`, `switch.s`, `system.cc` | `Kernel` |
| interrupts and simulated time, timer | `machine/interrupt.cc`, `timer.cc` | `Kernel`, `Clock` |
| forced preemption by a monitor process | `threads/preemptive.cc` | `Preemptive` |
| lists | `threads/list.h`, `synchlist.h` | `SortedList`, `List`, `SynchList` |
| dining philosophers | `threads/dinningph.cc`, `threadtest.cc` | `DinningPh` |
| disk, synchronous disk | `machine/disk.cc`, `filesys/synchdisk.cc` | `DiskLatency`, `SynchDisk` |
| file system and its test programs | `filesys/*.cc` | `FileStore`, `FileSystem`, `OpenFile`, `FsTest` |
| processes and system calls | `userprog/exception.cc`, `progtest.cc` | `Processes`, `UserSemaphores`, `OpenFiles`, `UserCopy` |
| bit map, tables of files and semaphores | `userprog/bitmap.cc`, `nachostabla.cc`, `semTabla.cc` | `BitMap`, `OpenFiles`, `UserSemaphores` |
| address spaces, paging, translation | `userprog/addrspace.cc`, `machine/translate.cc` | `AddrSpaces`, `Paging` |
| network and mail | `machine/network.cc`, `network/post.cc`, `nettest.cc` | `PostOffice` |
| console | `machine/console.cc`, `userprog/progtest.cc` | `Console` |
| MIPS simulator | `machine/mipssim.cc`, `machine.cc`, `mipssim.h` | `MipsInstr`, `Mips`, `Decoder` |
| stand-alone interpreter | `bin/execute.c`, `encode.h`, `instr.h` | `Interpreter`, `Decoder` |
| object file converters | `bin/coff2noff.c`, `coff2flat.c` | `Coff2Noff`, `Coff2Flat` |
| C++ examples | `../c++example/*` | `LifoStack`, `TemplateStack`, `InheritStack` |

Threads call semaphores; semaphores disable interrupts, queue the caller and put
it to sleep through the scheduler. Interrupt handlers run between instructions
and call `V`. Locks and conditions are made of semaphores, and everything above
(disk, file system, mail, system calls) uses those classes.

The modules form layers, each using below it only what the lower one is shown to
give. `Kernel` implements `Semaphore` (a semaphore on the real scheduler behaves
as if its threads interleaved freely, fairness included), `Semaphore` implements
`CountingSemaphore`, `Monitor` implements `MesaMonitor`; `SynchDisk`,
`DinningPh`, `SynchList` and `PostOffice` use lock, condition and semaphore at
that level, `FileSystem` and `OpenFile` use one disk request per step as
`SynchDisk` gives it, `Clock` uses the list that `List` implements
(`SortedList`).

## Modules

What a step is, where it matters most:

* `Semaphore`, `Kernel`: a section with interrupts disabled; in `Kernel` resuming
  after `SWITCH` is an action per place a thread can be in.
* `Monitor`: one semaphore call or shared assignment. `DinningPh`, `SynchList`:
  one section under the lock.
* `Processes`: from one point with interrupts enabled to the next. A thread is its
  address, and addresses are reused after deletion. Time slices fall anywhere.
* `Paging`: one access of the program, with the page fault it causes: victim,
  swap, TLB. A page's content is the number of the write that gave it.
* `FileSystem`, `OpenFile`: one disk request with what is computed up to the next.
  The directory is two sectors with an entry across them. A crash may come
  between any two requests and loses everything but the disk.
* `UserSemaphores`, `OpenFiles`: one system call, with the places where it sleeps
  apart. What the code leaves uninitialized (`usage`, the array behind
  `openFiles`) is any value the build can leave there.
* `PostOffice`: one step of a client, a worker thread or a device, on two
  machines; the network device loses packets, the UNIX socket does not.
* `Clock`: one `OneTick`, `Idle` or device request. Times are relative to now.
* `Mips`: one instruction, cut short at any memory access by a miss; a second,
  undisturbed processor in the model is what properties compare it with.
* `Preemptive`: one instruction of the child, or one wake-up of the monitor
  process.
* `Coff2Noff`, `Coff2Flat`: one pass or section, with every failure and, for
  `Coff2Noff`, a kill at any point.

`MCUserProg`, `MCDevices` and `MCMachine` instantiate components that no property
relates to each other. `Init` chooses the variable `part`, which never changes,
and `x1 .. x13` are the variables of the chosen component; every property says
for which `part` it speaks. One such run is the same as a run for each part.

Operators whose comment begins with "Mutant" are deliberate mistakes, each next
to the definition it would replace; they show that a property can fail.

## Runs

| run | instance | result |
|---|---|---|
| `semaphore` | 4 threads, initial value 1, value at most 3 | holds: no wakeup is lost, the counting semaphore is implemented |
| `semaphore_hand_over` | 3 threads, initial value 0, value at most 2, fair | violated: a woken thread can find its unit taken (comment in `synch.cc:94`) |
| `semaphore_destroy` | the same | violated: `Destroy` does not free the waiters, they sleep again (`synch.cc:103`) |
| `kernel` | 3 threads, 2 semaphores, fair | holds: no thread lost or queued twice, destruction only after finishing, halting only when nothing can run, ready threads run, `Semaphore` is implemented |
| `kernel_reap` | 3 threads, 1 semaphore | violated: a finished thread can be forgotten and never deleted (`thread.cc:139`) |
| `monitor` | 3 threads, one lock, one condition, fair | holds: exclusion, truthful `lockHolder`, no lost signal, no use of a deleted semaphore, Mesa monitor implemented |
| `synchdisk` | 3 threads, 2 sectors, 2 data values, fair | holds: one request at a time, own completion, current reads, the holder's call returns and some waiting call gets the disk |
| `dinningph` | the 5 philosophers of the code, fair | holds: neighbours exclude, `pickup` returns eating, who waits has an eating neighbour, who starves has two neighbours that eat again and again |
| `filesystem` | 1 caller, 3 names, 2 entries, 8 sectors, sizes 0 and 1, 1 crash | holds: between operations the bit map is what the listed files occupy and no sector is shared; a crash inside `Create` or `Remove` harms no other file; until then `Create` and `Remove` act at one disk write, as on a set of named files |
| `user_programs` | `MCUserProg`, 10 parts | holds, see below |
| `devices` | `MCDevices`, 13 parts, fair | holds, see below |
| `machine` | `MCMachine`, 11 parts | holds, see below |

`user_programs`

| property | parts | what it shows |
|---|---|---|
| `JoinIsHonest` | processes | a thread is ready once; after `Exit` it never runs; a semaphore in `ejecutables` belongs to a thread asleep in `Join` for that entry although addresses are reused; `Join` returns only after the program has finished; the last thread that joined a program in time is woken by its `Exit` |
| `PagingIsTransparent` | paging fits, full, two | with enough frames every access reaches the last write; with too few, modifications are not forgotten; no fault repeats |
| `ResourcesAreApart` | spaces, semaphores, open files | frames are marked and stacks private; semaphore ids name their own semaphore; one thread at a time uses the console, on every path |
| `CallsAreExact` | reading, copying, semaphores, bitmap | `ReadAt` and `WriteAt` touch their range; names and bytes arrive; a destroyed semaphore is left alone; `Find`, `Mark`, `Clear` and `FetchFrom` do one thing each |

`devices`

| property | parts | what it shows |
|---|---|---|
| `DeliveredOnceInOrder` | mail, lossy mail, post, lossy post, shared list | mail of one sender to one box comes in order and once; a halted `MailTest` has its acknowledgement; a shared list gives each item to one thread |
| `DevicesAreInStep` | polling, console, fstest | no interrupt is overdue and no yield left over; `PutChar` never finds the device busy; `Copy` then `Print` reproduces the file |
| `ProgramsComplete` | mail, post, fstest, console, short list, stack, open files | what is begun ends |
| `TimeGoesOn` | polling, timing, preemption | disk requests complete, time slices go on, threads that never yield take turns |

`machine`

| property | parts | what it shows |
|---|---|---|
| `TrapsAreTransparent` | processor | misses, system calls and interrupts change no result, in delay slots too |
| `InstructionsAreExact` | arithmetic, processor | sums, differences, products and quotients are exact or trap; handlers see delayed loads |
| `InterpretersAgree` | interpreters, decoders | `mipssim.cc` and `execute.c` agree step by step where the sources give an instruction one meaning, and decode every code alike; where they do not, the two differ only in what that instruction writes (`DivergenceIsConfined`) |
| `LoadedIsLinked` | coff2noff, coff2flat | a file that would be loaded has every byte where it was linked for, whatever failed, the open of the output included. A flat file is the memory image if the sections begin at 0, leave no gap and the uninitialised ones come last; its blank word never overwrites a section |
| `LatencyIsFirstPass` | disk | the latency is the first pass of the sector; the track buffer holds what has passed |
| `ImplementsSortedList` | list | `List` is a sequence with stable sorted insertion |
| `ImplementsLifo` | template, stacks | the stack classes are stacks and cannot be told apart |
| `RegistersSurvive` | preemption | nested forced calls of `ContextSwitch` lose no register and do not enter the decision twice |

### Bounds

`MaxValue` bounds a semaphore's value (in `Kernel`, with the interrupts on their
way); 2 and 3 let several wakeups be outstanding while threads sleep. Three
threads give one that runs, one that was woken and one that takes the unit in
between; a fourth (`semaphore`) gives two sleepers besides. Two semaphores let a thread sleep
on one while the other changes.

* `Processes`: three addresses and two `Exec`s, enough for an address to be reused
  while an entry still holds it.
* `Paging`: 4 pages on 4 frames with a TLB of 3, 4 pages on 2 frames with a TLB of
  2, and, of 3 pages each on 4 frames, a program and one it executes: hits, refills, evictions of clean
  and of dirty pages. `MaxWrites` bounds the writes.
* `AddrSpaces`: 3 spaces, segments of sizes around a page, 7 frames.
* `FileSystem`: two directory entries, one across the sector boundary, three
  names, files of 0 and 1 sector, 8 sectors, five of which `Format` uses: directory
  full, disk full, empty files and reuse occur. One crash, after which the new
  caller goes on.
* `OpenFile`: 5 bytes in sectors of 2, positions and lengths up to 5.
* `UserSemaphores`: 2 ids, 3 creations, 2 threads, so that ids are reused and the
  table is found full. `OpenFiles`: 2 threads, 5 ids, 2 opens, 3 transfers (for
  liveness 4 ids, 1 open, 2 transfers). `BitMap`: 5 bits in words of 3, so that the last word is
  partly used.
* `PostOffice`: `MailTest` on both machines; three clients with crossing traffic
  over two boxes.
* `Clock`: delays on both sides of the length of a tick. `Console`: texts of up to
  five characters. `FsTest`: files of 0 to 12 bytes in chunks of 3. `SynchList`:
  four threads.
* `Mips`: programs of 3 instructions with 2 traps, and, against the integers (the
  part arithmetic), one instruction on every pair of words. Words have four bytes of one bit (`ByteBits`), so that all
  words are tried; the code treats bytes alike whatever their width. `Decoder` is at
  full width.
* `DiskLatency`: 3 tracks of 3 sectors, `MaxTicks` 40: several rotations.
* `Preemptive`: 3 threads, stacks of 3 (2) calls, slices shorter (`machine`) and
  longer (`devices`) than `ContextSwitch`.

`monitor` does not check for deadlock, as clients may all be in `Wait`, nor does
`filesystem`, as Nachos stops when an `ASSERT` fails. In the
runs of parts, a part whose programs end or stop at a bound may stay as it is
(`MayStop`, `Rest`), so for those deadlock is not checked: all of `user_programs`
but copying, bitmap and reading; the shared list, and polling,
timing, console, short list, open files and preemption of `devices`, whose
progress the liveness properties state instead; and all of `machine` but list,
stacks and template.

### Restrictions

The instances leave out cases in which the code goes wrong, which are described
under Disagreements: `UserCopy` runs without a TLB; the file system has
one caller, and `RemoveOpen` is `FALSE`, so that no open file is removed;
`Paging` runs with no initialized data (`InitPages` 0), and transparency is
claimed only while the program fits. Its `ipt` has an entry per frame, as the code
indexes it, while the constructor allocates one entry, and only for the first
space (`addrspace.cc:69`). In the part two only the
first program has a file name (`Named`); the executed one stops the model at the
first page it needs from its file, so the two share the machine until then.
`Processes` lets every switch go through, without the null `tlb` of `SaveState`.
In `UserSemaphores` a call on the id -1, at which the code aborts, is one step
that returns -1. `Interpreter` compares the two processors on
the instructions that both sources give the same meaning (`SameMeaning`):
excluded are the `OR` and logical shifts described below, shift amounts of a
word or more, negative logical immediates, the lower partial products of
multiplications in `execute.c`, divisors of zero, `LWL` into a register that is not zero, `LWR` and the partial
stores,
`JALR` of its own link register, jumps in delay slots and across regions. Of an
excluded instruction that both carry out `DivergenceIsConfined` still shows that
it leaves the two apart in its destination register, in `HI` for a product, in
the next address and the link for a jump, and nowhere else.
`Preemptive` leaves out the flags register, the bytes that `PTRACE_PEEKDATA`
reads beside `inContextSwitch`, and signals other than the single step.
That nothing is overdue is shown for a machine with a polled device.

## Fairness

* `Kernel`: the processor does not stop, a time slice comes sooner or later and
  is carried out. This holds with forced preemption (`-p`), and with the timer
  (`-rs`) as long as the running thread toggles interrupts or executes user
  instructions, since only those advance simulated time. Nothing is assumed of
  the calls threads make.
* `Semaphore`: a woken thread goes on in `P`; that is what `kernel` shows.
* `Monitor`: a thread inside a method goes on; clients call what they like.
* `SynchDisk`: the interrupt comes, the holder goes on, and a free lock is taken
  by some thread. No particular thread is favoured, as `P` allows overtaking.
* `DinningPh`: a signalled philosopher returns from `Wait`, eating ends.
* `PostOffice`: devices interrupt, threads go on, and a thread that finds
  `sendLock` free again and again gets it. The last is strong fairness, which
  overtaking in `P` does not give in general; each client here sends a bounded
  number of messages, so nobody can be overtaken for ever.
* `Console`: the user types, the device polls and finishes, the program goes on.
* `Clock`: the simulated machine goes on, in whatever mode it is.
* `Preemptive`: both processes go on. That Nachos halts is not assumed.
* `FsTest`, `SynchList`, `TemplateStack`, `OpenFiles`: sequential code that was
  begun goes on; for the shared list only that some thread goes on.

## Proofs

* `ComponentProofs`, the semaphore: `TypeOK`, `QueueIsBlocked` and `NoLostWakeup`,
  for any finite set of threads. Their conjunction is inductive: `NoLostWakeup`
  counts the woken threads and needs that the thread `V` takes off the queue was
  asleep. `CountingRefined`: every step is a step of `CountingSemaphore`.
* `MonitorProofs`: `MutualExclusion` and `HolderIsAccurate`, for any threads.
  The strengthening says that threads on the mutex's queue are asleep there and
  are on it once, so `V` never moves a thread that is inside the lock.
  `NoLostSignal` and `WaitersExist` follow from a second invariant (`SInv`),
  inductive relative to the first: a thread whose semaphore has not been
  signalled is known to the wait queue or to one signaller, and to one of them
  only; the exclusion of the lock makes the signaller unique. `MesaRefined`:
  every step is a step of `MesaMonitor` or leaves it alone, where a waiter counts
  as waiting from the moment it is on the queue and as entering once it is
  signalled, wherever it then is in `Wait`.
* `KernelProofs`: `ThreadsInOnePlace`, `ReapedAfterFinish` and
  `HaltsOnlyWhenStuck`, for any threads and semaphores. The invariant says that
  each list holds exactly the threads whose status (and place) says so, once each
  (`Lists`), and where the running, the finished and the deleted threads are
  (`Places`). Halting needs in addition that every unit of a semaphore with
  sleepers has a woken thread that will test it (`UnitsAreClaimed`): when nobody
  is ready there is none, so the sleepers' semaphores have no units.
  `SemaphoreRefined`: for each semaphore every step of the kernel is a step of
  `Semaphore` or leaves it alone, so what is proved of `Semaphore` holds of
  semaphores on the real scheduler.
* `MonitorClientProofs`, the philosophers: `NeighboursExclude`,
  `PickupReturnsEating` and `WaitsForNeighbour`. The invariant ties `state` to the place of each philosopher, no two neighbours
  eat (`EatersApart`), and a hungry one has an eating neighbour
  (`HungryIsBlocked`); the last is what a `putdown` that tests both sides keeps.
* `MonitorClientProofs`, the shared list: `OnceInOrder`, `ApplySeesOneList` and
  `NoLostWakeUp`, for any finite set of threads and any calls they make; these are
  the part shared list of `DeliveredOnceInOrder`, beyond the four threads of the
  run. `ListInv` numbers the items through `removed` and `list`, and says that who
  is inside holds the lock and that what `Apply` has collected is the beginning of
  the list. `NoLostWakeUp` needs in addition (`WakeInv`) that each thread on the
  condition's queue is there once and is not also among the woken, so that a signal
  turns one sleeper into one more thread that counts.
* `UserProofs`: `JoinIsHonest`, for any threads, any number of `Exec`s and time
  slices anywhere. The invariant has three parts. `Scheduled`: the ready list holds
  the threads whose status is `READY`, once each, and a thread's place allows its
  status; a thread other than the running one whose status is `RUNNING` has called
  `Exit`. `Recorded`: `ejecutables` has one entry per `Exec`, and `archivoAE` is
  its last index. `JoinedNow`: the semaphore of an entry is that of a thread asleep
  in `Join` for that very entry; an entry whose program has not finished names the
  thread that runs it, and that thread is at its address; the thread that joined
  last and in time sleeps only while its program runs, or for ever if its
  executable could not be opened. The second of these is why reused addresses do no
  harm: an old entry with the same address belongs to a finished program, and when
  the new thread at that address exits it wakes only who joined too late.
* `FileSystemLemmas`, `FileSystemProofs`: `DiskConsistent`, `CrashSparesOthers` and
  `ImplementsFileStore`, for any names, sizes, number of sectors and of directory
  entries, wherever the boundary of the directory's sectors falls. Between
  operations bitmap, directory and headers agree (`Agree`). That includes
  `StaleIsLater`: an unused entry keeps its name, and a listed file with that name
  comes before it, since `Add` takes the first free entry; so `Find` does not meet
  the old name in an entry of which only the first half is written. Within an operation they do not agree, so the invariant `Phase` says for every place of the caller how the disk
  differs from the disk before and from the one after the operation: whether the
  header, the first or the second sector of the directory, and the map have been
  written. It also needs that the caller's copies are those of the disk it read
  (which a second caller would break) and that an open file is still listed
  (which `Remove` of an open file would break). A crash leaves what some phase
  allows, and each such disk lists every file but the one being created or
  removed with its header, and marks its sectors. The store of named files is
  read off a disk by looking names up (`Stored`); in one write of `Create` or
  `Remove` it gains or loses the name, in all others it stays.
  Hypotheses of the three theorems: one caller (`Threads = {t}`) and no removal
  of open files (`~RemoveOpen`); with two callers, or with a removed open file,
  they do not hold (Disagreements).
* `ComponentProofs`, the synchronous disk: `OneRequestAtATime`, `CompletionIsMine`
  and `ReadIsCurrent`, for any threads, sectors and data. The strengthening ties
  the holder of the lock to its place and says that exactly one of interrupt and
  completion exists while it waits.
* `ComponentProofs`, the table of `UserSemaphores`: `TableStaysConsistent` and
  `DestroyedIsLeftAlone`, for any threads and any size of the table, on all
  calls, the ones that find it full included. `FindSlotIsFree` gives what the
  scan of the bit map returns.
* `ComponentProofs`, `TemplateStack`: `StackIsLifo`, the refinement of `LifoStack`
  for any size and type range; what lies above `top` is never looked at.
* `ComponentProofs`, `OpenFiles`: `OpenIdsAreMarked` (the bit map of a table marks
  exactly the ids that are open, of a full table too) and `ConsoleIsExclusive` (one
  thread at a time is between `P` and `V` of `Console`, on every path through `Read`
  and `Write`), for any finite set of threads, any files and any size of the table.
  The two are inductive together with the types; the array that the code has lost
  is any array.
* `PreemptiveProofs`: `RegistersSurvive`, that is `FoundAsLeft` and `NotReentered`, for any threads, time
  slices and depth of nesting. The invariant follows a computed value through
  the calls on a stack: as long as every call so far is before its push or
  after its pop the register holds it (`Carries`, `InRegister`), and from the
  push to the return it is in the frame (`Saved`). That needs where a thread can
  be inside and outside a call (`Base`), that a thread which does not run is
  where `Switch` left it, once on the ready list (`Others`), and that
  `inContextSwitch` tells where the running thread is (`Marked`).

Assumptions: `NULL` is not a thread (nor data), `Null` is not the address of a
thread and `NoFile` is not a file, there is a sector, the threads of a semaphore, of
a shared list, of the table of open files and of the kernel are finitely many, the
semaphores are not strings that name places (`Place` in `Kernel`), initial values
are natural numbers, exit statuses are integers, the first thread is a thread, sizes
of tables and of files are natural numbers, a table of open files has room for the
three ids of the console, the stack has room for an element, the disk
has more sectors than `Format` uses, the boundary between the directory's sectors
lies in an entry. `SemCreate` passes an initial value that a user program chooses,
so a natural initial value is an assumption about the caller; `UserSemaphores`
assumes an integer only. The bounds of the models (`MaxValue`, `MaxSemaphores`,
`MaxDepth`, `MaxExec`) are arbitrary in the proofs.

A module that is proved through an instance (`UserSemaphores`, `TemplateStack`,
`OpenFiles`, `SynchList`) states its assumption as an operator, and `MCUserProg` and
`MCDevices` assert it of the constants of their instances (`InstancesAreLegal`).

What `Find` returns
(the least clear bit) needs an induction over the natural numbers, which is taken
as the existence of a least element (`LeastElement`, `LeastExists`, from the library's theorems
on well-founded relations).

Only model-checked: everything about liveness, so also the liveness parts of
`ImplementsCounting`, `ImplementsSemaphore` and `ImplementsMesa`, because the
prover has no fairness; `List` and the object file converters, which walk chains
and sequences of any length, an induction over data that it cannot do; the
instructions and the two interpreters, whose bitwise operators have no theory in
it; and paging, address spaces, mail, simulated time, console and disk latency,
whose properties are checked on the instances above and not proved.

## Disagreements

Three are shown by runs: `semaphore_hand_over`, `semaphore_destroy` and
`kernel_reap`. The following were met while translating the code; no run
exhibits them, and where a property would fail because of one, the instance
excludes it (Restrictions) or the property says less. Locations are the code,
then what contradicts it.

* `userprog/exception.cc:158`: Nachos_Exec returns the global archivoAE, read
  after newT->Fork has enabled interrupts; an Exec of another thread in between
  has advanced it. userprog/syscall.h:61 says of Exec: "Run the executable,
  stored in the Nachos file "name", and return the" "address space identifier".
* `userprog/exception.cc:171`: Nachos_Join always sleeps on a new semaphore that
  only the program's Exit signals, so joining a program that has already exited
  never returns. userprog/syscall.h:66 says: "Only return once the the user
  program "id" has finished."
* `userprog/exception.cc:121`: NachosExecThread returns without signalling the
  entry's semaphore when the executable cannot be opened, so a Join of its id
  sleeps forever. userprog/syscall.h:66 says: "Only return once the the user
  program "id" has finished."
* `userprog/exception.cc:172`: Nachos_Join writes the constant 1 to register 2
  and Nachos_Exit does not read the status argument. userprog/syscall.h:67 says
  of Join: "Return the exit status."
* `userprog/exception.cc:111`: Nachos_Exit calls scheduler->Run(next) while its
  own status is still RUNNING. threads/scheduler.cc:82 says of Run: "we assume
  the state of the previously running thread has already been changed from
  running to blocked or ready".
* `userprog/addrspace.cc:304`: MoveraMemoria takes a page as initialized data
  when vpn < numPages2, the size of that segment, instead of numPages1 +
  numPages2, so data pages behind the code are never read from the executable.
  addrspace.cc:52 says: "Load the program from a file "executable"" and
  bin/noff.h:21 "initialized data segment".
* `userprog/addrspace.cc:360`: MoveraMemoria maps an uninitialized page to the
  frame of a victim without clearing it. bin/noff.h:22 says of the uninitialized
  data segment: "should be zero'ed before use".
* `userprog/addrspace.cc:262`: In the vm build RestoreState does nothing and
  SaveState leaves the TLB entries valid, so the next thread's accesses hit the
  translations of the previous space. userprog/addrspace.cc:255 says of
  RestoreState: "On a context switch, restore the machine state so that this
  address space can run."
* `userprog/addrspace.cc:247`: SaveState, which Scheduler::Run calls for a thread
  with a space (threads/scheduler.cc:96), reads machine->tlb; the constructor of
  Machine sets it to NULL unless USE_TLB is defined (machine/machine.cc:72), so
  in the userprog build the first switch away from a user program stops Nachos.
  userprog/addrspace.cc:233 says of SaveState: "For now, nothing!"
* `userprog/exception.cc:125`: NachosExecThread makes the space of the program
  without the file name that StartProcess passes; in the vm build MoveraMemoria
  opens the executable by that name (addrspace.cc:275) and calls ReadAt through
  the null result. userprog/addrspace.cc:52 says: "Load the program from a file
  "executable"".
* `userprog/addrspace.cc:142`: The loop over the initialized data starts at the
  page index divRoundUp(code.size, numPages) and runs to
  divRoundUp(initData.size, numPages), so data pages are left unfilled or filled
  from the wrong offset. userprog/addrspace.cc:122 says: "then, copy in the code
  and data segments into memory".
* `userprog/addrspace.cc:103`: memoryMap->Find() returns -1 when the frames run
  out and the constructor stores it as a valid translation.
  machine/translate.cc:243 says: "if the pageFrame is too big, there is
  something really wrong!"
* `filesys/filehdr.cc:65`: Of two threads in Remove of the same name, the second
  can look the name up before the first clears the bitmap and reach Deallocate
  after it, so the ASSERT stops Nachos; filesys.cc:33 lists the missing
  synchronization as a restriction. filesys/filehdr.cc:65 asserts of every
  block: "ought to be marked!"
* `filesys/filesys.cc:282`: Remove frees the sectors of a file that is open; the
  next Create gets them and writes through the old OpenFile land in the new
  file. filesys/filesys.h:82 says of Remove: "Delete a file (UNIX unlink)".
* `filesys/filehdr.cc:50`: Allocate checks the free space only and stores
  numSectors block numbers into dataSectors[NumDirect]; a larger file is
  accepted and overruns the header. filesys/filehdr.h:31 says the header layout
  "limits the maximum file length to just under 4K bytes".
* `filesys/openfile.cc:169`: WriteAt reads the partial sectors, then writes them
  back in a later disk request; a write by another thread to the other part of
  the sector in between is undone. filesys/openfile.cc:101 says the sectors are
  first read "so that we don't overwrite the unmodified portion".
* `filesys/fstest.cc:124`: FileWrite creates its file with size 0; files do not
  grow, so the first Write returns 0 and the test gives up.
  filesys/fstest.cc:101 says: "Stress the Nachos file system by creating a large
  file, writing it out a bit at a time".
* `machine/network.cc:113`: Send drops a packet when Random() % 100 >=
  chanceToWork * 100, so the number given is the chance that a packet gets
  through. machine/network.h:50 says: "This number, between 0 and 1, is the
  chance that the network will lose a packet."
* `userprog/semTabla.cc:21`: Close unregisters only when usage is 0, and no
  constructor or caller sets usage (addThread and delThread are never called for
  this table), so SemDestroy may return -1 and keep the id.
  userprog/semTabla.h:14 says of Close: "Unregister the file handle";
  userprog/syscall.h:137 says: "SemDestroy destroys a semaphore identified by
  id".
* `userprog/semTabla.cc:15`: Create uses the result of Find without testing it:
  when all ids are taken it stores at index -1 and returns -1, which a later
  SemSignal or SemWait hands to BitMap::Test. userprog/bitmap.cc:77 asserts:
  "ASSERT(which >= 0 && which < numBits);" and userprog/bitmap.h:45 says of
  Find: "If no bits are clear, return -1."
* `userprog/exception.cc:378`: SemDestroy only clears the id; the Semaphore
  object lives on with its queue, and a thread asleep in it can be named by no
  later SemSignal. userprog/syscall.h:140 says: "SemSignal signals a semaphore,
  awakening some other thread if necessary".
* `userprog/nachostabla.cc:8`: The constructor points openFiles at a local
  array, which no longer exists once it returns, so an entry read later is
  whatever the stack holds. userprog/syscall.h:97 says of Open: 'return an
  "OpenFileId" that can be used to read and write to the file'.
* `userprog/exception.cc:210`: Open registers the result of open(2) without
  testing it, so the id of a file that could not be opened stands for the handle
  -1. userprog/syscall.h:97 says: 'return an "OpenFileId" that can be used to
  read and write to the file'.
* `userprog/exception.cc:347`: The child gets the new table its Thread
  constructor makes; only usage of the parent's table is counted up.
  userprog/exception.cc:339 says: "We need to share the Open File Table
  structure with this new child".
* `userprog/exception.cc:308`: Close closes the UNIX handle before the table
  refuses ids up to 2, so Close(0) closes the simulator's standard input for
  all. userprog/syscall.h:84 says: "when an address space starts up, it has two
  open files, representing keyboard input and display output".
* `userprog/exception.cc:205`: The result of ReadMem is not tested. When it
  raises a page fault the handler loads the page and ReadMem returns false
  without a value, so c keeps its old value and the byte is skipped.
  userprog/syscall.h:97 says: 'Open the Nachos file "name"'.
* `userprog/exception.cc:247`: The result of WriteMem is not tested, so a byte
  that meets a TLB miss is not stored, yet it is counted in what Read returns.
  userprog/syscall.h:105 says: 'Read "size" bytes from the open file into
  "buffer"'.
* `machine/console.cc:97`: The buffer is taken for empty when incoming is EOF, a
  char of value -1, which is also what a typed byte 255 becomes; the next poll
  then overwrites it. machine/console.cc:81 says: "Only read it in if there is
  buffer space for it (if the previous character has been grabbed out of the
  buffer by the Nachos kernel)."
* `machine/mipssim.cc:376`: OP_OR stores registers[rs] | registers[rs]: the
  second operand is never read, although the opcode table prints it with three
  registers (machine/mipssim.h:202, "OR r%d,r%d,r%d" of RD, RS, RT).
  machine/machine.h:96 says: "User programs shouldn't be able to tell that they
  are running on our simulator or on the real hardware".
* `machine/mipssim.cc:447`: OP_SRL (and OP_SRLV) shifts the int tmp, so the sign
  comes in from the left exactly as in OP_SRA; a logical shift brings in zeros,
  as bin/execute.c:109 does with (unsigned). machine/machine.h:96 says: "User
  programs shouldn't be able to tell that they are running on our simulator or
  on the real hardware".
* `bin/execute.c:454`: ilog2 starts from l = 1 and returns the length in bits: 2
  for 2, 3 for 4, 4 for 8. The table above it, bin/execute.c:437, says "2 -> 1",
  and "4 -> 2", "8 -> 3" below.
* `bin/coff2noff.c:115`: After the open of the output the code tests fdIn again
  instead of fdOut, so a failed open is noticed only at the first write, as is
  the case at bin/coff2flat.c:77. The comments at bin/coff2noff.c:113 "open the
  NOFF file (output)" and the perror of argv[2] name the output.
* `bin/coff2noff.c:204`: The code rejects the second uninitialised section when
  it starts where the first ends (==) and merges it otherwise; the comment at
  bin/coff2noff.c:200 says "need to check if we have both .bss and .sbss -- make
  sure they are contiguous". The code accepts two sections with a gap, and the
  segment then misses bytes of the second.
* `bin/coff2flat.c:114`: The code writes each section at the current position of
  the output and never seeks to s_paddr; bin/coff2flat.c:9 says "the various
  pieces of the object code are loaded at the appropriate offset in the flat
  file". A section after a gap is at a lower offset than its address.
* `threads/preemptive.cc:141`: ContextSwitch pushes the sixteen general
  registers and not the flags register, which its own code changes; the comment
  at threads/preemptive.cc:135 says "prevent register loss: save all registers".
  A thread interrupted between setting the flags and using them loses them.

## Not modelled

* The disassembler and the driver of the interpreter (`bin/disasm.c`, `opstrings.c`,
  `d.c`, `main.c`, `out.c`, `system.c`): they print, read arguments and pass UNIX
  calls on; they keep no state of their own.
* Output of traces and `ilog2` in `bin/execute.c`; nothing calls the latter.
* `machine/sysdep.cc`, `stats.cc`, `threads/utility.cc`: wrappers of UNIX calls,
  counters and output.
* The interactive debugger, option parsing, `DumpState`, `Print` and `List`
  methods: input and output without effect on the rest.
* Stack overflow checks of kernel threads and the assembly of `switch.s` below
  the level of "the registers and the stack are exchanged".
