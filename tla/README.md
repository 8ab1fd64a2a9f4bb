# Liberation, specified in TLA+

Liberation is an x86-64 operating system in C. UEFI programs load a kernel; the
kernel starts a memory-manager service, builds its own virtual memory, and then
hands the processor to a preemptive scheduler that owns it for good. These
modules model the parts of the system whose behaviour depends on interleaving,
ordering, failure or exhaustion, model-check them with TLC on small instances,
and prove the central results for every instance with TLAPS.

Paths below are relative to `src/Source/Src/Arch/X64/` unless they start with `src/`.

## 1. The system

| Component | State it keeps | Operations | What is hard | What makes it correct |
|---|---|---|---|---|
| Scheduler policy (`Kernel/C/SchedulerPolicy.c`) | none of its own; reads the task table | wake pass, effective priority, selection | ticks land inside the selection scan | the choice is dispatchable and fair; wake preference never excludes everyone |
| Scheduler dispatch (`Kernel/C/SchedulerDispatchSections`, `Kernel/Asm/SchedulerContextSwitch.S`) | current task, `InScheduler`, `ReschedulePending`, saved contexts, quanta | the loop of `LosKernelSchedulerEnter`, tick, preempt, yield, sleep, terminate, user trap | interrupts enabled nearly everywhere, including around the switch | contexts survive; nobody RUNNING but the current task; nobody starves |
| Process and task lifecycle (`Kernel/C/SchedulerLifecycleSections` 01, 03-05, 07, 10) | process and task tables, counts, stack pools, address-space bindings | create, bind, publish, abandon, terminate, reap | several critical sections per creation, the loop's passes in between; the memory manager may refuse | counts and resources agree with the tables; nothing leaks, nothing is freed in use |
| First user task (`Kernel/C/SchedulerLifecycleSections` 02, 06-10, `SchedulerUserImage.c`) | a ladder of stages from PREPARED to COMPLETE on state, process and task | one function per stage, guard, trap | re-checks after unlocking | it runs only when everything is in place |
| Interrupts (`Interrupts/C`) | tick count | dispatch by vector | runs between any two instructions | ticks and traps reach the scheduler |
| Kernel-side memory-manager bootstrap (`Kernel/C/MemoryManagerBootstrap*`) | launch stage and flags, endpoint objects, mailboxes, request ids | launch, staging, first mapping, send and await | a request id taken with interrupts enabled, an exchange with a bounded number of steps | mailboxes empty between calls; each call answered once, to its caller |
| Memory-manager service: messages (`Services/MemoryManager/C/MemoryManager{Lifecycle,Dispatch,Policy}*`) | service state, its own address-space and task objects | attach, poll, authorize, complete | what it checks at the attach was written by many functions of the kernel | it attaches; nothing is carried out twice |
| Memory-manager service: frames | baseline table, allocation list, database, totals, descriptors | claim, reserve, tracked claim, free, query | fixed arrays that fill up in the middle of an update | frames owned once; tables ordered, merged, in agreement |
| Memory-manager service: address spaces and heap | objects with regions, image and stack; page tables; slabs | create, stage an image, allocate a stack, map, unmap, protect, destroy | frames or descriptors run out half-way | frames accounted for; image, stack and regions of a space in agreement, whatever clients map there |
| Kernel virtual memory (`Memory/C`) | early frame allocator, page tables, ownership policy | claim, map, unmap, query | region splitting at table limits | no frame handed out twice |
| Capability policy (`Monitor/C/MonitorCapabilitiesSections`, `Kernel/C/CapabilitiesBootstrap.c`) | profile blocks, assignments, boot events | read the file of the ESP line by line | tables that fill up, comments, faults in the middle | all of the file or none of it |
| Capabilities service (`Services/Capabilities/C`) | records, grants, event ledger; endpoints, session, two mailboxes | import, register, grant, revoke, suspend, restore, check; connect, bind, submit, serve | tables at their limit; sessions and bindings that outlive each other | the ledger explains the grants; answers follow from the grants |
| Shell service and userland (`Services/Shell/C`, `src/Source/Src/Userland`) | session, login state, completion record | console loop, commands, calls of images, login | many layers, each with its own translation of statuses | no command before login; right users get in |
| Boot loader, monitor's kernel loading, installer | firmware handles | run once, in sequence | nothing concurrent | not modelled |
| Kernel main, screen, diagnostics | screen cursor and colours | initialisation, text output | nothing concurrent | not modelled |

How they interact: the timer interrupt calls the scheduler, which preempts
threads by switching stacks. The lifecycle thread creates processes, and asks
the memory manager for their address spaces; the dispatch loop reaps what
terminated and asks for the address spaces to be destroyed. The memory manager
has no thread of its own: a caller disables interrupts, posts a request, and
switches to the root and the stack of the service, which handles one request and
returns. The monitor hands the capability policy to the kernel, the kernel to
the init command, and that to the capabilities manager, which runs inside its
callers' waiting. Init then starts the shell, which reads the console for good.

## 2. Modules

| Module | Models | Composes |
|---|---|---|
| `SchedulerPolicy` | the task table; wake pass, effective priority, selection as operators | |
| `SelectionScan` | the selection loop, one iteration per step, with ticks in between | `SchedulerPolicy` |
| `ThreadService` | what the scheduler promises its threads (abstract) | |
| `SchedulerDispatch` | loop, tick, preemption, thread calls, life of the user task; refines `ThreadService` | `SchedulerPolicy` |
| `SchedulerLiveness` | the same with a clock that is slow compared with the code, and fairness | `SchedulerDispatch` |
| `SchedulerLifecycle` | processes, tasks, stacks and address spaces over their lives | |
| `SchedulerDispatchProofs`, `SelectionScanProofs`, `SchedulerLifecycleProofs` | theorems | the module in the name |
| `FrameTable` | the ordered, merged tables of frame ranges: cut, insert, remove, search, as operators | |
| `FrameLedger` | what the memory manager promises about frames (abstract) | |
| `FrameDatabase` | baseline, allocation list, rebuilt database, totals and descriptors under every frame request; refines `FrameLedger` | `FrameTable` |
| `FoldProofs` | lemmas about folds over sequences, sets and ranges, which the proofs about frames, address spaces and capabilities use | |
| `FrameDatabaseProofs` | theorems: first about the operators (appending and merging; rewriting, removing, inserting, searching), then about the allocator | `FrameDatabase` |
| `Mailbox` | the ring of slots in a shared page, as operators | |
| `RequestService` | what the channel promises its callers (abstract) | |
| `MemoryManagerChannel` | launch of the service, endpoints, request ids, the exchange, the service's side; refines `RequestService` | `Mailbox` |
| `MemoryManagerChannelProofs` | theorems | `MemoryManagerChannel` |
| `ServiceHeap` | slabs and larger allocations over frames, as operators | |
| `AddressSpaces` | objects, regions, page tables, images and stacks under every request | `ServiceHeap` |
| `AddressSpacesProofs` | theorems: first about the heap, then about mapping, placing and destroying | `AddressSpaces` |
| `ProfileTables` | search in profile blocks and assignments, as operators | |
| `CapabilityPolicy` | the monitor's reader of the policy file, the boot context, init's launch authority | `ProfileTables` |
| `CapabilityRegistry` | records, grants, ledger, import, self-test, checks, as operators | `ProfileTables` |
| `ShellSession` | the shell's bring-up, commands, image calls and login, as operators | |
| `CapabilitiesService` | boot, launch, mutations, sessions, bindings, access requests, console lines | `CapabilityPolicy`, `CapabilityRegistry`, `ShellSession`, `Mailbox` |
| `CapabilitiesServiceProofs` | theorems | `CapabilitiesService` |
| `MC...` | constants for TLC | the module in the name |

### How state and actions correspond to the code

* **Time.** `NextWakeTick` and `ReadySinceTick` are absolute ticks in the code.
  The models keep them relative to `TickCount` (`sleepLeft`, `waited`), so that
  the clock needs no bound. `waited` is capped at `WaitCap`; the assumption
  `WaitCap >= AgingInterval * MaxAgingBoost` makes the cap invisible to the
  effective priority, and where the code would break a tie by a longer wait
  than the cap shows, the model lets either task be chosen.
* **The loop** is `Clean`, `Select(t)`, `LeaveLoop`, `SwitchToThread`,
  `ReturnToLoop`. It owns `cpu = Scheduler`. `LosKernelSchedulerSwitchContext`
  is a step of its own, because what may happen just before and just after it is
  the difficult part of this code.
* **A thread call** (`Yield`, `Sleep`, `Terminate`) is two steps: the assignments
  to its task entry, and `LeaveThread`, the switch. The `phase` of the task
  says where between them it is.
* **The timer interrupt** is one step, since interrupts are disabled in it:
  the wake pass, the charge to the running task, and the preemption.
* **Windows.** Interrupts are enabled in the loop and in threads. A tick in most
  places is harmless. In three it is not, and the constant `Windows` says in which
  of them ticks may land: `"dispatch"` between `InScheduler = 0` and the new
  stack, `"return"` between the old stack and `InScheduler = 1`, `"switch"`
  between the assignments of a thread call and its switch. The code has all
  three open, and so have the run `SchedulerDispatch` and the theorems, which hold
  for any set of them. Two variables without a counterpart in the code say what such a tick did:
  `struck` is the tasks whose context or state it has hit, and `ThreadService` keeps the same
  threads as `forsaken` and promises them nothing more.
* **A saved context** is either in its task's own stack or, after a tick in a
  window, in the scheduler's (`context`). Loading the latter leads nowhere
  (`cpu = Lost`), which `ThreadService` shows as the wreck of the machine.
* **Lifecycle.** `creatorPc` is the next critical section of the lifecycle
  thread, so every place where it can be preempted is a state of the model.
  Requests to the memory manager are single steps that succeed or fail.
  `process`, `task` and the counts are the tables of the code.
* **Frames.** Addresses and lengths are pages; what the code does to offsets within
  a page (align down, align up) is done to the inputs. `source` is the fields
  `Source` and `Attributes`, which every rewrite copies together. The service
  takes one request at a time from its mailbox, so a handler is one action,
  with the insertion or removal, the rebuild and its failure inside it. A
  rebuild that fails leaves the list changed, the database rewritten as far as it
  came, and the reports as they were. `LosMemoryManagerHardFail` is `halted`.
  `grants` has no counterpart in the code: it records what the service answered
  with success and has not taken back, and the properties compare the tables with
  it. `BuildMemoryView` reserves the assets of the launch block and the pages of
  the active page tables; the list of them is the constant `Overlays`. Region
  tables have no empty or wrapping regions.
* **Channel.** `pc[c]` is where a caller stands. A request id is taken in three steps
  (`BeginCall`, `LoadNextId`, `StoreNextId`), since interrupts are enabled there and
  the loop, which calls too, can come in between; from `EnqueueRequest` to `Finish`
  they are disabled and nobody else runs (`exchange`). Addresses are the names of
  what they lead to, so that a check of the service compares names. The stages and
  flags of `State->Info` are kept where something reads them. What an operation does
  to frames and spaces is left to the other modules: here it is `"success"`,
  `"failure"`, or a stop. The kernel's own copies of the handlers are the step
  `LocalReplies`.
* **Address spaces.** A handler is one action. `store` is the frames and the heap,
  `spaces` the objects by address. A table is known by its level and the part of the
  address that leads to it. Operators take a record of store, space and success and
  hand on what they reached, so that a failure half-way leaves what the code leaves.
  A page request carries the client's physical page, which the service maps as it comes:
  it may be any, free or another space's. An entry keeps as much of it as its address field holds
  (`EntryFrames`), and a range past the last physical address stops the service (`PhysicalEnd`).
* **Capabilities.** `file` is the policy as a sequence of lines, each already a word of
  the grammar or `"malformed"`; `line` is the reader's cursor, and a comment moves
  it nowhere, as in the code. `FileAuthorises` and `WellFormed` say what a file means, without
  the loader's tables and without its treatment of comments. Names are names; ids that the code derives from names
  are numbers with the width the code keeps (`IdSpan` for 32 of 64 bits). Calls are
  sequential: everything runs in one thread, and a caller that waits serves the
  mailbox itself (`Spin`). Session keys are functions of the session, so tags are not
  kept. `served` records who got a request accepted in the session.
* **Shell.** A line at the console is one action: read, build the command, execute. The
  layers of an image call are one operator each, because each translates statuses.

## 3. Runs

| Run | Instance | Shows |
|---|---|---|
| `SelectionScan` | 4 slots: idle, two kernel threads, one user task; every table with waits 0, 1, 4 and sleeps 1, 2; 2 ticks in the scan | an undisturbed scan follows the policy; a disturbed one honours the wake preference and inverts priorities only by what the ticks moved |
| `SchedulerDispatch` | 4 slots: idle, lifecycle thread, ephemeral worker, user task; all windows open, as in the code | who executes is current, preemption is prompt, selection finds a task, only a task that a tick struck in a window is stranded, sleepers wake on time, and the dispatcher implements `ThreadService` |
| `ContextWindows` | 4 slots, the windows on either side of the switch open | violated: a tick there destroys a saved context |
| `DispatchLiveness` | 4 slots, one of which never calls the scheduler; windows closed | the heartbeat continues, nobody starves |
| `SchedulerLifecycle` | 3 tasks, 3 processes, 3 address spaces | counts, spaces and stacks are accounted for in every interleaving of creation, failure, running and reaping; transient processes are reaped and half-made ones resolved, also when task slots run out |
| `FrameDatabase` | five region tables of at most 8 pages with holes, firmware and device ranges, one that overlaps and one that misses an asset; claims with windows, alignments, exact addresses, wrapping and oversized requests; arrays of 7 | tables, answers and reports follow the grants through every sequence of claims and frees; the allocator implements `FrameLedger` |
| `MergedGrantFree` | the same, arrays of 12 | violated: freeing a granted range stops the service |
| `MemoryManagerChannel` | boot thread, loop, one worker; 2 slots, 4 ids; an operation of each kind | mailboxes are drained between exchanges, the service accepts what was staged for it, no request finds a full mailbox or a service that cannot step, the channel implements `RequestService`, every call returns |
| `AddressSpaces` | 10 frames, 2 spaces, 2 regions each, two levels of tables, six images, 2 stacks, 4 page requests with the client's frame right, foreign, outside the memory and past its end | frames stay accounted for when they run out anywhere, regions are the parts and tell their frames whatever is mapped there, repeated requests change nothing, a space can always be destroyed |
| `ImageOverStack` | the same, an image laid out over the default stack | violated: a frame belongs to two spaces |
| `CapabilitiesService` | 17 policy files, 2 clients, 3 mutations, 2 access requests, 2 lines; 2 blocks, 7 grants, 11 events, 5 calls | init launches the manager only from a file read to its end, and then just when that file says so; the ledger is the history of every grant; judged requests are answered from the grants, and a client alone in its session is never taken for a replay |
| `CapabilityPolicy` | the shipped `src/Config/Services/Capabilities.cfg`, the tables of the code | violated: the loader never gets past the first line |

**Deadlock** is not checked where the system may stop: in the frame and address-space runs and
in the channel a hard failure halts the machine; in `SchedulerDispatch` a lost context leaves
the model, like the machine, nowhere to go; histories of `CapabilitiesService` end with their
last call, those with a comment in the policy in the monitor, and that of `CapabilityPolicy` likewise.

**Bounds.** The code has 8 task and 8 process slots, of which it uses five
threads and one transient process. Four slots hold one thread of every kind that the dispatcher
tells apart (idle, creating, short-lived, user); the heartbeat was the fifth in an instance of
1.6 million states that was checked once. Quanta of one and two
ticks, aging intervals of one and two and boosts of one and two reach every
comparison of the policy with a value on each side; larger ones repeat them.
In `SchedulerLifecycle` three processes and three spaces are the kernel's, the user's and
one transient; with three tasks the task table is full while a worker is alive, and
memory-manager requests may fail at any time.

The frame arrays hold 8192 entries in the code, of which `MaxEntries = 7` leaves one
table, the one with most holes, to fill up while the others never do; the constraint
`UntilOneRanOut` ends a history with the first rebuild that runs out, because
after it nothing promises anything (section 4). An address space of 16 pages instead of 2^52 leaves
room for requests that wrap (`desired = 15`), whose byte count overflows (`count = 16`) and
whose count is small only after overflow (`count = 17`). Two or three free entries on either
side of a hole give every case of the search: a run that starts before the
window, at it, or is cut by it, and an aligned start beyond its entry.

Two mailbox slots instead of eight wrap with every second message, and four ids instead of 2^64
wrap within a run; `LOS_MEMORY_MANAGER_MAILBOX_SLOT_COUNT` divides 2^64, so the code's counters
and their remainders agree. Three callers are all kinds: one before everything, one that is
never interrupted, one that is.

Ten frames are two spaces with image and stack but without room for all of both, so frames run out in
each step of each request; objects of half a page put two on a slab page; five
descriptors of larger allocations run out before the frames in some histories and after them
in others. The page requests name frame 3, which a region, the heap or another space may hold; 15, where no
memory is and whose next page no longer fits an entry; 0; and 64, the end of the physical addresses. Two levels below the root with four entries each make a mapping need two, one or no new
tables. A slab page is the only one, so the slab descriptors run out with the third
object; the detour of the heap from an exhausted slab to a larger allocation is not
reached. In the code an object is 1160 bytes on a slab of 2048, a table a page of its own, and
there are 128 slab pages, 256 larger allocations and 32 regions.

The monitor's tables hold 8 blocks, 16 grants in each, and 64 boot events; here 2, 3 and 4, which
keeps their order (events run out before blocks full of grants do) and the fact that the manager's are larger.
Seven grants and eleven events are the imported ones, those of the self-test, and room that five calls can fill.
Five calls are enough for two clients to connect, overtake each other and come back.

**Fairness.** The processor executes the dispatch loop (weak fairness). The PIT
is never stopped, so a tick comes again and again while a thread that never calls
the scheduler has the processor (strong fairness of `LongStayTick`). A thread that
does call gets to its next call each time it has had the processor often
enough (strong fairness, since it is preempted in between); no thread is
assumed fair that the code lets spin. `MaxStayTicks` says that a pass of the loop
and the work between two calls are short compared with a tick of ten
milliseconds. `SchedulerLifecycle` takes from this that every live task is
selected again, and adds that the memory manager does not refuse to destroy an
address space for ever. A user thread that never traps is allowed to keep the
processor, as the code lets it; liveness is stated up to that. In
`MemoryManagerChannel` the steps of an exchange are weakly fair, as nothing can interrupt
them, and a caller's steps before it are strongly fair, as the loop comes back to every worker;
`EveryCallReturns` allows for the machine to have stopped.

## 4. Findings and observations

Findings are runs that TLC refutes.

1. `ContextWindows`: a tick between `SchedulerDispatchSection02.c:526` and the
   load of the new stack makes `PreemptIfNeededFromInterrupt` store the scheduler's
   stack pointer in the new task's context. On the way back, `popfq` in the context
   switch enables interrupts before `InScheduler` is set at `:529`; a tick there
   stores the scheduler's stack pointer in the context of the task that just left.
   (With only `"return"` open TLC shows the second.)
2. `MergedGrantFree`: `InsertDynamicAllocation` merges neighbours with the same usage
   and owner, and `FreeFrames` wants an entry that matches exactly. First fit puts
   consecutive claims side by side, so two claims and the free of one halt the service
   with `freeing-unowned-pages`. `ReserveFrames` and `AllocateFrames` share
   the fate; `FreeTrackedFrames`, which cuts entries, does not.
3. `ImageOverStack`: `AttachStagedImage` first looks whether the range is mapped already and takes
   whatever is, so an image over the stack is answered with success and its frame is one of
   the stack. Destroying the space frees that frame twice, stops at the second time,
   and leaves object and tables; the frame is given to the next space while the first still
   maps it.
4. `CapabilityPolicy`: `LosMonitorLoadCapabilitiesFromEsp` sets its cursor back to the start of the line
   before it asks for the first word, and a comment has none, so the loop meets the same line for ever.
   The shipped policy begins with eleven comments, though `src/Docs/Services/CapabilitiesService.md:24-27` says
   that the monitor parses such a file and the kernel receives it. With the comments taken out the property
   still fails: the ninth block finds a table of eight, and the load ends with `EFI_BUFFER_TOO_SMALL`.

Observations are not runs of their own; each is part of the model.

*Scheduler.* With the third window open, a tick between the assignments of `SleepCurrent` and its
switch preempts a task that is BLOCKED. When it is woken and dispatched it first finishes the old
switch, while it is RUNNING, and nothing ever looks at a RUNNING task that is not current: set
`Windows` of `DispatchLiveness` to `{"switch"}` and `HeartbeatContinues` fails. All three windows
vanish with interrupts disabled from the assignment to the switch.

*Frames.* A claim that fails in the rebuild answers `NO_RESOURCES` and leaves its allocation in the
list. The database shows the range free, the next claim is given it again, and the insertion halts
the service with `overlapping-physical-ranges`.

*Channel.* Two callers can be given the same request id, which does no harm, since mailboxes are
drained between exchanges (`MailboxesDrained`). The model has one view of the mailboxes for everybody: a caller finds
its answer when the service has posted it. The comment at `SchedulerLifecycleSection01.c:80-85` and
`src/Docs/Kernel/Scheduler.md:158` say otherwise of `AllocateFrames`, whose replies a caller can lose once a transient
process root is active. The code does not show how: `CloneCurrentRootPageMap` gives the service's root the
higher half, the mailboxes are reached through the direct map in it, and `InvokeServiceEntry` restores the caller's
root. The scheduler keeps off that path (`SchedulerMayUseMemoryManagerBackedThreadStacks` is 0). So no property
says that the kernel never stops for want of a reply, and `KeepsContract` and `EveryCallReturns` are to be read
with posted answers seen. The capability functions are weak in the service and
not linked into it, so claims, reservations and queries of regions are always refused over the
channel (`CapabilitiesLinked = FALSE`, as built). The two events are never consumed. The flag
`ATTACH_COMPLETE` that the service sets in the launch block is overwritten by the kernel, which
keeps its own. `src/Docs/Kernel/Scheduler.md:102` describes kernel fallbacks that are unreachable,
because `RequestRequiresRealServiceReply` stops the kernel instead.

*Address spaces.* `LosMemoryManagerServiceMapPages` looks whether the virtual range is reserved, never whose frames
it maps: with a page of a region unmapped, any frame, free or another space's, can be mapped there. Except for
the repair of finding 3 nothing that the service does later goes by such a mapping, as the run `AddressSpaces` shows and
the theorems say of places that are apart; but what a space shows of memory is up to its client. `QueryMapping` answers from the regions, so it
names the region's frame whatever is mapped, or when nothing is, although `src/Docs/Memory/MemoryManagerRequestProtocol.md:50` says
that it reports the current mapping state. Repeating a stack request with base 0 is a CONFLICT, because the search starts
behind the stack that is there. Unmapping or protecting a stack that has an image below it stops the
service. The count of released pages leaves out those of image and stack. The kernel sends no map, unmap or protect
request at this commit.

*Capabilities.* Each call without a binding numbers its request 1, so each session judges one of them
and answers the others `REPLAY_DETECTED` though they were never sent before;
`src/Docs/Services/CapabilitiesService.md:107` has sequence numbers reject replayed messages.
`AnswersFollowGrants` therefore promises an answer only to a client that alone has used its session, and
does not count a refusal of anybody else as right. A change whose event finds the ledger full is made and
answered `TABLE_FULL`. Delegated grants do not depend on their parent, and the context handed on to a
successor is that of the boot, so revoked grants return with it. The build of this commit does not
link the init command into anything: launch and callers are the source's public interface.

*Shell.* `LOGIN` and `STRING` have places in the table of installed images whose symbols are weak and
not linked. Reading such an image succeeds with no bytes, the launch fails, and the login adapter of
the shell, which would ask the capabilities manager, is reserved for `UNSUPPORTED`: no login succeeds,
though the shell offers one. No property says that this is right.
If the images were linked, the completion record would still report a success as
`TRANSITION_FAILED` unless the way back from ring 3 had written it.

## 5. Proofs

All theorems hold for every value of the constants that satisfies the named assumptions
of the modules. Each follows from an inductive invariant, the property itself being too weak
to be kept by a step; TLC has checked those invariants on the constants of the
component's run, except for those of the capability manager and of the address spaces, which speak of
sequences and functions that TLC cannot enumerate. The proof of a step has a lemma for each action.

### Dispatch (`SchedulerDispatchProofs`)

Proved for any table, policy constants, sleep lengths, quanta and
set of open windows (`TableAssumption`, `PolicyAssumption`, `DispatchAssumption`):
`TypeCorrect`, `ExecutingThreadIsCurrent`, `PromptPreemption`, `SelectionFindsTask`,
`NobodyElseStranded`, `DispatcherServesThreads`, the refinement of `ThreadService`, and
`SleepersWakeOnTime`, which follows from it. These are all the properties that the run
`SchedulerDispatch` checks.

The invariants are not inductive by themselves. `OwnerInv` says who has the
processor at each place of the loop; `QuantumInv` that a task about to run or
running has time left; `SleepInv` that only blocked kernel tasks have wake times
and these lie ahead; `StationInv` where a user task that is not live stands, and
that the idle task can always run; `BoostInv` that only a live user task has a
pending wake; `IdleInv` that the idle task never gives up the processor of its
own accord. `SelectionNeverEmpty` follows from the last four: if some ready task
has a pending wake it is eligible, and otherwise the idle task is a candidate. `UnbrokenInv` says that every task outside `struck` is whole: not stranded, not half out of
a thread call unless it has the processor, its context in its own stack. A tick in a window breaks
this for the task it strikes and for no other, so the damage is confined, and `NobodyElseStranded`
and the refinement follow from `OpenInv`, the conjunction. That contexts survive altogether is
false (`ContextWindows`) and is not claimed.

`StepServes` maps every step of the dispatcher to a step of `ThreadService` or to
none: a tick in a window to a `Tick` with a victim (`Exposed` says who may be one), and the load of a context
that leads nowhere to `Wreck`. For every other thread the promises stand as if the windows were closed, and `SleepersWakeOnTime` needs to look only at the few actions of the service:
of these only `Tick` ends a sleep.

### The selection scan (`SelectionScanProofs`)

From `TableAssumption`, `PolicyAssumption` and `ScanAssumption`: `ScanHonoursWakePreference`,
`QuietScanSelects` and `ScanInversionIsBounded`.

A scan compares what it reads when it comes by, and a tick may change what it has read. So
`ScanInv` keeps, for each task met that was ready all along, a waiting time it may have been
compared at (`MetNoHigher`: a witness `w` at most `ticks` below what the task has waited now), and
for the best one the time it was compared at (`BestWasMet`). The bound follows, since a task's
effective priority falls short by at most the wake bonus and the aging of those ticks
(`AgingBounded`); in a quiet scan the witness is exact and `QuietOrder` makes the best one the
first of the foremost. `SomeoneAhead` says that as long as nothing was found a candidate is still to come, and
`CursorMeetsTask` and `OffsetsDiffer` that the modulo of the code visits every slot once.

### Lifecycle (`SchedulerLifecycleProofs`)

From `LifecycleAssumption` (a new address space has a root table of its own, so it is never
the kernel's): `LifecycleTypes`, `CountsAlwaysAgree`, `SpacesAlwaysAccountedFor`,
`OneTransientProcessAtATime`, `SpaceFollowsThread`, `StacksAlwaysAccountedFor` and, for steps,
`OnlyUnusedSpacesDie`.

`LifeInv` says what the lifecycle thread may rely on when it comes back from a preemption
between two of its critical sections: the process in the making is the one INITIALIZING process, in the slot it
remembers, and no task has its id (`Making`); a published process owns its root, no root has two owners,
and what is alive is what is owned or about to be installed (`Ownership`); ids of processes in use differ and every
task in use belongs to a READY one (`Identities`), which is why reaping decrements the right
count; a task on the processor runs in its process's space (`OnProcessor`). The counts are cardinalities: each step adds or removes at
most one element, so `Counts` needs only the cardinality of a set with one element more or less. That a new id is always to be had is the
pigeonhole principle (`FreshId`).

The proof shows one thing besides: `NothingUnbound`, no process ever waits for a binding when the loop
comes by, so `LosKernelSchedulerBindPendingProcessAddressSpaces` never finds work.

### The channel (`MemoryManagerChannelProofs`)

From `SlotAssumption` and `ChannelAssumption`, for any mailbox size, id width, step budget, callers and
operations: `ChannelTypes`, `MailboxesStayDrained`, `RequestsAreTaken` and
`ChannelKeepsContract`, the refinement of `RequestService`.

`ChannelInv` says what lies in the two mailboxes at each place of a call (`Contents`): nothing, or one message, which is
the caller's own request or the answer to it. It is kept because interrupts are off for the one
caller inside an exchange (`Places`), and because what the boot thread staged is what the
service checks (`Preparation`, `Progress`). That two callers may hold the same id does not
matter to it: the id is never used to tell messages apart. For the refinement, `executed` counts what
the service carried out for a caller; a call is carried out in the step that takes its request, and the
answer is the one of that step.

### Frames (`FoldProofs`, `FrameDatabaseProofs`)

From `MaxEntriesAssumption`, `FieldsAssumption`, `FourGigabytesAssumption`, `RegionTablesAssumption`,
`OverlaysAssumption` and `RequestsAssumption`, so for every size of the arrays, every region table the boot
loader may hand over, every list of assets and every set of requests: `TablesAlwaysCanonical`,
`DatabaseAlwaysShowsGrants`, `AnswersAlwaysFollowGrants`, `ReportsAlwaysFollowGrants` and `AllocatorKeepsLedger`, the
refinement of `FrameLedger`. These are all the properties that the run `FrameDatabase` checks.

The operators are folds. A fold is unfolded once into a function on sets of positions (`FoldValues`), of
which only the values on prefixes matter; what such a function does at every prefix is shown with
induction stated about a set of numbers (`NatInductionSet`) instead of a predicate. On that rest the lemmas
about the operators, each about any table that is `Tidy` (ordered, disjoint, merged, no empty entry,
within its storage). `Shows(t, p, x)` is what table `t` says of frame `p`:

* `AppendAllTidies`, `FlattenKeepsOrder`: appending with merging keeps a table tidy and says of every frame what
  the items in order said;
* `RewriteRange`, `RemovedRange`, `InsertedEntry`: a rewrite says the new thing of the frames in its range and the old
  one of all others, or leaves what it reached when entries ran out, which is still tidy; a removal and
  an insertion likewise;
* `SearchFindsLowest`: first fit is the lowest fit. After `k` entries the open run starts no later than any range that
  fits and ends where the free frames met so far end (`SoundRun`), also when an aligned start lies past the
  end of its entry;
* `RebuiltTable`: the rebuilt database says of a listed frame what its allocation says, with the source of the
  baseline, and of the others what the baseline says;
* `FreePagesCounted`, `PagesAddUp`: the totals are cardinalities.

Three invariants go with them. `Tables` says that all arrays are tidy, also after an operation that failed
half-way, and that a database in use describes the frames of the baseline. `Explained` holds until a rebuild
runs out of entries: the allocation list says of every frame what the grants say, no frame is granted twice,
and the database is the baseline rewritten by the list. The list is merged, so it does not hold the
grants themselves, and the invariant has to speak of frames. A free names an entry of the list, hence takes back
every grant merged into it and cuts none: `TidySpan` shows that the frames of one grant, which say the same, lie in
one entry. `Reported` says that what is published is what a refresh would publish.

### Address spaces (`FoldProofs`, `AddressSpacesProofs`)

From `HeapAssumption`, `SpacesAssumption` and `SpaceRequestsAssumption`, for any memory, slab classes, depth and
spans of the page tables, images and requests, and *under the hypothesis `PlacesApart`*: `SpacesTyped`,
`SpacesAccounts`, `SpacesTell`, `SpacesRepeat` and `SpacesGiveBack`. These are all the properties that the run
`AddressSpaces` checks.

`PlacesApart` says that the pages at which requests put images and stacks do not overlap, and that images for
the same pages have the same entry point. It is there
because the code needs it: the finding of the run `ImageOverStack` is what happens when an image is laid out over a stack
(`RegionsTellTheFrames` and `DestroyGivesBack` then fail too, and no invariant can say otherwise). It is a statement about
the constants only, the caller's side of the contract; the kernel, which attaches one image and asks
for one stack at a base of its own, keeps it. `MCAddressSpaces` shows a set of requests for which
it holds (`ApartAssumption`). The instance that TLC checks does not satisfy it: there an image and
two stacks do overlap, in ways that the service refuses, so that run goes beyond the theorems.

`SpacesInv` is `AllGood` of the store and the spaces, and has three parts.

* `HeapGood`: each slab page is a page of its class with a list of free blocks that names none twice; the larger
  allocations are single pages, namely the tables and the objects that have a page of their own; counts are cardinalities.
  Each operation of the heap is then described by what it (`ObjectGiven`, `PageRelisted` and the like), and
  the rest of the proof uses only that.
* `SpaceGood`, of each space: its tables are in different frames; a part is there with frames, at one of the
  `Places`, or it is absent and its record is empty; the regions are
  exactly the parts. What is mapped in the range of a part is left open, since a client may have mapped anything. Of every other place, some first pages may be mapped, *never all of them* (`Halfway`). This last conjunct is
  what makes the invariant inductive. A placement that ran out of tables has given its frames back and left
  entries behind; if they covered the range, the repair would take them for the image or the stack, with
  frames that now belong to somebody else. They cannot: the page that failed is not mapped, mapping the range
  again fails at its first page, and unmapping and protecting ask for a reserved region.
* Between spaces: of each usage, the frames claimed in the store are the disjoint union of those of the spaces.

A request works on one space; `Held(s, sp, rest)` says what it may assume of the others, and `Settled` what it
leaves. Mapping is a fold over pages whose steps are folds over the levels (`Walks`, `MappedPart`); destroying is a fold over the
tables, for which `OrderExists` shows that the order in which the code meets them exists (a finite set of tables has
one that no other precedes) and the sum of answered pages and tables left is constant.

### Capabilities (`CapabilitiesServiceProofs`)

From `PolicyAssumption`, `FilesAssumption`, `RegistryAssumption`, `TablesAssumption` (the monitor's table of
events, 64 entries, is no larger than any of the manager's, 128 and 256), `SlotAssumption`, `ImageAssumption`,
`LoginAssumption` (LOGIN is not linked), `ClientsAssumption`, `CallsAssumption` and `GrantRequestsAssumption`, so for
any policy files, clients, requests and sizes: `CapabilitiesTyped`, `CapabilitiesLedger`, `CapabilitiesAnswer` and
`CapabilitiesLaunch`. These are all the properties that the run `CapabilitiesService` checks.

`CapabilitiesInv` has four parts. `PolicyInv`: what the loader has read is well-formed, and the grants of a block
carry the ids of that block, which makes all ids differ. `RegistryInv`: `Ledger` holds (grants in the order of
their ids, below the next id; every event lawful for its grant; the last event tells the grant's state as
long as the ledger has room), and a manager that is online `Descends` from an import of its context (the
ledger begins with the events of that import, and none after them is an import). The second part is needed
because a successor imports the context once more, and the two imports must agree whatever has become of the
grants. `TransportInv`: between calls both mailboxes are empty; during a call they hold its one request; the binding
of a caller that has been accepted is of the active session. `AnswerInv` is what an answer may say as long as nobody has asked
for anything else.

The import is a fold over the grants of all blocks (`FlattenSeq`); `ImportRuns` and `FlattenRuns` unfold both into
functions on numbers, and `ImportedSoFar` is kept by each grant: as long as the tables have room (`Fits`)
the tables are the grants themselves.

For the launch, `PolicyRead` says at each line what the tables have to do with the lines before it. An
enumeration (`Enumerates`) lists the lines that made the entries of a table, in order: one for the blocks,
one for the assignments, one for the grants of each block and one for the grants of all. A block
is `Closed` when a later line has ended it, and only the last one may be open. From the enumerations follow the sizes
of the tables (`EnumerateCounts`) and which entry is the first that fits (`EnumerateFirst`). At the end of the file
`WholeFileWellFormed` says that every line had its place, and `WholeFileAuthorises` equates what init asks of the
tables with what the file says. That a well-formed file is read to its end is not claimed: it is what the run
`CapabilityPolicy` refutes.

## 6. Only model-checked, and why

* Properties under fairness (`SchedulerLiveness`): liveness and ENABLED are out of the prover's reach.
* The address spaces where requests overlap: the run `AddressSpaces` checks such an instance, the theorems exclude it.
* The conditions of runs that are expected to fail.

## 7. Not modelled

* Accounting that nothing reads (latencies, run and tick totals), traces and messages, the words of
  the user frame, hardware set-up.
* Staging of the first user image: the sequence of requests it makes is covered by the requests of
  `AddressSpaces`, its stages are not.
* `UserExecutionRuntime.c` and the way into ring 3: no linked caller reaches it.
* Kernel virtual memory: the early frame allocator and the kernel's page tables.
* The kernel's copies of the memory-manager handlers: with posted answers seen by their callers, no call
  reaches them.
* The page tables through which a caller of the memory manager sees the mailboxes (section 4, Channel).
* The mailbox interface of the shell and the loop of the separate image `CAPSMGR.ELF`: nobody calls
  them. Queries and enumeration of the capabilities manager read only.
* What the kernel itself builds and init checks (endpoints, the request's image, the channel policy)
  always passes and is left out.
* Boot loader, the monitor's loading of the kernel, installer: run once, in sequence.
* The memory-manager stacks of `AllocateKernelThreadStack`, which are switched off in the code.

## 8. Plan

In order of what would add most:

1. the early frame allocator and region policy of the kernel (`Memory/C`);
2. the stages of the first user task, with the loop between its critical sections;
3. the detour of the heap from a slab to larger allocations;
4. what survives of the theorems about address spaces when the places of requests overlap only in ways the service refuses.
