# Advanced-Systems-Programming: specifications

The repository holds seven assignments of a systems programming course, each a
program of its own. This directory specifies them in TLA+, model-checks the
specifications with TLC and proves theorems about them with TLAPS. Paths below are
relative to `src/Advanced-Systems-Programming/`.

    tlc  -workers 2 -config E2Own.cfg MCE2Driver     model-check
    tlapm E2DriverProofs.tla                         check the proofs of a module

`PROJECT.json` maps every definition to the lines it translates, and lists the runs,
a mutant for each property (a plausible bug the property catches), the hazards the
properties are aimed at, the findings and the theorems.

## 1. Inventory

| Component | State | Operations | What is hard |
|---|---|---|---|
| **Two-mode driver**, `Assignment6/assignment6.c` | `mode`, `count1/2`, `sem1/2`, `queue1/2` | open, release, read, write, two ioctls, by any number of threads | blocking with counters already changed; letting go of `sem1` to sleep; `sem2` moved between functions; deadlocks; ignored signal returns |
| its demonstrations, `Assignment6/case1-4.cpp` | two threads | sequences of system calls | they are interleavings of the driver's calls |
| **Electronic funds transfer**, `Assignment3/eft.cpp` | accounts, vector of transfers, room semaphore, account semaphores | parse, N workers, join and print | race on the vector; two locks in To/From order; `exit` of the process from a worker |
| **Mail pipeline, threads**, `Assignment2/locationUpdater.cpp` | list of valid e-mails, `Done`, mutex, condition variable, calendar | reader thread, calendar thread | `Done` and its signal outside the mutex; spinning on an unlocked size; leftovers at the end |
| **Mail pipeline, processes**, `Assignment4/locationUpdater.cpp` | ring of e-mails and its count and indexes in shared memory | reader process, calendar process | the same, across processes; indexes and count updated apart |
| **Filters**, `Assignment1/*.c` | the calendar as a linked list | create, edit, delete; two processes and a pipe | editing and deleting the earliest event of a date |
| **Ramdisk driver**, `Assignment5/Dutka_Gianfranco_Assignment_5/char_driver.c` | buffer, its size, file positions, one semaphore | open, lseek, read, write, ioctl | a position beyond a buffer another descriptor has cleared; reallocating; a path that keeps the semaphore |
| its programs, `userapp.c` | none | a menu over the system calls | nothing |
| **Pipe device of scull**, `scull/ldd3-master/scull/pipe.c` | circular buffer, `rp`, `wp`, two wait queues | open, release, read, write, size ioctl | sleeping and waking outside the lock; an open that resets a buffer in use |
| **Keyboard simulator**, `Assignment7/submission/keyboard_sim.c` | two processes of two threads, three pipes, LED buffer, flags | key interrupts, CAPS LOCK control messages and acknowledgement | control messages merged or dropped; four termination flags |

What makes each correct:

* Two-mode driver: `sem1` excludes; counters agree with the files open; `sem2` is taken
  exactly in MODE1; the mode changes only for a file that is alone; wake-ups are not
  lost; a deadlock only comes about while all wait for one file in MODE1, or all switch to it.
* Funds transfer: each transfer is made exactly once; money is conserved; balances do not
  depend on the number of workers; the workers finish.
* Mail pipelines: every valid e-mail reaches the calendar, once and in order; the buffer
  holds no more than its length; both sides end.
* Filters and calendar: after each message the earliest event of its date is the one
  reported.
* Ramdisk: reads return what was written; no transfer runs outside the buffer; every call
  gives the semaphore back.
* Keyboard: the keyboard's CAPS LOCK follows the LED buffer; every key is printed once and
  in order; all four threads end.
* Pipe device: bytes come out once and in order; nobody sleeps over what it waits for.

The components share nothing at run time. They do share ideas (a semaphore per resource,
a bounded buffer with a condition variable, an earliest-event calendar), and the later
modules reuse those of the first ones.

Left out: the rest of `scull/` (the example drivers of *Linux Device Drivers*: `snull`,
`sbull`, `short`, `tty` and others) and `Assignment5/LDD_sol` are third-party and no part of
the course's programs; of them only the pipe device is modelled, which the course's drivers
start from and whose sleeping and waking they imitate. `submission`, `testing`, `re-test`,
`revisedArguments` and the archives are copies, earlier drafts and test data of the
programs above; `__MACOSX`, `.vscode`, `.tmp_versions` and objects are not source.

## 2. Modules

### E2Driver: the two-mode driver

`E2Driver.tla` has one action per stretch of a handler between two points where the
thread can block or lets go of `sem1`. What a handler does with `sem1` held is invisible to
other threads up to the next such point, so cutting it finer adds no behaviour, except for
what the code reads outside `sem1`: the condition of `wait_event`, which is a step of its
own, and the copies of read and write, which begin and end in different steps. A thread's `pc`
names the point it will run from, also while it is queued on a semaphore.

| Code | Model |
|---|---|
| `e2_dev` | `mode`, `count`, `sem`, `queue` |
| `down_interruptible` | `Down`: take the semaphore, or join its FIFO (Linux semaphores are FIFO) |
| `up` | `Up`: hand the semaphore to the first waiter, or add one to the value |
| `wait_event_interruptible` | `SwitchWait`: test; if false, sleep in `queue[q]`. Being prepared to sleep before testing is what makes it atomic with the test |
| `wake_up_interruptible` | `WakeIf`: empty the queue; each sleeper tests again |
| `struct file` | `owner` (allocated before `e2_open`), `opened` (open has returned) |
| a signal | `Signal`: removes the thread from what it is queued on and stays `pending` until the call returns |
| the end of a call | `Return` |

The kernel calls `release` when the last reference to a file is dropped, so never while
another call on that file runs: `CallRelease` and `CallOther` say so. `Shared = FALSE` lets
a thread use only the files it opened, as the four demonstrations do; `Shared = TRUE` lets
any thread use any open file, which threads of one process may. `MaxSignals` bounds the
signals sent to threads inside a call. With signals on, two threads can be in a critical
section together; their updates of the counters are still taken one at a time (the
kernel's `++` on an `int` could also lose one), which only removes bad behaviours, and the
two signal runs claim nothing about the counters.

`E2Gate.tla` is the abstract specification: a gate admits one file at a time in mode 1 and
any number in mode 2, and a file switches the mode only when alone.

The property comments say where the code and `README.txt` of the assignment agree and where
they do not: its deadlock 3 (lines 68-74) has one thread blocked on `sem2` with `sem1` held,
and the program it describes, `case3.cpp`, ends otherwise (`DeadlockShapes`).

Abstracted: the contents of the ramdisk (a transfer has a beginning and an end, or is too long),
so `CopyOverlaps` says which copies overlap, not what becomes of the bytes; the invalid ioctls,
which return before they touch anything; the errors of module initialisation; `my_exit`, which
cannot run while a file is open.

### Eft: the funds transfer

`Eft.tla` is `eft.cpp`: `ReadLine` and `StartWorkers` are the parsing thread, `SendMoney(w)`
a worker. A step is one access to shared memory or one semaphore operation. `pop_back` and
the two updates of a balance are a load and a store, as a build without optimisation
compiles them (the Makefile gives no `-O`). `Transfers` is the storage of the vector, which
pops leave alone, and `finish` its end. `back` or `pop_back` of an empty vector ends the
model in the phase `undefined`: nothing is claimed from there on. `exit(0)` in a worker ends
the whole process (`exited`). Creating the threads is one step: a thread that has been created may
wait any time before its first step, so nothing is lost.

`EftFile.tla` says what an input file means (opening balances, bag of transfers, closing
balances); `EftBank.tla` is the abstract specification: a transfer is made at once and
removed from the bag. The refinement puts the moment a transfer is made at its debit:
`Balance` takes the credits of transfers under way off the accounts.

Abstracted: lines are records, not characters; amounts stay within an `int`; a file that
cannot be opened, a bad argument or a failed `pthread_create` ends the program before any
transfer. The order in which `sem_wait` lets threads in is not fixed, unlike the kernel's.

### Calendar, MailList, MailRing: the mail pipelines

`Calendar.tla` is what `processCalendar` does to the multimap and what it prints, as
operators. The multimap is the sequence of its entries in iteration order; an entry has its
key apart from its event, because `EditEvent` changes the event and leaves the key. A use
of `end()` as an event makes the effect `Undefined`. Dates and times are numbers that
compare as the checked strings do. The parameter `safe` is the one difference
between the assignments: Assignment 4 searches safely after it has erased the earliest event.

`MailList.tla` is Assignment 2: the reader's critical section never blocks, so it is one
step (`Push`); the calendar thread's is several, because the reader looks at the length of
the list, and signals, without the mutex. `pthread_cond_wait` may wake spuriously
(`Spurious`). `received`, `processed` and `output` are histories.

`MailRing.tla` is Assignment 4: slots, count and two indexes in shared memory. Taking an
e-mail is one step: the only part of it the other process can see is the count, which
changes once, at its start. A calendar process that uses `end()` stays in its critical section
for ever (`undefined`): it has crashed, with the mutex held.

`MailRing` is shown to implement `MailList` (with `SafeDelete <- TRUE`): the list is the
ring's slots from the read index on. `Promise` is what is implemented: from a use of `end()`
on, nothing.

Abstracted: a line is a valid e-mail or is not (`CheckEmailString`); all valid e-mails have
the same length, 40 characters, so a slot of 256 never overflows. The `Debugging` threads
are never started. A failed `mmap`, `fork` or `pthread_create` is not modelled.

### FilterCalendar: the filters

`FilterCalendar.tla` is what `Assignment1/calendar_filter.c` does with an event, as
operators on the list it keeps in the order of creation. `parseInput` cuts a location: it keeps
eight of the ten characters and leaves the byte after them as the stack had it. `Kept[l][b]` is
what becomes of location `l` over a stray byte `b`, and `Strays` the bytes there may be; what
the filter promises is checked and proved for all of them. `email_filter.c`, which only decides
which lines are valid, and the pipe between the two are not modelled; since whole events alone pass it,
the test of `main` for an empty action, title or time (line 89) always succeeds. `MailFilter.tla`
runs the filter on the e-mails that `MailRing` has processed, so that both calendars see the
same histories, and says what it promises; `MCMailRing` is its instance.

### Ramdisk: the ramdisk driver

`Ramdisk.tla` is one device of `char_driver.c`. A call begins (`CallSeek`, `CallRead`,
`CallWrite`, `CallIoctl`) with what the code or the kernel reads *before* `down`: the base and
offset of `lseek`, and the copy of `f_pos` the kernel passes to read and write. `Down` then takes the
semaphore or joins its queue, maybe after others that began later. What runs under
the semaphore is one step (`Seek`, `Read`, `Write`, `Clear`, `Unknown`), since nobody else can
look at the buffer meanwhile. `Return` stores the position back, after the semaphore is
free. `Interrupted` is a signal during the wait for the semaphore; `Kzalloc` may fail; a copy from or
to the user may fault. `lost` says that a thread left with the semaphore (the default branch of
`ioctl`, or the oops of an `lseek` without memory); `sound` that no write ran past the buffer,
and the model ends where one does. `stale` and `old` remember which positions were set
before the last clear.

`RamTape.tla` is what the device promises: an endless tape of zeros with the bytes written
on it. The refinement reads the buffer, followed by zeros, as that tape; failed
allocations make it blank.

Abstracted: the loop that registers the devices; `my_exit`; a write repeats one byte.

### Keyboard: the keyboard simulator

`Keyboard.tla` has the four threads of `keyboard_sim.c`: `Ik` and `Ck` of the keyboard process,
`Id` and `Cd` of the driver process, with the mutexes, conditions, flags and pipes they share.
`usb_kbd_irq` and `usb_kbd_event` run in threads their creator joins, so they are steps of `Id`.
`m_lock_int` is held over several steps and is modelled; nothing blocks under `m_lock_led` and
`control_mutex`, so what they guard is one step. `caps_history` is the part of the array that has
been written. `presses` and `overtaken` are histories: how often the LED has gone on, and whether
a toggle ever came before the one before it was acknowledged.

Abstracted: keys are `a` (a letter), `@` (a toggle) and `#` (ignored); the case of a key is a
flag. When its threads have ended each process runs on into the same printing code. The keyboard
process prints the `caps_history` its control thread has filled, as the model has it then; the
driver process and `main` print their own, which nobody fills. The array has room for 4096
entries and no check; the model's sequence has no end.

### ScullPipe: the pipe device

`ScullPipe.tla` is `pipe.c`. A file is open for reading, writing or both (`O_RDWR`). What runs
under `dev->lock` is one step; joining a queue, testing the condition without the lock, sleeping,
being woken and waking others are steps of their own. `ScullFifo.tla` is the queue of bytes it
implements. `SetSize` is `SCULL_P_IOCTSIZE`, which a thread may call through any scull device; a
buffer allocated before and opened again after it has the wrong recorded size, and `sound` goes
when a copy leaves the buffer.

Abstracted: `poll`, `fasync`, the `/proc` file; a fault of the copy, which changes nothing. The
ioctl stores any `int`. Sizes are positive here, down to the buffer of one byte that is always
full; a size of 0 gives a buffer that every transfer leaves alone until an open with
another size overruns it, and with a negative one the first open fails.

## 3. Runs

| Run | Question | Bounds |
|---|---|---|
| `e2_own` | Locking, counters, refinement of the gate, shape of every deadlock, progress | 3 threads, 3 files |
| `e2_shared` | The counters, which copies overlap, and who blocks with `sem1`, when files are shared | 3 threads, 3 files |
| `e2_interrupt` | What a signal ends | 2 threads, 2 files, 2 signals |
| `e2_signal` | **violated**: mutual exclusion with one signal | 2 threads, 2 files |
| `eft` | One worker at the vector: exact balances, refinement of the bank, termination. Two at the vector: what survives the race | N = 1 and 2 with four files, N = 3 with three |
| `eft_expected` | **violated**: balances with three workers | N = 3, three files |
| `mail_list` | Limit of the list, missed signals, loss at the end, progress | limit 2, five lines of two e-mails |
| `mail_left` | **violated**: nothing is left when both threads have exited | limit 2, three lines |
| `mail_ring` | Refinement of the list, order, announcements of both calendars, undefined behaviour | ring of 2, every four lines of nine e-mails, two stray bytes |
| `ramdisk` | Refinement of the tape, the semaphore, positions beyond the buffer, which calls return | 2 threads, 2 files, a buffer of 1 that grows to 2 |
| `keyboard` | Order of keys, CAPS LOCK and its history, termination | every text of up to four keys |
| `scull_pipe` | Refinement of the queue, lost wake-ups | 3 threads, sizes 1 and 3, counts up to 2 |

Why the bounds are enough. The driver's hazards involve at most a switch that sleeps, an opener
queued on `sem2`, and one more thread that changes the counters or the mode in between: three
threads. A count above one needs two files and one that falls *to* one with others left needs
three. Signals need a victim and one thread in the critical section. In `eft`, the vector is
shared from N = 3 on (the room semaphore starts at max(1, N - 1)), and the files hold crossing
transfers (a deadlock of two), a transfer from an account to itself (a deadlock of one), equal
transfers, a duplicate account, an unknown account and a blank line. For the pipelines a limit of
two tells a full list from a non-empty one, and three e-mails make the ring wrap; the nine e-mails
create three events of one date, cancel them, and edit a location, a time and a date, in every
order; two of their locations have the same first eight characters, and two stray bytes make equal
ones differ or not. A ramdisk of one byte is shrunk by a clear after it has grown, with a position
left beyond its end; a count of two is cut short or not. Texts of four keys hold three toggles and
a letter, or two toggles as close to the end as can be. A pipe of one byte is always full and
holds nothing; one of three holds two, so it is full and empty in turn, and counts of two wrap;
three threads are two writers that compete and a reader, or the other way round.

`e2_shared`, `e2_signal` and `scull_pipe` use the symmetry of threads (and files); they
check safety only. Runs with liveness do not use it.

`CHECK_DEADLOCK FALSE` except in `keyboard`, because the programs really stop: the driver's threads
do deadlock (`DeadlockShapes` says how) and `eft` ends or
deadlocks (which `StuckOnlyInCycle` and `Finishes` characterise); the pipelines
end, or their calendar thread sleeps for ever (`SleepsOverNothing`); the ramdisk may lose
its semaphore (`CallsReturn` says how), and every user of the pipe device may sleep.

Fairness. For the pipelines, `WF` of each thread; spurious wake-ups have none. For the two
drivers with liveness properties, `WF(Step(t))` and `WF(Driver(t))` for each thread: the
kernel schedules a thread that is runnable inside a call; nothing obliges a thread to make a
call, so calls and signals have no fairness. For `eft`, `WF` of the parsing thread and of
each worker: pthreads are scheduled. Semaphores get no strong fairness; with N = 2 the room
semaphore has room for one and `Finishes` holds without it, since a worker that overtakes has
removed a transfer first. For the keyboard, `WF` of each thread and `SF` of the steps that take
`m_lock_int`: the driver takes that mutex again right after it has let go of it, so without an
assumption that the mutex is not withheld for ever the keyboard may never type. Pthreads
do not promise it; every implementation in use provides it in practice, and the property
is about the flags and signals, not about the mutex.

## 4. What the checks show

The driver without signals. `sem1` excludes (`MutualExclusion`), and is always granted to who
waits for it (`Sem1Granted`), although the switch to MODE1 takes `sem2` with `sem1` held: with own
files `sem2` is free there (`Sem2FollowsMode`), whatever README.txt:72-74 says of a thread that
blocks there. The counters match the files (`CountsMatch`), and the driver refines the gate. In
every deadlock (`DeadlockShapes`) `sem1` is free, and either all threads wait for the one file in
MODE1 to be released, in open or in the switch to MODE2, which are README.txt's deadlocks 1 and 2;
or all sleep in switches to MODE1, with `sem2` free. The last is what `case3.cpp` runs into.
README.txt:68-74 and the comments of `case3.cpp` say of it that one thread blocks on `sem2` with
`sem1` held and the other on `sem1`: an open in MODE2 does not take `sem2`, and a switch sleeps
without `sem1`. Also, a switch to MODE2 that has to wait never gets past its wait at all
(`WaitForMode2NeverEnds`): the file it waits for was counted by an opener that is queued on
`sem2`, which only the waiting thread could free. `NoLostWakeup` holds although `release` wakes
sleepers only at exactly one.

With shared files a switch to MODE1 that slept can find the mode already MODE1: the loop
tests the counter again and not the mode. It then decrements `count2` below zero and blocks
on `sem2` with `sem1` held, after which no call returns. `BlockedWithSem1` says this is
the only way to block with `sem1` held; `CountsConserved` says the sum of the counters is
right even so. Copies of read and write overlap only as README.txt lists it (race conditions,
case 2): one was begun in MODE1, and those that were are of one file (`CopyOverlaps`).

Signals. The result of `down_interruptible` is ignored, so a thread whose wait was
interrupted runs the critical section without the semaphore and then gives it back:
`e2_signal` finds two threads inside. `InterruptEndsCall` holds: a signal ends any call
except a switch that finds its counter still above one; that switch spins, since
`wait_event_interruptible` and `down_interruptible` return at once while the signal is
pending.

Funds transfer. With one worker at a time at the vector (N = 1 or 2), the program refines
the bank, the balances printed are right, and it ends unless a transfer goes from an
account to itself. From N = 3 on two workers race on `back` and `pop_back`: `eft_expected`
prints balances in which a transfer was made twice or never. Even then no money appears or
vanishes (`MoneyConserved`), every balance is updated under its semaphore
(`SemaphoresAccounted`), and the only deadlocks are cycles of transfers
(`StuckOnlyInCycle`).

Mail pipelines. A full list always drains (`FullListDrains`) and never grows past its limit,
although the reader compares only after it has appended. The final signal can fall between
the calendar thread's test and its wait; the thread then never exits, but it never
sleeps over e-mails (`SleepsOverNothing`). It does leave e-mails behind: its outer loop tests
`Done` before it looks at the list (`mail_left`), and loses fewer than the limit
(`FewLost`). The ring keeps every e-mail, once and in order (`InOrder`), and refines the list.
As long as edits change locations only, the last line printed for a date is always its earliest
event (`AnnouncesEarliest`), and only the deletion of an absent event is undefined
(`UndefinedOnlyByDeletingAbsent`); the latter fails for Assignment 2, whose `DeleteEvent`
is undefined whenever it deletes the only event of a date (`SafeDelete = FALSE`). The calendar
of Assignment 1 announces the earliest event too (`FilterAnnouncesEarliest`), but only where
the minutes of the times are ordered as the times are: its `isTimeEarlier` takes 10:05 for
earlier than 09:30; elsewhere its announcements are wrong. That parts of a location are cut off or
never written does not disturb the announcements.

Ramdisk. The device is the tape it should be (`ImplementsTape`): whatever the interleaving
of reallocations, transfers and clears, a read returns the bytes last written. A write can run
past the buffer, but only through a position a clear has made old, of another file or of a
call in progress (`OverrunOnlyAfterClear`). The semaphore is never held twice or counted twice
(`SemaphoreAccounted`); it can be lost, by the unknown command of `ioctl` and by an `lseek`
without memory, and but for that and the overrun every call returns (`CallsReturn`).

Keyboard. The two processes take turns key by key and everything typed is printed, in order
(`KeysInOrder`). CAPS LOCK agrees with the LED as long as no toggle overtakes the
acknowledgement of the last (`CapsFollowsPresses`); when one does, presses merge. At the end of
a text the control threads may stop before the last message, or take the one that only wakes
them for a press: the history that is printed then misses the last press, or has it
twice, but only with the LED left on. That, too, is part of `CapsFollowsPresses`
(`HistoryNearPresses`). All four
threads end, in whatever order the flags and the last signals come (`AllThreadsEnd`).

Pipe device. It is a queue of bytes (`ImplementsFifo`), and nobody sleeps over bytes or
room without a wake-up on its way (`LostWakeupOnlyAfterReopen`), but for writers that slept while
an open reset the pointers: `scull_p_open` makes room and wakes nobody.

## 5. Proofs

Every theorem holds for every value of the constants that its module's named assumption
allows; further hypotheses are named below.

### The driver

`E2DriverProofs.tla` is for any sets of threads and files. Its hypothesis throughout is
`MaxSignals = 0`: with a signal `MutualExclusion` is false, as `e2_signal` shows, and what the
driver says of its counters with it. The first theorems hold for shared and for own files.

* `TypeCorrect`: `Spec => []TypeOK`. Inductive once `pending = {}` and `signals = 0` are
  added (`Basic`).
* `MutualExclusionHolds`: `Spec => []MutualExclusion`. Mutual exclusion alone is not
  inductive, since a hand-off makes a *waiter* the holder. `Sem1Inv` adds what the hand-off
  relies on: no thread is twice in sem1's list, or in it outside a point where it wants
  `sem1`; if somebody waits the value is zero; and either the value is one and nobody
  holds, or it is zero and at most one thread holds. The proof sorts the driver's steps into
  three kinds: the holder gives `sem1` up (`HolderUp`), an outsider asks for it
  (`OutsiderDown`), or nobody's relation to it changes (`LockUntouched`). Each rests on what
  `Append` and `Tail` do to a list without repetition (`AppendFacts`, `TailFacts`).
* `CountsConservedHolds`, `Sem2FollowsModeHolds`, `BlockedWithSem1Holds`,
  `WaitForMode2NeverEndsHolds`. One invariant, `GateInv`, gives all four: who uses which file
  (`Roles`, `FileUse`), who has `sem2` (`Sem2Inv`: one file in MODE1, nobody in MODE2), what
  each counter counts (`CountInv`), the sum of the counters (`Conserved`), and that a switch
  to MODE2 waits only in MODE1 with `count1` above one (`Wait2`). With shared files `CountInv`
  has one exception, `Broken`: a switch blocked on `sem2` with `sem1` held and `count2` negative.
* `CopyOverlapsHolds`: `Spec => []CopyOverlaps`, however files are shared. With mutual exclusion at
  most one copy runs under `sem1`; those that do not are of one file (`FreeCopiesOfOneFile`).
* `CountsMatchHolds`, for `Shared = FALSE`. `OwnInv` adds that a file is
  used by its owner only and that a switch finds the mode it has seen: so `Broken` never comes about.
* `ImplementsGateHolds`, for `Shared = FALSE`: every step is a step of `E2Gate` or a stutter,
  by `StepClass` and `OwnInv`.
* `DeadlockShapesHolds`, for `Shared = FALSE`: `Held` (if `sem1` is taken somebody holds it) and
  `QueueInv` (who sleeps on which queue) say what a state in which nobody can go on looks
  like.

### The mail pipelines

`CalendarProofs.tla` has what the two pipelines' proofs need of the multimap, for any e-mails:

* what a search finds (`FindFinds`, `TitleFinds`, `EventFinds`, from the least number of a set,
  `Smallest`), that insertion and removal keep the kind of the entries (`InsertKeeps`,
  `RemoveKeeps`, `EmplaceKeeps`), and from these what `processCalendar` keeps (`ProcessKeeps`,
  `ProcessTyped`) and when it is undefined (`UndefinedOnlyDeleting`);
* that `searchEarliestEventByDate` finds the earliest event of a date, the last of them
  (`EarliestFound`). It is a library fold: its recursive function is shown to exist
  (`FoldExists`), and its values on the prefixes of the calendar to be the earliest so far;
* that an entry more or less changes the earliest event only if it is itself the earliest
  (`EarliestLacks`), and so that each action leaves, for every date, the last line printed
  right (`CreateTells`, `EditTells`, `DeleteTells`, `ProcessTells`);
* the same for the list of Assignment 1. Read backwards it is a calendar of Assignment 2
  (`Backwards`): the first of the earliest events of the list is the last of the calendar, and
  what the list appends at its end the calendar has at its front. So what was shown of a
  calendar that gains, loses or changes an entry is used again (`AppendBackwards`,
  `RemoveBackwards`, `EditBackwards`, then `CreateShows`, `EditShows`, `DeleteShows`). Where
  minutes are ordered as times are, `isTimeEarlier` compares (`Compared`), and `EarliestEvent`
  finds the first of the earliest (`EarliestSought`). Both `EarliestEvent` and `Filtered` are
  folds: `FoldSolved` shows once that such a recursion has a solution, and `FilteredRight`
  follows the fold over the e-mails from its front.

`MailListProofs.tla`, for any limit, any e-mails and any length of the input:

* `TypeTheorem`: `Spec => []TypeOK`, which includes that the events of the calendar are e-mails of the
  input, and their keys dates of such e-mails.
* `FewLostHolds`: `Spec => []FewLost`, from `Roomy` (the list is below its limit wherever the
  reader is not about to compare) and `Parting` (Done is set only by a reader that has
  left its loop, and the calendar thread leaves only after that).
* `SleepsOverNothingHolds`: `Spec => []SleepsOverNothing`, from `Rested`: between its test
  and its wait the calendar thread holds the mutex, so the list it found empty stays so.

`MailRingProofs.tla`, for any length of the ring and any input:

* `OrderTheorem`: `Spec => []InOrder`. The ring's slots from the read index on, as many as the
  count says, are the e-mails received and not yet processed. It is inductive with the
  bounds of count and indexes, with the write index being the read index plus the count
  modulo the length, and with the reader finding room wherever it is not about to compare.
* `TypeTheorem`: `Spec => []TypeOK`, those bounds and the calendar's type (`Known`).
* `UndefinedTheorem`: `Spec => []UndefinedOnlyByDeletingAbsent`. The property speaks of
  histories whose edits change locations only; then every entry is filed under the date of
  its event, and every event was received (`Filed`, `FiledAmong`), which makes every search of
  `processCalendar` but that of a deletion find what it looks for.
* `AnnouncementTheorem`: `Spec => []AnnouncesEarliest`, if the times are numbers
  (`TimesAreNumbers`). The invariant `Announced` is about every date of the possible
  e-mails, with `Filed`: an edit finds an event that was received, so its date and time do not
  change.
* `RefinementTheorem`: `Spec => ImplementsList`, by `OrderTheorem`'s invariant: a step of the
  reading process appends to `Unread`, and taking an e-mail removes its head.
* `FilterTheorem`: `Spec => []FilterAnnouncesEarliest`, if every e-mail is a record of its five
  fields whose time is a number (`EmailsAreRecords`). The property is about the history
  alone, so no step has to be considered: `processed` is a sequence of e-mails (`Known`), and
  `FilteredRight` holds of every such sequence, also of what `parseInput` makes of it: with any
stray bytes only the locations differ. That edits change locations only and
  that minutes are ordered alike are conditions of the property itself.

### The funds transfer

`EftProofs.tla` is for any set of input files and any numbers of threads:

* `SemaphoresTheorem`: `Spec => []SemaphoresAccounted`. The invariant is `Data /\ Hands /\ Sems`:
  what was read has its type; between the look-up and the posts a worker's accounts exist,
  and they *differ* once both semaphores are taken; and the counts. That they differ is the
  crux: it follows from the counts, since the worker already holds its To account and so its
  semaphore is zero. `GotoStep` says what a worker has to pay for to go to a label; every
  action is an instance of it. How `Cardinality` changes is one lemma (`Counted`).
* `TypesTheorem`: `Spec => []TypeOK`, which includes that the vector never holds more than its
  storage although its pops overlap.
* `StuckTheorem`: `Spec => []StuckOnlyInCycle`, from the same invariant: the semaphore a
  blocked worker waits for is zero, so somebody holds it, who is blocked too.
* `MoneyTheorem`: `Spec => []MoneyConserved`. The sums are the library's folds, defined by a
  recursive function; the module shows that this function exists and that the sum does not depend
  on the order of the terms (`SumsExist`, `SumIs`, by the library's induction over finite
  sets), and then how a sum changes with one term. While the file is read, the accounts are its
  opening balances so far (`ReadSoFar`); while workers run, a worker between the two
  stores has a fresh copy of the balance it is about to write (`Fresh`), since it holds that account's semaphore.
* `SerialTheorem`: `Spec => []SerialBalancesExpected`, that with one or two threads what is printed
  are the file's closing balances. The invariant has three parts. `Copied`: as many transfers of
  any kind are in the vector's storage as in the lines read, and worth as much. `Popped`: with
  one worker at a time at the vector (the room semaphore starts at one), the transfer it takes
  is the last one, and those at the places up to `Left` are still due. `Books`: the accounts, less
  a credit that is not debited yet, hold the opening balances and the transfers at the places past
  `Left` (`Settled`). They are inductive with `Distinct` (one account for each id) and with the
  invariants of the theorems above; a step that debits moves one place from due to made
  (`OnePlace`). At the end `Left` is zero, and everything in the file is made (`AllMade`).
* `BankTheorem`: `Spec => ImplementsBank`, by the same invariant. It makes the refinement mapping
  a function of `Left` alone (`BankView`): `Balance` is `Settled(Left)` and `Due` is the bag of the
  transfers at the places up to `Left` (`Owed`). Reading does not change what the bank sees, since its
  initial state is the whole file; of a worker's steps only the store of a debit changes
  `Left`, and it makes the transfer at that place (`Makes`); the others stutter (`BankWork`). From
  three threads on the property claims nothing, as `eft_expected` shows it must.

### The ramdisk

`RamdiskProofs.tla` is for any threads, files, sizes, counts, offsets and bytes:

* `TypesTheorem`: `Spec => []TypeOK`.
* `SemaphoreTheorem`: `Spec => []SemaphoreAccounted`, which is inductive with `TypeOK`: it already says
  that the queue holds each waiting thread once, which `Head`, `Tail` and the removal by a
  signal keep.
* `OverrunTheorem`: `Spec => []OverrunOnlyAfterClear`, from the two above.
* `TapeTheorem`: `Spec => ImplementsTape`. `View` is the buffer followed by zeros. Each reallocation
  leaves it alone, each write changes the bytes a tape's write changes. `Reach` bounds
  the positions and what was written, which is why the bounded tape of the model has
  room for what the driver does. The hypothesis `NullIsNone` says that the model's `NULL` is not a buffer.

### The keyboard

`KeyboardProofs.tla` is for any texts and keys:

* `CapsTheorem`: `Spec => []CapsFollowsPresses`. Strengthened by what holds while a toggle is on
  its way (`Toggling`): as long as none was overtaken, at most one of the wish, the message and
  the step that handles it is pending, and the LED tells whether CAPS LOCK still has to flip to
  agree with `presses`. For the history after the end of the text, `History` bounds what the
  control threads still owe it (`Owed`) once they have been told to stop (`Killed`), by the turns
  of the next theorem.
* `TurnsTheorem`: at most one key is under way and none while the driver has one in hand.
* `KeysTheorem`: `Spec => []KeysInOrder`. What was printed is compared with the text through
  the number of keys that show among the first n (`Shown`). The invariant is that
  of `TurnsTheorem` with `Order`: how far the text is typed, what of it is in the pipe or in hand, and
  what is printed, in both the typing half and the printing half of a turn (`TypingOrder`,
  `PrintingOrder`).

### The pipe device

`ScullPipeProofs.tla` is for any threads, sizes, counts and bytes:

* `WakeupTheorem`: `Spec => []LostWakeupOnlyAfterReopen`. It is inductive with the labels: a step
  that puts bytes in or takes them out goes to the label where the sleepers are woken, and
  a thread falls asleep only when the condition it has just tested is false. What is missing
  between the tests is what an open does, hence `reopened`.
* `OneSizeTheorem`: if `scull_p_buffer` has one value, `Spec => []sound`: pointers stay inside the
  buffer and every transfer is cut to fit. With two sizes `sound` is violated, as the model allows.
* `FifoTheorem`: `Spec => ImplementsFifo`, for any sizes. `InRing` says where the pointers are; the
  bytes that wait are those from `rp` on, around the end (`Ring`). A chunk is a contiguous
  stretch of the buffer (`Chunk`): taking one off the front leaves the rest of the queue (`RingRead`),
  and writing one at `wp` appends it (`RingWrite`). The hypothesis `Bounded` says that the sizes have
  a largest, the capacity of the abstract queue: they are values of an `int`.

### Only model-checked

Liveness, which is beyond this prover: `Sem1Granted`, `NoLostWakeup`, `InterruptEndsCall`,
`Finishes`, `FullListDrains`, `CallsReturn`, `AllThreadsEnd`. Every other property of a passing run
is stated by a theorem.

## 6. Not modelled

* `email_filter.c` and `location_updater.c` of Assignment 1: the first decides by the
  characters of a line, the second is `fork`, `pipe` and two `exec`s.
* `userapp.c` and `case1.cpp` to `case4.cpp`: sequences of system calls, each a behaviour of
  the driver's model.
* The registration of devices and the exit of the modules, which nothing can run beside.
* The third-party example drivers. They are most of the lines under `src/`, which is why
  the share of all lines that the definitions translate is small; of the seven
  assignments' programs, those that keep state are modelled.
