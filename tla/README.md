# Verification of the TaikoRecomp runtime

TaikoRecomp runs *Taiko no Tatsujin* for the PS3-based System 357 arcade board as a
native program: the PPU and SPU code of the game is translated to C ahead of time and
linked with `ps3recomp`, a runtime that gives it the services of the PS3's LV2 kernel
and system libraries on Windows, Linux and Android. The translated code is sequential;
what can go wrong in ways a test seldom reaches is the runtime: guest threads are host
threads, guest mutexes, condition variables, event queues and atomics are rebuilt on
host primitives that promise something slightly different, and the audio, the graphics
and the cabinet's I/O board run on threads of their own.

This directory holds TLA+ modules of that runtime, TLC configurations that check them on
small instances, and proofs that `tlapm` checks for every value of the constants.
`PROJECT.json` lists the components, runs, properties, the lines every definition
stands for, hazards and findings. RT below is `src/ps3recomp/runtime`.

## 1. Inventory

### The parts and how they interact

    guest code (lifted)                      SPU jobs (lifted)
       | syscall r11       | import (NID)       | channels, DMA, GETLLAR/PUTLLC
       v                   v                    v
    lv2_register.c      ppu_hle.cpp          spu_channels.c --- outbound mailbox ---+
       |                   |                    |                                   |
       v                   v                    v                                   v
    sys_mutex, sys_cond,  ppu_sysprx.cpp     guest memory (vm_base)          event queues
    sys_semaphore,        (lwmutex, lwcond)      ^  lwarx/stwcx.                  ^   ^
    sys_rwlock, sys_event,     |                 |  (ppu_memory.h, ppu_loader.cpp)|   |
    sys_ppu_thread,            v                 |                                |   |
    sys_timer             ppu_fair_mutex.h     PPU threads                   timers  cellAudio,
                                                                                     RSX, USIO

| part | state it keeps | operations | what is hard | correct when |
|---|---|---|---|---|
| Fair mutex (`RT/ppu/ppu_fair_mutex.h`) | owner, depth, queue of tickets, timed-out counts | lock, try_lock, try_lock_for, unlock, release_all | notification after the gate is dropped; deadlines that race a release | one owner, FIFO, no lost wake-up, no starvation, a timed-out acquire is released as such |
| lwmutex, lwcond (`RT/ppu/ppu_sysprx.cpp`) | policy cache, words in guest memory, sequence of a lwcond | create, lock, trylock, unlock, wait, signal, signal_all, destroy | a policy that changes between lock and unlock; waits that drop all levels | serialized callers exclude each other, signals are not lost |
| Event queues and ports (`RT/syscalls/sys_event.c`) | table of rings, table of ports | create, destroy, receive, tryreceive, drain, push, port calls | ids given out again, `active` read before the lock, stolen wake-ups | a bounded FIFO per queue, no event stranded, an event reaches the queue its port named |
| Event flags (same file) | bits | create, destroy, wait, trywait, set, clear | waiters that clear what others wait for | nobody sleeps on a satisfied pattern, a bit used as a token is taken once |
| Semaphores (`sys_semaphore.c`) | value, kernel handle | create, destroy, wait, trywait, post | two counts on Windows; a deadline that races a signal | tokens are neither made nor lost |
| Reader-writer locks (`sys_rwlock.c`) | host lock, writer words | rlock, wlock, try forms, unlocks | words read without a lock | sharing and exclusion, refusals that are true |
| Mutexes and conds (`sys_mutex.c`, `sys_cond.c`) | owner and count words over a host mutex | lock, trylock, unlock, wait, signal, signal_all, destroy | words and host mutex changed one after the other; recursion | words backed by the host lock, exclusion, a free mutex is granted |
| PPU threads (`sys_ppu_thread.c`, `ppu_thread_lifecycle.h`) | descriptors with registers, stack and completion objects | create, exit, join, detach, end of the host entry | three parties that may reap one descriptor | one host thread per descriptor, each object destroyed once, joins get their status |
| Reservations (`ppu_memory.h`, `ppu_loader.cpp`, `tools/ppu_lifter.py`) | reservation of each context, registry of contexts, block locks | lwarx, stwcx., ldarx, stdcx. | ABA, a registry that fills up, mixed widths | load-linked and store-conditional |
| SPU runtime (`RT/spu`), not modelled | local stores, channels, DMA engines, line reservations | channel reads and writes, MFC commands, job dispatch | PPU stores between compare and copy of a line; blocking channel reads | line updates are atomic, mail is neither lost nor doubled |
| Timers (`sys_timer.c`) | timers with threads | create, start, stop, connect, disconnect, destroy | a timer thread that fires while it is torn down | a timer that runs ticks, one that was stopped is quiet |
| Audio (`libs/audio/cellAudio.c`, `audio_sink.c`) | ports with rings of blocks and of announced positions, notify queues, mixer thread, device | init, quit, host shutdown, port open, close, start, stop, set and remove notify queue, mixing | a position is matched to its event by counting; guest and host close at once; the device dies | a guest that answers in time hears its mixes in order; one close; the clock never stops |
| Command ring (`libs/video/cellGcmSys.c`, `rsx_recorder.c`, `RT/host/frame_driver.cpp`) | ring, put, getoff, drained, batch, render queue | put, recycle, walk, flip, submit, execute, leave | the ring is recycled under the walker; bounded queue; an end that waits for the driver | words are submitted once, in order, in whole frames |
| Presentation (`rsx_sdl_gpu_backend.c`, `rsx_kms_present.c`) | targets, slots, display buffers, fences | present, download, copy, commit, stop | three users of one buffer, commits that fail | nothing is drawn over that is still read; nobody waits for ever |
| Frame handlers (`cellGcmSys.c`, `ppu_hle.cpp`, `ppu_loader.cpp`) | counts of ticks, scratch stack | register, tick, pump, flip word | a count is taken whole and given back in part | a tick is delivered once |
| Drums, coins, buttons (`src/src/taiko_host_input.cpp`, `taiko_usio.cpp`) | levels, rising edges, cooldowns | strike, release, disconnect, report | two words written in two steps by several threads | a strike is heard, and once |
| I/O board memory (`src/src/taiko_usio.cpp`) | SRAM, two files | write packets, save, load | kills and failures anywhere in a save | a start finds the last memory saved |
| Card reader and pairing (`src/src/taiko_card.c`, `taiko_pairing.c`) | card, poll times, session, acknowledgement | poll, present, step of the pairing thread, close | lost requests and answers, a game that leaves the scene | a chosen card is put on the reader once |
| ATRAC decoders (`src/src/taiko_atrac.cpp`) | decoders with generations, worker, PCM cache | SetData, decode, reset, copy, delete | a decode that ends after its decoder was replaced or moved | what plays is what was asked, from where it was asked |
| cellSync (`libs/sync/cellSync.c`) | objects in guest memory | mutex, barrier, reader-writer memory, queues | C11 atomics and no host lock; tests before a lock | a read is one write whole, a FIFO, full rounds |
| Memory, files, loader, HLE tables, other libraries, lifters | tables | see `PROJECT.json` | little concurrency | not modelled, with reasons |

### Hazards

`PROJECT.json` lists forty, each at its line with the properties that would catch it:
interleavings of host threads (notifications after a lock is dropped, state read before
a lock is taken), deadlines that race what they wait for, ids and addresses that are used
again, guest words and host primitives that are changed one after the other, rings and
tables that fill up, buffers with several readers, answers that are lost or come again, a
program that is killed in the middle of a save, and waits that must end. Hazards that no
property covers are in section 7.

## 2. Plan

In the order of what a fault would do to the game: the locks every guest thread uses
(fair mutex, lwmutex and lwcond, mutexes and conds, reader-writer locks), what wakes guest
threads (event queues and ports, event flags, semaphores), thread life cycle and
reservations; then the host threads that talk to the guest (audio, timers, the way of a
frame); then what the host adds for this title (drums, backup, card, previews), and
cellSync. Each safety invariant was checked on small instances before it was proved.

A behaviour of an MC module is about one *case*, chosen in its first state, so that one
run holds several small instances of parts that do not interact; where they do
(lwmutex over the fair mutex, the draw queue over mutex and cond, queues and ports) the
composition is a module.

Abstract specifications: `RecursiveLock` (fair mutex, sys_mutex), `SharedLock` (rwlocks),
`TokenCounter` (semaphores), `EventFifo` (event queues, cellSync queues), `LinkedStore`
(reservations).

What remains:

1. SPU channels, line reservations and thread groups. Their promises rest on generated
   code that is not here; section 7 lists the hazards.
2. The ring between the ATRAC decoder and the SPU mixer, and transfers of the USB board.
3. Proofs: every safety property and every refinement a run checks is a theorem (section
   6). What is left are safety facts that liveness rests on: that whoever sleeps has
   somebody on the way who will wake it is proved of the fair mutex (`WakeupsAreKept`) and
   of event queues (`ReceiversAreComing`), not of semaphores, conds and `DrawQueue`.

## 3. Modules and how they match the code

Everywhere a handler is one action from one point at which another thread can see it to
the next: code under one lock is one action; a wait on a condition variable, a lock that
is dropped before a notification, and a shared word that is read or written without the
lock cut it. Locals that are dead are reset. What the guest does with a service (which
call comes next, whether it ever unlocks) is left open; only what the code leaves
undefined and a guest therefore does not do is excluded, and said here.

**FairMutex** over **RecursiveLock**. `owner`, `depth`, `waiters`, `timed_out` are the
members of `FairRecursiveTimedMutex`; a ticket stands for the thread that drew it, so
`waiters` is a sequence of threads. `pc` says where a thread is: in the guest, asleep in
`lock` or in `try_lock_for`, or between the release of `gate_` and its `notify_all`
(action `Notify`). `asleep` are the
threads in `cv_.wait` that no notification has reached. `nest` is the caller's
side: the outcomes of the acquires it still has to release, `"late"` for a timed acquire
that gave up and whose caller goes on unlocked. `Unlock` consults the owner before
`timed_out_`, as the code does; `ForeignUnlock` is an unlock by a thread that has nothing
to release. The refinement maps a thread's level to the number of its `"got"` acquires.

**LwMutex** (over an instance of `FairMutex` for the host mutex). `policy` is
`g_lwm_policy` with its publish-only cache, `word` the guest's owner and recursion words,
of which the second has a width, and `inside` the guest's account of its locks: `"open"` without the
host mutex, `"got"`, `"late"`. Call sites come in three sorts: plain, guarded by the
allocator list, strict. `setup` says which of them take this lwmutex in a behaviour,
whether a holder may keep it past `PPU_LWM_WAIT_MS`, whether a wait may outlast its
timeout, and whether a guest thread unlocks what it never locked (`strays`). `astray` is
history: a thread has released a level of the host mutex that another had taken. The words are stamped, read and written in separate actions
because unserialized callers share them. The lwcond is a sequence, a gate and sleepers;
`CondWait` takes the snapshot and releases every level under the gate.

**EventQueue** over **EventFifo**. `active`, `buffer`, `head`, `tail`, `count`,
`capacity` are the fields of a table slot. `at`/`on` say in which call a thread is, and on
which queue; `gen` and the generation in a port's link are history, to tell a queue from
the next one with its id. `tidy` says whether the guest of a behaviour destroys only what
nobody uses or is connected to. A send and a receive look at `active`, then take the lock: two
actions. The push notifies before it drops the lock: one action. `QueueDestroy` takes
both outcomes that destroying a condition variable with sleepers has (it returns, or it
waits for them as glibc does, with the table lock held). The refinement is the ring read
from `head`, `count` entries long.

**EventFlag**. `pattern` is the set of bits; `raised` and `taken` are histories of rises
and clearing waits. A set wakes everybody; a wait tests again when it has the lock.
`FlagDestroy` has the two outcomes of `QueueDestroy`.

**Semaphore** over **TokenCounter**. On POSIX `value` is the count. On Windows `handle` is
the kernel semaphore and `value` the second count, incremented before `ReleaseSemaphore`
and decremented after a wait, each an action of its own. `Wakeable` lets a POSIX
`pthread_cond_signal` reach a thread whose deadline is passing.

**RwLock** over **SharedLock**. `exclusive` and `shared` are the host lock; `writer` and
`writerTid` the words of the Windows build, `has` what callers were told. The words are
read in separate steps (`WLock`, `Compare`, `WUnlock`, `Own`) and written in separate
steps around the host lock (`Mark`, `Name`, `Own`, `Unmark`, `WFree`).

**SysMutex** over **RecursiveLock**, and **DrawQueue** over it. `ownerTid`, `lockCount`
are the words, `hostOwner`, `hostCount` the CRITICAL_SECTION or pthread mutex, `nest` the
guest's account. `CondWait` saves and clears the words and gives back one host level.
`Gates` are the conds whose signal the code turns into a broadcast (id 5). The protocol of
`DrawQueue` is guest code and external: it is what the comment in `sys_cond_signal` says
of the workers and the main thread, and it is there to show that the broadcast does
what its author wants.

**PpuThread**. `state`, `joinable`, `initialized`, `handle` are fields of a descriptor;
`phase`, `slot` place a host thread: in guest code, between the guest's exit and the end
of `ppu_host_thread_proc`, returning, gone. Only the middle of a join (`Collect`) is
outside `s_table_lock`. `faults` records a use of what is not there.

**Reservation** over **LinkedStore**. `reserveAddr`, `reserveValue`, `reserveValid` are
fields of a context; `registry` and its count, `locks` the block locks. Every access to
shared memory is an action: the load, the note of the address, the first look, the lock,
the compare and swap, each entry of the scan in `ppu_resv_break`, the unlock. `guest`
selects the form of the runtime headers or the one the lifter emits.

**AudioRing**. `ring` is `s_ports` with the pending positions; `index` and `blocks` are
guest memory; `slots` are the notify queues and `events` the guest's queues. The mixer's
round is one step to play, mix and announce (`s_audio_mutex`), and one per queue it
notifies (`turn`): `MixBlock`, then `NotifySlot` once for each. `ReceiveEvent` and
`TryReceiveEvent` take an event; `MatchSource` and `NotifyDelivered` are what the receiver
does once it has dropped the lock of the queue (`cellAudioNotifyDelivered`). Blocks hold
the number of the mix written to them. `setup.kind` is the guest: *punctual* writes the
block it is told to before the next is due, *restarts* stops and starts its port, *any*
calls what it likes. `due` and `mixes` are history.

**AudioOutput**. `audio_initialized`, `s_host_output_shutdown` (`shutdown`), the mixer
thread's flags and the SDL sink. Quit and host shutdown run in steps where they drop locks
or join; the mixer's wait for room is a step, and the device may stop taking blocks for
good, which sends the mixer to a clock of its own.

**SysTimer**. `timer` holds the fields of `g_sys_timers`, `ticker` the thread of a timer
and the queue it looked up, `stopper` a guest thread in a stop or destroy, which takes no
lock that covers its steps.

**GcmFrames**. `mem`, `current`, `put`, `getoff`, `drained` are the ring and its
registers; `driver` is the frame driver between two of its steps, with the `put` it read;
`batch`, `gate` the recorder; `queue` the render queue; `main` and `stopping` the end of
the program. A word of the ring is walked in one action. The guest's library (what it
writes, when it recycles) is external; `game` says whether it lets the walker finish a
turn of the ring (`patient`) and where in a frame it clears the display. `meant` is
history: the words written and not yet submitted. `Made` are the places in it where the
batch may end: the first `k` words without their flips are the batch, word by word
(`Rank` counts them).

**KmsPresent**. `slot`, `write`, `waiting`, `target`, `reader` are `kms_slots` and their
indices, `next`, `displayed`, `release` those of `s_kms`; `renderer` and `worker` the two
threads; `screen` and `latched` the display. A commit waits for its blank in atomic mode
or not, and may fail.

**FrameCallbacks**. `pending` are the two counters; `pump` a thread in a handler with the
count it took; a tick that finds no handler is dropped. `scratch` is whose frame lies at
the scratch stack's address.

**DrumInput**. `levels`, `rising` are the words of one player; a host thread exchanges the
first and, a step later, ors the edges into the second; a report loads the first and
exchanges the second. `host` is the set of threads of the platform. `strikes` and `heard`
count.

**UsioBackup**. `sram` by pages; `write` the packets of a write; `save` where
`save_backup` is; `file` and `tmp` absent, torn or whole. `Crash` may come between any two
calls on files, and every call may fail, but a rename where `replaces` says that it puts a
file in the place of another. `kept` is history, the memory of the last save that
succeeded, and so is `gone`: a later save has removed that backup.

**CardPairing**. `reader`, `heldFor`, `sincePoll` are the reader; `pairing` the session,
acknowledgement and last command; `asking` the pairing thread between request and answer;
`server` is external, as the requests and answers define it. Requests and answers are lost.

**PreviewDecoder**. `decoders` by handle with generations; `pending`, `current`,
`cancelled`, `worker` the preview worker's queue of one and its job; `setting` a guest
thread between drawing a generation and storing the decoder.

**CellSync** (queues over **EventFifo**). A behaviour is about one object. `stage` places
a thread between two atomics: the look before a lock, the lock, the copy, the index and
count, the unlock; for the shared buffer each look and count, and a copy in two halves. The
users of a barrier notify and then wait. Whether guest memory starts at a multiple of 4 GiB
is a field of the object (`aligned`), because a retried push or pop translates its
pointers twice.

## 4. Runs

| run | instance | what it shows |
|---|---|---|
| `fair_mutex` | 3 threads, nesting 2 | nobody overtakes (`NoBarging`), refinement of `RecursiveLock`, no starvation |
| `lw_mutex` | six cases, below | serialized callers exclude each other until one releases another's level, which guarded sites never do, and all callers do while deadlines are kept (`LwMutexExcludes`); ETIMEDOUT only without a signal (`TimeoutMeansNoSignal`); a broadcast brings back all who waited when it was sent (`BroadcastWakesHere`) |
| `event_queue` | *wild*: 1 queue of size 0 or 1, 2 receivers, 1 sender, destroyed and created again at any time; *tidy*: 2 queues, 1 port, taken down in order | rings are FIFO queues (`ImplementsFifo`), a tidy guest's ports reach their queue (`TidyQueuesAreRight`), no event stranded |
| `signals` | *flag*: 2 waiters of four kinds, a setter, 2 bits; *sema*: 3 callers, at most 2 tokens, both builds, with and without deadlines; *rw*: 3 users, both builds | nobody sleeps on a satisfied pattern, a rise is taken once, tokens are conserved and not stranded, rwlocks are shared locks |
| `sys_mutex` | *draw*: main and 2 workers; *critical* (Windows), *plain* and *nesting* (POSIX): 3 threads; *sync*: 3 threads at a mutex, a shared buffer or a barrier, 2 at a queue of 2 | refinement of `RecursiveLock`, the draw queue does not freeze; a read is one write whole, writers get in, queues are FIFO, rounds are full |
| `threads` | *thread*: 2 descriptors, 3 host threads; *reservation*: 2 contexts on one word, a word and its doubleword, words of two blocks, or three starts | a descriptor serves one thread at a time and comes back; linked stores, progress of stores |
| `host_events` | *ring*: a punctual guest with rings of 8 and 16 blocks and lookaheads 1, 4 and 30, any guest with a queue of one event; *output*: prebuffer 3, one init; *timer*: 2 timers, 1 queue, 1 caller | a port owes its last positions, mixes are heard once and in order, one close, quiet timers; mixer, shutdown and timers go on |
| `graphics` | *frames*: a ring of 4 words, a queue of 1, three kinds of guest; *display*: depths 1 to 3 with and without atomic wait, and zero copy; *callbacks*: 2 guest threads, 3 ticks | nothing lost or reordered, whole frames, no tearing, nobody waits for ever, ticks once |
| `title` | *drum*: 4 actions, 2 strikes, three hosts; *backup*: 2 pages, 3 starts, both kinds of rename; *card*: 2 cards, 2 losses; *preview*: 2 handles, 2 songs, 3 requests | no ghost strikes and none unheard, a card once, the right song, a memory that is lost only by a save that had to remove the backup, the newest preview arrives |
| `ppu_thread_exit`, `audio_restart`, `fifo_recycle` | the case that matters of `threads`, `host_events`, `graphics` | findings of section 7 |

Cases of `lw_mutex`: *nested*, two threads that nest two deep, every site guarded and all
deadlines passing; *mixed*, three threads on plain and guarded sites that also unlock what
they never locked; *layers*, the same of two threads that nest two deep, one of which
waits; *prompt*, three threads and no holder that outlasts the acquire deadline; *patient*,
two waiters whom no deadline helps and a third thread that only signals; *strict*.

**Bounds.** `MaxNest` (levels per thread), `MaxSignals`, `MaxEvents` and `MaxCreates`,
`MaxRaises`, `MaxPosted`, `MaxReads`, `MaxRequests`, the number of `Hosts` and of starts
of contexts, `ResvMax` (128 in the code), `BufMax` (the largest queue), `RecurWidth`.
Two levels are enough to tell the first and last from an inner one. Three threads give a
holder, a waiter, and one that overtakes, steals or times out; the second waiter of a
queue is where order shows. A queue of one entry is full and wraps with every second
event; the size-0 request that the code clamps is there as well. One more thread than
there are descriptors makes ids come round. A generation is used twice, so that a stale
id meets its successor.

Audio: rings of 8 and 16 blocks (8, 16 or 32 in the code), as many blocks as go round them
once (18, and 10 for the guest that does anything), and the ends of the range of
lookaheads, which the mixer clamps. `MaxInits` is 1: with two the output can be closed by a
shutdown that still runs (a finding). Graphics: a ring of four words recycles with every
second frame, `Numbers` (3) tells a word from its neighbours, a queue of one is full at
once, `GatedFlips` is 1 (3 in the code) so that the gate opens; three buffers and depths 1
to 3 are those of the code. Two pump threads race for a count of up to `MaxTicks` (3).
Title: `HitHold` 2 (3) is the first with a reading between full and none, `PollGap` 1 (2)
and `CardHold` 2 (10) keep their order, two losses lose a request and the answer of its
retry, three starts give a kill, a start that saves, and the one that looks; three requests
for two decoders replace a job that runs and one that waits. cellSync: a third thread is a
second writer, or the one that runs ahead in a barrier; two rounds are where it gets ahead
of.

Nothing here is symmetric for TLC: most runs check liveness, for
which symmetry is not sound.

**Deadlock.** `fair_mutex` is checked for it. The other runs say `CHECK_DEADLOCK FALSE`
because they end when a bound is used up, or when every thread sleeps on a service
nobody calls any more, which a guest may do. What must not sleep forever is stated as
liveness instead: `NoStarvation`, `BroadcastWakesHere`, `NoEventStranded`,
`NoTokenStranded`, `SubmissionGoesOn`, `WritersGetIn`, `DescriptorsComeBack`, `StoresGoOn`,
`HostThreadsGoOn`, `GraphicsGoOn`, `TicksAreDelivered`, `StrikesAreHeard`,
`NewestPreviewArrives`.

**Further configurations.** `MCLwMutexStrict`, `MCEventQueueDestroy`, `MCSemaphoreDeadline`
and `MCSysMutexWait` are expected to fail; each shows a finding of section 7.

## 5. Fairness

Weak fairness is assumed of what a thread does on its own once it is in a call (the
`Continue` operator of each module; `Wake`, `Timeout` and `Notify` in `FairMutex`,
`Finish`, `Vanish` and the end of a join in `PpuThread`): the host operating system
schedules threads that can run, and timers expire. The mixer, the frame driver and its
main thread, the copy worker, the preview worker and calls that began are scheduled the
same way, and the display has vertical blanks; strong fairness is assumed of one thing,
the expiry of a timer's period (`TickerWake`): a thread may be woken for no reason and
sleep again, but not in the middle of every period for ever. The guest is assumed to poll
the reports of the I/O board (`taiko_usio.cpp:176` says it does, at 60 Hz;
`StrikesAreHeard`) and, in `FrameCallbacks`, to go on making HLE calls
(`TicksAreDelivered`); in `DrawQueue` the main thread and the workers keep to their
protocol and take their turns (`Turn`). Otherwise nothing is assumed of the guest: it need
not make another call, nor unlock. The properties that need a guest that does say so in
their premise (`NoStarvation` speaks of a mutex no thread keeps). No fairness is assumed
among the threads that contend for a host mutex of `SysMutex`, which is why its liveness
says that *somebody* gets it; the fair mutex does better, which is the reason it exists.
Spurious wake-ups are possible and never required. In `PpuThread` guest code that has
called exit does return to the host entry; a guest thread that has not may run forever.

## 6. Proofs

`FairMutexProofs` proves for every set of threads and every nesting bound, from
`NoneAssumption` alone, that the fair mutex is well formed
(`TypeCorrect`), that its fields agree with its callers (`BalancedAlways`), that the queue
is right (`QueueCorrect`), that wake-ups are kept (`WakeupsAreKept`), exclusion
(`Exclusion`), first come first served (`Fifo`) and that it implements `RecursiveLock`
(`Refinement`). `MutualExclusion` speaks of the callers and is not inductive: what stops a
second holder is that `owner_`, `depth_` and `timed_out_` count exactly the acquires that
callers still have to release, and that in a thread's nesting the late acquires are the
outer ones, so that an unlock that looks at the owner first releases the right one. That
is `Balanced`. A deadline moves a waiter out of the middle of the queue, so the queue must
be known to hold each blocked thread once (`QueueIsWaiters`), and `NoLostWakeup` needs to
know that the one who leaves was not first in the queue of a free mutex. The inductive
invariant is `TypeOK /\ Balanced /\ QueueIsWaiters /\ NoLostWakeup`; there is a lemma for
each action, over lemmas on nestings and on queues without duplicates.

The same module carries this over to `LwMutex`, for any call sites, deadlines and number
of signals, from the assumptions of both modules. Every step of `LwMutex` is a step of
`FairMutex` or leaves it alone, so its invariant holds there too. `LwMutexIsAMutex`: the
callers an lwmutex serializes exclude each other, on whatever sites, as long as no thread
has released a level that another took; where every site is guarded and a thread unlocks
only what it locked, no thread ever does; and where no holder outlasts the acquire
deadline either, all callers exclude each other. It needs that the guest's account
follows the host's: `Mirrored` where every site is guarded. Where some are not, a policy
is published under way, and a thread's locks lie in layers: the open ones, of the time
before, are the outer ones (`OpenThen`), and the rest are its acquires of the host mutex in
order, for as long as nothing went astray (`Layered`). `Counted` says that
nobody has more acquires of the host mutex than locks.
`TimeoutsAreHonest`: a wait on the lwcond that reports ETIMEDOUT was not signalled since
its snapshot of the sequence (`SignalsShow` ties the history to the sequence).
`LastUnlockFrees`: unless `PPU_LWM_ALL` is set, a thread that has unlocked all it locked
does not own the host mutex. That premise is the bug listed in section 7: with
`PPU_LWM_ALL` no unlock gives the mutex back.

`RingProofs` proves the two rings, over the facts about ring buffers in `RingLemmas` (where
one comes on going round, what the occupied part holds when something is stored or taken).
Of `EventQueue`, for any queues, ports, threads, sizes and numbers of events:

- `QueuesAreFifos`: every queue implements `EventFifo`, also when it is destroyed under its
  users and its slot is filled again. A send or receive looks at the queue before it takes the
  lock, and may find another one there then; what the invariant (`EqInv`) says is of the
  queue alone: the indices of an open one fit and its ring holds events that were sent.
- `QueuesHoldTheirOwn`: with a tidy guest an open queue holds only what was sent to it and
  not to an earlier queue with its id. `InOrder` adds that whoever works on a queue, or is
  connected to one, finds it there.
- `ReceiversAreComing`: while somebody sleeps on an open queue, at least as many receivers
  are on their way to it as it has events. This is the safety half of `NoEventStranded`: a
  push wakes one sleeper at most, and late receivers steal. It is nearly inductive; what
  it adds is that those in a call are finitely many, so that they can be counted.

Of `AudioRing`, for any ports, ring sizes and lookahead, from `RingAssumption`:

- `PendingStayLast`: whatever the guest does, a port owes it the positions announced with the last
  blocks, oldest first.
- `MixesAreHeard`: a punctual guest hears its mixes in the order it wrote them, none lost
  or repeated. An event carries no position; receiver and port agree by counting alone. The
  invariant (`GuestInv`) counts the events on their way, in queues and in the receiver's hands,
  against the positions pending (`Covered`), and says which mix lies in each block
  (`Answered`, `Holds`); that blocks of distinct mixes are distinct is arithmetic on
  remainders. The premise `OneReader` is that at most one thread receives, which is how a
  punctual guest is meant: of two, one could match its event before the other that took
  the earlier one, and TLC then finds blocks heard out of order.

`SignalsProofs` proves three modules. Of `RwLock`, for every set of users and either build,
from `RwAssumption`: a refusal by comparison of the unlocked words is true
(`RefusalsTrue`), and the lock is a `SharedLock` (`LockRefinement`). The words alone are
not inductive: `LockInv` also says which threads are between the host lock and the words
(`PlacesFit`), that such a thread or the one told it has the lock is the host's writer
(`HostIsBacked`), that a host writer is alone (`WriterAlone`) and that the words name it
(`WordsNameHolder`).

Of `EventFlag`, for every table of flags, set of threads and set of bits, from
`FlagIdsAssumption`, `FlagThreadsAssumption` and `WantsAssumption`: no thread sleeps
through a pattern that satisfies it (`SleepersAreUnsatisfied`) and no two waits are
satisfied by one rise of a bit they clear (`RaisesAreTakenOnce`). The first is nearly
inductive, because a set wakes every waiter of the flag and satisfied waiters re-check one by
one under the lock; the second needs that a bit that is set was raised more
often than it was taken (`Counted`).

Of `Semaphore`, for any callers, maximum and counts, either build, with deadlines and
without, from its assumptions: on Windows the two counts differ by just the calls between
them (`SemCountsAgree`), and on both builds the semaphore is a `TokenCounter`
(`SemaphoreIsACounter`). The second rests on the first: `ReleaseSemaphore` refuses what
would pass the maximum, and the code would lose the post; that `value`, which is tested
before, is never less than the handle is what excludes it. The difference is a cardinality
of a set of callers and one of pairs of a caller and a token it has yet to add.

`SysMutexProofs` proves for every set of threads and every nesting that the words of a
mutex are backed by the host mutex (`WordsAreBacked`) and that mutex and condition
variables give the guest a `RecursiveLock` (`MutexRefinement`), under `Backing`: the POSIX
build is not re-entered by `sys_mutex_trylock`, which there counts a lock that its host
mutex does not have (section 7). `WordsBacked` speaks of a thread that holds; the
invariant also says for threads in the middle of an unlock or of a wait which levels of
the host mutex are still theirs (`HostCounts`) and when the words are up to date
(`WordsCount`).

Of `CellSync` it proves from `SyncAssumption`, for any users, items and bounds:

- `ReadsStayWhole`: a read of the shared memory returns one write whole. The state is a
  count and a claim that are tested and set by separate atomics; the invariant says that
  the count is the number of threads that raised it and did not yet lower it (a
  cardinality, in `BufferTypes`), that the claim has one owner (`OneOwner`), that no
  reader is past its second look while a writer is (`Apart`), and how far a half-written
  item is (`Halves`, `Copied`).
- `RoundsStayFull`: where all users of a barrier wait, or all poll, nobody leaves a round
  before all are in it. The count is cleared before the phase is advanced, so between the
  two it says nothing; what does is that every user has come to this round or to the next
  and left none but those before (`InStep`), that one closes it (`OneCloses`) and what a
  phase a thread remembers tells it (`PhasesTell`). For users of both kinds it is false
  (finding 10).
- `CellQueueIsFifo`: the queue implements `EventFifo`. Its users look at the count before
  they have the spinlock; the invariant says that one of them is inside (`OneInside`), and
  that the count it tested there and the index it read still hold when it commits
  (`IndexHolds`).

`PpuThreadProofs` proves for a table of any size and any number of host threads, from
`PtIdsAssumption` and `PtValuesAssumption`, that completion objects and handles are not
used when they are gone (`NothingUsedWhenGone`), that a descriptor has one host thread
(`DescriptorsAreExclusive`), that a free one has left nothing open (`NothingIsLeft`) and
that a join returns the status of its own thread (`JoinsReturnTheirThread`);
`DescriptorsStaySafe` states what the run checks of these together. None of these
is inductive: the end of the host thread, a join and a detach may each be the last to let
go. The invariant says for each state of a descriptor which host thread it knows
(`SlotsFit`, `ThreadsFit`), whether that thread's handle is still open (`HandlesFit`), that
a reserved descriptor has one caller that will free it (`JoinsFit`), and that nothing
overwrites an exit status that may still be collected (`StatusFits`).

Of `Reservation` it proves from `ResvAssumption`, for any threads, words and values, that
a conditional store succeeds only if nothing was stored under it since its load
(`StoresAreLinked`: the module implements `LinkedStore`). The premise `Aligned` names what
this rests on: the form of the runtime's headers (the lifter's compares values and is
fooled by one that came back), room in the registry for every start (a context that finds
none is not broken), and words that are always reserved under one address (a doubleword is
not broken by a store to its second word). Each is needed: without it TLC finds a stale
store that succeeds (`StaleStoresFail` with `ResvSetups` of the lifter's form, with `ResvMax`
below the starts, or with the spans {16, 20} and {20}). The abstract reservation breaks when another thread's
store takes effect, the code's only when the scan of the registry comes to its context;
until then the storer holds the lock of the block (`Blocked`), so that nobody else's store
comes between.

`HostProofs` proves one promise of each of six modules, for every value of their
constants.

- `BackupsSurvive` (from `BackupAssumption`): where a rename replaces a file, a start
  finds the memory of the last save that succeeded (`BackupsSurviveAnywhere`); elsewhere it
  may also find a blank one, but only when a later save had removed the backup and was
  killed, or failed, before its own had the name. The invariant says that a whole backup
  holds that memory, that what is about to take its name is whole and of now, and that a
  backup which is not whole was never there or was removed (`BackupInv`).
- `CardsAreOnce`: a command that was carried out may still be with the server, or in an
  answer on its way; `Handed` says that it then is the one the cabinet remembers, and that
  an answer that makes the cabinet forget finds the server without it.
- `PreviewsAreRight` (from `PreviewAssumption`): a decode is stored only with its
  generation, so that a decoder plays the song its generation was asked for (`OneSong`,
  `Plays`), also where `SetData` and reset are interleaved with the worker.
- `StrikesHaveNoGhosts`: `NoGhostStrikes` compares sums of two histories. `Accounted` adds
  what is under way (edges that were not reported, and `Owed`, the devices that are down
  and were not seen), and `LevelsAreHeld` that a level has a device that is down, without
  which a release would be an edge.
- `OutputsStayClosed` (from `OutputAssumption` and `CallersAssumption`, and `MaxInits <=
  1`): guest and host may close at once. The guest opens alone (`OpenedAlone`), one caller
  gets to the closing (`ClosedOnce`), and the thread it joins is the one that was started
  (`NothingUnknown`).
- `TimersAreQuiet` (from `TimerAssumption`): with one thread that calls timers, a timer
  whose stop has returned has no thread (`Settled` says what lies between a start and the
  end of the thread: a timer that is not running is being stopped or has none).

`GraphicsProofs` proves of `KmsPresent`, from `KmsAssumption`, for any number of targets
of whatever depth and at least two buffers, that nothing is drawn or copied over while it
is read (`NothingTears`). Who reads a buffer is not in one variable: `SlotsAreTaken` ties
each slot to the downloads and copies under way, `ReadersAreKnown` the readers of a target
to its slots, `FenceIsUp` the release fence of a buffer to the blank that takes it off the
screen, `OneWay` keeps zero copy and copied frames apart, and `InTurn` says that buffers
and targets are used in their order.

Of `GcmFrames` it proves from `FramesAssumption`, for a ring and a render queue of any size:

- `WordsAreKept`: each batch that is submitted is what a patient guest wrote next, nothing
  lost, repeated or out of order. The invariant (`RingKept`) divides the words that are
  not submitted in two: those walked make the batch, those unread are in the ring from the
  driver's position on (`NothingOverwritten`). That the guest writes over none of the
  second kind is `TurnFits`: the `put` the driver walks to is of this turn of the ring, or
  the ring is being recycled and the tail of the last turn lies before the driver. An
  impatient guest is finding 3.
- `FramesStayWhole`: if this guest clears the display before it draws a frame, or never, a
  batch ends with a flip. A batch is submitted for a flip walked last, or for a clear that
  comes next (`SealsFit`), and before such a clear, or after a flip, the guest's words
  have their flips (`FramesFit`).

Of `FrameCallbacks` it proves from `CallbacksAssumption`, for any number of guest threads,
that no tick is lost or delivered twice (`TicksStayKept`, the safety half of
`TicksAreDelivered`): unless pending ticks are coalesced, the ticks of a handler are those
delivered, those pending, and those that running handlers took, a cardinality of
pairs of a thread and a tick.

Only model-checked is what must happen in the end: `NoStarvation`, `BroadcastWakesHere`,
`NoEventStranded`, `NoTokenStranded`, `WritersGetIn`, `SubmissionGoesOn`,
`DescriptorsComeBack`, `StoresGoOn`, `HostThreadsGoOn`, `GraphicsGoOn`,
`TicksAreDelivered`, `StrikesAreHeard`, `NewestPreviewArrives`. Liveness under fairness
needs ENABLED, which the prover does not treat. The three findings that a run shows are
violations. No module has a recursive operator, and no proof uses induction over data:
cardinalities and ring arithmetic are reduced to the library's facts on finite sets and to
facts on remainders.

## 7. Findings, and what is not modelled

### Disagreements that a run shows

Three runs find a disagreement.

1. `ppu_thread_exit`: a join stores 0 instead of the code given to `sys_ppu_thread_exit`.
2. `audio_restart`: positions and events of an earlier run of a port are left in place, so
   that after a restart every notification gives the position of another one, and the
   guest is told of a block that is not the one announced.
3. `fifo_recycle`: a ring that is filled while the driver walks counts as drained, and words
   that were not read are overwritten.

Four come from the further configurations (`tlc -config X.cfg` on their module).

4. `MCLwMutexStrict`: a strict lwmutex is re-acquired after `sys_lwcond_wait` by the timed
   acquire that may proceed unserialized.
5. `MCEventQueueDestroy`: a receiver that sleeps on a queue is not woken by its
   destruction.
6. `MCSemaphoreDeadline`: on POSIX a semaphore wait that times out may swallow the signal
   of a post; another waiter sleeps on while there is a token.
7. `MCSysMutexWait`: a cond wait on a mutex locked twice keeps the host mutex.

For the others, `PROJECT.json` names the property and the constants with which TLC finds
them; the modules state those properties, and no run has them because the counterexample
would end it.

8. The store conditional the lifter emits accepts a value that came back
   (`StaleStoresFail`, `ppu_lifter.py:392`).
9. The handlers that two threads run at a time share one scratch stack (`StackIsPrivate`,
   `ppu_loader.cpp:2114`).
10. cellSync: the waiter of a barrier may wait for a change that has happened
    (`BarrierOpens`, `cellSync.c:136`) or leave with the round before its own
    (`RoundsAreFullAnyhow`, 114), and a push or pop that starts again translates its pointers twice
    (`NothingAstray`, 353).
11. Timers: two threads that start and stop one timer (`StoppedIsQuiet` without its
    premise, `sys_timer.c:533`), and a queue id that is read three times (338).
12. Audio: an init under a host shutdown that still closes (`ClosedIsQuiet` with
    `MaxInits` 2, `cellAudio.c:978`); the comment on the lookahead (130).
13. Frames: an end of the program that waits for the driver for ever (`DriverEnds` without
    its premise, `rsx_sdl_gpu_backend.c:3608`); a handler that the driver runs after all
    (`cellGcmSys.c:953`); frames that cannot be shown, the third of which is copied over the
    one on screen (`rsx_kms_present.c:817`).
14. Title: a strike told twice without a window system (`StrikesAreOnce` with that host,
    `rsx_sdl_gpu_backend.c:3856`); a backup lost between remove and rename
    (`BackupSurvivesAnywhere`, `taiko_usio.cpp:349`), also when the second rename fails; a card handed out again after a
    lost close (`EachCardOnceAlways`, `taiko_pairing.c:200`); a card that leaves at the poll
    that could have seen it (`CardIsSeen`, `taiko_card.c:564`).
15. lwmutex: the unlock of a caller that took it before a policy was published, or not at
    all, releases the level of whoever has the host mutex, and two callers that it
    serializes are inside together (`SerializedAnyhow` with `LwSetups` = {`Mixed`},
    `ppu_sysprx.cpp:702`).

### Further disagreements seen while modelling

No module states these; the places are given for whoever takes them up (SYSCALLS.md is
`src/ps3recomp/docs/SYSCALLS.md`, code below RT).

- lwmutex: with `PPU_LWM_ALL` a lock is serialized but nothing is published, so no unlock
  gives the host mutex back (`ppu_sysprx.cpp:473`, 702); the guest's words are zeroed after
  the release in a wait (782).
- Event queues: a port to a destroyed queue reaches the queue that gets its id
  (`sys_event.c:913`, SYSCALLS.md:328; *tidy* excludes it); a queue that is not empty is
  destroyed (175, SYSCALLS.md:320); a slot is active before its lock is initialised (117).
- Event flags: a wait on a destroyed flag returns CELL_OK (1197, SYSCALLS.md:349); a bit
  set and cleared at once may wake nobody for good (1318, SYSCALLS.md:340).
- Mutexes: POSIX trylock by the holder counts a lock the host does not have
  (`sys_mutex.c:262`; `TryAgain` is FALSE there); a held mutex is destroyed (155); a cond
  wait by a thread that does not hold the mutex (`sys_cond.c:221`).
- Semaphores: on Windows EBUSY or EINVAL while the second count lags; `value + count` may
  overflow (`sys_semaphore.c:331`, 341).
- Reader-writer locks: POSIX ignores the results of pthread calls, so the writer's second
  lock returns CELL_OK (`sys_rwlock.c:182`, comment at 174); timeouts are ignored.
- Reservations: the registry of 128 contexts never shrinks (`ppu_loader.cpp:157`); with
  `ResvMax` 2 and three starts the runtime's form also lets a stale store succeed. A
  doubleword reservation is not broken by a store to its second word.
- HLE calls: `sys_ppu_thread_once` sets its control word before it runs the guest's
  function, so that a second thread goes on while that still runs (`ppu_sysprx.cpp:71`);
  an lwcond that is created again under its waiters starts its sequence at 0 (725).
- SPU: GETLLAR and PUTLLC hold a spinlock that plain stores of the PPU do not take
  (`spu/spu_channels.c:207`, 302); channels are written by both sides without a lock
  (`spu_context.h:358`); `sys_spu_thread_write_spu_mb` writes over mail that was not read,
  an event is dropped when the inbound mailbox is full, a group's terminate does not stop
  its host threads and its destroy frees the local stores of threads that run
  (`syscalls/lv2_register.c`).

### Left out of the modelled parts

Diagnostics, logging and trace stamps; name attributes; the start gate for debugging in
`sys_ppu_thread.c` (195-224); priorities; queries that change nothing; calls on ids that
do not exist; `PPU_LWM_ALL` is a constant that every run sets FALSE; a rwlock taken for
reading by its writer, which the hosts leave undefined; destroying a semaphore or a rwlock
that somebody uses; plain stores of other threads to a reserved word.

Of the two builds: on Windows a join of the timer thread gives up after three seconds
(`sys_timer.c:436`) and the mixer's after two (`cellAudio.c:914`), and the caller goes on; the
models have the POSIX form. A writer's second lock and an unlock by a thread without the
lock, where the POSIX build of `RwLock` ignores what the host says (182, 235), are calls that
its guest does not make. Destroying a held CRITICAL_SECTION, which is undefined, keeps its
state in `MutexDestroy`.

Of the frames: the empty batch that is submitted before anything was drawn
(`rsx_recorder.c:1061-1063`); that a driver which is late makes up to 240 refreshes in a row
before it can be joined (`frame_driver.cpp:151-164`); a failed wait for a target's fence, or a
failed commit, after which the renderer goes on in the target it has
(`rsx_sdl_gpu_backend.c:2824-2842`).

Of the host and title parts: writes of part of a page or of several records at a time; the
polling of the devices inside a report where the Windows sampler could not be started
(`taiko_usio.cpp:954-961`); reads of the USB board in several packets and packets without
data; how cards are encoded; that a file which was closed may still not be on the disk
after a power cut (the code does not ask for it); the eviction of decoded songs, positions
and loops inside a song; the words of the second player, which are handled like the first's;
several calls at a time on one decoder, which the guest's library serializes;
frames that cannot be shown after their copy (finding 13); an unlock of a cellSync lock by a
thread that does not hold it; audio and input devices themselves, which are external.

### Components not modelled

- *SPU channels, DMA, line reservations and job dispatch; thread groups.* Nearly every
  access is a data race on words that generated code of two processors touches; whether
  two jobs run at once, and what a group does when it is told to end, is decided by guest
  code that is not in the repository. A model would be of invented guests.
- *Title fixes, memory, files, program loading, HLE tables, most system libraries.* Tables
  that are filled before threads run, or that one lock covers; conversions and arithmetic.
  Tests reach what can go wrong there.
- *SPURS and cellSync2.* The game brings its own SPURS; cellSync2 keeps its objects in tables of
  the host that are found without a lock, and uses guest addresses as host pointers.
- *Lifters, scripts and deployment.* Offline; the reservations their output
  contains are modelled.

By lines, most of the repository is what these names say: image and font decoders, tables
of names, textures, a renderer, generated code and answers of libraries for one caller. The
parts with state that several threads share are a small part of it, and those are the parts
that are modelled.
