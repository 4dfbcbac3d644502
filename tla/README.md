# A TLA+ verification of sans-effort

sans-effort runs *routines*: async functions that perform no effects
themselves. A routine records effects in an *outbox* and awaits replies; a
*host* (Rust, or another language over a C ABI) performs the effects and
replies. This directory models that protocol from the outbox's slots up to the
hosts that run a whole program, checks the models with TLC on small instances,
and proves results about them with TLAPS for all instances.

Everything is translated from the source; `PROJECT.json` maps each definition
to the lines it models.

## The system

| Component | State | Operations | Interacts with |
|---|---|---|---|
| **Outbox** (`sans-effort-core/src/driver/outbox.rs`, `asking.rs`) | recorded effects, the request being built, places held behind it | `tell`, `mint`, `open`, `unreserve`, `drain` | cloned into the routine, its requests and possibly other threads; owned by the driver |
| **Batch** (`sans-effort-core/src/driver/batch.rs`) | up to two effects in place, more in a vector | `push`, `map`, conversions, iteration from both ends | filled in the outbox, drained into a yield, numbered by the machine |
| **Mailbox** (`mail.rs`, `awaiting.rs`) | slots by id, the count of open ones, ids closed, next id | `mint`, `open`, `deliver`, `collect`, `close`, `take_closed` | inside the outbox, under its lock |
| **Stepper and wakeup** (`stepper.rs`, `wake.rs`, `status.rs`) | the future, the last status, the `woken` flag, the hook | `resume`, `try_reply`, `poll`, `wake_up`, `hold`, `clear` | polls the routine; called by wakers on any thread; calls the host's hook |
| **Machine** (`sans-effort-host/src/machine.rs`) | `pending` handles by id, `highest_shown`, `never_shown` | `resume`, `reply`, `show` | wraps a driver; checks at run time what Rust checks in types |
| **Handle table** (`sans-effort-host/src/table.rs`) | machines, parked and pinned ones, per-thread `LOCAL` and `CALL`, `WAKES` | `new`, `new_pinned`, `resume`, `reply`, `free`, `wakes` | process-wide; called by any thread and by routines that spawn; the hook of every driver |
| **Recording** (`record.rs`; `adopt`, `note`, `issue` in `table.rs`) | sessions, taps, logs, `REISSUE` | `record`, `finish`, `replay`, saving and reading a log | taps the table's calls |
| **Codec and answers** (`boundary/codec.rs`, `encoded.rs`, `reply.rs`, `contract.rs`) | none | frames, records and logs, encoded and decoded | between machine and table; the other half is written by hand in each host |
| **Effects, combinators, demo routines** (`sans-effort-effects`, `join.rs`, `select.rs`, `demo/routines`) | the routine's place and what it holds | `ask`, `tell`, `spawn`, channels, `join`, `select` | the routines' own code |
| **Test host** (`testing.rs`, `testing/schedule.rs`) | queue, virtual clock, schedule | `drive_with`: ready actions, kills, spurious resumes | a Rust host for tests |
| **Demo hosts** (`demo/driven/python`, `demo/driven/java`) | queue or inboxes, timers, tasks, a count of what is in flight | the loop, its end-or-stall verdict | over the C ABI |
| **Tokio console** (`sans-effort-tokio/src/console.rs`, `ctx.rs`) | input, the line in progress, the mutex's queue; the writer and its `failed` flag; the clones sharing both | `read_line`, `write_line`, `into_parts` | any number of tasks and threads |
| **Native hosts** (`sans-effort-tokio`, `demo/native`) | tasks, timers, a dispatcher and promises | effects performed by the context | no driver |

The behaviours that are hard:

- *Effects built by caller code.* A request's id is minted, its place in the
  order reserved, and then the caller's constructor runs with no lock held. It
  may record more, ask again, panic, or be overtaken by other threads.
- *Requests dropped at any moment*, on any thread, before or after the reply
  is stored; `select` by reference keeps a request through a race.
- *Wakes from other threads* between and during polls, and the two-step
  `wake_up` (swap, then hook).
- *Calls on handles* from several threads, nested inside polls, panicking,
  racing `free` and the end of a thread.
- *Reads of a shared input* dropped at any await, with bytes taken and others
  in line; *writes to a shared writer* that breaks under several of them.
- *A recording* whose entries are made after the calls, under another lock.
- *The end of a run*: a host must say "stalled" when, and only when, nothing
  can go on, with wakes, timers, replies and spawned machines in flight between
  its threads.

What makes each part correct: the outbox is an ordered log and loses nothing;
the mailbox is a map; no wake of a suspended routine is lost; the machine's
table and codes agree with the driver; one call at a time per machine, a pinned
machine on its thread, every wake reported, a freed handle bad for good; a log
is the run and replays to itself; what one side of the wire writes the other
reads; every host writes the same transcript, forgets no machine, has no call
refused, and ends with a true verdict; the console's readers share one queue of
whole lines, its writers mix no lines and report a failure once.

## Modules

| Module | Models | Extends, implements |
|---|---|---|
| `EffectLog` | what the outbox promises about order: a log of places, filled or given up, drained as far as no reserved place stands before | abstract |
| `Outbox` | outbox.rs, asking.rs, awaiting.rs; the mailbox as a map | implements `EffectLog`, with `log` the undrained places |
| `EffectList` | what a batch promises: a list | abstract |
| `Batch` | batch.rs: the four forms and what a yield does with them | implements `EffectList`, with the list the items held |
| `MailMap` | what the mailbox promises: a map of open requests, with each call's result | abstract |
| `Mailbox` | mail.rs: the sorted slot vector, lazy sweep, shortcut to the newest slot | implements `MailMap`, with the map read off the open slots |
| `Stepper` | stepper.rs, wake.rs: one driver, threads that wake it | - |
| `Machine` | machine.rs and status.rs | extends `Outbox` |
| `HandleTable` | table.rs without recording | - |
| `Codec` | codec.rs, encoded.rs, encoded/input.rs, the saved form of a log: pure operators | - |
| `Recording` | record.rs and the recording parts of table.rs | extends `Codec` |
| `Boundary` | the wire contract of the demo library and its Python and Java hosts, each with its own hand-written table | extends `Codec` |
| `Routines` | the demo routines, `join`, `select`, effects and channels | - |
| `HostLoop` | what the hosts share, and the properties they promise | extends `Routines` |
| `TestHost`, `PythonHost`, `JavaHost`, `NativeHosts` | one host or pair of hosts each | extend `HostLoop` |
| `LineQueue` | what the tokio console promises its readers: whole lines, in the order asked | abstract |
| `TokioConsole` | console.rs and the sharing of ctx.rs | implements `LineQueue`: a byte taken and not returned is still the input's |
| `MachineProofs`, `MailboxProofs`, `StepperProofs`, `HandleTableProofs`, `ConsoleProofs` | theorems and proofs | extend `Machine` (and so `Outbox`), `Mailbox`, `Stepper`, `HandleTable`, `TokioConsole` |
| `HostProofs`, `SchedulerProofs`, `WakeProofs` | theorems and proofs of all seven hosts | each extends the one before; `HostProofs` extends `MCHostLoop` |

`MC*.tla` and `MC*.cfg` instantiate them for TLC; `MCHostLoop` composes the
hosts over one set of routines; `MCRecording` puts `Recording` and `Boundary`,
and `MCMailbox` puts `Mailbox` and `Batch`, which share no state, in one run.
A type invariant that is proved is not checked again. An operator marked *Faulty* is a variation of
the definition after it that a plausible bug would make, with which the property
`PROJECT.json` pairs it with fails: it shows that the property depends on that
line of the code.

### How states and actions correspond to the code

*Outbox.* Each section under `Inner`'s lock is one action. The time between
`Mint` and `Open` (or `Unreserve`) of one thread is its constructor running;
`making[t]` is that thread's stack of unfinished constructors, so builds nest.
`owner` says which thread holds a request's `Awaiting`, which is `Send`
(`Move`). A drain hands over the reply handles with the effects. Histories
(`accepted`, `shown`, `reported`) record what the host has seen.

*Batch.* One action for each thing a yield's batch goes through: pushed into at
`record`, drained with the ids closed, numbered by the machine (`map`), turned
into a vector and back, iterated from either end. Effects are model values of
two kinds.

*Mailbox.* One action per method of `Mail`. `Positions` is `position` with its
shortcut: the last slot is found on its id alone. `Retained` is `Vec::retain`
of the open slots, by position. `result` is the return value, so that the
refinement covers it.

*Stepper.* `idle`, `held` (a reply delivered, its poll not begun), `polling`,
`done`. `wake_up` is `Swap` then `CallHook`, by any of `Wakers`. The channel
the routine waits on is external: a count and the waker it keeps. `noticed` is
what the host has been told and not acted on.

*Machine.* `Resume` and `ReplyOk` begin a poll; `RoutineStep` is the routine's
use of the outbox in it; `Suspend` or `Return` then `Complete` end it with the
drain, `classify` and `show`, which run without the host seeing a state between
them. Other threads use the outbox at any time but between the drain and
`show`, which share nothing with it. `CodeOf` is the reply code `take` gives.
A message's kind and value are abstracted to right, wrong kind and malformed.

*HandleTable.* A call is a frame on its thread's stack; its stage says which
lock it holds and what it has done. `find` and the start of the call are
separate from `try_lock`, and removal after a panic from the unlock. A
construction, a poll and a destructor are the time a frame spends in
`building`, `running` and `returning`, in which its thread may create, wake,
free and call. `woke` goes to the innermost frame with a `CALL`, else to
`WAKES`. `ThreadEnds` destroys a thread's `LOCAL`: its pinned machines are
dropped, waking others, while their entries stay in `pinned`; it assumes `CALL`
outlives `LOCAL`. A driver's hook is assumed callable at any time: `Stepper`
says when.

*Codec.* A writer is the sequence it appends; a reader gives what it read and
what is left, or the error. A byte has `Base` values, a `u32` `W32` bytes and a
`u64` `W64` bytes, with the code's little-endian and wrapping arithmetic.
Characters are ASCII, below `Base \div 2`.

*Recording.* A host drives a root machine and what it creates, beside machines
of others: `sequential` on one thread, one call at a time, or `parallel`, where
a machine is called from one thread at a time. A call is one step and its entry
in the log another (`noting`), as `note` takes the table's lock again after the
call. What a call does inside is `HandleTable`'s. Then the log is saved, the
process may start anew, the log is read and replayed on one thread, while others
go on creating machines; `Issue` and `reissue` hand out the recorded handles.
The calls include wrong ones (`MaxSlips`): a second reply, a call after the end.

*Boundary.* Each of the three tables is transcribed from its own program: the
library's `View` and `Full` (`Tag`, `EncodeView`), Python's `decode`
(`PythonTable`) and Java's (`JavaTable`), and likewise the writers. The routine
yields any effects its trait bounds allow; the library encodes the batch, the
host decodes it and answers with its own writers, the library checks the record
on delivery and the routine decodes it at its poll. A host whose `knows` is part
of the tags is older than the library. A host with `slips` sends another type's
record, or a damaged one; its exception on the refusal is taken as caught.

*Routines.* A routine is a sequence of instructions, one per effect, channel
operation and await of its source. A poll is many steps, so polls of different
machines interleave. Its end (`out`) is the batch the host reads. Channels
(async-channel, tokio's and the hosts' clocks, JavaScript promises) are
external. Texts are labels with the number they show.

*Hosts.* `TestHost`: each turn of `drive_with` takes what woke, then kills a
machine, resumes one spuriously, or takes one ready action; `fifo` takes the
oldest, `choices` any. `PythonHost`: the queue of `drive`, plain or with the
lanes of `--seed`. `JavaHost`: `post`, `schedule`, the workers' drain and the
tasks, split wherever another thread can look between, with `pending` the count
whose zero ends the run. `NativeHosts`: tokio's tasks in parallel and local
tasks on one thread; JavaScript's single thread with dispatcher, promises and
abandoned sleeps. A call the library would refuse sets `refused`.

*Tokio console.* A read holds the mutex across its awaits, so each byte of a
line is a step (`TakeByte`) and it may be dropped between any two (`DropRead`);
what it took stays in `partial`. tokio's mutex is first come, first served, and
external. A write is the look at `failed`, the text and the newline, a step
each, on any thread; each may fail. Bytes are one of four: of a text, of no
text, and the two of an ending.

## Runs

| Run | Bounds | Shows |
|---|---|---|
| `outbox` | 2 threads, 3 requests, 1 tell | implements `EffectLog`; `PlacesHaveBuilders`, `ClosedExactly`, `SlotsAreOwned` |
| `mailbox` | 5 requests, 2 unopened, 1 closed undrained; 4 effects, 1 id closed | implements `MailMap`; `Shape` (the test's `assert_shape`); of `Batch`: implements `EffectList` |
| `stepper` | 2 threads, 3 sends, 2 spare calls | `NoLostWake`, `HookOncePerPoll`, `NoticesAreNews`, and `MessagesArePolled` under fairness |
| `machine` | poller and another thread, 3 requests, 1 tell | `CodesAreExact`, `IdleOwesNothing`, `CallsHandOverEverything` |
| `table` | 2 threads, 2 machines, 2 calls in progress | `OneCallAtATime`, `PinnedStaysHome`, `NoWakeLost`, `BadHandleMeansGone` |
| `tokio_console` | 3 users; 3 bytes, 3 reads, 1 read error, or 4 lines beside 1 read | implements `LineQueue`; `WriterBreaksOnce`, `LinesKeepTogether`, `PartsAreWhole`, and `ReadsReturn` under fairness |
| `hosts` | 9 demos on 7 hosts, 3 machines, 2 rounds, 2 lines, 2 entries, 2 workers, 2 kills, 2 (Java 1) spurious resumes | `SameTranscript`, `SurvivorsComplete`, `VerdictIsTrue`, `NoMachineForgotten`, `NeverRefused`, `SchedulerIsExact`, `TimersAreWanted`, and `Ends` under fairness |
| `recording` | 8 setups, 2 threads, 3 calls, 1 slip; bytes of 16 values, `u32` of two, `u64` of one | `LogIsTheRun`, `ReplayAgrees`, `ReplayLeavesNothing`, `HandlesAreUnique`, `SavedLogSurvives`; of `Boundary`: `HostReadsTheBatch`, `AnswersArriveAsMeant` |
| `machine_leak`, `machine_replied`, `table_panic`, `recording_build` | smaller | disagreements between code and documentation, below |

Why the bounds are enough. *outbox*: three requests are the fewest with one
being built, one held behind it and one overtaking both; a tell stands for
everything ready at once. *mailbox*: with five slots a sweep happens with two
still open, in the middle and at the end; closed slots may outlast open ones;
two unopened ids give every out-of-order insertion. *stepper*: with two threads
one's swap absorbs the other's; three sends give a wake before, during and
after a poll. *machine*: three ids make a gap between two shown ones. *table*:
two calls are two threads on one machine, or one nested in the other; two
machines let one wake or call the other. One call of a third thread adds a
third clone of an entry, which behaves as the second; the theorems below need no
bound. *Batch*: two effects fit in
place and the third moves them; four leave some at both ends of an iteration.
*tokio_console*: three bytes are a line dropped in its middle with its ending of
two bytes; three users are one with the guard and two in line, of whom the first
may leave, or two past the flag when the third fails; a read beside the writes
shows that the parts wait for it. Input and output share only the context's
clones, so a behaviour is of one of them (`Apart`). *hosts*: three machines are the ring with a middle, the front desk with
two workers, a spawner with two children; two rounds let a wake of the first
meet the second; two workers are two machines polled at once and one machine's
events posted while another thread drains it. The front desk runs without
spurious resumes on Java (`Steady`), where they multiply its states most. *recording*: the setups
are each routine with its hazard: a child, a child that is woken, a pinned one,
a panic, two recorders, machines of others, and handles at the end of `u64`;
three calls reach a call on a child, woken or refused, after its parent's. `SavedLogSurvives` is evaluated on logs
of at most three calls, cut at every length and with every byte changed.
*Boundary*: one effect of each kind with its boundary values, in batches of two;
a host at fault gets two records wrong, so that a wrong one follows a wrong one;
a Java host knowing only the ticker's two tags is the oldest there could be.
Sixteen values of a byte are enough for the tags, which are below 13, and for
lengths, which reach `Base + 1` so that the second byte of a length counts.

`stepper` does not check deadlock, since a routine may wait for ever for a
message nobody sends; nor do `tokio_console`, whose inputs
are bounded, and `hosts` and `recording`, whose runs end.

### Fairness

All fairness is weak: each step stays enabled until taken.

`stepper`: a thread inside `wake_up` finishes it, a poll ends, the poll after
an accepted reply begins, and the host resumes what the hook told it of
(`ABI.md`, Frames and Writing a Host). Nothing makes the host reply, or resume
otherwise, or anybody send.

`tokio_console`: the runtime polls a read that can go on (`Read`). Nothing makes
anybody send a byte, begin a read or drop one.

`hosts`: the one thread of a single-threaded host, each worker of a parallel
one, its tasks, its quiet check and a native runtime each run on. Nothing more
is assumed of the schedule; spurious resumes and kills are bounded, so that a
run under fairness is one in which they stop.

### Disagreements found

- `machine_leak` (`PendingTracksDriver`). `show`'s comment says the pending
  table tracks the driver's. A request dropped while its effect still waits
  behind another thread's build is reported closed one batch before its effect
  is shown; its handle is then added and never removed.
- `machine_replied` (`RepliedNeverClosed`). `ABI.md` says a request replied to
  is never closed. If another thread has just dropped it, the reply is answered
  with an empty batch and the id is then reported closed.
- `table_panic` (`PanickedNeverRuns`). A call that found a machine before
  another call's panic removed it takes its lock afterwards and runs it:
  `guarded`'s comment excludes this.
- `recording_build` (`ReplayAgrees`). `record.rs` says each call on a session's
  machine is logged. A resume whose construction of a pinned routine panics
  returns before `note`: the log lacks it, and the replay differs from there.

The first two need an outbox or a request shared with another thread, which
its `Send` and `Sync` allow. The models reach these too, without a run of
their own:

- A pinned routine freed by its own construction stays in `LOCAL` under a
  handle nothing finds. Ids are not gapless where a constructor panicked.
- `Awaiting` is documented as "at least one request awaits a reply"; it counts
  requests answered and not yet collected, so a host may have nothing to reply
  to.
- `console.rs` says an undecodable reply "reads as `ReadLineError::Failed`";
  the library refuses it as malformed, and the routine never sees it.
- Java's `u64` is a signed `long`: a `Sleep` of 2^63 ms or more makes
  `Thread.sleep` throw. `Sleepable` keeps to shorter ones.
- A host older than the library skips an unknown tell. Where it is a `spawned`,
  that child is never begun.
- Handles are "never reused" (`ABI.md`), but the counter wraps at the end of
  `u64`; a log may bring it there. A recorder's number, "never 0", wraps at 2^32.
- A tap outlives its machine: if its handle is issued again while the session
  is open, the new machine's calls are logged there. Machines created in a
  pinned routine's construction, or by a destructor outside a call, are not
  adopted. A call answered `WRONG_THREAD` is answered otherwise by a replay,
  which has one thread (`ReplayAgrees` excludes it).

## Proofs

Every step is checked by TLAPS. The only assumptions are those the modules
state: that bounds are naturals (`BoundsAssumption` of each), the waking threads
finitely many, and that `Nobody` is no thread (`NobodyAssumption`).

`MachineProofs` on `Outbox`, for any threads and any numbers of requests and
tells, its types and all properties the `outbox` run checks:

- `TypeCorrect`: `Spec => []TypeOK`.
- `OutboxIsALog`: `Spec => ImplementsEffectLog`, the refinement. The invariant
  `OrderInv` is what the comment on `Inner` asks: nothing is held while a
  request is in `building` (`Alone`), and what is held begins with a place not
  ready (`FirstIsReserved`). From it, `RecordAppends`, `FillFills`,
  `GiveUpRemoves` and `DrainTakesReady` say what each of the outbox's sections
  does to the undrained places as one sequence; each is a step of the log.
- `PlacesKeepBuilders`: `Spec => []PlacesHaveBuilders`. `IdsInv` says a request
  has one place, or is shown, and none before it is minted; `MakingInv` that the
  requests being built are those with a reserved place, each built once.
- `SlotsStayOwned`: `Spec => []SlotsAreOwned`, from `MailInv`: a request still
  held is recorded, waits exactly until its reply is accepted, and waits while
  its effect is not drained or its handle not spent.
- `ClosedOnceEach`: `Spec => []ClosedExactly`, from these: a request leaves its
  owner once, and is then reported if and only if its slot waits.

`MailboxProofs`, for any number of requests, its types and both properties of it that the
`mailbox` run checks:

- `MailboxTypeCorrect`: `Spec => []TypeOK`.
- `ShapeKept`: `Spec => []Shape`. The invariant adds that a closed slot keeps
  neither value nor waker, and (`Fresh`) that an id still to be opened has no
  slot, which an insertion in the middle needs.
- `MailboxIsAMap`: `Spec => ImplementsMailMap`. The map depends on the open
  slots alone (`MappedIs`), and each operation on the vector is one on that set:
  `InsertIs` for a slot that goes in by its id, `SetIs` for one changed or closed
  where it is, `PoppedIs` and `RetainedIs` for the closed ones taken off the end
  and swept out, which leave the set as it is.

`MachineProofs` on `Machine`, for any threads and any numbers of requests and
tells, its types and all properties the `machine` run checks. A machine's step
is a step of its outbox (`StepIsOutboxStep`), so what is proved of the outbox
holds of it (`Beneath`):

- `MachineTypeCorrect`: `MachineSpec => []MachineTypeOK`.
- `CodesStayExact`: `MachineSpec => []CodesAreExact`. `show`'s comment, "ids
  ascend", is `AscInv`: the places not yet drained are in the order of their
  ids, however builds nest and overtake. With it, `CodeInv` says `highest_shown`
  parts the ids shown from those still in the outbox, and `never_shown` is what
  is missing below it; `PendInv` that a handle is in `pending` until it is
  spent or reported closed.
- `IdleStaysFree`: `MachineSpec => []IdleOwesNothing`.
- `CallsLeaveNothing`: `MachineSpec => []CallsHandOverEverything`, from
  `AloneInv`: between polls the lone poller is building nothing, so no place is
  held back (`NothingBuilt`), and nothing reported closed is still unshown.

`StepperProofs`, for any finite set of threads and any bounds on sends and
calls:

- `TypeCorrect`: `Spec => []TypeOK`.
- `WakesAreKept`: `Spec => []NoLostWake`. Not inductive alone: a second
  thread's swap is absorbed by `woken`. `WakeInv` adds that a set `woken` is
  covered by a thread still to call the hook or by a notice the host has not
  acted on, except between a reply and its poll (`WokenIsCovered`), and that a
  routine that suspended on an empty channel left its waker (`EmptyIsArmed`).
- `HookIsCalledOnce`: `Spec => []HookOncePerPoll`, from `HookInv`: one more
  call than polls only while `woken` is set.
- `HookIsNews`: `Spec => []NoticesAreNews`, from `NewsInv`: a thread is before
  its swap or after it, and each inside `wake_up` sent a message.

`HandleTableProofs`, for any set of threads, any number of machines and any
depth of nested calls, its types and all properties the
`table` run checks:

- `TypeCorrect`: `Spec => []TypeOK`.
- `WakesReachACaller`: `Spec => []NoWakeLost`. The invariant adds that a frame
  that has no `CALL` yet has noted no wake (`Silent`), so that a failed
  construction loses none, and states the property frame by frame
  (`OwedIsNoted`).
- `CallsNeverOverlap`: `Spec => []OneCallAtATime`, from `OneHolder`: two frames
  that hold one machine are one frame.
- `PinnedNeverMoves`: `Spec => []PinnedStaysHome`. `HomeInv` adds what each
  stage of a call knows of its machine (`FramesHome`), that a machine is in the
  table in one way (`TableHome`), and that an entry in `pinned` is backed by
  `LOCAL` of its thread, or the thread has ended or is building it
  (`PinnedIsHome`).
- `GoneForGood`: `Spec => []BadHandleMeansGone`. `GoneInv` adds to `HomeInv`
  that an ended thread makes no call, that a handle freed or panicked is out of
  the table and below the counter (so it is not issued again), and that a call
  made after that can only find nothing (`GoneIsOut`, `LateIsRefused`). The
  lemma `FrameSteps` says, once, what any step does to any call;
  `OutForGood` that a handle once out is never put back; `BeneathStays` that a
  construction stays on the stack beneath the calls it makes.

`ConsoleProofs`, for any finite set of users and any bounds, its types and
every property the `tokio_console` run checks but the liveness:

- `TypeCorrect`: `Spec => []TypeOK`.
- `ReadersAreServedInOrder`: `Spec => ReadersShareALineQueue`, the refinement.
  `InputInv` says that the mutex is free only when nobody waits, and that the
  line in progress has no newline, so that what a dropped read leaves is the
  front of the next reader's line.
- `WriterReportedOnce`: `Spec => []WriterBreaksOnce`. A writer past the flag
  leaves it for good or sets it, and `OutputInv` adds that nothing is late
  before that.
- `LinesStayWhole`: `Spec => []LinesKeepTogether`. `GuardInv` adds that one user
  at most is between its text and its newline, and that the sink ends in that
  text, or, when there is none, in a newline.
- `PartsComeBackWhole`: `Spec => []PartsAreWhole`. `SharingInv`: a user in a
  read or a write has a clone.

`HostProofs`, `SchedulerProofs` and `WakeProofs`, for any of the demos at any sizes, any
number of machines and workers and any bounds on kills and spurious resumes:

- `TypeCorrect`: `Spec => []TypeOK`, of the routines and all seven hosts
  together. `AllOK` is its inductive form: what is at each place of each
  routine (`IsHere`), that a machine's mail has no id it has not minted, that an
  effect of a child names a machine, and the same of every queue, inbox, batch,
  task and promise an effect is copied to.
- `SchedulerExact`: `Spec => []SchedulerIsExact`, of the Java host.
  `OneWorkerEachAlways` needs only `Placed`. The count needs that a request is
  asked once, or its task would replace another and one of the two never be
  given back: `Fresh` says, of the requests in a machine's output and in a
  worker's batch, that they differ, are minted and have no task, and that a
  machine whose batch is being dispatched has no output. `Counted` says that
  the five things counted are finite sets; each step adds to each, or takes from
  each, one element at most (`Moves`, `WorkerCounts`, `TaskCounts`).
- `NobodyIsRefused`: `Spec => []NeverRefused`, of every host; the test host and
  the native ones refuse nothing. `Polls` is what the hosts rely on: a routine
  awaits requests only at the instruction that made them (`Asking`), a machine
  has an output only during a poll, and a request in that output is open or in
  its `closed` list (`AskedOut`); `Progress` says what one step of a poll does to
  all of this. For the Python lanes, `Pythonic`: an ask or a timer is kept once,
  and its request is open, closed in an output still to be read, or in `closed`
  (`Kept1`), so what is not abandoned can be answered. For Java, `Javan`: a
  registered machine can be called unless some worker is between its call and
  its freeing of it (`Lived`); a child is unknown to the scheduler until the one
  frame that bears it is read, so it is neither called nor pinned before
  (`Born`); a pinned machine is in no worker's hands or line but its home's
  (`Homes`); a request in `inFlight` is open, or its closed frame is in an
  output or a batch, and each batch asks for a request before it closes one
  (`Wanted`).
- `NobodyIsForgotten`: `Spec => []NoMachineForgotten`, of every host: a machine
  that can make progress is one some host step will poll. `Awake` is what it
  needs of a routine and of its host. Of the routine: one suspended at a channel
  stays among the channel's listeners until it is woken (`Listening`), and the
  answers it awaits wait for it only once a poll is scheduled (`Heeding`). Of
  the host: a machine made or woken is in its host's hands until it is polled
  (`AllDue`; `NativeDue` for the hosts that keep a set of runnable machines,
  `Called` for those that call one at a time). `GoersAre` puts the two together:
  a machine that can go is new, or woken, or runnable.
- `TimersWanted`: `Spec => []TimersAreWanted`, of the two native hosts; the
  others keep no such timers. For tokio, `TokioTimers`: what is under way is
  open, and is not of a kind answered in the poll that asks (`Unhurried`), so an
  answer given at once never leaves a timer behind. For JavaScript, `JsTimers`,
  of what is under way and of what is queued for the dispatcher: it is open, or
  a request to give it up is queued behind it. That step of a poll which leaves
  an open request open no more is a select's (`PollOpens`), and it sends the
  abandonment (`LosesIs`), which needs that no number sent is the one that stands
  for a passed deadline (`NumbersTold`). `Afoot` follows the requests the dispatcher
  serves, one after the other.
- `VerdictsAreTrue`: `Spec => []VerdictIsTrue`, of every host. One with a queue
  decides when it has nothing left, and then, by `Called`, nobody is due
  (`QueueingCalm`); tokio drops whoever is left. JavaScript completes when every
  task that keeps a context is over, and only `deadline` and `deadlock` have
  tasks that keep none, so what is left to show is about those two routines
  (`Counts`): in a deadline each worker has sent by the time the root is past
  its last receive (`RaceCast`), as no patience ends before the message it is
  for (`PatienceOnly`); in a deadlock the root never returns (`LockCast`). For
  Java, `Concludes`: a machine made or woken has a resume counted, queued or
  being handled (`Summoned`), or a frame for one in an output or a batch
  (`JavaDues`), also when a completed machine is freed outside any call, for it
  has nothing left to drop (`Emptied`); so when the count is zero (`NothingCounts`)
  nobody is due. What the workers still do after the verdict starts nothing
  (`Quieted`): the tasks left were all cancelled (`Parted`), so their replies are
  wanted by nobody, and no reply is taken for a resume, which has number 0
  (`AllNumbered`).

Only model-checked: liveness (`MessagesArePolled`, `ReadsReturn`, `Ends`), which is beyond the
prover; the properties of `Recording` and `Boundary`, where a note, a poll, the
end of a replay and the codec are folds over sequences, and what a fold gives
for every input needs induction over data, which is beyond it too; and the hosts'
`SameTranscript` and `SurvivorsComplete`, which are about what each demo routine
says, not about every `Code`.

## Not modelled

- The driver number in a handle (a handle replied to another driver panics), a
  hook replaced during use, and a hook that resumes its own driver: the
  documentation asks a hook only to note the fact, and every hook here does.
- The locks' own implementation and memory orderings: a lock is an atomic
  section, an atomic operation a step.
- UTF-8 beyond ASCII, `Random` of 2^31 bytes or more, and that `Random`'s answer
  has the length asked, which the library does not check either.
- The C ABI's pointers and lengths, and the conversions of JavaScript values:
  marshalling.
- On tokio: the bytes of a line whose read was dropped after it began, failed
  writes, the file system and the environment. The demo's `journal` reads and
  writes one file that behaves.
- A handle wrapping round in `HandleTable`; `Recording` models it.
