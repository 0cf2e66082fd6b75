# FreeModbus master and slave on RT-Thread: TLA+ models, model checking and proofs

This directory specifies the Modbus stack of this repository: the FreeModbus
slave and the Modbus master added to it, as ported to RT-Thread 1.2.2 on an
STM32. The code is C; the difficult part of it is not computation but the
meeting of a poll thread, requesting threads, a transmit thread, a receive
interrupt and a timer interrupt in a few static variables. The rest, the
handlers on both sides, is arithmetic of lengths, ranges and bits that two
programs must do alike.

Paths below are relative to `src/`, and to `src/FreeModbus/` where they begin
with `modbus/` or `port/`.

## 1. Inventory

### Parts of the system

| part | code | state it keeps | operations |
|---|---|---|---|
| master protocol layer | `modbus/mb_m.c` | `eMBState`, `ucMBMasterDestAddress`, `eMBMasterCurErrorType`, and the statics of the poll function (`ucMBFrame`, `ucRcvAddress`, `usLength`) | `eMBMasterInit`, `Enable`, `Disable`, `Poll` |
| master RTU link | `modbus/rtu/mbrtu_m.c` | `eRcvState`, `eSndState`, receive and send buffers with their positions, `xFrameIsBroadcast`, `eMasterCurTimerMode` | start, stop, send, receive; receive, transmit and timer state machines |
| master port layer | `port/rtt/portevent_m.c`, `porttimer_m.c`, `portserial_m.c` | event object `xMasterOsEvent`, semaphore `xMasterRunRes`, one-shot timer, `event_serial`, receive interrupt and direction pin | post and get events, take and release, result callbacks, wait for a result, timer and serial enable |
| master requests, response handlers | `modbus/functions/mbfunc*_m.c` | none of their own: they write the send buffer, and read it again when the answer comes | nine `eMBMasterReq...` functions, nine `eMBMasterFunc...` handlers |
| master register callbacks | `port/user_mb_app_m.c` | the register arrays of all slaves | four callbacks |
| slave protocol layer | `modbus/mb.c` | `eMBState`, handler table, statics of the poll function | `eMBInit`, `eMBRegisterCB`, `Enable`, `Disable`, `Close`, `Poll` |
| slave RTU link and port | `modbus/rtu/mbrtu.c`, `port/rtt/port{event,timer,serial}.c` | as the master's, with one buffer for both directions | as the master's |
| slave handlers and callbacks | `modbus/functions/mbfunc*.c`, `port/user_mb_app.c` | the register arrays of the slave | nine handlers that read and write registers and one that reports an identity, four callbacks |
| bit utilities, CRC | `modbus/functions/mbutils.c`, `modbus/rtu/mbcrc.c` | none | pure functions |
| kernel timers | `RT-Thread-1.2.2/src/timer.c`, `clock.c`, used by `porttimer*.c` | the list of running timers; time, period and flag of each | control, start, stop, the check at each tick |
| ASCII link, TCP framing | `modbus/ascii`, `modbus/tcp` | | compiled out by `modbus/include/mbconfig.h` |
| application threads | `APP/src/app_task.c` | | two poll threads (priority 9 for the master, 10 for the slave), one requester (11) |
| RT-Thread kernel, drivers, vendor libraries, board support | `RT-Thread-1.2.2`, `Libaries`, `BSP` | | third-party, or pure I/O |

### How the parts interact in the master

A requesting thread takes the semaphore, writes the destination address and
the frame into shared memory, posts `FRAME_SENT` and waits for a result, all
with no time limit except on the semaphore. The poll thread receives the
event, loads the frame and wakes the transmit thread, which feeds the
transmitter byte by byte, turns the line around and arms the timer. The
receive interrupt stores the answer and restarts the timer with t3.5 at every
byte; the tick runs the expiry of the timer, which posts `FRAME_RECEIVED`,
`ERROR_PROCESS`, or after the delay of a broadcast `EXECUTE`. The poll thread
checks the frame, runs the handler, sends the result to the requester and
gives the semaphore back in its stead. The semaphore, the results and the
events of the poll thread are three independent channels: that they stay in
step is nowhere written in the code.

### How the parts interact in the slave

The slave is driven by the bus. The receive interrupt stores a request in
`ucRTUBuf` and restarts t3.5 at every byte; the expiry posts
`EV_FRAME_RECEIVED` and rests the receiver. The poll thread checks the frame,
posts `EV_EXECUTE` to itself, runs the handler, which writes its response over
the request, and turns the line around; the transmit thread, of the same
priority, shifts the response out of the same buffer and lets the receiver in
again. Nobody waits for anybody: that the response is still wanted, that the
buffer still holds it and that the receiver was let in again depends on who
ran when.

### How the two sides meet in the registers

The master keeps a copy of the registers of every slave. A request is built in
the send buffer; the slave's handler reads it, changes or reads its registers
and answers; the master's handler takes from the answer what it says, and from
the send buffer what it does not, and writes the copy. A broadcast has no
answer: the master executes the frame it sent, once for every slave. That both
sides count bytes alike, that the bits of a range end up where they belong,
and that the send buffer still holds the request when its answer comes, is
spread over nine pairs of functions.

### What is hard, and what makes each part correct

The master:

* *One holder.* The poll thread releases the semaphore once per result, not
  once per request. There must never be two holders (`OneRequester`) and never
  none for ever (`MasterNeverLost`, `RequestsReturn`, `BlockedGetsMaster`).
* *The right result.* Results are bits without a name on them. A request must
  return what became of its own frame (`OwnResult`), and not success without
  having been sent (`KeepsPromises`; `SuccessMeansSent` where slaves are late).
* *Events that merge.* `rt_event_recv` returns all pending bits at once, and
  neither switch over them has a case for two (`NoMergedEvents`).
* *Interrupts in critical sections.* `ENTER_CRITICAL_SECTION` locks the
  scheduler only; the states of receiver and transmitter are checked and then
  acted on (`StateAssertionsHold`).
* *Statics of different ages.* The handler runs with an address, a buffer
  pointer and a broadcast flag written by different actors
  (`ExecutesCheckedFrame`, `SendBufferStable`).
* *Only the timer brings the link back to rest* (`ReceiverTimed`,
  `EnabledBecomesEstablished`).
* *The edge of the buffer* (`TypeOK`).

The slave:

* *The right answer to the right request.* A handler runs once for each whole
  frame that is meant for this slave (`ExecutesEachRequestOnce`), a response is
  sent only to the frame last heard and never to a broadcast or to the frame of
  another slave (`SendsOnlyWhenDue`), and one that is asked for is sent
  (`RequestsAnswered`).
* *One buffer for both directions.* A response must not change while it is
  shifted out (`ResponseStable`).
* *Coming back to listen.* The end of a response, done by another thread in
  several steps, must leave the receive interrupt on (`ListensAtRest`,
  `ServedAndListening`), and only the timer rests the receiver
  (`ReceiverTimed`).
* *Events that merge and interrupts in critical sections*, as in the master
  (`NoMergedEvents`, `StateAssertionsHold`).
* *A stack that is disabled* while its threads are inside it comes back to
  listen, and with nothing left to send (`ListensAtRest`, `SendsOnlyWhenDue`).

The request service, as its callers see it: at most one call uses the master,
waiting calls are served in the order of their priorities, and a call returns
what became of its own frame (`KeepsPromises`: the stack implements
`MasterRequests`). Every call returns and every waiting thread gets the master
(`RequestsReturn`, `BlockedGetsMaster`), also on a stack that is disabled and
enabled while nobody uses it. Disabled in the midst of requests the stack comes
back (`EnabledBecomesEstablished`) and still delivers what was decided
(`DecidedReturns`), but the request it cut short never returns, the semaphore
is lost with it, and later callers wait for ever (*Known to fail*).

Handlers and registers:

* *The copies follow.* After a request that returned no error, what it read or
  wrote is the same on both sides (`CopiesAgree`), also after a broadcast
  (`BroadcastMirrored`), and the master refuses an answer of its slave if and
  only if it is an exception (`OwnAnswerUnderstood`).
* *Nothing else changes*, on the slave (`OnlyWrittenChanges`,
  `RefusedChangesNothing`) or in the copies (`OnlyNamedCopied`, and
  `BehindUntouched`, which late answers break).
* *Handlers come and go.* Removing handlers leaves holes in a table that is
  read up to the first one; a table whose handlers are all registered again
  serves them all (`RegisteredServed`).

The kernel's timers:

* *Starting one is several steps, not masked as a whole.* Ticks, expiries and
  other calls fall in between: the list stays a list (`DamageNeedsOverlap`) in
  the order of its times across the wrap of the tick (`ListSorted`), nothing in
  it is overdue after a check (`CheckMissesNone`), the flag that stopping
  relies on is right (`FlagMatchesList`), and a running timer has the period of
  the mode its expiry is judged by (`ModeMatchesPeriod`).

`PROJECT.json` lists the hazards at their lines with the properties that cover
them. Two are without a property: both are about indices beyond the end of the
send buffer, which a model of a frame's fields does not have.

## 2. Modules

| module | models | state and actions |
|---|---|---|
| `MasterPort` | `port/rtt/portevent_m.c` and what it uses of RT-Thread's `ipc.c` | `evPoll`, `evApp`: the pending bits of `xMasterOsEvent`, split by the two masks that receive them; `pollPc`, `appPc`: where the threads are; `pollGot`, `appGot`: what `rt_event_recv` gave them; `sem`: the value of `xMasterRunRes` |
| `MasterRTU` | `modbus/rtu/mbrtu_m.c`, `porttimer_m.c`, `portserial_m.c` | the statics of the link, one variable each; `ReceiveByte`, `TimerExpired`, and the transmit thread as `TransmitFSM` and the four steps it takes at the end of a frame |
| `MasterStack` | `modbus/mb_m.c`, the shape of the request functions, scheduling | `eMBMasterPoll` as `PollGet` and one or several actions per case of its switch; a requester as `xMBMasterRunResTake` ... `Return`; the interrupts and a thread that disables and enables the stack |
| `SlaveRTU` | `modbus/rtu/mbrtu.c`, `portevent.c`, `porttimer.c`, `portserial.c` | the statics of the link, one variable each, and the event object `evs`; `ReceiveByte`, `T35Expired`, and the transmit thread as `TransmitFSM` and the three steps after it |
| `SlaveStack` | `modbus/mb.c`, scheduling | `eMBEnable` and `eMBPoll` as the steps of the poll thread, the three steps of `eMBRTUSend`, the interrupts and a thread that disables and enables the stack |
| `MasterRequests` | the promise of `mb_m.h` and of `eMBMasterReq...` | abstract: whether the master is available, the call of each thread, the fate of its frame, its result; `Ask`, `Queue`, `GiveUp`, `Send`, `End`, `Deliver`, `Return`, `Release`, `PassOn` |
| `MasterRefinement` | | `MasterStack` read as `MasterRequests`: the semaphore is `available`, the places of a thread are the states of its call |
| `RegisterCallbacks` | `port/user_mb_app.c`, `user_mb_app_m.c`, `modbus/functions/mbutils.c` | operators: the registers, the bit utilities, and what the callbacks read and write |
| `SlaveHandlers` | `modbus/functions/mbfunc*.c`, the handler table of `modbus/mb.c` | operators: a handler maps memory and request to memory, answer and exception; `Registered`, `Removed` and `Execute` for the table |
| `MasterHandlers` | `modbus/functions/mbfunc*_m.c` | operators: a request function gives the send buffer, a handler maps copy, send buffer and answer to copy and exception |
| `RegisterExchange` | the nine functions end to end | the slave's memory, the copies, the handler table, the send buffer, the frames under way; `Ask`, `Serve`, `Receive`, `ExecuteBroadcast`, `TimeOut`, losses, `Remove` and `Register` |
| `KernelTimer` | `port/rtt/porttimer_m.c`, `porttimer.c`, `RT-Thread-1.2.2/src/timer.c`, `clock.c` | tick, timer list, and per timer time, period, mode and flag; the calls of the port and of the kernel cut where interrupts are not masked; `Tick`, `Check` |
| `MCMaster`, `MCSlave`, `MCRegisters`, `MCTimer` | | the instances for TLC |
| `MasterStackProofs` | | type correctness, `ReceiverTimed` and `MasterNeverLost`, proved |
| `MasterIdealProofs` | | the inductive invariant of the master on the ideal bus and six properties that follow, proved |
| `MasterRefinementProofs` | | that `MasterStack` implements `MasterRequests` on the ideal bus, step by step |
| `MasterRequestsProofs` | | the promises of `MasterRequests`, proved |
| `SlaveProofs` | | type correctness and `ReceiverTimed` of the slave; `ListensAtRest` and `SendsOnlyWhenDue` of one that is disabled and enabled, proved |
| `SlaveIdealProofs` | | the inductive invariant of the slave on the ideal bus and five properties that follow, proved |
| `KernelTimerProofs` | | type correctness and all five properties of the timers, proved |
| `RegisterProofs` | | type correctness of the registers, the handler table, and six action properties of the exchange of requests and answers, proved |

Definitions keep the names of the C functions. A comment before each block
says what is left out. `ReceiverBeginsWaiting`, `LinkRestsHalf` and the other
definitions marked *faulty variant* are plausible mistakes in the code next to
them; each breaks a property of a run (`mutants` in `PROJECT.json`).

### Grain of atomicity

An action is a piece of code that no other actor can observe half done, or
whose halves nobody could tell apart. The poll thread is cut between reading
the event and acting on it, around every write of a variable that an interrupt
or another thread uses, and between loading a frame and turning the line
around. `vMBMasterPortSerialEnable(TRUE, FALSE)`, called by the transmit thread
with no lock, is two steps, enabling the receiver and clearing the event; called
inside a critical section, where no thread can see it half done, it is one.
The slave is cut in the same way. `eMBMasterPoll` and `eMBPoll` of a disabled
stack return at once: the poll thread then spins at `"get"` and takes no step
that changes anything (`PollSpins`, `PollReady`). `eMBMasterRTUReceive` is one
step: it reads only what the receive interrupt writes, and a byte arriving
inside it has the effect of one arriving just before or after, the contents
being arbitrary anyway. The expiry of the
timer is one step because RT-Thread calls timeout functions with interrupts
masked (`rt_timer_check`, `RT-Thread-1.2.2/src/timer.c:497-541`). Its three
posts are ordered: the first one resumes a suspended poll thread with a single
bit, and the others stay pending (`PostInOrder`). The receive interrupt has the
highest priority of all and is one step. Starting the timer is one step in the
link modules. `KernelTimer` takes it apart, into the mode, the period, the
removal, the computation of the time and the insertion, and says when that is
right: as long as no timer is worked on twice at a time. On the master a byte
can come between these steps only under the faults `"prompt"` and `"noise"`.
Stopping one is three steps: the flag is read, the timer is unlinked, masked,
and the flag is cleared.

In `RegisterExchange` an action is what a thread does between two frames:
building a request, serving it, executing its answer. `MasterStack` and
`SlaveStack` show under which circumstances these do not overlap.

### What is abstracted

A frame is its address, whether its CRC is right, whether its function code
has a handler, none, or the exception bit set, and whether the handler takes
its data. What the receive buffer holds is any member of `Contents`, chosen
again with every byte, so a frame may be anything when it ends. In the slave a
frame is its address and whether its CRC is right; what a handler makes of a
request is any response, so that the slave's models say nothing of registers.
Time is abstracted to: a running timer may expire at any moment the environment
lets interrupts run. The registers and the lengths of requests are abstracted to
data that is good or bad in the link and stack modules.

The handlers of the master's read functions test the length of an answer before
they look at it (`mbfunccoils_m.c:128`); in `RegisterExchange` every answer is
one that the slave's handlers built, which is long enough, and `Store` leaves
that test out. `xFrameIsBroadcast` stays set from the end of a broadcast to the
next transmission; `Receive` executes an answer as one to a unicast, because
a late answer in that time meets `dest = TotalSlaveNum`, which is the slave's
own address only if there is no other one.

`RegisterExchange` has the data: a frame is a record of its function code,
address, count, byte count, data bytes, and length. Bytes and words are bit
functions of a scaled width. The increment of an address in the handlers and
its decrement in the callbacks cancel, and all tables begin at address 0, as
`user_mb_app.h` has it. Arrays of bits include the byte behind them, because
the bit utilities touch it; what is behind the coils of one copy are the first
coils of the next, but the model keeps the two apart (`BehindUntouched` is
about them).

`wireBy`, `fate`, `owed` and `failed` are history: who filled the frame that
was loaded last, what became of each requester's frame on the wire, whether
the slave still owes an answer, and which assertions of the source have
failed. In the slave, `due` is what the last frame on the bus asks for, from
its end until it is executed and answered or the next frame begins. The code
does not read them. (`owed` restrains the environment: a
slave answers a request once.) In `RegisterExchange` `served` and `removed`
are history, and in `KernelTimer` `overlap`: the timers that were worked on
twice at a time.

### The environment

The constant `Faults` says how the environment departs from the ideal one, in
which every thread is faster than the bus and a slave answers once, in time,
if at all:

* `"busy"`: bytes and ticks may come at any moment, outrunning ready threads;
* `"prompt"`: the slave may answer before the master has armed its timer;
* `"late"`: the slave may answer after the timeout;
* `"noise"`: bytes may appear whenever the receiver listens;
* `"disable"`: another thread may disable and enable the stack at any time. A
  stale `READY` event may establish the stack after it was disabled;
  `eMBMasterEnable` then refuses, and the thread has to disable it once more.

The slave's `Faults` are `"busy"` and `"disable"` only: what other faults would
add, frames of any content at any time, is what a slave always has to expect.

In `RegisterExchange` requests and answers may be lost or late, the slave may
hear requests from elsewhere, of any length and count, and the application may
remove and register handlers. In `KernelTimer` threads are preempted anywhere.

Callers follow `mb_m.h`: they call once the stack is established. Threads of
one priority are interleaved at every action, which covers time slices and
more; threads of different priorities run as RT-Thread runs them. With all
priorities equal a run covers every assignment of priorities, because
priorities only remove interleavings.

## 3. Runs

| run | configuration | shows |
|---|---|---|
| `exchange` | two requesters, one impatient, equal priorities, ideal bus, two slaves, buffers of 2 to 3 bytes, five kinds of answers | the stack implements `MasterRequests`: one holder, everyone gets his own result; all state assertions, only checked frames executed, send buffer stable |
| `busy` | one requester, `"busy"` | own results, no merged events and all state assertions as long as there is one requester |
| `noise` | one requester, `"noise"` | bytes at any moment, late answers among them: the receiver is always timed, the master never lost |
| `disable` | two requesters, priorities of `app_task.c`, `"disable"`, fairness | on a stack that is never disabled, or only at rest, every request returns and every waiting thread gets the master; one that is disabled and enabled at any moment comes to be established again and delivers the results it already had, which is all it does for requests under way |
| `two_holders` | two requesters, `"late"` | **violation** of `OneRequester` |
| `hang` | one requester, `"prompt"`, fairness | **violation** of `RequestsReturn` |
| `slave_ideal` | slave, ideal bus, fairness, frames for it, for all and for another slave | every whole request executed once and answered, nothing else answered, stable responses, no merged events, no failed state assertion, listening afterwards |
| `slave_disable` | slave, `"disable"` | the receiver is always timed, the slave is never deaf when enabled again, and sends only what is due |
| `slave_deaf` | slave, `"busy"` | **violation** of `ListensAtRest` |
| `registers` | one slave and two copies, all nine functions, broadcasts, foreign requests, losses, late answers, two handlers that come and go | the slave changes what it is asked to and nothing else, and the copies follow |
| `late_answer` | the same | **violation** of `BehindUntouched` |
| `timer` | two timers, two threads and the interrupt, a tick that wraps | the timer list survives every preemption, as long as no timer is worked on twice at a time |

`KeepsPromises` implies `OneRequester` and `OwnResult`: the abstract
specification has them as `OneAtATime` and `Truthful`, which are proved. It
also says what those do not: in which order waiting calls are served, and that
a call that returns was sent. `OneRequester` stands beside it in `exchange`
because `two_holders` is about it.

The violations are disagreements between the code and what `README.md`, a
comment or an assertion says of it; `findings` in `PROJECT.json` quotes the
line and tells the story of each counterexample. They delimit what the passing
runs say: with two requesters the stack keeps its promises if threads are
faster than the bus and slaves never late, with one requester also on a busy
processor; with late answers, noise or answers that come at once it does not.
A slave whose threads are faster than the bus keeps all its promises; on a busy
processor the one in `ListensAtRest` is broken for good, with a window of a few
instructions of the transmit thread. Copies agree with the slave after every
request that gets its own answer; one that gets another's may be changed
anywhere.

### Known to fail

These formulas TLC refutes too, on the instance named; they are not kept as
runs, and the passing properties leave them out. "The busy slave" is the
instance of `slave_deaf`.

The master:

* `SuccessMeansSent` in `two_holders` with one requester: a late answer that is
  still being received when the next request is sent makes `eMBMasterRTUSend`
  return an error that nobody reads (`mb_m.c:361`); the late answer is then
  taken for the answer to the request that never went out.
* `OwnResult` in `exchange` with `Faults = {"busy"}`: with two requesters on a
  busy processor a thread that takes the semaphore before the last one has
  received its result can receive it in its stead (`portevent_m.c:210`).
* `RequestsReturn` and `BlockedGetsMaster` without their premise
  (`DisabledAtRest`), in `disable`, also if the stack is disabled only once and
  stays enabled after that (`<>[](ctlPc = "run")`). Disabling stops the timer
  and the transmitter (`mb_m.c:240`), and eMBMasterEnable begins with a receiver
  in its initial state. A request is lost while it is sent, while its answer is
  received, during the delay of a broadcast, or when its `FRAME_SENT` meets the
  initial receiver: no event ends it, its caller waits for ever, and the poll
  thread, which alone gives the semaphore back (`mb_m.c:353`, `mb_m.c:382`),
  never does. Every later caller without a timeout then waits for ever too.
* The same two when `DisabledAtRest` only demands that nobody uses the master,
  and not that no event is pending: a `READY` event from before the stack was
  disabled establishes it while the link is stopped or its receiver still in its
  initial state (`mb_m.c:295`); a request asked then is not sent, and the
  semaphore is lost with it.
* `EnabledBecomesEstablished` in `disable` if the tick may outrun the thread
  that enables the stack (`InterruptsMayRun` also when `ctlPc = "starting"`):
  `eMBMasterEnable` starts the timer before it sets `STATE_ENABLED`
  (`mb_m.c:223`), and overwrites the `STATE_ESTABLISHED` of a poll thread that
  was faster.
* `"length" \notin failed` in `exchange`, and the same in `slave_ideal`:
  `mbrtu_m.c:163` and `mbrtu.c:156` assert that a frame is shorter than
  `MB_SER_PDU_SIZE_MAX`, and the receiver accepts one of exactly that size.
  `StateAssertionsHold` is about the other assertions.
* `"receiver" \notin failed` in `noise`: a byte between the check of the
  receiver in `eMBMasterRTUSend` and the turning of the line.

The slave:

* `pollPc = "send" /\ rcv = "IDLE" => due = "reply"` in the busy slave:
  `eMBRTUSend` gives a response up only while another frame is being received
  (`mbrtu.c:196`); once that frame has ended the receiver is idle again and the
  response, built in its buffer, is sent. `SendsOnlyWhenDue` fails for the same
  reason when `"busy"` and `"disable"` come together.
* `"timer" \notin failed` in the busy slave: the serial device receives from
  `eMBRTUInit` on; a byte then starts the timer, and an expiry inside
  `eMBRTUStart` leaves the timer it starts to an idle receiver
  (`mbrtu.c:345`).
* `[][ctlPc = "stopped" => ~(due = "none" /\ due' = "answer")]_vars` in
  `slave_disable`: the transmit thread enables the receiver of a stack that was
  disabled while it sent (`mbrtu.c:312`), and the poll thread, past its check of
  `eMBState`, takes the next frame.

Handlers and registers, in `registers`:

* `CopiesAgree` and `OnlyNamedCopied` for any answer in place of the own one:
  the master compares the address of an answer, but not its function code, its
  count or its range with those of the request (`mb_m.c:313`).
* `RefusedChangesNothing` without its exception: ReadWrite writes before it
  finds that it cannot read (`mbfuncholding.c:270`).
* `BroadcastMirrored` for ReadWrite: the slave carries it out, the handler of
  the master leaves the copies as they are (`mbfuncholding_m.c`).
* `RegisteredServed` without `removed = {}`: a removed handler leaves a hole,
  and the handlers behind it are out of reach until the hole is filled
  (`mb.c:229`, `mb.c:378`).
* The slave refuses what the master may ask for: its limits of coils, discrete
  inputs and input registers exclude the maximum (`mbfunccoils.c:92`), so that a
  request for 2000 coils gets an exception. It does not compare the length of a
  frame with its byte count: a foreign request with less data than it says
  writes what the buffer held before.
* `OnlyWrittenChanges` when the last byte of a request to write coils has
  padding bits that are not 0: they are or-ed in beyond the range
  (`mbutils.c:76`). `late_answer` shows the same where no application has set
  such a bit.

The timers, in `timer`: every property of that run without its premise on
`overlap`. If a thread is preempted inside `rt_timer_start`, after the removal,
and the same timer is started meanwhile, the timer is linked twice and the list
is no list any more. On the bus of this stack that takes a byte between two
instructions of the transmit thread that arms the timer of the answer.

Two defects are outside the models: a write of 1968 coils makes a frame of 255
bytes for a send buffer of 253 (`mbrtu_m.c:217`), and the function that writes
several registers checks no count (`mbfuncholding_m.c:184`).

### Bounds

* Two requesters: contention for the semaphore needs two. A third one could
  only be one more thread in the same wait list.
* `exchange` and `busy` have equal priorities, `disable` those of `app_task.c`.
* Two slaves in `exchange` and `busy`: one that is asked, one that is not, and
  the loop over all slaves of a broadcast. One in the others, where addresses
  do not matter.
* `PduSizeMin` 2 and `PduSizeMax` 3 (4 and 256 in the code): frames too short,
  of minimal and maximal length, and overflowing.
* `SndBytes` 1: the transmitter is in the middle of a frame and at its end.
* `SemMax` bounds the semaphore, 65535 in the code. Where spurious results can
  raise it without end, a release beyond the bound is not taken; those runs do
  not check deadlock, and `MasterNeverLost` is about having too little.
* `Contents`: in the master two or five frames, every way an answer can be
  judged; in the slave all frames with three addresses, its own, all, another.
* The slave's `PduSizeMin` and `PduSizeMax`: 2 and 3 where short frames matter,
  1 and 2 or 1 and 1 on a busy processor, where a frame may overflow too and
  what is at stake is the order of steps.

* `registers`: bytes of two bits, so that four coils are two bytes and every
  range lies within one byte, across two or at the end; two discrete inputs,
  two input and three holding registers; limits of counts just above these
  sizes, so that a count can be out of range and within the limits, at them and
  beyond. `MaxRounds` 2 counts requests, foreign requests and removals
  together: a late answer needs two requests, and two removals leave two holes
  that may be filled in the wrong order. The application sets the padding bits
  of what it writes to 0; at most one request waits for the slave; none is asked
  while an answer to a ReadWrite request may still come, because the bytes of
  a ReadWrite in the send buffer overlap with other fields. Addresses and
  counts fit one byte.
* `timer`: two timers, of which one has two modes, and two threads with calls of
  any kind. `TickMod` 10 with periods of 1 and 2 wraps many times, and
  leaves every period with the one tick of preemption (`MaxPreempt`) below half
  the range, as the assumption `TimerAssumption` demands of the real numbers
  too. `MaxOverlap` 0: once a timer was worked on twice no call begins, those
  under way are finished. Threads are symmetric; both timers may be started by
  the interrupt.

`CHECK_DEADLOCK FALSE` stands in the runs in which the bound on the semaphore,
a disabled stack, a deaf slave or a damaged timer list stops the system.

### Fairness

`FairSpec`, in the runs `disable`, `hang` and `slave_ideal`, states weak
fairness of each thread (`PollStep`, the transmit thread, each requester
once it holds the master), of the tick while the timer runs, and of the thread
that is in the middle of disabling or enabling. RT-Thread runs a ready thread
of the highest priority, and round-robin among equals, so a thread that stays
the one to run does run; the tick is a hardware interrupt. Nothing is assumed
of the slave, which may never answer, or of callers, who may never call; a
blocked requester need not lose patience and a disabled stack need not be
enabled.

## 4. Proofs

No theorem bounds a constant: the numbers of threads, timers and slaves, sizes,
priorities, periods, limits, requests and contents are arbitrary within the
named assumptions. What restricts the environment beyond these stands in front
of a theorem as a hypothesis: `Faults = {}`, `"busy" \notin Faults` or
`PaddedRequests`. Each is the condition of a run that checks the same property,
so TLC exhibits the states it speaks of.

### The master under all faults

TLAPS proves, for every number of requesters, every priority, every content of
the bus and every subset of the faults, from the assumptions `AppsAssumption`,
`LinkAssumption` and `StackAssumption` on the constants (`MasterStackProofs`):

* `TypeCorrect`: `TypeOK`. It is inductive; the proof has one lemma per actor
  and one step per group of variables. The step that matters is the receiver's:
  the position stays within the buffer because a full buffer spoils the frame.
* `ReceiverAlwaysTimed`: `ReceiverTimed`. Not inductive: between the two halves
  of enabling the stack again the timer already runs while `ctlPc` is still
  `"starting"`. `ReceiverTimedInv` includes that state.
* `MasterIsNeverLost`: `MasterNeverLost`. Relative to `TypeOK` it is inductive:
  every step that takes a unit away puts one elsewhere. The poll thread owes a
  release from the moment it sends a result; a result is received by a thread
  that leaves its request, or stays pending and counts itself; a release goes
  to a waiting thread or into the semaphore. The arithmetic is about
  cardinalities of finite sets (`RequesterMoves`, `ResultSent`).

### The master on the ideal bus

With `Faults = {}`, that is on a bus on which threads are faster than bytes, a
slave answers once and in time if it answers at all, and nobody disables the
stack, `MasterIdealProofs` proves `OneRequesterAtATime`,
`EachCallGetsItsResult`, `BitsNeverMerge`, `StateAssertionsNeverFail`,
`OnlyCheckedFrames` and `SendBufferStays`. The run `two_holders` and *Known to
fail* show how they break under faults.

None of the six is inductive. That one thread at a time uses the master, for
instance, holds because the semaphore is given back once per result, there is
one result per frame, one frame per request, and so on around the circle: an
invariant has to say where on that circle the system is. `IdealInv` does. The
stack is `Starting` or `Serving`; while it serves, the master is `Free`, about
to be released (`Releasing`), or held by exactly one requester `a`
(`Holds(a)`), whose request is in one of thirteen phases, from `Asking(a)` to
`Executed(a)` and `Erring(a)`. A phase ties the places of the poll and the
transmit thread, the pending events, the states of the link, the mode of its
timer and the fate of `a`'s frame together; `Caller(b)` says of every other
requester that it has no part in it. The lemmas `WhileDispatching`,
`WhilePast`, `WhileAsking` and `AtRestPhase` read the phase off the place of an
actor; then one lemma per action names the phase it leads to.

`MasterRefinementProofs` proves from this invariant that every step of the
stack is a step of `MasterRequests` under the mapping of `MasterRefinement`, or
changes nothing a caller sees: `PromisesKept`, which is `KeepsPromises`. Taking
the semaphore is `Ask` or `Queue`, the end of the transmission `Send`, the
decision of the poll thread or the expiry `End`, the result `Deliver`, and the
release `Release` or, with a thread waiting, `PassOn`. The invariant is needed
where the abstract action has a guard that the code does not test: that the
frame on the wire is the one of the thread that asked, and that the thread
woken by a result is that thread.

From no assumption at all `MasterRequestsProofs` proves of the abstract
specification `PromisesWellTyped`, `PromisesOneAtATime` and `PromisesTruthful`:
together with `PromisesKept` they say what a caller may rely on without reading
the stack.

### The slave

From `SlaveAssumption` and `FaultsAssumption` alone, for every set of faults
(`SlaveProofs`):

* `SlaveTypeCorrect`: `TypeOK`, inductive as it stands.
* `SlaveReceiverAlwaysTimed`: `ReceiverTimed`. The strengthening adds the state
  in which the stack is being enabled again, as in the master.

Under the hypothesis `"busy" \notin Faults`, that is also for a slave that is
disabled and enabled again at any moment:

* `NeverDeaf`: `ListensAtRest`, and `OnlyDueResponses`: `SendsOnlyWhenDue`. In
  a stack that is disabled in the midst of anything phases do not help; what
  survives is `PromptInv`, a conjunction of facts that do not say how far an
  exchange is: while the transmit thread has work the poll thread at most reads
  the end of a response (`SendingAlone`), which is also the only event that can
  be pending while it works (`EventsTaken`), the receiver is on or the transmit
  thread is about to turn it on (`WillListen`), a stack that starts ignores the
  bus (`StartsAfresh`), and what the poll thread still has to do belongs to the
  last frame, unless the receiver was started anew, in which case `eMBRTUSend`
  drops the response (`FollowsFrame`).

With `Faults = {}`, for every address, buffer size, response length and content
of the bus, five theorems follow from one inductive invariant, `IdealInv` of
`SlaveIdealProofs` (`IdealInvariant`): `EventsNeverMerge`, `AssertionsHold`,
`EachRequestExecutedOnce`, `ServedAtRest` and `ResponseStays`. None of them is inductive: each depends on where all the actors
are. `IdealInv` says that the slave is always in one of ten phases, `Booting`,
`Waiting`, `Ready`, `Heard`, `Accepted`, `Executed`, `Loaded`, `Sending`,
`Finishing` and `Finished`, each a conjunction that ties the program counters
of the poll and transmit threads, the pending events, the flags of the serial
port and `due` together. The interrupts run in `Waiting` and `Finished` only,
where every thread may sleep; `Finishing` is where the two threads overlap, and
lists the states of both that can meet. The proof has one lemma per actor, and
in it one step per action that names the phase the action leads to; the
properties are then read off the phases.

### The timers

`KernelTimerProofs` proves, for every number of timers and threads, every
period and range of the tick that `TimerAssumption` allows. It demands that a
period is at least one tick (the shortest, t3.5, is 17 ticks of 100 us) and,
with the ticks that a thread may lose to preemption, less than half the range
of the tick; `rt_timer_start` asserts the latter of the period alone.

* `TimerTypeCorrect`: `TypeOK`. The list is a sequence of timers, each at most
  once; lemmas say what removing, inserting and cutting a prefix off do to such
  a sequence and to the set of its elements.
* `OnlyOverlapDamages`, `FlagAlwaysMatches` and `PeriodAlwaysMatches`:
  `DamageNeedsOverlap`, `FlagMatchesList` and `ModeMatchesPeriod`. None is
  inductive: they speak of timers at rest, and what comes to rest depends on
  how far a call has come. `TimersInv` says of every timer that was never
  worked on twice at a time that one thread at most works on it, that the timer
  is `Settled` if none does, and how far the call has come otherwise
  (`Progress`, one clause per step of the call). `OtherTimer`, `TimerBegins`,
  `TimerGoesOn` and `TimerReturns` are the ways in which a step can concern a
  timer; interrupts and the tick leave calls alone (`CallsUntouched`).
* `ListAlwaysSorted` and `CheckNeverMisses`: `ListSorted`, and
  `CheckMissesNone`, an action property. The order of two times on a circle is
  an order only as long as all of them lie within half of it. `OrderInv` says
  where they lie: a linked timer is due at most `MaxPreempt` ticks before now
  (it was inserted by a thread that had lost them) and less than half the range
  after (`InWindow`), a thread that has computed a time and not yet inserted
  the timer is late by `MaxPreempt` ticks at most (`LittleLate`), and the
  offsets from now ascend along the list. Within the window the signed
  difference that `rt_timer_start` and `rt_timer_check` compute modulo the
  range is the difference of the offsets; that the comparison of the code gives
  their order is arithmetic of `%`, in lemmas of its own.

The master's timer begins with a period one tick longer than t3.5
(`InitialPeriod`, `porttimer_m.c:46`), which the first start replaces;
`ModeMatchesPeriod` is therefore about running timers. With a period of 0 a
timer could be overdue before it is linked.

### The registers

`RegisterProofs` proves every property of the run `registers`, for all sizes of
the tables, limits of counts, widths of a byte, numbers of slaves and requests
that `SizesAssumption`, `LimitsAssumption`, `ExchangeAssumption` and
`CallsAssumption` allow. The last one says what the C code takes for granted:
an array that is passed to a request function has as many data bytes as its
count asks for, and a frame as many as its byte count says.

* `EveryFunctionServed`: `RegisteredServed`. `TableInv` says that an entry is a
  hole or the handler of its own code, that no code is in two entries, and that
  every code that is not removed is among the first nine. The last part is what
  makes it inductive: a code is registered again into the first hole, and a
  hole is among the first nine by a pigeonhole argument, because the codes that
  are left are fewer than nine. Then no hole can be in front of a handler once
  nothing is missing.
* `RefusalsKeepMemory`: `RefusedChangesNothing`, by cases over the nine
  handlers.
* `ExchangeTypes`: `TypeOK`, and five action properties, all from
  `ExchangeInv`: `NothingElseWritten`, `AnswersUnderstood`, `CopiesFollow`,
  `NothingElseCopied` and `BroadcastsMirrored` for `OnlyWrittenChanges`,
  `OwnAnswerUnderstood`, `CopiesAgree`, `OnlyNamedCopied` and
  `BroadcastMirrored`.

`ExchangeInv` is needed because these properties relate an answer to the
request it answers, and the two meet in the send buffer, steps later. It says
that the send buffer holds a frame as a request function builds it (`SentInv`),
that a request under way which bears the number of the last one is the contents
of the send buffer (`QuestionInv`), that an answer which bears that number is
what some memory of the slave made the handler answer to the contents of the
send buffer, and `served` the memory after it (`ReplyInv`, `CarriedOut`), and
the same of a broadcast that was carried out (`ServedInv`). What makes this
inductive is that no answer overtakes a later request: whatever was answered
bears a lower number than the request that waits for the slave.

What the two handlers of a function make of the same frame is the other half:
for each of the nine, a lemma (`ReadCoilsInStep` ... `ReadWriteHoldingsInStep`)
says that when the slave's handler succeeds, the master's succeeds with its
answer, and agrees with the slave on what the request names. The lemmas rest on
what the bit utilities do. `BitsWritten` is a recursive function over the
bytes; `BitsWrittenIs` says that writing `n` bits byte by byte changes exactly
the bits of the range to those of the data if the surplus bits are zero
(`WrittenInside`: within the range also if they are not), and needs induction
over the number of bytes. The library's induction theorems take an operator as
a parameter, which the provers cannot instantiate; `SetInduction` states
induction for a set of naturals instead, and follows from
`NatLessThanWellFounded` and `WFMin`, which do not.

`PaddedRequests` is a hypothesis of `NothingElseWritten` and
`NothingElseCopied` only: the bits beyond the last coil of a request to write
coils are zero. It is about callers, not about the stack; the requests of the
run satisfy it, and without it both properties fail (`xMBUtilSetBits` or-s the
surplus bits in, see *Known to fail*). The other theorems hold without it:
within the range the surplus bits never reach.

### Only model-checked

* The liveness properties (`RequestsReturn`, `BlockedGetsMaster`,
  `DecidedReturns`, `EnabledBecomesEstablished`, `RequestsAnswered`). They
  need fairness and `ENABLED`, which are out of the prover's reach.
* The master on a busy processor: the run `busy` checks `OwnResult`,
  `NoMergedEvents` and `StateAssertionsHold` for one requester with `"busy"`,
  where the theorems have any number of requesters on the ideal bus.
* The violations, which are counterexamples and need no proof.

## 5. Plan

1. *Master core* (done): `MasterPort`, `MasterRTU`, `MasterStack`, their runs,
   type correctness and the two invariants that hold under all faults.
2. *Request specification* (done): `MasterRequests`, its promises proved, the
   refinement on the ideal bus, and what liveness remains under `"disable"`.
3. *Slave stack* (done): `SlaveRTU`, `SlaveStack`, their runs and theorems.
4. *Handlers and registers* (done): `RegisterCallbacks`, `SlaveHandlers`,
   `MasterHandlers`, `RegisterExchange`; the handler table and the bit
   utilities are part of them.
5. *Kernel timers* (done): `KernelTimer`, its type correctness and its five
   properties proved.
6. *The master's ideal bus* (done): its inductive invariant, six properties and
   the refinement of `MasterRequests`, proved.
7. *The slave that is disabled* (done): `ListensAtRest` and `SendsOnlyWhenDue`,
   proved as long as the processor keeps up with the bus.
8. *The registers* (done): every property of `registers`, proved.

Left, in this order:

9. The master with one requester on a busy processor: `OwnResult`,
   `NoMergedEvents` and `StateAssertionsHold` from an invariant like `IdealInv`
   in which bytes and ticks fall into every phase.
10. A composition of `MasterStack` and `SlaveStack` over one bus, the slave's
    responses being the answers of the master.
11. The tables of the CRC against its polynomial; the ASCII link and the TCP
    framing, compiled out today but maintained.

## 6. Not modelled

By lines most of this repository is the vendor's: CMSIS, the peripheral and USB
libraries and RT-Thread with its ports, of which only the parts that the Modbus
code relies on, events, the semaphore and hard timers, are modelled. What is
under `modbus/` and `port/` is modelled but for the following.

* The ASCII link (`modbus/ascii`) and the TCP framing (`modbus/tcp`) are
  compiled out; the port layer of TCP is not in the repository.
* The CRC is a table-driven pure function; the models tell a right CRC from a
  wrong one. `mbfuncother.c` copies a string that is set once. `mbfuncdiag.c`
  holds no code.
* `eMBClose` and the failing returns of `eMBInit` and `eMBMasterInit`:
  `app_task.c` never calls the first and ignores what the others return.
  `eMBMasterClose` changes nothing in this port (`MB_PORT_HAS_CLOSE` is 0, so the function it
  would call is null).
* Baud rates, the computation of the timer's ticks from them, pins and
  interrupts of the board, LEDs and the watchdog are pure I/O or constants.
* The scheduler, memory, and the other objects of the kernel are trusted: the
  models use the priorities and the blocking that its documentation gives.
* Indices of bytes within the send buffer, see *Known to fail*.
