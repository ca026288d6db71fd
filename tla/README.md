# Verification of broker-proxy

broker-proxy lets small microcontrollers take part in publish/subscribe over a
serial line or UDP: a client library on the microcontroller frames CBOR
messages, a proxy on Linux passes them to and from a broker (Redis by default),
and other Linux programs (brain, redis2elastic) use the same broker. Everything
is built from one small actor library, limero: flows, lock-free queues, timers,
and threads that are event loops.

This directory holds TLA+ modules translated from that code, configurations
that model-check them with TLC, and theorems about them that TLAPS checks.

## 1. Inventory

| Component | State | Operations | Interacts by | What is hard | What makes it correct |
|---|---|---|---|---|---|
| `ArrayQueue` (common/src/limero.h, Linux and ESP32 variant) | `m_head`, `m_tail`, per slot `value` and `version` | `push`, `pop` | shared memory, any number of threads | interleavings of single loads, CAS and stores; false answers under contention | no two threads in one slot; FIFO; false only with a reason |
| `QueueFlow`, `SinkQueue` (limero.h) | the queue, the thread it is `async()` on | `on`, `invoke` | pushes, then writes its address to the thread's pipe | push and wakeup are two steps; one pop per wakeup | every accepted element has a wakeup left for it |
| Linux `Thread` (linux/src/limero.cpp) | pipe, fd sets, read and error invokers, timers | `run`, `waitInvoker`, `enqueue`, `add*Invoker`, `deleteInvoker` | select(), callbacks | timers against descriptors, tables changed while iterated, clock steps | every ready descriptor, wakeup and due timer is served |
| `TimerSource` (limero.h) | `_expireTime`, `_interval`, `_repeat` | `start`, `stop`, `reset`, `request` | polled by its thread | late and repeated expirations | repeating timers fire for ever, without bursts |
| Flow graph (limero.h: `Source`, `LambdaFlow`, `ValueFlow`, `Filter`, `Cache`, `Poller`) | subscriber lists, last values, `Cache::_lastSend` | `emit`, `on`, `request` | synchronous calls; `ValueFlow` through the pipe | values overtaken by later ones; rate limits (`Cache`) | the newest value is sent within the minimum, a heartbeat within the maximum |
| Arduino `Thread` and queue (arduino_client/src/limero.cpp, limero.h:178-236) | work queue, timers | `loop`, `enqueue`, `enqueueFromIsr` | one loop, in turn with the serial line | a work queue of ten for all wakeups, overflow ignored after a successful push | no wakeup in vain; only a full work queue strands an element |
| `BrokerRedis` (broker/src/BrokerRedis.cpp) | two hiredis contexts, `connected`, `_node`, `_subscribers` | `connect`, `disconnect`, `subscribe`, `publish`, `command`, `request`, `xread` | Redis over TCP; read invoker; reconnect timer | server restarts, half-done connects, replies out of step, blocking reads | reconnects, stays subscribed, leaves no connection behind but of a half-done connect, keeps order |
| `BrokerZenoh`, `BrokerIceoryx` | session, subscribers | as above | other middleware | `connected` used the wrong way round | as above |
| PPP framing (common/src/ppp_frame.cpp) | none | `ppp_frame`, `ppp_deframe`, `Fcs` | pure functions | escapes, checksum | inverse of each other; damage detected |
| `BytesToFrame`, `FrameToBytes` (common/src/Frame.cpp) | `_inputFrame`, `_lastFrameFlag` | `handleRxd`, `handleFrame` | chunks of octets in, payloads out | loss, noise, text between frames, timeout | nothing invented; every intact frame found |
| Serial port and sessions (proxy/src/serial.cpp, SessionSerial.cpp, SessionUdp.cpp, Udp.cpp) | file descriptor, `_connected` | `rxd`, `txd`, `connect`, `disconnect`, `onError` | tty or socket, invokers | output flushed away, a tty that goes away, descriptors reused while a round goes on | every open descriptor is watched for its owner |
| Proxy (proxy/src/serialProxy.cpp, udpProxy.cpp) | node name, two brokers, a session | dispatch of PUBLISH, SUBSCRIBE, NODE; flash handler | callbacks on one thread | recovery after either side restarts; flashing closes the session from inside a read invoker | the node's messages flow again; rounds end; the session is reopened |
| `BrokerSerial` (arduino_client/src/BrokerSerial.cpp) | `connected`, two timers | publish, subscribe, loopback, `sendNode` | serial line | timeout against late answer | `connected` follows the link; NODE is sent until the loop works |
| CBOR (common/src/Cbor*.cpp) | reader or writer with a sticky error | `begin`, `get`, `add`, `end` | TinyCBOR | errors in the middle, buffers too small at every place | what fits is carried, what does not is refused |
| redis2elastic, redis-elastic | a broker, two indexes, three threads | `main`, `xread`, `ElasticIndex` | flows between threads; a Redis context of two threads | the context is freed under a waiting `xread`, timeouts, two producers on one queue | records are indexed in order, and reading goes on |
| brain | flows and timers over a broker | `main` | broker | - | - |
| EspTool, DtrRts, proxyCli, redis-test, log, config, reflection | - | - | ioctl, stdio | - | - |

The hazards this leads to are listed, each at its line, in PROJECT.json.

## 2. Modules

| Module | What it models |
|---|---|
| `BoundedFifo` | abstract: a bounded queue whose put and get are atomic |
| `ArrayQueue` | push and pop of the lock-free queue, one atomic access per step; implements `BoundedFifo` |
| `QueueFlow` | extends `ArrayQueue`: on(), enqueue(), the pipe and the thread that invokes |
| `EventLoop` | Thread::run and its timers: the scan, select, one round of callbacks, a clock that is set back |
| `Cache` | a ValueFlow assigned by other threads, the shared pipe, and the Cache it feeds |
| `BrokerRedis` | the Redis broker with its contexts, timer and read invoker, and a server that restarts |
| `KeepAlive` | the microcontroller's timers and NODE, the proxy's two brokers and the server, over a lossy line, with restarts |
| `Client` | the microcontroller's loop, its flows, its rings and its work queue |
| `PppFrame` | framing, deframing and the checksum as operators on octet strings |
| `Framing` | extends `PppFrame`: one payload, framed, damaged and deframed |
| `FrameReceiver` | extends `PppFrame`: the receiver's state machine behind a faulty line |
| `Messages` | the CBOR writer and reader and the callbacks on both sides that use them |
| `Proxy` | the proxy's one thread: session, brokers, descriptors, the tables of invokers, the flash handler |
| `Redis2Elastic` | the two programs that copy to Elasticsearch, with their three threads |
| `QueueProofs` | the theorems about `ArrayQueue` and `QueueFlow` |
| `TimerProofs` | those about `EventLoop` and `Cache` |
| `SerialProofs` | those about `PppFrame`, `Framing`, `FrameReceiver` and `Messages` |
| other `*Proofs` | those about `BrokerRedis`, `KeepAlive`, `Client`, `Redis2Elastic`, `Proxy` |
| `MC*` | instances for TLC: symmetry, intervals, payloads; `MCFrameReceiver` composes `FrameReceiver` and `Framing` |

Where two modules model the same code at a different grain, the coarser one says
so in its head: `Proxy` and `KeepAlive` make and lose both connections of a
broker together (`BrokerRedis` has half-done connects), `KeepAlive` subscribes at
once (`BrokerRedis` and `Proxy` have the replies that hiredis mixes up),
`Redis2Elastic` pushes in two steps (`ArrayQueue` has eight), `Client` counts
elements instead of naming them.

### ArrayQueue

A thread is in push or pop at `pc[t]` with its local copy `idx[t]` of m_tail or
m_head; `val[t]` is push's argument, `out[t]` the caller's out parameter. Each
shared access of limero.h:307-357 is an action: `PushBegin` loads m_tail,
`PushFull`/`PushCheck` load the version and return false or go on,
`PushContended`/`PushCas` are the two outcomes of compare_exchange_strong,
`PushWrite` stores the value and `PushPublish` the version; pop likewise. A
value is written in one step, which is sound because `NoDataRace` shows that
nobody else looks at it then.

Memory is sequentially consistent. The code uses relaxed loads and CAS on
m_head and m_tail and acquire/release on the versions; what weaker orderings
add is outside the model. Indices are unbounded integers: the 64-bit ones of
Linux do not wrap in practice, and the variant with 32 bits (STM32, ESP-IDF) is
built by no program here. `Capacity >= 2` is assumed because with one slot
"written" (0 + 1) and "free for index 1" are the same version; every queue of
the program has between 5 and 20 slots.

### QueueFlow

`On` starts push for a producer; `Pushed` is the last step of a push that
succeeds and obliges the producer to call enqueue(), `Enqueue` and
`EnqueueOverflow` are write() succeeding and failing. `Wake` is the thread
reading one address from the pipe and entering pop, `Invoke` and `NoData` are
the rest of invoke(). The pipe holds only this flow's wakeups. Only the thread
pops, so its CAS never fails (part of `Roles`, proved). `noData` and `overflow`
count the two ways a wakeup is lost; `overflow` is stats.threadQueueOverflow.
Timers are not in this module: the thread reads the pipe whenever it is not
empty.

### BrokerRedis

A context is its descriptor. For each descriptor the model keeps the connection
(`link`), what the server has subscribed (`subs`), what it has sent (`sock`),
what hiredis has read and not returned (`reader`) and not written (`obuf`).
These are hiredis and Redis, external; `GetReply` models redisGetReply and
redisCommand by the order in which they return buffered replies, write and
read. `Connect` is connect() in its three outcomes, after the part of
disconnect() (`Closed`, `Unwatched`, `Remembered`) that runs first in
`Reconnect`; the early return of connect() for a connected broker is not
reachable from its callers, which all check or disconnect. `OnMessage` and
`OnReadFailure` are the read invoker, `Subscribe` is subscribe(),
`PublishFails` the failing publish, command or request. Callbacks are atomic:
broker and timer run on one thread. `MaxPartials` bounds connects whose second
connection fails.

Not modelled here: unSubscribe (never called) and xread, which another thread calls
(`Redis2Elastic`).

### KeepAlive

The system-level module. The microcontroller has `connected` and its two
timers; `up` holds the NODE and PUBLISH frames to the proxy, `down` the
loopback answers, each with its age. The proxy is its two brokers: `link` is a
broker's connection as BrokerRedis sees it (`closed` when the server is gone
and the broker has not noticed), `remembered` its `_subscribers`, `subscribed`
what the server has. `OnNode` and `OnPublish` are the handlers of
serialProxy.cpp:225-243 with the branches of subscribe() and publish();
`ReadFailure` and `ReconnectTimer` are BrokerRedis's ways to reconnect.
`silent` is auxiliary: the ticks since the server last had the broker's
subscription.

It abstracts BrokerRedis: subscribing is atomic, both connections of a broker
break together, and no connect stops half way. Timers and frames are urgent:
`Tick` waits until due timers are served and until nothing is older than
`MaxTransit`. `UpLost`, `DownLost` stand for whatever loses a frame
(FrameReceiver, full queues); each counts as one of `MaxFaults` faults, as do
restarts and lost connections.

`brokerProxy` is in the model but has no property: when it has no connection at
the moment NODE arrives, or loses it later alone, nothing makes the node send
NODE again, because the loopback tests only `broker`; the topic to flash the
node stays without subscriber until some other restart.

proxy/src/udpProxy.cpp is the same file as serialProxy.cpp, octet for octet, and
the two share these definitions: the proxy's are mapped to the one, those of
`Proxy` to the other. Neither ever constructs a SessionUdp, since loadConfig()
always sets `config["serial"]`.

### EventLoop

`Scan`, `Select`/`SelectTimeout`, `ServePipe`, `ServeFd`, `Expire` and
`NotExpired` are the steps of one round of run() and waitInvoker(), with `pc`
between them. `left[t]` is `_expireTime` of a timer minus the present, so that
`Tick` decrements all of them and the state space is finite without a bound on
time; `wait` is what is left of select()'s timeout. While the loop sleeps time
passes freely; otherwise at most `MaxBusy` ticks pass from one callback to the
next. A callback may reset timers (a watchdog) and write a wakeup to its own
thread. `Far` stands for the UINT32_MAX msec that request() puts a one-shot
away, `Horizon` for the 5 seconds run() looks ahead. `ClockSetBack` moves every
deadline away: Sys::millis() is CLOCK_REALTIME. Setting the clock forward is a
long callback to the loop, and so is in the model only up to `MaxBusy`; a step
of more than 2^31 msec, which would overflow `waitTime`, is left out. An interval
is at least one tick (`TimerAssumption`): a timer of 0 msec, which the program
has none of, would expire in every scan.

### PppFrame and FrameReceiver

`PppFrame` is octet by octet what ppp_frame.cpp computes, with the table of 256
constants. The exclusive or is defined bit by bit on words of 16 bits, and the
loops over the octets are recursive functions of the round (`Escapes`,
`Unescapes`, `Fcs`): proofs can look into both, which they cannot with the
operators of `Bitwise`. `Framing` chooses a payload; `MCFrameReceiver` has,
besides the receiver's initial states, one for each payload.

`FrameReceiver` sends each message framed onto `line`, where every octet
carries the number of its message (0 for text), a tag the receiver does not
see. `owners` collects the tags of what is in inputFrame, and `emitted` keeps them
beside each payload: with them `Faithful` can speak of what was made of octets to
which nothing happened (`Intact`). `HandleRxd(n)` is handleRxd on the first n octets: the whole loop, then
the timeout test. `age` is the time since the last flag, as far as the test can
tell it apart; it starts arbitrary since `_lastFrameFlag` is uninitialised.
Faults: `FlushOutput` (serial.cpp:198 discards output not yet sent),
`DropChunk` (_incomingSerial is full), `DamageOctet`, and `Tick` (slow line,
stalled thread). `spoiled` notes the messages a fault has touched. What
toStdout prints is left out.

### Proxy

One thread, one round after the other: `Select` takes a copy of what is
readable (`ready`, the code's rfds), `Serve*` handle one wakeup from the pipe,
then `SessionInvoke` and `BrokerInvoke(b)` run the read invokers whose
descriptors were reported, in any order (the table is an unordered_map), until
`RoundOver`. `reads` is `_readInvokers`: it maps a descriptor to whose callback
is called. Descriptors are numbers, and open() and connect() get the lowest one
that is free, so that a number can pass from one owner to another within a
round. `jobs` is the pipe with the elements of the session's three queues;
`Enqueued` drops what a full queue does not take.

`SessionConnect`, `SessionDisconnect` and `Reconnect(b)` close, open, erase and
emplace as the code does. When a read invoker erases the element the loop
stands on, the iteration goes on in freed memory: `Fail` then lets the loop
continue with any part of what is left, or end the program (`alive`). A
callback called on a stale report finds nothing to read; redisGetReply then
waits up to three seconds (`blocked`, `Unblock`).

A subscribe context is a record, `context[b]`: what the server has sent and was
not returned (`replies`), how much of it hiredis has read from the socket
(`parsed`), and for each pattern how far its PSUBSCRIBE has come, from
`_subscribers` over hiredis' buffer to the server and its answer. select()
sees only what is in the socket (`Waiting`). subscribe() is redisCommand:
`Subscribe` returns at once when some reply is there already, whichever it is
(`TakeFor`), frees it, and leaves the answer to PSUBSCRIBE to the read invoker;
with none there it writes and waits in `answer` until `SubscribeReturns`, and
server and port go on meanwhile. A message freed that way is in `swallowed`. NODE
calls subscribe() for `broker` and then for `brokerProxy` (`wanted`), SUBSCRIBE
for `broker` with any of the patterns: "node", the topics of the node's name, or
one of `Others`. `ServerAnswers` is the server seeing a PSUBSCRIBE.

The flash handler is three
steps inside the invoker of brokerProxy. `flashFileToDevice` builds its log
lines from the first character instead of the buffer
(`Bytes((uint8_t)*buffer, ...)`); what they contain plays no part here.
Unplugging the port leaves an open tty that is always readable and returns no
data (`hung`), and plugging it in again does not change that: `Arrive` needs a
descriptor that was opened since. A session that finds no port watches descriptor
-1. Only the flash handler closes and opens the session again, in both cases.

The first connections are left to the timer's connect(), which does what main()
does. Both connections of a broker come and go together.

### Client

`elements` counts what is in `_outgoing` and `_incoming`, `work` the wakeups in
the thread's work queue by the flow they belong to. `On` is QueueFlow::on
through `Enqueue`, which ignores that the work queue is full; `Assign` is the
assignment to `connected`, a ValueFlow. The ring keeps one slot free
(`Usable`). `LoopbackTimer`, `AliveTimer`, `ConnectTimer` and `Invoke*` are the
callbacks; `InvokeIncoming` includes the subscribers that the message does not
concern. `onRxd` runs from loop() (main.cpp), never as an interrupt, so pushes
and pops do not interleave. Between two ticks the loop serves at least one
wakeup: callbacks take milliseconds, the timers seconds.

`systemBuild >> publisher` subscribes on a temporary copy of the flow
(limero.h:792), so `AliveTimer` queues two messages and not three.

### Messages

A message is its items with their lengths; the positions at which each head and
each body end are computed as TinyCBOR lays them out. `Write` is begin, add and
end of CborSerializer on a buffer of the side's size, `Opened`, `GetText`,
`GetBytes` a CborDeserializer that goes on after an error. `Send` writes a
frame if success() says so and lets every handler of the other side try it;
`latest` keeps what became of it. `defined` becomes false where the code uses a
value nobody has set: the size computed when the closing octet does not fit,
the copy of a text that is cut.

### Redis2Elastic

main() loops over xread() (`Xread`, `Command`, then the answer, an error, or
the use of a freed context) and pushes each record in two steps, the claim of a
slot and its publication. The worker handles values the same way and
reconnects: `ReadFailure` frees both contexts, `DisconnectDone` clears the flag,
`Reconnect` connects, and main may run between any two of them. `pub` tells
what main's pointer leads to: nothing, an open, closed or failed context, or
freed memory; on the latter `UseAfterFree` lets redisCommand fail, spoil the
context that was allocated in its place, or end the program. Posting may fail
(`lost`). `program` chooses between redis2elastic (one index for both, texts
accepted) and redis-elastic (an index each).

### Cache

A `ValueFlow` keeps one value: `Assign` and `Enqueue` are the two steps of on()
on a setter's thread, `Invoke` passes on what is there by then. `OtherFlow`
fills and empties the pipe with other wakeups. `sinceSend` is the present minus
`_lastSend`, which is not initialised: it starts anywhere, also in the future.
`OnValue` and `OnTimer` are the two on() of Cache; the loop may be late for the
timer by `Slack`, which is what `Punctual` of EventLoop bounds. `waiting`,
`age`, `gap` and `span` are auxiliary clocks.

## 3. Runs

| Run | Shows | Bounds |
|---|---|---|
| `queue` | inductive invariant, no data race, reasons for false, refinement of `BoundedFifo` | 3 threads, 2 values, 2 slots, pushes start below index 5: the ring goes round twice with pushes and pops both contended |
| `flow` | inductive invariant with its accounting, also when enqueue fails; delivery as long as no wakeup is lost | loop and 2 producers, 2 slots, pipe of 1, index 6 |
| `cache` | nothing forgotten, rate limit, waiting time and silence | 2 setters, 2 values, minimum 2, maximum 3, 1 late, pipe of 2; counters stop past the longest silence |
| `event_loop` | type and lateness of timers, how far a step of the clock puts them off, timers fire for ever, input is served | timers of 3, 4 and 5 ticks (one reset by callbacks, one one-shot), 1 descriptor always allowed to be ready, 2 wakeups, callbacks of 1 tick, one step of the clock |
| `broker` | valid and watched contexts, at most one connection left behind by each half-done connect, order, subscriptions agree, recovery | 3 descriptors, 2 patterns, 3 messages, 2 restarts, 2 half-done connects: two left behind beside the current one |
| `keep_alive` | type, how late a node notices, reachability | ticks of half a second: 2 and 6 for the timers, transit of 1 each way; 3 faults |
| `client` | rings and wakeups, stranded elements, LED, sending goes on | work queue of 5, queues of 4 and 3 slots, timers of 1, 2 and 3 ticks: the work queue is filled while elements remain |
| `proxy` | watched descriptors, rounds end, input is read, commands dealt with, session reopened, waiting for what will not come only after a reconnect | queues of 1, 2 patterns, 1 restart, 2 arrivals, 1 command, 1 flash, 1 unplugging, in every order: a message of each broker is swallowed by a subscribe(), held by hiredis, or found gone after a reconnect |
| `redis2elastic` | order, wakeups, recovery of main, awaited records | queues of 2, 2 records, 1 value, 2 faults, both programs |
| `messages` | what fits is carried, what does not is refused, where undefined behaviour is met | buffers of 100 and 1024 as in the code; sizes at, one below and one above every limit |
| `receiver` | of intact octets only sent messages, in order and once; every intact message; round trip; damage outside the escapes | 2 messages (one escaped), a text with a flag, 2 faults; payloads of up to 3 octets over 7 values with all the special ones, 14 damaged octets |
| `logs_stop` | violation, below | no fault, 2 records, 1 value |

Deadlock is not checked where the system may come to rest: a loop waits in
select when nothing is left to do and the bounds are used up.

Every property has a mutant, a definition with one plausible mistake (marked in
the modules) under which the run finds the property violated.

### Fairness

`FairFlow`: the thread serves its pipe (run() loops for ever and select()
returns when the pipe is readable) and a producer inside on() goes on (on()
neither blocks nor waits). Starting on() is not fair. `FairSpec` of
BrokerRedis: the reconnect timer repeats every three seconds, and select()
reports a readable descriptor until it is read; subscribing, publishing and
everything the server does are not fair. `FairSpec` of EventLoop: the thread is
scheduled (weak), and time passes (strong: it can pass only between callbacks
or asleep, but an execution in infinitely many rounds takes infinite time).

`FairSpec` of KeepAlive: both event loops run and time passes; starting the
proxy or the server is not fair, and `Reachable` assumes that both stay up in
the end.

`FairSpec` of Client: loop() is called for ever and time passes; the three
kinds of wakeups are fair in the strong sense because their queue is first in,
first out and the model does not keep its order. `FairSpec` of Proxy: the
thread runs, and the server answers a PSUBSCRIBE it has got as long as the
connection lasts (one that does not within the command timeout counts as down);
its timers are not fair, since a loop that is never idle need not come to them,
and nothing else outside is. `FairSpec` of Redis2Elastic: all three
threads run, and a broken connection is noticed; that XREAD times out is not
fair.

`InputServed` depends on the load: with a timer whose interval is as short as
the callbacks are long (interval 1 with `MaxBusy` 1) TLC finds the loop serving
timers for ever and never calling select(). The bounds of the run are those of
the program: intervals of seconds, callbacks of milliseconds. `Punctual` and
`TimersFire` do not depend on it.

### What the violation shows

`logs_stop`: `XREAD BLOCK 0` waits for ever, on a context with a command timeout
of three seconds. When the stream is silent for three seconds redisCommand
returns NULL and the context is in error; `connected` stays true, because the
worker watches the other context only, and main spins on failing reads until a
restart of the server makes the worker replace both. `LogsRecover` says that
main does come back whenever the context has not failed by itself.

### Known limits of the code, in the models

The repository promises otherwise in one place, the comment at Sys.cpp:41, which
has the milliseconds "only increasing" where the code takes CLOCK_REALTIME; the
models take the code, and bound what follows from it (`ClockSetBack`, `PutOff`).
For the others no document says that they should not be:

- Two producers on one flow lose a wakeup when the second one's meets the first
  one's unpublished element (`noData` of `QueueFlow` and of `Redis2Elastic`);
  an element then stays behind until another push. redis2elastic has two
  producers on "logs", redis-elastic one on each index.
- After a restart of the server a broker is connected and subscribed to
  nothing. The proxy is healed by the node's next NODE, redis2elastic and brain
  are not.
- Of two messages in one TCP segment the second waits in hiredis until more
  traffic comes (`Held` of `Proxy`).
- A message that is there when subscribe() is called is freed in the place of the
  answer (`swallowed`). In a round in which its descriptor was reported the read
  invoker then waits for the answer to PSUBSCRIBE, and the whole thread with it.
- A serial port that was unplugged is not heard again, whatever is plugged in,
  until a flash image makes the proxy open it anew.
- A connect() whose second connection fails leaves the first one behind
  (`NoLeak`: one each and no more).
- When the wall clock is set back by n msec every timer is up to n msec late.
- Lost wakeups mute a node slowly: each stranded element takes a slot of
  `_outgoing` for good (`StrandedForGood`), and with none left it sends nothing.
- Damage that makes or unmakes an escape changes the length of what is checked,
  and 16 bits do not always notice. The payload 49, 114 lies between the flags as
  49, 114, 168, 240; with 125, an escape, in the place of 168 it is taken for the
  payload 49. The payload 27, 0 is 27, 0, 125, 94, 125, 94 there; with 84 in the
  place of the first 125 it is taken for 27, 0, 84. Noise of the length of a
  frame passes one time in 65536. `DamageDetected` excludes the first,
  `Intact` both.
- The heartbeat of a Cache emits what `_t` was constructed with before the first
  value came, and two emissions may follow within the minimum. The repository
  has no user of Cache.
- ppp_deframe takes two octets from the end of its output without asking
  whether there are two (ppp_frame.cpp:124-125), as after a frame of nothing but
  escapes. It returns false then, and clears the output first thing the next
  time; the models see only the false.
- A reconnect in a read invoker destroys the element waitInvoker() stands on.
  Compilers get away with it or not; `PInv` holds as long as the program lives.

## 4. Proofs

`QueueProofs`, for `ArrayQueue` with every set of threads and values, every capacity of at
least two and every bound on the indices:

- `Invariance`: `Spec => []IInv`. No data race by itself is not inductive: one
  must know that a thread past its CAS owns its index alone and that its slot
  still carries the version it found (`Ownership`), what version every slot
  from head to head + Capacity carries (`Turns`), and that a version test still
  holds when the CAS succeeds (`Claims`). `SlotsDiffer` (indices less than
  Capacity apart have different slots) is the arithmetic they rest on.
- `TypeCorrect`, `RaceFree`, `NoUnexplainedFailure` (an action property) follow
  from it.
- `Refinement`: `Spec => Fifo!Spec`. A push takes effect at its CAS: until the
  value is stored, `ValueAt` takes it from the producer; a pop at its own.

and for `QueueFlow` with every set of producers and sizes of queue and pipe:

- `FlowInvariance`: `FlowSpec => []FlowIInv`, from the steps of the queue's
  proof, `Roles` (who is where in push and pop) and `WakeupAccounting`.
- `Accounted`, `PipeNeverOverflows`: with Capacity <= PipeCapacity, as in the
  program (queues of 5 to 20 against a pipe of thousands), overflow stays 0.
  With several flows on one thread the sum of their capacities counts.
- `NoWastedWakeup`: with one producer noData stays 0.

`TimerProofs`, for `EventLoop` with any finite sets of timers and descriptors,
any intervals and any time a callback takes:

- `LoopInvariance`: `Spec => []SInv`. `Punctual` by itself is not inductive: it
  allows each timer a whole round of callbacks, and one more callback would break
  it. `Lateness` says how much of that round is used up where the loop stands:
  nothing while select() waits, since it waits no longer than the first timer
  allows; then a callback for each descriptor that was reported and is served
  (`rfds`); and one for each timer that was before this one and no longer is
  (`Before`, the order in which run() takes them). A timer that expired is due at
  least a tick later, or `Far`, and so comes behind the ones that are due.
  `Chosen` keeps the timer that was picked in front until it expires, and the
  wakeup that select() reported in the pipe until it is read.
- `TimersPunctual`: `Spec => []LInv`, the lateness of at most
  `MaxBusy * (Cardinality(Timers) + Cardinality(Fds) + 1)` by the clock as it is
  set, and that a repeating timer is never further away than its interval and all
  the steps of the clock (`PutOffKeeps`): the catch-up of setNewExpireTime() takes
  the present for its start, and reset() begins anew.

and for `Cache` with any number of setters and any minimum, maximum, lateness
and pipe: `CacheInvariance` adds to the properties how the timer, `sinceSend`
and the auxiliary clocks are related: without the distance between the timer's
beat and the last emission neither the waiting time nor the silence is
inductive. `NothingForgotten`, `RateLimited` and `PromptAndAlive` follow.

`SerialProofs`, for the line between node and proxy:

- `PayloadsComeBack`: `FramingSpec => []RoundTrip`, for payloads of any length
  and any octets. `Residue` is the checksum: whatever came before, a checksum
  followed by its own two octets adds up to `Good`, because the first octet
  always leads to the last entry of the table and the second to entry 136; that
  is shown bit by bit. `Escaped` and `Unescape` undo each other octet by octet,
  and no escape produces a flag. What a loop computes is a recursive function,
  and what holds after each round is found by taking the least round in which it
  does not (`Induct`): that the recursive function exists at all has to be proved
  the same way (`LoopExists`).
- `DamageIsDetected`: `FramingSpec => []DamageDetected`, for payloads of any
  length, any octet of the frame and any damage that leaves the escapes as they
  are. The entries of the table differ in their upper octets (`EntriesDiffer`), so
  two different octets lead to two different checksums (`OneOff`), and the octets
  behind them, being the same, to different ones again (`FcsWritesDiffer`): the sum
  cannot be `Good` twice. What is masked stays different unmasked (`MaskTells`).
- `ReceiverTypes`: `Spec => []TypeOK`.
- `ReceiverResynchronises`: `Spec => []Resynchronised`, for any messages that are
  not empty, any texts between the frames, any faults, any cutting into chunks
  and any timeout. `Resynchronised` speaks of messages that have come and gone
  only; `SyncInv` says of one that no fault has touched where its frame is
  meanwhile: on the line in one piece (`Placed`), or begun, its first octets in
  inputFrame and the others next on the line, with time left (`Taken`), or emitted
  (`Came`); and that the receiver has octets of it in the second case only.
  handleRxd goes over a chunk octet by octet before it tests the time, so a frame
  may end, begin or pass as a whole within one step: `Sees` holds after each octet
  (`OctetAlong`, `ChunkAlong`).
- `ReceiverIsFaithful`: `Spec => []RInv`, as generally. `FInv` adds to `SyncInv` that
  the line has the messages in the order of sending (`Ordered`) and that whatever
  was emitted intact is earlier than all that is on the line (`Done`). When a flag
  comes and what inputFrame holds is accepted, it holds something; if that is of
  messages that nothing happened to, `SyncInv` says that it is the beginning of the
  frame of one, with the rest next on the line, and the only flag there is the last
  octet: what is emitted is that message (`OctetDone`). That no collision of the
  checksum matters follows from this, not from the checksum.
- `MessagesCarried`, `ErrorsAreDefined`: `MessagesSpec => []Carried` and
  `[]ErrorsDefined`, for buffers, names and values of any size. `WriteIs` says
  when CborSerializer succeeds and when its size is undefined, whatever the
  items are; `OpenedIs` follows the three calls of a CborDeserializer on what the
  buffer holds of a message, `TakenIs` the handlers that try it. That `readErr` of
  an earlier message plays no part is the point of begin().

`BrokerRedisProofs`, for any number of descriptors and patterns (the patterns
finite), messages, restarts and half-done connects:

- `BrokerInvariance`: `Spec => []BInv`. `NoLeak` by itself is not
  inductive: the timer's connect() opens a new subscribe context beside
  whatever is still open, so a broker that is not connected must hold none but
  those of half-done connects (`Idle`). `ConnectKeeps` is the one lemma about connect, used
  by its three callers.
- `ContextsAlwaysValid`, `NothingLeaks`, `NodeIsKept` follow.
- `EmittedInOrder`: `Spec => []InOrder`, from `OInv`: what was emitted, what
  hiredis has read and what is still in the socket are each ascending, each
  comes after the one before, and none is beyond what the server has sent. A
  reconnect empties the last two. `ReplyOrder` states it for redisGetReply and
  redisCommand, whatever reply they take.
- `SubscribersAreKnown`: `Spec => []SubscriptionsKnown`. connect() forgets
  nothing, so a broker without connection must have nothing to remember
  (`Forgotten`); a command that was appended is with the server or still in the
  output buffer, whichever reply came first (`ReplyForgetsNothing`).

`KeepAliveProofs`, for any intervals, transit times and number of faults:

- `KeepAliveInvariance`: `Spec => []KInv`. `Noticed` by itself is not
  inductive: a late answer could make the node connected after any time. It
  cannot because no answer under way is older than the silence of the server
  (`silent <= down[k]`), and then `silent` plus what is left of the connect
  timer stays below `Notice`.
- `KeepAliveTypes`, `NoticedInTime` follow.

`ClientProofs`, for any sizes of the three queues and any intervals:
`ClientInvariance` (no ring overfilled, no wakeup without its element),
`LedKeepsUp`, and `OnlyFullWorkStrands`, an action property: what a queue holds
beyond its wakeups never shrinks and grows only when the work queue is full.

`Redis2ElasticProofs`, for any capacity and any number of records, values and
faults:

- `ElasticInvariance`: `Spec => []EInv`.
- `IndexedInOrder`: `Spec => []InOrder`. What was indexed, what is queued, what
  is being pushed, the rest of the reply and the answer under way form one
  ascending line for records, and another for values; every step moves an item
  along its line or drops it.

`ProxyProofs`, for queues of any size and any number of restarts, arrivals,
commands, flashes and unplugs; the two brokers and the five descriptors are the
program's own:

- `ProxyInvariance`: `Spec => []PInv`. Five descriptors always leave one to
  hand out (`LowestIsFree`), nobody watches it, and so emplace finds its place
  empty (`ReconnectKeeps`, `FlashReconnectKeeps`). That needs the publish
  contexts to be apart from everything else, and the session to be closed while
  the device is flashed (`Placed`). `EnqueuedFits` and `TailFits` bound the
  queues. The other half of it is `Announced`: as long as the table has not
  changed, a broker that was reported has a reply to come (`Expects`). A reply
  that is there now is not enough for the induction, since subscribe() may free
  it: before a call that is still to be made (`WillCall`) one must be in the
  socket, so that redisCommand returns without waiting for its own answer, and
  then either hiredis had one read before and returns that, and the socket's is
  still there, or the PSUBSCRIBE is written and its answer is to come (`TakenFromReported`, `SubscribeKeeps`).
- `BlockingExcused`: `Spec => []BlocksOnlyAfterChange`: a callback that waits in a
  round without reconnect waits for a broker that `Expects` a reply, or whose
  connection was lost meanwhile. The two are inductive only together (`Safe`).

The assumptions are the named ones of the modules (`CapacityAssumption`,
`BoundAssumption`, `ValueAssumption`, `LoopAssumption`, `PipeAssumption`,
`IntervalAssumption`, `SizeAssumption`, `CacheAssumption`, `ValuesAssumption`,
`BrokerAssumption`, `TimerAssumption`, `FdAssumption`, `TimeAssumption`,
`LoopBoundAssumption`, `AlphabetAssumption`, `TimeoutAssumption`,
`MessagesAssumption`, `LineAssumption`). They give the types of the constants,
and: at least two slots in a queue, one octet in a buffer and one tick in an
interval; `Far` beyond `Horizon`, as UINT32_MAX is; no empty message, which a
frame cannot carry.

Model-checked only:

- everything under fairness (`Delivered`, `Recovers`, `TimersFire`,
  `InputServed`, `Reachable`, `KeepsSending`, `RoundsEnd`, `NodeHeard`,
  `CommandsDealt`, `SessionReopens`, `LogsRecover`, `AwaitedIsIndexed`), which
  the prover does not reach. Every invariant and every action property of the runs
  is stated by a theorem.

## 5. Not modelled

- BrokerZenoh and BrokerIceoryx: the build leaves them out and no program
  constructs them. BrokerZenoh sets `_connected` when zn_open() fails and clears
  it when it succeeds, unSubscribe() keeps what it has undeclared, and publish()
  answers ENOENT unless newZenohPublisher() was called, which nobody does.
- Poller: its templates take sources of which none is a Requestable, so that
  none compiles when used; the list it polls is always empty.
- SessionUdp and Udp: unreachable, see KeepAlive above.
- brain: one thread, callbacks without state of their own, over BrokerRedis.
- EspTool, DtrRts, modeRun(), modeProgram(): ioctl calls and delays whose effect
  is in the hardware; nothing in the other programs calls them.
- proxyCli, redis-test, dump, log, configuration, reflection: input, output and
  formatting.
- Memory orderings weaker than sequential consistency, indices that wrap at 32
  bits, and topics with fewer than four parts, of which redis2elastic reads
  parts that are not there (redis2elastic.cpp:182).

## 6. Plan

To model next: an abstract broker (connection, remembered and actual
subscriptions) that KeepAlive uses and BrokerRedis implements. To prove next: that two damaged octets are detected too, which
needs more of the checksum than different entries in its table.
