# A verification of EncoderWithWebSocket

The program shares the screen and the sound of a QEMU virtual machine with the
members of a meeting. It is a library (`clbStart`, `clbStop`, `startStreaming`,
...) that a patched QEMU loads. Clients connect by WebSocket, say which member
of the meeting they are, receive an encoded stream (video and audio in MP4
fragments, or JPEG images and audio) and, when they have the authority, send
mouse and keyboard events back.

This directory holds TLA+ modules that model the program, TLC configurations
that check them on small instances, and TLAPS proofs for every value of the
constants.

## 1. Inventory

### Components, their state and their operations

| Component | Source | State | Operations |
|---|---|---|---|
| Queue | `EncoderCQ.cpp` | `front`, `rear`, `queue[]`, `isStop`, two mutexes, a condition | `enqueue`, `dequeue`, `clear`, `start`, `stop` (and `size`, which nobody calls) |
| Session | `Collabo.cpp` | `clientList` (indexed by socket and, uniquely, by mcode), `mode`, `sharedMtx` | `onOpen`, `onMsg` (MOUSE, KEYBOARD, AUTHORITY, CHIEF, SETTING, MODE), `onClose`, `startStreaming`, `stopStreaming` |
| Stream | `Collabo.cpp` | `header`, `headerSize`, `firstCount` | `readPacket`, `sendVideoInitMsg`, `sendVideoInitMsgAll`, `sendVideoPktAll` |
| Roles | `MySQLConnector.cpp` | the `role` column of the table `participant` (0 chief, 1 authority, 2 neither) | `isSuited`, `changeAuth`, `changeChief` |
| Encoder | `Encoder.cpp` | `stopped`, `eCtx.isSilent`, codec contexts, time stamps, `remainedAudioSize`, two queues, `encoderMtx` | `initialize`, `stop`, `setSilent`, `encodeAudio`, video and audio loops, `loopStop` |
| Compressor | `JpegCompressor.cpp` | `stopped`, `fullFlag`, previous image | `initialize`, `stop`, `sendFull`, loop |
| Agent | `AgentManager.cpp` | `stopped`, a socket | `run`, `stop`, loop |
| Server | `WebSocketServer.cpp` | uWebSockets hub and group | `initialize`, `run`, `stop`, `sendAll` |
| QEMU glue | `test_collabo.h` | `stopped`, `clbCtx` | `state_callback`, audio callbacks, `signal_event` |

`Base64.cpp` is a pure decoder; `test_vl.c` and `test_qemu-options.hx` are
copies of QEMU files with a small hook; `main.cpp` calls an old signature.

### How they interact

One thread runs the hub. It calls `onOpen`, `onMsg` and `onClose` one after the
other, each to its end. The handlers read and write `clientList` under
`sharedMtx`, query and update the table synchronously, and start and stop the
stream through `state_callback` when the list stops or starts being empty and
when the mode changes.

`startStreaming` initialises the encoder, which detaches a video loop and an
audio loop, and in image mode the compressor, which detaches its own loop.
QEMU's audio thread puts sound into `audioCQ` (`encodeAudio`). The audio loop
takes it out, encodes it and, as sound sets the pace, puts a video frame into
`videoCQ` for the video loop. While the machine is silent the video loop sets
the pace instead and puts silence into `audioCQ`. Encoded packets go back
through `readPacket` to all sockets in `clientList`, which these threads walk
without the lock.

### What is hard

* **Two mutexes on one ring.** `enqueue` and `dequeue` exclude calls of their
  own kind only; `start` and `stop` take no lock.
* **Handlers that call back into themselves.** `terminate` may run `onClose`
  below `onMsg`, and a callback may end the process.
* **Two copies of the roles.** The list in memory and the table are changed one
  after the other, and the table's two UPDATEs are not one transaction.
* **Detached threads.** Nobody joins the loops; `stop` sleeps 100 ms instead and
  then frees what they use. Flags are read without locks.
* **Shutdown and timeouts.** `clbStop` deletes the group under the hub's feet;
  the agent's receive timeout is confused with the end of a connection.

`PROJECT.json` lists these as hazards, each at its line.

### What makes each component correct

* Queue: it is a FIFO; it does not hand out what was not stored; `clear`
  releases each element once; nobody waits for ever on a stopped queue.
* Session: one chief; authority in the list agrees with the table; all members
  agree on who is chief; the stream runs exactly while someone watches; a second
  client with the same mcode replaces the first.
* Stream: everybody who becomes a member gets the two packets of the header,
  both and of one stream, whichever thread sends them; and gets them before any
  other packet, where the code can promise that.
* Encoder: after `stop` nobody uses a freed context; a stream that was told to
  run runs and has loops of its own; silence is encoded while it lasts; the
  loops end after the last `stop`.
* Audio framer: the remainder is shorter than a frame; no byte is lost or
  doubled across elements; padding brings the sound up to the picture.
* Compressor: at most one loop; a requested full image is sent; what changed
  lies inside the rectangle that is sent.
* Agent: the details of the meeting go to agents only; a failed attempt leaks no
  descriptor; every attempt ends; `stop` ends the loop.

## 2. Modules

| Module | What it is |
|---|---|
| `BoundedFifo` | the abstract queue: what the encoder takes `EncoderCQ` for |
| `EncoderCQ` | the queue: one action per access to a shared field; implements `BoundedFifo` |
| `Collabo` | the session and the roles: one action per handler |
| `Stream` | the way of a packet from the muxer to the members |
| `Encoder` | the life cycle of the encoder, its loops and lambdas, and QEMU's side of it |
| `AudioFramer` | how sound is cut into frames and kept in step with the picture |
| `JpegCompressor` | the compressor's loops and the members they serve |
| `AgentManager` | the thread that looks for the agent of the meeting |
| `MC...` | the instances of each for TLC |
| `EncoderCQProofs`, `CollaboProofs`, `StreamProofs`, `EncoderProofs`, `AudioFramerProofs`, `JpegCompressorProofs`, `AgentManagerProofs` | the theorems of each |

Some operators are used by no action: each is a variant of the action that
follows it, with a plausible slip in it, and serves to confirm that a property
notices the slip.

The modules meet at narrow interfaces. `Collabo` decides when the stream is to
run (`encoding`, `compressing`); `Encoder` and `JpegCompressor` take START and
STOP from an arbitrary hub that obeys the same protocol (START may come twice,
the mode changes only between a STOP and a START). `Encoder` keeps of its two
queues what `EncoderCQ` promises about length and `isStop`, with the empty take
after a wait as the one irregularity that concerns it. `Stream` repeats of
`Collabo` the list's membership and of `Encoder` only which streams there are;
`AudioFramer` repeats of `Encoder` only who may be framing.

### EncoderCQ

`front`, `rear`, `queue`, `isStop`, `isWait` and the two mutex owners are the
fields of the class; `pc` says where each thread is. `TestFull`, `AdvanceRear`,
`StoreElement`, `NotifyAndReturn` are lines 61, 64, 66 and 67 of `enqueue`;
`Dequeue` to `ReadElement` are lines 73 to 87 of `dequeue`; `Clear` and
`ClearLockSecond` take the locks of `clear` in its order. The library is built
without optimisation (`toLibrary.sh`), so a thread's accesses happen in program
order.

The ring has `maxsize` slots but `maxsize + 1` positions, 0 to `maxsize`.
Position `p` designates slot `p - 1`, so position 0 designates `queue[-1]`. The
model has that cell, lets the queue use it as the code does, and lets the
environment overwrite it (`Clobber`).

An element stands for its number in the order of acceptance, so that "the
oldest" can be stated. `accepted`, `taken`, `foundEmpty` and `events` are
history variables: no guard of the code reads them. (`accepted < MaxAccepted` in
`Enqueue` is the bound of the model.)

The code is not a FIFO under all schedules. The model names the ways in which it
fails, as the members of `Hazards`: an *early* read of a slot not yet stored, an
*empty* take after a wait that is not followed by another test, an *overrun* of
the one full ring the test does not recognise, and a *clobbered* cell -1. The
properties then say what holds until one of these has happened, and that there
is no fifth way. `ImplementsFifo` says it as a refinement: the cells from
`front` to `rear`, the one being stored counted as stored, are the `items` of a
`BoundedFifo`, which every step of the ring maps to `Put`, `Take`, `Clear` or
nothing, until `broken`. That the promise may be broken is part of the abstract
queue, as it is part of the code.

### Collabo

The variables are the client list, its records, the mode, whether encoder and
compressor have been told to run, and the table. `conn` is the library's set of
open connections, which is larger than `clientList` when `onOpen`'s insert is
refused: every new record has the mcode `""`, and mcodes are unique.

Each handler is one action, as the hub thread runs it to its end. Handlers take
apart what the code takes apart: `Authority` and `Chief` change the list first
and the table second, with the second part subject to exceptions (`lost' =
TRUE`) and, between the UPDATEs, to the end of the process. A step that is
undefined in C++ (`modify(end())`, `erase(end())`, a dereferenced `end()`) ends
the process in the model, after the database has or has not been updated. Where
what follows would be harmless it is not modelled.

`terminate` belongs to a library that is not part of the repository.
`Terminations` says which of its possible behaviours to expect: `"nested"`, the
disconnection handler runs before `terminate` returns (then `onClose` waits for
ever for the lock that `onMsg` holds, and `hub` is `"hung"`), or `"deferred"`,
it runs on a later turn of the hub (`closing`).

Clients are assumed to name members by their mcode, never by the empty string of
a connection that has not joined, and the table to hold the roles 0, 1 and 2
only.

`told` is a history variable: what each client has been told about who is chief,
from the three messages that say so (`ChiefAnnounced`: all members agree).
`ChiefRowStays` is the table's side: once a meeting has a chief the table keeps
one, with three exceptions the code has. A chief that takes its own authority
has 2 written over its 0; a chief may hand its role to somebody who is no
participant, so that the second UPDATE matches no row; and an UPDATE may be
lost, or the process end between the two.

### Stream

The first two packets of a stream are its header. `readPacket` is taken apart at
its accesses to `firstCount`, `headerSize`, `header` and the list:
`TestFirstCount` to `TestHeaderFull` are lines 240 to 245 of `Collabo.cpp`; the
senders' walks are one `Visit` per client and `EndWalk`, so that the hub may
insert, promote and erase records below a walk. `Open`, `Setting` and
`SettingSendInit`, `Close` and `Mode` are the handlers as far as they touch the
stream; between `Setting` (the client is a member) and `SettingSendInit` the
reader may run. A member may send SETTING again. `message` is the INITVIDEO that
`sendVideoInitMsgAll` builds before its walk; what the hub resets meanwhile does
not change it. `StartStreaming`, `ResetHeader` and `Initialize` are the resets
and the call of `startStreaming`, in which the muxer may call `readPacket` on
the hub's own thread (`WriteHeader`), as it does for the trailer in `Stop`.

A packet is `<<stream, number>>`. `got` is history: what each client has
received. `events` names what breaks the promise: `"torn"`, a record inserted or
erased below a sender's walk, whose iterators that may invalidate; `"restart"`,
a START while the encoder runs, which resets the capture although `initialize`
does nothing (a refused connection causes it); and `"resize"`, a lambda that
restarts the encoder for a new screen size without resetting the capture, after
which the new header travels as data and later joiners get the old one. The
properties hold while none of these has happened; the events themselves are part
of the behaviours explored.

### Encoder

`stopped`, `eCtx` and `encoderMtx` are the fields of `Encoder.cpp`, `ctx` says
for which mode the codec contexts were built, if any. `initialize` is
`Initialize` (which clears `stopped`) and, under the lock, `Fill` (the pointers
and `eCtx`) and `BuildSucceeds` or `BuildFails`; `stop` is `Stop`, `Grace` (the
100 ms), `VideoSet`, `AudioNotify`, `AudioSet` and `Free`. The loops have a slot
each and go through `VideoTest` or `AudioTest`, `Detach` (a lambda for the
silence) or `Dequeue`, `Wait`, `Take`, and `Encode`. `Take` is what `dequeue`
does after its test of an empty ring, whether it has waited or found `isStop`
raised; it tests `isStop` again, which `start` may have cleared. A lambda
requests the picture, may stop and restart the encoder for a new size, makes up
silence and encodes. QEMU's audio thread calls `SetSound`, `SetSilent` and
`EncodeAudio`, its screen changes size in `Resize`.

Of each queue the model keeps its length and `isStop`; of a frame, that it is
being encoded; of the time stamps, that an audio loop sometimes asks for a
picture. `Prompt` is the code's own assumption, that 100 ms suffice for every
thread that is not blocked. `Fault` ends the process: an encoding error reaches
`loopStop`, which destroys a joinable `std::thread`, and a trailer cannot be
written for a muxer that failed half-way. `UseFreed` ends it through a NULL or
freed context.

`events` and `left` name what makes the guarantees weaker:

* `"stale"`: a woken consumer found its ring empty and took what was left there;
  from then on the ring looks full.
* `"survival"`: a loop went on although its encoder was being, or had been,
  stopped. A loop woken before `isStop` is raised does that; it then shares its
  queue with the loop of the next session, and the one notification of the next
  `stop` wakes only one of them.
* `"crossing"`: a START found a lambda of the last session still about to stop
  and restart the encoder. It then restarts an encoder that is not its own, and,
  if the mode has changed to images, uses a video codec that is not there.
* A loop that is `Stuck` waits in `dequeue` although its queue will get no
  element: `setSilent` came between its test of `isSilent` and its wait.

A failed `initialize` leaves `stopped` false and `ctx` `"broken"`, and a STOP
that arrives while a lambda restarts the encoder does not hold, as the lambda
starts it again. Both are in the model; `StreamsWhenTold` and `LoopsServe` state
what remains true.

### AudioFramer

One caller is the audio loop, the others are the lambdas of the sound-only mode,
which frame silence on the same buffer. `RestOfFrame`, `Copy` and `SendFrame`
are the inner loop of `encodeAudioImpl` and of the loop's own copy of it;
`PadElement` is the padding when sound begins or ends, `Sync` the decision to
ask for a picture. The size of the padding is computed with doubles and
truncated, which may cost a byte (`Rounding`), and `isSilent`, read again at its
end, may have changed since its test. Times are counted in bytes, a picture lasts `Tick`, and
`framed * Frame` bytes have been sent. Bytes are numbered as they are taken, so
that "in order" can be stated.

`events` names two defects and one failure: `"overlap"`, two callers in the
buffer at once; `"short"`, a negative padding, which makes the padded element
shorter than what is copied into it; `"misframed"`, a frame with other bytes
than the next ones, which `FramesInOrder` shows to need an overlap.

### AgentManager

The thread of `run`, line by line: `OpenSocket`, `Connect` or `ConnectFails`,
`Receive`, `ReceiveFails` and `ReceiveEnd` for the three kinds of results of
`recv`, `Check`, `Send`, `SendFails` and `Tell`. `conn` is the kernel's side of
each descriptor and the agent's: what it says, how much has arrived, whether it
hung up or broke off. A word is four bytes of which each is as expected or not.

The model shows what the code's message "recv timeout" hides: a timeout is -1
and is retried for ever, while 0, the end of the connection, is what leads to a
reconnection. So an agent that connects and says nothing blocks the thread
(`AgentAnswers` is the premise), a send on a broken link is repeated for ever
(`AnswersArrive`), and a stop before the thread's first line is lost. Each
completed handshake loses a descriptor, until `socket` fails and the thread
ends.

### JpegCompressor

`stopped` and `fullFlag` are the fields; `pc`, `width`, `prevBuf` and `data` are
where each loop is and its locals (`width` stands for width and height). Each
access to a field, to the screen or to the list of members is a step, so the hub
thread and other loops can come between any two of them. `initialize` may be
called while an older loop is asleep: it revives that loop, as `LoopStart`
clears the `stopped` both read. `Join` and `SendFull` are lines 403 and 460 of
`Collabo.cpp`, with the loops running in between.

The screen consists of regions that change independently. The rectangle sent
covers the regions in which the new image differs from `prevBuf`, and maybe
others; an empty rectangle is not sent. `Corner`, the bottom-right pixel, is not compared, as in line 60; a
change there may still be seen through the four-byte comparison of its left
neighbour.

`picture`, `known`, `missed` and `overlap` are history: what each member's
screen shows, the size it was last told, who missed an image because
`tjCompress2` failed, and whether two loops were ever alive at a time.

## 3. Runs

| Run | Instance | Result |
|---|---|---|
| `queue_safety` | 2 producers, 2 consumers, 1 controller, 2 slots, 5 elements; 964,895 states | holds, the refinement of `BoundedFifo` included |
| `queue_liveness` | 1 producer, 2 consumers, 1 controller, 1 slot, 2 elements; 120,659 states | holds |
| `queue_early_read` | 1 producer, 1 consumer, 1 controller, 2 slots | violated in 8 states |
| `session` | 3 connections, 3 members, both behaviours of `terminate`; 1,728,031 states | holds |
| `session_taken` | 2 connections, 1 member, nested `terminate` | violated in 5 states |
| `stream` | 2 clients, 3 streams of 4 packets, 1 resize; 7,792,703 states | holds |
| `encoder_sessions` | 2 + 2 loops, 1 lambda, 2 STARTs in either mode, 1 change between sound and silence, 1 resize, failures; 3,768,680 states | holds |
| `encoder_liveness` | 1 + 1 loops, 1 lambda, 2 STARTs, 2 changes between sound and silence; 364,371 states | holds |
| `audio_framer` | 2 lambdas, frames of 3 bytes, pictures of 5, elements of 1 and 4, 13 bytes, 2 pictures; 769,294 states | holds |
| `compressor_safety` | 2 loops, 2 members, 2 regions, 2 sizes, 2 changes; 3,184,700 states | holds |
| `compressor_liveness` | 2 loops, 1 member, 2 regions, 1 size, 2 changes; 708,876 states | holds |
| `agent` | 2 descriptors, 3 words; 19,818 states | holds |

**Bounds.** `MaxAccepted` bounds the elements a behaviour accepts. With two
slots there are three positions, so five elements let both indices wrap, fill
the ring in each of its rotations (also with `front = 0`, `rear = maxsize`) and
pass through cell -1. Two producers and two consumers are enough for every pair
of racing calls, among them a `clear` against a `dequeue` and two dequeues woken
for one element. Three connections allow a hand-over, a client that is not part
of it, and the refused insert; the table starts out arbitrary with at most one
chief. `Loops` bounds the calls of `initialize`; two allow an overlap and a
revived loop. `MaxDraws` bounds the changes of the screen; two allow a change
and its reversal, which a loop can miss, or a change of content around one of
size. In `stream`, two clients are a member and one that joins, leaves or is
refused around it; three streams are a first one, one after a change of the mode
or a STOP, and one more, so that what is left of a stream can reach the one
after the next; four packets are the header and two more, so that a late joiner
can miss some. In `encoder_sessions`, two STARTs allow a second session around
the remains of the first, hence two slots for the loops of each kind; with one
slot a second `initialize` would have to wait for the first loop to end. One
lambda slot makes a loop wait for the lambda before; the code waits a frame's
time instead, and lambdas that overlap are in `audio_framer`. `encoder_liveness`
has one slot each, as two more would make the liveness check unaffordable, and
two slots in its queues so that a queue is neither empty nor full. In
`audio_framer`, a frame of 3 and elements of 1 and 4 bytes give every relation
of element, remainder and frame, and a picture of 5 a multiple of neither; 13
bytes are four frames. In `agent`, two descriptors allow one completed handshake
and one more attempt; the words are the right one and one that is wrong early or
late. Nothing else is bounded. Threads of one role are interchangeable, as are
connections and member codes, so the safety runs use symmetry; the liveness runs
do not. `CHECK_DEADLOCK FALSE` stands where the system may really stop: the
process may end, all threads may wait with nothing more to come, or the bound is
reached.

**Fairness.** `FairSpec` assumes that a thread inside a critical section runs on
(weak fairness) and that a thread blocked on a mutex that is released again and
again gets it in the end (strong fairness of `Reacquire` and `ClearLockSecond`).
The operating system's scheduler gives the first, and the mutexes of boost on
Linux give the second in practice, although not by contract. No call is ever
obliged to begin, and a waiting consumer is never obliged to wake, as the code
does not promise it. In `JpegCompressor` a loop that runs goes on after its
sleep, and the hub thread ends the handler it is in; both are weak fairness of
threads that never block. Neither `initialize` nor `stop` nor any client has to
do anything. In `Encoder` every thread that can go on does: callers, loops,
lambdas, and QEMU's audio thread once it is inside `setSilent`. START, STOP,
sound and spurious wake-ups are never obliged to come. In `AgentManager` the
thread runs on, and a `recv` that could answer does so rather than time out for
ever.

**What the compressor runs show.** The unlocked `fullFlag` looks like a
lost-request race: a request between the test (line 44) and the reset (line 49)
is wiped. It is harmless, as the loop has dropped `prevBuf` before the reset and
sends a full image after it, to a list the member is already in (`RequestKept`).
Two loops that send their own differences in turn also converge
(`PictureCatchesUp`). What is not guaranteed shows in the exceptions: a member
that an image failed for (`missed`) can stay behind for good, the corner pixel
can stay stale, and with an `overlap` a member can get an image of another size
than it was told.

**What the encoder runs show.** Under the code's own 100 ms assumption nobody
encodes with freed contexts, unless a loop outlives a stop or a START crosses a
lambda (`ContextsStay`), and between a stop and the next start no loop is left
waiting for a notification (`StopWakesAll`). Whatever lambdas do for a new screen size, a stream
that was told to run runs, and with loops of its own (`StreamsWhenTold`,
`LoopsServe`). The order of `start`, `isSilent` and `stop` in `setSilent`, on
which its comment insists, lets silence flow (`SilenceFlows`) except when a loop
slips between its test and its wait. The single notification of each queue in
`stop`, given before `isStop` is raised, ends all loops unless one has survived
an earlier stop (`StopEndsLoops`).

**What the stream run shows.** Without a lock on the counters or the list, no
member misses the header: who joins during the capture is found by the reader's
walk or by its own SETTING, and an INITVIDEO is never half a header. What a late
joiner may get is a packet before its INITVIDEO, and two INITVIDEOs.

**Findings.** Two runs show the code at odds with its own comments.

* `queue_early_read`: `Collabo.cpp:528` says that `encodeAudio` and the others
  are thread-safe. `enqueue` moves `rear` before it stores the element, and
  `dequeue`, under another mutex, takes the moved `rear` as its signal.
* `session_taken`: `Collabo.cpp:400` says that a second client with the same
  mcode turns off the other one. With a nested handler the hub deadlocks on
  `sharedMtx`; with a deferred one the newcomer's record is erased by `modify`.

## 4. Proofs

Constants are arbitrary: any sets of threads, connections and members, any
`maxsize > 0`. The assumptions are `QueueAssumption` (the roles of threads are
disjoint), `SessionAssumption` (the empty mcode is nobody's), `StreamAssumption`
(at least two packets per stream, for the header has two), `FramerAssumption` (a
frame is not empty and no longer than a picture lasts, nor is an element empty),
`EncoderAssumption`,
`AgentAssumption` and the compressor's, which say of what kind the constants
are.

**Queue.** `RingInv` is inductive. It has three layers, proved one on top of the
other.

1. `LockInv`: types, `LocksFollowCode`, and a thread that passed the bound still
   has room under it. From here on "inside enqueue" and "owner of `enqueueMtx`"
   are the same, which excludes a second enqueue or a clear.
2. `ShapeInv`, as long as no overrun and no empty take has happened: the backlog
   is between 0 and `maxsize`, `rear` is that many positions behind `front`, a
   producer that passed the test for a full ring still has room, and a consumer
   that found an element still has one. Weaker statements are not inductive:
   that the backlog stays within `maxsize` needs the second, and that it stays
   positive for a consumer needs `clear` to hold both locks.
3. `ContentInv`, as long as no hazard at all has happened: the cells between
   `front` and `rear` hold the accepted elements in order but for the one being
   stored, and the cell a consumer is about to read holds the oldest.

`RingHoldsBacklog`, `WrongOnlyAfterHazard`, `FoundElementStays` and
`ClearFreesBacklog` follow from it, the last by arithmetic on positions. So does the refinement `FifoCorrect`: under `RingInv`
the cells from `front` to `rear` form a sequence, to which `AdvanceRear`
appends, from which `AdvanceFront` takes the head, which `clear` empties and
which no other step changes.

**Session.** `RoleInv` adds to `AtMostOneChief` and `AuthorityBacked` what makes
them inductive: mcodes are unique in the list, a record with a role has a row in
the table, and, until an UPDATE is lost, a record that says chief has the
table's row 0 or the table has no chief at all. The second case is real: a chief
that toggles its own authority loses its row. `StreamFollowsClients` is
inductive by itself, given the types.

`ChiefAnnounced` is inductive together with `RoleInv`: each handler that changes
who is chief tells all members, and each that admits a member tells both sides.
`ChiefRowCorrect` takes one more inductive statement, `ChiefMayUse`: while the
table has a chief, a chief in the list has the authority. Therefore AUTHORITY,
sent for the chief, can only take it away, and no other record can name the
chief's row.

**Stream.** `IInv` has the bounds, which always hold, and five parts that hold
while no event has happened: `ReaderInv` (a packet in `readPacket` is the latest
of a running encoder), `CountInv` (how far the two counters are, for each place
of the reader; this is where the unlocked counters would go wrong), `HeaderInv`
(the bytes captured are the first packets), `MemberInv` (what anyone has got is
a whole header) and `Informed` (once the header is complete, who lacks it is
either about to be visited or the client whose SETTING is being handled). The
last is the heart of `NobodyLeftOut`, and inductive only because the reader
completes the count before it begins to walk.

**Framer.** `FrameInv` says of each caller where it is in its element (`Place`):
what was taken is framed, in the buffer or still in the element, in this order.
Without overlap there is at most one caller, so `FramesInOrder` follows when it
is done; `PaddingCatchesUp` follows from `due <= taken` and a remainder below a
frame; the byte that rounding may cost is made good by the element, which is not
empty. `PaceInv` is about the rounding of `av_rescale_q`: the pictures asked for
are those between the nearest picture of the frame at which silence ended and
that of the latest frame. It is inductive because a frame is no longer than a
picture, so that the nearest picture moves by one at most and one request per
frame is enough (`NextNearest`); two roundings of half a picture make
`PicturesKeepPace`.

**Encoder.** `IInv` has four parts on top of the types and `LockHeld`, who owns
`encoderMtx`.

1. `HeldInv`: who owns the lock knows `stopped` (`StoppedInv`), and threads end
   with the process, those that a stop left behind not before.
2. `StreamsWhenTold`: inductive given these, as every lambda that stops the
   encoder restarts it.
3. `ServeInv`: `LoopsServe`, and why the audio loop of a running encoder stays:
   its queue is not stopped, or the loop has yet to start it.
4. `ContextInv`, while `Calm` (100 ms suffice and neither a survival nor a
   crossing has happened): who was `left` by a stop is only on its way out; once
   that stop has slept, every loop only fades and no lambda does more than stop
   or restart (`DownFades`); nobody new has appeared meanwhile; and the contexts
   are those of the mode that loops and lambdas run in. `ContextsStay` follows
   from the last two, and none of them is inductive without the others, as the
   contexts are safe only because nobody is left to use them when they go.

`StopCorrect` (`StopWakesAll`) is what `StopEndsLoops` rests on: after a stop no
loop waits for a notification. Each queue gets one notification, so `SleepInv`
has to say that one loop of a kind is alive besides those left behind
(`OneEach`), that none of those left behind waits (`LeftAwake`), and which queues
the thread in `stop` has notified (`NotifiedAwake`). `StepMoves` states once what
a step may do to loops, to `left` and to who is in `stop`; the three parts follow
from it without another look at the actions. That the loops then end is a matter
of fairness.

**Agent.** `IInv` says what the thread has established where it is: the bytes
checked are those of this connection (`CheckedBytes`), and each stage has
completed the one before it.

**Compressor.** `RequestKept` is inductive together with `ResetServes`: a loop
that is about to reset the flag has dropped its buffer. `SizeKnown`, an action
property, follows from `SizeInv`: without overlap one loop runs at a time, and
once it has made its first announcement every member has been told that loop's
size or none. `TypeOK` carries the fact that `prevBuf` has the size of `data`,
without which line 69 would compare past its end.

`FollowsCorrect` (`PictureFollows`) is what `PictureCatchesUp` rests on: a
rectangle around all that differs takes a picture that agrees with `prevBuf` to
one that agrees with the screen (`PatchedAgrees`), and without overlap nobody but
the loop that sent the picture moves `prevBuf`. It takes the fact that who joins
has no picture yet. With two loops alive it is false, and that they catch up all
the same is left to TLC.

Only model-checked: liveness (`ClearCompletes`, `WokenReturns`,
`PictureCatchesUp`, `SilenceFlows`, both `StopEndsLoops`, `StopEndsThread`,
`KeepsServing`), which the proof system does not reach. Of two of them the
safety half is proved, as said above: `StopWakesAll`, which `encoder_sessions`
checks, and `PictureFollows`, which no run lists.

## 5. Not modelled

* Pixels: how the compressor finds the corners of its rectangle. The model says
  which regions the rectangle covers.
* The codecs, the time stamps as numbers of the muxer, and the fields of the
  codec contexts.
* `EncoderCQ::size`, which has no caller under `src/`.
* The full ring that `enqueue` does not recognise, in `Encoder`: its `Enqueue`
  refuses at `QueueSize`. The ring itself is in `EncoderCQ`, where this is the
  *overrun*.
* The moment between the starts of the two loops: `BuildSucceeds` starts both.
  `initialize` holds `encoderMtx` between the two, and a loop not yet started is
  as one that the scheduler has not run.
* Two calls of `readPacket` at once. The video and the audio thread call
  `av_interleaved_write_frame` on one context without a common lock
  (`Encoder.cpp:474` and `677`); what then happens inside the muxer, and which
  bytes it hands out, is not in the repository. `Stream` lets one packet at a
  time be written, so what it shows about the counters of `readPacket` is shown
  for callers that the muxer keeps apart.
* The shutdown: `clbStop` closes and deletes the group below the hub's feet;
  what that does to a handler that runs is inside uWebSockets.
* MOUSE and KEYBOARD forward input of a client with authority into QEMU and
  change no state of the program.
* SQL text, JSON and message layout, and `Base64`, a pure decoder. `getVMInfo`
  is never called.
* Several meetings: their members share `clientList` but not rows of the table.
* `test_vl.c` and `test_qemu-options.hx` are QEMU's; `main.cpp` is not part of
  the library.

## 6. Plan

1. **Collabo with several meetings**: one list, several tables.
2. **The rectangle** of the compressor as a function, against its definition
   over small images.
