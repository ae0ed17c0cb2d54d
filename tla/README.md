# Verification of PrankTok

PrankTok is a voice-call service: a Java server (`src/server`) to which Android clients
(`src/client`) hold one TCP connection for signalling and several TCP and UDP channels for
voice. This directory holds TLA+ models of the parts of it where concurrency, ordering or
arithmetic decide correctness, the TLC configurations that check them, and theorems about
them with proofs that TLAPS checks.

## 1. The system

| Component | Code | State it keeps | Operations |
|---|---|---|---|
| SessionManager (one thread) | `server/session/SessionManager.java` | `sessionList`, maps from socket, phone number and prank key to Session, the SQLite table of prank keys and numbers | accept, read a socket and hand the buffer to the session's handler, closeSession, allocate keys and numbers, look users up |
| Session (5000 pooled objects) | `server/session/Session.java` | `state`, `callingSession`, queues of output messages, input buffers, voice buffers and voice managers, `sessionInfo`, keys | `putOperation` (login, call, accept, hang up, ...), `calledFrom`, `callAccept`, `callOff`, `OnClose` |
| SessionHandler (100 threads) | `server/session/SessionHandler.java` | a queue of sessions with something to read or write | `run`, `read`, `write`, `queueSession` |
| ConnectionMonitor (one thread) | `server/session/ConnectionMonitor.java` | `invalidSessionQueue`, `errorCountMap`, `connectedIPMap`, the voice managers | scan for late sessions, close invalid and erroneous ones, count errors, admit addresses, choose voice managers |
| SessionPool, BufferPool | `server/session/SessionPool.java`, `server/main/BufferPool.java` | a free queue and a semaphore per object | allocate, deallocate |
| VoiceTcpManager (30), VoiceUdpManager (100 threads) | `server/voice/` | `activeSessionMap`, sockets, error counts | relay a voice packet to the caller's queue, send what the other party has queued |
| VoiceDataList | `server/voice/VoiceDataList.java` | up to 100 buffers, the sequence numbers seen | offer, poll, reset |
| PacketTokenizer (server and client) | `server/voice/PacketTokenizer.java`, `client/src/network/PacketTokenizer.java` | a 16 KiB buffer, the scan position, the packets found | put, get, flush |
| Client Session | `client/src/session/Session.java` | `state`, keys, output queue, voice queues, latencies | react to server operations, callTo, callAccept, callOff |
| Client network thread | `client/src/network/SessionManager.java` | socket, whether it is connected, when it last heard of the server | connect, read, write, heart beats, close, reconnect |
| Client voice channels | `client/src/network/Voice*Manager.java` | a channel each, the list of packets to send, the numbers seen | start, connect, write, read, close |
| Client voice pipeline | `client/src/voice/`, `client/jni/` | priority queues, ring buffers, vocoder | record, encode, reorder, decode, play |
| Client user interface | `client/src/com` | what its fragments show, the messages to its handlers | dial, accept, hang up, pause and resume, start and stop voice |

### How the parts interact

A client's bytes arrive at the SessionManager thread, which puts the Buffer into the
Session's input queue and the Session into its handler's queue. The handler cuts the bytes
into packets (PacketTokenizer) and runs each operation (`Session.putOperation`). An operation
answers by queueing a message at its own Session and, during a call, at the Session of the
other party, whose fields it changes directly: `calledFrom`, `callAccept` and `callOff` run on
the *caller's* thread and write the *callee's* `state`, `callingSession`, manager queues and
voice list. Nothing of this is locked; the maps and queues are concurrent collections and the
fields are plain Java fields.

A client logs in with a key that the server's database ties to a telephone number, and is
entered in the maps under both. A call goes CALL_TO (the caller remembers whom it dialled),
CALL_TO2 with the caller's voice key (the callee is told, both are CALLING), CALL_ACCEPT with
the callee's (each party is registered at one TCP and several UDP voice managers), CALL_OFF or
a closed connection (both are unregistered and their lists reset). Meanwhile each voice
manager's thread relays: it puts a party's packet into that party's list and fetches from the
list of whoever that party's `callingSession` is. In the client the recorder's packets are
numbered and offered to every voice manager, so that they arrive more than once, and the
listener's priority queue sorts what comes.

Connections end in four ways: the client says BYE (its handler closes the session), the
monitor finds the session late, invalid or erroneous, a write fails (the session is queued
for the monitor), or the client finds the server silent and connects anew while the server
still has the old session. A closed Session object goes back to the pool and serves the next
connection, while references to it may survive in queues, in other sessions and on the stacks
of threads.

### What is hard about it

- *Check, then act without a lock.* `callingSession` is compared with null and read again
  (OnClose, CALL_ACCEPT, CALL_TO2, ENABLE_FROM, CALL_OFF, `getVoiceBuffer`), and so are the
  client's keys; a null in between is an exception that ends a thread serving many sessions,
  or the client's process.
- *Two threads on one session.* Its handler, the other party's handler, the monitor and the
  voice managers all change it; in the client, the threads of the user interface and of the
  network.
- *Reused objects.* Sessions and Buffers come from pools; a reference kept too long is a
  reference to somebody else's connection or packet.
- *Ownership without a record.* A Buffer passes from a manager to a tokenizer, a list, another
  manager and back to the pool. A missed or repeated `deallocate` is seen much later.
- *Messages that cross.* Dialling, accepting and hanging up carry no number of the call; an
  answer to an old question is taken for one to a new question.
- *Bounds.* Lists of 100, a pool of 100000, ten packets per TCP packet, an error count of 50,
  a 16 KiB tokenizer that must find an end mark cut in two.
- *Time.* Two sides that each wait for the other's beat, with the same time-out.
- *Liveness.* One monitor thread closes everything; a relaying loop ends only because
  something bounds it.

### What makes each component correct

| Component | Properties |
|---|---|
| Session pool | a session is in the pool once or out of it, never both, and none is lost: `PoolConservation`, `AllocatedIsReapable` |
| Session, call state | no session calls itself: `NoSelfCall`; what is registered at a voice manager is unregistered again: `RegistrationTracked` |
| Connection monitor | who is connected may open voice channels and nobody else, and errors are those of the present connection: `ConnectedIsKnown`, `OthersAreUnknown`; neither side gives up one that is there: `HeardIsKept`; what should end a session ends it: `FaultyIsClosed` |
| Registry | who dials a number reaches its user or nobody: `FoundUnderOwnNumber`; who has logged in is found: `LoggedInIsFound`; former sessions are marked for closing: `FormerIsInvalid` |
| Session handlers | every message is written and every input read: `WorkCovered`, `WorkServed`; in order: `WrittenInOrder`; by one handler at a time, which finds what it was told to write: `SessionConfined`, `DiesOfSharing`, both as long as the session kept its handler |
| Packet tokenizer | it delivers the packets of the stream: `PacketsExact`, `NothingLeftUnlessLost`, loses only what is too long: `LostOnlyWhenTooLong`, and implements `PacketStream`: `Tokenizes` |
| Buffer pool | every Buffer is free once, has one owner, or was lost with a UDP packet of another type: `BufferOwnership`; with enough of them beyond those that were lost it is never empty: `NoManagerExhausted` |
| Voice list, voice managers | no packet is fetched twice: `NoRepeats`; leftovers stay bounded: `LeftoverBounded`; a read ends: `ReadReturns`; they implement `PacketRelay`: `Relays` |
| Client session and connection | two clients agree on the call and its keys: `PartiesAgree`, `KeysAgree`; a client that runs is reachable in the end: `Reachable`; nobody stays in a call with one who has gone: `CallEnds` |
| Client voice channels and jitter buffers | packets wait in order, and none that was played: `PlaysInOrderOnce`; what is lost is lost by the channels, or was too much for a list: `ClientsLoseNothing`; a call leaves nothing for the next: `NoneOfFormer` |

## 2. The modules

| Module | Models | Extends |
|---|---|---|
| `CallServer` | sessions, their pool, the handlers' operations, the monitor, the accepting thread, registrations at the voice managers | |
| `ConnectionMonitor` | the connected addresses, error counts, heart beats, time-outs, the monitor's loop | |
| `Registry` | keys, numbers, the database and the two maps | |
| `SessionHandler` | the session manager's reading and accepting, the queues of handlers and sessions, writing, closing and reuse | |
| `Framing` | the end mark and the cutting of packets, shared by the next two | |
| `PacketStream` | abstract: a tokenizer that always cuts at the first end mark | `Framing` |
| `PacketTokenizer` | `put`, `get`, `flush`; implements `PacketStream` | `Framing` |
| `BufferPool` | `allocate`, `deallocate` | |
| `PacketRelay` | abstract: lines of packets between two parties | |
| `VoiceRelay` | the voice managers, the voice lists, the connections' tokenizers; implements `PacketRelay` | `BufferPool` |
| `CallProtocol` | clients (two threads each), the server's operations and the connections between them | |
| `VoiceStream` | encoder, client voice managers, priority queue, player | |
| `CallProtocolInvariant` | no part of the code: what the proofs of CallProtocol are about | `CallProtocol` |
| `CallServerProofs`, `ConnectionMonitorProofs`, `RegistryProofs`, `SessionHandlerProofs`, `PacketTokenizerProofs`, `VoiceRelayProofs`, `CallProtocolProofs`, `VoiceStreamProofs` | the theorems | the module they are about (`CallProtocolProofs`: `CallProtocolInvariant`), `TLAPS` |
| `MC...` | the instances that TLC checks | the module after `MC` |

A definition whose comment says "for the mutation of X" is X with a plausible mistake. Nothing
uses it; it shows that the properties notice the mistake.

### CallServer

Because the fields of two sessions are read and written without a lock, a thread cannot be
modelled by one action per operation. `todo[t]` is what thread `t` still has to execute, as a
sequence of instructions `[op, s, x]`; an operation (`CALL_TO`, `CALL_ACCEPT`, `BYE`, ...)
tests its guard and puts the instructions of the Java method there, and each step of a thread
executes the first one. An instruction is one access to what others change: assigning
`callingSession` (`assign`) or `state` (`start`, `call`, `end`), registering at one manager,
polling one manager from a queue, removing from `sessionList`, giving the session back. The
methods `callOff`, `calledFrom`, `callAccept`, `OnClose`, `closeSession` are operators that
return such sequences, so that the order of the code's statements is the order of the steps.

Where the code tests `callingSession` and then reads it again, the instruction carries the
value that was tested and the second read returns either that value or the present one
(`Reread`): the field is not volatile, and the compiler may keep the first value in a
register. If the value is null the thread dies: its `todo` is `<<dead>>` for ever.

Abstracted: messages to clients, keys and numbers (whom CALL_TO finds is a choice among the
sessions that satisfy its test; Registry says who they are), addresses, time and error counts
(any session may be late or erroneous at any scan; ConnectionMonitor says which). `handlersOf[s]`
over-approximates where entries for `s` may be queued: the handler chosen at `accept`, and
those of earlier connections whose entry may be left.

### ConnectionMonitor

The same closings seen from the maps. The accepting thread takes a session from the pool, puts
it into the list of its address (`connectedIPMap`, a count per address and session), registers
its error count and lists it; handlers answer beats, log users in, add errors, queue invalid
sessions and run BYE; the monitor scans the sessions listed when its loop began (`unseen`, a
`CopyOnWriteArrayList`'s snapshot), closes the queued ones, and closes the erroneous ones with
the lock of `errorCountMap` held (`errorLock`), during which nobody else counts or registers.
Any two of these threads may close the same session: `TestIP`, `removeConnectedIP` and `ClearIP`
are separate because OnClose reads `ipLong` twice and clears it later.

Clocks count from an event (`connectTime`, both `lastHeartBeatTime`s, the sending of a beat) and
stop when they have passed what they are compared with. `Tick` lets time pass for all of them,
and is not enabled while a client that runs is about to break what is assumed of it: its loop
looks at the clock at least every `LOOP`, a beat or its answer takes at most `DELAY` with its
handling. `made` counts the errors of a connection (history), `crossed` names the sessions of
which a closing overlapped with the next acceptance: the code has no protection there, and a
late closing then takes away the address of the next connection.

Left out or simplified: a connection is lost silently (one that the server notices is queued as
invalid, which is there), and a lost client's beat on its way is lost with it; the end of a
thread in OnClose is a choice (CallServer shows how it comes); delisting and deallocating are
one step, like the error loop's second removal; the firewall commands of `putConnectedIP`
(`Utils.doCommand` has no body in this build); `getRemoteAddress` never fails; the client's
`selector.select()` has no time-out, so `LOOP` supposes that its channel, nearly always writable,
wakes it; of `state` only what the monitor looks at is there.

### Registry

A step is one statement of the database or one access to a map. Up to three connections of two
clients log in with keys, ask for new keys and numbers, log in again and are closed by the
handler, another handler or the monitor, in between any two steps. The Session object keeps
`prankKey` and `phoneNumber` of its last user, as the code does. Clients may begin with keys and
numbers of an earlier run, or with keys the database has lost.

What goes wrong in the code is in the model and is named by history variables, so that the
properties say what remains true: `disturbed` (two operations or closings for one key at once; a
number drawn twice between `allocNewPhoneNumber`'s test and its insertion, whether or not the other
key's row has it already; GET_NEWPRANKKEY on a
reused session, which unregisters the former user's number; a negative random draw, after which
"null" is stored), `forgotten` (OnClose removes the key's entry without testing whose it is, and
a login that got its number in the same operation makes none), `crossed` (closed in the middle of
an operation). Left out: the 64-bit hash codes' collisions, failures of the database, and that a
session may be reused while an operation of its former connection still runs. The queue of
invalid sessions is a set.

### SessionHandler

How the bytes that carry an operation reach a handler and how the answers leave. `at[t]` is the
place each thread is at: the handler's loop (`Poll`, `isReadable`, `getInputBuffer`, the
operations, `isWritable`, `getOutputMessage`, `write`), the reader's two lookups before
`putInputBuffer` and `queueSession`, the two halves of `registerOutputMessage`, and the steps of
`closeSession`. `session`, `target`, `message`, `channel` and `readHandler` are local variables.
A buffer is the channel it was read from, a message its number in the order of registration.

An operation is a choice: to register a message at any session that has ever had a connection
(by phone number, or by a `callingSession` that `init` does not reset), to say BYE, or to end.
The monitor may find any listed session late or erroneous. Sessions are reused as they are:
`OnClose` empties the queue of inputs, nobody that of messages, and entries stay in the queues
of handlers. `handlersOf` and `written` are history variables. Left out: the error count (a read that
brings nothing has no other effect), the exception that ends the monitor (CallServer has it),
and that one `socketChannel.write` may write a message in parts.

### PacketStream and PacketTokenizer

`PacketStream` receives bytes and, before anything else happens, cuts them at the first end mark
(`Ready`); only a packet longer than the buffer makes it lose bytes, and until the next flush it
may then overlook marks. `PacketTokenizer` implements it (`Tokenizes`): `ownBuffer` holds the
bytes up to the buffer's position, `Copy` is the part of `put` that copies the input, `Find` and
`Advance` are iterations of the search, `Return` is its end, `Overflow` the early return with a
full buffer. Two details of the Java code are kept: the input's limit is still lowered when the
outer loop's condition is evaluated, so the rest of an input that does not fit is dropped
although `put` returns true; and the inner loop that would put a long packet into several Buffers
ends after the first for the same reason, so packets are cut off. `received`, `delivered` and
`lost` are history variables.

### BufferPool, VoiceRelay and PacketRelay

`read` of the two managers is a program with labels (`at[m]`): `idle`, `tokenize` (inside
`PacketTokenizer.put`), `get`, `check`, `put`, `testCalling`, `readCalling`, `poll`, `send`,
`testAddress`, `readAddress` (inside `putUdpIPs` or `putTcpIPs`), and the three ends of a thread:
`exhausted` (the pool gave null), `nullCall` (callingSession became null between its two reads) and
`tooShort` (a packet ended before what `read` takes from it). `buffer` and `getBuffer` are the local
variables of that name; a thread that has died keeps what it had in them. The handlers are an
environment that at any time sets a `callingSession`, registers, unregisters, or resets a list: every
step of CallServer that the relay can see, in every order and more. What a packet holds is abstracted
to its sender, its sequence number and its type; a wrong length, an unknown or unregistered sender, a
packet that is too short or of another type are choices at `check`. Whether a TCP read completes 0 to
MAX_PACKETS packets is a choice at `tokenize`. The Buffers of the signalling side
(`SessionManager.run`, `SessionHandler.read`) are not in the model: the model's pool is what is left
for voice.

A registered session's packet that is neither voice nor an address is given back by a TCP manager
(`DiscardTcp`, `VoiceTcpManager.java:291`). `VoiceUdpManager.read` has no such branch: the Buffer is
gone (`LoseUdp`). The history variable `lost` holds these Buffers. No document says anything of
such packets, so this is no finding, but `BufferOwnership` and `NoManagerExhausted` have to speak of
them.

`PacketRelay` knows no Buffers: each party has a line of numbers, a number enters it once, and
whoever takes one sends it. The refinement (`Relays`) maps a list of Buffers to the numbers in
them, so it says that nobody overwrites a Buffer that waits or is being sent.

### CallProtocol

A client is two threads that share its fields without a lock: the user's (dial, accept, hang
up, ask for a number, leave and return to the application) and the network's (connect and
handshake, read, write, close). Where a method of one thread can be overtaken by the other it is
several steps: `Dial` and `Assign` (callTo assigns `state` last), `read` and `Complete` (the guard
of a message and its effect, with the decoding of a key in between), `close`, `Leaving` and
`OnNetworkConnected`. An operation of the server is one step; the steps inside are CallServer's and
Registry's. Each connection is a session of its own with a queue in either direction; when it
breaks, what is on its way is lost or still arrives at the server, the client connects anew, and
the monitor closes the old session at any time afterwards. Crashes by null keys (`NullKey`) end
the client's process.

Messages carry no number of their call. The history variable `overtaken` is set when somebody acts
on a message that is no longer about what it was sent for: a CALLED_FROM ignored in crossing
calls, an answer or an error for an earlier dial, a CALL_OFF for an earlier call, a CALL_TO2 that comes
late, OnClose hanging up for a `callingSession` that is in another call, a number or key that sets
`state` to STARTED during a call, a return to the application that had not been left (`onResume`
after the network's thread took `state` away from ENDED), a login answered between the statements
of callTo or callAccept. The last two were found when the proof of `PartiesAgree` was prepared:
without them executions beyond the run's bounds contradict it. `PartiesAgree` and `KeysAgree` speak of the executions without
such an event, and there of every state in which nothing is on its way (`Settled`). `renumbered` names a
client whose former connection's GET_NEWPHONENUMBER took the number away from the new session.

### VoiceStream

One direction of the voice: the encoder numbers packets and offers each to all voice managers;
each manager has a list that refuses numbers it has seen and drops the first packet when it is
full; it connects, writes, notices that it was stopped and closes while packets are offered. It is
stopped at the end of a call, and the TCP connection to the server also in the middle of one
(`EnableFrom`: ENABLE_FROM reports that another way is good enough). `VoiceManager.close` takes three steps,
because `VoicePriorityList.reset` has no lock: the list is emptied (`Close`), then its numbers
(`Forget`), and then it is not connected any more (`EndClose`).

Of the channels nothing is assumed. `network[m]` is the set of packets that were ever written to channel
m, and `Read` takes any of them at any time, again, in a later call, or never. Over UDP that is the
network; over TCP the channel leads through the server's relay, which throws away the eleventh
packet it has polled and the first of a full list, and lets whichever manager polls have the rest
(`VoiceRelay`), and what the tokenizer has kept of a former connection spoils the first packet of the
next.

The other client's managers decode and `put` into the PriorityQueue in two steps (the place is looked for
before the lock is taken), while the player's callback takes packets and the user interface starts and
resets it late. A recording is always there and becomes one packet; a packet of one call cannot
be decoded with the key of another. Undefined behaviour (`front` of an empty list, a place that
has been freed) ends the process. `arrived` (what has come to `put`), `unsent` and `unplayed` (what was
dropped from a list, or the queue, that was too long), `played` and `left` are history variables.
`PlaysInOrderOnce` speaks of the packets that wait: one that comes after a higher number was played is
played late. Left out: signal processing, codecs and the ring buffer, connections that break while
they transmit (a manager's reconnecting on its own), connections between the clients themselves, and
memory that the queue leaks.

## 3. What TLC checks

| Run | Properties | Bounds | States |
|---|---|---|---|
| `calls` | TypeOK, PoolConservation, AllocatedIsReapable, RegistrationTracked, NoSelfCall | two sessions, two handlers, one manager of each kind; five accepts and operations from a fresh server, three from two sessions logged in, ringing or talking | 3.3 million |
| `monitor_dies` | InvalidSessionsDeleted (violated) | from two sessions ringing, weak fairness | |
| `connected` | TypeOK, ConnectedIsKnown, OthersAreUnknown, HeardIsKept, FaultyIsClosedInTime | five budgets: one session accepted twice, or two connected, with up to three errors, queueings and BYEs, one thread that dies, with and without time; weak fairness | 171 000 |
| `registry` | TypeOK, FoundUnderOwnNumber, LoggedInIsFound, FormerIsInvalid | three sessions, two clients, two keys, three numbers; three accepts, four requests and closings | 953 000 |
| `handlers` | TypeOK, DiesOfSharing, SessionConfined, WorkCovered, WrittenInOrder | two sessions, two handlers, two connections, two reads, two messages, one closing | 1.0 million |
| `served` | WorkServed | one session, two handlers, two connections, two reads, two messages, one closing, weak fairness | 318 000 |
| `packets` | TypeOK, NothingLeftUnlessLost, PacketsExact, LostOnlyWhenTooLong, Tokenizes | two letters, the end mark 001, a buffer of six bytes, Buffers of two, every stream of up to twelve bytes in chunks of up to four | 184 000 |
| `overflow` | NothingLeftUnfound (violated) | the same | |
| `lists` | NoRepeats, BufferOwnership, Relays | two sessions, two UDP managers, two sequence numbers, three Buffers, lists of one, at most one registration missing or one manager dead | 787 000 |
| `returns` | TypeOK, LeftoverBounded, ReadReturns | two sessions talking, a UDP and a TCP manager with two packets per read, four Buffers, weak fairness | 189 000 |
| `protocol` | TypeOK, PartiesAgree, KeysAgree, Reachable, CallEnds | two clients; three acts of users or one loss from rest, two acts or one of each from a call; weak fairness | 63 000 |
| `stream` | TypeOK, PlaysInOrderOnce, ClientsLoseNothing, NoneOfFormer | two managers, of which ENABLE_FROM can stop the first; by the other alone one call with three packets or two calls with two, by the first alone one call with two packets or two calls with one, by both one call with one; lists of one, a queue of two | 3.9 million |

*Why the bounds are enough.*

- `calls`: every race is between two threads on two sessions: a session and the one it calls, or
  the same session twice; a third party adds only a second caller, which the operations of two
  handlers on either session include. Five steps from a fresh server accept, log in, call and
  close; the starts in a call let three operations end it from both sides and close a party.
- `connected`: two acceptances of one session let a late closing meet the next connection; two
  sessions may have the same address or different ones; two closers and an error that is counted
  meanwhile need three faults. The clocks are small, but all their orders occur, with the
  assumption on them tight (1 + 1 + 2 * 1 = 4). Also checked: two acceptances and a fault with time
  (458 000 states), two sessions with three acceptances and two faults from Init (2.5 million).
- `registry`: three sessions are a client's former and present one and one of somebody else; four
  requests and closings are two operations that overlap and two that follow. Also checked:
  five of them (6.5 million states), and four connections (3.1 million).
- `handlers`, `served`: a second connection and one closing suffice for a session with two
  handlers; the death of a handler and two handlers in one session both happen in `handlers`. One
  session whose handler was exchanged is enough for `served`: the stale handler registers messages
  at it as a peer's would.
- `packets`: an end mark is cut in two at each of its bytes, two packets end in one read, and the
  buffer overflows.
- `lists`, `returns`: three Buffers make the pool empty, a list of one overflows, one connection
  has leftovers, and two managers are enough to hold, poll and give back one Buffer in every order.
- `protocol`: two clients that dial each other, themselves or a wrong number. The safety
  properties were also checked with three clients (2.8 million states), and with two clients and
  five acts, or two acts and a loss.
- `stream`: three packets are a queue that is too long, two a list that is; two calls are a former and
  a next one, and the packets of the former can arrive in the next. ENABLE_FROM closes the first manager
  between two packets, between `put`'s test and its insertion, and connects it anew.

The constants of the code (100, 10, 50, 16384, 5000) are parameters; the theorems hold for all of
them.

*Fairness* is weak everywhere: a thread that can take a step can take it until it does.

- `monitor_dies`: every thread of the server goes on, and the monitor's loop; no client need send
  anything.
- `connected`: the accepting thread finishes what it has begun, so do those that count errors and
  close; the monitor's loop goes on, because it sleeps for a second only; time passes; a client that
  runs sends and hears its beats, and its handler answers. No connection need be made or lost.
- `served`: every thread goes on in the method it is in, and a handler with entries polls them,
  because it waits a second at most, notified or not; no client need send.
- `returns`: each manager is a thread that the Java scheduler runs; the handlers need do nothing.
- `protocol`: the network thread and the messages to the user interface are processed, the server
  serves its sessions, and the monitor finds those whose client has gone (`FaultyIsClosed` of
  ConnectionMonitor). Users need not do anything and connections need not break.

*Symmetry and view.* `registry` and `handlers` check invariants over symmetric sessions and the
like. `lists` does so over symmetric Buffers, sessions and managers; its temporal property is an
action property without fairness, and its view leaves out the number in a Buffer that is in no list and in
no manager's hand, which is written before it is read. Runs with liveness use no symmetry; `returns`
takes the free Buffers in a fixed order instead (`FirstFree`), which changes nothing but names.

*Deadlock* is not checked where a bound or an uncaught exception may stop everything.

### Where code and comments disagree

- `monitor_dies`: the monitor's loop says it deletes the invalid sessions
  (`ConnectionMonitor.java:135`). In OnClose it may find `callingSession` not null and then
  call `callOff` on null, because the other party has hung up in between. The exception ends
  the only monitor thread: no session is closed any more unless its client says BYE.
  `FaultyIsClosedInTime` says that nothing else keeps the monitor from closing what it should.
- `overflow`: the comment at `PacketTokenizer.java:33` calls the branch for a full buffer a
  flush, but `prevPosition` is not reset as `flush()` does, so complete packets put afterwards
  stay unfound until a search finds an end mark behind that position or the session is flushed. Without an overflow none does (`NothingLeftUnlessLost`).

Other weaknesses that the models show contradict no document, and the properties except them by
name (`overtaken`, `disturbed`, `forgotten`, `crossed`, `renumbered`, `left`): see the modules'
descriptions above and the comments where the history variables are set.

## 4. What is proved

Each theorem holds for every value of the constants that satisfies the module's assumptions.

| Theorem | States | Argument |
|---|---|---|
| `TypeCorrect` (CallServerProofs) | `[]TypeOK` of CallServer | `TypeInv`: `TypeOK` with `NoSelfCall`. The types of instructions exclude that a session is its own argument, and that can be carried only with NoSelfCall |
| `NeverSelfCall` | `[]NoSelfCall` | the same |
| `PoolConserved` | `[]PoolConservation` | the property with `TypeInv`; needs that the pool was created with each session once |
| `NoSessionLeaks` | `[]AllocatedIsReapable` | `ReapInv`: the property with `TypeInv` and PoolConservation, which says that a session taken from the pool was in it and not out of it |
| `RegistrationsTracked` | `[]RegistrationTracked` | `RegInv`: the property with `TypeInv`. Registering and taking a manager from a queue put the step that completes them at the head of the thread's instructions |
| `TypeCorrect` (ConnectionMonitorProofs) | `[]TypeOK` of ConnectionMonitor | `IInv`: `TypeInv`, `Clocks` and `LifeInv` |
| `NeverTooLate` | `[]HeardIsKept` | `Clocks` relates the two `lastHeartBeatTime`s while no beat is out, while it is on its way, and while its answer is: the client's bounds the server's but for one way, and the assumption on the periods does the rest |
| `ConnectedAreKnown`, `NobodyElseIsKnown` | `[]ConnectedIsKnown`, `[]OthersAreUnknown` | `LifeInv` follows each session that is not `crossed`: in the pool nothing is kept of it, while it is accepted no other thread has to do with it, while it is open it is in the list of its address once and its errors are those in the map and those its two possible threads are about to add, and a thread behind `removeConnectedIP` finds no entry whoever removed it. A step that has nothing to do with a session keeps all that (lemma `Untouched`) |
| `TypeCorrect` (RegistryProofs) | `[]TypeOK` of Registry | `TypeInv`: a session inside an operation has a key, a client and, where it goes on with one, a number |
| `OwnNumber` | `[]FoundUnderOwnNumber` | `IInv`: a session that is not `crossed` is entered under its own number only, is in nobody's hands to be closed while an operation goes on, is not entered where it is given a number without removing a former one, and who closes it removes the number it has |
| `LoggedInStaysFound`, `FormerWaitsToBeClosed` | `[]LoggedInIsFound`, `[]FormerIsInvalid` | `KInv`: a key is one client's (`Owners`); while nothing disturbs it, one session at a time operates with it or is being closed, and none behind the back of the client's last one (`Turns`); the number of its row is in no other row and in no operation or removal of another key (`Rows`); so the last session has entered what it should have, and the former ones are marked (`Places`) |
| `QueueTypesCorrect` | `[]TypeOK` of SessionHandler | `IInv` of SessionHandlerProofs |
| `HandlerDiesOfSharing` | `[]DiesOfSharing` | `IInv`: every reference by which a thread comes to a session (an entry of a queue, the field, the map, a local variable) belongs to a handler in `handlersOf`. A session with one handler is polled by that thread alone, so the message `isWritable` saw is there (`OutputKept`) |
| `OneHandlerWorks` | `[]SessionConfined` | the same: a handler inside a session is one of its `handlersOf` |
| `OneHandlerWritesInOrder` | `[]WrittenInOrder` | `MInv`: messages are counted as they are registered, so a queue and what was written on a channel are ascending, and for a session with one handler everything written is below the message in the handler's hand, and that below everything in the queue |
| `NoWorkForgotten` | `[]WorkCovered` | `WInv`: for each session, the entries in the queues of its handlers and the threads that are about to add one or are in the middle of working one off, as a finite set, are at least as many as the messages and buffers that wait. A message is registered first and its entry added later by the same thread, so the thread itself counts meanwhile |
| `PacketsFound`, `TokenizerTyped` | `[]NothingLeftUnlessLost`, `[]TypeOK` of PacketTokenizer | `SearchInv`: no end mark begins before the position that is searched next, and nothing behind it was searched |
| `TokenizerImplementsStream` | `Tokenizes` (`PacketStream!Spec` under the refinement mapping) | with `SearchInv` the mark that the search finds is the first one; each step maps to a step of PacketStream or to none |
| `StreamIsCutExactly`, `ShortPacketsAreKept` | `[]PacketsExact`, `LostOnlyWhenTooLong` (an action property) | `CutInv`: there is a position in the stream, its beginning or the end of an end mark, up to which the marks are those the packets delivered ended at, one each and in order, and behind which the stream is `ownBuffer`. That the marks of a stream do not change when bytes are added rests on `ShiftAssumption` |
| `RelayTypeCorrect` | `[]TypeOK` of VoiceRelay | `TypeOK` with `LocalOK`: what a manager has in its variables at each label |
| `BuffersOwned` | `[]BufferOwnership` | `Exclusive` (no two holders; the Buffers that were lost have a holder of their own, `Nowhere`), `Accounted` (in the pool exactly when no holder has it), `QueuesDistinct`. Each action takes a Buffer from the pool, gives some back or moves one (lemmas `Taken`, `Given`, `Moved`, `MovedAndGiven`) |
| `LeftoversBounded` | `[]LeftoverBounded` | the tokenizer holds at most what failed reads have left, one packet less than a read completes for each error, and what the read in progress has found (`Reading`) |
| `NumbersFetchedOnce` | `[]NoRepeats` | every number in a list or fetched from it is in `offeredHashMap` (`Once`); that writing a number into a Buffer changes no list rests on `Exclusive` |
| `RelayImplementsLines` | `Relays` (`PacketRelay!Spec` under the refinement mapping) | what a step does to Buffers is what a step of PacketRelay does to the numbers in them, because a manager writes only into a Buffer that is in no list and no other hand (`Exclusive`) |
| `DemandBeyondLost` | `[]NoManagerExhausted` | the Buffers that are out of the pool and not lost fill different slots (places in lists and tokenizers, managers, dead ones included); there are `Demand` slots, and a manager about to take a Buffer is a free one |
| `ProtocolTyped` (CallProtocolProofs) | `[]TypeOK` of CallProtocol | `ProtocolInv`: every message carries what its operation reads from it (`Sent`), a number is found under a session in `sessionList`, and no client goes beyond the last session of the model (`Limits`). The last is not inductive by itself: it needs which connections are going to end without a further loss (the application is left, the server has closed the session or will when it reads a BYE), because each of them is made anew |
| `PartiesAlwaysAgree` | `[]PartiesAgree` | `AgreedInv`, described below |
| `KeysAlwaysAgree` | `[]KeysAgree` | `KeyInv` on top of `AgreedInv`, described below |
| `StreamTyped` | `[]TypeOK` of VoiceStream | `StreamInv` (also the theorem `StreamInvariant`), on which the next three rest |
| `PlayedInOrder` | `[]PlaysInOrderOnce` | `Order`: the place `put` has found is right, or a list end, whatever the callback has popped since; numbers got and numbers played are remembered |
| `OnlyChannelsLose` | `[]ClientsLoseNothing` | `Accepted`: what a list has accepted waits, was written or was dropped, at every step of `close` but the one between its two clearings; `Got`: what has come to `put` is in its hands or was got; `Order`: what was got waits, was played or was dropped |
| `NothingOfFormer` | `[]NoneOfFormer` | `FormerGot`, `FormerSeen`: what the queue has got and a list remembers is of this call or in `left`, for each place the threads that stop, start and reset are at |

The assumptions are those that the modules name: threads, sessions and managers are different
things, null is none of them, sizes are natural numbers, the pool's creation order lists each
session once, each kind of error counts at least one, there are finitely many handlers; in
ConnectionMonitor, `HEART_BEAT_PERIOD + LOOP + 2 * DELAY <= HEART_BEAT_TIME_OUT`; in PacketTokenizer
the end mark does not overlap itself when it is shifted (`ShiftAssumption`, true of the eight bytes of
`EOF_VALUE`); in CallProtocol null is no client, session, message or key; in VoiceStream null is no packet.

`AgreedInv` is in CallProtocolInvariant. `PartiesAgree` speaks of states in which nothing is on its
way; an invariant that implies it has to say what may be on its way in all others. A message waits in
the client's `outputMessageQueue`, on the connection, or in the network thread's hand; what a client
has queued or sent and what it has to read are each one queue here (`Upward`, `Downward`), so that
writing and reading change nothing. The history of a call is two functions: who dialled it (`f`) and
in which session (`h`). They are not variables of the model; the invariant says that there are such
functions (`Agreement`), and `Dial` adds the new call to them. It has three parts:

- whatever has been overtaken (`Always`): sessions that are still to come are unused, nobody is its own
  partner, no message names a call that has not begun, and a client that lacks a key has asked for it
  or is about to be answered;
- for each client and its session (`ClientAgrees`): who waits has dialled and who is rung has not; a client is
  called once in a call; who is in a call is in it for the server, or its question, or the news that the
  call is over, is on its way; whom the server has in a call is in it, or will hear of it, or has hung
  up, is logging in, or is about to be set free;
- for all of them (`Together`): two sessions in a call have each other and the same call (`Mates`); there is one question for a
  call, in the session in which it was dialled (`Questions`, `Held`), and while it is there nobody
  is called, has accepted or hears of an end of that call (`Open`); one client is called (`OneCalled`); what has been
  accepted was accepted by it (`Consented`), and it is heard by the other unless an end is on
  its way (`Heard`).

The first part holds in every state, the others until something is overtaken. `Dial` may begin anew
after that only from rest, where everything holds for any `f` and `h` (`RestAgreement`). Each action
is shown to be one of a few kinds of steps of such queues and states (a client reads, sends or
hangs up; the server answers, forwards, connects two sessions or takes them apart; a connection
ends or begins), and each kind to keep the invariant.

`KeyInv` says, as long as nothing is overtaken, where the voice keys are. What a client has sent of the
call it is in (CALL_TO2, CALL_ACCEPT) carries the key that it decodes with (`SendsItsKey`). If the
server has two clients in a call with each other (`Joined`), then what either is told of it (CALLED_FROM,
CALL_ACCEPT) carries the key of the other, and if it already rings or talks in that call it has that key
(`HearsKeyOf`). A client makes a new key when it is answered and when it accepts. That no message
with the former one is left then does not follow from the keys but from `AgreedInv`: while the question
for a call is there nobody knows of the call (`NoCallYet`), and a client that is rung and has not accepted
is the only one that is called, and nobody is told that it has (`NobodyElse`). When the server passes a
key on, that its receiver is the partner is `Mates`. All other steps leave each client with no more
messages with keys than before (`Fewer`).

`NoManagerExhausted` says that a pool of at least `Demand` Buffers, beyond those that UDP packets of another
type have made it lose, is enough. With the constants of
`C.java` (5000 sessions, lists of 100, a pool of 100000) the pool is smaller than `Demand`:
the precondition is a sizing rule the deployment does not meet, and the pool suffices only as
long as far fewer sessions have full lists. And no pool suffices for ever against what `LoseUdp` takes
out of it: a pool of any size runs empty after enough such packets.

Only model-checked: the liveness properties (`FaultyIsClosedInTime`, `WorkServed`, `ReadReturns`,
`Reachable`, `CallEnds`), because liveness under fairness is out of the prover's reach.
Every other property that a run checks is a theorem.

## 5. What is not modelled

- *Ring buffer, vocoder, players and codecs* (`jni/RingBuffer.h`, `PhaseVocoderMono.cpp`, FFmpeg,
  FDK-AAC): samples and positions are floating-point numbers, which TLC does not have, and the
  codecs are libraries. The queue before them is in VoiceStream. `RingBuffer::reset` sets both
  positions without the lock that writing and reading hold; no property covers it.
- *The headers of FFmpeg and FDK-AAC* (`jni/include`, `jni/libAAC*`), most of the C in
  the repository: declarations of other programs. A share of the source lines counts them.
- *Cryptography*: calls of the platform's ciphers. Who can decode what is in CallProtocol and
  VoiceStream.
- *The Android user interface and its database*: layouts, views, lists, history. The handlers that
  call the session are in CallProtocol and VoiceStream.
- *The list of users, settings, versions and ADMIN's commands*: requests answered from what is there,
  which change no state another operation depends on, except that a wrong version queues the
  session as invalid, which is in ConnectionMonitor.
- *Failures of the database*: the code prints them and goes on with null.
- *Connections between the clients themselves* (`VoiceTCPServerManager`) and client voice connections
  that break in a call.
- *Peers with an IPv6 address*: `Utils.ipToLong` throws a NumberFormatException on one, in the accepting
  thread or a voice manager. CallServer and VoiceRelay have peers with IPv4 addresses only.
- *A second PUT_PRANKKEY on one connection*: the server would take it (`Session.java:260` tests nothing).
  The client sends it in `OnVersionOK` only, which answers the VERSION_OK of a connection's one handshake
  (client `Session.java:240-258`), and Registry models the requests of that client.
- *Data races inside `PacketTokenizer`*: OnClose flushes it while a handler may be in it. Its fields
  are plain, so every interleaving of reads and writes of single fields would have to be a
  step; SessionHandler shows who can be inside at the same time (`SessionConfined`).
- *Locks held together*: the monitor closes sessions with `errorCountMap` locked, and then takes the
  locks of a socket channel, the voice lists and the input queues one at a time; the others take
  `errorCountMap` with no other lock held. There is no cycle, so the locks other than that one
  (`errorLock`) are not in the models.
- *Classes that nothing calls*: `PacketTokenizer2`, `HandlerData`, the server's `VoicePriorityList`;
  start-up, logging and reports.

What could follow: an abstract pool that BufferPool and the session pool implement.
