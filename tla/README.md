# Verification of Teme-PCom-Anul-2-Sem-2

The repository holds three communication-protocol programs: a software router
(`src/Tema-1-PCom`), a publish/subscribe broker with its subscriber
(`src/Tema-2-PCom`) and an HTTP client of an online library
(`src/Tema-3-PCom`). This directory specifies them in TLA+, model-checks the
specifications with TLC and proves theorems about them with TLAPS.

Every part with state of its own is modelled: the broker and its subscribers,
which are the concurrent core of the repository, their framing protocol, the
router's loop, queue, ARP table, checksum and route lookup, and the library
client from its session down to the descriptors it reads.

## Inventory

### Tema-2: broker and subscribers

| part | state | operations | interacts through |
|---|---|---|---|
| broker (`server.cpp`, `server_funs.cpp`) | `read_fds`, `fdmax`, the snapshot `tmp_fds`, `connected_clients`, `saved_clients`, `topics` | one thread: `select`, then a handler per ready descriptor: datagram, new connection, request, disconnection; `exit` on stdin | TCP to subscribers, UDP from publishers |
| client record (`Client.cpp`) | socket, ID, SF topics, queue of missed messages | set socket, add SF topic, add/pop missed | copied by value between the three maps |
| subscriber (`subscriber.cpp`, `subscriber_funs.cpp`) | socket | connect, send ID, subscribe, unsubscribe, exit, read a frame | one TCP connection |
| framing (`proto.cpp`) | locals: size, bytes so far | `proto_send`, `proto_recv`: size, then bytes | both ends, over one byte stream |

Hard here: the snapshot of descriptors against handlers that open and close
descriptors; the same client living in three maps, by copy; a subscriber that
goes away, or comes back, between two steps of the server; stored messages that
must precede live ones; a blocking read of the ID inside the event loop; errors
of `send`/`recv` that end the process; frames over a stream that is cut anywhere.

Correct means: the maps and `read_fds` describe the same clients; a ready
descriptor always has its client; every descriptor is accounted for; each
request gets one answer on its own connection; messages arrive in publication
order, stored ones first and whole; the store holds what the subscriptions call
for; requests are answered and connections are handled; whoever the server hangs up
on, by a refusal or by `exit`, has been told before, unless an error ends the server;
what one end frames, the other end reads; only peers that leave end the server or
cost a client a message.

### Tema-1: router

| part | state | operations |
|---|---|---|
| forwarding loop (`router.c`, `queue.c`, `list.c`) | queue of packets without a MAC | forward, queue, drop |
| route lookup (`router_funs.c`) | routing table, sorted once | comparator, binary search |
| ARP (`arp.c`) | ARP table (grows) | request, reply, learn, empty the queue |
| ICMP and IP header (`ip_icmp.c`) | fields of the packet | echo reply, time exceeded, unreachable, TTL and checksum |
| skeleton (`skel.c`) | raw sockets | receive, send, parse |

Hard here: the life of a queued packet (its storage is a local of the loop), a
queue that is emptied into itself, a table that grows through a copied pointer,
the binary search of a longest prefix, 16-bit one's-complement arithmetic.
Correct means: a packet is forwarded on the longest matching prefix with a
valid checksum, to a hop whose MAC is known, on that route's interface; a queued
packet was asked for, and leaves unchanged when its MAC is known; the loop never
stops serving. Not all of that holds: "What the violated runs say" has what the code
does with a longer prefix, with a second packet in the queue and with an unknown hop.

### Tema-3: library client

| part | state | operations |
|---|---|---|
| session (`client.cpp`, `commands.cpp`, `response_handlers.cpp`, `forms.cpp`) | cookie, token, connected flag, the state of `cin` | register, login, enter_library, get/add/delete books, logout |
| HTTP over TCP (`server_ops.cpp`, `requests.cpp`, `buffer.cpp`) | socket, response buffer | connect, send, receive a response in pieces |
| JSON (`single_include`) | vendored | not specified |

Hard here: session state that outlives a logout, a connection that failed and
is used as a descriptor, a response cut at any byte. Correct means: the client
and the server agree on who is logged in; a token is used for the session it was
made for; what is printed is what the server did; every read is of the command's
own connection; a command returns.

## Modules

| module | what it is |
|---|---|
| `Transport` | the TCP connections as broker and subscriber use them: frames up and down, backlog, descriptors, FIN and RST. The kernel's part is external to the repository |
| `Server` | the broker: one action per handler |
| `Subscriber` | the subscriber: one action per handler |
| `PubSub` | both together; fairness; all properties; the inductive invariant; the refinement |
| `Mailbox` | what the broker promises to clients that are away, without sockets or tables |
| `FrameChannel` | what one direction of a connection promises to the callers of `proto_send` and `proto_recv`, without bytes |
| `Framing` | `proto_send` and `proto_recv` over one byte stream, cut anywhere and ended anywhere; the refinement of `FrameChannel` |
| `Router` | the router: one action per outcome of a frame, two per turn of `search_queue` |
| `Checksum` | `ip_checksum`, one action per block and per turn of the carry loop |
| `RouteLookup` | `get_best_route`, one action per probe, and the order `main` sorts the table in |
| `HttpExchange` | one request of the library client and its answer: connection, descriptors, the response in pieces |
| `Library` | the library client: session, commands, response handlers, and the server as the client uses it; extends `HttpExchange` |
| `MCPubSub`, `MCFraming`, `MCRouter`, `MCChecksum`, `MCRouteLookup`, `MCLibrary` | instances for TLC |
| `PubSubProofs` | the inductive invariant of `PubSub` and what follows from it |
| `RefinementProofs` | `PubSub` implements `Mailbox`; what may end the broker, cost a client a message, bring it one, or have it refused; what it is told before its connection ends |
| `StreamProofs` | what connections carry: publication order, hand-over of the queues, one answer per request |
| `FramingProofs` | theorems about `Framing`, which implements `FrameChannel` |
| `RouterProofs`, `ChecksumProofs`, `RouteLookupProofs`, `LibraryProofs` | theorems about these modules |

The three programs do not talk to each other. Within them, `PubSub` composes
`Server` and `Subscriber` over `Transport`, and `Library` composes the client
with its server over `HttpExchange`. Three boundaries are cut by an interface
instead. `Transport` takes frames to arrive whole and in order, which is the
promise of `FrameChannel`, and `Framing` implements it (as long as no size is split).
`Router` takes `Route` as a constant, the result of the search that `RouteLookup` is
about, and `ChecksumOK` as the test of a header, which is what `Checksum` shows
`ip_checksum` to be.

### How state and actions correspond to the code

Broker and subscriber:

* `fd[r]` is the server's descriptor of the connection of run `r`. The server
  makes its TCP socket twice (`server.cpp:17-18`), so clients get the
  descriptors from 6 up; `accept` returns the lowest free one. That choice
  matters: descriptor reuse is what makes the stale sockets in `topics` wrong.
  `leaked` are the descriptors of connections whose peer left without an ID:
  `accept` has opened them and nothing closes them (`server.cpp:97-99`).
* `connected`, `saved` are the maps; `NoClient` (socket 0) is an absent key.
  `subs[t][id]` is the socket in the copy of the client that `topics[t]` holds;
  the ID is the only other field of the copy that is read, and it is the key.
* `ready` is what is left of `tmp_fds`; `newFd` is a descriptor between
  `accept` and the end of the blocking read of its ID. While `newFd` is set only
  the outcome of that read is enabled, as in the code.
* `srv` is "running" or what ended the process: `exited`, a failed write
  (`EBADF`, `EPIPE`), a failed read (`ECONNRESET`) or a failed accept
  (`EMFILE`). An ended server keeps nothing.
* `link[r]` is the kernel's view of a connection. A close with unread data is a
  reset, otherwise a FIN; a write to a peer that sent FIN may vanish or fail, and
  a write to one that reset fails.
* `down[r]` and `up[r]` carry frames. A message is its publication number, `log`
  the topics of all messages so far.
* `proc[r]`, `pending[r]`, `last[r]` are the subscriber's place in `main`, the
  requests it has not had an answer for, and the last message displayed (the
  last two are observations used by properties; the program keeps neither).
* In `PubSub`, a whole handler is one action, including every write it makes.
  Two places are finer: `Accept` and the three outcomes of reading the ID are
  separate, since the process really blocks there. Anything may happen in the
  subscribers and in the kernel between two actions. A subscriber may be killed
  at any point (`Quit`), a datagram of any topic may arrive (`Publish`), `exit`
  may be typed on the server (`CloseAll`).

Framing:

* Bytes are numbered from the start of the stream, so that a payload is the
  interval it was read from. `written` and `read` are how far the two ends are,
  `frames` what was handed to `proto_send`, `delivered` what `proto_recv` returned.
* `Push` moves some of the bytes of a send, as the window allows; `SendReturns` is
  the end of the one send of the size or of the loop for the payload. Each receive
  action is one `recv` and what follows it. The size header is read by one `recv`
  (`proto.cpp:19`): if only part of it is there, the rest of the header is taken
  for payload, and from then on a "size" may be any number. `split` remembers it.
* `FrameChannel` sees of this the sizes of the frames sent and delivered, whether the
  sender is `open`, `closed`, or `cut` inside its last frame, and whether the receiver
  has `ended` or is `stuck`. A send is one `Put` when it begins; the bytes that move are
  stutters; the return of a payload is `Take`. Nothing is promised once a size was
  split, and the mapping then says so in all four variables.
* `Close` may come in the middle of a frame. `proto_recv` looks for the end of
  the stream only at a size, so it then spins (`proto.cpp:27-33`).

Router:

* A frame is handled in one action, and `IpPacket` and `ArpFrame` are the two
  branches of `main`. The exception is `search_queue`, whose loop may not end:
  `TakeNext` is its test with `queue_deq`, `HandleTaken` its body.
* `waiting` holds what each cell of the queue was given, and `saved` what all of
  them point to: the block-local packet of `main`, which the code reads after
  its block has ended. The Makefile builds without optimisation, so the slot
  keeps what was last written to it, and that is what is modelled. `crt` is the
  cell taken off the queue.
* Of an IP header the model has the TTL, the checksum and the sum of the other
  words, in words of `Byte * Byte` values (65536 in the code). `ChecksumOK` is
  `ip_checksum` returning 0; `Incremented` is `incremental_checksum` with its end
  carry. `MCRouter` checks the one against the carry loop of the code
  (`CarriesAddUp`); `Checksum` has the whole of that function.
* `arpTable` is a list, since `add_arp_entry` appends without looking and
  `search_arp` takes the first entry. A hop may answer with any of `Macs`.
* `freed` says that `realloc` moved the ARP table (it may or may not), so that the
  pointer of `main` and `arp_handler` is to a freed block. Any use of it ends in
  `Crash`: its first word, which every lookup dereferences, no longer points to
  an entry, and a second `realloc` of it is refused.
* `asked` and `out` are observations used by properties.

Checksum: the area is a row of 16-bit words, each the number its bytes are on the
wire, so `ntohl` and `htons` leave it what it is. `offset` is the place of the area
in its 32-bit block: the headers of the router lie 14 bytes into a packet, and have
an even address and length, so the swap for odd ones (`skel.c:205-209`) is never
taken and is left out. `acc` is the accumulator of 64 bits, `size` what is left of the
area. Which words it holds is chosen as they are read, and `sum`, the plain sum of
them, is an observation. `DeferredCarries` is the one fold of 32 bits, `Carry` a turn of
the loop of 16.

Route lookup: `left` and `right` are the unsigned bounds of the code, with the
wrap-around at `UIntMax`. `Probe` compares at the middle, `ProbeOutside` is a read
where there is no entry, after which nothing is said. `Sorted` is what `qsort`
leaves: the comparator's difference of unsigned addresses, returned as an `int`,
is not an order for addresses half the range apart, so `Sorted` asks only that
each entry compares well with the next.

Library client:

* `phase` is where the one thread is: at the prompt (`idle`), in
  `open_connection` (`connecting`), in the two loops of `recv_from_server` (`header`, `body`),
  in the response handler (`handling`). A command is a request action (`AuthPost`,
  `EnterLibrary`, ...), then an exchange, then `ReturnSuccess` or `ReturnFailure`;
  a command refused before its request is `TurnedAway`.
* A response is a row of units and a read may end after any of them, so
  `ContentLength` is what `strtol` finds when the buffer ends before, in or after
  the number. `NotFound` is `(size_t) -1`: `header_end` becomes `TermSize - 1` and
  the loop that should wait for the header ends with its first read.
* `sockfd = EXIT_FAILURE` is the return value of `send_request` without a
  connection (`requests.cpp:120`): descriptor 1, which the callers read and close.
  `stdout` is what that descriptor is, `leaked` the sockets nothing closes.
* A cookie is the number of the login that made it, a token its user. `logins`,
  `sessions` and `accounts` are the server's, which is not in the repository and
  is modelled from how the client uses it. `failed`, `lost` and `entered` are
  observations used by properties.
* The properties of the client are about commands that were not disturbed: the answer
  came in full, the connection was made and held. They say that only a disturbance makes
  client and server disagree, a report wrong or a descriptor be lost. What the code then
  does is in the actions (`NotConnected`, `ReadStdout`, `ReadFails`, `SocketKept`, the
  handlers of a cut body), and is wrong as the hazards say; no property calls it right.
* `auth_response_handler` also calls a login a success when the body parses and is no
  error, without a cookie. The server answers a login with a text, so a body that
  parses is an error and that does not happen.

## Runs

| run | instance | shows |
|---|---|---|
| `tables` | 2 runs, 2 IDs, 1 topic, 2 descriptors, no message, 1 pending request | table agreement, the descriptor lookup, one answer per request, no refusal without a cause, everybody told before the end |
| `contention` | 2 runs, 1 ID, 1 topic, 2 descriptors, 1 message, with fairness | descriptor accounting up to the exhaustion of descriptors; what ends the server and what loses a message; requests answered, connections handled |
| `store_and_forward` | 1 run, 2 IDs, 2 topics, 1 descriptor, 2 messages | types, queue contents and order, stream order, hand-over of the stored messages, no delivery without a cause; `PubSub` implements `Mailbox` |
| `framing` | sizes 1 to 3, a header of 2 bytes, a window of 4, 3 frames, with fairness | frames intact, ends real, frames arrive; `Framing` implements `FrameChannel` |
| `routing` | 2 next hops on 2 interfaces with 2 possible MACs, an unroutable destination, a table of 2 that may grow, 3 waiting packets | what waits was asked for, what is resolved does not wait, what leaves is right, nobody takes an address over, the table moves only when it was full, one frame for each cell of the queue, with the newest packet, the search ends once the MAC is known |
| `checksum` | words of 2 bits, areas of 0 to 10 words at both places in a block, with fairness | 0 means a header that adds up; the result completes the header; the carries run out |
| `lookup` | 4-bit addresses, every table of up to 4 routes in sorted order, every destination, with fairness | exactly when the search leaves the table; the first match; one mask; termination |
| `library` | 2 users, 2 logins, responses cut after any unit, connections that break or fail, 1 leaked socket, with fairness | sessions agree; the token is the login's; descriptors; reports; commands return |
| `misdelivery` | as `tables`, 1 message | **violated**: a reconnected subscriber misses its messages |
| `shared_slot` | as `routing`, 2 waiting packets | **violated**: another packet is sent than the one that waited |
| `endless_search` | as `shared_slot`, with fairness | **violated**: the search of the queue never ends |
| `longest_prefix` | tables of up to 3 routes, integers four times as wide | **violated**: the route returned is not the longest match |

Bounds of `PubSub`. `MaxPub` (datagrams) and `MaxPending` (unanswered requests of
a run) are guards of `Publish` and `SendRequest`; `MaxFd` is the process's descriptor
limit, a real one. A run is recycled after both ends are closed, so two runs
make any number of connections, and two descriptors are what reuse needs: one
client goes, another takes its descriptor, the first comes back on the next.
Two messages are needed for order to mean something, none where only the tables
matter (`contention` has one, and fans it out). Two topics appear where the SF topics
of a client must be told from its subscriptions. With one descriptor, or two and
clients that leave before their ID, the limit is reached. Runs and IDs are interchangeable, and
symmetry is used in the safety runs; `contention` has liveness and no symmetry.

Bounds of the router. `MaxWaiting` and `MaxArp` are guards of `Wait` and
`ArpReply`, and `ArpMaxSize` is 2 instead of 20. Two hops are what it takes for
one to be known and the other not; three waiting packets give the queue a first,
a middle and a last one; a third ARP reply makes a table of two grow. A byte has
4 values, and `Arriving` has headers whose checksum carries out of its word when
it is updated, headers whose does not, one that is wrong, and a TTL on each side
of the check. The addresses of `RouteLookup` have 4 bits, with masks of 2 and 4:
nested and disjoint prefixes, at both ends of the table. In `lookup` the
integers are as wide as the addresses, as in the code, so the comparator overflows;
in `longest_prefix` they are wider, so that the violation is not due to that.

Bounds of the checksum. With words of 2 bits, ten of them carry several times out of a
word and of a block of two, so that both folds and several turns of the loop
happen, and both zeros are reached. Every value of every word is tried.

Bounds of the others. In `Framing`, a window of 4 holds less than a header with
the largest payload, and more than one small frame; with byte values of 2,
three frames are enough for a size to be split after one was delivered. In
`HttpExchange`, one unit of each part of a header is enough for a cut before, in
and after it; `MaxNumber` bounds what `strtol` may find behind the buffer, and
`MaxLeaked` is a real limit, that of open files. Two logins with two users let a
token outlive its session.

Deadlock is not checked: when the server has ended and no subscriber runs,
nothing is left to do; the router may have crashed, the search has returned, the
stream has ended, the user has left the library.

Fairness. In `PubSub`, `WF_vars(ServerStep)`: the server's thread, when something it can do
is there, does it; `WF` per run for sending the ID after `connect` and for
reading what arrived: the code does both unconditionally. Typing, quitting,
connecting and publishing are never assumed. `ConnectionHandled` and
`RequestAnswered` rest on the second: while one subscriber has connected and not
sent its ID, the server serves nobody. In `Router`, `WF(SearchQueue)`: the loop
of `search_queue` waits for nothing; no frame is ever assumed to arrive. In
`RouteLookup`, `WF(Step)`, and in `Checksum`, `WF(Next)`: the functions have nothing to
wait for either. In
`Framing`, `WF(SenderStep)` and `WF(Receive)`: TCP moves bytes while there is
room, and a process in a call goes on; nobody has to send. In `Library`, the
client's own steps are fair, and the server answers a request or its connection
breaks before; the user is never assumed to type.

## What the violated runs say

* `PublishReachesSubscribers`: `topics` holds a copy of the client with the
  socket it had when it subscribed. In the trace, `a` subscribes on descriptor 6
  and leaves, `b` takes descriptor 6, `a` comes back on 7; the next message on
  `a`'s topic is written to `b`. If nobody has 6, the write fails and the server
  exits.
* `WaitingPacketSent`: `queue_enq` stores the address of one local variable. The
  last packet is sent once for each that waited; the others are lost.
  `NewestForEachCell`, which holds, says exactly that.
* `SearchEnds`: an unresolved packet goes back on the queue being emptied. The
  trace is a cycle of `TakeNext` and `HandleTaken`: a reply from one hop while the
  newest packet waits for another stops the router for good. `KnownSearchEnds`,
  which holds, is the other half.
* `LongestPrefix`: the binary search goes to the one side that the sign of the
  comparison names. With nested prefixes the entries that match do not stand
  together, and it returns a shorter match or none. `FirstMatch`, which holds,
  says when the answer is right, and `OneMaskFound` names tables for which it is.

Divergences that are in the models without a run of their own:

* The subscriber has no case for the end of the stream and displays it as a
  message (`DisplayEndOfStream`).
* Leaving with a message unread resets the connection, and the server treats the
  failed `recv` as fatal. `EndsHaveCauses` counts it among the causes.
* Unsubscribing leaves the topic in the SF vector (`server_funs.cpp:249`), so a
  client without any SF subscription is stored, against `README.md:22-23` of
  Tema-2: `Mailbox` says so with `durable`, which `Unfollow` leaves alone.
* Only the callee's copy of the ARP table's pointer follows `realloc`, so a table
  that has moved ends the router; entries are never replaced, so repeated replies
  of one host are enough. `GrowthOnlyWhenFull` bounds when.
* `arp_handler` answers a request for any address (`arp.c:177-178`), against
  `README.md:36-37` of Tema-1: the guard of `ArpRequest` has no address in it.
* `icmp_handler` comes before `is_garbage`, so an echo request with a wrong
  checksum or an expired TTL is answered.
* A lost ARP request is repeated only when another packet for that hop comes in.
* A destination that matches the first entry of the routing table, or is above
  it, makes the search read far outside of the table (`right = mid - 1` at
  `mid = 0`): `OutsideAtTop` says exactly when.
* `send_request` returns `EXIT_FAILURE`, which is 1, for a connection that could not be
  made, against `requests.h:71` ("-1 if something went wrong"): its callers go on with
  descriptor 1 (`NotConnected`), and `DescriptorsSafe` says what holds before.
* `logout` keeps the token, so library commands still go out with it; `TokenOfLogin`
  says until when.

## Proofs

`PubSubProofs` proves, for every value of the constants (any sets of runs and
topics, any finite set of IDs, any descriptor limit and bounds), that `IndInv`
is an invariant (`Inductive`), and from it `TypeOK`, `TablesAgree`,
`LoopFindsClient` and `FdAccounting`. The only assumptions are the ones
`Transport` and `Subscriber` state on the constants.

The three safety invariants are not inductive. `LoopFindsClient` looks at the
rest of the snapshot, and a handler keeps it only because every other client has
another socket (`TablesAgree`) and a descriptor that was just accepted is not
in `read_fds` (`FdAccounting`). That in turn needs that a waiting connection has
no descriptor and waits once (`ConnectionsOK`). The types of what the handlers
read need more: the queues that `select` found non-empty still are when their
turn comes (`SnapshotOK`), and the first frame of a connection is its ID
(`GreetingOK`). `IndInv` is the conjunction. There is one lemma per action and,
under it, one step per conjunct the action can disturb; the ways the process
ends are one lemma (`StopInd`), and the answers to requests another
(`AnswerInd`).

`RefinementProofs` proves `KeepsPromise` (`Implements`): the initial states are
the initial states of `Mailbox`, and each step is a step of it or leaves its
variables alone. The mapping reads the client maps: `present` are the IDs in
`connected`, `follows` the topics with an entry for the ID, `durable` its SF
topics in whichever map holds it, `owed` its queue in `saved`. `IndInv` does not
say enough for that: a join must find no SF topics in `connected`, a publication
no entry in a topic that does not exist, a departure no leftovers in `saved`.
That is `AbsentOK`, proved in the same induction (`NothingLeftOver`). There is
one lemma per action that touches the maps; the end of the process maps to
`Mailbox`'s `Stop`, and everything else is a stutter. What the promise does not
cover is the delivery on a connection; the next two modules are about that.

The same module proves the action properties `EndsHaveCauses` and `LossHasCause`
from `IndInv` and `AbsentOK`: one lemma per action that can end the server, and for a
publication one per way a subscription is served. They say that what is wrong
with the broker (stale sockets, lost descriptors, fatal errors of `send` and
`recv`) is all that is wrong: clients that stay neither end it nor lose anything.
`DeliveryHasCause` is the other side of `LossHasCause`: what a connection gets in a
fan-out is one copy, for its own client's subscription (`SingleCopy`), unless some
topic holds its socket in the entry of a client that has moved. That no two
clients have the same socket is `TablesAgree`. The
`store_and_forward` run has one descriptor and no moved client; the case of one is
what the `misdelivery` run finds, and the theorem covers both.
`RefusedOnlyWhenTaken` says that the tables never hold an ID for nobody: the server
hangs up on a subscriber that is still there only for an ID that another of its
connections has, which again is `TablesAgree`, at the step after the greeting.
`EndIsTold` (`EndIsAlwaysTold`) says that EXIT is the last frame of every connection the
server finishes, in a refusal or in `close_all`, and so that no subscriber reads on into
the end of the stream. It needs that `fdmax`, where `close_all` stops, is not below any
watched descriptor (`ToldOK`). It is about a server that runs or has ended by `exit`. An
error ends it with its clients untold, and one of these errors is a write of `close_all`
itself to a peer that has gone: the clients after that one are left to read the end of
the stream as a message, for ever. `EndsHaveCauses` has that write among its causes.

`StreamProofs` proves `StreamInOrder` and `MissedInOrder`. They need each other: what is
handed over is what was stored, and comes before what is sent live. The
strengthening `OrderInv` says in addition that nothing is sent to a connection
before its ID is read (`QuietOK`, without which a hand-over could follow live
messages), and that no frame is newer than the newest publication, nor older than
what was displayed (`StreamsOK`). The lemmas before it are about frames put behind
others and taken from the front. `MissedHandedOver` follows: only `AdmitId` empties a
queue, and `QuietOK` is why nothing precedes what it hands over. `OneReplyPerRequest`
rests on `RepliesOK`, which adds that a run that has closed waits for nothing; each
step is a balance of counted frames, and the counting lemmas (`CountConcat`,
`CountAppend`, `CountTail`) say how many there are when sequences are joined or
taken apart. They go by a bijection between index sets, not by induction.

`FramingProofs` proves `FramingInv`, and from it `FramesIntact` and `EndIsReal`, for
any payload sizes, header length and window. The strengthening says where each
end is in the stream: `SenderPlace` and `ReceiverPlace`. That frames follow each
other byte for byte is what makes the receiver's next size the size of the next
frame.

It also proves the refinement of `FrameChannel` (`FramesAreKept`), action by action.
Three facts carry it. The receiver is never ahead of the sender, even in the middle
of a frame (`ReadBeforeWritten`), so a delivery is of a frame that was sent; when the
sender has ended inside a frame, it is the last one (`CutIsLast`); and a `recv`
that finds the stream empty and closed has taken all that can arrive
(`EndImplemented`). A size that is split maps to `Split`, and everything after it
to a stutter (`LostStays`).

`RouterProofs` proves that `RouterInv` is an invariant of `Router` for every
routing table, set of hosts, width of a byte and size of the ARP table, and with it
`TypeOK`, `WaitsForAnswer`, `NewestUnresolved` and `ForwardedOK`. The last three
depend on each other: a packet leaves the queue fit for the wire because it was
when it came in, and because it is the shared slot that is sent, the slot must be
one of them (`NewestUnresolved`). Fit for the wire includes the checksum:
`incremental_checksum` keeps a header that adds up adding up, with or without the
carry, for any width. `NotRedirected` follows from the append, and
`GrowthOnlyWhenFull` from `TableInv`. `NewestForEachCell` counts cells, in the queue or
just taken off it: their number goes up by one with an ARP request and the packet that
is now in the slot, and down by one with a frame, which carries what is in the slot. So
the queue that is emptied into itself neither drops nor repeats a cell; but the packet
of a cell is the newest one, and older ones are lost, as the `shared_slot` run shows.
`KnownSearchShrinks` is the safety part of `KnownSearchEnds`: a number that every
step of the search makes smaller once the slot's next hop is known.

`ChecksumProofs` proves `ChecksumInv` for words of any width, 2^16 in the code. A number
and its carried form have the same rest modulo `Width - 1`, whether the fold is of
a word or of a block of two (`CarriesKeepRest`), so `acc` stands for `sum` through all
of it, and it is not 0 because it starts with all ones and a fold of a
positive number is positive. That rules one of the two zeros out:
`ZeroIsExact` says that the result is 0 exactly for the headers that add up, and
`ResultIsRight` that the header it is put in does. `CarriesGetLess` is the bound of the
loop. That `acc` stays in its 64 bits is part of the invariant, under the assumption
that an area has fewer than 2^32 words (`ChecksumAssumption`).

`RouteLookupProofs` proves the loop invariant `LookupInv` for any width, masks and
table, and with it `OutsideAtTop` and `FirstMatch`. `Window` says where the unsigned
bounds are, the wrap-around included; `Scanned` what the probes have excluded, if
the table is `Ordered` for the destination. `OneMaskIsOrdered` gives a class of
tables that are. `OneMaskFound` goes on from what `qsort` leaves, entries that compare
well with their neighbours, to a table in order. That is an induction over
its length, which is done without an operator as a parameter: of the places where the
order would break there is a first (`LeastNat`, from the well-foundedness of the
naturals), and its left neighbour has the order that contradicts it
(`SortedDescends`). `WindowHalves` is the arithmetic of one probe (`ProbeHalves`), with the
unsigned wrap-around as the one exception, after which the next probe leaves the table.

`LibraryProofs` proves `LibraryInv`, and from it `SessionsAgree`, `TokenOfLogin`,
`DescriptorsSafe` and the action property `ReportTrue`. The strengthening follows a
command from request to return: what the request carries (`RequestPlace`), which
answer belongs to it (`ReplyPlace`), how far it was read (`ReadPlace`), and the
session in between, when the server has logged in or out and the client has not
yet heard (`SessionPlace`).

Only model-checked: liveness (`RequestAnswered`, `ConnectionHandled`, `FrameArrives`,
`KnownSearchEnds`, `LookupEnds`, `Returns`, `CommandReturns`), which is out of the
prover's reach. For three of these loops the decreasing quantity is proved
(`KnownSearchShrinks`, `WindowHalves`, `CarriesShrink`); that they run until it is spent is
what TLC adds. Every other property of a passing run is a theorem.

Only proved: what the runs would check twice. The inductive invariants (`IndInv`,
`FramingInv`, `LookupInv`, `LibraryInv`, `ChecksumInv`), `AbsentOK` and the three decreasing
quantities held in every state of the instances above when they were found, and are
theorems now; the runs keep the properties that follow from them.

## Not modelled

* The JSON library of Tema-3 (`single_include/nlohmann/json.hpp`) is vendored, and
  with 23409 lines most of the repository. The handlers see of it whether a body
  parses and which keys it has; that much is in `Library`.
* In `PubSub` receive windows are unbounded, so a client that does not read never
  blocks the server; `Framing` has the window, of one connection. Frames there
  arrive whole: what a split size does is in `Framing` only.
* Topics are values: a 50-character topic, which loses its terminator in the
  fixed arrays, is not represented.
* The formatting of messages, usage errors on stdin, failures of `socket`,
  `bind`, `listen` and `select` at start, an empty ID, and peers that are not the
  repository's subscriber.
* In the router: raw sockets, their errors and the interface queries of `skel.c`, the
  parsing of the routing table, the fields of an ICMP answer, malformed frames.
  The hops' IPs and the interfaces' addresses do not change.
* In the library client: what is typed into forms, what books contain and how it
  is printed.

## Plan

What is left, in order:

1. The directions of `Transport` as instances of `FrameChannel`, so that the promise
   `Framing` implements is literally the one `PubSub` uses.
2. An abstract session (who is logged in, with whose token) that `Library` implements.
3. A bounded window in `PubSub` with a subscriber that stops reading, and the
   liveness that is lost with it.
4. `TopicKeys`, the fixed 50-byte topic as a key of the map.
