# A TLA+ model of ProjetCinema

ProjetCinema manages the programme of a cinema. A multi-threaded C server keeps
movies and shows in SQLite and speaks a packet protocol over TCP; an interactive
C client and a Java web server are its clients. This directory models the parts
of that system whose behaviour depends on the order in which threads, peers and
packets move, checks them with TLC on small instances and proves the central
results with TLAPS for every instance.

The code is the reference. Where its comments or `doc/` say something else, the
model follows the code and the difference is a run that TLC refutes or a
finding (see "What the code does not do").

## Inventory

Paths are relative to the repository.

| component | state | operations | interacts with |
|---|---|---|---|
| C server, request handling (`src/c_server/server.c`) | per thread: socket, `connected_flag`, packet in hand, SQLite handle in thread-specific data, statements; shared: `password_mutex` | `handle_client`, seven handlers, `login`, `open_database`, `init_table`, `cleanup` | clients by packets, SQLite by calls, the password file under the mutex |
| C server, accept loop (`main` of `server.c`) | `client_sockfd`, the descriptor table | `accept`, `pthread_create`, both `close`s of a socket | hands a pointer to its local variable to each thread |
| protocol library (`src/protocol_lib`) | none between calls | `send_packet`, `recv_packet`, the parameter list | linked into server and C client |
| C client (`src/c_client/client.c`) | `connected`, `logged`, one socket | a menu of ten entries | one packet out, usually one packet in |
| SQLite database (`doc/database.md`) | tables Movies and Shows | prepare, step, close | one handle per server thread |
| password file | lines `name,hash` | read by `login` | under `password_mutex` |
| Java connector (`cServerConnector`) | one socket per page, never closed | `getMoviesList`, `getShowList`, `send`, `receive` | the C server |
| Java web server (`customHttpServer`, `socket`) | two listeners, a pool of four threads each, one log file for each connection handled | accept, parse, answer, inject lists into pages | browsers, the connector |
| mail sender, `Logger`, pages, build files, vendored SQLite | none that matters | | |

What is hard here, and what correctness means for each part:

* **Server threads.** Several threads share one mutex and one process; any of
  them may kill the process. The log-in flag, the answers and the life of a
  thread must depend on its own connection only, and answers must come in the
  order of the requests, at most one for each.
* **Database handles.** Statements are never finalized; what that does to the
  handle shows only when the thread ends, many requests later.
* **Accept loop.** Threads are created with a pointer to a variable that changes;
  descriptors are numbers that the kernel gives out again.
* **Client and server together.** Nothing in a packet says which request it
  answers: the two sides must stay in step by counting.
* **Protocol library.** Packets must be put together again from whatever `recv`
  returns, and a connection that ends inside one must not make a packet. The
  loop that writes a parameter list keeps four sizes in step (`count`,
  `string_size`, the string, the allocation); the loop that reads it counts
  tokens, not fields.
* **Java connector.** It reads a different header from the one the C server
  writes.
* **Web server.** Pools of four threads, a page that waits for the C server
  inside one of them, a log file opened for each connection and never closed,
  exceptions that end a handler or a listener half way; a page put together by
  cutting text at markers, and its length announced before it is encoded.

`PROJECT.json` lists the hazards one by one, each at its line.

## Modules

| module | models |
|---|---|
| `CinemaProtocol` | requests, answers, which request needs a login, which answer fits which request |
| `CinemaService` | the abstract specification: what one connection can count on |
| `CinemaServer` | `handle_client`, its handlers, the mutex, the SQLite handles, process death |
| `CinemaSession` | `CinemaServer` with `client.c` at the other end of every connection |
| `AcceptLoop` | the hand-over of sockets to threads, the descriptor table |
| `PacketQueue` | the abstract specification of one direction of a connection |
| `PacketStream` | `send_packet`, `recv_packet` and the Java `receive` over a byte stream |
| `ParamCodec` | the parameter list as `send_packet` writes it and `recv_packet` reads it |
| `WebServer` | the Java listeners, pools and pages, over `CinemaService` |
| `SmartPage` | the injection of an .shtml page and the response that carries it |
| `MCServer`, `MCSession`, `MCAccept`, `MCCodec`, `MCStream`, `MCWeb`, `MCPage` | values of the constants for TLC |
| `CinemaServerProofs`, `CinemaRefinementProofs`, `CinemaSessionProofs`, `AcceptLoopProofs`, `PacketStreamProofs`, `ParamCodecProofs`, `SmartPageProofs`, `WebServerProofs` | theorems |

How they fit together: `CinemaSession` composes `CinemaServer` with the clients;
`WebServer` composes the web server with `CinemaService`, which `CinemaServer`
implements, so that what holds of a page holds over the detailed server too. The
queues `reqs` and `resps` of `CinemaServer` are packet queues, which
`PacketStream` implements; the payloads of `PacketStream` are the strings that
`ParamCodec` makes. `AcceptLoop` is the mechanism behind one assumption of
`CinemaServer`, that each thread reads its own socket.

### CinemaProtocol

A request is its type and an abstraction of its parameters. "good" parameters
give an SQL text that compiles (for a login: a pair in the password file), "bad"
ones do not, "short" ones are fewer than the handler dereferences. An answer is
its type byte, its Status, and whether its payload is empty, rows, or a pointer
nobody assigned. `FlagAfter` and `Refused` are the assignments to and the tests
of `connected_flag` in the `switch` of `handle_client`.

### CinemaServer

The place of a thread (`tpc`) corresponds to the code as follows.

| `tpc` | where the thread is |
|---|---|
| "none" | connection not accepted, no thread yet |
| "recv" | in `recv_packet` |
| "dispatch" | at the `switch`, packet in `cur` |
| "lock" | in `pthread_mutex_lock` of `login` |
| "scan" | in the loop of `login`, holding the mutex |
| "reply" | answer built in `ans`, before or in `send_packet` |
| "done" | after `pthread_exit` and `cleanup` |

A handler is one action from "dispatch" to "reply" because it touches nothing
another thread can see, except `login`, which is split at its mutex. Sending is
an action of its own because the peer may leave between the two. `dbh` follows
the handle: "open" after `open_database`, "pinned" once a handler left a
statement on it, and at the end "closed" or, when SQLite refuses to close it,
"leaked". Everything that ends the process is an action that sets `up` to FALSE:
`AcceptFails`, `ShortPayloadFault` (a parameter list followed past its end),
`NullColumnFault` (`strlen` of a NULL column), `AccountsFault` (no password
file, or a line without a comma), `SigPipe` and `PayloadFault` (the answer to a
change has a payload pointer as `malloc` returned it, and a list of rows is
written past its buffer, so the process may die before or after the answer went
out). An unassigned pointer is a nondeterministic choice between NULL and
garbage; a heap that was written past is one between dying and not, and what it
may do to the list itself is `ParamCodec`'s. Sockets always have room here: what
a peer that does not read does to `send` is `PacketStream`'s.

The database is reduced to what the server can tell apart: tables missing,
clean, or with NULL columns. `init_table` does nothing, because it is called
with the global `db`, which is never assigned; and no statement that changes a
row is ever stepped, so there is no table content to keep.

### CinemaService

Per connection an `inbox`, an `outbox`, a log-in state and the life of its
service. `Serve` answers the oldest request by an answer that fits it, `Skip`
drops a read, `End` needs a peer that left, `Fail` needs a request in the inbox
or a connection not yet served. `CinemaServer` implements it under
`Service == INSTANCE CinemaService WITH serving <- Serving, auth <-
connected_flag, inbox <- Inbox, outbox <- resps`: a packet stays in the abstract
inbox from the peer's send until the handler has sent its answer, so that taking
the packet, the mutex, the scan and the preparation are stuttering steps.

### CinemaSession

Each connection gets a client: a menu, a wait in `recv_packet`, the endless
dialogue of `handle_add_movie` ("wizard"), or the end. Entries 1, 2, 5, 6 and 7
send and wait; entry 3 sends and does not wait; entry 4 never gets to send;
entry 9 closes descriptor 1 and leaves the socket open. Two history variables,
`tried` and `reserved`, are read by properties only.

### AcceptLoop

`CinemaServer` takes for granted that each connection gets a thread that reads
its own socket. `AcceptLoop` is the mechanism behind that assumption and shows
how far it holds. `slot` is `client_sockfd`, `table` the descriptor table in
which the kernel always gives out the lowest free number, used by sockets and
database handles alike. A thread copies the slot (`ReadArgument`), may open a
database, and then serves whatever its number refers to. Each `recv` of
`recv_packet` looks the number up when it is called and stays on that file
(`file`) until it returns: `CallRecv` is the first of a packet, `RecvAgain` any
later one. `disturbed` records that a
thread has used a descriptor that was not its own; `Ownership` and `OwnReader`
say what holds until then, and the two violation runs show how it comes about.

### PacketStream and PacketQueue

One direction of a connection. `wpc` is the place of the sender: no call of
`send_packet`, in `send` of the header, in `send` of the payload. The sockets are
blocking, so `send` takes everything in the end or fails; `KernelTakes` moves any
number of bytes that fits the socket buffers, and `unsent` is what is left.
`SenderEnds` ends the stream at any byte, in order or by a reset that loses what
was under way. `kind` chooses the receiver: `recv_packet`, whose two loops read
any part of what is there (`RecvHeader`, `RecvPayload`) and which returns NULL
from either (`RecvFails`, with or without `close`), or the Java `receive`, whose
three single reads take the lowest byte of the size for all of it. A caller of
`recv_packet` may be "elsewhere": a client sits at its menu as long as its user
likes and does not call it at all after a reservation. `CallRecvPacket` is the
call, and nothing makes it happen.

`PacketQueue` says what the handlers count on: `Put`, `Take`, and an `End` that
comes only after the writer is gone and, if it left in order, after all packets
were taken. The mapping is `put <- sent` (a packet counts when the kernel has
its last byte), `taken <- received`.

### ParamCodec

The loop of `send_packet` over the list, with the places where its sizes differ:
`Separate` (the comma), `Grow` (`realloc`), `CopyParameter`. `count` is taken
modulo `CountModulus`, 256 in the code. `alloc` is the allocation and `overrun`
how far the writes went past it. The comma's NUL is behind the allocation, and
`realloc` need only keep the allocation: `Realloc` lets the NUL survive in
whatever the block had to spare, or be lost, and then the string goes on with
some member of `Leftovers`, the bytes the heap may hold before its next zero
byte. `stray` counts those bytes, and the next `strcat` appends behind them.
`AllocatorAborts` is the heap check that may notice, or a `strcat` that runs off
the heap. What an overrun does to a neighbouring block is in neither. `Receive` and `NextToken` are the reading side, where a character is a
letter, a comma or NUL.

### WebServer

A visitor is one connection to the web server; `visit` says where it is: in the
kernel's backlog, in the queue of the pool, with a worker ("reading",
"connecting", "sending", "waiting", "writing"), or at its end: "answered",
"dropped" (an exception; the socket stays open) or "refused" (the listener ended
over it). `gone` says that the browser has closed, `takes` that its page can be
written to the end, because it reads or because the page fits the socket
buffers: a browser chooses it with its request, and one that does not read may
read later (`ReadOn`) or never. The write has no timeout, so `WritePage` waits
for it. `AcceptVisitor` is `accept`, the constructor with its log file and
`execute`, in the listener's thread; `ConstructorThrows` ends the listener. The
C server is `CServer == INSTANCE CinemaService WITH Conns <- Visitors`: a page
makes one connection, named after its visitor, and the C server may begin,
serve, skip, end or die as `CinemaService` lets it. `limit`, the log files that
were free at the start, is chosen at the beginning, because another server in
the same directory holds some.

### SmartPage

A text is a sequence of pieces: markers, ASCII text, characters that UTF-8 writes
with two bytes. Each turn of the loop over `listOfAvailablesFunctions` is `Skip`,
`Inject` or `InjectFails`; `UpTo`, `After` and `HasTwoParts` are what
`String.split` returns, trailing empty parts dropped. `Send` announces the bytes
and writes the encoding of each byte made a char. The default charset is UTF-8,
as in the Java version that `pom.xml` asks for.

## Runs

| run | module | checks | distinct states |
|---|---|---|---|
| `server` | MCServer | `TypeOK`, `MutexDiscipline`, `SuccessPinsHandle`, `LoggedInOnlyByMatch`, `ImplementsService` | 490 thousand |
| `session` | MCSession | `SessionTypeOK`, `ExactLag`, `InStep`, `ToldNoIsRefused` | 970 thousand |
| `session_live` | MCSession | `WaitEndsUnlessSilent`, `LoginsGetTheMutex`, `LeftConnectionsEnd` | 120 thousand |
| `accept` | MCAccept | `AcceptTypeOK`, `Ownership`, `OwnReader` | 1.6 million |
| `codec` | MCCodec | `TypeOK`, `RoundTrip`, `FieldsArrive`, `OverrunBounded`, `SendsTheString` | 107 thousand |
| `stream` | MCStream | `StreamTypeOK`, `ConnectorGets`, `ImplementsQueue`, `PacketsArrive`, `SendEnds` | 69 thousand |
| `web` | MCWeb | `WebTypeOK`, `InOneHand`, `LockBudget`, `VisitsEndUnlessHeld` | 619 thousand |
| `page` | MCPage | `PageTypeOK`, `OneMarkerOnly`, `ThrowsForCause`, `LengthTellsAscii` | 220 thousand |

* `MutexDiscipline`: the holder of the mutex is the thread that scans. It is what
  makes the `strtok` of `login` safe, which its author warned of at server.c:101.
* `LoggedInOnlyByMatch`: a connection that lost its rights regains them only by
  a login that matches; the flag starts at 1, so every connection has them first.
* `SuccessPinsHandle`: who was told of success has left a statement on a handle
  that will never be closed.
* `ImplementsService`: the refinement above.
* `ExactLag`: packets under way, in either direction or in the hands of the
  thread, plus requests dropped in silence, equal the reservations sent plus the
  request waited for. From it follow the conditions under which a client reads
  the right answer (`InStep`) and can trust a refusal (`ToldNoIsRefused`).
* The liveness run: a wait ends unless the server dropped a request in silence;
  who asks for the mutex gets it or the process dies; the thread of a client
  that left ends.
* `RoundTrip`: unless `realloc` lost a NUL and heap bytes came in, a list comes
  back as it was sent exactly if no parameter is empty or holds a comma and the
  counter did not wrap. `FieldsArrive`: short of a wrap, the fields of the first
  parameter come back first, and unless heap bytes came in, what comes back are
  the non-empty fields, each of them, in order.
* `OverrunBounded`, `SendsTheString`: how far the buffer of a list is written
  past (one byte, and as many as `realloc` let in from the heap), and that what
  leaves is the string in it, short of its end by no more than those bytes.
* `ImplementsQueue`, `PacketsArrive`, `SendEnds`: reassembly as a refinement,
  arrival of what was sent to a peer that keeps coming back to `recv_packet`, and
  the peers that can block a sender for ever: full buffers and a connector that
  has read what it will ever read and keeps its socket, or a caller that stays
  away from `recv_packet`, as a client at its menu.
* `ConnectorGets`: what the Java connector takes for the text of an answer, byte
  for byte; it is never the text.
* `InOneHand`: a connection is in one backlog, one queue or one worker of its own
  listener, and workers are no more than threads.
* `LockBudget`: handlers are counted by log files; the listener whose constructor
  finds none ends, and the plain listener ends in no other way.
* `VisitsEndUnlessHeld`: a visit that does not end holds a worker (a browser that
  is silent, a request that the C server dropped, or a browser that stays and
  does not read a page larger than the buffers), waits behind a pool that is
  held so entirely, or came after its listener ended.
* `OneMarkerOnly`, `ThrowsForCause`: a smart page is the file with its markers
  replaced exactly if there is at most one marker, and a page is lost only when
  a function throws or a marker has no text between it and the next marker or
  the end. `LengthTellsAscii`: the announced length is right for ASCII only.

### Bounds

`MaxRequests` bounds the requests of a behaviour, over all connections (2 in
`server` and `session_live`, 3 in `session`); `Conns` has two connections and
in `accept` three; `MaxFd` is the number of descriptors left, 3 in `accept`.

Two threads are enough for every conflict over the mutex, which is all that
threads share besides the life of the process. Three requests let a session go
through login, logout and a third request, or a reservation and two more. With
one descriptor per connection and one per database handle, three descriptors for
three connections make the table overflow, leave handles behind and reuse
numbers. `Requests`
holds one request for every path through `handle_client` (`EveryPath`), those a
menu can send with the outcomes that change a session (`MenuRequests`), or one
for each way a wait can end (`WaitRequests`). Connections are symmetric in the
safety runs; the liveness run uses no symmetry. The theorems have none of these
bounds.

`codec`: every list of up to two parameters of up to two characters, of up to
four of at most one, and longer lists that take the counter round twice, which is
enough for an empty parameter, a comma at either end and a parameter after the
wrap; `CountModulus` is 3 in place of 256, and a lost NUL lets in nothing, a
letter, or a comma and a letter, at every `realloc` anew. `stream`: bytes are digits of base 4 and a size has two of them in
place of eight; the payloads of MCStream are empty, short, and as long as `Base`,
whose size has a zero for its lowest byte. Three packets and a window of three
bytes make every header wider than the window and let a packet follow one that
was cut. `web`: two visitors and one thread for each pool, so that one held
worker holds a pool; with `MaxLocks` at two, none, one or both of them find a log
file. `page`: five pieces are enough for two markers of one kind around one of
another with text between.

`CHECK_DEADLOCK FALSE` everywhere: all clients may leave, or the process may die,
and then nothing happens any more.

### Fairness

`Fairness` gives weak fairness to each thread, to the accept loop for each
connection, to a client in `recv_packet` that has a packet, and to the end of a
waiting client whose server is gone. These are steps of the kernel's scheduler
and network stack. There is none on what a user chooses, on clients leaving or
on requests being sent. `LoginsGetTheMutex` holds under weak fairness because
requests are bounded: a mutex that others kept taking for ever could starve a
thread under any scheduler that does not queue.

`PacketStream` is fair to the kernel that moves bytes and to a `recv_packet` or
`receive` that was called; nobody has to call, send, leave or stay. `PacketsArrive`
names what it needs beyond that as its premise. `WebServer` is fair to the
listeners, to the pools, to a worker that can go on and to the threads of the C
server; not to browsers, whether they send or read, to the collector or to the end
of the C server.

## What the code does not do

Violation runs; the quotations and lines are in `PROJECT.json` under "findings".

| run | property | what TLC shows |
|---|---|---|
| `stale_answer` | `AnswerMatches` | after a reservation the client reads the answer to an earlier request |
| `silent_wait` | `EveryWaitEnds` | a read that SQLite rejects is never answered |
| `one_thread` | `OneThreadPerConnection` | two threads read one connection |
| `closes_own` | `ClosesItsOwn` | the second `close` hits a descriptor given out again |

Divergences met while modelling that need no run are in the same list: changes
are confirmed as soon as their statement compiles and are never executed, a
thread that served a query ends without closing its handle, tables are never
created, Disconnect closes standard output, logout leaves the client showing
`logged: 1`, the text of add_show does not compile for plain values, the
add_movie dialogue never ends, the codes and the size field differ from
`doc/protocol.md`, the parameter list is written past its buffer, the connector
misreads the size, the list of shows is never asked for, a missing page gives no
answer in place of 404.html, and Content-Length is wrong for bytes above 127.

## Proofs

The theorems about the C server and its clients hold for any sets `Conns` and
`Requests` and any `MaxRequests`, from the assumptions in `CinemaServer`: `NoConn` is no connection, the requests are
requests, `NoRequest` is none of them.

* `CinemaServerProofs`. `TypeInv` is `TypeOK` with the fact that a busy thread has
  a packet in hand; it is inductive and gives `TypeCorrect`. With it,
  `MutexDiscipline` is inductive (`MutexCorrect`). `Isolation` says that a step
  for one connection leaves what another connection has; it reduces every later
  induction to the connection that moves. `HandlerInv` says that the answer in
  hand fits the request in hand; `FlagFrame` that the flag changes only when an
  answer leaves. The two give `LoggedInOnlyByMatchHolds`. `PinInvAt` strengthens
  `SuccessPinsHandle` to answers in hand and under way together.
* `CinemaRefinementProofs`: `ServerImplementsService`. Lemmas for the peers, the
  accept loop, the handlers and the sending of an answer (`MappedPeer`,
  `MappedAccept`, `MappedHandling`, `MappedAnswer`) map each step to a step of
  `CinemaService` or to a stutter; `HandlerInv` supplies the fitting
  answer for `Serve`.
* `CinemaSessionProofs`. `SessionRunsServer` carries the server's invariants over
  to the composition. `LagInv` strengthens `ExactLag` by what a connection that
  does not exist yet looks like. `FlagsFit`, the part of `SessionTypeOK` that ties
  the client's flags to its connection, is inductive with the types. From the lag alone it follows that a client
  that reserved nothing has at most one packet under way (`OneUnderWay`) and
  none at its menu (`QuietAtMenu`); `StepInvAt` and `ToldInvAt` say of that packet
  that it is the request asked or its answer, and give `InStepHolds` and
  `ToldNoHolds`.
* `AcceptLoopProofs`, for any connections and any size of the descriptor table.
  `TypeInv` adds to the types what holds even after a thread went astray: a
  descriptor is stored before it is read, and a connection has one descriptor,
  from its accept on. `OwnInv` says that until then the descriptor of a thread
  refers to its own connection up to the first close (`OwnSockets`), and that a
  `recv` that blocks on a socket blocks on that one (`OwnFiles`); from it follows
  `OwnReaderHolds`. `TableInv` names the owner of every entry and is `Ownership`.
  One lemma per kind of step: what it gives out or frees, and whom it moves.
* `ParamCodecProofs`, for any alphabet, any lists, any width of the counter and
  any `Leftovers`. `SenderInv` has two parts: how much of the list is in the
  buffer at each place of the loop (`Turns`), and how `size`, the buffer, the
  allocation and the bytes let in from the heap stand to each other there
  (`Written`, `Unwrapped`). It gives `OverrunHolds` and
  `SendsHolds`. `CodecTypeCorrect` needs the reader too: that the positions which
  `CString` and `strtok_r` look for exist (`WellFoundedInduction` for the first).
  Four more invariants follow the list to the tokens. `FieldsInv`, short of a
  wrap and as long as nothing came from the heap: the fields of the buffer, or of what `strtok_r` has not looked at behind
  the tokens taken, are those of the parameters so far. It rests on two lemmas:
  a comma separates (`FieldsJoined`), and a call of `strtok_r` returns the first
  field (`TokenIsField`). `HeadInv` keeps the first parameter in front whatever
  came in behind it, because it and its comma are inside every old allocation.
  The two give `FieldsArriveHolds`. `TokenInv`: a token is not empty and holds no comma. `WeightInv` counts bytes instead of following
  them, because after a wrap two parameters may have become one: a list beyond
  the counter leaves a string shorter than its parameters with their commas, and
  tokens with their commas never take more than the string. With the first two
  it gives `RoundTripHolds` in both directions. What the recursive `Fields` and
  `FlattenSeq` compute is induction over sets (`NatInduced`, `StringInduced`).
* `WebServerProofs`, for any visitors, any pool size and any number of log files.
  `WebInv` is the conjunction of the three safety properties: that the head of a
  line is a visitor of that place (`Line`) makes the counts of `LockBudget` move
  by one. `QuietStep`, `WorkerMoves` and `HeadLeavesBacklog` treat the actions
  that have the same effect on them together.
* `PacketStreamProofs`, for any packets whose sizes fit a size_t, any base above
  one, any size_t of two bytes or more, any window and any number of packets.
  tlapm cannot instantiate the library's induction theorems, so inductions over
  numbers are arguments about the least counterexample (`LeastNat`); with them
  come the powers of the base and `SizesDiffer`: different sizes differ in a
  digit, so `PayloadSize` reads back what `SizeField` wrote (`SizeRead`).
  The invariant `Inv` says what the pieces in the hands of the two sides are
  pieces of. `StreamInv`: as long as the receiver has not ended, the bytes of the packet that
  is being read, those under way and some rest are together the bytes of the
  packets that were not returned yet. The rest is needed because a sender that
  ended never writes the end of its last packet, and a reset takes bytes from the
  pipe. `SenderInv` and `ReaderInv` say where each side is within its packet;
  `GetsInv` does the same for the connector, which reads the bytes at other
  places, and gives `ConnectorGetsHolds`. `Returned` says that a packet is
  complete when it is returned and is the next one that was sent; with
  `NothingLost`, for the NULL at the end of the stream, the steps map to those of
  `PacketQueue` (`QueueSteps`), which is `StreamImplementsQueue`.
* `SmartPageProofs`, for files of any length. `PageInv` is `PageTypeOK` with the
  place in the list of functions. `LengthTellsAsciiHolds` follows from the sums of
  the lengths. `TraceInv`, for `ThrowsForCauseHolds`: every marker of the page in
  hand is a marker of the file, and one with no text behind it has none behind it
  in the file either, so that what the page lacks the file lacks. `MarkerInv`, for
  `OneMarkerOnlyHolds`: the page is the file, or what one function made of it, or
  it keeps a marker for ever, because the second function copies text that the
  first one had written. `OneInjection` compares what one function makes of the
  file with the page that the markers describe.

Model-checked only: the liveness properties (`WaitEndsUnlessSilent`,
`LoginsGetTheMutex`, `LeftConnectionsEnd`, `PacketsArrive`, `SendEnds`,
`VisitsEndUnlessHeld`), because fairness and ENABLED are out of the prover's
reach. Every invariant, every action property and both refinements that a passing
run checks are also theorems.

## Not modelled

* SQL text longer than the fixed buffers of the handlers; the descriptors that
  `fopen` and SQLite's journals hold for a moment; locks that other processes
  hold on the database.
* Failures of `malloc`, `fopen` of standard streams, and other exhaustion of
  memory.
* The value of `client_fd` when Disconnect is chosen before Connect.
* `create_account` and `body_parser`, which nothing calls.
* The text of a request to the web server: its parts and headers (the parser
  skips the last header), the length of a body. A request is read, or the parser
  trips over it.
* The TLS handshake, and failures at start-up: a port in use, a missing keystore.
* What a browser does with the page, and cross effects of titles that hold a
  marker.
* The mail sender and the logger, which keep no state; static pages and build
  files; vendored SQLite, third-party code that is nearly all the lines of C.

## Plan

1. Done: `CinemaProtocol`, `CinemaService`, `CinemaServer` and the refinement;
   `CinemaSession`; `AcceptLoop`; `PacketQueue` and `PacketStream`; `ParamCodec`;
   `WebServer`; `SmartPage`; the theorems above.
2. Left: the three hazards that no property covers; invariants under the liveness
   properties that say which steps a wait still needs, as safety properties that
   can be proved.
