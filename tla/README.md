# A TLA+ model of the web server

This directory specifies and verifies the C++98 web server of this repository:
a single-threaded, `poll()`-driven HTTP/1.1 server with virtual hosts, static
files, uploads and CGI scripts. TLC checks the specifications on small
instances; TLAPS proves, for every value of the constants, the invariants of the
event loop, its timers, start-up, the configuration parser, routing and the
method handler, and that the method handler implements its abstract
specification.

Paths below are relative to the root of the repository (`src/core/EventLoop.cpp`
and so on).

## 1. The system

One process, one thread. `main` installs the signal handlers, parses the
configuration into `Server_block`s, opens one listening socket per block and
hands the list to an `EventLoop`, whose `run()` calls `poll()` until a signal
clears `g_running`. Everything else happens inside one pass over the `pollfd`
array, synchronously; the only concurrency is with the outside: peers, the
scripts the server forks, the clock and signals.

| Component | State it keeps | Operations | Talks to |
|---|---|---|---|
| Event loop (`core/EventLoop`) | `_pollFds`, `_clientMap`, `_cgiFdToHandler`, `_cgiFdToClient`, `_cgiStartTime` | `run`, `processEvents` and its handlers, `registerCGI`, destructor | owns all clients and handlers, reads sockets and pipes through them |
| Client (`core/Client`) | socket, request and response buffers, `_lastActivity` | `readFromSocket`, `writeToSocket`, `setResponse`, `isTimedOut` | the event loop |
| CGI handler (`cgi/CGIHandler`) | `_pid`, two pipes, `_body`, `_output`, `_done`, `_error` | `start`, `writeBody`, `readOutput`, `cleanup`, destructor | the forked script, the event loop |
| Server and start-up (`main`, `core/Server`, `core/ServerFactory`, `core/SocketGuard`) | one listening socket per server block | `createServers`, `destroyServers`, `accept` | configuration, event loop |
| Signals (`signals/SignalHandler`) | `g_running` | handler, `setupSignals` | event loop, and every call that blocks |
| Request parser (`http/RequestParser`, `http/HTTPRequest`) | the `HTTPRequest` of the client: the whole buffer is parsed into it again after each read | `parseRequest` | client buffer, chunked decoder |
| Chunked decoder (`http/ChunkedDecoder`) | nothing between calls | `decode` | request parser |
| Router and route configuration (`http/Router`, `http/RouteConfig`) | a cache of allowed methods | `match_location`, the getters of `RouteConfig` | method handler, CGI start |
| Method handler and sessions (`http/MethodHandler`) | the session table, the document tree | GET, POST, DELETE, auto-index, error pages | router, file upload, response builder |
| File upload (`http/FileUpload`) | files under `upload_pass` | splitting a multipart body | method handler |
| Response builder (`http/ResponseBuilder`) | none | `build`, `buildCgiResponse` | client buffer |
| Configuration (`config/`) | tokens, server blocks | tokenizer, parser, defaults | `main` |
| Logger | none | output only | all |

### What makes it hard

* **Stale descriptors.** `revents` is what `poll()` saw before the pass. The
  handlers of the pass close descriptors, the kernel hands the numbers out
  again, and five containers keyed by descriptor have to follow.
* **An array edited while it is iterated.** `removeFromPoll` erases the visited
  entry and steps the index back, `cleanupCGIWriteFd` erases another one and
  does not.
* **Raw pointers in maps.** Clients and handlers are deleted by whichever event
  ends them; two keys lead to each handler and to its client.
* **Processes.** A script may close its output, exit, fail or hang between any
  two system calls of the loop. The handler's destructor waits for it.
* **Partial failure.** `accept`, `pipe`, `read`, `write` and `bind` can fail
  between two steps that belong together.
* **Time.** Idle clients and slow scripts are found only when the loop next
  visits their entry.
* **Boundaries of input.** A request arrives in pieces and is parsed again from
  the start after each; sizes come from the peer and from the configuration.

`PROJECT.json` lists each hazard at the line where it bites, with the properties
that watch it.

### What has to be true, per component

* Event loop: no visit follows a dangling pointer or erases out of range; the
  maps, the array and the objects agree; listening sockets are never dropped; a
  connection gets at most one answer, its own; every connection is closed and
  every script's handler is deleted.
* CGI handler: a body is written once and in full or an error is reported; every
  pipe is closed and every process reaped exactly once.
* Start-up: the servers that bound are exactly those in the list, aligned with
  their blocks; nothing that failed leaves a socket open.
* Router: the location is the longest configured path that is a prefix ending at
  a segment boundary.
* Chunked decoder, request parser: what is decoded is what was encoded; a prefix
  of a valid request is "incomplete", never an error; the verdict on a request
  does not depend on how it was cut into reads.
* Method handler: the order of checks (method allowed, path safe, permissions),
  a DELETE or upload either happens and is acknowledged, or neither.
* Configuration: rejected or well formed, never half applied.

## 2. Modules

| Module | What it is |
|---|---|
| `EventLoop` | event loop + clients + CGI handlers + kernel descriptors + scripts; invariants and liveness properties |
| `ConnectionService` | abstract: what each connection is promised |
| `EventLoopService` | the refinement mapping from `EventLoop` to `ConnectionService` |
| `MCEventLoop` | symmetry for TLC |
| `EventLoopProofs` | TLAPS proofs of the inductive invariants and of the refinement |
| `Startup` | from the parsed configuration to the event loop: `main`, `createServers`, the constructor of `Server`, `SocketGuard`, `destroyServers` |
| `StartupProofs` | TLAPS proofs of its invariants |
| `Router` | the loop of `match_location` |
| `RouterReference` | what a location means, by path segments; the run that compares the two |
| `RouterProofs` | TLAPS proofs that the loop keeps the longest match, and that this is the deepest location |
| `Strings` | the operations of `std::string` the next four modules use |
| `HTTPRequest` | the first line of a request with its URI, query and codes; cookies |
| `RequestReading` | the reads of a client, `RequestParser` and `ChunksDecoding`, character by character where a character decides |
| `FormData` | the file in a form (`FileUpload`), and the length a script is told (`CGIHandler`) |
| `ResponseBuilder` | from a `Response`, or the output of a script, to the bytes for the client |
| `Requests` | what clients send, well formed and damaged, what must be made of it, and how they read what is sent back; the run |
| `RequestProofs` | TLAPS proofs about the parser and the decoder, for all that clients may send |
| `Timers` | the idle clock of clients and the clock of scripts, in seconds, against the passes of the loop |
| `TimersProofs` | TLAPS proofs of its limits |
| `Tokenizer` | from the lines of a configuration file to its tokens |
| `ConfigParser` | `Parser::parse`, directive by directive |
| `RouteConfig` | the settings of a request, from its server and location block |
| `ConfigFiles` | configuration files from what they mean to what they set, well formed and not; the run |
| `ConfigParserProofs` | TLAPS proofs that accepted files are usable, and are initial states of `Startup`, and that nothing read is changed later |
| `MethodHandler` | GET, POST and DELETE, system call by system call, among other processes; the session table |
| `DocumentStore` | abstract: what the three methods promise of the documents |
| `DocumentService` | the refinement mapping from `MethodHandler` to `DocumentStore` |
| `MCMethodHandler` | routes and requests for TLC |
| `MethodHandlerProofs` | TLAPS proofs of its invariants and of the refinement |
| `SequenceLemmas` | what erasing one element leaves of a sequence, for the proofs about vectors; induction, and sets of numbers counted in their order; what the operations of `Strings` find, what pieces make of a text, and where each stands in it |

### EventLoop and the code

One action is one turn of the `for` loop of `processEvents` with everything it
calls, or one `poll()`, one return from a blocking `waitpid()`, one step of the
destructor, or one step of the environment. `Branch` is the order in which
`processEvents`, `handleReadEvent` and `handleWriteEvent` test an entry.

| Code | Model |
|---|---|
| `_pollFds`, loop index | `pollFds`, `i` (1-based; 0 while in `poll()`) |
| `_clientMap`, `_cgiFdToHandler`, `_cgiFdToClient`, `_cgiStartTime` | functions on descriptors, `NULL`/`"none"` for an absent key |
| `Client*`, `CGIHandler*` | addresses; `clients`, `cgis` say what lives there; an address is reused after `delete` |
| `_pid` and the script | `child`, by the address of its handler |
| descriptor table | `openFds`; the kernel hands out the lowest free number |
| bytes sent | `wire[c]`: the responses of which something was written on connection `c` |
| `handleNewClient` | `NewClient`, `AcceptFails` |
| `handleClientRead`, `checkRequestParsing`, `handleRequestComplete` | `ClientGone`, `ReadIncomplete`, `ReadAnswered`, `StartFails` (what `start()` had opened is closed by `~CGIHandler`), `StartCGIGet`, `StartCGIPost` |
| `handleCGIRead`, `handleCGITimeout` | `CGIReadMore`, `CGIReadEnd`, `CGITimeout` |
| `handleCGIWrite` | `CGIWriteDone`, `CGIWriteBody` |
| `handleWriteEvent` on a client | `ClientWriteFails`, `ClientWritePart`, `ClientWriteRest` |
| `~CGIHandler` blocking in `waitpid` | `waiting`, `Reap`, `Interrupt` |
| `~EventLoop` | `Stop`, `DestroyCgi`, `DestroyDead`, `Stopped` |
| a step that dereferences a dead object or erases out of range | `Undefined`, `DestroyDead`: the model stops in `proc = "undefined"` |

Abstractions, all in the data:

* A response is the connection it answers and how it was made; a request body is
  a number of units, the unit being what the script's stdin pipe is measured in.
  A GET starts a script without a stdin pipe.
* `HUP` stands for `POLLHUP|POLLERR` on a socket; the loop treats them alike.
* Clocks are booleans: a client is `late` past `TIMEOUT`, a script past
  `CGI_TIMEOUT`, and either may become so at any time.
* `g_running` is read once per pass, after `poll()`, so a signal that arrives
  inside a pass is a signal that arrives at its end, save for one that ends a
  blocking `waitpid()` (`SIGINT` and `SIGTERM` are caught without `SA_RESTART`):
  that one is `Interrupt`.
* `cleanup()` sends `SIGKILL` before it waits, so that wait is immediate.
* `poll()` returning an error and `new` throwing are left out, as is everything
  inside `fork()`ed children before `execve`.
* A script that is blocked writing to a full stdout pipe may still exit in the
  model; this only adds behaviours.

### The other modules and the code

| Code | Model |
|---|---|
| `serverBlocks`, `serverList`, the index of `createServers` | `blocks`, `list`, `i` (from 0, a `size_t`) |
| `_socket.fd` of the `Server` under construction | `guard` |
| `createSocket`, `bindSocket`, `startListening`, each with its failure | `OpenSocket`, `SocketFails`; `SetNonBlocking`, `FcntlFails`; `Bind`, `BindFails`; `Listen`, `ListenFails` |
| stack unwinding, `~SocketGuard`, the `catch` and the `i--` | `Throw`, in one step |
| `createServers` returning or throwing, `destroyServers` | `Run`, `NoServer`, `Shutdown` |
| one turn of the loop of `match_location` | `Router!Consider` |
| one `read()` and the `parseRequest()` that follows it | `RequestReading!Receive` |
| `handleGET`, `handlePOST`, `handleDELETE` up to the first system call | `MethodHandler!Receive`, with the decisions in the order of the code |
| each `stat`, `access`, `open`, `remove` and write behind it | `GetIsDirectory` ... `GetFile`, `DeleteIsDirectory` ... `DeleteRemove`, `StoreExists` ... `Close`; `at` says which is next |
| `resolveCGI`, `access` twice, `fork` | `ScriptPath`, `ScriptExists`, `ScriptExecutable`, `Fork` |
| `AllSession`, `ensureSession` | `AllSession`, `EnsureSession`; `jar` is what clients keep |
| `parseRequest`, `parseHeaders`, `decode`, `urlDecode`, `getCookie`, `parseTheThing`, `addPostEnv`, `build`, `buildCgiResponse` | operators of the same names; a round of the loop of `decode` is `NextChunk`, the loop of `buildCgiResponse` is `Relay` |
| one turn of the loop of `Parser::parse` | an action of `ConfigParser`: `OpenServer`, `OpenLocation`, `Close`, `SkipSemicolon`, `ServerDirective`, `LocationDirective`; every `throw` is `Reject` |
| `_tokens`, the index, `server_seen`, `location_seen`, the pointers | `tokens`, `i`, `server_seen`, `location_seen`; the pointers are the last blocks of `servers` |
| getters of `RouteConfig` | operators of the same names |
| `time(NULL) - _lastActivity`, `time(NULL) - _cgiStartTime` | `idle`, `age`; `Tick` is a second |

In `Startup`, `bind()` fails at any time and must fail when a server that listens
already has the address; the system has one process of interest. In `main`,
`destroyServers` closes the listening sockets before `~EventLoop` runs;
`EventLoop` has the latter only, so its listening sockets are still open when it
stops, and `Startup!Shutdown` closes them. A configuration with duplicate
addresses does not reach `createServers` (`Parser::parse` rejects it), and
location paths start with a slash and are distinct for the same reason.

`RequestReading` has one `HTTPRequest` for each client, as the code has: `target`,
`headers` and `body` are what `parseRequest` has been given and gives back, so that an attempt that finds
the request incomplete or wrong leaves the URI, the query and the headers it has set (the
page of a 400 is chosen by that URI). Headers are kept as the lines that set them, for the
four that are asked for. The header lines before a wrong one are set, and the map keeps what a
later attempt does not set; `setQueryString` is not called without a question mark. Reading a character
behind the end gives a null character, which is what `operator[]` gives at
`size()`; no run reads further. Most header lines are single tokens, and all characters that decide anything in a
first line, in cookies, in the lines of a form and in a body are tokens of their
own. `Requests!Read` is how a client reads a response; `Requests!Echo` is a script
that sends back what it is sent, so that `EchoArrives` leads from the bytes a client
sends through the parser, the decoder, `CONTENT_LENGTH` and `buildCgiResponse` to
the bytes it gets.

`MethodHandler` keeps a URI as its names, its last slash and whether a dot stands
behind a question mark in it, since no other part of it decides anything. (The parser cuts the query off; what
the handlers cut off again is what follows a question mark sent as `%3F`.) A script
is looked up, tested and started by `ScriptExists`, `ScriptExecutable` and `Fork`;
from there on it is `EventLoop`'s. Opening and reading a
file is one step, and so is listing a directory. `linked` says whether the file
that an upload has open is still the one at its path: another process may have
replaced it, and what is written then goes to a file without a name.
`DocumentStore` counts such an upload as written before it was replaced, which
is why it promises what a client can rely on and no more. A DELETE removes a file,
and refuses a directory at the first look. Two actions say where the code keeps less
than it should: `Unnoticed`, the failure of the `close()` that writes a short file, and
`TookItsPlace`, an empty directory that took the place of the file behind `isDirectory()`
and is removed. Without either the refinement fails. Its variable `others` flips at each
step of another process, so that no change by the server passes for one of
theirs. In a route whose root ends with the first name of the URIs, `handleDELETE`
and `handleGET` name different files; the shipped configurations allow no DELETE
there, and the runs follow them.

## 3. Runs

Bounds: `ClientAddr` and `CgiAddr` bound the objects alive at once, `MaxConns`
the connections of a behaviour, `MaxFd` the descriptor table, `MaxBody` and
`PipeCap` the sizes. `serve` has two clients and two scripts on seven
descriptors: room for both scripts when one has a body, and a full table while
the pipes of the second are opened. Two clients and two scripts are enough for one
object to be deleted and its address and descriptors reused while another's
entries stand behind it in the array, which is where an index or a stale key
goes wrong. `faults` has one client address, so that the second client is always
allocated where the stale keys of the first one point, and a body of twice the
size of the pipe. `live` has two clients, one script at a time, without a body,
and five descriptors. Addresses are symmetric: no
operation compares them.

`DropWhileRunning` separates two regimes. When it is FALSE no client resets its
connection, or is idle past `TIMEOUT`, while its script runs. (The second half
is what the constants of `ServerConstants.hpp` give a loop that is not stalled:
`Timers!PausedIsSafe`, proved as `TimersProofs!NoIdleCloseWhilePaused`, says so
for all constants with `CGI_TIMEOUT` = 3 s, one `POLL_TIMEOUT` = 5 s and two
passes below `TIMEOUT` = 45 s.) In this regime, and with bodies that fit in the
pipe, all invariants hold. Outside it `_cgiFdToClient` dangles and only the
invariants of `faults` survive; the findings show what goes wrong.

| Run | Question | Properties |
|---|---|---|
| `serve` | two clients, two scripts, failures, timeouts and signals at any point, in the first regime | `NoUndefined`, `CgiMapsAgree`, `PollExact`, `MaskMatchesRequest`, `OwnAnswer`, `CleanStop` |
| `faults` | clients dropped at any time, bodies larger than the pipe: what survives? | `TypeOK`, `ListeningFirst`, `FdOwnership`, `ClientMapExact`, `OneChildPerHandler` |
| `live` | is every connection closed, and every script's handler deleted? does the loop implement `ConnectionService`? | `EveryConnectionCloses`, `EveryScriptEnds`, `ImplementsService` |
| `doc_spawned_by` | `docs/EventLoop.md`: `_cgiFdToClient` leads to the client that spawned the script | `SpawnedBy` (violated) |
| `doc_stall` | `docs/CGIHandler.md`: the loop never waits for a script | `NeverStalled` (violated) |
| `startup` | any call of any constructor fails: do blocks, servers and sockets stay in step, and does `createServers` end? | `Aligned`, `NoSocketLeak`, `ServesOrExits`, `AddressesDisjoint`, `StartupEnds` |
| `routes` | is the location found the deepest that covers the request, in any order of the file? | `BestSoFar`, `DeepestCovers` |
| `requests` | every cut of a request into reads: is it understood, in time and with one verdict, does no attempt leave anything behind, and is what goes back read as it is meant? | `NothingStale`, `BodyArrives`, `CompleteInTime`, `SameVerdict`, `UploadArrives`, `TargetArrives`, `SessionKept`, `EchoArrives`, `AnswerArrives` |
| `methods` | are the answers of the handlers true, and do requests change only what they name, whatever other processes do? | `TypeOK`, `SessionsDistinct`, `ImplementsStore` |
| `timing` | two clients and their scripts against the clock: does everything end in time, and no waiting client too soon? | `ScriptInTime`, `PausedIsSafe`, `ConnectionEnds` |
| `config` | is a file read as its author means it, and refused if it means nothing? | `TypeOK`, `Usable`, `ReadAsWritten`, `NeverMisread` |
| `doc_index_script` | `docs/MethodHandler.md`: a directory whose index is a script runs it | `IndexIsRun` (violated) |

All passing runs of the loop use a `VIEW` (`MCEventLoop!View`): the
`revents` of entries behind the visited one, and of all entries while the loop
is in `poll()`, are masked, since nothing reads them again before `poll()`
overwrites them. That of `methods` masks the last request and its answer once the
next one may come, and `others`. `live` states no symmetry, which would be unsound for liveness.

**Bounds of the other runs.** `startup`: four blocks, so that a failure can come
first, last and twice in a row, on three ports and two hosts of which one is
`0.0.0.0`; as many descriptors as blocks. `SizeMax` only has to be larger than
the number of blocks: the index wraps below zero and back, never upwards.
`routes`: all URIs of up to four characters and all lists of up to three
distinct paths of up to three characters, over the slash, a question mark and
one other character: siblings that share a prefix, trailing and double slashes,
the root and the empty URI are among them. `requests`: every body of up to two
bytes over a letter, a digit, CR and LF, in every split into chunks, with and
without chunk extension and trailer, alone or with the next request behind it; a request without headers with header lines behind it;
every encoding of the bodies of letters with one token lost or replaced; forms
with one file of up to two tokens, which may be line ends, dashes or the boundary
itself, with quotes and without, with text before and behind; names of up to three
of the characters `%`, `?`, `2` and `5`, each by itself or by its code, so that
`%25` is a name too; and the cookies of an answer in every order, among others.
The answers are those of each kind of handler, and an echo by a script, for every
request that arrives. `MaxLength` = 42 is the longest form.
Reads return one or two bytes, which reaches every cut the parser could notice:
it looks at most three characters past a position, and a longer read only skips
verdicts that a shorter one would have met. `WordSize` is 256: the
wrap-around of `headersEnd - firstLineEnd - 2` is met, chunk sizes stay far
below it. `methods`: one directory of uploads below the root and one file in it,
which is also the index of the directory, under six routes: those of the shipped
configurations (uploads, scripts with a root of their own, a redirect, read only),
one with an index and one with scripts anywhere. Any node may become any other between two system calls,
as long as the tree stays one. Two clients and two sessions: the table is full
when both have one, or when a script took one. `timing`: `POLL_TIMEOUT` of 2 and
passes of 1 second make a pass begin in the middle of every limit; `TIMEOUT` is the
least the assumption allows, `ScriptLimit` = 1 + 1 + 2 + 1. `config`: one server
with any of the clauses, one location with any of them, and two servers with two
locations each, in two orders and three layouts, or with a word lost, the end cut
off, a clause or a block repeated, or a value that is none. Two blocks on each
level are enough for a directive to land in the wrong one.

More sentences of the documentation disagree with the source; one line of code
settles each, so the modules follow the source and no run is spent on them.
`docs/EventLoop.md:57` and `docs/Client.md:77` have an idle client sent a 408,
which `handleClientDisconnected` only logs. `docs/ServerFactory_SocketGuard.md:15`
has the exception of a constructor leave `createServers`, which catches it and
drops the block. `docs/ChunksDecoding.md`, step 9, has a chunk that is not there
whole waited for; `pos + chunkSize + 2` wraps for the largest sizes, and the test
lets them pass. `docs/RequestParser.md:40` and a comment at line 41 of
`RequestParser.cpp` have the headers end at the blank line; behind a request
without headers, `headersEnd - firstLineEnd - 2` wraps and they run to the end of
the buffer, so a request that follows in the same read is parsed as headers.
`docs/MethodHandler.md:30` has the extension of the URI decide whether a script
runs; a dot behind a question mark that was sent as `%3F` is taken for the one of
the extension. `docs/MethodHandler.md:55` has an upload that cannot be written
answered with a 500; `saveTheThing` does not look at what `close()` at
`FileUpload.cpp:188` returns, and that is where a short file is written.
`docs/MethodHandler.md:67`, and the comment at line 579 of `MethodHandler.cpp`, have no
directory deleted; `remove()` at line 593 takes an empty one that was put in the place of the file
behind `isDirectory()`, with a 204 (`DocumentStore!TookItsPlace`).
`docs/EventLoop.md` has `cgiCleanup` erase all related entries; when `writeBody` itself has closed the pipe, the handler's key for it stays, and the
number may be another's by then (the run `faults` lives with it). `docs/CGIHandler.md` has a
script that exits with a non-zero status answered with an error; the status is
read with `WNOHANG` at the end of the output, when the script may not have exited
yet. `docs/Client.md:92` has the idle clock restarted by each read and write; it
is restarted once, when the request is complete. `docs/FileUpload.md:26` has the
first file of a form extracted; only its first part is looked at, so a field
before the file makes the upload a 400, and what follows `boundary=` is not cut at
a semicolon. `docs/RequestParser.md` has a per cent sign with two hexadecimal
digits decoded; `strtol` takes a sign for the first of them. And the parser cuts the query off before it
decodes the rest, as it should, but `RemoveQueryString` and `match_location` cut
the decoded URI at a question mark again, and `makeRedirect` sends a decoded URI
as it is: names with a question mark or a blank in them are out of reach.

### Fairness

`EventLoop!Fairness` asks that the thread takes its steps (`WF(Loop)`), that it
stops after a signal it has noticed (`WF(interrupted /\ Stop)`), that time
passes (`WF(Clock)`), and that a script exits once the loop blocks in
`waitpid()` for it. The first three are what the operating system gives a
running process. The last is an assumption about scripts that the code does not
enforce, and `doc_stall` shows the state in which it is needed: a script that
closes its output and never exits stops the server. No fairness is assumed of
peers or of scripts the loop does not wait for. `POLL_TIMEOUT` makes `poll()`
return without events, so `Poll` is always enabled.

## 4. Proofs

`EventLoopProofs` proves, for every number of servers, descriptors, clients, handlers, connections and every size,

    Inv == TypeOK /\ ListeningFirst /\ FdOwnership /\ ClientMapExact /\ OneChildPerHandler

an invariant of `Spec`, in both regimes (this is the theorem `Invariance`). The assumptions are those of the
constants: `SizeAssumption` (sizes are naturals, the listening sockets fit in
the table, a pipe holds something) and `NullAssumption`.

None of the five is inductive alone. That a handler erases entries only behind
the listening sockets needs its descriptors not to be listening ones
(`FdOwnership`), even when its map keys are stale; that `delete` closes
descriptors nobody else has needs `FdOwnership` of all objects at once; that the
client of a visited entry is alive needs `ClientMapExact`; that freeing a handler
frees its process needs `OneChildPerHandler`. The argument never uses
`_cgiFdToClient` or `_cgiFdToHandler` being right: what holds survives their
being wrong. First come the lemmas about `_pollFds` (what `erase`,
`changeEvent` and `push_back` return) and the step for `TypeOK` and
`ListeningFirst`; then the owners of descriptors (`OwnerStep`),
handlers and processes (`ChildStepKeeps`), and the theorems. That a script which cannot
start leaves no descriptor behind is `FailedStart`: whatever `start()` had opened was free before.

#### The first regime

With `FirstRegime == ~DropWhileRunning /\ MaxBody <= PipeCap`, the second half of
`EventLoopProofs` proves `Regular` inductive on top of `Inv`, and from it
`NoUndefined`, `CgiMapsAgree`, `PollExact`, `MaskMatchesRequest`, `OwnAnswer` and
`CleanStop`, all invariants of `serve`. The parts of `Regular` need each other:

* `Connections` and `Answers`: a connection has one client at a time and at most one
  script, and what is written on it is its client's one response. Without them a
  handler's end could answer somebody else.
* `Maps`: `_cgiFdToHandler`, `_cgiFdToClient` and `_cgiStartTime` describe exactly the
  handlers that are served. A handler's end erases what it finds through them.
* `Watch`: each watched descriptor is in `_pollFds` once, and no other one. Erasing
  an entry too many, or the wrong one, would break it, so it needs `Maps`.
* `Entries`: a client's mask says what it waits for, and what `poll()` reported of
  an entry not yet visited is still possible. `revents` is older than the pass:
  that an entry visited late is not a new object under an old number follows only
  because descriptors opened in the pass are appended behind, with no events.
* `Undisturbed`: no client is late while its script runs, and what is still to be
  written of a body is nothing, which is what the regime gives.

When the destructor runs, `Ending` takes the place of these. Each handler of the
loop is a lemma of its own, and each part of `Regular` a step of it.

On top of `Regular`, `Awaited` is inductive: a client that is read or paused is on a
connection without an answer. It is what a refinement step needs to know: that the abstract
service may still answer there. `Implements` then shows that the loop implements
`ConnectionService`: each handler either looks the same in the mapping
(`LooksTheSame`) or is one abstract action on one connection (`AcceptServes`,
`StartServes`, `AnswerServes`, ...), all others standing still
(`OthersLookTheSame`). A consequence on the concrete level is `ConnectionsKeepCourse`.
`ConnectionService` states no fairness, so this is all of `ImplementsService`; that
every connection gets to its end is for `live` to check.

#### The other components

`StartupProofs` proves `TypeOK` and the four invariants of `startup` for every configuration,
number of descriptors and width of `size_t` that can count the blocks. They are
inductive together: that a constructor's failure closes its own socket only
needs `NoSocketLeak`, that the new server's address overlaps no other one needs
`Aligned` to know which block it was built from, and the step back of the index
from zero needs `Aligned` to know that the wrapped index is incremented before it
is used. `StartupAssumption` is used for `MaxBlocks < SizeMax` and nothing else
of substance.

`RouterProofs` proves `TypeOK /\ BestSoFar` inductive: `Longer` compares with
`best_len`, and only `TypeOK` says that this is the length of `best_loc`. From it
follows `DeepestCovers`: the code compares characters and checks one of them behind
the prefix, the property compares segments. `CoversIffMatch` proves the two the same
for every path with a first character and every URI, by counting the slashes before a position
(`Rank` in `SequenceLemmas`): two strings that agree up to a position have the same
slashes before it and so, cut at them, the same segments (`SameSegments`), and back.
That the longer of two matching locations is also the deeper one is
`LongerIsDeeper`: both are prefixes of the same URI.

`TimersProofs` proves the three limits. They are not inductive: what a clock may
show depends on where the loop is. `Bound` says it for an entry still to be
visited in this pass, for one already visited, and for the time in `poll()`;
`Order` relates the clocks to each other, so that the bound on the script's clock
carries over to the idle clock of the client that waits for it. `TimersAssumption`
is used for `ScriptLimit <= TIMEOUT`, and only by `NoIdleCloseWhilePaused`.

`ConfigParserProofs` proves for any sequence of words that the two pointers of the
parser lead to blocks that are open (`TypeOK`), that what it accepts has valid
addresses, codes, paths and extensions (`Usable`), and that it meets what
`Startup` assumes of its configuration (`AcceptedCanStart`): the two modules fit
together. The invariant adds `Sound`, that every block is sound in what it has so
far, and `Closed`, that all but the one under construction are complete. `LexAssumption`
types the functions that look into a word. Two action properties say what a turn of
the loop may never do: replace what an earlier directive has set (`NothingOverridden`), or
touch a block that is closed (`ClosedBlocksStay`). The first needs `Marked`: what is
set in the open blocks is in `server_seen` or `location_seen`, which are cleared for each
block and survive the locations of a server.

`RequestProofs` is about what clients send, which is any set of texts (`SentTexts`).
Its invariant is `Parsed`: what is held of a request is what one parse of all that has
arrived would put into a new `HTTPRequest`, though every attempt fills the same one and nobody
clears it. `HeldAsParsed` says so. An attempt overwrites what the one before has set,
but only what it sets again, so the step (`Reparse`) needs that it sets at least as
much: a first line that was complete is the same line still, with the same query
(`SetTargetIs`), and a header that a part of the text sets, the longer text sets
as well (`HeaderGrows`), also where half a line was taken for a header: behind a request
without headers the lines of the longer text are those of the shorter one and more, but for the last,
which has grown (`LinesGrow`, `LastGrows`). No condition on the text is needed.
`LengthAssumption`, that a token for a length is not the character CR, is used there.
`Typed` follows by the types of the operators. `VerdictKept` needs more: that a parser which does not
wait for more, given a part, would say the same of the whole (`RequestInPart`). That is shown
search by search and round by round of the decoder (`LineEndInPart`, `BlankInPart`,
`PartRound`, `DecodePart`), and it is false in general. `Definite` has the two
conditions it needs, both about a sum of `size_t` that wraps around: the length of the headers,
`headersEnd - firstLineEnd - 2`, wraps when there are none, and then the parser
takes all that follows for headers, so nothing may follow; and no chunk size may be so
large that the end of its data wraps (`Fits`). The second is the theorem's hypothesis
`SentSized`, the first is `HeadIsClear` in the property itself.
`BodiesArrive` and `CompletedInTime` are about texts that are messages (`IsMessage`): a
head that ends with its only blank line, a body that is encoded in chunks, as long as
a header says or absent, and then anything, but behind a head without headers. A body in
chunks is one that RFC 9112 writes (`Encodes`): any number of chunks of any size, with
any extensions, and any trailer; the decoder never sees this structure. `ChunkRound`
shows that a round of its loop takes exactly the chunk it stands before, once all of it has
arrived, `LastRound` the same of the last chunk with its trailer, and `FoundDecode`
puts them together by induction over the rounds. `HeadFound` shows that what follows a head
does not change where it ends. Every request of `requests` that is marked as valid is
a message, so the two theorems state `BodyArrives` and `CompleteInTime` for all that
the run tries and for everything longer.
`TargetsArrive` is about first lines that name a target (`IsAimed`): a method, a name and
perhaps a query behind a question mark, without white space. The name is written in any
way `Spells` allows, each character by itself or by a code, and only a per cent sign
must have one; a question mark of the name needs one too, as the query begins at
the first (`QueryCut`). `SecondWord` shows that the stream operator finds what stands between
the spaces, `SpelledDecode` that `urlDecode` gives the name back, by induction from
its end, and `FirstLineInPart` that a complete request has its whole first line. That the
method and the version are ones the server knows is not assumed: the request succeeds.
`SessionsKept`, `EchoesArrive` and `AnswersArrive` are about what goes back to the client, and
what comes back from it. They rest on what reading makes of something that was put
together line by line: `BlockParts` finds the blank line behind any block of lines and the
lines in front of it, `PartsAre` the parts between delimiters, `LastNamedIs` the header
that was meant, and `CookieFound` the cookie in a jar. `SessionsKept` is about requests
whose last `cookie:` line carries the session among any other cookies (`IsReturning`);
their names and values hold no semicolon and begin and end with no blank, and none of the same
name has another value. `EchoesArrive` is about any message. `AnswersArrive` is about messages whose name has no
line end in it (`IsAnswerable`), since `Location:` has it as it was decoded, and whose body is not longer than `MaxLength`, up to which a client counts
here. What TLC's `ToString` makes of a number is no more to the provers than
`Printed` says: different numbers are written differently, and never as a line end.
`UploadsArrive` is about messages whose `content-type` names a form, with the boundary
quoted or not, and whose body `IsUpload` describes: any text, the delimiter on a line of
its own, the part, a line end, the delimiter, any text; up to the second
the delimiter stands nowhere else, and the body is shorter than `WordSize`. The lines
of the part's header neither begin nor end with what trimming removes and hold no
line feed, the last `content-disposition` line names the file, quoted or plain, and the data is any
bytes. `BlockSplit` shows that the header ends at the first blank line whatever the
data holds, `PartLinesAre` that its lines are those written, `QuotedFound` and
`PlainFound` that the name is the one meant, and `FormParsed` that the delimiters
cut out this part and nothing of its neighbours.
The recursive definitions are functions over positions, and what they are for every
text is shown by `ForwardRecursion` and `BackwardRecursion` in `SequenceLemmas`.

`MethodHandlerProofs` proves `TypeOK` and `SessionsDistinct` for any documents,
requests, routes and clients. `Inv` adds that an upload that is open is a file of
the tree until another process replaces it, which call comes next for which
method, and that identifiers are made in order. `Implementation` proves that
`MethodHandler` implements `DocumentStore`, one step of the proof per system call,
among any steps of other processes. A DELETE is abstractly `Check` where `isDirectory`
finds no directory, and from there `Delete`, an answer or `TookItsPlace`; that each of these
comes behind a `Check` is `CheckedCalls`. It assumes `NamesAgree`: a URI names the same
path for GET, for DELETE and for a script. The code does not ensure that for every
configuration. `SmartPath` drops the last folder of the root where the URI begins
with the same letters, and `resolveCGI` puts the root in the place of the path of
the location; `handleDELETE` does neither. `OneRoot` shows that they agree where every
route has the same root and no path of its own and no URI starts with the name of
the root; `methods` has routes where they
agree although the roots differ.


Only model-checked: liveness and what rests on `ENABLED` (`live`, `StartupEnds`);
what holds only outside the first regime; and `ReadAsWritten` and `NeverMisread`, which compare with files written
out clause by clause: the tokenizer puts strings together, and the provers know nothing of
what a string is made of.

## 5. Not modelled, and why

* The logger: output only. The reasons of responses, dates, the pages of errors
  and listings: text that nothing else depends on. They are tokens.
* The words of a script's environment other than `CONTENT_LENGTH`, and the closing
  of inherited descriptors between `fork()` and `execve()`: straight-line code in
  the child, which `EventLoop` starts at `execve()`.
* Links, permissions to search a directory, and writes in place by other
  processes; the contents of a file that changes while it is read.
* Opening the configuration file, and the texts of the parser's errors.
* `poll()` returning an error, and `new` throwing.
* The registration of the signal handlers; `SIGPIPE` is ignored, so a write to a
  closed pipe or socket fails (`ClientWriteFails`, `CGIWriteDone`).
* Numbers beyond the width of a `size_t` in a `Content-Length` or a chunk size: the
  sums of the model wrap at `WordSize`, but no run reaches it. Control characters
  in the names of uploaded files.
* Sessions without end: the table grows with each request without a known cookie.
  `MaxSessions` bounds it; nothing in the code does.
