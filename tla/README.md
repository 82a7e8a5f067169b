# A TLA+ model of foxy

Foxy is a C++ library of HTTP sessions on Boost.Asio and Boost.Beast, with a TLS forward proxy,
a listener and a one-shot client built on them, and the text functions (URI grammar, percent coding,
UTF-8) they need. This directory holds a model of it: TLA+ modules translated from the code, TLC
configurations that check them on small instances, and machine-checked proofs for instances of any
size. `PROJECT.json` maps each definition to the lines it models and lists the runs, findings,
hazards and theorems.

## The system

| Part | State | Operations | Interacts with |
| --- | --- | --- | --- |
| `detail::async_timer` | per operation: `results`, `done`, the handler; one `steady_timer` per session | initiate, implementation completes, timer fires | every session operation |
| `basic_session`, `basic_client_session`, `basic_server_session`, `basic_multi_stream` | stream (plain or SSL), buffer, timer, options | read, write, request, connect, detect, handshake, two kinds of shutdown | `async_timer`, the peer |
| `detail::relay_op` | parsers, serializers, one 2 KiB buffer, `close_tunnel` | forward a request and its response | two sessions, `export_connect_fields`, `has_foxy_via` |
| `detail::tunnel_op` | parser, response, `close_tunnel` | read requests until one sets up a tunnel, is relayed or ends the connection | server and client session, relay, `parse_uri` |
| `foxy::proxy` | acceptor, one `stream_`, accept coroutine | accept, cancel; one `async_connect_op` per connection | tunnel, relay, sessions |
| `foxy::listener` | acceptor, strand, optional TLS context | accept, shutdown; one `server_op` per connection | server session, user's handler |
| `examples/https_server` | a shared request counter | clients that send requests, a handler that answers them | listener, sessions |
| `foxy::speak` | client session, request factory | connect, run the user's handler, shut down | client session |
| `uri.hpp`, `parse_uri`, `pct_encode`, `pct_decode`, `code_point_view` | none (pure) | | tunnel, user |

What is hard about it: a session has one timer for all its operations; a handler that is already
queued cannot be cancelled; a coroutine continues after the timer has closed its socket; a relay
moves bodies through one reused buffer and learns of errors between two writes; accept loops race
with their cancellation; a grammar written for unordered choice is run by a parser that commits to
the first alternative. What should hold: a handler runs exactly once and with its own result; a
deadline is a deadline; success means a usable connection; shutdown means a closed one, in stages on
a server; a relayed body is what was sent, and a connection over which it broke is not used again; each
request is dealt with once; no accepted connection is lost; loops end when told to, and only then; a text is
cut, encoded and decoded without loss.

## Modules

Sessions.

* `AsyncOp`: the promise. An operation that was started is reported once, with what its
  implementation produced.
* `TimedOp`: `async_timer`. Per operation `impl` (the composed operation), `results`, `done`,
  `calls` (invocations of the user's handler) and `wait` (the `async_wait`: none, armed, or queued
  as aborted or expired); `expiry` is the timer's remaining time. `Initiate` and `InitiateInline`
  are the initiating function, `ImplComplete` is `operator()(Args...)`, and `TimerRearm`,
  `TimerDeliver`, `TimerClose` are the three ways through `operator()(on_timer_t, ec)`. `cancel` and
  `expires_after` abort only armed waits, as Asio documents. A user may overlap operations
  (`Overlap`) and move the public timer (`Elongate`), or not. `Promise` is the refinement mapping
  to `AsyncOp`.
* `Session` extends `TimedOp`: each operation's coroutine is suspended in one primitive (`pc`),
  which is pending or queued with a result (`io`). Closing a socket aborts what is pending on it,
  but neither a name resolution nor a queued completion. `async_connect` closes and opens the socket
  anew for each endpoint, as `asio::async_connect` over a range does. A one-primitive operation
  (`Transfer`) stands for the message and header variants of reads and writes alike.
  `RunsUnderTimer` says that a session is an implementation of `TimedOp`.

The proxy.

* `HopByHop`: `export_connect_fields`, `has_foxy_via` and the edits of a header as operators on
  sequences of fields. Transfer-Encoding is the framing of the message in `Relay`.
* `Forwarding`: the promise of a relay to its peers. The receivers see a prefix of what was sent, a
  mark of its end only behind the whole of it or where the relay breaks off, and a connection is used
  again only after a complete exchange to which both senders agreed.
* `Relay`: `relay_op`. Both directions are the same actions, parameterised by the direction, since
  the code of the second is that of the first with the sessions exchanged. A body is a row of
  numbered units, so that a gap, a repetition or a leftover is visible. A header is its version,
  fields, framing and body length. What a receiver can see of the end of a chunked body is counted in
  `lastChunks`; Beast's serializer, which writes them, is external (`LastChunksOf`), and so is
  `keep_alive()`, which reads the first Connection field alone (`KeepAlive`). `ForwardsFaithfully` is `Forwarding` under a refinement mapping.
  `MCRelay` gives the fields for model checking.
* `Tunnel` and `Proxy`: `tunnel_op`, and the connection that alternates it with relays. They use the
  relay through its contract: an error or a request to close ends the connection, and a relay needs
  a remote to succeed. `remote` is the number of the request whose target the client session is
  connected to: a connect that fails in the name resolution leaves the remote of an earlier request in
  place, one that fails later does not.
* `ProxyServer`: the proxy's accept loop and `cancel` on a strand modelled as a queue.
* `ProxySystem`: the accept loop composed with one of the connections it hands out, any one.

Listener and client.

* `Listener`: the listener's loop and `shutdown` on its strand, and one `server_op` per connection.
* `HttpsServer` composes `Listener` with the program of `examples/https_server`: `request_handler` in
  every session, one `client_op` per connection, and the counter that decides who calls `shutdown`.
  A connection carries one request or one response at a time.
* `Speak`: `speak_op` with a handler that starts some operations and completes.

Text. A text is a sequence of code points or of bytes.

* `Peg`: Spirit X3 as the code uses it. A rule is a value, read in two ways: `Match` with the ordered
  choice and the greedy repetition of X3, `Derives` with the free choice of a context-free grammar.
* `Uri` and `UnicodeUri`: the two copies of the grammar in `uri.hpp`, every rule under its name.
  Beyond ASCII one letter, one digit and one hexadecimal letter stand for the Unicode classes.
* `Abnf`: the reference, the grammar of RFC 3986 that the code quotes, and the RFC's division of a
  URI into components.
* `UriParts`: `basic_uri_parts` and its predicates. `ParseUri`: `parse_uri.cpp`, with the rules as
  constants, since the code has it for both character types, and the parser that runs them as another.
  `PartsTile` says that the parts account for the text, `RulesInPlace` what that asks of the rules.
* `Utf8` and `PctCoding`: encoding and dereferencing of code points, the four encoders and the
  decoder. The per-code-point arithmetic is Boost.Locale's. A loop is a function of the number of its
  turns, and what a turn does a function of where the loop stands: TLC then works out the earlier turns
  before it starts on a turn, so that its stack holds little for each of them. The one question the coders ask of the grammar, whether a host starts with an address, is the
  constant `StartsWithAddress`.
* `CodedText`: a text that grows by the fragments of a family, and what the coders and the view promise
  of it.
* `UriText` extends it with the grammars and `parse_uri`, for families of URIs, addresses, characters and
  bytes.

Proofs: `TimedOpProofs`, `SessionProofs`, `RelayProofs`, `HeaderProofs`, `ProxyProofs`,
`HttpsServerProofs`, `TextProofs` and `PctProofs`; see below.

Definitions named after a mutation (their comment begins with "Mutant of") are deliberate faults,
which show that the property they are paired with in `PROJECT.json` can fail.

## Runs

| Run | Checks | States |
| --- | --- | --- |
| `SessionSolo` | every operation of both session kinds, one at a time, against all answers and timeouts: what it leaves behind, that its deadline is exact, that it ends | 2,258 |
| `SessionOverlap` | two operations that overlap on one timer which the user moves as well: one report each, with its own result and after its state is free, and no timeout before its time; that a session implements `TimedOp` and `AsyncOp`; the shutdowns | 128,742 |
| `RelaySafe` | one relay with every framing, Connection options of every kind and a failure at every step: the buffer, the header, the end of a body as its receiver sees it, the decision to persist, the refinement of `Forwarding`, and that it ends | 348,900 |
| `ProxySystem` | arrivals, failures and a cancel in every order, with all conversations of up to three requests of one connection | 24,516 |
| `ListenerLoop` | a listener with and without TLS, two clients with two requests each, failures of every operation, and a shutdown of the program's own beside the clients' | 136,005 |
| `SpeakRun` | a connect that may fail and a handler of up to four operations: the session is shut down in the end | 149 |
| `UriText` | both grammars against the ABNF and against each other, `parse_uri` against the RFC's division, the coders against the grammar and their inverses | 16,782 |

Five further runs show where the code and what is written about it disagree; TLC finds the
violation, and `findings` in `PROJECT.json` quotes the text.

| Run | What it shows |
| --- | --- |
| `TimedOpPingPong` | a read and a write that overlap restart each other's deadline for ever |
| `SessionConnect` | a timeout during the name resolution does not stop the connect that follows |
| `ProxyCancel` | a cancel that meets a queued completion is lost |
| `SpeakResults` | the handler is told the connect's result in place of its own operation's |
| `PctCase` | a pair whose second digit is an upper case letter is decoded to another byte |

### Behaviour that shapes how properties are stated

* A client's shutdown whose TLS closing handshake fails leaves the socket connected, so
  `ShutdownCloses` speaks of clients only on success.
* The keep-alive of an HTTP/1.0 message is not forwarded even when the tunnel persists, so
  `DecisionAnnounced` speaks of HTTP/1.1 there. A response delimited by the end of its connection is
  forwarded on a tunnel that may persist, since `keep_alive()` ignores the framing.
* `keep_alive()` looks at the first Connection field, and `export_connect_fields` takes all of them out: a
  close that stands in a second one is lost, although the comment at `relay.hpp:153-157` means to
  propagate it. What `RelayInv`, `DecisionAnnounced` and `ForwardsFaithfully` say of a sender's wish is said
  of its first field.
* A read of a chunked body that fails with nothing in the buffer is followed by a write of the empty
  buffer, of which Beast's serializer makes a last chunk: the receiver takes a part of the body for the
  whole. `EndMeansWhole` makes this exception, and says what the code does guarantee there: the relay
  reports no error, asks for the tunnel to be closed and writes nothing more. The same serializer puts two last chunks
  behind an empty chunked body, one for the empty buffer and one for the end, also on a tunnel that
  persists; any other body gets one.
* A field listed in Connection is taken out only if it is spelled as it is listed, so `OnlyEndToEnd`
  compares spellings.
* A malformed or unreachable request without keep-alive is answered with 400, and the tunnel then goes
  on to the TLS detection and a relay, since nothing on that path sets `close_tunnel`; hence the
  restriction of `RelayNeedsTunnel` to persistent requests. That relay reaches the remote of an earlier
  request, if the name resolution has failed.
* Any failed accept ends the listener's loop, so `ShutdownStops` is about how a loop ends and not
  about how long it lives. A client of `https_server` that fails leaves the shared counter short and
  nobody shuts the listener down, so `ProgramEnds` promises the end of the loop without failures only.
* The grammar differs from the ABNF quoted above its rules in a few places, which `Settled` leaves
  out and `RulesConform` states in one direction: `char_("+-.")` in `scheme` is a range and takes a
  comma; a host that begins with an IPv4 address ends there; the third and fourth alternatives of
  `ip_v6_address` take groups they do not give back, and the fifth has `ls32` in front of the groups;
  `ip_vfuture` takes a lower case "v" only; `path` never gets past `path_abempty`.
* `parse_uri` takes a name followed by ":" alone for a URI, and `is_authority` does not count an empty
  query or fragment; `ConnectTargets` lets both through.
* `encode_host` leaves ":" as it is, and the whole host if it begins with an address; no encoder
  touches "%". `EncodesFaithfully` and `EncodedFits` make these exceptions. Of malformed UTF-8 the iterator
  drops the offending byte together with the sequence it breaks, so `ViewIsExact` is about views
  that yield no error value.

### Bounds

* `Timeout` is 1 to 3 ticks: an operation can complete before, at and after its deadline, and a
  deadline moved part of the way is told from one that was not.
* Two operations on a session: the timer knows only "mine" and "another's". One operation can be
  started again and again, so sequences of calls are unbounded.
* `Cap = 2`, `MaxBody = 3`: bodies that are empty, shorter than the buffer, equal to it, and longer
  with a remainder. Eight lists of fields: no options, options in one and in two fields, in the
  spelling of the field and in another, and Via fields of this proxy and of others.
* `MaxRequests = 3`: one request rejected, one that connects, and one after it. `MaxArrivals = 3`: the
  loop's state repeats from the second on.
* Two connections with two requests each, and two shutdowns: a client that ends first and one that
  ends last, a request that persists and one that does not, and a shutdown that meets a closed
  acceptor.
* `Families` in `UriText`: URIs with each component present, absent or spoilt; IPv6 addresses whose
  two rows of groups have eight between them, more than an address may have with what surrounds them;
  octets at their limits; literals of a future version with each part present, absent or spoilt; all texts of three characters from the classes the rules
  tell apart; percent pairs and UTF-8 bytes, four at a time. The rules recur by repetition only. On the
  texts of up to `ShortText` = 12 characters each rule of `parse_uri` is tried at every position, to see
  that it is one `PartsAreTiled` may assume.
* `CHECK_DEADLOCK FALSE` in the accept loops, which stop when they have been cancelled, and in
  `UriText`, where a text that is complete has no successor.

### Fairness

Handlers that are queued run (an executor that is being run does that), time passes, and a timer
that is due expires. A peer owes nothing. A primitive that is pending on a socket is aborted when
that socket is closed. In `Session` the resolver answers and the operating system gives up on a TCP
connect. `Relay`, `Proxy`, `Listener`, `HttpsServer` and `Speak` assume that session operations
complete, with or without success: `OpsTimeOut` in `SessionSolo` justifies it for everything but
`async_connect` (see `SessionConnect`), for which the peer has to be assumed responsive. In `Proxy`
the client is also assumed to send something during `async_detect_ssl`, which the tunnel calls
without a timer. In `HttpsServer` a pending accept takes a connection that waits. Handlers of the
user are assumed to complete. No connection has to arrive and nobody has to call `cancel` or
`shutdown`.

## Proofs

All of these hold for every value of the constants that satisfies the assumptions named in the
modules: `Timeout`, `MaxBody`, `MaxArrivals`, `MaxShutdowns`, `MaxOps` are natural numbers, `Cap`, `MaxRequests`
and `num_client_requests` positive ones, `NoResult` is no result, `Overlap` and `Elongate` are Booleans,
the operation kinds and result codes of a session are among those the code has, `Codes` has `"ok"`,
field lists are sequences of fields, and the fragments of `Families` sequences of code points. Sets of operations and of connections are arbitrary; the clients of `HttpsServer`,
which share a counter, are finitely many.

* `TimedOpProofs`. `Coherent` lists, for one operation, the combinations of `impl`, `results`, `calls`,
  `done` and `wait` that can occur; with `TypeOK` it is inductive (`AlwaysCoherent`), one step per
  action. That the handler is called once (`HandlerCalledOnce`) is not inductive by itself: it depends
  on `done` being set exactly when one half has finished. `StateFreed` and `ClosesOnlyInFlight` follow
  too. `DeadlineIsKept` needs two more invariants for users that do not overlap operations and leave
  the timer alone: at most one operation is pending (`OnePending`), and a wait is aborted only by its
  own completion (`AbortedOnlyWhenDone`). `NeverTimedOutEarly` needs neither: `NeverEarly`
  is inductive with the types, since whoever moves the deadline aborts every armed wait, and an aborted
  wait is armed again with the full timeout. `WrapperKeepsPromise`: `TimedOp` implements `AsyncOp`.
* `SessionProofs`. Every step of a session is a step of `TimedOp` or leaves its variables alone
  (`SessionRunsUnderTimer`), and so what was proved of the wrapper carries over
  (`SessionKeepsPromise`, `SessionClosesOnlyInFlight`). `SessionInv` adds what the stream and the
  coroutines need. `StreamInv`: only a TLS shutdown sees a truncated stream, a server never connects, and
  it reads its last only behind the half close; from this `ServerTeardownStaged` follows.
  `CoroutineInv`: for each place a coroutine can be suspended at, which function it is of, what the
  timer's close has left of its socket and what is still queued for it. What an operation leaves behind
  is true only of some users, and the theorems say of which: `CutStaysClosed` and `ShutdownStaysClosed`
  where no other operation may connect the socket anew (`NoRevival`: servers, sessions that do not
  connect, and single operations), however many overlap; `OkIsConnected` for one operation at a time (`OneOp`), since another one's timeout may take the socket from a connect
  that has succeeded. Both conditions are needed in the induction, not only in the conclusion.
  Of `Speak`: from the first call on the handler was told exactly the connect's result, whatever its
  operations returned (`SpeakKeepsInvariant`).
* `RelayProofs`. `BodyInv` is inductive (`BodiesPassInOrder`) because it says, for each place a coroutine
  can be suspended at (`Suspended`), what parser, serializer and buffer hold there: the buffer holds
  exactly the units between what was sent and what was read, and the other direction is untouched or
  finished. Of a chunked body no last chunk is out while the coroutine is suspended in its direction, so
  that one that comes too early is the relay's last write. Order, completeness and persistence (`SentInOrder`, `EndMeansWhole`, `PersistMeansWhole`) are
  not inductive without it. `RelayForwardsFaithfully` maps each step to one of `Forwarding` or to a
  stutter.
* `HeaderProofs`. `HeaderInv` says with which decision to close each header was rewritten and when that
  decision is made, by the first Connection field of either message; with `BodyInv` it is inductive (`RelayKeepsInvariant`). Of `export_connect_fields`
  and lists of any length: `ExportPicks` (what stays is the other fields, each once and in order), and of
  the header that the relay composes of it: `ComposedInherits`, `RewrittenFacts`. Together they give
  `ForwardedOnce` (`NoSecondPass`), `EndToEndFieldsPass` (`OnlyEndToEnd`) and `DecisionIsAnnounced`
  (`DecisionAnnounced`).
* `ProxyProofs`. `SystemInv` is inductive. In the loop, `StreamOwnedOnce` and `LoopAlive` need each
  other: the handlers on the strand that resume the loop are at most one, and none while an accept is
  pending; the lemmas say what posting and running a handler does to the queue. In a connection,
  `ConnectionInv` says what is owed where it is suspended. `TunnelHandlesEveryRequest`,
  `RelayFollowsTunnel` (to the remote the request has named) and `ClosedTunnelStaysClosed` follow from it. Of `parse_uri`, which finds the
  target of a tunnel: `PartsAreTiled`, for a text of any length and any rules for which `RulesInPlace`
  holds. Each stage of the parse is a lemma that says where it stands and which parts it has cut
  (`SchemeFacts`, `HostFacts`, `PortPathFacts`, `TailsFacts`), and `PartsAssemble` puts them together,
  once for each of the three ways through the code. `ConnectTargetIsWhole` adds `is_authority`: the host
  and the port a CONNECT leads to are all of its target. That the rules of the grammar are in place is
  checked by `PartsFaithful` in `UriText`.
* `HttpsServerProofs`. `ListenerInv` is inductive by the same argument on the listener's strand, where the
  queued handler also carries the connection (`ListenerKeepsInvariant`). The program drives the listener by the listener's own steps
  (`ProgramImplementsListener`), so that the invariant holds in the composition. `InTurn`, which says where
  the handler is while the client waits, makes `LastIsAgreed` inductive (`ProgramKeepsInvariant`,
  `EndsAgreeOnLast`). `CountInv` says that the shared counter is the number of all responses: each step
  adds one pair of client and number to the set of responses or none, and a set of pairs as large as the
  whole is the whole, so that a shutdown by a client comes behind everybody's last response
  (`StopsBehindLast`).
* `TextProofs`. Loops over data of any length. `Induction` and `Recursion`, from the well-foundedness of
  the natural numbers, are stated over sets and functions up to a bound, the form in which the provers can
  apply them; a loop is a recursive function of the number of turns taken, and `SinkFacts` says what the
  loops that write to an output iterator have in common. Of UTF-8: `DerefInvertsEncode` (dereferencing an
  iterator at the encoding of any code point gives that code point and moves past its bytes, whatever
  surrounds them), and its converse `DerefExact`; by induction over the turns, `ViewInverts` (the view of
  the encoding of any code points is those code points) and `ViewExact` (any bytes whose view has no error
  value are the encoding of it). The two are the halves of `ViewIsExact`.
* `PctProofs`. The coders, for texts of any length from any families. `TextTyped` gives the texts their
  type; the rest is induction over the turns of the loops. `EncodesFaithfullyAlways`: an encoder writes
  each byte of its code points as itself, when it is no "%", or as a pair, and the decoder gives back
  whatever is spelled so (`DecodesSpelling`). The code points may be those a view yields for malformed bytes. `DecodesPairsAlways`: the
  decoder stands, after each turn, at the first unit of the text it has not written, or at a "%" that
  begins no pair, where it stays (`TurnDenotes`, `DecodesDenoted`); what it has written is then what
  `Denoted` says of the text in front of it. `ViewIsExactAlways` joins the two halves from `TextProofs`.

Model-checked only: everything under fairness (`OpsTimeOut`, `RelayEnds`, `ConnectionEnds`,
`ShutdownStops`, `ArrivedIsServed`, `ProgramEnds`, `SpeakEnds`), which is beyond the prover; and what is
said of the grammars (`RulesConform`, `UriConforms`, `WideAgrees`, `ConnectTargets`, `EncodedFits`, and in
`PartsFaithful` that the rules are in place and the RFC's division of a URI), since the interpreters of
`Peg` recur over rules and texts and the prover's SMT backend does not take recursive operators.

## Not modelled

* OpenSSL and certificate set-up (`certify`, `make_ssl_ctx`, SNI and host name verification): they
  configure a library and keep no state of foxy. Name resolution beyond success and failure.
* Object lifetimes: the user keeps a listener, a proxy and a session alive while their operations run.
* The contents of bodies and the wording of responses. In `HopByHop` a field's value is the set of its
  tokens, so that the search of `has_foxy_via` for a substring is not told from one for a token.
* The proxy's connection uses the relay by its contract and not by its actions: `Relay` alone has 348,900
  states for one exchange, and `RelayForwardsFaithfully` is what the connection relies on.
* Copying and swapping of code point iterators; Unicode classes beyond four sample characters.
* The other examples, which are straight-line clients and handlers of the shape already modelled; the
  vendored `allocate_unique`, logging, error categories, type traits and build units.
