# TLA+ models of soyokaze

soyokaze is a Rust library that serves and fetches HTTP/1.1, HTTP/2 and HTTP/3
(and WebSocket over each of them). This directory holds TLA+ modules
translated from its source, TLC configurations that check them on small
instances, and TLAPS proofs of what holds for every instance. Source paths below
are relative to the repository; those without a directory are in `src/src`.

## 1. Inventory

### Components, their state and how they meet

| component | source | state it keeps | operations | modules |
|---|---|---|---|---|
| gate | `api/gate.rs` | atomic total, per-address tallies and rate history behind a lock | `admit`, `release` (drop of a `Permit`), `sweep` | `Admission`, `Gate` |
| listener and server | `api/server.rs` | the negotiation queue of each port, the permits of connections in negotiation, the accept-loop and connection tasks, the shutdown watch | `accept`, `launch`, `close`, `drain` | `Server` |
| cluster | `api/cluster.rs`, `server.rs` `run` | worker threads, ready channel, shutdown channel | `run`, `close` | none |
| client | `api/client.rs` | cookie jar, HSTS store; it pools no connections | `fetch`, `websocket`, `dial` | `Client` |
| HSTS store | `hsts.rs` | hosts and their expiry, bounded | `learn`, `secure`, `prune` | `HSTSStore` |
| cookie jar | `cookies.rs` | cookies, bounded per domain and in all | `learn`, `cookie`, `prune` | `CookieJar` |
| HTTP/1 connection | `protocol/h1.rs` | the FIFO of pipelined exchanges, `closing`, the read buffer | `send_message`, `receive_message`, `reject`, `close` | `H1Framing`, `H1`, `H1Grammar` |
| HTTP/2 connection | `protocol/h2.rs` | stream map, settings and windows of both sides, stream ids, GOAWAY state, abuse counters | `send_message`, `receive_message`, `pump`/`handle`, `reset`, `close` | `H2Connection`, `H2Peer`, `H2Pair` |
| HTTP/2 tunnel relay | `protocol/h2.rs` `drive` | one stream of a connection as bytes | `drive` | none |
| HTTP/3 connection | `protocol/h3.rs` | session (streams, buffered octets, GOAWAY), worker (outbound octets per stream, blocked writes), command and event channels | session `on_*`, worker `execute`, `process_reads`, `process_writes`, `wind_down` | `H3Worker` |
| QUIC transport | `protocol/quic.rs` | endpoints and their demultiplexing | wraps an external implementation | partly in `H3Worker`, `Addresses` |
| HPACK | `helpers/hpack.rs`, `helpers/fields.rs` | dynamic table, pending size updates | encode, decode, resize | `FieldTable`, `HPACK`, `WireInteger` |
| QPACK | `helpers/qpack.rs` | dynamic tables, sections awaiting acknowledgement, blocked sections | encode, decode, instructions of either stream, cancel | `FieldTable`, `QPACK` |
| WebSocket | `websocket.rs` | reassembly, close state, read buffer | handshake, `send`, `receive`, `close` | `WebSocket`, `WebSocketFrames` |
| messages | `models.rs`, `finalizer.rs`, `helpers/compression.rs`, `protocol/common.rs` | field sections with presence bits, bodies and the coding they are in | `append`, `insert`, `remove`, `compress`, `decompress`, `finalize`, `Fields::write`, `into_message` | `Messages`, `Exchange` |
| wire formats | `protocol/*/frames.rs`, `helpers/{huffman,scan,base64,sha1,text,fields}.rs`, parts of `models.rs`, `tls.rs`, `cookies.rs`, `hsts.rs` | none | encode, decode | `H2Frames`, `H3Frames`, `WebSocketFrames`, `H1Grammar`, `Huffman`, `Octets`, `Addresses`, `Codecs` |
| buffer, limits, deadlines, locks | `protocol/common.rs`, `helpers/*` | bytes read and not yet consumed | `fill`, `take`, `reclaim`, `within` | `Octets` (`Buffer`), others where they matter |
| responses, errors, TLS settings | `responses.rs`, `errors.rs`, `tls.rs` | values | constructors, conversion | none |
| bindings | `ffi`, `python` | handles onto the above | wrappers | none |

A server's listeners put every accepted connection to the one `Gate`, negotiate
it in a task of its own, and hand it with its permit to the accept loop, which
spawns the connection's handler; the handler speaks through the `Connection`
trait, behind which sit the H1, H2 and H3 connections. H2 and H3 compress
header sections with HPACK and QPACK, whose state has to stay in step with the
peer's. The H3 connection is a task of its own, driven through channels. A
message is finalized, coded and put in fields by the connection that sends it and
taken apart by the one that receives it, at every hop. A client's tasks share its
cookie jar and HSTS store.

### What is hard here

* admission by an atomic and by a lock taken one after the other, from several
  threads;
* cancellation: sends and receives run under timeouts that may drop the future at
  any await, after part of the state has changed;
* streams whose life both endpoints change at once: resets, GOAWAY and
  END_STREAM crossing in flight, ceilings counted by each side;
* flow-control credit, spent by one side and granted by the other;
* compression contexts that have to agree while sections are lost, blocked or
  reset, under table sizes that change;
* framing that depends on which request a response answers, when requests are
  pipelined and answers may be interim;
* channels of bounded length between a worker and its application, both of which
  may be waiting for the other;
* counters of what is buffered, that each path has to maintain;
* octets that arrive cut anywhere, and functions that work eight at a time;
* shutdown racing accepts, handshakes and connections in progress.

The lines where each of these bites are the hazards of `PROJECT.json`, with the
properties that would notice.

### What makes each part correct

| part | what must hold |
|---|---|
| gate | counters count exactly the live permits; no limit is exceeded; slots come back; a window never admits more than its count |
| listener and server | a permit lives exactly as long as its connection; nobody negotiated is lost; `close` ends with nothing running |
| HTTP/1 | both ends frame every message alike; an interrupted exchange does not shift the rest |
| HTTP/2 | messages arrive whole and once; credit is conserved; streams are never reopened, and are forgotten by both ends; no end accuses a peer that runs the same code; every request is answered |
| HTTP/3 | nothing is lost or reordered; counters of buffered octets are exact; GOAWAY draws one line; winding down cuts nothing short |
| HPACK, QPACK | what is decoded is what was encoded; tables agree; what blocks waits for something on its way |
| WebSocket | fragments reassemble in order under the limits; one close in each direction, and it ends |
| client, HSTS store, cookie jar | no host that insists on security is fetched from in the clear; cookies are sent as they were last said; bounds are kept, and only what must be dropped is |
| messages | lookups miss no field; what arrives says what was sent, and describes its own body; nothing is sent that a peer has to refuse |
| wire formats | how octets are cut makes no difference; what is written is read; fast and slow ways agree |

## 2. The modules

Each module's head says what is abstracted and to what. In every module,
definitions whose comment begins with "Faulty" are plausible mistakes that no
specification uses; they are what each property is tried against.

### Admission and Gate: `api/gate.rs`

`Admission` is what a gate promises: a set of permits, `Admit` only where there
is `Room`, and `Drop`. `Gate` is the code, and implements it. Its variables are
the atomic total (`connections`), the tallies and the rate history of the locked
state, and for each connection where it is in `admit` or `release` (`pc`) with
its locals. Each atomic access is an action, and so is each critical section:

| actions | code |
|---|---|
| `LoadCount`, `RefuseAtCapacity`, `TakeSlot`, `RetrySwap` | the load and the weak compare-and-swap of `admit` |
| `AdmitUnaddressed`, `AdmitAddressed`, `RefuseOverIp`, `RefuseOverRate` | the critical section, with `rate` and `bound_history` |
| `Refund` | `fetch_sub` after the lock is dropped |
| `ReleaseSlot`, `ReleaseTally` | the two halves of `release` |
| `Sweep` | `sweep` |

Time is a clock of whole ticks; `duration_since` saturates, as in the code. With
`Prompt` an attempt is judged within the tick it was made in: without it an
attempt that was delayed between `Instant::now()` and the lock can be judged
after later ones, and the code makes no promise about that. The atomics are
sequentially consistent in the model, which is sound for one location. The total
has no width: reaching 2^32 connections needs `max_connections = 0` and more
connections than a machine can hold. Which of several records with equal fronts
is evicted depends on a hash map's order, so `Bounded` is a set of outcomes.

### Server: `api/server.rs`

`Server` is built on `Admission` (`Gate == INSTANCE Admission`, sharing
`permits`). A connection goes through `stage`: admitted; negotiating in a
detached task; negotiated or failed, its outcome in `queue` of its port; taken by
the accept loop; running; gone. `loop` is how far a turn of each port's loop has
come. It looks once whether the queue has a place (`Look`) and waits for the
socket as well only if it has, while negotiations end and outcomes are queued;
what arrives is put to the gate (`Accept`, `Refuse`), and only then is the place
reserved, or the connection refused after all and its permit dropped (`Place`).
The loops end when the watch changes or loses its
sender (`Stop`), or when accepting fails (`AcceptFails`), and take the outcomes
queued with them; outcomes that arrive later stay in the closed channel until
the last negotiation that holds a sender of it ends, as they do in Tokio's
channel. `handle` is where the owner of the `ServerHandle` is: serving, in
`close` (waiting for the loops, draining under the lock, aborting, closed), or
having dropped it. When the handle and all loops are gone the `JoinSet` goes, and
aborts what still runs.

### H2Connection, H2Peer, H2Pair: `protocol/h2.rs`

`H2Connection` is one end: `conn[e]` holds the fields of the Rust struct, and
what its one task is doing (every operation takes `&mut self`). Each action runs
the task from one place where it can wait for the peer to the next, so that
`HandleData`, say, is the whole arm of `handle` with everything it calls:
accounting, credit, `complete`, `retire`, and what `receive_message` or
`write_data`, whichever was waiting, does with the outcome. Header blocks are
abstracted to the kind of message they decode to, bodies to their length, and
frames queued count as sent. `out` is what the last step queued.

`H2Peer` puts an end against a peer that may send any frame of a set at any time
and a caller that may do anything its interface allows. `H2Pair` puts a client
against a server that runs the default `Handler::on_connection`, over an ordered
transport (external), with resets and deadlines; an end whose deadline passed only
closes its connection.

### H1Framing, H1: `protocol/h1.rs`

`H1Framing` is how a message's body is delimited and what of a head is refused:
lengths, codings, versions, methods and statuses that have no content. `H1` puts
`H1Connection` at both ends: a client that pipelines a plan of requests, and the
loop of a handler that takes up to `ahead` of them before it answers one. What is on
the wire is a sequence of heads and of parts of bodies, so a disagreement about
framing shows as a part where a head was to be. A receive waits before each item;
a send may be cut by its deadline at any item; either then fails and the
application lets the connection go.

### FieldTable, HPACK, WireInteger: `helpers/hpack.rs`, `helpers/fields.rs`

`FieldTable` is the dynamic table (newest first, evicted by size). `HPACK` is an
`Encoder`, the `Decoder` its blocks reach in order, and SETTINGS that bound the
table anew, acknowledged between blocks. Octets are abstracted to representations.
`WireInteger` is the prefixed integer both compressions write, in words and groups
of any width, with the bits a last shift drops.

### QPACK: `helpers/qpack.rs`

One direction: encoder, decoder, and the streams between them, which QUIC
delivers in order each and in any order to one another. `peer` says whether the
encoder is the code's or any that keeps to RFC 9204 (which may name entries that
are not acknowledged, and may count from where a section began: a base below or above
the insert count, and post-base indices). The required insert count travels modulo the
table's range. With `Retires` the session forgets sections as `H3Session::retire` does.

### H3Worker: `protocol/h3.rs`

A server's worker and session, the application at the other end of the bounded
channels, and a peer that sends what `Script` says, gives credit octet by octet,
resets, stops and leaves. A pass (`ReadStream` to `Flush` and `wind_down`) is as
many actions as the driver makes calls, and the application and the peer act
between them.

### WebSocket: `websocket.rs`

Two `WebSocketConnection`s over one HTTP/1.1 connection: the handshake with
octets that follow it closely, fragments with control frames between them, the
limits of a message, and the closing handshake with its `linger`. A write waits
while the transport is full (`Room`).

### Client, HSTSStore, CookieJar

The stores as functions over a clock, with every entry they drop; and several
tasks that fetch through them, each by the time it began at, and each locking
either store for one call at a time.

### Messages, Exchange: `models.rs`, `finalizer.rs`, `helpers/compression.rs`, `protocol/common.rs`

`Messages` is field sections with their presence bits, content codings and
qualities, `compress` and `decompress`, the finalizers, and `Fields::write` and
`into_message`, which put a message in a field list for HTTP/2 and HTTP/3 and
take it out. A value is a list of entries with parameters; a body is how many
octets its content has and the codings applied to it. `Exchange` sends a message
over a hop, HTTP/1 or binary, where it is answered or sent on as a proxy does,
and the answer back; and lets any conforming implementation ask or answer.

### Codecs and the formats under it

`Codecs` reads wires as connections do: octets arrive in pieces and what is whole
is taken off the front, by the parser of its module. `H2Frames`, `H3Frames` and
`WebSocketFrames` are the frame layers with the handshakes and settings they
carry; `H1Grammar` is lines, field sections and chunks with their limits;
`Huffman` has the real code table and both decoders, and the strings that HPACK and
QPACK write in it or not (`StringLiteral`); `Octets` is base64, SHA-1's padding and
schedule, the word-at-a-time scans, small texts kept in place and every way to make
one, the octets of names and the marks that tables search them by, and `Buffer` with
its ramp of chunks and what it gives back; `Addresses` is URLs, authorities, dates,
the text of `Cookie`, `Set-Cookie` and `Strict-Transport-Security`, which ports a
server opens, and how two ends settle on a version (ALPN, the preface, QUIC).

## 3. The runs

| run | what it shows |
|---|---|
| `gate_slots` | slots are conserved and `Gate` implements `Admission`; no window admits more than its count; the history keeps to its cap and to the connection just admitted; a sweep changes no verdict; every attempt comes to one |
| `server_serve` | permits follow connections, places suffice, every negotiated connection gets its handler, `close` ends, with nothing running |
| `h1_pair` | both ends frame every message alike, and the final response that announces the close is the last of a handler that does not read ahead; every request is answered unless an end lets go |
| `h2_streams` | no stream comes back, at either end; a body whose stream is reset while it waits for credit is not written on |
| `h2_pair` | messages whole and once, credit conserved, streams agreed on, no false alarm, all answered |
| `h3_worker` | octets buffered are counted, nothing is lost or reordered, GOAWAY draws one line, the connection winds down unless a tunnel is stranded or reset (section 6) |
| `hpack_pair` | blocks decode to what was sent and the tables agree, whatever SETTINGS come between |
| `qpack_pair` | sections decode to what was sent; what blocks waits for an insertion on its way, and the code's encoder blocks nobody |
| `ws_pair` | messages arrive whole and in order; one close is the last frame of each end; every close ends that does not wait to write to an end that reads nothing |
| `client_fetch` | hosts are insisted on and cookies sent as last said, whatever overtakes what; stores keep to their ceilings and drop only what they must |
| `exchange` | no lookup misses a field; what arrives says what was sent; a coded response is what was asked for; no end refuses what the other may send |
| `codecs` | cuts make no difference; what is written comes back; texts have one spelling; words work as octets do; two ends run one version, and every port that opens can be reached |

Statements of the code's documentation that the code does not keep are no part of
a run; section 6 says which change to which configuration shows each.

### Bounds, and why they are enough

* `gate_slots`: three connections, two from one address and one from another or
  from none, against a total of one, one per address, and rates of one a tick and
  two in two, over four ticks: both limits bind while a refusal and a drop are
  under way and attempts age out of each rate. On whole ticks it is the first that
  refuses; the second makes what is remembered outlast it, so that pruning and the
  sweep go by another period than the verdict does (that each of several rates is
  kept, whichever binds, is `RatesAreHonoured`). Two addresses against a history of
  one make it evict. A history that evicts forgets, so
  `RateHonoured` speaks of as many addresses as it may remember.
* `server_serve`: four connections at two ports, two of them from one address and
  one with none, under a total of two, one per address and two places to a
  listener. Two loops race for the lock, a queue fills, and places come free.
* `h1_pair`: nine plans of two or three requests that mix methods, lengths,
  codings, versions, expectations and closes, with answers that are sized, chunked,
  coded, or without content; bodies of up to three octets against a `MaxBody` of two.
  Any message may be cut at any item. The handler answers before it reads on
  (`ahead = 1`), as the default loop does, or takes two requests first (`Ahead = 2`);
  of the second `CloseIsLast` says nothing. A coded answer that is not chunked is one
  the client refuses (section 6), and both connections end there.
* `h2_streams`: two streams at most are allowed and a third is tried; windows of
  two octets, bodies of three and a buffer of two make credit run out and limits
  bind; each abuse counter has a limit of one. The frames the peer may send are
  listed in `MCH2Peer`: each arm of `handle` has one, on a stream that exists, that
  was never opened, and that is gone.
* `h2_pair`: three requests, two at a time, with bodies of 5, 2 and 3 octets, one
  with trailers, against a window of 2; answers of 3. So both ends wait for credit
  at the same time, requests arrive while an answer is being written, and the third
  stream needs the first to be forgotten at both ends. Deadlock is checked:
  `Done` is the only way to stop.
* `h3_worker`: a request whose section is blocked and a tunnel; channels of one
  slot each, a buffer of one octet against answers of two, a ceiling of two
  streams, a GOAWAY after one request, one stream that the peer may reset or stop
  and one that the application may, and a tunnel whose halves end in either order,
  the peer's before the Tunnel command too (`HalfCloses`). Every channel and the buffer fill. With one
  slot for commands a write of a tunnel cannot be queued before the response that
  opens it was taken, and it must not be (section 6).
* `hpack_pair`: four blocks over tables of zero to three units, with two changes of
  the bound; entries of one and two units, one never kept, one static.
* `qpack_pair`: two streams of two sections over a table of two units, so that four
  insertions evict and the insert count wraps (its range is twice the entries); one
  stream may block. The longer list names a field twice and a name three times, so that a peer's
  section has post-base indices of fields and of names, a negative base where it is
  the second of its stream, and a base beyond its count. Streams are interchangeable.
* `ws_pair`: messages whole, in two and three fragments, too large, of too many
  fragments though not too large, misused, not UTF-8; a transport of two frames each
  way, so that writes wait and both ends may wait on each other; and a close of either
  end at any point.
* `client_fetch`: three fetches by two tasks of a host, its parent, its sibling and
  an address, under ceilings of two entries and two cookies, one to a domain, with
  policies and cookies of one to three ticks, for three ticks.
* `exchange`: one or two hops, each HTTP/1 or binary, and one edit; requests and
  answers with every kind of body and every form of `Accept-Encoding`; field lists of
  another implementation that break one rule each. HTTP/1 hops are plain and
  binary hops secure.
* `codecs`: octets of 16 values, but of 256 in Huffman; frames of every kind with
  each flag; headers of every kind with payloads of a wrong length; cuts after one
  octet or two, then the rest; words of four octets of four bits, whose borrows
  behave as those of eight of eight do; buffers of up to eight octets read into in
  one piece or many; every `Cookie` field of four characters, cookies with each
  attribute, and up to three directives of a policy in any order. `SetCookie::build`
  checks the name and the value and takes attributes as they are: those of the
  instance have no separators in them.

`CHECK_DEADLOCK FALSE` is where everything may really stop: a closed connection or
server, an application that has no more to ask, a wire that has all arrived.

### Fairness, and why the code justifies it

* `Gate`: a thread inside `admit` or `release` runs on (weak); of the swaps that
  could succeed, one eventually does (strong), since a failure means that another
  thread succeeded, and spurious failures do not last. Connections need not
  arrive, permits need not be dropped.
* `Server`: negotiations end, by `handshake_timeout`, which is taken to be set;
  loops take what is queued (weak); `select!` polls its ready branches in random
  order, so a loop that is busy still sees the watch (strong, on `Stop`); `close`
  was given a timeout. Handlers need not return and connections need not arrive.
* `H2Pair`, `H1`: the transport delivers, and both tasks are polled when they can
  go on (weak). Deadlines, resets, interim answers and the choice of what the
  client does next are not fair, and `AllAnswered` excepts what they cut short.
* `H3Worker`: the driver runs its passes and the application uses what it is given
  (weak); the peer ends what it began, gives credit and leaves, and finds the driver
  between passes again and again (strong). The property is about a connection
  whose peer does that; resets and stops need not happen.
* `WebSocket`: each end goes on with the call it is in (weak), and an end that was
  told to stop closes. `linger` is bounded by its timeout; a write is bounded by
  nothing, and no application need read.

## 4. What is proved

`GateProofs` proves, for any finite sets of connections and addresses and any
limits (`GateAssumption`):

* `TypeCorrect`: the variables keep their types, so the total, changed without a
  lock, never falls below zero;
* `SlotsAreConserved`: total and tallies are the cardinalities of the sets of
  connections that hold a slot;
* `CeilingsAreKept`: live permits never exceed either limit;
* `ImplementsPromise`: `Gate` implements `Admission`, with `permits` refined to
  the addresses of the connections in stage "held";
* `HistoryIsKept`: `LimitsAdmit => (Spec => HistoryKept)`, the history stays within
  its cap and keeps the address just admitted;
* `SweepIsInvisible`: a sweep changes the verdict on no address, now or later;
* `RatesAreHonoured`: `Prompt => (Spec => []RateHonoured)`, while no address had to
  be forgotten none is admitted more than `count` times within any `period`.

The first four on one inductive invariant, `IInv == TypeOK /\ SlotsConserved /\
CeilingInv`. `SlotsConserved` alone is inductive only with the types; the
ceilings need `CeilingInv`: the counters are within the limits, a pending swap
was loaded below the ceiling (which is why a swap that succeeds stays within
it), and a connection that is giving its tally back has an address. The proof
has a lemma for what a move between stages does to the two cardinalities
(`MoveCounts`, `MoveCharges`), a lemma for each action that changes a counter,
and one for all that do not. For the refinement, a connection about to be
admitted is counted already while its permit is not alive, which is the room
`Admit` asks for.

The last three use of `IInv` only the types, and two assumptions about the
constants. `LimitsAdmit`, that no limit has a count of zero, is needed because only
an admission bounds the history: where a refused address has a record already a
refusal adds none (`RefusedIsRemembered`), but a limit of zero refuses addresses
nobody knows, and leaves an empty record of each. `Prompt`, that an attempt is
judged in the tick it read its `now` in, is needed because a record is pruned by
the time the attempt carries: one that stalls is judged by a time that is past.

What pruning does is stated by `Drops`: a number k of entries goes such that those
are stale and the next is not. There is one (`SomeDrops`), it is the one `Prune`
takes (`PruneDrops`), and so pruning early makes no difference later (`PruneTwice`),
which is all there is to `SweepIsInvisible`. `RateHonoured` is not inductive, as a
verdict is given by a record and not by the connections. It is strengthened by
`RecordsSuffice`: from any time no more than the longest period ago, an address's
record has at least as many entries as connections of it were admitted. Pruning
keeps it (`PruneKeepsRecent`), an admission adds one to both sides
(`SinceAppended`), an eviction is excluded by the premise of `RateHonoured`, and an
admission that finds fewer than `count` entries therefore finds fewer than `count`
connections. The longest period is a greatest number and `k` a least one; they exist because
`<` on the naturals and strict inclusion of finite sets are well-founded, which the
library proves and which needs no induction here.

`ServerProofs` proves, for any finite set of connections, any ports and any
limits (`ServerAssumption`):

* `PermitsFollowConnections`: a permit is alive exactly as long as its
  connection, whichever way it ends;
* `PlacesAlwaysSuffice`: the place a listener saw free before it waited is free
  when it reserves it, so that no admitted connection is refused for want of one;
* `ClosingIsFinal`: when `close` returns nothing runs or is about to;
* `TypeCorrect`.

The invariant is `IInv == TypeOK /\ PermitsFollow /\ QueuesOwn /\ CloseInv /\
PlacingOne`. `CloseIsFinal` is not inductive: it needs that a connection that was
taken is with a loop that is about to spawn it, and that the tasks are only locked
once every loop has ended. `QueuesOwn`, that a queue holds outcomes of its own port
only, is what keeps the first of these when a loop takes one. `PlacesSuffice` needs
two things beside `IInv` (`SeenFree`): that a loop which waits for the socket still
has the place it saw, since negotiations only turn reservations into outcomes
(`FreeLasts`, which counts the set of negotiations by which reservations are
modelled), and that one connection at most is being placed at a port
(`PlacingOne`). None of it depends on how the gate decides: `Admission` is used
for what `Admit` and `Drop` do to the permits.

`H2ConnectionProofs` and `H2PeerProofs` prove, for any limits (`H2Assumption`), any
frames the peer may send and any messages the caller may give (`PeerAssumption`
says they are frames and messages):

* `EndsKeepTheirType`: `Spec => []H2Inv`;
* `NeverReopenedHolds`: `Spec => []NeverReopened`;
* `SilentOnceGoneHolds`: `Spec => SilentOnceGone`.

`H2ConnectionProofs` is about one end, whoever drives it. Every action is shown to
be `Lawful`: the end becomes something of its type whose numbers only grow, a
stream that is new has a number past those its side had counted (`Newly`), and a
frame that is queued is on a stream that was there (`Truthful`). `NeverReopened`
is not inductive, for a stream that is gone leaves no trace; `Forgotten` says
where its number went: below `highest_peer_stream_id` or `next_stream_id`, which
`Newly` never goes back behind. `Steady` is what the steps need of one another: an
operation that failed is over, a body being written has its message, and a field
block that was begun is on a stream that is there and ends before anything else.

`H2PairProofs` proves of a client and a server against each other, for any requests,
answers, limits and windows (`PairAssumption`):

* `CreditConservedHolds`: `Spec => []CreditConserved`, on the connection and on every
  stream both ends know;
* `PairTypeHolds`: `Spec => []H2Inv`.

What an end does is an account (`Accounted`): what it took off its wire and queued
makes up for what its windows gained and lost (`Balanced`), and it speaks only of
streams it has counted (`Told`). Every action of `H2Connection` keeps one, also where
it fails the connection, for then `Well` is over for good. Most of them are layers
of few moves, and `Shrunk` and `Became` say what such layers leave of the windows.
From an account of one end follows the balance of the pair (`AccountKeeps`), by the
octets under way: `Amount` is the cardinality of a set of octets, so that what two
sequences carry behind each other is what both carry (`AmountConcat`), which with a
recursive sum could not be proved here.

`CreditConserved` is not inductive, because a stream that one end opens is
known to the other only when its first frame arrives, and by then credit has been
spent on it. `PairInv` adds three facts: both ends give back what they take, so their
windows stand as they began and every SETTINGS on the way confirms them (`Standing`);
an end is only told of streams the other has counted (`Numbered`); and on a stream
the other has yet to hear of nothing was granted, and what was spent is on its way
(`Unheard`). `Newly` of `H2ConnectionProofs` is what keeps a stream that is gone from
being believed new, and given a window afresh.

`ClientProofs` proves, for any tasks, addresses, responses and ceilings
(`ClientAssumption`):

* `StoreKeepsItsCeiling`: the HSTS store never exceeds its ceiling nor holds an
  address, and every fetch in progress keeps its type;
* `InsistenceHolds`: `WithinHorizon => (Spec => []Insistence)`;
* `KeptUntilFullHolds`: `Spec => KeptUntilFull`.

`Insistence` compares a fetch with what was believed when it looked; `Agreement`
is the strengthening: the store holds of each host what it said last, and, until one
in force had to go, all that is in force. `WithinHorizon`, that no policy lasts past what the clock can tell,
holds of the run's constants and is needed: the store ignores such a policy and
keeps the host's older one (section 6). That the walk over a host's domains and
`domain_matches` mean the same parents is `ParentsAreWalked`.

`H3WorkerProofs` proves, for any script, answers, faults and limits
(`H3Assumption`):

* `WorkerKeepsTheLine`: `Spec => []H3Inv`;
* `OwnedHolds`: `Spec => []Owned`;
* `HandedOnceHolds`: `Spec => []HandedOnce`;
* `CountedHolds`: `Spec => []Counted`.

`Owned` is about streams held and handed over. The invariant extends it to
everything that can bring a stream back (`Touched`): messages and commands in the
channels, and what the application has: all of it is no higher than the highest
stream that was taken in, and below the line once there is one (`Lined`). Looking
for it showed that the number of streams held is not bounded by the ceiling
(section 6), which the type invariant had said before.

`HandedOnce` says that a request is in one place: ready, in a message on its way, or
with the application, and there once. It is not inductive, since a stream that was
forgotten is taken in again when more of it can be read. `OnceInv` adds why it then gives no
second message: of each request handed over (`Passed`), its stream is still held and
marked delivered, or nothing more will be read of it (`Exhausted`: reset, or read to
its end), which no step undoes (`ExhaustedStays`); and a stream at its end is one that
was read to it (`StreamsInv`). Commands are of requests the application has
(`SettledInv`).

`Counted` is the bounds of every channel and the type of everything (`PlainInv`,
`TunnelInv`), and that `held` is the number of octets waiting (`CountInv`).
That number is the cardinality of a set of pairs of a stream and a place,
so it needs no sum: taking one stream out of the queues takes its pairs out
(`WaitingSplit`), from which follows what queueing on, flushing and forgetting one
stream does to it, and the three paths of `FlushStream` each move `held` alike.
Where the application resets a stream `held` is left too high (section 6), and since no
step takes a reset back the count need only be shown where there was none
before (`Unreset`). What a tunnel holds is bounded because a tunnel is asked for
once (`TunnelsOK`): its sink is empty when it is made.

`WebSocketProofs` proves, for any messages, limits and room in the transport
(`WebSocketAssumption`), `ClosesOnce`: `ClosesByClose => (Spec => [](TypeOK /\
CloseIsLast))`, two of the parts of `Reassembled`. `ClosesByClose` says that the
application sends no close frame through `send`, which is left out of the model:
it is for `close` to do. The invariant ties the frames written to where the end is:
there is no close among them until the end is past writing one (`Past`), and an end
that has begun to close has nothing but that close to write (`Closes`).

## 5. What is only model-checked, and what is not modelled

Checked on the instances of section 3 and not proved:

* liveness under fairness (`CloseEnds`, `AllAnswered`, `WindsDown` and the rest),
  which is out of the prover's reach;
* what a recursive definition computes for every input: `RoundTrip`,
  `CutsDoNotMatter` and the others of `Codecs`, `SectionsTrue` of `Exchange`,
  `Sound` of `HPACK` and `QPACK`, whose tables are evicted by a fold over their
  entries. `Huffman`, `H1Grammar`, `Codecs`, `Octets` and others declare recursive
  operators or use the bitwise ones and hold no theorems;
* folds over all cookies (`CookiesRight`), and the rest of `Reassembled`, which
  compares what was handed over with what a selection and a fold make of what was
  written;
* `Intact`, `StreamsAgree` and `NoFalseAlarm` of `H2Pair` and `Synchronized` of `H1`:
  each needs an invariant that describes everything on the way between two ends;
* `Intact` of `H3Worker`, which is not true of every `Backlog` (section 6).

Not modelled, by component:

* cluster: the threads of `run`, their ready channel, and `Cluster::close`;
* HTTP/2: the tunnel relay (`drive`), the output buffer with what a dropped flush
  loses, the last stream id of a GOAWAY, widths of windows;
* server: the options of sockets, and what a negotiation reads (its outcome is chosen; which
  version it settles on is in `Addresses`);
* HTTP/1: `upgrade` but as WebSocket uses it; trailers of a message in `Exchange`;
* HTTP/3: a client's side, unidirectional streams other than the encoder's,
  limits on frames, the premature resets counted;
* WebSocket over HTTP/2 and HTTP/3; a close frame the application writes itself;
* compressions and hashes themselves: SHA-1's rounds, the external libraries;
* QUIC, TLS and sockets, which are external, the constructors of `responses.rs`,
  tables of phrases and media types, and the conversion of errors;
* the bindings, a third of the source: they forward each call.

In `Exchange` there are no interim answers, no trailers over HTTP/1, no body on a
CONNECT, and no file that fails to be read. A sender lets a `TE` other than
"trailers" out and a receiver refuses it; `Carried` excepts that.

## 6. Where code and documentation disagree

`PROJECT.json` lists each with both lines. These follow from a change to the
configuration of a run:

* `FinishedStreamsDropped` in `MCH2Peer_streams.cfg` with `Endpoints <- ServerOnly`,
  `IsClient <- AsServer`, `Frames <- ServerFrames`, `Messages <- ServerRefusals` and
  `MaxStreams = 0`: a refused CONNECT leaves its stream in the map for good, though
  `retire` says finished streams are dropped (`h2.rs:764`, `1235`).
* `ResetCostsOneStream` in `MCH2Pair_full.cfg` with `Asked <- Upload`: after `reset`,
  frames of the stream that were already on their way end the whole connection
  (`h2.rs:689`, `976`).
* `Retires = TRUE` in `MCQPACK_pair.cfg` with three streams of one section each,
  `Lists <- MCShortLists`: `Sound` fails, for the session forgets sections the peer
  has yet to read, and evicts what they name (`h3.rs:351`, `qpack.rs:235`).
* `FramedByItsRequest` in `MCH1_pair.cfg` with `Plans <- MCInterimPlans`: a response
  after an interim one is framed by the wrong request (`h1.rs:1189`, `1627`).
* `AnswersFramed` in `MCH1_pair.cfg`: a length goes out beside a `Transfer-Encoding` that does not
  end with chunked, and the client refuses the message (`h1.rs:1420`, `1490`, `1090`).
* `Intact` in `MCH3Worker_pass.cfg` without its exception for `HalfClosed`: a
  connection closes over the half of a tunnel that is still being written, when the
  peer ended its own first (`h3.rs:1762`, `1771`).
* `WindsDown` there without its exception for a `Stranded` tunnel: one whose peer's
  end was read before its Tunnel command is entered among the tunnels all the same,
  nothing takes it or its stream off again, and the connection is never wound down
  (`h3.rs:1763`, `1651`).
* `WindsDown` there without `~Unreset`: a tunnel that the application resets keeps its
  stream in the map, which `retire` leaves alone while it is raw (`h3.rs:1763`, `1658`).
* `Intact` there with `Script <- MCTunnel`, neither `Resets` nor `Failures`,
  `MaxRequests = 2`, `HalfCloses = FALSE` and `Backlog = 2`: the queue of commands is emptied before raw
  writes are taken from another, and a write queued with its response between the
  two reaches the peer first (`h3.rs:1152`, `2072`).
* `WithinCeiling` there with `Script <- MCHeld`, `Resets = {}`, `Ceiling = 1` and
  `MaxRequests = 5`: the answer to a CONNECT that was reset meanwhile brings its
  stream back, ceiling or not, and it is never dropped (`h3.rs:329`, `1620`).
* `DropKeepsServing` as a PROPERTY of `MCServer_serve.cfg`: dropping a
  `ServerHandle` stops the server it says to leave running (`server.rs:655`, `757`).
* `OneMessagePerStream` in `MCH2Peer_streams.cfg`: a stream yields a second message
  after END_STREAM (`h2.rs:1150`, `956`).
* `StreamErrorKeepsConnection` in `MCH2Pair_full.cfg`: the default server loop
  closes the connection on a stream error that "stays usable" (`errors.rs:25`,
  `server.rs:628`).
* `ForwardedAcross` in `MCExchange_pass.cfg`: a request taken over HTTP/2 or HTTP/3
  cannot be sent on over HTTP/1, for its pseudo-headers (`common.rs:368`, `669`).
* `CodedOnRequest` there: a response sent on is coded again for a peer that asked
  for none (`models.rs:985`, `1258`).
* `CloseEnds` in `MCWebSocket_pair.cfg` without its exception for `Stalled`: nothing
  bounds a write, and a close waits for good behind a full transport whose other end
  does not read (`websocket.rs:832`, `949`).
* Scripts with a blocked "bad" stream in `MCH3Worker_pass.cfg`, under
  `ResetsItsOwn`: the stream reset is the peer's encoder stream (`h3.rs:2157`).
* `Failures` with the stream of the tunnel there: `Intact` fails, for the half the
  application writes is lost silently (`h3.rs:1469`, `2170`).
* `Counted` without its exception for a Reset: octets stay counted (`h3.rs:1656`).
* A `Horizon` within reach in `MCClient_fetch.cfg`: a lifetime the clock cannot
  reach is ignored by the store and kept for good by the jar (`hsts.rs:227`,
  `cookies.rs:474`).

The rest are seen in a definition: an integer of more than 64 bits taken for its
low 64 (`WireInteger.FitsOrRefused`), the limits of lines and chunk sizes that
depend on how octets arrive (`H1Grammar`), ALPN without overlap
(`tls.rs:419`), a URL's target that begins with `?` or `#` (`models.rs:196`), stores of
no capacity that hold one entry (`hsts.rs:233`, `cookies.rs:421`), `Vary` left
incomplete (`models.rs:1224`), and interim answers over HTTP/3 (`h3.rs:799`).

Met while modelling, and not contradicting any documentation: a handler that reads
ahead of its answers announces the close of HTTP/1 with one that others follow, and
the permission to continue announces it too (`h1.rs:1498`, `1611`; `CloseIsLast`
without its condition); `close` of HTTP/2
names its own last stream in GOAWAY (`h2.rs:1509`); `receive_message` waits once
more after GOAWAY with no stream left (`h2.rs:551`); a SETTINGS change moves stream
windows unchecked (`h2.rs:867`); one failed accept ends a port for good
(`server.rs:710`, `488`).
