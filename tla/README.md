# Verification of l4s-poc

TLA+ models of l4s-poc (H.264 video over QUIC through picoquic, or over WebRTC),
the TLC runs that check them on small instances, and theorems about them that
TLAPS has checked for every value of the constants. Paths below are relative to
the repository; `wrapper.c` is `pkg/picoquic/picoquic_wrapper.c`.

The repository has no Go or C tests: what it says of itself is in comments,
`README.md`, the `Makefile` and three shell scripts. Most of what can go wrong
in it is concurrency between picoquic's network thread, the application threads
that call the wrapper, and the goroutines of the programs; that is what the
models are about.

## The system

| part | code | state | operations |
| --- | --- | --- | --- |
| connection, receiving half | `wrapper.c` | `recv_buffer` with `recv_read`/`recv_write`, `stream_fin_received`, `dgram_buffer`/`dgram_ready`, `is_closed`, `cnx`; `recv_lock`, `dgram_lock` and their condition variables | `stream_callback`, `pq_recv_stream`, `pq_recv_datagram`, `pq_close_connection` |
| connection, sending half | `wrapper.c` | linked list `send_head`/`send_tail` behind `send_lock` | `pq_send_stream`, `pq_send_datagram`, `pq_finish_stream`, `process_send_queue`, `pq_wait_stream_complete` |
| server context | `wrapper.c` | one pending slot, `accept_lock`, `accept_cond` | `create_connection` on two paths, `pq_accept`, `pq_destroy_context` |
| client context | `wrapper.c` | `client_conn`, the network thread | `pq_connect`, `pq_listen` |
| Go binding | `pkg/picoquic/picoquic.go` | none of its own | one call of the wrapper each; a result of 0 bytes becomes `io.EOF` |
| quic-send, quic-recv | `cmd/` | NAL unit counters, `done`, the statistics of the side channel | main loops, signal handlers, a datagram goroutine each, the summary goroutine |
| H.264 formats | `pkg/h264/annexb.go` | the reader's buffer | `ReadNAL`, `WriteNAL`, the length-prefixed pair |
| RTP packetizer | `pkg/h264/rtp.go` | sequence number, timestamp | `Packetize` |
| webrtc-send, webrtc-recv | `cmd/` | as quic-*, plus pion's callbacks | connection-state callbacks, `OnTrack`, data channel |
| ECN socket, L4S interceptor | `pkg/ecnconn`, `pkg/l4s` | default ECN, counters; trackers by SSRC | `WriteMsgUDP`, `Record`, bind/unbind |
| SCReAM binding, quic-go binding | `pkg/scream`, `pkg/quicl4s` | a map of senders; none | one library call each |

How they interact. The application threads and picoquic's network thread share
a `pq_connection_t`: the network thread fills the receive buffers in
`stream_callback` and empties the send list in `process_send_queue`, the
application does the opposite, and either may close the connection under the
other. There are three locks and no order between them, since no two are held
at once; fields are tested under one lock and written under another. On top of
it quic-send and quic-recv each have a main goroutine for the video on stream
0, a goroutine for statistics in datagrams, and a signal handler, which share
atomics and a mutex.

What makes each part correct, in a sentence:

* receiving half: readers get the stream in order and whole until the end is
  reported, nothing is lost but the chunks the code skips, and nobody sleeps
  through news or a close;
* sending half: every item reaches picoquic once and in order, no wake-up of
  the network thread is lost, a wait returns, and a result of 0 means what it says;
* server context: one wrapper for a connection, no event lost before it exists,
  each connection accepted once;
* programs: what comes out is a prefix of what went in, complete after a FIN;
  both end; the printed statistics fit together;
* client context: `pq_connect` returns; a connection that failed or was closed is not
  left open in picoquic; one that was returned finds its server;
* formats: `ReadNAL` finds the NAL units there are, and what is written is read
  back the same;
* WebRTC: lost packets damage the NAL units they are of and no others, no
  channel is closed twice on a connection that stays up, summaries belong to what was
  sent, nothing but the WHIP exchange and stdin can hold webrtc-send, and a session of
  webrtc-recv ends once pion there has learned of the end;
* ECN: a packet to a peer of the socket's own family carries a codepoint that its writer or a
  call beside it asked for, every mark is counted and told once.

The behaviours that are hard to test, each at its line, are the "hazards" of
`PROJECT.json`.

## Modules

| module | models | extends or uses |
| --- | --- | --- |
| `PqClose` | the close of a connection by its two sides | |
| `PqReceive` | the receiving half | `PqClose`; implements `ByteStream` |
| `PqReceiveProofs` | its theorems | `PqReceive` |
| `ByteStream` | what the receiving half promises (abstract) | |
| `PqSend` | the sending half | `PqClose` |
| `PqSendProofs` | its theorems | `PqSend` |
| `PqContext` | the server context | |
| `PqConnect` | a client context next to a server's | `PqContext` |
| `PqConnectProofs` | theorems about both | `PqConnect` |
| `QuicTransfer` | the video path through both programs | `ByteStream` as the channel |
| `MCQuicTransfer` | the sizes of the NAL units of its instance | `QuicTransfer` |
| `QuicTransferProofs` | its theorems | `QuicTransfer` |
| `SideChannel` | statistics of quic-send and quic-recv | |
| `SideChannelProofs` | its theorems | `SideChannel` |
| `AnnexB` | the byte-stream formats | |
| `AnnexBProofs` | its theorems | `AnnexB` |
| `WebrtcLink` | the RTP packetizer, the packets and the data channel on their way | |
| `WebrtcSend` | webrtc-send | `WebrtcLink` |
| `WebrtcRecv` | one session of webrtc-recv | `WebrtcLink` |
| `WebrtcTransfer` | both, composed | `WebrtcSend`, `WebrtcRecv` |
| `MCWebrtcTransfer` | the input of its instance | `WebrtcTransfer` |
| `WebrtcTransferProofs` | its theorems | `WebrtcTransfer` |
| `EcnConn` | the ECN-aware socket and the network behind it | |
| `L4SInterceptor` | the interceptor's trackers, fed by the socket | `EcnConn` |
| `MCL4SInterceptor` | the symmetry of the writers in its instance | `L4SInterceptor` |
| `L4SInterceptorProofs` | theorems about both | `L4SInterceptor` |

Each definition's lines are in `PROJECT.json` under "map". A definition whose
comment begins with "Mutant" is not part of a model: it is a plausible mistake
in the definition below it, and the property named with it in "mutants" is
violated when it takes that definition's place.

### PqClose, PqReceive, ByteStream

A critical section of `recv_lock` without a wait in it is one action;
`pthread_cond_wait` splits `pq_recv_stream` into passes of its loop (`Wait`,
`ReturnEOF`, `Copy`), each from the lock to the wait or the return.
`pq_recv_datagram` tests `is_closed` under `dgram_lock` while every writer holds
`recv_lock` instead, so there the test (`DgramTest`) and the wait (`DgramWait`)
are two actions and `dgram_lock` is a variable. The `stream_fin` event is two
critical sections (`StreamData`, `StreamFin`), the close event two
(`CallbackClose`, `CallbackCloseDgram`), and `pq_close_connection` four steps:
take `cnx`, call picoquic outside of the lock, two broadcasts. Signals wake one
sleeper, broadcasts all, and a sleeper may wake for no reason, as POSIX allows.

A byte is its offset in the stream; what `recv_buffer` held before is `NoByte`.
A chunk that does not fit between `recv_write` and the end of the buffer is
skipped, as in the code: the indices return to 0 only when the buffer drains.
A datagram is its number.

`ByteStream` says the same without buffer, locks and sleepers: chunks of any
size, buffered whole or skipped; reads from the front; the end is reported only
with nothing left. `PqReceive!Stream` is the refinement mapping: the pending
bytes are the cells between the two indices.

### PqSend

`queue_send_ex` is the append under `send_lock` (`queue_send`) followed by
`picoquic_wake_up_network_thread` outside it (`WakeNetwork`). The network thread
answers with the `wake_up` event (`WakeUp`), which calls `process_send_queue` on
the connections of the context and on a client's own connection once more:
`passes` counts the calls left. A pass tests `cnx` (`StartPass`), takes an item
under the lock (`TakeItem`), hands it to picoquic outside (`HandOver`, which reads
`cnx` again) and ends when the list is empty. A NULL `cnx` handed to picoquic is
a state of its own, "crashed", that nothing leaves. `pq_wait_stream_complete` is
a loop of a test, picoquic's state and a sleep; time is counted in its sleeps of
10 ms. Results of malloc are taken to be memory.

### PqContext

The two paths to `create_connection`, an event on a connection without a
wrapper and the scan after a received packet; the pending slot with its signal;
`pq_accept`'s critical section and its polls for `handshake_done` outside it;
`pq_destroy_context`, which joins the network thread and then frees what a thread
in `pq_accept` may still be waiting on. `wrappers` counts the calls of
`create_connection`, `accepted` what `pq_accept` returned.

### PqConnect

A client in `pq_connect` beside that server: the loop with its polls, the look at
the state of `cnx` that comes with every thousandth (here: any) poll, the test
after the loop, the close of a failed handshake, and the end of the client as the
programs have it. The network thread (`ClientReady`, `ClientClose`, `ClientFree`)
runs between any two of these; `handshake_done`, `is_closed` and `cnx` are read
without a lock, as in the code. `pq_close_connection` is two steps here, of a failed
`pq_connect` and of `conn.Close` alike: `CloseTake` takes `cnx` under `recv_lock`, unless
the close callback has, and `QuicClose` calls `picoquic_close` with it outside, which
closes what is open in picoquic (`cnxState`) by then: the handshake may have ended since. Its
broadcasts find readers in `PqReceive`. `picoquic_close` itself and each event of the network thread
are steps of their own; no lock of the repository keeps one from running inside the
other, and what picoquic does then is not modelled. Client and server meet in one connection, `Ours`:
the server sees it once it is started, the client is ready once the server has
answered, and the server is ready after the client is. `ConnectNext` is a step of
the client or a step of `PqContext`, so that what is proved of the server holds here.

### QuicTransfer

The main loops end to end. The sender's connection appears only as far as its
calls can fail (`sendClosed`); between the two is a `ByteStream`, which `PqReceive`
is shown to implement, driven by what the sender queued. `io.ReadFull` is `ReadFull` and
`ReadEOF`. A length made of bytes with a gap between them is any number. The
first test of `done` in quic-recv, before anything is read, is joined with the
one at the head of every later round. Errors of stdin and stdout are left out;
they leave the loops the way the end of stream does.

### SideChannel

Two atomics of quic-recv, two channels that are only ever closed, the reporting
goroutine with one action per load, lossy and reordering datagrams, and in
quic-send the mutex section of the reading goroutine in two actions, so that a
summary that did not take the mutex would be seen between them. Bytes are counted in NAL units. quic-recv counts what it decodes and writes,
which is what was queued as long as its connection has delivered every chunk; once one was skipped
(`SkipChunk`, which `PqReceive` shows to happen) it takes any bytes for lengths and may count more than
was ever sent (`Decodable`). What quic-send reports at the end is therefore compared with
what it sent only if none was (`FinalNotMoreThanSent`); all else holds in either case. A lost
report is one that is never read. Latencies and bit rates are left out.

### AnnexB

`ReadNAL` of `AnnexBReader` one byte at a time over the buffer that outlives the call.
Every NAL unit it returns is given to both writers: `written` is the stream
`AnnexBWriter` makes, `framed` the one of `LengthPrefixedWriter`. After `io.EOF` the
latter is cut at any byte (`Cut`) and `LengthPrefixedReader` reads what is left, one
call a step (`ReadFramed`). `Split` defines the NAL units of a byte sequence by positions,
without buffer, calls or recursion: those that begin at a place where one can begin and
are not empty, each at the index that counts how many begin no later (`Rank`).

### WebrtcLink, WebrtcSend, WebrtcRecv, WebrtcTransfer

`WebrtcLink` has what the two programs share: the packetizer (sequence number,
marker bit, timestamp; a packet is the NAL unit and payload it carries), RTP packets that are
lost or overtake each other, and a data channel that is reliable and ordered,
since it is opened without options. The number of payloads of a NAL unit is the
payloader's choice and part of the input.

`WebrtcSend` is `main` from the offer to `pc.Close`. The offer (gathering of candidates, `http.Post`, the answer) is one step that
nothing says will be taken: it has no timeout and does not look at `done`. pion keeps one handler of
connection states and runs it in a goroutine of its own for every change:
`CallHandler` begins a call of the handler registered at that moment,
`RunEndCall` and `RunConnectedCall` are its close of `done` or `connectedCh` later on. A
close of a closed channel is the state "panic". The wait for the connection, its
timeout, the signal, the loop over stdin, the wait for the data channel and the final
summary follow the code; the periodic summary (`PrintSummary`) may come after the final one.

`WebrtcRecv` is `OnTrack` for one session: pion's depacketizer with the fragments
it holds, `nalBuffer`, the write at a marker bit and the count after it under
`statsMu`, and the goroutine that reports. It ends when pion makes `ReadRTP` and `Send` fail, after pion
has learned that the sender closed the connection (`LearnEnd`): that news crosses the
network and may never come, and webrtc-recv has no handler that would notice a connection that only fails. A NAL unit on stdout is the packets it was made of.

### EcnConn, L4SInterceptor

Each method of the socket is the critical sections of `mu` it consists of, with
what comes between them: `WriteMsgUDP` sets the option in one (`SetTOS`) and
writes after the unlock (`Write`), `WriteToUDP` and `SetDefaultECN` take the lock
once more for the default. There are two options, `IP_TOS` and `IPV6_TCLASS`, one for the packets to
peers of either family (`option`). An IPv4 socket sets and uses the first. An IPv6 one may be dual-stack:
it reaches IPv4 peers too (`Reached`) and sets the second only (`Own`), as line 110 has it. Codepoints are numbers and
`Codepoint` is the mask of the methods. `asked` and `beside` record what a
call asked for and what the calls asked for that overlap it. The network marks, loses and reorders.

The interceptor numbers its trackers: a stream that is bound again gets a new one, while the reader of the old
one goes on with the old one. The callback is optional (`onFeedback`); the application gets a
tracker by it or from `GetTracker` (`held`), and resets only what it got. No program of the repository uses these packages yet; `Receive`, which
passes a packet with its codepoint from socket to reader, is external.

## Runs

| run | instance | what it shows |
| --- | --- | --- |
| `pq_receive` | 1 stream reader, 1 datagram reader, 1 closer and the peer, 2 cells, 4 bytes, 2 datagrams | order, conservation and end of the stream, no wake-up lost, close frees readers, implements `ByteStream` |
| `pq_receive_drop` | the same, 1 byte a read | **violation**: a chunk is skipped although the unread bytes leave room |
| `pq_send` | 2 senders, 2 closers, 2 items, client | list intact and served, one `picoquic_close`, every item handed over, the wait returns |
| `pq_send_wait` | 1 closer | **violation**: 0 is returned without an acknowledgement |
| `pq_send_shutdown` | server | **violation**: a close between two reads of `cnx` ends the process |
| `pq_context` | 2 connections, one of them a client of ours, 2 acceptors, 1 poll each | one wrapper, no event lost, accepted once, nobody forgotten; a connection given up is not left open; connect and accept return |
| `quic_transfer` | NAL units of 2 and 1 bytes, lengths of 2 bytes | prefix, complete after a FIN, both ends reached |
| `side_channel` | 1 NAL unit, 2 decoded after a skipped chunk, 3 reports | reports consistent, summaries consistent cuts, both programs end |
| `side_channel_lost` | 1 NAL unit, 3 reports | **violation**: a report that was only late is counted as lost |
| `annexb` | every input of up to 8 bytes over {0, 1, 2} | `ReadNAL` against `Split`, what is written splits into the same NAL units at every moment, the other format cut at every byte |
| `webrtc` | NAL units of 2, 0 and 2 payloads, 3 sequence numbers, 1 interruption, 2 reports | headers tell NAL units apart, damage is confined, no panic on a steady connection, summaries true of NAL units, nothing hangs but the exchange with the WHIP endpoint, stdin and a receiver that learned of no end |
| `ecn_path` | 2 writers, codepoints 0 and 1, 2 packets, an IPv4 and a dual-stack socket, 1 stream bound twice, with and without a callback | a packet to the socket's own family has a codepoint that its writer or a call beside it asked for, one to an IPv4 peer of a dual-stack socket is Not-ECT; every mark told once |

Properties that are one claim about one mechanism are checked under one name:
`ReadersGetTheStream` is `InOrder`, `NothingElseLost` and `EofMeansAll`,
`NoWakeUpLost` is `SleeperWillBeWoken`, `DgramSleeperWillBeWoken` and `NewsWakesOne`,
`QueueDelivers` is `QueueIntact` and `QueueWillBeServed`, `EventsReachOneWrapper` is `OneWrapper` and
`StateIsSeen`, `SlotHandsOver` is `AcceptedOnce` and `PendingIsHeard`, `BothEnd` is
`ReceiverEnds` and `SenderEnds`, `CallsReturn` is `AcceptReturns`, `PendingIsTaken`,
`ConnectReturns` and `ConnectedIsServed`, `MarksAreTold` is `CountsAreKept`,
`MarksReachTheCallback` and `NewestIsFound`. Each part is stated and explained by itself.

Why the bounds are enough. Two cells and four bytes let the buffer fill, wrap
back to 0, skip a chunk behind unread bytes and be read in parts. One reader of each kind is
what the programs have; more than one is covered by the proofs. Two items on the
send list give every case of append and removal (empty, one, several) and the
overlap of an append with the pass that finds the list empty; two closers race
each other and the peer. Two connections overwrite the pending slot, two
acceptors compete for it. `Settle` < `Timeout` lets both ways out of the wait
happen. A length of two bytes is cut in the middle, as is a NAL unit of two
bytes; `MaxLength` 3 leaves a length of 0, a right one and one too large. Three
reports make a gap and a late one. One NAL unit sent and two decoded are enough for the
two orders of adding and loading, and for counts beyond what was sent. Eight bytes hold a
four-byte start code, a NAL unit and a three-byte start code, or two adjacent
start codes with zeros around them; 2 stands for every byte that is neither 0 nor 1.
The WebRTC input has a frame and a unit that is none, both in fragments, and one
that makes no packet, four packets in all: with 3 sequence numbers they wrap
around, a lost last fragment meets the next NAL unit, and every order of arrival
is tried. One interruption is enough to bring every close of a closed channel
about. The timestamp does not wrap around in this instance; that it tells frames
apart where it does is proved (`HeadersCorrect`). Two packets of two writers are enough to send each other's
codepoint: the default, 1, and the value 4, which is codepoint 0 with a bit above it. `Begin` starts no call after the last
packet, which no later call can reach; what packets meet behind the socket goes on. One stream bound twice has a reader with a tracker that is no longer in the map.

`CHECK_DEADLOCK FALSE` is in every configuration: each of these systems may stop
(connection over and everyone returned, input read, a bound reached, or crashed).

### Fairness

* `PqReceive`, `PqSend`, `PqContext`: a thread inside a call goes on
  (weak fairness), and one that wants a lock that is free again and again gets it (strong
  fairness on the steps that take `dgram_lock`). Nothing is assumed of calls the
  application may never make, of the peer, or of spurious wake-ups.
* `QuicTransfer`: both programs run, except that stdin may be silent for ever; once one
  side has closed, the other learns of it, by the close frame or by picoquic's
  idle timeout. Delivery before a close is not assumed.
* `SideChannel`: goroutines run; a `select` with a case that is ready again and again takes it
  in the end (Go picks at random among ready cases), and so does a call that a
  closed connection makes fail. The main goroutine's wait has a timeout.
* `PqConnect`: `pq_connect` goes on, and threads that are awake in `pq_accept`; the
  server's network thread scans its connections again and again, because a client
  that is not answered sends again; `pq_destroy_context`, once it can go on, does.
* `WebrtcTransfer`: goroutines go on and timers fire; what main does between its waits ends (packets
  written, summaries taken by stdout, `pc.Close`). Nothing is assumed of the exchange with the WHIP endpoint
  (`main = "offer"`) and of stdin (`main = "read"`), which may last for ever, nor of the
  network, of pion's state changes, of the user, or of pion in webrtc-recv ever learning of the
  end (`LearnEnd` is not fair): the second half of `NothingHangs` begins when it has.
* `EcnConn`, `L4SInterceptor`: safety only, no fairness.

## Proofs

All hold for every value of the constants that the modules' assumptions admit.

**PqReceiveProofs.** `TypeCorrect`: the types, with `recv_read <= recv_write <=
RecvSize`. `OrderCorrect` and `ConservationCorrect`: from `StreamInv`, which adds to the
two properties that every byte read or unread is below `arrived`; without that, an append
could put a byte before an older one. The step that matters is `StreamCopy`: the cells
copied are the front of the unread ones, whether or not both indices return to
0. `CloseWakesReaders`, `CloseWakesDgramReaders`, `NewsIsHeard` and `EofCorrect`:
from `WakeInv`, which adds that the datagram reader between its test and its wait
is the holder of `dgram_lock`. That is why the broadcast of a close, made under
that lock, cannot fall between the two, although `is_closed` is written under
another. `DgramOrderCorrect`: from the fact that the slot always holds the newest datagram.
`StreamRefined`: the steps of the receiving half are steps of `ByteStream` or stutters. An append puts
the cells of the chunk behind the pending ones (`PendingGrows`), a pass of `Copy` takes
the front of them, wherever the indices go (`PendingShrinks`), and the end is told to
a reader once (`WokenNotTold`); everything about locks, signals and datagrams is a stutter (`StutteringSteps`).

**PqSendProofs.** `TypeCorrect` needs `NetInv`: an item is in the network thread's
hands exactly between taking and handing over. `QueueCorrect`: `QueueIntact` is
inductive with one more fact, that an item not yet appended has no successor. `WakeUpNotLost`: with
`ServedInv`, items on the list have a wake-up or a pass before them; the append
and the request for the wake-up are two steps, and between them the appending
thread is the witness. `ClosedOnce`: one thread at most gets to call `picoquic_close`.
`WaitCorrect`: with `WaitInv`, the last item of the stream is appended before
Main starts to wait, so the test that finds the list empty speaks of the whole
stream and stays true when datagrams follow.

**PqConnectProofs.** Of the server alone: `WrapperCorrect`: the callback context is set together with
the count of wrappers, and both paths look at it. `EventsCorrect`: `StateIsSeen` is inductive as it
stands, because the callback that makes a wrapper calls itself again with it.
`AcceptCorrect`: from `HandInv`, a connection is in the slot, with one thread,
or returned, and in one of these at most; a new one has no wrapper yet and so
is in none. `PendingHeard` assumes that some thread accepts at all.
`EventsReachWrapper` and `SlotCorrect` put these together.
With the client: `ServerRefines`: every behaviour with the client is one of
`PqContext`, a step of the client being a stutter; `ClientEventsReachWrapper` and
`ClientSlotCorrect` follow from the theorems above without looking at the server
again. `GivenUpIsClosed`: from `ClientInv`, in which `OpenInv` says that a connection open in
picoquic is held by a thread on its way to `picoquic_close` or still has its pointer in `cnx`
with `is_closed` clear. So a `CloseTake` that finds nothing to take finds nothing open, whatever the
network thread did since the last test, and one that takes is followed by `QuicClose`.

**QuicTransferProofs.** `OutputCorrect` and `FinCorrect` hold for every number and
size of NAL units and are proved without recursion over the stream. A write appends a whole field (a
length or the data of a NAL unit) or nothing, so `StreamInv` can say locally what
the stream is: a byte numbered 1 has the rest of its field behind it, and the last byte of a
field is followed by the first of the next (`FieldAppended`). The receiver's place is
known by the last byte it has read (`PlaceInv`), from which `FieldAhead` gives the
whole field in front of it. `SenderInv` says with what the stream ends at each
point of the sender's loop, and after a FIN; `EndInv` why a receiver that has
ended got the FIN or never will. If a chunk was skipped nothing is claimed but the types.

**AnnexBProofs.** For every input of bytes. `BufferInv` says what the buffer is: between the calls the start
code that ended the last one, during a call the bytes from `Here` to the last one
taken, with no start code in them. A start code ends in the byte just read, or none does
(`CodeInPiece`), so the NAL unit that begins at `Here` ends where `Split` says (`CodeEndsNAL`), and
the list returned is that of the NAL units that begin before `Here` (`ReadInv`, `NextNAL`, `LastNAL`). What is
written is one start code and one NAL unit more (`WriteMore`): the NAL unit has no start
code inside (`NoCodeInside`), and the zero byte that belongs to a four-byte code is not
counted to the NAL unit before it even if that ends in zeros. `ReadsCorrect` and
`RoundTripCorrect` follow, since a list in the order of its positions is `Split` (`ListIsSplit`).
`CutCorrect`: `FramedInv` gives the place of every NAL unit in the framed stream and `CutInv`
puts the reader between two of them; a length below 2^32 is read back from its four bytes
(`NumberIs`), so a call returns the next NAL unit if it is whole and fails otherwise (`ReadIs`).
Where a proof needs a first or last position it takes a least element
(`MinIs`, by `WellFoundedInduction`) in place of an induction.
`CodeAtEnd` was a CASE whose guards overlap, of which TLA+ leaves open what it yields; for the proof it is
an IF in the order of the code.

**SideChannelProofs.** `TypeCorrect` needs `CountInv`: of each pair of counters the
second lags by one between its two additions, and is equal otherwise.
`ReportsCorrect` and `FinalCorrect`: from `ReportInv`, which carries the bound
"bytes at most `totalBytesAtomic`" along with a report from the load to the summary;
`FinalCorrect` also needs that a receiver that lost no chunk counts at most what was queued.
`AccountingCorrect`: from `SectionInv`, the relation of `lastSeq`, `packetsLost` and
`latencyCount` outside of the mutex section and in the middle of it.

**WebrtcTransferProofs.** `SteadyCorrect`: from `ControlInv`, that without an
interruption nobody but the signal closes `done`, and that at most one call ever closes `connectedCh`.
`SummaryCorrect` has two halves. The reports in the channel are numbered on
from the last one received (`ReportsInv`), so none is found missing. And the NAL
units counted are at most the NAL units sent: each one written took a packet with
the marker bit (`OutputInv`), each NAL unit has one such packet (`LinkInv`: no
payload is in two packets), and so the packets taken map one to one into the
NAL units sent (`TakenIsFinite`). On the way `OutputInv` shows that `nalBuffer` is
empty between two packets: the write at the end of `OnTrack` never finds anything.
`HeadersCorrect`: `HeadersInv` numbers the packets by their place (`Numbered`, so that two
with neighbouring numbers are a multiple of `SeqNums` and one apart), relates each to the
next, and the last one to the timestamp the next will have (`ClockTells`); `Ticks` is less
than a round of the clock, so a new timestamp is another one. A NAL unit without
packets must leave the clock alone: pion's payloader, with `DisableStapA` set (`pkg/h264/rtp.go:28`), makes no packet only of
delimiters and filler data, which `WebrtcAssumption` says of the input.
`DamageCorrect`: `DamageInv` follows the packets of a NAL unit while they are read.
They stand together in `sent` (`Together`); as long as they come in order, the depacketizer
holds exactly those that came (`HeldInv`), unless something was left over before, which
the last fragment read would show (`LeftOverInv`); with the last of them they are on stdout (`WrittenInv`). No packet is at
two of these places (`OnceInv`).

**L4SInterceptorProofs.** `CodepointCorrect`: two calls that overlap know of each other (`OverlapInv`), so
what a writer finds on the socket's own option between its `SetTOS` and its write is what it asked for or
what a call beside it asked for (`OptionInv`), and packets on their way keep what they
were written with but for marks. The other option is never set, so a dual-stack
socket's packets to IPv4 peers leave as Not-ECT.
`MarksCorrect`: the parts of `MarksAreTold` are inductive with the types; the
readers' trackers are numbered and never taken for each other, whatever is bound or unbound, and a
reader that is about to call the callback is the only one that may know of a mark alone.

**Model-checked only.** Liveness under fairness, and properties that speak of
ENABLED steps by way of it: `CloseFreesReaders`, `EveryItemIsHandedOver`,
`WaitReturns`, `CallsReturn`, `TransferEnds`, `SignalEndsReceiver`, `BothEnd`,
`NothingHangs`. Every invariant of the passing runs, and the refinement of
`ByteStream`, is stated by a theorem.

## Where the code and its comments differ

1. `wrapper.c` calls `recv_buffer` circular in `pq_connection_t` (and "non-circular for
   now" where it appends). It is linear: a reader that
   is always one byte behind makes its free space shrink until chunks of a
   reliable stream are skipped (`pq_receive_drop`).
2. `pq_wait_stream_complete` waits, by its comment, until the stream is "fully
   sent and acknowledged". It returns 0 after 100 ms with an empty list, whatever
   was acknowledged (`pq_send_wait`).
3. Shutdown is called graceful. `process_send_queue` and
   `pq_wait_stream_complete` test `cnx` and read it again later, without the lock
   under which a close sets it to NULL; picoquic dereferences it (`pq_send_shutdown`).
4. `packetsLost` is described as a count of lost packets. When a late report
   arrives `lastSeq` goes back to it, and the next one is taken for a gap over
   reports that were received. The run shows the first half, with arrivals 1, 3, 2: report 2 stays counted as
   lost (`side_channel_lost`); the second takes a fourth report.

Met on the way and without a run of their own:

* The `Makefile` compares `test.h264` with
`output.h264` byte by byte, but the writer uses four-byte start codes for all,
so an input with three-byte ones comes out with the same NAL units and other
bytes; `RoundTrip` is the claim that holds.
* `cmd/webrtc-send/main.go`: `done` is closed by the signal handler and once more by every Failed
  or Disconnected state, `connectedCh` by every Connected state; after an
  interruption the program can end in a panic, which is why
  `SteadyConnectionIsSafe` speaks of a connection that stays up. The second
  `OnConnectionStateChange` replaces the first, so that from line 386 on a failed
  connection no longer ends the program as line 310 means it to. A connection that is
  up before line 386 is not noticed and ends in the timeout.
* There, too: the comment at 530 says that types 1 and 5 are video frames, but
  `IsKeyframe` is also true of SPS and PPS, and the timestamp advances after these
  (`AdvancesClock`). The duration of a frame is a whole number of milliseconds
  (33 at 30 frames a second, 0 above 1000). Line 37 calls the summary the final
  output; a periodic one may follow, since nothing waits for that goroutine.
  `packets_lost` is always 0 (proved, `SummaryIsTrue`): the data channel is reliable and ordered.
* `cmd/webrtc-recv/main.go`: `nalBuffer` is always empty when the next packet is read, so the write at
  the end of `OnTrack` never happens with webrtc-send as the sender. After a lost
  last fragment the fragments are joined with the next NAL unit that is
  fragmented (`Clean` in `DamageIsConfined`). What pion returns already has a start code,
  and `WriteNAL` adds another; the bytes of these start codes are in the receiver's count, so the sums of
  bytes that webrtc-send prints differ where the NAL units are the same. `SummaryIsTrue` is about NAL units, which the
  printed JSON does not have; no claim is made about its bytes. The program never closes its side of a session, so one
  whose sender panics, or whose close is lost, is never ended by it.
* `cmd/webrtc-send/main.go`, lines 349-367: a signal during the exchange with the WHIP endpoint does not end
  the program, and the exchange has no timeout.
* `pkg/ecnconn`: `WriteMsgUDP` "writes a message with the specified ECN value" (line 165). `SetTOS` sets the option
  of the socket's own family only, so a packet of a dual-stack socket to an IPv4 peer leaves as Not-ECT whatever was
  asked for; and it gives the lock back before the write, so a packet to the own family may leave with the
  codepoint of another goroutine. `CodepointIsAsked` is what remains true, and says both.
* There, too: when `SetDefaultECN` fails the default is
  changed all the same; `WrapConn` ignores a failure of either socket option, and
  without the second every packet reads as NotECT.
* `pkg/l4s`: the reader of a stream that was bound again or unbound counts in a
  tracker that `GetTracker` no longer returns: without a callback its counts are out of reach.
* `pq_connect` reads the state of `cnx` (lines 651 and 660) when the close callback
  may have come and picoquic freed the connection. `pq_close_connection` calls `picoquic_close` (line 843)
  with a pointer taken before, beside a network thread that may be in picoquic too; `NothingStaysOpen` takes
  the two as steps one after the other.

## Not modelled

* picoquic, pion, quic-go and SCReAM themselves: only what the code sees of
  them (marked external in the map). picoquic delivers stream data in order and
  without repetition, reports a close once, and runs one network thread.
* `pq_listen`'s wait for its network thread, which gives up after ten seconds
  and returns 0 all the same.
* webrtc-recv: the WHIP request that begins a session, and several sessions at a
  time, which share stdout without a lock and nothing else.
* The bytes in the statistics, as far as they are not counted in NAL units (above).
* `ECNStats` of `pkg/ecnconn`, which counts as `ECNTracker` does; `PacketizeRaw` and `RTPDepacketizer`
  of `pkg/h264`, which no program uses.
* `pkg/scream`: a locked map in front of a C library that is not in the
  repository; its callback does nothing yet. There is no behaviour of its own to state.
* `pkg/quicl4s`, `cmd/quic-bench`, `cmd/quic-test`: no state of their own.
* Clocks, bit rates, latencies, logging, flags, JSON, certificates, images, scripts.

## Plan

Done, in this order: the receiving half with its abstract stream and proofs; the
sending half with proofs; the server context with proofs; the video path over the
abstract stream with proofs; the statistics with proofs; the formats; the client
next to the server; the WebRTC programs with proofs; the ECN socket and the
interceptor with proofs; then the refinement of `ByteStream`, headers and damage
of the WebRTC path and the formats proved too.

What would come next: action properties that say which step may change what; two sessions of
webrtc-recv over one stdout.
