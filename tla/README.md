# xtcp in TLA+

xtcp asks the kernel, over a netlink socket, for a dump of all TCP sockets at
a regular interval, takes the answers apart in a pipeline of goroutines, and
sends a record of each (sampled) socket over UDP. This directory models its
concurrency and its parsing, checks the models with TLC and proves the most
important properties with TLAPS. The source is the reference: each definition
names the code it stands for in `PROJECT.json` ("map").

## 1. Inventory

The parts of the system, with what each keeps, does and has to get right.
Paths are under `src/pkg/` unless they say otherwise.

| Part | State | Operations | Talks to |
|---|---|---|---|
| main (`src/cmd/xtcp.go`) | `disablerCheckComplete`, `pollerWG`, the three stater channels | start the Disabler, wait for its first check, start staters and Pollers, wait for the Pollers, return | all |
| Disabler (`disabler`) | `pollingLoops` | run a command, end the process if it answers "1", signal main once, wait for the ticker | main by a channel; the process by `os.Exit` |
| Poller (`poller`), one per address family | `pollingLoops`, `workersStarted`, `startPollTime`, durations, the channel to the inetdiagers and the DONE channel | send statistics, start workers, send a dump request, start netlinkers, wait for DONE, wait for netlinkers, shut workers down, wait for the ticker | kernel socket, netlinkers, inetdiagers, PollerStater |
| Netlink socket (`xtcpnl`) | the unread datagrams; `SO_RCVTIMEO` | open with a timeout, send a request; the kernel answers with datagrams and NLMSG_DONE | Poller, netlinkers |
| Netlinker (`netlinker`), several per Poller and new in each poll | the datagram at hand, `netlinkMsgCount`, counters | receive, check the message type, copy, stamp, sample and send messages, signal DONE, report, return | socket, `netlinkerCh`, DONE channel, NetlinkerStater |
| Inetdiager (`inetdiager`), several per Poller | the message at hand, one structure per attribute, running counts | take a message, send statistics when its ticker fired, walk over the attributes, build and send the record | `netlinkerCh`, InetdiagerStater, UDP, NSQ |
| PollerStater (`pollerstater`) | `oldStatsMap` by family, counters | count loops by difference and long polls | the Pollers' channel, Prometheus, statsd |
| NetlinkerStater (`netlinkerstater`) | counters, the connection to statsd | add what it receives, write it to statsd | the netlinkers' channel |
| InetdiagerStater (`inetdiagerstater`) | `oldStatsMap` by family and id, totals, loop counts | add differences to counters, send totals to statsd now and then | the inetdiagers' channel |
| XTCPStater (`xtcpstater`) | the gauges | run systemctl and ps, parse their output, set gauges; `log.Fatal` when it cannot run them | the process, Prometheus, statsd |
| misc (`misc`) | none | `MaxLoopsOrForEver`; files, permissions, host name | Poller, Disabler |
| `inetdiag` | none | the layout of what `binary.Read` fills | netlinkers, inetdiagers |
| `xtcppb`, `cliflags` | none | type declarations, generated code, a record of flags | |
| wrapper (`src/bundle/scripts/xtcp_wrapper.bash`) | none | environment to flags | starts xtcp |
| tools (`src/tools`) | | clients for debugging, outside the program | |

### What is hard, and what makes each part correct

**The poll.** All netlinkers of a Poller receive from one socket, and the
netlinkers of successive polls follow one another on it. Nothing in a datagram
is compared with the request: that a message belongs to the poll whose time it
is stamped with rests on the Poller's waiting for the DONE and for all its
netlinkers before the next request. The netlinker with the DONE may signal it
while another is still blocked in its send. Correct means: one dump in flight
at a time; each message stamped with the time of its own dump; each sampled
message handled once; a poll that completes when the kernel does its part.

**The channel to the inetdiagers.** It is bounded, netlinkers try to send and
then block, and with `-shutdownWorkers` it is closed and replaced in each poll.
Correct means: nothing is sent on a closed channel, nothing stays in an old
one, and the wait for the inetdiagers ends.

**Receive time-outs.** A netlinker ends at its first receive time-out. Before
the DONE this is premature, and it may end all of them.

**The datagram walk.** A netlinker's reader is over its whole buffer, whatever
was received, and moved by the lengths it reads. Correct means: it takes for a
message what is one, ends for any bytes, and its counters say what was
received.

**The attribute walk.** The reader is moved by three lengths of different
origin. Correct means: it is back at a header whenever it reads one, it ends
for any sizes, it does not panic over what the kernel writes, and the record says
of the socket what the kernel said of it.

**Statistics.** Counters are increased by differences to the last sample.
Correct means: samples of a worker arrive in order, no difference is negative,
the totals add up, a poll that took too long is counted once.

**Startup and end.** Correct means: nothing polls before the first check; main
does not hang at the gate; a disabled xtcp ends; a bounded run ends.

`PROJECT.json` ("hazards") lists the places where each of these bites.

## 2. Modules

    NetlinkSocket  Channels                       PollCycle  (abstract)
          \        /      \                          |
          Netlinker     Inetdiager                   | refined by
                \        /                           |
                  Poller  ---  PollerProperties  ----+
                                     |
                              PollerInvariant --- PollerProofs --- PollCycleProofs
                                     |
                                 MCPoller

    NetlinkerStater --- NetlinkerParse --- NetlinkerParseProperties --- MCNetlinkerParse
                                                    |   \
                      refines Netlinker, step by step    NetlinkerParseProofs
    InetdiagParse, InetdiagStructs --- InetdiagParseProofs, MCInetdiagParse
    XTCPStater --- Startup --- StartupProofs, MCStartup
    PollerStater --- PollerStaterProofs, MCPollerStater
    InetdiagerStater --- InetdiagerStaterProofs, MCInetdiagerStater

    Induction, used by InetdiagParseProofs, InetdiagerStaterProofs and
    NetlinkerParseProofs

| Module | Models | Its state and actions in the code |
|---|---|---|
| `NetlinkSocket` | `xtcpnl.go` and what the kernel does with the socket | `socket` is the queue of datagrams, `answers` what the kernel answered to each request. `SendDumpRequest` is `SendNetlinkDumpRequest`; `Recvfrom` and `RecvfromTimesOut` the two outcomes of the system call; `MessageType` is `CheckNetlinkMessageType`. |
| `Channels` | `netlinkerCh` and the stater channels | `Send`, `Receive` and `Drained` are the operations of a buffered Go channel, `CloseNetlinkerCh` and `MakeNetlinkerCh` the Poller's. A stater channel is only a number of waiting messages. |
| `Netlinker` | `netlinker.go`, as the pipeline sees it | One action per blocking point: receive or time out, read one message of the datagram (skip, send, find the send would block, blocked send), read a control message or NLMSG_DONE, signal DONE, report and return. |
| `Inetdiager` | the pipeline's view of `inetdiager.go` | take a message, report if the ticker has fired, process, return when the channel is closed and drained. |
| `Poller` | `poller.go` | `pollerPc` is the statement the Poller is at; each action runs to the next statement that may block. `Next` composes Poller, netlinkers, inetdiagers, staters and ticker. |
| `PollerProperties` | | the properties of the pipeline |
| `PollCycle` | | what the pipeline promises: polls one after another, each adding messages with its own stamp, each message handled once, nothing left at the end |
| `PollerInvariant` | | the inductive invariants: `PollInv` for one poll at a time, `CycleInv` for what becomes of each message and who waits for whom |
| `PollerProofs`, `PollCycleProofs` | | the proofs of the two, and that the pipeline implements `PollCycle` |
| `InetdiagParse` | `processNetlinkAttributes`, `binaryReadWithErrorHandling`, `buildProto` and the loop around them | `offset` is the position of `inetdiagMsgReader`, `kept` the structures that live as long as the inetdiager, `record` the last XtcpRecord. One action for each `binary.Read` and its failure at the end of the message. `NamePanics` is the algorithm's name that is too short: a negative length for `make`, or fewer than the three letters that are taken of it. |
| `InetdiagStructs` | `inetdiag.go` | a structure is the widths of its fields in order; `Offsets` is where `binary.Read` or a C compiler puts them. |
| `NetlinkerParse`, `NetlinkerParseProperties` | `netlinker.go` byte by byte | `offset` is the position of `packetReader`, `remaining` is `packetBufferBytesRemaining`, `stats` the counters of a netlinker's life; `at` and `whole` remember what the header and the payload read last really are. The outcomes of `Recvfrom`, of each `binary.Read` and of the select are an action each. `pollerWaits` says that the Poller is to receive from the DONE channel, which it does once in a poll: `SignalDone` needs it, the channel having no buffer. |
| `NetlinkerParseProofs` | | where the reader is, what it sends, what is counted, that the walk gets on |
| `NetlinkerStater` | `netlinkerstater.go` and the netlinkers' sends to it | `counters` are the Prometheus counters by id, `udpConn` the connection to statsd, `udps` the messages written there. |
| `XTCPStater` | `xtcpstater.go` | `pid` and `fields` are what systemctl and ps said, `gauges` what Prometheus shows. A line of output is a sequence of words. |
| `Startup` | `main`, `disabler.go`, the life of XTCPStater | `process` says whether and how the process ended; one action for each blocking point of main and the Disabler. |
| `PollerStater` | `pollerstater.go` and the Pollers' sends to it | a poll is one step; a duration is whether it is too long. |
| `InetdiagerStater` | `inetdiagerstater.go` and the inetdiagers' sends to it | one count stands for the eight of a sample; `Panic` is Prometheus' answer to a negative `Add`. |
| `InetdiagParseProofs`, `StartupProofs`, `PollerStaterProofs`, `InetdiagerStaterProofs` | | the proofs about the module each is named after, the first also about `InetdiagStructs` |
| `Induction` | | lemmas for the proofs: induction over the natural numbers, and sums |

Operators whose comments begin with "Mutant of" are faults of the kind the
properties are meant to find: each stands before the definition it is a
variant of, no specification uses it, and `PROJECT.json` ("mutants") says which
property fails when it takes the place of that definition.

### Abstractions

* A message is the poll it was dumped in, its datagram and its place there,
  and the time it is stamped with; poll *p* begins at time *p*.
* Kernel dumps come from the constant `Dumps`. They are well formed: datagrams
  of data and control messages, at most one NLMSG_DONE, at the end.
* `KernelPrompt` says that a receive time-out happens only when there is
  nothing left to receive in a dump; without it, it may happen at any time.
* Time-outs and ticks are choices: a tick may come whenever the last one has
  been taken.
* In `NetlinkerParse` the Poller is reduced to starting the netlinkers of a
  poll and taking one DONE, and the inetdiagers to taking messages. A datagram is its messages'
  headers and where they start; the durations, how many writes to statsd fail
  and what they say are left out. (A header read never fails in this code: the
  bytes that remain are always in the buffer, `NetlinkerParseTypeOK`.)
* The messages of an inet_diag dump are those of established sockets, which is
  what the request asks for, so that each has tcp_info and an algorithm.
* Attribute contents are the message they are from and one bit, where the code
  looks at the content; bytes that are no header look like any of `Strays`.
* Deliberate bounds: `MaxLoops`, `MaxMessages`, `MaxRestarts`, and in
  `Startup` the loop count of a Disabler that runs for ever stays at 1;
  `MaxDatagrams` bounds datagrams and failing `Recvfrom`s.

## 3. Runs

Passing runs. Every property of every one of them is broken by a mutant.

| Run | Asks | Bounds, and why they are enough |
|---|---|---|
| `poller_workers_kept` | types, one dump in flight, right stamps, each message once, refinement of `PollCycle` | 2 netlinkers, 2 inetdiagers, 2 polls, one-slot channels, dumps that are empty, of one datagram, and of three with one cut short by a control message. Two polls are needed for a message to meet the next request, two netlinkers for one to signal DONE while the other sends, one slot for sends to block. |
| `poller_workers_shut_down` | no send on a closed channel, nobody who waits for what nobody will do, both invariants of the proofs (`CycleInv` has each message once in it), refinement; polls complete, dumps are handled over each replacement of the channel, the Poller returns | as above with `-shutdownWorkers`, and sampling and reporting every second message, so that not every message is one to be sent and sampling counts restart in each datagram |
| `parse_kernels` | the reader stays in step; records say what their message says; padding is counted exactly and nothing twice; every walk ends, and panics over no message of theirs; the structures are the kernel's | four messages in any order out of those of six sockets, half of them of kernels whose structures are as large as this program's or larger, half of kernels where they are smaller; odd lengths, the real sizes of the structures, eight kinds of stray header, two of them names too short. Three messages suffice for an earlier one to leave something behind and for the report modulus to skip one. |
| `netlinker_bytes` | what the counters say of plain datagrams that fit the buffer; foreign bytes go out only where a buffer cuts a datagram; no panic over plain datagrams; the walk refines `Netlinker`; each life is counted | 2 netlinkers, one-slot channels, every second message sampled; dumps of two datagrams and of one with DONE, of one with a control message before its last, and of one with other flags, whose payloads may look like a DONE before the real one; buffers that hold them all, that end inside a payload, in a header or right behind one, and that hold no header. Two datagrams let one be read over another's leftovers. |
| `startup_bounded` | the gate, one signal, an end to a bounded process; what XTCPStater's gauges show | both families, 2 loops; the operator may change the variable at any time, the command may fail; systemctl's output with and without a journal line that names a PID, and of a service that never ran; ps finds the process or not |
| `poller_stats` | the counters of loops and of long polls | two Pollers with four polls each, a channel of two |
| `inetdiager_stats` | samples in order and no decrease until workers are started anew; totals; blocked samples counted | three workers of two families, two messages each, one restart at any time or none, a channel of two, so that sends block |

Runs that TLC must find violated, each a disagreement of the code with
something the repository says (`PROJECT.json`, "findings", quotes both sides):

| Run | Shows |
|---|---|
| `poller_slow_kernel` | a pause of the kernel longer than `-timeout` before the DONE ends every netlinker, also with workers held open, and the Poller waits for the DONE for ever |
| `poller_max_loops` | `-maxLoops 1` makes two polls, where the comment of the loop's condition and the flag's text promise one |
| `parse_stale_record` | a socket whose message lacks an attribute that its record carries is reported with an earlier socket's: bbrinfo, where the algorithm is taken for BBR by its first three letters and gives none |
| `startup_default_command` | with the default `-disablerCommand`, which no shell expands, xtcp cannot be disabled; with `CommandExpands = TRUE` in the same configuration `DisableEnds` holds |
| `inetdiager_stats_restart` | with `-shutdownWorkers` a counter is asked to decrease, which panics |

Other disagreements met on the way have no run of their own:

* With `-timeout 0` netlinkers never return, and there is no second dump.
* The check of attribute sizes at `inetdiager.go:56` only logs; the read goes
  beyond the attribute all the same (`ParseEnds` is about what follows).
* The inetdiagers' counter of bytes lacks the contents of attributes that no
  padding follows (`inetdiager.go:594`), though its help says "inetdiager buffer
  bytes read" (`inetdiagerstater.go:106`) and `stats_and_perf.md:35` compares it
  with the bytes sent. `BytesAccounted` claims only what is true of it: it never
  exceeds what the messages have, and padding is counted exactly.
* A datagram larger than the buffer loses its end, and the message at the cut
  is sent on, and counted, as a whole one, of zeros
  (`ForeignBytesOnlyAtTheCut` says it is only that one).
* The netlinkers' counter of bytes in lacks receipts shorter than a header,
  though its help says "amount read from the kernel" (`netlinkerstater.go:112`),
  and "buffer bytes read" (`:130`) counts the lengths that headers announce, also
  of payloads that are not there. `CountersOfDatagrams` is about plain datagrams
  that the buffer has room for, where neither matters.
* Messages with flags besides NLM_F_MULTI are not skipped: their payload is
  walked over as if it were headers. `EachLifeCounted` says that this ends,
  unless an NLMSG_DONE is read there: the Poller takes it for that of the dump,
  and the netlinker with the real one blocks for ever (`DoneUnheard`).
* A `net.Dial` that fails is only logged, and the deferred `Close` of the nil
  connection then panics, in every stater and in the inetdiagers
  (`PlainDumpsDoNotPanic`, `DialFails` of `XTCPStater`).
* The gauge `sz` of XTCPStater is set from `rss` (`xtcpstater.go:303`),
  though its help says "ps -o sz" (`:225`); `GaugesOfPs` is about the other two.
* The statistics of the last poll are never sent (the third term of
  `LongPollsCountedOnce`).
* The totals for statsd go out by a count of both families' samples, not once
  for each set of workers as `inetdiagerstater.go:306` says (not modelled).

Deadlock is checked in the pipeline's runs, where `Terminated` is the one
state without a step. In `Startup` the operator can always act, and liveness
takes its place. It is not checked in the models that stop at a bound
(`MaxMessages`, `MaxLoops`) or at the end of the process.

### Fairness

* Pipeline (`FairSpec`): weak fairness for each goroutine (Poller, each
  netlinker, each inetdiager, each stater) and for the ticker. The Go scheduler
  runs a goroutine that can go on, and `time.Ticker` fires. The receive
  time-out is part of a netlinker's step: with `SO_RCVTIMEO` the call returns.
  The runs assume the kernel is prompt and ends its dumps with NLMSG_DONE;
  `poller_slow_kernel` shows what happens otherwise.
* `FairParseSpec`: one goroutine goes on.
* `FairNetlinkerParseSpec`: the netlinkers, the stater and a taker of messages
  go on while nothing has panicked; blocked sends, of messages and of reports,
  are strongly fair, as in the last item. The Poller takes the DONE it waits for.
  `MaxDatagrams` bounds the failures of `Recvfrom`: one that fails for ever
  (`netlinker.go:155` tries again at once) is assumed away.
* `FairStartupSpec`: main and the Disabler go on, the ticker fires, and a
  Poller with a bound on its loops returns (which `PollerReturns` of the
  pipeline shows under its own assumptions). Nothing is asked of XTCPStater or
  of the operator.
* `FairInetdiagerStaterSpec`: the stater goes on, and a blocked send is
  strongly fair, since blocked senders of a Go channel are served in turn and a
  new sender does not overtake them.

## 4. Proofs

Every invariant and every action property that a passing run checks is also a
theorem. A theorem holds for every
value of the constants under the named assumptions of the modules: channel
sizes and moduli are not 0, flags are Boolean, dumps are well formed. Some
say in their statement that they need more: what becomes of a message and the
refinement of `PollCycle` need an inetdiager (`Inetdiagers # {}`), who waits for
whom needs a netlinker too, and what a record says needs messages as kernels
write them (`AsWritten`). That the counters say what was received is claimed of
plain datagrams for which the buffer has room.

The list of the theorems is `PROJECT.json` ("theorems"); what follows is the
argument of each.

### One poll (`PollerProofs`)

`TypeCorrect`, `OneDump`, `RightTime` and `NoPanic` say that `TypeOK`,
`OneDumpInFlight`, `TimeSpecOfItsDump` and `NoSendOnClosedChannel` are
invariants of `Spec`, for any number of netlinkers and inetdiagers and for
kernels that are late or do not send NLMSG_DONE. None of the last three is
inductive. `PollInv` (`PollInvariant`) adds what the Poller relies on at each
of its statements: NLMSG_DONE is the last thing on the socket (`DoneIsLast`),
so a Poller that has seen it knows the socket to be empty; no netlinker lives
outside the stretch from its start to the wait for it (`PollStages`), which
needs every netlinker to be at a message of a datagram or at its end
(`ReadingInPacket`); the channel is open while workers run (`WorkersStages`);
clock and number of requests agree (`PollNumbers`); and so whatever is in the
pipeline has one stamp (`OneTime`). Types are proved first and used throughout.

### What becomes of a message (`PollCycleProofs`)

`NoneLostOrTwice` is `EachMessageOnce`: a sampled data message of a dump is in
one place only, on the socket, in a netlinker's hands, in the channel, in an
inetdiager's hands or among the handled ones, and it is in one of them. This
is an invariant only together with where the netlinkers and the workers are
(`CycleInv`, theorem `CycleInvariant`): a netlinker that would block in its
send holds a message that is one to be sent, and has read only data before it
(`ReadInOrder`); an inetdiager returns only while the Poller waits for it, with the
channel drained, and new ones start with nothing left for the old
(`WorkersEnd`); and
the number of rounds at each of the Poller's statements (`LoopNumbers`), which
gives `OnePollMore`: the run `poller_max_loops` shows that there is a poll more than
`-maxLoops` says, and the theorem that there is never a second.

`PipelineImplementsPollCycle` maps each step of the pipeline to a step of
`PollCycle` or a stutter: a request to `Begin`, an inetdiager's processing of a
message to `Handle`, the end of the wait for the netlinkers or for the
inetdiagers to `End`, the return to `Stop`, everything else to a stutter. That
a dump adds only messages of its own poll and stamp, and that the return finds
an empty pipeline, is `PollInv` and `CycleInv`.

Without an inetdiager the wait for them ends at once, and with
`-shutdownWorkers` the channel is replaced with messages still in it: hence
the assumption. The code does not check that `-inetdiagers4` is not 0 (see
"hazards"); every other value meets it.

`WaitsServed` is `WaitsAreServed`, the safety half of `PollCompletes`: in no
state does somebody wait for what nobody will do. The kernel being prompt and
its dump ending in NLMSG_DONE, the DONE that the Poller waits for is with a
netlinker, or last on the socket with a netlinker that has not given up; the
channel for it has no buffer, but one netlinker at most sends on it and the
Poller is there to receive; a netlinker with messages has an open channel and
an inetdiager that has not returned; and the Poller waits for its netlinkers or
inetdiagers when nothing is left for them. The part of `CycleInv` it needs is
`WhereDoneIs`: who has a datagram that ends its dump is alone with it, and
before the DONE is received *all* netlinkers are still there, not just one,
because one ends on an empty socket only. What the theorem adds to the
invariant is that a set of workers is not empty: `Netlinkers # {}` and
`Inetdiagers # {}`, which the code assumes of `-netlinkers4` and
`-inetdiagers4` and does not check. A dump without NLMSG_DONE and a late kernel
are left out by the hypotheses of its first part only; `poller_slow_kernel` is
what comes of the latter. That somebody who can go on does go on, and the Poller
with it, is `PollCompletes`, and stays with TLC.

### The datagram walk (`NetlinkerParseProofs`)

`NetlinkerParseInv` (`WalkInvariant`) has two layers. For whatever is received
the reader stays in the buffer, and what remains is what was received less what
was read (`InBuffer`): this is `NetlinkerParseTypes`, for any stray bytes. For
plain datagrams, which are data with NLM_F_MULTI and control messages, the
reader is at the header of message `netlinkMsgCount + 1` of it whenever it reads
a header (`InStep`), and a payload that is not whole is the last one
(`OwnBytes`). From it `PlainDumpsAreSafe` (what is taken for a header is one,
and a panic is a failed dial) and `OwnBytesAreSent`.
`BytesImplementNetlinker` shows that each step over the bytes of plain
datagrams is one of `Netlinker` over their messages; the lemmas it rests on
say which messages of a datagram are received and that the next of them is
where the last one ends (`DatagramStartsGrow`, by induction).

`CountersAddUp` is `CountersOfDatagrams`: when a netlinker is between two
datagrams, what Prometheus has of it, what is in the channel to the stater and
what it has counted in this life add up to what the datagrams it has
received amount to, all of them being plain and no larger than the buffer. The
proof has it for plain datagrams that the buffer cuts, too (`WalkCounts`, with
what the code counts of those), and `CountsOfWhole` that it makes no difference
for one that is not cut. The invariant `CountInv` says this in the middle of a
datagram too: what is counted and what the position of the reader leaves to be
counted (`ToCount`) is what is due.

`DatagramWalkTerminates` says `EachStepNearsTheEnd`: the loop over the messages
of a datagram has a measure, `StepsLeft`, which each of its steps lowers and
nothing but a received datagram raises. It is four for each header that the
bytes remaining have room for, so that a datagram of n bytes is done with after
4 * (n div 16) steps, blocked sends included. It needs `InBuffer` only, which
holds of any bytes: a negative length panics, and no other moves the count of
the bytes remaining upwards. TLC checks it on the instance of `netlinker_bytes`.

### The attribute walk (`InetdiagParseProofs`)

`ReaderInStep` says that `HeadersInPlace` is an invariant: in every message
whose attributes are at least as large as this program's structures for them,
the reader is at a header or the end whenever it reads a header, whatever
messages were before. The invariant `InStep` follows the position through
header, content and padding: what is read and what is padded add up to the
kernel's aligned length. Without the condition on the sizes the reader does go
astray. `ParseTypes` needs no such condition:
the reader does not leave the message (`offset` is at most its size).

`RecordsTheMessage` is `RecordOfMessage`: the record of a message says of each
attribute of the message what that attribute says, although the structures
are those of the messages before. `RecordInv` says what has been stored when
the reader is at the i-th attribute. The assumption `AsWritten` is what inet_diag
does: an attribute is there once (`binary.Read` would let the last one win),
and bbrinfo only for a socket whose algorithm is BBR. What a record says of
an attribute that its message lacks is a finding (`parse_stale_record`).

`BytesOfMessage` is `BytesAccounted`, by `CountedSoFar`: after i attributes the
position is the sum of what was read of them and padded, and the byte counter
is not ahead of it.

`PlainMessagesAreSafe` is `PlainMessagesDoNotPanic`: the reader being at an
attribute of the message whenever it reads a header (`ReaderInStep`), a name too
short would have to be one of the message's own, which `NamesFit` excludes.

`WalkTerminates` says `WalkAdvances`: each step of the walk over a message lowers
`StepsLeft`, at first 3n + 2 for n bytes of attributes, whatever the structures'
sizes and whatever is taken for a header; a name that panics ends it too. TLC checks it on the instances of
`parse_kernels` and `parse_stale_record`.

`StructsAreTheKernels` is `FieldsInPlace`. Where a C compiler puts a field is a
recursion over the fields before it, as where `binary.Read` takes it from is.
`OffsetsAre` shows that each recursion has one solution, and `OnWidthsNoPadding`
that the two agree for every structure whose fields, one right behind the
other, begin at multiples of their widths; the rest is where the fields of
each structure are.

### Startup and statistics

`StartupProofs`: `PollsAfterCheck` and `SignalledOnce`, from `GateInv`: until
the Disabler has signalled, main is before the gate; after that the Disabler
has seen xtcp enabled and signals no more. `GaugesAreOfPs` from `StatsInv`: what
XTCPStater's gauges show is what ps answered last, since what it found is kept
until it finds a process again. `StartupTypes` for both.

`PollerStaterProofs`: `LoopsCounted` and `LongPollsCounted`, from
`PollerStaterInv`: each sample in the channel has the number of loops that is as
far behind the Poller's as there are samples of that family behind it, so that
the differences are all one; and the long polls of a family are those
counted, those in the channel and the one still to be sent.

`InetdiagerStaterProofs`: `SamplesArriveInOrder` and `DecreaseNeedsRestart`, for
as long as no worker has been started anew: the samples of a worker in the
channel are ordered, from the last one received to its present count.
`CountersOnlyGrow` draws the conclusion for workers that are kept.
`TotalsAreSums` says that the total of a family is the sum over its inetdiagers
of the last sample of each; that the families are finitely many is in the
module's assumption.

### Induction, sums and numbers of things

The provers take no theorem with an operator for a parameter, so induction is
over a set of numbers instead: `Induction` derives from the library's theorem on
finite subsets that a set of numbers has a least element, and from it that a
set with 0 and the successor of each of its numbers has them all. With it, that
a sum (`SumFunctionOnSet`) over a finite set does not depend on the order, by
the uniqueness of the recursive function behind it, and what a new, a grown or
an added term does to a sum. Properties that count a thing which is in one of
several places are stated by sums, or by distinctness instead of cardinalities.

### Only model-checked

* All liveness (`PollCompletes`, `DumpsHandled`, `PollerReturns`, `ParseEnds`,
  `EachLifeCounted`, `GateOpens`, `BoundedRunEnds`, `BlockedSampleCounted`): it
  depends on fairness, hence on ENABLED, which this prover does not handle.
  What of it is safety is proved: that nobody waits for what nobody will do
  (`WaitsServed`) and that the walks get on with each step (`WalkTerminates`,
  `DatagramWalkTerminates`). The two staters' and main's liveness has no such
  half of its own: they wait for one channel each.
* The properties of the runs that TLC finds violated, of course.

## 5. Not modelled

* The `log.Fatalf` with which opening the socket and sending a request fail
  (`xtcpnl.go:47`, `56`, `76`, `191`) and end the process.
* An inetdiager's message too short for an inet_diag_msg
  (`inetdiager.go:732-745`), which is taken for one with the fields of the one
  before. The kernel sends none; `NetlinkerParse` says which of the netlinkers'
  messages are of bytes that are not their own.
* A channel size, a modulus or a number of workers of 0: the code does not
  check these flags (`hazards`); the assumptions exclude the sizes and moduli,
  and the theorems that need it the numbers of workers.
* The sequence numbers, which the code writes and does not read.
* Two Pollers side by side: they share nothing but the stater channels (see
  `PollerStater`, `InetdiagerStater`); the offset of half a period for IPv6.
* The fields of the protobuf one by one, the byte order of ports and
  addresses, and what becomes of a record once it is written to UDP or NSQ.
* The bytes of the dump request, whose flags are constants of the caller.
* The content of statsd messages and, but for NetlinkerStater, their number;
  the counters of failed UDP writes; the gauges and histograms of durations;
  when InetdiagerStater sends its totals.
* Profiling, flag parsing and the Prometheus listener of main, and the wrapper
  script: one pass over arguments without state. The tools are programs of
  their own.

## 6. Plan

Done, in this order: the pipeline and its abstract specification; its safety
proofs; the attribute walk; startup; the two staters with old samples; the
netlinkers' walk over bytes and its refinement of `Netlinker`; the layout of
the structures; XTCPStater; the proofs of all invariants
and of the two refinements; the safety half of what liveness rests on.

Left:

1. A shorter argument for the counters, whose proof is the longest.
2. The measures of the walks, put together with `WaitsServed` to a bound on the
   steps of a poll.
