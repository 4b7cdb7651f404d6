# A TLA+ model of bacnetsim

bacnetsim is a BACnet MS/TP master for a serial line that also *simulates*
other stations: when a station has been silent for 10 s, the program answers
polls in its name.  It is one single-threaded loop: read a byte, check whether a
frame is complete, act on it, look at the timers, sleep 100 µs.  The concurrency
is between that loop, the clock, and the other stations on the line.

This directory holds TLA+ modules of the program, TLC configurations that check
them on small instances, and TLAPS proofs for every value of the constants.

## 1. Inventory

| component | source | state | operations |
|---|---|---|---|
| **RecvFrame** | `mstp/recvframe.*` | 1024-byte `buffer`, `start`, `index`, timer `t` | `push`, `Check` (`CheckHead`, `CheckData`), `clear`, header getters and setters |
| **Bacnet** | `mstp/bacnet.*`, `test/bacnet.cpp` | `tokenhold`, `pollindex`, `invokeid`, `instancelist`, the map `devices` of last-heard times, `tokentime`, `recvtime`, `sendtime` | `Run`: `RecvCom` → `ProcFrame` → `Dispatch` → `Token`/`PollMaster`/`PollMasterAck`; `PollDevice`; `DoRequest`; the refill in `main` |
| **TimeOperator** | `mstp/timeoperator.*` | a `timeval` | `init`, `sdiff`, `mdiff`, `udiff` |
| **CRC** | `mstp/mstpcrc.*` | – | table-driven header and data check sums |
| **SendFrame** | `mstp/sendframe.*` | 512-byte `buffer`, `m_length` | `ReadReal`, `WriteReal`, `WriteEnum` via `MakeFrame` |
| **NPDU** | `mstp/npdu.*` | a packet with a movable data pointer | `parse_npdu`, `init_npdu`, `add_npdu_header` |
| **APDU** | `mstp/make_apdu.*` | – | one builder per service, segmentation |
| **Primitive codec** | `mstp/bacdcode.*` | – | tags, integers, reals, object ids, strings, dates |
| **Serial port** | `uart/*` | file descriptor, flags, the device's `c_cflag` | `Open`, `Set`, `Block`, `SetMode`, `Close`, read and write |
| **testmstp** | `test/testmstp.cpp` | its own frame, token flag | an older master on RecvFrame alone |
| Drivers, configuration | `test/mstpframe.cpp`, `uart/test.cpp`, `conf.h`, `makefile` | – | – |

**Interaction.** `Bacnet::RecvCom` reads one byte from the port, pushes it into its
RecvFrame and calls `Check()`; for an accepted frame `ProcFrame()` dispatches
on the header, may rewrite that header *in the receive buffer* and send the
buffer, and `clear()` follows.  `DoRequest()` builds a SendFrame out of APDU, NPDU
and codec.  All decisions on the bus depend on the ages of four kinds of timers.

**What is hard here.**

* *Resynchronisation*: `start` advances over rejected bytes and by a 500 ms
  timer, `index` counts from the beginning of the buffer, compaction moves both.
* *Reuse of bytes*: `clear()` resets two numbers, the remains of earlier
  (rewritten) frames stay in the buffer.
* *The token*: `tokenhold` is set by one frame, cleared by another, and read by
  a timer in between; requests have two senders.
* *Standing in for others*: whether a station is gone is a matter of timers that
  every frame on the line restarts; two simulators may stand in for the same one.
* *The bus*: nobody repeats a lost token, and an answered poll sends the token to
  somebody else than who answered.
* *Progress*: polls and requests restart the same `sendtime`; reception restarts
  `recvtime`; a token restarts `tokentime`.
* *Boundaries* in the codec and in time arithmetic (8, 16 and 32 bit).

**What makes each component correct.** RecvFrame: nothing is stored outside the
buffer, every frame is accepted exactly once it is whole, garbage does not
prevent later frames.  Bacnet: it sends requests only under a token, in the names
of absent stations only, repeats nothing within a round, finds every station,
serves all requests.  Codec and NPDU: what is encoded decodes to itself and has
the announced length.  CRC: the tables compute the polynomials.  SendFrame:
what it builds the receiver accepts, and nothing else.  Serial port: what `Set()` was asked
for is what the device gets.  Timers: a gap
that has passed is seen to have passed.

`PROJECT.json` lists the hazards by line, with the properties that cover them.

## 2. Plan

1. *(done)* `RecvWindow`, `RecvFrame`: the receiver, its positions and its bytes.
2. *(done)* `Bacnet`, `BacnetMonitor`: one node against an arbitrary bus; `Requester`, what
   it promises about its requests.
3. *(done)* `Bus`: two nodes on one line, with a lost frame and a restart.
4. *(done)* `Bacdcode`, `MakeApdu`, `Npdu`, `Mstpcrc`, `SendFrame`, `ComPort`, `Segment`, and
   `Packet`, which takes a message through all of them and the receiver.
5. *(done)* `TimeOperator`: clock readings in 32 bits.
6. *(done)* Proofs of every safety property that the runs check.

## 3. Modules

### RecvWindow — the bookkeeping of the receive buffer

| TLA+ | code |
|---|---|
| `off`, `idx` | `start - buffer`, `index` |
| `quiet` | `t.mdiff() > 500` |
| `pc` | position in the loop of `Bacnet::RecvCom`: before the read, before `Check()`, before `clear()` |
| `Push` = `StoreInPlace` / `StoreCompacted` | `push()` with and without the `memmove` |
| `CheckAccept`, `ContentSkip`, `TimedSkip`, `CheckWait` | the outcomes of `Check()` |
| `Clear`, `NoByte`, `Elapse` | `clear()`, a read without a byte, 500 ms passing |

What bytes say is left open: any window of at least a header may be found bad,
and any window of a possible length acceptable.  Faults (a store
above or below the buffer, a `memmove` of negative length) are states in which
the model stops, since C++ defines nothing after them.  `lull` is a history variable.

### RecvFrame — the receiver with its bytes

Adds the buffer's contents, `HeadGood`/`DataComplete`/`DataGood` for the tests in
`CheckHead()` and `CheckData()`, the rewriting of headers by `PollMaster()` and
`PollMasterAck()` before `clear()`, and a line that carries transmissions of the set
`First` and then `Traffic`, byte by byte.  The check sums are parameters.
`rx`, `skipped`, `fresh`, `lulls` are history.  `RecvWindowSpec` is the
refinement: the mapping is the identity on the shared variables.

### Bacnet — one node

`pc` walks through `main()` and `Run()`; one action per handler and per
timer branch.  Timers are ages that saturate at the largest gap a test compares them
with, so nothing the code distinguishes is lost.  `devices[s] = NoEntry` is a
missing entry of the map, which `operator[]` creates (`Looked`).  An entry of `instancelist` is the record of
class `Instance`; `RequestFrame` is what `DoRequest()` makes of it, which switches on the sum of
mode and type: `'r'` with `'A'`, `'B'` or `'M'` is one and the same read of an analog value, so that different
entries may be the same request on the line, and a sum that it does not know sends nothing.  `SendCom` may fail when
`WriteMayFail`; nothing in the code looks at the result.  Frames come from the set
`Incoming`, any of them in any iteration: the other stations are an adversary.
`wire` is what the last step sent.

### BacnetMonitor — an observer of the line

Keeps its own record (`heard`, `granted`, `asked`, `infos`) from the frames and the clock
alone, so that the properties compare the node's behaviour with what the line
shows and not with the node's own variables.  `asked` counts each request as its receiver would read it:
`AskedAsListed` allows as many as the list has entries that look like it (the list of `test/bacnet.cpp` has
two for analog value 103, `(1,'r','A',103)` and `(1,'r','B',103)`).

### Requester — what a node promises about its requests

An abstract specification with three variables: the bus has granted the node its turn, what
is left of the round (as it looks on the line), what was last said.  `BacnetMonitor` implements it
(`ImplementsRequester`): `granted` is the observer's record, `todo` is `Seen(instancelist)`, `said` is
the request on the line.  Timers, polls, stand-ins and the two senders of requests are gone.

### Bus — two nodes on one line

Two instances of `Bacnet`, `A` and `B`, share `wire` (`sent`); what one sends is queued to the
other (`toA`, `toB`).  `RunA` is a step of the loop, `DeliverA` the
iteration in which a frame is complete.  `Lose` is noise or a collision, `RestartB` ends
the process and starts another.  Both nodes may poll at once, hold the token at once and
answer in the same name.  A frame takes less than a tick (100 ms; a header takes 8 ms at
9600 baud) and an iteration far less, so a `Tick` waits until no frame is under way and
each loop has gone round.

### Bacdcode, MakeApdu, Npdu, Mstpcrc, SendFrame, Packet — a message and its octets

`Bacdcode` has an operator for each kind of encoder and decoder of `bacdcode.cpp`: an
encoder is the sequence of octets it writes, a decoder yields what it takes and the
value.  A 32-bit integer is its four octets (`Word`), since TLC's own integers do not
hold one.  The context encoders of integers, reals and object identifiers write the content behind one octet before
they write the tag; with a tag number above 14 the tag takes two, and `Overwritten` is what they leave: the first octet of
the content is lost, and the last one counted is what the buffer held (`Stale`, any octet).  `MakeApdu` has the services of `make_apdu.cpp`, each as
its fixed first octets and the list of fields encoded behind them; a parameter that
may be `NULL` is a sequence of none or one value.  `Npdu` has `add_npdu_header()`, with
the header written over what it meets when it does not fit the space made for it, and
`parse_npdu()`.  `Mstpcrc` has the two tables entry by entry, the macros, the loop over the octets
(`Through`, written by halves so that TLC's recursion stays flat; `ThroughRun` proves that it is one octet
after the other), and apart from them the division by the polynomials, one bit at a time.  `SendFrame` has `MakeFrame()`, `<< >>`
where the code answers false, and the three requests.

`Packet` composes them.  `Send` encodes a service, its header and the frame around it;
`Damage` turns over bits of one octet on the line, or lets `write()` take a part of the
frame; `Hear` is `RecvFrame.tla`'s own `Check()` (`INSTANCE RecvFrame WITH` the octets that have
arrived so far as its window, and the real check sums), byte after byte from an empty
buffer; `Parse` is `parse_npdu()` of a receiver, and each `Read` decodes
the next field where the last one ended, as a program that uses the decoders
would.  If a decoder refuses a field, the model deadlocks.
The simulator itself sends three of the services, without addresses, and
decodes none; the receiving program above `RecvFrame` is external.  Packets above the 256 octets that
`RecvFrame` takes are parsed without it, since `parse_npdu()` does not depend on where they
come from.

### ComPort — the serial port

`fd` is the path of the open device or `NotOpen`; `tty` has for each device a record of
the bit fields of `c_cflag`, which the setters of `accesstermios.c` change one after the
other from `Cleared`.  `Packet` sends only through a port set up as `test/bacnet.cpp` does it (`Ready`), and
takes the steps of the port between two messages.

### Segment — a long answer

The octets of an answer are their positions, computed in 16 bits (`Word16`) as
`segmented_c_ack_pdu()` does.  The program that calls it with one sequence number after
the other is external; the receiver's view is `joined`, `whole`, `torn`.  `size` is what the call puts into
the packet, whose buffer has `MaxApduLen` octets for it.  The code leaves it to the caller to ask for segments of 6 to
`MaxApduLen` octets (`AnswersAssumption`); a larger segment would be written behind the buffer, after
which nothing is defined, and is not modelled.

### TimeOperator — the age of a timer

Definitions only: `sdiff`, `mdiff`, `udiff` of two clock readings, with C's division and the
conversion to `int`.  There is nothing to run, but everything to prove (section 5): the ages that the
other modules have in their place are right as long as `TimersRight` and `SecondsRight` apply.

`MCRecvFrame`, `MCBacnet`, `MCBacnetMonitor`, `MCBus`, `MCPacket` give values to the constants;
`*_proof` hold the proofs.

## 4. Runs

| run | question | result |
|---|---|---|
| `window` | real sizes 1024/8/256: do bytes always fit, and when can `push()` go wrong? | `EveryByteFits`, `FaultNeedsLull` hold |
| `window_fault` | does no push leave the buffer? | violated after 205 bytes of garbage and 7 silences |
| `frames_clean` | frames only: is each delivered at once, forever? | `FrameDelivered`, `KeepsAccepting` hold |
| `frames_noisy` | pairs of frames, broken frames, fragments, with silences | `WindowIsStream`, `AcceptExactly`, refinement hold |
| `frames_deaf` | one glitch, then good frames | `KeepsAccepting` violated |
| `node` | one node, any frames, failing writes, ticks anywhere | `NeverClaimsLiveStation`, `RequestNeedsToken`, `AskedAsListed`, refinement of `Requester` hold |
| `node_live` | does a silent bus get searched, do all requests get their turn? | `PollsEveryStation`, `RequestsServed` hold |
| `node_info_frames` | at most one information frame per token? | violated |
| `node_station_255` | is 255 never a station? | violated |
| `bus` | two simulators alone, a lost frame, a restart: does the bus come to life and serve both? | `BothServed`, `OneExchange` hold |
| `packet` | is every service understood, with every header? is a frame taken exactly when it is whole? | `HeaderUnderstood`, `FieldsUnderstood`, `FrameTaken` hold |
| | do the check sums leave the remainders of the polynomials? the port its settings, the segments the answer? | `CheckSumsRight`, `SettingsHold`, `SegmentsJoin` hold |
| `packet_wide` | and integers of four octets? | `FieldsUnderstood` violated |

### Findings

* **A byte stored outside the buffer** (`recvframe.cpp:68`).  The run pushes 205 bytes that are
  no frame.  `CheckHead()` drops 198 of them as they come; the last seven are less than a header, and go
  in seven silences of 500 ms, because the timer of `Check()` advances `start` however few
  bytes there are.  `start` is then more than `size() / 5` = 204 bytes in, and the next
  `push()` compacts a window of length 0: `index` becomes −1 and the byte is stored at `buffer[-1]`.
  Without the silences it cannot happen (`FaultNeedsLull`).
* **Deaf after one glitch** (`recvframe.cpp:72`).  `start[index++]` counts the distance
  between `start` and `buffer` twice.  After one dropped byte every byte leaves a hole
  in the window, and no frame of an endless stream of good ones is accepted.
* **More than one information frame per token** (`bacnet.cpp:30`), against `sendframe.h:30-37`.
* **Station 255** (`bacnet.cpp:213`), against `sendframe.h:7-8`: polls sent to the broadcast
  address create an entry in `devices`, and 10 s later are answered with source 255.
* **Integers of four octets** (`bacdcode.cpp:1063`, `:1133`, `:1188`, `:1273`): the encoder shifts the
  first octet by 26, the decoders overwrite it.  `WideUnsignedLost` proves
  that none of these values survives.  The range of `who_is` and `who_has` is encoded this way.
* **Tag numbers above 14** (`bacdcode.cpp:619`, `:647`, `:1081`, `:1330`, `:1388`): these encoders assume
  that the tag takes one octet (`:618`, `:646`), and `encode_tag()` overwrites the first octet of their content
  with the tag number (`:230`).  `ObjectShifted` proves
  that the decoder then returns, with no error, the object of the other three octets and one that was
  never written.  The services of `make_apdu.cpp` use tag numbers up to 4.
* **The end of a long answer** (`make_apdu.cpp:440`): `data_end` wraps at 2^16.  The last segment of an answer of
  65535 octets in segments of 360 ends at octet 142: `WrappedSegmentEmpty` proves that such a segment is empty
  and announces more.

### Bounds, and why they are enough

* `window`: real sizes; `OffBound = 210` stops the lulls just beyond the compaction
  threshold of 204, above which `start` returns to 0 or the program has failed.
* `frames_*`: buffers of 18 or 20 bytes, one data byte, a threshold of 3 or 4.  The
  proofs need only `2 * (Size \div 5) + FrameMaxLen < Size` and hold for 1024.
  The check sums of the instance tell its frames and broken frames apart.
  `frames_noisy` starts with every pair of `Pieces` and ends when they have arrived; four silences
  suffice to drift over the threshold and to compact an empty window.  `lulls` is
  bounded by `MaxLulls`, `start` by `OffBound`.
* `node*`: two polled addresses of 128, an index of 4 values (`IndexMod` is a
  multiple of `NumPoll` as 256 is of 128, so it wraps twice), gaps of 1 or 2 ticks in the order
  of the real ones, three requests of which two look alike (`MCBatch`); `node` has two that look alike, one that
  `DoRequest()` does not know, and two writes (`MixedBatch`).
* `bus`: a node waits 10 ms times its address before it polls, so the time to fall silent
  orders the nodes; what matters is SendGap < RecvGap < TokenGap < DeviceGap.  The real
  gaps (1, 2 and 13, 30, 110 ticks of 100 ms) were tried and hold as well, but with the
  restart they take 1.5 million states; the gaps of the instance (1, 2 and 5, 8, 14) keep the order, and `DeviceGap` is longer
  than it takes both nodes to poll all addresses.  Three addresses: the two nodes and one that is
  not there, which both will stand in for.  One frame is lost and one node restarted, each at
  any point, `MaxLost` and `MaxRestarts`.
  With `RecvGapB` ≤ `SendGap` (an address up to 10) `BothServed` does not hold: that
  node polls every 100 ms and the other never finds the line quiet.
* `packet`: the branches of the codec depend on the length of a content and on which
  optional parts there are.  `Words`, `Names`, `Objects` have the values on
  both sides of each limit (1/2/3 octets; 4/5 and 253/254 octets in a tag;
  all-ones types and instances), strings and brackets have tag numbers below and above 14, and bit strings end
  before, at and after an octet.  The program's own requests come with every combination of
  addresses with none and the most octets (`AnyHeader`), the rest with three headers.  Strings stay below
  the 354 octets where `encode_bacnet_string()` cuts them off.
  Two requests are damaged in every octet by the masks of `Masks` (lowest, highest and all bits)
  and cut off behind every octet.  `MCSettings` has every supported value of each
  argument of `Set()`, unsupported ones, and one in which all differ from the program's.
  `MCAnswers` has answers of one octet above the head, of full and cut off segments, segments
  of one octet up to the last sequence number, segments that fill the packet, and positions just below 2^16.
* `CHECK_DEADLOCK FALSE` in `window`, `window_fault` and `frames_noisy`: the model stops at a
  fault, and in `frames_noisy` when the line has fallen silent and the bounds are used up.

### Fairness

* `RecvFrame!FairSpec`: weak fairness of `Check` and `Clear`, since the loop of `test/bacnet.cpp:29`
  never ends and no call in it blocks (`uart.c:9` opens with `O_NONBLOCK`); strong fairness
  of `Push`, an assumption about the *line*: it keeps carrying frames.
* `Bacnet!FairSpec`: weak fairness of the loop, strong fairness of `Tick`: time passes.
  In `node_live` ticks fall only between two iterations (`Preempted = FALSE`): the
  shortest gap is 100 ms, an iteration is microseconds of work, and the program
  spends its time in `usleep`.  The safety runs allow a tick anywhere.
* `Bus!FairSpec`: weak fairness of both loops and of `Tick`, and strong fairness of the deliveries: a frame is
  complete after finitely many reads.  Losses and restarts are not fair, and bounded.
* `PollsEveryStation` assumes a silent bus, `RequestsServed` a token again and again;
  both premises are about the other stations, and the node has no fairness towards
  them.

## 5. Proofs

All are checked by TLAPS for every value of the constants that the named
assumptions admit (`SizeAssumption`; `LineAssumption`, `BufferAssumption`;
`AddressAssumption`, `NodeAssumption`; `BusAssumption`; `PortAssumption`, `AnswersAssumption`,
`StaleAssumption`, `MessagesAssumption` and `Packet`'s `LineAssumption`).  TLC evaluates them in the runs.

* `RecvWindow_proof`: `TypeCorrect`, `EveryByteFitsCorrect`, `FaultNeedsLullCorrect`.
  None of the properties is inductive.  The strengthening `IInv` adds `WindowBound`
  (at most a frame is in the window, one byte more while `Check()` looks at it, and
  `index` is never further than the drift that `push()` tolerates plus that) and `WindowFloor`
  (without a lull the window is never negative, and once bytes have been dropped
  all of a header but one byte stays in it, so that a compaction finds at least one).
* `RecvFrame_proof`: `ImplementsRecvWindow` maps every step to a step of `RecvWindow`
  or a stutter; the invariants proved there then hold here and are used in
  `WindowIsStreamCorrect` and `TypeCorrect`, where they bound the indices into `buf`.
  `AcceptExactlyCorrect` says of the tests in `CheckHead()` and `CheckData()`, which read the
  buffer, that they accept exactly what `WholeFrame` describes from the received octets.  The invariant
  added for it is `Undecided`: while `Check()` still waits, nothing received so far was a frame;
  the lemmas on `FrameShape` show that the announced length leaves one length at which a frame can be whole.
  `FrameDeliveredCorrect` assumes `CleanLine` (transmissions are whole frames, no silence of 500 ms; the
  constants of `frames_clean` satisfy it) and shows by `InStep` that the window never holds
  anything but the beginning of the frame that is arriving.
* `Bacnet_proof`: `TypeCorrect`, which includes that all that goes out is a token, a poll, an answer to a
  poll or a request (`Sendable`).
* `BacnetMonitor_proof`: `NeverClaimsLiveStationCorrect`, `RequestNeedsTokenCorrect`.  The
  invariant says that the observer's record agrees with the node's variables:
  `DevicesAreHeard` (the ages agree, except that the entry for 255, which a lookup creates
  late, may be younger than the record) and `HoldIsGrant` (the token is held exactly
  when the last token or poll for the node was a token).
  From it `ImplementsRequesterCorrect` follows step by step: a step that sends a request takes the head of the
  list, and the node's own test of `tokenhold` is the observer's `granted`.
  `AskedAsListedCorrect` holds for every list, also with entries that look alike.  The property is inductive
  with the types; what it takes is counting: `TimesTail` says how often a request is in what is left when the head of the
  list has gone, and a request that goes out is the head.
* `Bacdcode_proof`: `UnsignedUnderstood`, by the lengths that the encoder picks;
  `WideUnsignedLost`; `ObjectIdUnderstood`, by arithmetic on the 10 + 22 bits.
  `FieldUnderstood` is about whole fields with whatever follows them: `TagUnderstood` shows that
  `DecodeTag` reads back every tag number, class and length that `EncodeTag` writes, `AllTaken` what the kinds
  with a content have in common, and one lemma for each kind that its content comes back.  `DecodableField` says for
  which fields: not for those that the code does not decode or spoils (section 6, `packet_wide`); the tag
  number of an integer or an object identifier is at most 14 there, that of a string or a bracket any.
  `ObjectShifted` says what the decoder makes of every object identifier behind a tag number above 14.
* `Bus_proof`: `TypeCorrect`, with what was last sent and what is queued, and `OneExchangeCorrect`: at most
  one of each node's own polls and the answers to it is under way.  It does not say that there is one exchange on the bus:
  both nodes may poll, and hold the token, at once.  What is proved of one node in `Bacnet_proof` holds
  of both through the instances `A` and `B` and is not proved again.  The invariant `Exchange`
  counts what is under way in each direction: a poll is sent only after `SendGap`, when nothing of the
  node is on the line any more, and an answer only for a poll that was taken off it.
  `BusAssumption` has `SendGap > 0`: with a gap of 0 a node would poll while its first poll is under way.
* `Packet_proof`, about a message and its octets:
  * `HeaderUnderstoodCorrect`.  The lemmas say where each part of the header stands (`InOrder`, `IsAt`),
    that the space made for it is what it takes (`HeaderFits`), what bits the control octet has
    (`ControlBits`), and that `parse_npdu()` finds the same places (`ParseUnderstood`).
  * `FrameTakenCorrect`.  A step of either check sum is one to one in the octet and in the sum before it
    (`HeadOneToOne`, `DataOneToOne`: the exclusive or cancels, and SMT checks that no
    two entries of the header's table, and no two upper octets of the other, are equal).  By induction over
    the octets two sequences that differ in one of them have different check sums (`ThroughDiffers`,
    `HeadDetects`, `DataDetects`).  `ReceiverReads` translates `RecvFrame`'s own tests, `WholeTaken`,
    `CutNotTaken` and `ChangedNotTaken` say what `Check()` makes of the octets after each of them.
    The invariant `OnTheWay` carries this from `Send` to `Parse`.
    The induction is over sets of numbers (`LeastOne`, `Upwards`).
  * `FieldsUnderstoodCorrect`.  The invariant `BeingRead` says that the values read so far are those of the
    first fields, and that the position is where the next one begins (`ReadSoFar`).  `FlattenJoins` gives
    the beginnings of all fields by induction, `RestOf` what is behind each of them; a step
    is then `FieldUnderstood`.  `TypeCorrect` follows with what `Kept` adds.
    Both assume `FieldsFit`, that the messages have fields of `DecodableField` only; the assumption
    `MessagesFit` of `MCPacket` lets TLC check it for the messages of the run.
  * `CheckSumsRightCorrect`, that a frame carries the check sums of the standard's polynomials.  The division
    by a polynomial is followed bit by bit for an arbitrary octet (`HeadShifts`, `DataShifts`), so that every
    bit of the remainder is a sum of bits of the octet; `HeadEntryBits` and `DataEntryBits` say the same of the
    256 entries of each table, as SMT reads them.  A step by the table is therefore one by the polynomial
    (`HeadStepRight`, `DataStepRight`), and as the complement of the sum goes behind the octets, the last entries
    looked up are always the same (`HeadLeaves`, `DataLeaves`).  It needs of `OnTheWay` where
    `MakeFrame()` puts the sums (`FrameEnds`).
  * `SegmentsJoinCorrect`.  The invariant says that `seq` full segments have been
    joined and that each fitted into its packet; `SegmentPositions` shows that no position wraps before the answer ends.
    It assumes `AnswersFit`, that `data_len + segment_size` is below 2^16 and 256 segments are enough;
    `WrappedSegmentEmpty` says what the last segment is beyond.  The assumption `MCAnswersFit` of `MCPacket` lets TLC check it
    for the answers of `packet`.
  * `SettingsHoldCorrect`.  The invariant says that a device's flags are a function of
    the last arguments alone, and one lemma for each setter that it leaves the others' fields.
* `TimeOperator_proof`: `TimersRight` (a test of `mdiff()` passes when it should, to 1 ms, for 24
  days), `TimersWrap` (for the next 24 days it never does), `TimersStopped` (nor while
  the clock reads earlier than at `init()`), `SecondsRight` (a test of `sdiff()` is late by up to 2 s).

*Only model-checked*: all liveness (`KeepsAccepting`, `PollsEveryStation`, `RequestsServed`,
`BothServed`), which is beyond this prover.

## 6. Not modelled

* `testmstp`, an older test program: its handlers answer each frame by itself and keep nothing but two
  counters.  The receiver and the frames under it are modelled.  The other
  drivers are straight-line code.
* What a refused `add_npdu_header()` or `MakeFrame()` leaves behind: the program gives no addresses and uses a
  SendFrame once.
* Segments above `MAX_APDU_LEN` octets: see Segment.
* Of the codec, contents above 65535 octets, the decoders that return pointers into the packet,
  `decode_context_unsigned8()` and `encode_max_segs_max_apdu()`.  A string above 354 octets
  is cut off by the code while its tag announces all of it, and `encode_tagged_signed()`
  writes a tag that `decode_tagged_signed()` refuses: the operators show both, no run
  sends either.
* Of the port, a `tcsetattr()` that succeeds although the device took a part of its settings, and
  `get_ispeed()` and `get_ospeed()`, which look for the speed in words that never hold it.
* A `gettimeofday()` that fails, the string helpers of `xstring.h`, printing and build rules: nothing
  the rest depends on.
* `push(buf, len)`, `SetFrameDataCrc()` and `SetFrameDataLen()` are not called by
  the simulator.
