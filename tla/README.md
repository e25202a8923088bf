# Verification of securepath::serialisation

The library writes C++ objects as ASN.1 DER and reads them back.  A type
says once, in a `serialise` member, what its parts are; the same code runs for
writing and for reading.  Reading is the hard half: input comes from the
network, is read without knowing what follows, and errors are exceptions that
some parts of the library swallow and others let pass.

This directory holds TLA+ models of the parts that keep state, the TLC
configurations that check them on small instances, and proofs checked by TLAPS
that hold for every value of the constants.  `PROJECT.json` lists the runs,
the lines each definition models, the hazards and the findings.

## 1. The system

| Part | Source (under `src/securepath/serialisation`) | State | Operations |
|---|---|---|---|
| buffered stream | `codec/asn_der/buffered_stream.hpp`, `octet_vector_stream.cpp` | `buffer_`, `look_ahead_pos_`, `real_pos_`, `peek_count_`; the offsets saved in peek guards; the stream's `read_pos_` | `read`, `readable_bytes`, `start_peek`, `end_peek`, `pos` |
| DER decoder | `codec/asn_der/asn_der_decoder.hpp` | the ends of the open scopes, `seq_pos_` | `decode` of each type, `start_/end_sequence`, `start_/end_explicit_tag`, `next_tag`, `is_end_of_sequence`, `has_next` |
| deserialiser | `deserialiser.hpp`, `helpers.hpp`, `sequence.hpp`, `container.hpp`, `choice.hpp` | `current_tag_` (a pending implicit tag), `ex_` (an exception a destructor has caught), and the C++ call stack | `operator&`, `handle` of values, tags and optionals, `~sequence` |
| serialiser, DER encoder | `serialiser.hpp`, `codec/asn_der/asn_der_encoder.hpp` | `current_tag_`; `layers_`, the unfinished sequences | `operator&`, `handle` of values, tags and optionals, `~sequence`; `encode` of each type, `start_/end_sequence`, `start_/end_explicit_tag` |
| packet deserialiser | `util.hpp` | `buf_`, what is left of an incomplete packet | `do_check`, `handle`, `clear` |
| DER values | `codec/asn_der/util.hpp` | none | integers, reals, times to octets and back |
| octet vector streams | `octet_vector_stream.cpp` | the vector, a span of its memory with a size, positions for reading and writing | `read`, `write` |
| type adaptors | `vector.hpp`, `map.hpp`, ... | none | a container is a sequence of its elements |
| utilities | `../util` | none | strings, hex, spans, error codes, type lists (not modelled) |

How they interact: a packet deserialiser gets octets in pieces, builds a decoder
over them for each packet and calls back when `has_next` says one is whole.
The callback's object drives the deserialiser (`s & a & b`), the deserialiser
the decoder, the decoder the buffered stream.  Going back is done with peek
guards: `peek_guard` around an optional, `stream_peek_guard` around a look at
the next header.  Exceptions go the other way: thrown by stream and decoder,
kept in `ex_` by `end_sequence` (which runs in a destructor), rethrown by the
next `operator&`, swallowed by optionals and by `has_next`.

There are no threads.  What is hard is control flow that nobody wrote down: a
sequence of legal calls that leaves an offset pointing into a cleared buffer,
an exception that skips the closing of a scope, a failure that is swallowed and
noticed at an unrelated field, data lost or seen twice because a callback threw, a
layer that swallows what is written after an exception; and, in the codecs, the
places where a sign, a carry or the form of a header changes.

What makes each part correct:

- *buffered stream*: every read returns the octets that stand at `pos()`,
  wherever they are kept; a guard puts the reader back to where it was built.
- *decoder and deserialiser*: what was written is read back; every scope is
  closed once by whoever opened it; an optional that is absent leaves nothing
  behind; unknown fields at the end are skipped; a cut message is an error;
  decoding ends.
- *serialiser and encoder*: what is on the stream is what should be written for
  the value, in whole values even after exceptions; a stream that fails is
  reported; nothing is held back.
- *packet deserialiser*: each packet is handed on once, whole, in order, as soon
  as it is there; the buffer is bounded; a stall is reported.
- *values and headers*: decoding inverts encoding; what does not fit is refused;
  a structure ends where its header says, and not before.
- *octet vector stream*: a queue, whatever memory the vector has moved to.

## 2. Modules

| Module | Models |
|---|---|
| `PeekableStream` | the contract of the buffered stream: a cursor with nested marks |
| `BufferedStream` | `buffered_stream<octet_span_istream>` in full; the refinement mapping `P` to `PeekableStream` |
| `BufferedStreamProofs` | TLAPS: its invariants, and the implementation theorem |
| `Der` | what both halves share: tags, messages as sequences of cells, and when those are values in values (`Nested`, `Whole`) |
| `DerProofs` | TLAPS: stacks of calls that close what they opened, messages cut off anywhere; powers of two, bits, and digits that put together are the number |
| `Deserialiser` | one message being decoded: decoder, deserialiser and the call stack between them |
| `DerReading` | what should come of reading a value, said of the message and not of the steps |
| `DerTable` | the table of `DerReading` for a message, built by recursion; and that decoding ends |
| `DeserialiserProofs` | TLAPS: type correctness, closing of scopes, headers, overruns, optionals, and that what can be read is read |
| `Serialiser` | values being written: serialiser, encoder and the call stack between them, on a stream that may fail |
| `SerialiserOutput` | what should come of writing objects, by recursion over them |
| `SerialiserProofs` | TLAPS: type correctness, layers, reported failures, whole output, and that the output is what should come of the objects |
| `DerWriting` | what should be written for a value of a type, as one operator |
| `DerMessages` | composes `Deserialiser` with `DerWriting`: messages made of values, and what reading them should give |
| `SerialiserMessages` | composes `SerialiserOutput` with `DerWriting`: the calls a type's `serialise` makes for a value, and that what should come of them is what should be written for the value |
| `TestTypes` | the tests' types and values of them |
| `DerOctets` | numbers as octets (`codec/asn_der/util.hpp:32-107`), which the codecs below use |
| `DerInteger` | the types of integers, and reading octets as one of them |
| `DerHeader` | tags and lengths octet by octet; `has_next` while a message comes in |
| `DerHeaderProofs` | TLAPS: all its properties |
| `DerReal` | a real as sign, exponent and mantissa, in octets and back |
| `DerTime` | a point in time around 1970, as printed and as scanned |
| `DerValues` | composes the three: a value written as one type and read as another |
| `DerValuesProofs` | TLAPS: all its properties |
| `OctetQueue` | the contract of the octet vector stream: a queue |
| `OctetVectorStream` | `octet_vector_stream` and its two halves; the refinement mapping `Q` |
| `OctetVectorStreamProofs` | TLAPS: its invariant, and the implementation theorem |
| `PacketFeed` | the contract of the packet deserialiser |
| `PacketDeserialiser` | `packet_deserialiser_base`, one step per call-back |
| `PacketDeserialiserProofs` | TLAPS: its invariants, `FramesWhole`, and that it implements the safety part of `PacketFeed` |
| `MC...` | the instances for TLC |

What composes what: `Written` (in `DerWriting`) stands between the two halves.
The encoder's steps put exactly `Emitted` (in `SerialiserOutput`) on the stream,
which is proved for every object; what is `Emitted` of a value's object is
`Written` of the value, which TLC evaluates for those of the `serialiser` run
(`MCStandsFor`); the `deserialiser` run decodes messages made of `Written`.  Of each
of them TLC finds that it can be read as its value by the grammar in `DerReading`
(`MCLegible`), and that the decoder reads whatever can be read so is proved for
every message.  Headers are cells there, and `DerHeader` shows that a header is read back from its octets
and that `has_next` finds the end of a structure exactly when its last octet is
there, which is what `HasNext` of `PacketDeserialiser` takes for granted.  The
stream below `Deserialiser` behaves as `PeekableStream` says, which
`BufferedStream` is proved to implement.

### BufferedStream

One variable per data member, `guards` for the offsets saved in the live guards
(their number is `peek_count_`), `read_pos` for the stream below.  `read` has
three outcomes, one action each (`ReadBuffered`, `ReadThrough`, `ReadFails`),
`readable_bytes` two.  `failed` is a history variable: after a
`readable_bytes` has thrown, the buffer holds zeros that were never read (the
comment at line 77 asks for the stream to be built anew), and the contract ends
there.  A `read` that throws does *not* end it: an optional goes on after one,
so the contract says what is left then, and the code keeps that.

### Deserialiser

The C++ call stack is explicit: `frames` is what is left to run of every call,
innermost first, and each action runs the top frame to its next call.  A throw
sets `status` to "throwing" and the frames are popped one by one: a sequence's
closing frame runs its destructor on the way, an optional's guard puts back the
position and stops the exception, the rest just go (`Unwind`), an explicit
tag's closing frame among them.

A message is a sequence of cells: a header taken as one, an octet of content, or
a stub, the first octets of a header that has been cut.  Lengths and positions
count cells.  Values stay octets; of their contents only what makes decoding
fail is kept (lengths, the sign of an unsigned).  The stream is the one
`PeekableStream` promises: `read_pos` is how far it has been read, a failed read
loses what lies beyond (`limit`).  When octets of content are taken for a
header, the model stops with status "misaligned" instead of guessing which header they
look like; that this does not happen where values lie in values is a property.

A type is a record, as the code's templates see it: a primitive with its tag
and the lengths it lets through, a sequence, an object without a sequence, a
container, an implicitly or explicitly tagged type, an optional, trailing data,
a choice.  `Types` are those there are and `DeserialiserAssumption` says they
are made of each other.

`items` is what has been decoded, flattened.  `leaked` and `depth` are history,
and no guard depends on them: how many scopes exceptions have left behind (the
explicit tags they have passed), and, in the closing frames and the guards, how
many there were to close when the frame was pushed, those not counted.

`DerReading` says once more, without stack, exceptions and positions put back,
what comes of reading: each goal (a call, a position, the end of the innermost scope, the
pending tag) comes to the position behind the value, what is recorded and the tag that
is still pending, or to `Refused`, by what others come to.  It says nothing (`Unsaid`)
where the decoder would lose its input, leave a scope open or leave a tag behind.
That is no recursive definition but a condition on a table of goals and results
(`Consistent`), so that it can be reasoned about; `Legible` says of a message
that by some such table it is read as what is expected.

`DerMessages` makes messages of `Written`, whole, extended at the end of a
sequence, cut, with a length changed, or read as another type.  `Written` is the writing side as one
operator, with the pending implicit tag handed on as `use_current_tag` does.  It
is recursive and used by TLC's runs only.

### Serialiser

The same call stack for writing.  `layers` is `layers_`, `out` what the stream
has taken.  A call is `asn_der_serialise` with a serialiser of its own, or
`operator&` of the one there is, so that what an exception leaves behind (a
layer, a tag) meets the next call.  `Sends` is `write`: to the innermost layer,
or to the stream; `SendFails` is a stream that takes part of what it is given,
also half a header, and returns false.  An exception runs the destructors of the
sequences on its way, which write them as far as they got (`CloseSequence`); one
thrown by such a destructor ends the program (status "terminated").  A value that
cannot be encoded (a subnormal real, a type that is no alternative of a choice)
throws before anything of it is written.  `leaked` and `depth` are history:
how many explicit tags an exception has passed, and how many layers there were
to close when a frame was pushed.

An object is the tree of the calls its `serialise` makes.  `Emitted` says what
should come of objects one after the other under a pending tag: their cells, and
the tag that is still pending behind them.  It is a function defined by recursion
over the objects, each of which is made of others to a finite depth: `Size`, in
`SerialiserOutputAssumption`, is any measure of it.

### DerOctets, DerInteger, DerReal, DerTime, DerValues, DerHeader

The operators have the code's names and work on sequences of octets; a word is
`WordOctets` wide and loses what is shifted out of it.  An encoding or decoding
operator yields a set: nothing where the code throws, and everything where it
returns a variable nobody has assigned.  `DerValues` is the machine around them:
a value is written, or an integer of any length (`integer`, which is also what
another writer may have sent); it is read, integers as any type.  In `DerReal` a real is what `frexp` makes of it:
sign, a fraction of `Precision` bits, an exponent.  In `DerTime` a second stands for
its calendar fields (`gmtime` and `timegm` are external: they convert it, or
refuse) and the fraction for its digits.  `DerHeader` is a machine of its own: a
structure comes in octet by octet, and `has_next` is asked each time.

### OctetVectorStream

`data` says whether the input half's pointer is to the vector's memory or to
memory it has left; a write that makes the vector grow may move it, and reading
what it has left yields anything.

### PacketDeserialiser

An octet is its place in what the peer sends.  `Handle` runs `do_check` to the
first `has_next`; then each `Deliver` is one call-back that returns,
`CallbackThrows` one that does not, `Finish` the end of the loop with the
`insert` or `erase` that follows.  `Refuse` is the `constraint_violation`: the
octets stay with the caller, who may pass on fewer.  `Clear` is `clear()` with a
new connection that starts with a whole packet.  When the span does not start
with a packet (after lost data), `has_next` may answer anything.  `Stalled` says
that what the receiver waits for will never be found, and `StallReported` that
the caller learns of it.

## 3. What is checked

| Run | Instance | Shows |
|---|---|---|
| `buffered_stream` | 5 octets, calls of 0 to 3, peeks 3 deep | `TypeOK`, `PositionsNest`, `BufferCoherent`, implements `PeekableStream` |
| `deserialiser` | some 700 messages | `TypeOK`, `ScopesOpen`, `HeadersAligned`, `RoundTrip`, `ExtensionsSkipped`, `OverrunReported`, `TruncationReported`, `OptionalLeavesNoTrace`, `Termination` |
| `serialiser` | two calls out of 37 values, 2 failures of the stream | `TypeOK`, `LayersOpen`, `NothingHeldBack`, `FailureReported`, `OutputWhole`, `OutputIsWritten` |
| `values` | words of 3 octets; 686 edge combinations and their neighbours as every type, integers of any length with 0 to 4 octets; reals of 11 bits with 11 exponents, an `int` of 2 octets; 13 seconds, every millisecond, finer or not | `WrittenShortest`, `ReadByEveryType`, `SignedExactOrRefused`, `UnsignedExactOrRefused`, `RealReadBack`, `MantissaNormalised`, `TimeReadBack` |
| `headers` | words of 2 octets, 324 headers, foreign messages of up to 6 octets | `HeaderReadBack`, `CutWhereItEnds`, `LongTagExact`, `EndIsFinal` |
| `octet_vector_stream` | 3 octets, up to 5 in the vector, calls of up to 3 | `TypeOK`, implements `OctetQueue` |
| `packets` | 9 packets of 1 to 4 octets, chunks of 1 to 4, a buffer of 7 | `NeverRefused`, implements `PacketFeed` with its liveness |
| `packet_faults` | 5 packets, one unreadable, one bigger than the buffer; 2 throws, 2 times `clear` | `TypeOK`, `NothingWaits`, `NoPacketLost`, `FramesWhole`, `StallReported` |
| `shared_explicit_tag` | a vector of 3 objects | `RoundTrip` is violated (finding) |
| `passed_implicit_tag` | one object, the optional absent or there | `RoundTrip` is violated (finding) |
| `integer_cut` | as `values`, fewer of them | `ExactOrRefused` is violated (finding) |
| `real_zero` | as `values`, fewer of them | `ZeroReadBack` is violated (finding) |

Why the bounds are enough.  *Buffered stream*: the code branches on whether the
buffer is empty, serves part or all of a read, and whether anyone peeks; reads
of up to 3 of 5 octets under up to 3 guards reach each branch from each
other, with a buffer left over from committed peeks.  *Deserialiser*: types nest
at most as deep as the tests' and somewhat deeper (optionals in optionals in
sequences that look like what follows them); each message is cut behind every
cell and inside every header, and read as fourteen other types; in some, one header
after the other announces a cell less, one or two more, so that an element goes past
the end of its sequence and the outermost sequence past that of the message.
`MaxItems` is larger than any object and only bounds what is recorded, also where a
loop goes on for ever.  *Packets*: what matters is
where a chunk ends within a packet, and every such place occurs; the buffer is
exactly as large as one octet less than the largest packet plus the largest
chunk, so the boundary of the check at `util.hpp:116` is met.  Two throws are
enough for one in each branch, and two `clear`s for one before and one after; a
chunk may hold two packets, so that one is lost with the other.  The peer has more to
send behind the packets nobody can read than the buffer has room for, and the
packet behind them shows what is handed on after a `clear`.  *Serialiser*: two calls are one that fails and
one that meets what it left, with the same serialiser or a new one; the values
have an exception inside sequences, inside explicit tags, inside both nested
either way, and the two failures of the stream may hit the same call.
*Integers*: every type of up to three octets meets every other; the code never
looks at more than the octets next to each other and at the sign, and the program's
eight octets differ in nothing but their number.  *Headers*: words of two octets
make a long tag as short as three digits, so that the ninth and tenth of the
program's ten occur; lengths go past 255 and past the limit.  *Reals*: eleven
bits are half precision, written in two octets, so that a mantissa has one or two and
bits cross between them; the exponents of double take one or two octets.
*Times*: the seconds are those around the one `timegm` fails with, a day, and far
ones.  *Octet vectors*: a write may overwrite, straddle the end or grow the
vector.

Fairness.  Decoding is one thread that runs until it returns or throws:
`WF_vars(Step)`.  Of writing nothing is claimed that needs fairness.  In the packet deserialiser a call runs to
its end (`WF_vars(Deliver \/ Finish)`), and the caller passes on what the peer
sends (`SF_vars(Receive)`): the fairness is strong because a caller who keeps
asking with no data, which is legal, makes `Receive` impossible for the
length of each of those calls, and still gets to the data in between.  It is
an assumption on the caller, who is outside `src/`.  No fairness is assumed of
anything that fails, throws or clears.

Deadlock is checked in all runs but the packets', where the peer has nothing more
to send in the end.

### Findings

- `shared_explicit_tag`: an optional with an explicit tag whose content does not
  decode leaves the tag's scope open (`deserialiser.hpp:82-91`).  A vector of
  objects with two optionals under one explicit tag is read back short, without
  an error.
- `passed_implicit_tag`: an implicit tag that the absent optional did not get to
  use stays pending and is used for the next field (`deserialiser.hpp:55,91`).
- `integer_cut`: an unsigned integer that is one octet too long for its type is
  read without its first octet, zero or not (`asn_der_decoder.hpp:268`).
- `real_zero`: zero is written as no octets, and `decode_real` returns an
  unassigned variable for those (`codec/asn_der/util.hpp:277-287`).

One thing more the model shows and no run is about, since nothing in the
repository says what is expected: milliseconds before 1970 are negative and
printed with `%03u`, so such a time is read back with the digits .429, and the
second before 1970 is not read at all, -1 being `timegm`'s error.  `TimeReadBack`
leaves out just these.

The `deserialiser` run therefore checks `RoundTrip` and `OptionalLeavesNoTrace`
for types that do neither: no two optionals that share an explicit tag, no
implicit tag on an optional that passes it on.

Not every decoding ends.  The loop of a container (`container.hpp:24`) waits for its
position to reach the end of the sequence; where its elements may be absent and what
is there is not read as one, or the message is cut off, it reads an absent element
again and again, and the vector grows until there is no memory.  `Termination` says
that this is the only way: decoding ends, or again and again a loop that is still
within its sequence (`Standing`) finds nothing there that `DerReading` would read as one more
element; and what was written for the type or a newer one is not
affected.  In particular, an element that goes past the end of its sequence ends the
loop as one that reaches it does.  In the run the containers of optionals show both:
whole messages of theirs end, and cut, damaged and foreign ones do or stand.
Where octets of content are taken for a header, the model ends and `Termination` says no
more.
Two things are left out.  Elements absent when such a container is written are lost,
since nothing is written for them; the containers written have none.  And where the
elements are optionals with explicit tags, also inside the elements, every round of
the loop may leave another scope open (finding `shared_explicit_tag`), so the states
would be infinitely many; those are read only from whole messages of their own.

## 4. What is proved

`BufferedStreamProofs`, from `BufferedStreamAssumption` (the message is a
sequence of naturals, the bounds are naturals):

- `Invariance`: `Spec => [](TypeOK /\ PositionsNest /\ BufferCoherent)`.  The
  conjunction is inductive as it stands: `BufferCoherent` needs `PositionsNest` to
  know that what `read_from_buffer` drops is behind every guard, and that one
  needs both to hold before the buffer is cleared.
- `Implements`: `Spec => PeekableSpec`.  Under the mapping (`cursor` is
  `pos()`, marks are the guards' offsets from `real_pos`, the end is what the
  buffer and the stream still hold) each action is shown to be a step of the
  contract: a read from the buffer and a read through it are both `Read`, a failed
  one is `ReadPastEnd`.  The invariant supplies that the buffered octets are
  the message's.

`DeserialiserProofs`, from `DeserialiserAssumption` (the types are closed under
taking members and have members of the sort their kind needs, a message is a
sequence of cells).  Nothing is assumed of what the cells are: the theorems hold
for messages nobody has written, decoded as any type, however deep.

- `TypeInvariance`: `Spec => []TypeOK`, and with it that the positions stay in
  order (`cursor <= read_pos <= limit <= ` the length of the message) and that an
  optional goes back to a position that has been read.
- `ScopesStayOpen`: `Spec => []ScopesOpen`, the assert in `pop`.
- `HeadersStayAligned`: `Spec => []HeadersAligned`.  The property itself says of
  which messages it speaks, those that are values in values (`Nested`); `DerProofs`
  shows that such a message stays one wherever it is cut off, also inside a
  header (`CutStaysNested`), and TLC that every message of the run is one but those
  whose lengths have been changed.
- `OverrunIsReported`: `Spec => []OverrunReported`.
- `OptionalClosesItsScopes`: an action property, the half of
  `OptionalLeavesNoTrace` that holds for all types: while nothing has been left
  behind, a `catch` of an optional finds the scopes there were and puts back the
  position there was.  The other half, that no implicit tag is left pending, is
  false for some types (finding `passed_implicit_tag`).

Three theorems more are about inputs that can be read, `Legible` in `DerReading`;
each assumes that of the cases its property speaks of.  TLC evaluates it for all
those of the run (`MCLegible`), with the table that `TableFor` builds.  The cases of the two
findings about tags are not legible.

- `WrittenIsReadBack`: `Spec => []RoundTrip`;
- `NewerIsReadBack`: `Spec => []ExtensionsSkipped`;
- `OptionalIsUndone`: `Spec => OptionalLeavesNoTrace`, with explicit tags and the
  pending tag included.

The inductive invariant says of the whole stack of calls, not of its top, what
they are to close: the depths of the closing frames decrease strictly from the top
down and are exactly the numbers from `Due` to 1 (`Stack` of `DerProofs`), `Due`
being the scopes open less those left behind.  A call that closes its scope
uncovers the next; an exception that passes an explicit tag takes a frame off
without closing its scope and adds to `leaked`, so that those below stay exact.
For headers, every end in `seq_pos_` and every mark of a guard is a place between
two values (`Ends`, `Fitting`): `pop` skips to the one, a catch clause goes back
to the other, and reading on from such a place leads to another one.  For
overruns the invariant follows the outermost scope through the phases of a call
(`Late`): it ends behind the message, so its `pop` will fail, and then the exception
is kept in `ex` or under way and no frame is left that swallows it.  Optionals need a
record of their own (`Guarded`): below each guard the closing frames close exactly
the scopes that were open when it was pushed.  Both hold only while `leaked = 0`:
a scope left behind is closed in place of the one around it, which is the root of
the finding `shared_explicit_tag` and can also let an overrun pass.

The proofs go by lemmas for a frame pushed, taken off and passed by an exception,
then one lemma for each action.

For what can be read the invariant (`ReadingInv`) says what every frame on the stack
will have done when its call is left (`Passes`): one that reads comes to what the
table says of its goal, one that closes pops its scope, a guard puts back the
position if an exception comes.  One after the other the frames lead from where the
decoder is to the end of reading (`Reaches`, `OnWay`), and there what has been recorded is
what is expected.  A step takes its frame off and does what it stands for, or puts
others in its place that together stand for the same, since the table is
consistent.  Besides, no destructor has an exception to keep, the stream has lost
nothing, and while an exception passes no tag is pending: each is where one of the
findings, or a message that is cut short, breaks the chain.  How deep types nest or how
long messages are plays no part, nor is there any induction: the table is the
fixed point.

`BufferedStreamProofs` also names the parts of its invariant as theorems:
`TypeInvariance`, `GuardsNest` (`PositionsNest`), `BufferInStep`
(`BufferCoherent`).

`SerialiserProofs`, from `SerialiserAssumption` (what can be written is closed under
taking parts): whatever is written, throws or fails,

- `TypeInvariance`: `Spec => []TypeOK`;
- `LayersStayOpen`: `Spec => []LayersOpen`, the assert in the encoder's `pop`;
- `NothingIsHeldBack`: `Spec => []NothingHeldBack`: between calls the only layers
  are those that exceptions passing explicit tags have left;
- `FailuresReported`: `Spec => []FailureReported`.

- `OutputStaysWhole`: from `TrailingWhole` (trailing data, which are copied as they
  are, are whole values; TLC evaluates it for the run's),
  `Spec => []OutputWhole`: what is on a stream that has not failed is values one
  behind the other, each part within the one around it.

- `OutputIsAsMeant`: from `SerialiserOutputAssumption` (objects are made of others to
  a finite depth), `Spec => []OutputIsWritten`: a call that returns has put on the
  stream what should come of its object under the tag that was pending, nothing
  less and nothing more, and the tag that is pending then is the one that should be.

The inductive invariant counts the layers calls will close, `Due`, which are all
but the `leaked` ones, and says of the stack what the decoder's says.  An exception
that passes an explicit tag takes away a frame and adds to `leaked`, so the frames
below stay exact; that is why depth is counted without the layers left behind.
Frames are empty unless a call is running or throwing, and with that the theorem
about what is left between calls follows.  For the output every layer holds whole
values (`WholeLayers`): one that is closed becomes a value of its length in the next
or on the stream, also when it is closed early by a destructor.

`OutputIsAsMeant` needs to know what is still to come.  Every frame on the stack
stands for what its call will have done to the layers, the stream and the pending
tag once it has returned (`After`), and the invariant (`OutputInv`) says that the
frames one after the other lead from where the encoder is to where it should be
(`Reaches`, `Meant`).  A step takes its frame off and does what it stands for, or
puts one or two in its place that together stand for the same: a sequence for a layer,
what is written into it, and its passing on (`EnclosedPasses`); `s & a & b` for `a`
and then the rest, with the tag pending that `a` leaves (`WritesNext`).  That
`Emitted` is what its equation says, is shown once for all functions defined by
recursion over a rank (`Recursion`): iterated often enough, what the equation makes of
any function no longer changes at a given argument.

`PacketDeserialiserProofs`, from `PacketAssumption` (packets have a first and a last
octet, and follow each other):

- `TypeInvariance`: `Spec => []TypeOK`, the limit of the buffer included;
- `NothingEverWaits`: `Spec => []NothingWaits`;
- `NoPacketIsLost`: `Spec => []NoPacketLost`;
- `FramesAreWhole`: `Spec => FramesWhole`, an action property.

The invariant follows the octets a call works on, `Held`, whichever of the two
variables they are in: they are consecutive octets of the peer's, and unless data
was dropped they begin where a packet begins, what is done with ends where one
ends, and every packet of this connection up to there has been handed on.
`NothingWaits` is a conjunct of its own, since it depends on how the last call
ended.  A throw from the buffer goes back to `Begin`, which is a boundary also; a
throw from the caller's data sets `skipped`, after which nothing is claimed.

Two more hold while callbacks return (`Returning`), the assumption under which the
code promises anything about order:

- `RoomIsEnough`: if besides every packet can be read and less its last octet
  leaves room for any chunk (`Room`), `Spec => []NeverRefused`, whatever `clear`
  breaks off.  Between two calls the buffer holds less than a packet, or nothing
  (`Calm` and `NothingWaits`).
- `PacketsComeInTurn`: if besides the connection stays (`MaxClears = 0`),
  `Spec => FeedSpec!Safety`: the code implements `PacketFeed` but for its
  fairness, refusals and unreadable packets included.  The invariant says that the
  packet looked for is the one after those handed on (`InTurn`); every `Deliver` maps to
  `PacketFeed`'s, every other step stutters.

`OctetVectorStreamProofs`, from `OctetVectorStreamAssumption`:

- `TypeInvariance`: `Spec => []TypeOK`;
- `QueueImplemented`: `Spec => QueueSpec`, under the mapping that the queue's log
  is what has been written of the vector and its reader the read position.  The
  invariant adds that the input half looks at the memory the vector has now and
  has its size (`InStep`).

`DerHeaderProofs`, from `DerHeaderAssumption` (the headers are those of an
`asn_header`, with numbers of one word; the octets of others are octets; a word has
fewer than 128 octets, since a long length counts its octets in seven bits) and
`DerOctetsAssumption`:

- `HeaderIsReadBack`: `Spec => []HeaderReadBack`;
- `CutWhereSentEnds`: `Spec => []CutWhereItEnds`;
- `EndStaysFinal`: `Spec => EndIsFinal`, an action property, of any octets at all;
- `LongTagIsExact`: `Spec => []LongTagExact`, likewise.

The runs have words of two octets, the program has eight; the theorems are for any
number of them.  The state's invariant is small (`Sound`: the octets are those of
what was sent).  The weight is in the lemmas.  `DerProofs` shows that digits of
any size shifted into a word one after the other give back the word they were
taken from, with as few digits as have room for its highest bit (`OctetsOfFacts`).
`DerHeaderProofs` shows for the tag and for the length that what is decoded from a part
of their octets is nothing, and from all of them and more, exactly what was
encoded (`TagReadBack`, `LengthReadBack`); and for octets nobody has encoded, that what is
decoded is at most one thing and stays so with more octets behind
(`HeaderStays`, `EndStays`).

`DerValuesProofs`, from the assumptions of the codecs: values are integers and foreign
octets are octets (`DerValuesAssumption`); milliseconds are below 1000
(`DerTimeAssumption`); an `int` is no wider than a word and its size fits into an octet,
a real has no more bits than its octets have, `frexp` leaves the highest bit of
the fraction set, and an exponent stays an `int` when the bits of a mantissa are taken
off it, which would be undefined otherwise (`DerRealAssumption`):

- `IntegersAreShortest`: `Spec => []WrittenShortest`;
- `IntegersAreReadBack`: `Spec => []ReadByEveryType`;
- `SignedAreExact` and `UnsignedAreExact`: `Spec => []SignedExactOrRefused` and
  `Spec => []UnsignedExactOrRefused`, of any octets at all;
- `RealsAreReadBack`: `Spec => []RealReadBack`;
- `MantissasAreNormalised`: `Spec => []MantissaNormalised`;
- `TimesAreReadBack`: `Spec => []TimeReadBack`.

The runs have words of three octets and a real of two, the program words of eight
and reals of four, eight and sixteen; the theorems are for all sizes.  The
inductive invariants (`IntegersSound`, `RealsSound`, `TimesSound`, which TLC agrees to)
say that what is under way is what the encoder makes of the value and what was
read what the decoder makes of that; what these make of each other is in the lemmas.
*Integers*: a negative number's octets are those of its complement, in the width
`translate_negative` finds, and complemented again in the width `decode_integer`
finds (`EncodeNegative`, `DecodeNegative`); every form that begins with nine equal bits is
longer than needed (`ShortestFacts`), and a number in its shortest form has no more octets than any type
that holds it (`HeldIsRead`).  *Reals*: the octets `export_mantissa` keeps are the
fraction but for zeros behind (`MantissaExported`); shifted octet by octet it is shifted as
a whole, no bit is lost, and it is odd (`MantissaShifted`); the front says how many
octets the exponent has, in either form (`RealLayout`); and of an odd mantissa
there is one power of two that makes a fraction of it again, the one it was
divided by (`LdexpIs`).  *Times*: three decimal digits are the milliseconds they
were printed from (`FractionScanned`).

What a recursive function of the model computes is shown by induction over a set
of numbers (`SetInduction`, from the well-foundedness of strict inclusion), and that
the function is what its equation says by constructing it (`ShiftedInFacts`).
`TwoTo` is such a function: the provers know nothing of `^`.

Only model-checked: liveness (`Termination`, `StallReported`, and that
packets are handed on in the end, the fairness part of `PacketFeed`), out of the
prover's reach; and what depends on what `Written` computes, which is a RECURSIVE
operator over values: that what it yields can be read as the value (`MCLegible`), that
the objects of the `serialiser` run stand for their values (`MCStandsFor`), and
`TruncationReported`, of which `OverrunReported` is the part without it.

## 5. Not modelled

- Reals others have written with more bits than a real has (rounding), or with an
  exponent of more than two octets; fractions of a second others have written
  (`%03d` reads .5 as 5 milliseconds); the calendar.
- Reals of more octets than this program writes: `decode_real` reads as many octets
  as the header announces into an array of a fixed size, 14 for a double, without
  checking that they fit (`asn_der_decoder.hpp:298-299`), so what a longer real is
  read as is undefined.  Only reals this program has written are read, and those fit.
- `bool` and `float` are integers of one octet and reals: the width that
  `handle(float&)` cuts off is not modelled.
- Trailing data read outside any sequence, call-backs that re-enter their packet
  deserialiser: undefined behaviour that no use of the library in its tests has.
- That a set or a map keeps one of two equal elements.
- `util/`: splitting, hex, spans and vectors are functions without state of a few
  lines each, which the unit tests reach entirely; errors are data.  Formatting,
  logging, timers; type lists (compile time).

## 6. Plan

Done: all the modules of section 2 and the proofs of section 4.  What is left, in
the order of what it would add:

1. `Deserialiser` on `BufferedStream` itself instead of on its contract, as a
   refinement (today the contract stands between the two).
2. That whatever is written is legible, and with it `RoundTrip` without an
   assumption on the cases: by `Written` as a function over a set of values that is
   closed under taking parts, as `Emitted` is one of objects.
3. Foreign reals and times, with the rounding of `ldexp`.
