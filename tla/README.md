# A verification development for Cadeau

Cadeau records a remote session as a WebM video and delivers it: to a file, to a live
stream, or over a WebSocket to a Devolutions Gateway. It is a C/C++ library (`libxmf` for
media, `libxpp` for pixel primitives) with .NET and Rust bindings and, in .NET, clients of the
gateway. The file format is the work of a vendored `libwebm`, whose muxer and parser are modelled
as far as the program uses them. This directory holds TLA+ modules translated from that code, the TLC runs that
model-check them, and TLAPS proofs of the properties that matter most.

Paths below are relative to the repository. `PROJECT.json` lists, for each definition, the
lines of code it stands for.

## 1. The system: components, state, interactions

| component | state it keeps | operations | here |
|---|---|---|---|
| bip buffer (`libxmf/XmfBipBuffer.c`, thin .NET and Rust classes) | a ring with unread bytes in block A, then block B; one write reservation; a "signaled" flag | Write, WriteReserve/TryReserve/Commit, Read, ReadReserve/Commit, Grow, Clear | modelled, proved |
| matroska writer and live stream (`XmfMkvWriter.c`, `XmfMkvStream.cs`) | target (file, pipe or bip buffer), position | Write from libwebm, Read from the application | partly: the bip buffer target; proved |
| webm recording (`XmfWebM.cpp`) | pts, last timestamp, pending frame, times of first and last encode, segment | Init, Encode, EncodePendingFrame, Finalize, Uninit | modelled, proved |
| recorder (`XmfRecorder.c`, `XmfTime.c`, bindings) | parameters, clock, one webm context | Init, UpdateFrame, Timeout, GetTimeout, Set..., Uninit | partly: all that moves frames and time |
| vpx decoder (`XmfVpxDecoder.cs`, `XmfVpxImage.cs`, C parts) | a lock, a generation, safe handles with reference counts | Decode, GetNextFrame, image Copy, Dispose, finalizers | partly; proved |
| push client (`Push/DucPushClient.cs`) | socket, cancellation source, receive loop | ConnectAsync, SendAsync, CloseAsync, EndRecordingAsync, DisposeAsync | modelled, proved |
| duc streamer (`DucStreamer/*`, `XmfWsStream.cs`) | a backend of one of three protocol versions, a write adaptor, a web socket | ConnectUrl, ConnectUrlAsync, Disconnect, EndRecording, sends | partly: versions 1 and 2 cannot connect; proved |
| webm muxer (`XmfMuxer.cpp`, bindings) | parser and muxer segments | remux a file, one pass | modelled |
| libwebm (vendored) | segment, clusters, queued frames, cues, seek head; parser segment and clusters | AddFrame, Finalize, the header elements, Load, Cluster::GetFirst/GetNext | partly: what libxmf uses |
| xpp primitives (`libxpp/*.c`) | a process-wide table of functions | lazy init, override; compare, copy, move, colour and alpha conversions | modelled; comparison, colours and table proved |
| SIMD and Halide kernels (`libxpp/simd`, `libxpp/halide`) | none | forms of the primitives | partly: SSE2, NEON, Halide YCoCg-R; comparison and colours proved |
| vpx encoder (`XmfVpxEncoder.c`, packet, frame) | libvpx context, process-wide creation error | one-to-one calls of libvpx | not modelled: its use is part of `WebM` |
| Rust vpx bindings | ownership in the types | | not modelled: the compiler checks the borrows |
| files, pipes, strings, images | none beyond handles | | not modelled: input, output and formats |
| Rust FFI crate, Rust examples | | | not modelled: declarations, examples |

How they interact. The application calls the recorder (frames, timeouts). The recorder owns
one webm context, which asks libvpx for packets and hands them to libwebm's muxer. The muxer
writes through the matroska writer into a file, a pipe or a bip buffer. Another thread of the
application reads the bip buffer through `XmfMkvStream` and pushes what it reads to the
gateway with `DucPushClient` or the older `DucStreamer`. A finished recording, or what a crash
left of one, goes through the remuxer, which parses it with libwebm and muxes it again so that it
can be seeked in. Players use the vpx decoder; the pixel primitives convert and compare images.

What is hard here, and what makes each part correct:

* *Bip buffer*: wrap-around arithmetic on `size_t`; a reader and a writer whose two-step
  operations (reserve/commit, peek/commit) interleave with each other and with Grow. Correct:
  it is a byte queue, the blocks never overlap, a reservation is never over unread bytes,
  peeked bytes stay the oldest ones.
* *Live stream*: the writer grows the buffer and then writes, with reads between; partial
  writes; failing malloc. Correct: no byte lost, repeated or reordered while writes succeed.
* *Recording*: a frame's duration is only known afterwards, so one frame is always pending;
  timeouts race frames; encoding fails; the clock stands still or is set back. Correct: time
  in the recording equals time on the clock, timestamps increase, lasting and final frames are
  in the file, every pending frame is eventually encoded.
* *Decoder*: threads, `Dispose` without the lock, finalizers, images that point into the
  decoder's memory. Correct: no use after free, no mixed frames, no leak.
* *Push client*: concurrent asynchronous calls over three unsynchronised fields, a receive
  loop, a gateway that closes first or never answers. Correct: the loop never outlives the
  client's close, the gateway learns how a recording ends, dispose returns.
* *Streamer*: a timed wait whose result is ignored, disposal while a close is under way, a token that
  cancels it, a field read again in each expression. Correct: no open connection is forgotten, the
  gateway learns that a recording has ended, but for causes that are named.
* *Muxer and parser*: sizes computed by one function and bytes written by another; sound that
  waits for a picture; clusters whose times fit 16 bits; an index written at the end; a file that
  stops anywhere. Correct: what is written reads back, every frame is in the file once and in
  order, the index is true, what is left of a recording is recovered.
* *Primitives*: the same function in four kernels with tiles, words, registers, saturation and
  odd sizes; an initialisation without a lock. Correct: the kernels agree, and where they do not
  it is stated how far; the table ends complete.

The list of hazards with their lines is in `PROJECT.json`, "hazards".

## 2. The modules

| module | models | uses |
|---|---|---|
| `BipBlocks` | the functions of `XmfBipBuffer.c` as operators on a context record | |
| `ByteFifo` | abstract specification: what a bip buffer promises | |
| `BipBuffer` | a writer and a reader calling the buffer, one call a step | `BipBlocks`, `ByteFifo` as refinement |
| `BipBlocksProofs` | lemmas: what each operator does to a context and its unread bytes | `BipBlocks` |
| `BipBufferProofs` | inductive invariant of `BipBuffer`, and that it implements `ByteFifo` | `BipBuffer`, `BipBlocksProofs` |
| `MkvStream` | `XmfMkvWriter_Write` (two steps) and `XmfMkvStream.Read` | `BipBlocks` |
| `MkvStreamProofs` | inductive invariant of `MkvStream` | `MkvStream`, `BipBlocksProofs` |
| `WebM` | `XmfWebM.cpp` as operators on a context record | |
| `Recorder` | `XmfRecorder.c` with its clock, one call a step | `WebM` |
| `SessionProofs` | inductive invariants of `Recorder` and of `DucStreamer`, the two ends of a session | `Recorder`, `DucStreamer` |
| `VpxDecoder` | decoder, images, handles, threads and the collector | |
| `VpxDecoderProofs` | inductive invariant of `VpxDecoder` | `VpxDecoder` |
| `PushClient` | `DucPushClient`, its loop, socket and gateway | |
| `DucStreamer` | `DucStreamer` over `DucStreamerBackendV3`, its sockets | |
| `PushClientProofs` | inductive invariant of `PushClient` | `PushClient` |
| `Ebml`, `EbmlCodec` | libwebm's coded integers; each value written, cut and read | |
| `WebmElements` | every header element: announced size, bytes written, what is parsed | `Ebml` |
| `WebmHeaders`, `MCWebmHeaders` | a header written, parsed, copied by the remuxer, written and parsed again | `WebmElements`, `EbmlCodec` |
| `WebmMuxer` | `mkvmuxer::Segment` as functions: frames, clusters, queue, cues, Finalize | `WebmElements` |
| `WebmParser` | `mkvparser::Segment` and `Cluster` as functions, on a file that may be cut | `WebmElements` |
| `Remux`, `MCRemux` | a recording, its end or crash, and `XmfWebMMuxer_Remux` | `WebmMuxer`, `WebmParser` |
| `MCWebm` | one instance of the headers and of the frames, in one run | `MCWebmHeaders`, `MCRemux` |
| `RemuxProofs` | invariants of the muxer between two frames of a recording, and of the file it leaves | `Remux` |
| `XppCompare`, `XppMove` | comparison, copy and move, generic, SSE2 and NEON | |
| `XppColor`, `XppWalk` | the colour arithmetic on a block; the walks through planes and images | |
| `XppPrimitives` | the table, its lazy initialisation by several threads, the SIMD probe | |
| `MCXpp` | one instance of all five, in one run | the five |
| `XppProofs` | inductive invariants of all five | `MCXpp` |

Operators whose comment begins with "Mutant:" are deliberately wrong variants of the operator
that follows; no specification uses them. They exist to show that each property notices a
plausible error (`PROJECT.json`, "mutants").

### 2.1 BipBlocks, BipBuffer, ByteFifo

`ctx` has the fields of `struct xmf_bip_buffer`, with `size_t` as naturals: TypeOK says that
no subtraction goes below zero. `readR` is only ever cleared by the code and is left out.
Memory holds a byte of a small set or `Junk` (what `malloc` leaves). Each exported call is one
action; `alloc` is the outcome of `malloc`. The writer is in one of two modes, between
`WriteTryReserve` and `WriteCommit` or not (`reserved`); the reader likewise (`peeked`).

Details the model keeps because they decide the outcome: `SetSignaledState` ignores its
argument and always raises the flag (were it honoured, Grow, which drains the buffer with
"false" on the way, would leave a buffer with data unsignaled: that is the mutant of
`DataIsSignaled`); `PageAdjust` adds the remainder instead of rounding up; `ReadReserve` asks
Grow for one byte more than the capacity only to have the bytes made contiguous, and the
buffer grows each time; `WriteReserve` does not look at what its second attempt reserved.

`ByteFifo` is a queue with staged and peeked bytes. `BipBuffer` implements it under the mapping
queue = unread bytes, pending = content of the reservation; this is `FifoSpec`, checked by the run
and proved.

Calls that overlap in time are a data race in C, no doc allows them and no lock orders them,
so they are outside the model.

### 2.2 MkvStream

The bytes of the stream are 0, 1, 2, ..., so a gap, repetition or exchange shows.
`GrowForBlock` and `StoreBlock` are the two halves of `XmfMkvWriter_Write`; `ReadStream` is the
application. `StreamIntact` also ties libwebm's notion of the position to the bytes stored.
`FailsOnlyWhenSplit` states precisely when a write fails although the buffer was grown first:
when Grow found the capacity sufficient and moved nothing while the free space is in two
pieces, or when memory ran out. Not modelled: file and pipe targets, `SetPosition` (libwebm
does not seek targets that are not seekable), disposal of the stream.

### 2.3 WebM, Recorder

Time is in timecode units, `Second` of them a second. A frame is its number. The frame is
converted (`img`, `at`) and stays pending until the next frame, a timeout or the end. What
libvpx does with an image is one of "packet", "none", "error"; the encoder runs without
look-ahead, so a flush gives no packet. Opening the output succeeds, fails before the file is
touched, or fails after (the file is then deleted). Each recorder call is one step, as the
.NET class serialises them, and reads the clock once.

Behaviour of the code that the model contains and a user should know:

* a frame submitted after an idle period is recorded with the pts of the previous encode, so
  it appears early; `ShownInTime` bounds how early and how late;
* the timestamp clamp of `WriteBlock` only ever moves the first block after the start, because
  pts strictly increases otherwise;
* the flush in `Finalize` is counted like a frame, so pts is positive even without frames and
  the "delete an empty recording" branch runs only when libvpx refuses the flush;
* `UpdateFrame` after `Uninit` initialises again and truncates the finished file;
* `GetTimeout` is 0 both for "due now" and for "nothing recorded", and grows beyond the period
  when the manual clock is set back;
* `SetCurrentTime` during a recording on the system clock has no effect.

Left out: `SetFrameSize`, quality, file name, directory and bip buffer setters (they only store
parameters); `SetEnabled`, `IsEnabled` and `Update`, which the public header does not export.
`SetFrameSize` after `Init` leaves the encoder's image at the old size: the re-initialisation
on a new size cannot happen, because `UpdateFrame` compares the context's size with itself.

### 2.4 VpxDecoder

`lock` is `SyncRoot`; a thread's `pc` names the point in the call it is in, with a step before
and after each native call, where the runtime adds and gives back a reference on the handle.
Any thread may dispose the decoder, an image, or the decoder's handle directly (without the
lock). The collector finalizes whatever is not reachable; `GC.KeepAlive` at the end of `Copy` is
what keeps an image reachable while its planes are read, and removing it is the mutant of
`NoUseAfterFree`. `Decode` moves the generation even when libvpx rejects the data. Pointers from
`GetPlane` used outside the lock are the application's responsibility and not modelled; nor are
the format and size exceptions of `Copy` and `GetLastError`, which change nothing.

### 2.5 PushClient

`ws`, `receiveLoopCts` and `receiveLoop` are the fields; `call[t]` is where call t is. The steps
are the points between which another thread can run: the three assignments at the end of
`ConnectAsync`, the two reads and two writes of `StopReceiveLoopAsync`, the check of the state
before the handshake, each `await`. `ClientWebSocket` is external: it sends in Open and
CloseReceived, aborts when a send or receive is cancelled, and a cancelled close may or may not
have aborted it. The gateway may close with 4010, answer a close or stay silent; the link may
drop. Connecting from two places, or while disposing, is excluded: two `ConnectAsync` calls
that both pass the check lose a socket, and nothing in the code is meant to prevent it.

Two more behaviours that no doc speaks about, found while modelling: when two closes overlap,
the second to cancel may find the source disposed, so `Cancel` throws, and if that call is a
`DisposeAsync` its `socket.Dispose()` is skipped (`CancelThrows`); and a close that overlaps the
last lines of `ConnectAsync` may clear fields about to be set, so that a loop starts that nobody
stops (`raced` sockets, which the properties exempt).

### 2.6 DucStreamer

`streamer` and `adaptor` are the two fields, `stream` the backends whose `Stream` is set, `socket`
the state of each web socket, `asked` the calls of `CloseAsync` that have not ended, each with its
code and whether it can be cancelled. A call is the steps between
which another thread can run, since nothing is locked and `this.Streamer` is read anew in each
expression. `EndConnect` may happen before the socket opens: the wait's result is ignored, so a
timeout is a success; `EndConnectAsync` is the await of `ConnectUrlAsync`, which a timeout or a token makes
fail. `ConnectOld` always fails, and its catch block disconnects whatever the
streamer had: no backend of versions 1 and 2 ever gets metadata before the hello that reads it, so
every handshake ends in a NullReferenceException, which the connector turns into `false`. Their
framing and keepalives are therefore unreachable and not modelled.

Disconnect and EndRecording pass their CancellationToken to `ClientWebSocket.CloseAsync` and do not wait for
it: the `finally` disposes and forgets the backend first, so a cancellation (`CancelsClose`) comes at any time
after. One that comes while CloseAsync still waits for its turn to send leaves the socket open and says nothing;
a later one aborts the socket. `WriteAsync` has a token too; when it is cancelled during the send, the
socket is aborted (`Write`).

What the code does here that a user should know:

* after a timed-out connect `Connected` is true; `EndRecording` then throws on the connecting socket,
  the backend is disposed, and the socket that opens later is never closed ("abandoned"), although
  the comment of `EndRecording` says that it ends the recording at once;
* when the token of a close is cancelled before the close frame is sent, the gateway is told nothing, and the
  socket stays open, known to nobody ("cancelled");
* a second `ConnectUrl` does not dispose the backend it replaces, whose connection stays open ("replaced");
* the `finally` of a `Disconnect` may dispose the backend of a `ConnectUrl` on another thread ("crossed");
* `Connected` stays true after the gateway has closed, because `XmfWsStream` never receives;
* `WriteAsync` after `Disconnect` goes to the old backend through the adaptor and throws;
* `DucStreamerBackendV1.WriteAsync` would copy in the wrong direction (line 235), were it reached.

`why` records which of the four last happened to a connection. These are cases the code leaves open: in
them a connection is lost, and the run has a behaviour for each. NoStrayConnection and EndIsTold say that
nothing else loses one: not two calls that end it at once, in any order of their steps, not a send or a
dropped link in between, not a wait that timed out whose socket opened before the end.

### 2.7 libwebm's headers: Ebml, EbmlCodec, WebmElements, WebmHeaders

The muxer computes the size of a master element in one function and writes its children in
another; a disagreement makes the write fail or the rest of the file unreadable. `WebmElements` has both
halves for the EBML header, segment information, tracks (video, audio, colour, mastering, projection,
encodings), tags and chapters, and the parser's reading of each. Strings and blobs are their lengths; an
integer counts with its bytes. `EbmlCodec` checks the coded integers by themselves, with a byte of
fewer bits so that every length occurs.

`HeadersReadBack` states exactly what does not come back as given: a `ChapterUID` is written
unsigned and read signed, a string or blob of no bytes reads back as NULL, and two kinds of
track that the muxer writes make the parser refuse the file (`TooStrict`). One is a picture with the largest
luminance the muxer takes, its constant `9999.99f`: as a float that is 9999.990234375, and the parser compares
what it read with the double 9999.99 (`MaxLuminanceMax`, `ReadLuminanceMax`; luminances are in units of 10^-4,
the next float below and this one being in the run). The other is a metadata track with encodings. Of what else is neither
picture nor sound the encodings are not looked at, and an encoding that does not parse costs those behind it
(`ParseEncodings`). The muxer itself refuses a mastering with a largest luminance and no smallest, since it compares
with an absent bound as the largest float; it takes a smallest alone, and a chromaticity with one
coordinate it refuses.

`CopyDescribesFrames` is about the remuxer, which copies by
hand: it keeps what a decoder needs and drops language, display size, stereo mode, default
duration, colour space, encodings, chapters, a video track's codec delay and the fraction of a sampling rate, which it
casts to int (`WholeHertz`; a rate below 1 Hz becomes 0, which the parser refuses); an empty tag string comes
back as NULL and the copy is refused; an absent codec id becomes `V_VP8` or `A_VORBIS`; of several
tracks of one type all frames go to the last.

### 2.8 The muxer, the parser and the remuxer: WebmMuxer, WebmParser, Remux

A file is the sequence of elements written, each with its place, header length, size and value;
"seekable" (a file) lets the muxer write over what it could not know, "not" (a stream) leaves unknown
sizes and no seek head. A frame is one byte long; times are multiples of the timecode scale. The
recording ends with Finalize, after any number of Finalize's five steps, or with the end of the file lost:
the file is cut at, in, or after the head of any element. Then `XmfWebMMuxer_Remux` runs, one parser
loop round or one copied frame a step.

Model choices: only streams have tags; sound is always a key frame; only sound has discard padding; a
recording goes on until a frame is refused (the recorder itself ignores the result of AddFrame and would
go on). What the code does here:

* sound waits for the next picture; when a frame then comes further from it than a block's 16 bits
  reach, the frame is refused and the remuxer answers MUXER_ERROR, although the comments in `TestFrame`
  and `DoNewClusterProcessing` have a new cluster made for it: the new cluster begins with the waiting
  frame, not with the one to come, and `TestFrame`'s answer 2 is unreachable because `AddGenericFrame` already
  forces a new cluster. The run `remux_gap` shows it against what the comments say (`FarFrameTaken`, section 5);
  `RefusedOnlyAcrossGap` says that nothing else is refused;
* after a failed `WriteFramesAll` or `WriteFramesLessThan` freed frames stay queued;
* a recording with a video track but only sound in it can neither be finalized nor remuxed;
* a crashed recording in a file keeps the provisional duration of 1, and so does its copy, while a
  stream's is computed;
* a cluster of known size that is cut is dropped whole, one of unknown size loses only the cut block;
* a recording cut within its tracks makes the remuxer dereference NULL: the status it tolerates as "a
  damaged cluster" (`XmfMuxer.cpp:68-70`) also stands for a damaged header;
* the seek head has room for exactly the five entries that are made.

Not modelled: chunking, live mode, accurate cluster duration, MoveCuesBeforeClusters, lacing, seeking
through cues, parsing the seek head; libxmf uses none of them.

### 2.9 libxpp: XppCompare, XppMove, XppColor, XppWalk, XppPrimitives

The parts share no state; `MCXpp` starts in one of them, so that one run checks them all.
`XppCompare` computes the changed rectangle of each kernel from which columns and rows it reads;
`XppMove` runs Copy and Move load by load and store by store on one memory; `XppColor` does the integer
arithmetic with its widths (wrap of bytes, saturation of packs, sign of shifts); `XppWalk` follows the
pointers of three planes and the image through odd sizes and padded pitches; `XppPrimitives` lets
threads initialise, override and call through the table at once.

What the code does here:

* the SSE2 kernel reads a last tile of 5-7, 9-11 or 13-15 columns in whole vectors of four and never
  looks at the rest (`XppCompare_sse2.c:245-269`; NEON 9-11 and 13-15 columns), where the generic
  kernel compares every column; `ChangesReported` states that these are the only changes missed;
* the generic Move, to the left by less than a width, copies overlapping rows with memcpy
  (`XppCopy.c:56-58`), though its SIMD form is written for overlap; what arrives depends on the C library, and
  `BlockArrives` excepts it;
* at an odd last column or row the YCbCr encoder sums the two pixels, or the one, that a block has in the image, and
  still divides by four (`XppYCbCr.c:290`, `300`, `311`, `323-325`): the chroma fades there to half or a quarter, and
  the decoded pixels are greyer than the image. `ColorsKept` gives the bound with the number of pixels in it
  (`there`): in a whole block a uniform colour comes back within 4, in a block of n pixels its distance from
  its luma shrinks to n quarters, within the same 4;
* the comparison marks tiles in `rows[1024]` and (SSE2, NEON) `cols[1024]` on the stack and checks no size
  (`XppCompare.c:23`): an image of more than 1024 tiles of 16 pixels a side writes past them. Images here have no more
  than `MaxTiles` (`SizesAssumption`, an assumption of the run and of the proofs);
* the YCbCr decoder walks a row below an image of odd height (its lastRow is unused); the Halide decoder
  refuses odd sizes through halide_error; the table holds the SIMD kernels whatever the probe finds:
  SIMD_FORCENONE and Xpp_SimdSet only change what is reported;
* two threads may both initialise the table: one clears it while the other calls through it. A crash
  needs the second thread to be inside the initialisation (`CrashNeedsTwo`), and the table ends complete.

## 3. The runs

| run | module, cfg | shows | bounds |
|---|---|---|---|
| `bip_buffer` | `BipBuffer`, `BipBuffer.cfg` | TypeOK, BlocksApart, ReservationFree, PeekStable, DataIsSignaled, refinement of ByteFifo | two byte values, calls of up to 3 bytes, capacity up to 5, page 3, malloc succeeds or fails |
| `bip_full` | `BipBufferFull.cfg` | finding: Write can return -1 (see 5) | capacity up to 4, malloc never fails |
| `mkv_stream` | `MkvStream.cfg` | StreamIntact (with types and order), FailsOnlyWhenSplit, AllDelivered | 8 bytes in blocks of up to 3, reads of up to 3, page 2 |
| `recorder` | `Recorder.cfg` | TypeOK, PlaybackInSync, TimestampsIncrease, ShownInTime, FinalFrameKept, LastingFramesKept, RecordingKept, PendingEncoded | clock 0..4, 2 units a second, 3 frames, rates 1 and 2, key frame every second |
| `vpx_decoder` | `VpxDecoder.cfg` | NoUseAfterFree, DestroyedLast, CopyIsOwnFrame, DisposeWaits, NativeFreed | 2 threads, 2 images, 2 decodes |
| `push_client` | `PushClient.cfg` | OpenIsWatched, LoopStopped, EndIsTold, DisposeReturns | 2 calls at once, any number in sequence, 1 connection, both close codes |
| `push_full` | `PushFull.cfg` | finding: 4010 is not surfaced by a send that succeeds | 1 call at a time |
| `push_reconnect` | `PushReconnect.cfg` | finding: a closed client is "already connected" | 1 call at a time, 2 connections |
| `xpp` | `MCXpp`, `Xpp.cfg` | ChangesReported, BlockArrives, ColorsKept, SamePixel, TableComplete, CrashNeedsTwo | widths and heights on both sides of each tile, word and register, shifts under and over a register, five samples a channel, blocks of 1, 2 and 4 pixels inside the image, 2 threads |
| `webm` | `MCWebm`, `Webm.cfg` | of the headers HeadersReadBack, CopyDescribesFrames; of the frames FramesKept, FramesRecovered, IndexTrue, RefusedOnlyAcrossGap | any two fields of a header off their defaults at once; integers to 4000 in bytes of 4 bits; 4 frames, video, audio or both, steps at, within and beyond the reach of a cluster (3), every cut |
| `remux_gap` | `MCRemux`, `RemuxGap.cfg` | finding: a frame too far from the sound that waits is refused | as the frames of `webm` |
| `streamer` | `DucStreamer`, `DucStreamer.cfg` | NoStrayConnection, EndIsTold | 2 calls at once, 4 in sequence, 2 connections, each token cancelled or not |

Where a property has parts, its comment names them: a run states as one property what answers one
question.

Why these bounds are enough to meet the interesting cases.

* A buffer of 5 cells and calls of 3 bytes reach every arrangement of the blocks (A alone, B
  before A, wrapped and full, either free piece too short), growth with and without a page
  remainder, and reservations that survive reads emptying the buffer. The proofs lift
  the block properties to every size.
* 8 bytes in a buffer that starts below 4 cells force growth, wrap-around and a split free
  space within one stream.
* Three frames and four ticks are enough for: pending frame flushed by a frame, by a timeout,
  by the end; two frames within a period; a failing encode between two good ones; a second
  recording into the same file; the clock back at or before the last encode. A second of two
  units makes one rate's period one unit and the other's two. The proofs lift synchrony and
  monotonicity to any number.
* Two threads and two images suffice for a stale and a current image at once, a double dispose,
  and a finalizer beside a native call.
* Two calls in progress are enough for each pair of push client methods, in every order of
  their steps; one connection, because connections share nothing but the three fields. A
  second connection is in `push_reconnect` only. The streamer needs two connections for a
  replaced one, two calls for a `finally` that meets another's backend, and four in sequence to connect, end, connect
  again and end or send once more.
* A cluster reaches 3 units and lasts 2, so four frames meet each branch: a new cluster for a key
  frame, for its length, for its reach, sound waiting across each of them, two waiting, the last one
  kept back. Every element is cut at its first byte, after one, after its id and after its head.
* Fields of a header share bytes only through sizes, so pairs of fields, each at its boundary
  values, reach every branch of two `if`s; a byte of 4 bits gives integers of each length a code.
* A kernel's columns repeat with its register and tile width, so one size on each side of each is
  enough. The samples are the extremes, their neighbours and the sign boundary.

Deadlock is checked except in `MkvStream.cfg`, where the stream ends at `MaxSent`,
`VpxDecoder.cfg`, where the application may have let everything go, `DucStreamer.cfg`, where both
connections and all calls may be used up, and `Xpp.cfg`, `Webm.cfg` and `RemuxGap.cfg`, each of whose behaviours is
one computation with an end.

Histories, which no action reads except to keep a bound: `failed`, `noMemory`, `got` (MkvStream); `frames`
names the frames, `clean` and `steady` (Recorder); `seen`, `copies` (VpxDecoder); `raced`, `crossed`, `fullSeen`, `owed`
(PushClient);
`owed`, `why`, `hasty` (DucStreamer); `sent`, `gap` (Remux).

### Fairness

* `MkvStream`: the application goes on reading. Nothing makes libwebm write.
* `Recorder`: the system clock ticks; the application calls Timeout when GetTimeout is 0, which
  is what GetTimeout is for. Frames are not assumed to come. PendingEncoded asks only of states
  with enough of the bounded clock left for the timeout to expire.
* `VpxDecoder`: a call that has begun goes on to its return; the collector eventually finalizes
  what is unreachable. No call is assumed to be made.
* `PushClient`: continuations run, cancelled receives return, and the one-second timer of
  DisposeAsync fires. The gateway, the network and the callers' tokens owe nothing.
* `DucStreamer`: a call that has begun to end a connection goes on, and a CloseAsync that was started sends its
  close frame, or aborts a socket whose link is down, unless its token is cancelled before: fairness is on the
  step `SendsClose`, which `CancelsClose` can disable for good, and EndIsTold then asks nothing (`why` is
  "cancelled"). A connect, the gateway, the network and the callers' tokens owe nothing.

## 4. The proofs

Each module of proofs is about one component and holds for every value of the constants. What follows
says, for each, what is proved, why it is not inductive as it stands, and what the invariant adds.

`BipBlocksProofs` is about the operators. A context is `Good` when it is well formed and its blocks
are `Apart`; no operator makes a good one bad (`GrowGood`, `ReadGood`, `WriteCommitGood`, ...). Two
relations say what an operator does to the unread bytes: k bytes are `Dropped` from the front, or k bytes
of a sequence are `Added` at the end. They hold of operators in sequence because they compose
(`AddedTwice`), whichever block the bytes are in and even when Grow moves them to other memory.

`BipBufferProofs` proves, for every `Byte`, `PageSize`, `MaxIO` and `MaxSize`:
`Spec => []TypeOK`, `Spec => []BlocksApart`, `Spec => []ReservationFree`. None of them is inductive:
`WriteCommit` decides by the reserved index alone whether it extends block A or block B, so where
the reservation lies relative to both blocks must be known. The inductive invariant adds that
block B always starts at cell 0 (`Apart`) and that a live reservation is empty, or over an empty
buffer, or directly after block A while there is no block B, or directly after block B and
before block A (`Region`).

It also proves `Spec => FifoSpec` (the refinement of `ByteFifo`), `Spec => []PeekStable` and
`Spec => []DataIsSignaled`: a lemma for each relation turns it into the equations of `ByteFifo`
(`AddedAppends`, `DroppedRest`, `GotFirst`), and one per action shows that it is the queue's step
(`WriteBytesIsPut`, `PeekBytesIsPeek`, ...). The invariant adds to the one above that
peeked bytes are the first of block A, not only of the unread ones (`Peeked`): `ReadCommit` never
drops more than block A, so PeekStable alone would not make the commit of a peek drop what was peeked.
That is why `Added` also says that block A never becomes shorter.

`MkvStreamProofs` proves `Spec => []StreamIntact` and `Spec => FailsOnlyWhenSplit`, for blocks and reads of
any length. StreamIntact says which bytes the stream holds so far; that the next one is right needs that all
before it have smaller numbers and that the position has not fallen behind while no write failed
(`Numbers`). That a write fails only for split free space or want of memory needs that the room Grow made is
still there when the block is stored, since reads in between only free more (`Room`); from it, a block that
fits one piece is stored by one round of `Write` and one that fits two by two (`FitsIsWritten`).

`SessionProofs` proves of `Recorder`, for every `Second`, `KeyFrameInterval`, set of rates and course of the
clock: `Spec => []TypeOK`, `Spec => []PlaybackInSync`, `Spec => []TimestampsIncrease`. The
inductive invariant says of the open recording that it is a well-formed context, that its block
times increase and end at `last_pts`, which is not above the current pts (`Sorted`), and that pts
equals the time from first to last encode plus a period (`InSync`); of the closed one only that
it is `Sorted`, since the flush at the end breaks synchrony on purpose. `Flushable` (the clock is later
than the last encode) is what makes durations positive, and its weakening is the mutant of both TypeOK and
TimestampsIncrease.

A second invariant, `HInv`, is about the blocks and proves `Spec => []ShownInTime`, `Spec => []FinalFrameKept`,
`Spec => LastingFramesKept` and `Spec => RecordingKept`. It says that a recording with blocks has taken time
(`Counted`, without which Finalize would delete it), that the last frame that came is pending or is the last
block (`Shown`), and that blocks, last encode and pending frame lie on the clock in that order (`Timely`). The
bounds of ShownInTime then follow from `InSync`: a pts is the time of an encode less the first, plus a period.
Timely holds only while the clock is not set back (`steady`), and Shown while every encode gives a packet
(`clean`), as the properties say themselves.

`VpxDecoderProofs` proves `Spec => []NoUseAfterFree`, `Spec => []DestroyedLast`, `Spec => []CopyIsOwnFrame` and
`Spec => []DisposeWaits`, for any number of threads, images and decodes. Whether a thread may touch native
memory depends on a count it never looks at, so the invariant says what the count counts: the handle's own
reference, one for each image that keeps the decoder alive, and one for the native call in progress
(`Counted`), of which there is at most one because its thread holds SyncRoot (`Locked`). What a thread found
when it took the lock stays so during its call (`Stages`): only disposal without the lock could change it, and
that only gives back the image's own reference. A copy is of one frame because images of the present
generation show what the buffers hold and none is left while a decode is under way (`Fresh`).

`PushClientProofs` proves `Spec => []OpenIsWatched`, `Spec => LoopStopped` and `Spec => EndIsTold`, for any number
of calls in progress and of connections. Three fields are read and cleared without a lock, so that no loop is
dropped between two calls rests on where each call is. The invariant says, of a connection whose ConnectAsync no
close overlapped: the fields name it only while it is the client's or a Dispose has yet to clear them (`Held`); the
calls in progress are about it (`Owns`); what a close has read of a field is what it holds, or it is cleared
(`Reads`); a loop that runs is in the field, or a close holds it and will await it (`Accounted`). Where no two
calls overlap, only the one call touches the connection (`Single`), so what it found when it began is true at its
end (`Tells`).

Of `DucStreamer`, `SessionProofs` proves `StreamerSpec => []NoStrayConnection` for any number of calls in progress
and of connections, with tokens cancelled at any time. The invariant is about the code between two awaits: whether
`Clear` forgets an open connection depends on what the steps before it found. The strengthening says, of
connections to which none of the four causes has happened: one that may still be used and is not being closed is the
streamer's (`Held`); it has a stream or a call waits for it (`Kept`); what has a stream was open or is in haste
(`Streams`); until a socket is asked to connect the streamer has nothing else (`Starts`); a call about to close finds
the stream it saw (`Closes`), and one about to dispose or clear finds the connection no longer usable (`Over`), however
many calls end it at once; and only one call connects at a time (`OneConnects`).

`RemuxProofs` proves `Spec => []RefusedOnlyAcrossGap` of `Remux`, for any tracks, kinds of frames and limits of a
cluster, and recordings of any length. A refusal comes from deep inside: `AddGenericFrame` may force a new
cluster, which first writes what waits into the one there is, then begins at the first frame that is left, and
writes the rest; each of these writes fails on a time out of the cluster's reach. The invariant is of the muxer
between two frames (`Held`): what waits is in the order of its times, is not later than the last frame, and is
within reach of the cluster there is, which has its head and is not finalized (`Running`). From it the lemmas
go outward: a queue in reach is written whole (`WriteFirstIs`, by the least frame that would fail), all but its
last frame is written before a new cluster (`FollowedIs`, `LessThanIs`), a new cluster begins at the frame that
is left (`NewClusterIs`), and what comes is then written if and only if it reaches that one (`GenericIs`, `Fits`).
The lemmas in fact show that what the history calls too far and what the muxer refuses are the same (`AddIs`); the
theorem states the half that is a virtue of the muxer, the other half is the finding of `remux_gap`.

It also proves `Spec => []FramesKept`: until a frame is refused or an end fails (after which freed frames stay
queued), the frames the muxer took are the blocks of its file followed by the frames that wait, in the order they
came, each with its track, kind and time. A block holds only its distance from the cluster it is in, and its
time is read back by adding the cluster's, so the invariant goes by the file: block i of it tells of frame i of the
recording by the last cluster before it (`Filed`), the current cluster, once it has its head, is the last one of the
file, with the same timecode (`Filing`), and the queue holds the rest of the frames (`Queued`; together they are
`Keeping`). What the end writes over (sizes, the duration) and adds (cues) changes no block (`Stored`, `Ending`).
Only the seek head moves them: `Finalize` puts two elements into the room left for it, and `Parted` says that
every other one is as it was, after as many blocks.

`XppProofs` proves the five parts of `MCXpp`, each with an invariant of its own, since they share no state.

* `Spec => []ChangesReported`, for images of every size with up to two changes in them. A rectangle is
  described by the changes it is spanned by (`Describes`); `DescribedIsTight` says what such a rectangle holds
  and how tight it is, and `DescribedOnce` that the changes determine it. Each kernel is then shown to find
  exactly the grid cells of the changes it reads: the generic one by tile numbers (`AxisTile`), the vector ones by
  corners (`AxisReads`), the linear one row by row (`LinearFinds`). So the SSE2 and NEON kernels agree with the
  generic one, computed another way, on all but the tail they leave out. That two changes give every
  rectangle is a modelling choice of `XppCompare`, not a result.
* `Spec => []ColorsKept`, for every subset of the 256 values of a channel. The forward transform is undone
  exactly (`YCoCgLossless`, `A710Lossless`); the four ways to encode and decode 4:2:0 are equal because nothing
  wraps or saturates where they differ (`NoWrapHere`, `EncodersAlike`, `DecodersAlike`), which needs the ranges of
  the sums (`ChromaFits`); the loss on a uniform block and by alpha is bounded by arithmetic on the shifts
  (`UniformNear`, `UniformNearYCbCr`, `AlphaTest`), for YCbCr from the sums of the 1, 2 or 4 pixels a block has in the
  image (`PartSums`, `YCbCrArithmetic`). The invariant says what has been coded, by which kernel.
* `Spec => []BlockArrives`, for every pitch, size of block and overlap. BlockArrives says what memory holds at the
  end and that nothing is lost ahead; the invariant says what it holds in between: where the call has come to, as
  rows and columns (`ForwardAt`, `BackAt`), makes the pointers, and memory is the one at the call with the part of
  the block below the pointer moved (`UpTo`), or above it (`DownTo`). One step moves a run of the block into the
  place that is next because the source lies ahead of it (`Advance`, `Retreat`), and the pad between two rows holds
  nothing of the block (`RowEnd`). memcpy of a row is a recursion over its pixels, taken from either end; that both
  come to the same where the rows do not overlap (`RisingStores`, `FallingStores`) is proved by the least pixel
  that would differ (`Least`), which takes the place of an induction.
* `Spec => []SamePixel`, for every size, pitch and pad. Again the invariant is the place a walk has come to
  (`PairAt`, `PixelAt`, `EncoderAt`, `DecoderAt`): rows and columns done give each of the pointers, the image's and
  the planes', and the samples touched are exactly those of the pixels passed (`Passed`, `Painted`). Pitches are
  parameters, so that a row ends where the next begins is arithmetic with products (`Distributes`), kept out of the
  steps.
* `Spec => []TableComplete` and `Spec => CrashNeedsTwo`, for any number of threads and each build. Once somebody
  has assigned an entry, every entry is the wanted one or some thread still has to assign it (`Filled`), and
  what a thread still has before it is always an end of the list of assignments (`Suffixes`), the last of
  which to an entry is the wanted one (`StagesEndWanted`).

Assumptions of the proofs are the named ASSUMEs of the modules (page size and second are positive, rates lie
in 1..Second, samples are bytes, images to compare are of 1 to 16384 pixels a side, the distinguished values are outside the sets). TLC
finds each inductive invariant true on the instance of the component's run, but for two that are stated with
quantifiers it cannot enumerate: `Few`, which bounds the changes of a comparison, and the place of a walk, which is
any pair of numbers. Those of `RemuxProofs` were checked with their two unbounded quantifiers written out: a sequence
as a function on `1..Len(q)`, and the number of frames written as one up to `Len(sent)`.

Only model-checked:

* of libwebm's headers, HeadersReadBack and CopyDescribesFrames. They are about what recursive codings compute
  for a value, which takes an induction over data;
* of the remuxer, FramesRecovered and IndexTrue. Both find an element by its position, and a position is a sum of
  coded sizes over all elements before it (`Total`, a fold; the size of a number by `Digits`): that positions
  differ, that a cut falls where it does and that the parser ends a block where the muxer did are again inductions over
  data. What the proofs say of the recording's half, before a crash, is FramesKept;
* every liveness property (AllDelivered, PendingEncoded, NativeFreed, DisposeReturns, the streamer's EndIsTold):
  fairness and ENABLED are out of reach too.

## 5. Findings

1. `bip_full`: `BipBuffer::write` (Rust) expects that the status of `XmfBipBuffer_Write` "is never
   negative"; the C function returns -1 when the buffer is full and already as large as the
   block, with no malloc failing. The write panics.
2. `push_full`: the receive loop's comment says that, once CloseStatus is populated, senders will
   surface `DucStorageFullException`; a send looks at it only when it fails, and a socket that has
   received a close and sent none still sends. The payload is lost without an error.
3. `push_reconnect`: after a close by either side `Connected` is false and `ConnectAsync` throws
   "already connected", until `DisposeAsync`.
4. `remux_gap`: libwebm's muxer says of a frame too far from the last cluster that "we must create a new cluster"
   and tests it again against that; the cluster it makes begins at the sound that waits, and the frame, out
   of its reach too, is refused and lost. Where the remuxer muxes, it answers MUXER_ERROR.

## 6. Plan

Every part of the plan that can be modelled is: bip buffer, live stream, recording and recorder, vpx
decoder, push client, streamer, libwebm with the remuxer, primitives. Every safety property that the
runs check of the bip buffer, stream, recorder, decoder, push client, streamer and primitives is proved, and of
libwebm that the muxer refuses no frame but across a gap and keeps every other. What is left of libwebm is
model-checked (section 4).

### Not modelled

* The vpx encoder, its packets and frames (`XmfVpxEncoder.c`, `XmfVpxPacket.c`, `XmfVpxFrame.c`): each
  function is one call of libvpx, whose source is not here; what a recording needs of it is the
  three outcomes of an encode in `WebM`.
* The Rust bindings of the decoder and encoder: an image borrows its decoder, so the compiler refuses
  the orders that `VpxDecoder` explores for .NET. The other Rust and .NET classes forward to C calls that
  are modelled.
* Versions 1 and 2 of the streamer's protocol: `ConnectOld` sends a hello with metadata that nobody
  set, which throws, so neither is ever connected and their framing never runs.
* Sampling rates, channels and sizes of 2^31 and more, which the remuxer's casts to int would change: the values of the
  headers here are below that.
* Files, pipes, strings, bitmaps and PNG: input, output and formats without state of their own.
* Of libwebm, the parts that libxmf does not call (section 2.8); Halide's comparison, which the table does
  not hold, and its copy and scaling pipelines.
* The Rust FFI crate and the examples: declarations, and programs that call what is modelled.
