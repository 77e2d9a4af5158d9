# Foldback in TLA+

Foldback finds desyncs in lockstep games. Every peer hashes its simulation
state each tick and gives the hash to a *session*; the game exchanges hashes
over its own netcode; the session says at which tick two reports contradict
each other, and writes everything to a `.foldback` file that a command line and
a viewer read later, or streams it to the viewer live.

These modules model the Rust core (`crates/foldback-core`) and what is built on
it (the peers, the recording, live mode, the viewer, the C API and Godot's class,
the reflective walkers), from the source. TLC checks them on small instances; TLAPS proves the main
theorems for every value of the constants. Line numbers are those of the
commit beside which this directory is kept.

    tlc -workers 2 -config MCSession.cfg MCSession      # one run
    tlapm SessionProofs.tla                             # one module's proofs

## 1. Inventory

| Part | State it keeps | Operations | What is hard |
|---|---|---|---|
| **Session** (`session.rs`, `ring_buffer.rs`, `bisect.rs`) | retention ring, pending hashes, reports by tick, ticks already answered, running hash, schema names written, writer | `hash_tick`, `record_peer_hash`, entity/field reports, `record_schema`, `take_pending_hashes(_up_to)`, `check_divergence`, `finish`, `finish_recording` | every fallible call changes some state before the write that can fail and some after; ticks are hashed again by rollbacks; reports come late, twice, out of order |
| **GGRS bridge** (`foldback-rs/ggrs.rs`) | none | `record_desync`: two reports in one call | the second is skipped when the first fails |
| **Game loop and netcode** (the game's; quickstart, `ggrs-demo`) | tick counter, messages | hash, drain, send, record, check | loss, copies, reordering, bounded drains, retries |
| **Recording** (`format.rs`, the session's `BufWriter<File>`) | file, buffer | three writes a frame, flush, drop | partial writes, crashes, going on after an error |
| **Reader and command line** (`FrameReader`, `foldback-cli`) | none | `analyze`, `ci-check`, `schema-diff`, `lint` | cut and damaged files; exit codes gate CI |
| **Live transport** (`live.rs`) | channel, one connection | `bind`, `send_frame`, the server thread | blocking `accept`, lost frames, shutdown |
| **Viewer** (`foldback-ui`: Rust backend, `dist/index.html`) | stored connection, a thread each, calls, replies and events in flight, the timeline | connect, disconnect, load, events | events of an old connection, order of arrival, a main thread that waits |
| **Schema** (`schema.rs`, `foldback-derive`, `lint`) | none | mark, fingerprint, extract, drift, list | three readings of one declaration; a file cut before its schema |
| **Reflective walkers** (Bevy, Godot, Unity, Unreal) and field bytes | depth, visited set | walk, record leaves | half a value recorded on error; false cycles; order of unordered containers |
| **C API and bindings** (`foldback-sys`, Godot, Unity, Unreal) | handle, thread-local last error | every session method | truncated ids, stale errors, replacing a session |
| Snapshot, error type | none | | not modelled: a compression call, an enum |

How they interact: the game calls the session on its own thread and nothing in
the session blocks but the file write. `write_to` is shared by the recording
and the live stream; `FrameReader` by the command line and the viewer. The live
server's thread owns its socket and takes frames from an unbounded channel; the
viewer's backend has a thread per connection that emits events to the page. The
bindings wrap the session behind the C API or, in Godot, directly.

What makes each part correct:

- *Session*: drains neither lose nor repeat a hash; what is sent is what is
  compared and what is folded; every contradicted tick is answered once,
  earliest first, whatever the order of reports; the recording tells the same
  story as the live session, as far as it can be read.
- *Peers*: no alarm without a desync; a desync surfaces wherever the other's
  hash arrived; alarms and `finish()` agree.
- *Recording*: every cut of the file reads as a prefix of what was recorded;
  a finished recording is complete; a verdict is never an artefact of a crash.
- *Live transport*: frames arrive in order, each at most once, to one UI at a
  time, and the thread ends when the game drops the server.
- *Viewer*: the timeline shows one connection's frames, its divergence tick is
  the bisection's, and a connection can be ended as long as it is in use.
- *Bindings*: what the session gives away once reaches the game, whatever is
  refused; a session's file is its own; merged ids hide no divergence.
- *Walkers*: equal values give equal records; a walk that returns success
  recorded every tracked leaf once.
- *Schema*: drift is reported where the tracked fields differ and nowhere else,
  and lint lists what the program hashes.

The hazards, each at its line and with the properties that cover it, are in
`PROJECT.json`.

## 2. Modules

| Module | Models |
|---|---|
| `SessionState` | the struct `Session` and its methods as functions from a session to the next; ring, table, bisection. Shared by everything that holds a session. |
| `DivergenceDetector` | abstract: reports accumulate, a check answers the earliest contradicted tick not answered yet. |
| `Session` | one session and a game that calls it in any order, one action per method; the refinement of `DivergenceDetector`. |
| `PeerExchange` | several peers with a session each, the quickstart's loop, a network that loses, copies and reorders. |
| `FoldbackFile` | frames as cells, the reader, `analyze` and `ci-check`. |
| `Recording` | a session's frames on their way through the `BufWriter` to the disk, refused and partial writes, drop and crash. |
| `LiveStream` | abstract: the game sends frames 1, 2, 3, ..., viewers receive some of them, each at most once and in order. |
| `LiveMode` | the game, the `LiveServer` thread, connections and viewers; the refinement of `LiveStream`. |
| `UiTimeline` | the viewer's page, its backend's main thread and the connections' threads. |
| `BindingState` | sessions behind handles, their files, the error message. |
| `CApi`, `GodotSession` | the functions of the C API; the methods of Godot's class. |
| `Bindings` | a game that uses one of the two, in any order of calls. |
| `FieldOrder` | which fields of a type and entries of a container are kept, and in what order. |
| `ReflectiveWalk` | the four walkers and the manual API's field bytes, as functions on the depth. |
| `SchemaDrift` | the derive macro's, lint's and the schema frame's account of a type; `schema-diff`. |
| `Reflection` | two builds that record the same value, write errors, crashes, then `schema-diff`. |
| `MC*` | values for TLC. |
| `SessionLemmas` | lemmas: the operators of `SessionState`. |
| `SessionProofs`, `PeerExchangeProofs`, `RecordingProofs`, `LiveModeProofs`, `BindingsProofs`, `UiTimelineProofs`, `ReflectionProofs` | the proofs. |

`SessionState` is under `Session`, `PeerExchange`, `Recording` and
`Bindings`; its bisection is also what `UiTimeline` compares with.

### Session

A session is a record with the fields of the struct: `writer` is the flag
`recording` and the sequence `file` of frames the writer accepted;
`hashes_by_tick` is total, with `<<>>` for an absent key. A method is one
operator, and the write it makes (`if let Some(w) = &mut self.writer {
frame.write_to(w)?; }`) is `Written(s, frame, ok)`, with `ok` drawn from
`WriteOutcomes(s)`: either outcome when there is a writer. What the method had
changed before the `?` stays changed. `Frame::write_to` makes three `write_all`
calls, so a write that fails may have left the first bytes of its frame: `file`
then gets a `Remnant`, and the session goes on behind it. `Legible(file)` is how
far a reader finds the frames that were written: all of the file when its
remnants are empty, else what stands before the first that is not. What the
reader makes of the rest is in `Recording`, which has the bytes. Hashes are abstract values, so xxh3 is
taken not to collide; the running hash is the sequence of pairs it was folded
over, which assumes the same of `combine`. Of entity and field frames only the
level is kept, as no method of the session reads them.

The actions of `Session` are its methods and `ggrs::record_desync`. The game may
hash a tick again, report for any peer, continue after an error and after
`finish_recording`: nothing in the code forbids it. `taken`, `reports` and
`failed` are history.

### PeerExchange

`sim[p][t]` is the hash of what peer `p` computes at tick `t`, chosen at the
start. `HashNext` is one tick of the loop; a tick whose recording failed is
hashed again or passed over, as `hash_tick` leaves that to the game. `Exchange`
drains any number of pending hashes and sends them to all others; `Deliver`
records one and may leave a copy; `Lose` drops one; `Check` is
`check_divergence` with an answer.

### FoldbackFile and Recording

A field of the format is one cell. `Pieces` are the three `write_all` calls of
`Frame::write_to`; `Accept` and `Refuse` are std's `BufWriter::write_all` when
the operating system takes everything and when it refuses after some cells;
`FlushBuf` is its `flush_buf`. The session goes on after an error. `Crash` ends
the process with the buffer unwritten (what the operating system holds is on
disk), `DropSession` flushes as far as the system lets it. `ReadFrames` is
`FrameReader`: it stops at a cut, skips an unknown type by its length, goes on
after `EndOfStream`, and ends in an error at a payload too short for its type.

The file's 32-byte header is one cell: a file cut inside it, which
`Header::read_from` rejects like an empty one (`TruncatedHeader`), is outside the
model. `TickHash` stands for frames of fixed length and `Metadata` for those that
hold a length; a payload as large as the buffer, which std writes past it, is among
the instance's frames.

### LiveMode

A frame is its number. The thread of `run` is in one of four places: blocked in
`accept()`, in the handshake and hello (`Greet`), streaming, or ended. `Stream`
takes a frame from the channel and sends it: it waits while the connection holds
`Window` unread messages; to a viewer that has left, the send may be accepted by
the operating system or fail, and the frame is lost either way. `SendFrame` puts
every frame on the channel, as the code does, whether or not anyone watches;
`watched` is history, the frames sent while a viewer was being served. Viewers connect
in any number, and only the one whose connection was accepted is served; a
connection need never send its upgrade request (`Ask` is not fair). `Exit` is
`rx.recv()` failing. The messages of a viewer that leaves are dropped.

### UiTimeline

The page calls a command and goes on (`await`). Calls run on the backend's main
thread, one at a time, in order; results come back in no order with the events,
which the connections' threads put on one queue. So `loadPath` and
`connectLive` are two actions each, before and after the `await`. `connect_live`
blocks the main thread from `connect` to hello, which a game sends only when it
serves nobody else: `busy`, `Greeted` and `NotGreeted`. `Serves` says that the game
still holds a socket of this viewer; when it holds none, it may yet serve a viewer
of another process or wait in `rx.recv()` on a connection it has not noticed is
gone, so that hello need never come. `disconnect_live` shuts
down the connection stored last; a thread ends on a read error (`StreamEnds`) or
on a frame it cannot read (`StreamGivesUp`), and then the stored clone keeps the
socket up. Of a session the page keeps the reports and the divergence tick;
`index` is `byTick`, in which a peer's later report replaces its earlier one.
Each report carries the connection it came over, which the page does not know.

### BindingState, CApi, GodotSession, Bindings

A handle is a slot holding a session or nothing. Of the file, `out` says how many of the
session's frames have left its `BufWriter`, and a session writes at its own
offset of the file it opened, so that two sessions on one path overwrite each
other (`Overlay`). A method comes to one of the outcomes of the session's method
(`HashTicks`, `PeerHashes`, ...). In `CApi` any thread may pass any handle;
what a function refuses (null, not UTF-8) it refuses before it touches the
session, and `run_catching` sets or clears the thread's message.
`GodotSession.configure` builds the new session, and creates its file, before
the old one is dropped and flushes; ids are cut to 16 bits. `taken`, `told`,
`given` and `clobbered` are history.

### FieldOrder, ReflectiveWalk, SchemaDrift, Reflection

A value is a node of a heap, its kind what the walker tells apart; a leaf's
bytes are one number, a path is the sequence of its labels. The kids of a `TMap`
are a key, its value, the next key, and so on: the serializer walks a key as it
walks a value, one level further down, so a struct key such as `FIntPoint` can fail
the field at the limit or at the address check, and keys differ in length. `BevyWalk`,
`GodotWalk`, `UnityWalk`, `Serialize` (Unreal) and `FieldBytes` give what one
call hands to `hash_field`, up to where it fails. A recursive call of the code is
a call one further down, so a walk is a function on the depth: what it makes of
every place at a depth is written in terms of what it makes of those one deeper
(`Visit`, `SerializeValue`), and beyond `MaxDepth` it fails. Bevy, Godot and Unity
share `Visit` and differ in what they see of a node (`BevyKids`, `GodotKids`,
`UnityKids`, and which nodes they track by identity). A stable sort puts an
entry where its rank says, the number of those before it (`Sorted`). Unreal's
sort is any order its comparison allows, as `TArray::Sort` is not stable and the
comparison is no order.
`Reflection` has two builds hash the same value, the second with its unordered
containers iterated the other way round, with write errors and crashes between,
and then compares the recordings. A declaration is given as it stands in the
source, with `#[cfg]` on fields and `#[cfg_attr]` around markings; lint reads that,
and the derive macro reads what rustc makes of it (`Expanded`). A schema frame
names the type by its path (`TypeName`, `std::any::type_name`), lint by the
identifier alone. Generic types are left out. What a failed write leaves of its
frame is not kept here: the properties about files are those of recordings without
a write error. `InputsAssumption` says what a program can
give it: a heap that holds what it refers to, field names that are a struct's
own, the kinds of values each walker knows, and that nothing in Unreal leads back
to the tracked object but a pointer, which the walker does not follow.

## 3. Runs

| Run | Instance | Shows |
|---|---|---|
| `session` | 2 ticks, 2 peers, 2 hashes, 1 type, retention 0 or 1, recording or not; 3 reports, 4 frames | `HandedOutOnce`, `SentIsCompared`, `OfflineIsSound`, `OfflineMatchesLive`, `RetainsNewest`, `SchemaWrittenOnce`, and `ImplementsDetector` |
| `session_rehash` | the same | refutes `FlagsOnlyPeerDisagreement` |
| `exchange` | 3 peers, 1 tick, peer 0 records, 1 loss, copies and retries while a tick has under 1 report | `NoFalseAlarm`, `AlarmShowsInFold`, `SilenceShowsInFold` |
| `exchange_live` | 2 peers, 2 ticks, peer 0 records, 1 loss | `DesyncSurfaces` |
| `recording` | 3 frames and `EndOfStream`, a buffer of 4 cells, 5 calls | `AnyCutReadsAsPrefix`, `FinishedIsOnDisk`, `VerdictIsSound` |
| `recording_torn` | the same frames and buffer, 4 calls | refutes `DamageIsErrOrPrefix` |
| `live` | 4 frames, 3 connections, 2 messages under way | `SeesWithoutGap`, `LostOnlyOnLeaving`, `ImplementsStream`, `ViewerSeesAll`, `EndsWhileWatched`, `WaitsBehindOne` |
| `live_dropped` | 2 frames, 2 connections | refutes `EndsWhenDropped` |
| `ui` | 2 connections to one game or two, 2 streams and 1 file of 2 ticks and 2 peers, 3 clicks, 2 events under way | `StrayOnlyOnOverlap`, `TimelineAgreesWithBisect`, `DisconnectReachesAll`, `EndsOnItsOwn`, `DisconnectTakesEffect` |
| `bindings` | 1 slot, 2 threads, ids of one bit, 3 calls that reach a session | `NothingLost`, `FileIsOwn`, `CutIdsHideNothing` |
| `reflection` | depth 2; values of 4 nodes for each walker; the declarations of two builds, 2 calls and 2 faults | `WalkIsExact`, `SameStateSameRecords`, `DriftIsExact`, `LintAgreesWithSchema` |
| `reflection_keys` | a `TMap` or `TSet` keyed by object pointers or by `FName`s, a Unity dictionary of two entries | refutes `IterationNeverShows` |

Bounds. A contradiction needs two reports, and one that reorders against
another tick's needs three: `session` has both, at a ring that is full after
one and at a ring of none; four frames let the three reports stand with a schema
or a closing frame between them, in any order, a failed write before or after each,
and let the game go on after `finish_recording`. In
`exchange` three peers let two of them agree against the third and let a hash
be lost on one of several paths; one tick is enough there as sessions compare
within a tick, and `exchange_live` has two so that one flagged tick can stand
before or after the other. In `recording` two of the frames disagree, so that
the verdict can change with a cut; four cells hold a frame's type and length
and the previous payload, so that the buffer empties before each kind of piece,
and five calls leave room to fail, go on, finish and go on again. In `live`
three connections let one viewer leave, one wait and one come later, and four
frames fill a connection and the channel behind it. In `ui` three clicks are
connect, then anything, then anything again; one stream contradicts itself at
the later tick first, the other has a peer change its report; two URLs let the
second connection wait for the first one's game or not. In `bindings` one slot
is enough, as sessions share no state but the thread's message; one bit
of peer id merges two of the game's peers as 16 bits do; three calls put a frame
in the buffer, push it out and leave another behind when a session is replaced;
drains, checks, refused calls and replacements are not counted. In
`reflection` a limit of 2 puts leaves at, below and beyond it; four nodes hold a
container in a container, a node reached twice and, where there are
references, cycles through one, two and three nodes.

Deadlock is not checked: games end, and the bounds stop all of the instances.

Symmetry is used only in hashes, which are compared for equality alone, and not
in the liveness runs.

Fairness. In `exchange_live` every peer's loop keeps hashing, draining and
checking (a game loop runs every frame), and a hash that is under way and not
lost is delivered; nothing is forced to be lost or copied. In `live` and
`live_dropped` the server thread runs whenever it is not blocked (it is an
operating system thread in a loop) and a connected viewer keeps reading (its
backend thread does nothing else); nobody is forced to connect, to ask, to
leave, to send or to drop the server. In `ui` the
page's event loop, the main thread (`load_session`, and `connect_live` and
`disconnect_live` up to what they wait for) and a connection's thread whose socket
is down run; nobody is forced to click, to send, to close, to give up waiting for
hello, or to say it: a game that no longer serves this viewer may serve another
one, or sit in `rx.recv()` and send nothing (`live.rs:93-113`, and
`WaitsBehindOne` in `live`). `DisconnectTakesEffect` therefore excepts a main
thread that waits for hello, and says that nothing else keeps a click on
Disconnect from counting.

## 4. What the violated runs say

- `session_rehash`: `check_divergence` counts reports, not peers. A rollback
  that hashes a tick again with another state is a divergence of one peer with
  itself. The documentation promises that ticks with fewer than two peers are
  not flagged.
- `recording_torn`: an error between the pieces of a frame leaves a part of it
  in the stream, and the session keeps writing. The reader pairs the orphaned
  type and length with the next frame's bytes and yields frames nobody
  recorded, without an error.
- `reflection_keys`: Unreal sorts the entries of a `TMap` or `TSet` with a
  comparison that holds both ways for some keys of different length, as those of
  object pointers are, and `FString` and `FName` keys leave no bytes, so that the
  order of iteration shows in the hash; the binding's README says `TMap` hashes
  identically regardless of insertion order. Unity sorts by the text of the keys,
  and two keys with one text stay in the order of iteration (Bevy's map keys
  likewise). Each of these inputs alone refutes the property.
  `SameStateSameRecords` therefore asks for `KeysAreOrdered`: no two labels alike,
  and in Unreal keys that are scalars or structs of scalars, each two of which the
  comparison puts in one order. What two keys with containers in them are sorted by
  is all of their bytes, which that comparison need not put in one order.
- `live_dropped`: the thread learns that its `LiveServer` is gone only in
  `rx.recv()`, which it reaches while it streams. Dropped with no viewer
  connected, it waits in `accept()` for good, and keeps the port.

Also met, and not the subject of a run; where a passing property says what does
hold there, it is named.

- The retention window is documented in ticks (`session.rs:69`) and counts reports,
  so P peers share it. `RetainsNewest`: where no tick is reported twice, the ring
  has the newest ticks.
- The header is "written immediately on `build()`" (`session.rs:81`), but into a
  `BufWriter`: the file of a process that dies early is empty, and no reader accepts
  it. `AnyCutReadsAsPrefix` is about files that have their header.
- `FrameReader::next_frame`'s comment says that iteration ends after
  `EndOfStream`, and the reader goes on (the model does too).
- `ci-check` answers 0 for a recording cut before its divergence;
  `VerdictIsSound` says what a 0 is worth only after a finished recording.
- `send_frame`'s comment says a frame sent while no UI is connected is dropped
  (`live.rs:66`), and it is queued, without a bound, for the next viewer.
  `LostOnlyOnLeaving` is about frames sent while a viewer is served.
- Unreal's cycle guard goes by address, and a struct's first member lies at the
  struct's own. A `USTRUCT` whose first member is a `USTRUCT` is taken for a cycle
  and its field is left out, where the binding's README has nested structs
  recursed. `WalkIsExact` is about values without one (`FirstMembersPlain`).
- lint reads the source before `cfg`: it lists a field the build does not have, and
  misses a marking inside a `cfg_attr`, while its comment says it mirrors the derive
  macro (`lint.rs:130`). `LintAgreesWithSchema` is about declarations that `cfg`
  leaves as they are written.
- `hashes_by_tick` and `checked_ticks` grow for as long as the session lives.

In the viewer (`UiTimeline` has all of these, and its properties say when they
cannot happen):

- `isLive` is one flag, so events of an earlier connection that are still under
  way are applied to the session of a later one, its `Disconnected` included;
  so is a load whose answer comes after a connect.
- A connection to a game that serves this viewer already, or another one, blocks
  the main thread until the game says hello, which may be never; in the first case
  the disconnect that would free the game waits behind it.
- A connection replaced in `LiveConnection` cannot be disconnected any more, and
  neither can one whose thread ended on a frame it could not read, as the page
  then shows no Disconnect button.
- The live timeline keeps the first mismatch it saw, which may be at a later
  tick than the bisection's, and a peer's changed report hides the contradiction
  the bisection finds.

In the bindings and walkers (`Bindings` and `Reflection` have all of these
but the last error's):

- `foldback_session_destroy` leaves the last error in place, though
  `foldback_last_error` says a successful call to any other function clears it;
  the statuses `NullPointer`, `InvalidUtf8` and `Io` are never returned.
- Godot's `configure` on a running session creates the file before the old
  session flushes into it; one that fails leaves the old session running, though
  its comment says the object stays unconfigured.
- Unreal's depth counts from the field, the others' from the tracked value.
- Unity marks a type as recorded before it records the schema, and a call that
  throws is not repeated.
- The bytes of nested containers in the manual API carry no lengths. The
  manual API and Unreal record no schema, so their drift is never seen.

## 5. Proofs

TLC shows a property on the instances of section 3; a theorem `XCorrect` shows
`X` for every value of the constants. Each rests on an inductive invariant, as
the properties say what a user sees and not how the code keeps it so. The
assumptions are those the modules name, which TLC evaluates on every run:
constants are numbers, bounds are natural numbers, inputs are sequences of
frames, the ticks a game simulates are finitely many (a tick is a `u64`), and
the value for "no session" is none.

`SessionLemmas` says for each operator of `SessionState` which fields it changes
and how, once, and what `Drained` and `Push` return. Everything about sessions
cites it. Where data are walked (a file, a heap, a sequence of numbers) the proofs use
induction with a set in the place of a predicate (`UpTo`, `DownFrom`), from the
least element of a set of numbers (`Least`). With it a recursive function can be
shown to be what its definition says (`ReadEquation`, `WalkEquation`,
`SerializeEquation`): that a function with the wanted values exists up to every
argument is itself shown by induction.

`SessionProofs`, for any ticks, peers, hashes, names, retentions and bounds:

- `TypeCorrect`, `HandedOutOnceCorrect`, `SentIsComparedCorrect`,
  `OfflineIsSoundCorrect`, `OfflineMatchesLiveCorrect`. The invariant `IInv`
  adds to the types that the session is the local peer's, that every folded hash
  has its report in the table (`FoldedInTable`), that every frame of the file has
  its report in the table (`FileInTable`), remnants being no reports, and that
  without a failure every report of the table has its frame in the file (`TableInFile`). The recording's
  verdict follows from the last two because both comparisons ask only whether
  two reports of one tick differ: comparing each with the first is the same as
  comparing all pairs.
- `ImplementsDetectorCorrect`: `Spec` refines `DivergenceDetector!Spec`, with
  the reports of the table as `reported` and `checked_ticks` as `announced`.
- `SchemaWrittenOnceCorrect`. The invariant adds that a type with a frame is
  marked (`Once`), without which `record_schema` could write a second one, and,
  while no write failed, that a marked type has its frame (`Complete`).
- `RetainsNewestCorrect`. The invariant relates the ring to the whole
  history of reports, repeated or not; the lemma `NewestEntries` says what the last `n` of a
  sequence are after one is appended, at a full ring and at a ring of none.

`PeerExchangeProofs`, for any number of peers and ticks:

- `TypeCorrect`, `NoFalseAlarmCorrect`, `AlarmShowsInFoldCorrect`. `IInv` carries
  the truth about `sim` along the path of a hash: what is folded, pending, under
  way, in a table and in a file is what the peer it names simulated; what a table
  holds of another peer, that peer has folded; and of a flagged tick some peer has
  folded a hash that another peer's simulation contradicts.
- `SilenceShowsInFoldCorrect`. The invariant `SInv` adds where a folded hash is:
  in the peer's own table (`OwnReport`), and, for each other peer, pending, under
  way, lost or in that peer's table (`Reaches`). When all is settled and nothing
  was lost or flagged, any two peers therefore folded the same hash for each
  tick; as each folds its ticks in increasing order (`Ordered`) and has folded
  all of them, a counting argument makes the sequences equal.

`RecordingProofs`, for any frames, buffer size and number of calls: `TypeCorrect`,
`AnyCutReadsAsPrefixCorrect`, `FinishedIsOnDiskCorrect`, `VerdictIsSoundCorrect`.
`Layout(log, frames, at)` says that a log of cells is the header followed by the
encodings of these frames, each at its place. The invariant (`Kept`) is that
there is such a log of the accepted frames, ending in the pieces already written
of the call under way, of which the file is a prefix and, while the session is
open, the buffer is the rest. That the reader yields, from any prefix of such a
log, a prefix of the frames is an induction from the cut back to the header, on
`DecodeEncode` (a payload decodes to its frame). `FinishedIsOnDisk` needs that
after a finish the file reaches to the end of the last frame.

`LiveModeProofs`, for any number of frames and connections:

- `TypeCorrect`, and `ImplementsStreamCorrect`: `Spec` refines `LiveStream!Spec`.
  The invariant says that the channel holds the frames sent last, that at most
  one connection has anything under way, and that what is under way is newer
  than anything a viewer has read, in order, and older than the channel.
- `SeesWithoutGapCorrect`. What a viewer has read followed by what is under way
  to it is hello and then consecutive numbers (`NoGap`), and while it is served
  and has not left, the frame the thread takes next is the one that follows
  (`Watched`). Connections are served in the order they came (`Queued`), and one
  that has not been greeted has nothing (`Untouched`).
- `LostOnlyOnLeavingCorrect`, of the frames sent while a viewer was served (the
  others are only queued). Every frame taken from the channel was taken for one
  connection, which carries it still or has left, between the frames that
  earlier and later connections carry (`LossInv`).

`BindingsProofs`, for any slots, owners and ids: `NothingLostCorrect`,
`FileIsOwnCorrect`, `CutIdsHideNothingCorrect`, `TypeCorrect`. `HandedInv` says
of every slot that holds a session that what was taken and what is pending are
what was folded, and that every tick answered was told. `FileInv` says that no
more has been flushed than was written, that the file is what was flushed unless
another session wrote over it, and that the session heard of a tick exactly the
hashes the game gave for it, under whatever id. One lemma each (`SlotStep`,
`SlotFileStep`) reduces a step of either API to a step of one slot, and `Writes`
is what all of the session's methods have in common there.

`UiTimelineProofs`, for any connections, streams and files:

- `DisconnectReachesAllCorrect`, `StrayOnlyOnOverlapCorrect`,
  `EndsOnItsOwnCorrect`. `UiInv` adds that while no connection was asked for over
  another, at most one is asked for, waited for or in use (`Alone`); that a file
  still to be shown holds no connection's events (`Answers`); and that while a
  session opened with nothing else under way is live, all that is under way is
  its own connection's, and no file is (`Own`).
- `TypeCorrect`, `TimelineAgreesWithBisectCorrect`. The invariant (`Shows`) says
  what a flag means over the reports shown: no tick is flagged and none has two
  different reports, or the flagged one has, and is the least if the reports came
  in the order of their ticks. It holds of what a load returns, whenever that
  arrives, and a further report keeps it, since two different reports of a tick
  that had none must include the new one.

`ReflectionProofs`, for any heaps, declarations, engines and depth limit, any
number of calls, and write errors and crashes wherever they fall:

- `TypeCorrect`, and what `IInv` adds to the types: a Rust build that records has
  compiled (`RustCompiles`), every schema frame is that of the build's own
  declaration (`SchemasAreOwn`), a recording that shows a field shows the schema
  before it unless a write failed (`SchemaFirst`), what a call without a write
  error returned is an outcome of the walk (`LastIsAWalk`), and the verdict stays
  that of the two files (`VerdictStands`).
- `LintAgreesWithSchemaCorrect`. A declaration in which `cfg` changes nothing that
  lint reads is expanded to the same fields with the same marks; of one that
  compiles, the first attribute of a field and the first that parses mean the same
  (`LintReadsAlike`). The schema's type is a path of which lint has the last part.
- `DriftIsExactCorrect`. The names of a struct's fields differ, so that a sorted
  list of them is the set of them (`FingerprintsTell`): the rank of a name among
  the others says what it is, from the least up.
- `SameStateSameRecordsCorrect`. Where labels tell entries apart, sorting undoes
  the reversal (`ReversedByLabel`), and the walkers see the same (`TwoViews`). In
  Unreal the comparison is shown to be an order on the entries of a container
  whose keys it puts in one order (`LessTransitive`; two keys of different length
  either way are excluded), so that the sort has one result however the entries
  came (`SortsAgree`); the rest is an induction from the depth limit up to the
  field, over places at which the address check answers alike (`Aligned`).
- `WalkIsExactCorrect`. The property counts level by level what the walkers meet
  depth first, so the proof goes over what lies at or beneath each occurrence
  (`Fans`): everything in it keeps the way to it (`FanGoesThrough`), hence two
  fields, or two kids of a value, never record the same occurrence; and the fans
  of the fields are the levels together (`LevelsSumUp`). From the depth limit up,
  a walk fails exactly if something bad lies in its fan and records what is due
  there once each (`WalkTells`; `SerializedTells` for Unreal, where a site has met its
  address before only as a first member that is no struct, `Match`). Sorting, the
  Godot prefix and the renaming of list entries only change the order and the
  choice of the kids (`Fit`).

Only model-checked is what is beyond this prover, liveness under fairness and
`ENABLED`: `DesyncSurfaces`, `ViewerSeesAll`, `EndsWhileWatched`,
`WaitsBehindOne`, `DisconnectTakesEffect`.

## 6. Not modelled

- Compressed snapshots and the error type: zstd calls and an enum, without state
  or decisions.
- The viewer's drawing and its other panels: entities, fields and snapshots are
  shown as they come, and nothing is decided from them.
- `FoldbackSession.cs` and `FoldbackSession.cpp` beyond the C API's calls they
  pass on, Unreal's subsystem and Mass adapter, cached member accessors, Bevy's
  debug panel: wrappers and display.
- The derive macro's generated code, beyond which fields it hashes.
- Byte encodings of single values, xxh3 and the mixing of the running hash: the
  models take them to be injective. What that leaves out is nested containers
  without lengths (section 4).
- The growth of `hashes_by_tick`, `checked_ticks` and the live channel: a rate,
  which bounded instances do not show.
- Panics caught at the C boundary: none is reachable in the modelled calls.

## 7. Plan

Written, in the order of importance: the session and its detector, the peers,
the recording, live mode, the viewer, the bindings, the walkers and the schema.
What could come next:

1. Two viewers against one `LiveMode` server, composed from `UiTimeline` and
   `LiveMode` instead of the summary of the server in `Serves`.
2. The Unity and Unreal session wrappers, if they come to keep state of their own.
