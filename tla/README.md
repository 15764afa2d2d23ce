# A TLA+ model of Doras

Doras distributes delta updates for artifacts in an OCI registry. A client that
has image A and wants what a tag names asks a Doras server for a delta; the
server looks one up in the registry, or creates it and lets the client wait; the
client downloads the delta, patches its output directory and records what it has
installed.

This directory holds TLA+ modules for the parts of Doras in which order,
concurrency and failure matter, TLC configurations that check them on small
instances, and TLAPS proofs of the main safety properties for instances of any
size. `src/` below is the root of the repository.

## 1. Inventory

| Part | State | Operations | Hard behaviour |
|---|---|---|---|
| **Engine** `core/dorasengine` | WaitGroup | `HandleReadDelta`, creation goroutines, `Stop` | requests for one delta race on one and on several instances; every registry call may fail; the tag a handler resolved moves before it acts |
| **Registry delegate** `delegates/registry` | mutex, `activeDummiesCreation` | resolve, load manifest, push dummy, push delta | mutex held over registry calls; entry left behind on errors |
| **Delta delegate** `delegates/delta` | mutex, `activeDeltaCreations` | location of a delta, dummy expiry, `CreateDelta` | check and claim against claim and release; a creation that gives way |
| **Registry** (external) | tags, manifests | resolve, fetch, push, tag | the only state instances share |
| **Server life cycle** `core`, `cmd/doras-server` | running or not | start, stop, exit | shutdown waits for handlers, not for goroutines |
| **Algorithm choice** | none | `ChooseAlgorithms` | equal questions must get equal locations, different ones different locations |
| **Artifact loader** `updater/fetcher` | download and completed directories, lock files | `ingest`, hand-over | partial downloads picked up after interruptions, kills, power loss; processes that share the directory |
| **Update client** `updater` | output directory, memory | `PullAsync`, `Pull` | crash between patching, swapping and recording; edits by others |
| **State file** `updater/statemanager` | `doras-state.json` | `Load`, `Commit`, `ModifyState` | truncate-then-write; load and commit under two locks |
| **Volume accounting** validators, inspectors, observer | counter, files | inspect, validate | written by a timer, summed up by the next process |
| **Backoff, edge API client** | attempts | `Wait`, `ReadDelta` | overflow, attempts never reset |
| **Tar differ and patchers** | none | analyse, diff, apply | sources overwritten later in the archive; names the two spell differently; in place or aside |

How they interact: a client calls the engine over HTTP and polls while the
answer is 202. The engine calls the delegates; those call the registry. A
handler hands its work to a goroutine. The client reads the delta, or the whole
image, straight from the registry through the artifact loader, applies it with a
patcher and writes the state file. Server instances know nothing of each other.

What makes each part correct:

- *Service*: what is answered to a request is about its source and about the
  image its target named while the request ran; a delta that is served exists,
  is a delta, and is the one for this question; no instance makes one delta
  twice at once; nothing stays claimed, locked or counted after a failure; every
  request is answered; a dummy is followed by a delta.
- *Artifact loader*: what it hands over is the whole blob, verified and on disk;
  an interrupted download is continued and succeeds in the end.
- *Tar deltas*: a delta that can be made and applied to the old files gives the
  new archive byte for byte, and there is no failure but for archives in which a
  source file is overwritten later or is not found under its name.
- *Update client*: the recorded hash never belongs to another image than the
  recorded one; success means installed and recorded; the client comes to the
  current image from any state a crash can leave, unless the service has no delta
  for images it accepts, or the delta cannot be applied.
- *State file*: a client's record changes at its own will only and is not lost,
  as long as nobody dies writing, starts while another records, or removes the
  directory; after that a record may be lost or fall back, but is never made up;
  nobody waits for a lock for ever.
- *Volume accounting*: what is recorded and what is on its way there stays below
  the limit, up to what clients that share a directory admit at once; no read is
  lost between counter and file, but for data that comes with an error; no record
  locks a client out for good.
- *Backoff*: a wait is never longer than its maximum and, as long as delay and
  jitter fit a word, at least half of the delay; it should never panic; every pull
  returns.

`PROJECT.json` lists every component with its status and every hazard with the
line where it bites and the properties aimed at it.

## 2. Modules

    DeltaLocation ──> DeltaService ──> MCDeltaService        (server)
                        │    └──────> DeltaServiceProofs ──> DeltaBoardProofs
                        └ implements ─> DeltaBoard
    Ingest ──> IngestProofs                                  (client: one blob)
    UpdateClient ──> MCUpdateClient                          (client: one directory)
              └────> UpdateClientProofs
    StateFile ──> StateFileProofs                            (clients of one device)
       └ implements ─> StateMap
    Backoff, DownloadVolume ──> Pull ──> MCPull              (client: wait and load)
                                  └────> PullProofs
    TarDelta ──> MCTarDelta                                  (differ and patcher)
        └──────> TarDeltaProofs

`DataLemmas`, about numbers, sums and flattened sequences, serves `PullProofs` and
`TarDeltaProofs`.

**DeltaLocation** has no state. `GetDeltaLocation` maps source, target and the
chosen algorithms to a location; `checkCompatability` and `CanLoadArtifact` are
the two, different, conditions under which the service accepts a pair of images
and under which it can open them. An image is a model value with a number of
layers and an unpack annotation.

**DeltaService** is the server. For a request `r`, `pc[r]` is where its handler
stands in `readDelta` and `task[r]` where its goroutine stands in `CreateDelta`;
`ask`, `target`, `loc`, `found` are their local variables.

| Action | Code |
|---|---|
| `Arrive`, `ResolveFrom`, `ResolveTo`, `LoadManifests`, `LookupDelta`, `InspectDelta` | `dorasengine.go`, `readDelta` up to the decision |
| `LockDummy`, `TagDummy` | `registry/delegate.go`, `PushDummy` |
| `LoadArtifacts` | `readDelta`, artifacts opened, goroutine spawned |
| `ClaimDelta`, `PushDelta`, `TagDelta`, `ReleaseDelta` | `deltadelegate.go`, `CreateDelta`; `registry/delegate.go`, `PushDelta` |
| `BeginStop`, `ExitGracefully`, `Kill`, `Restart` | `core.go`, `cmd/doras-server/main.go` |
| `Expire`, `Release` | the clock and the maintainers |

A step is what lies between two points at which others can interfere, so there is
at most one registry call in each. `latest`, `tag`, `deltas` are the registry;
`wg`, `dummyLock`, `dummies`, `creating` live in an instance and are lost with
it. A manifest is named by the request that pushed it. Time is abstracted: a
dummy that can still be seen may expire at any moment.

**DeltaBoard** is the promise a client relies on, in terms of questions,
answers and a set of finished deltas only: no dummies, locks, instances or
goroutines. `KeepsThePromise` says that `DeltaService` implements it; the
mapping is at the end of `DeltaService`.

**Ingest** is the download of one blob. Paths (`download`, `completed`) and the
files behind them are different things, as in a file system; `fd[l]` is the file
a loader holds open. A byte is TRUE if it is the blob's byte at its position;
`hashed[l]` is what the hasher has seen and, by its length, the write offset.
`dirty` are the bytes a power loss may turn into zeroes or cut off.

| Action | Code |
|---|---|
| `Open`, `Acquire` | `OpenLockedFile`: the file first, then the lock |
| `Resume` | size check, `hashOldContents` |
| `Receive`, `EndOfStream`, `Verify` | copy, length and digest check of `ingest` |
| `Unlock`, `Sync` | `LockedFile.Close`, in its order |
| `Rename`, `Move` | `ReplaceFile` into the completed directory and to the caller |
| `CollectGarbage` | finalizers, which release what an error return left locked |

**UpdateClient** is one output directory. Its content is the image it holds, or
`Missing`, `Empty`, `Mixed`; the hash of a directory is its content.

| Action | Code |
|---|---|
| `Start`, `Truncate`, `Write` | `NewClient` with `cleanupLegacyState`; `Commit`, `ModifyState` |
| `BeginPull` | `PullAsync` |
| `ReceiveDelta`, `AskInVain`, `AskNoDelta` | `pullDeltaImageAsync`: 200; 202 or 500; 204 or 400 |
| `FetchDelta`, `Patch` | `pullDeltaImageAsync`: load, `patchArtifact` |
| `SwapFile`, `SwapInPlace`, `SwapObstructed`, `Remove`, `Rename` | the patchers, `ReplaceDirectory` |
| `FetchFull`, `HashAndSet` | `pullFullImage`, recording |

It stands on what other modules show: service answers are about the recorded image
and the one the tag names (`DeltaBoard`), loaded files are verified
(`CompletedIsWhole`, which `LoneLoader` proves for a client that shares its working
directory with nobody, and `ingest_race` refutes for clients that do), and
patching the right image gives its target, for images that are proper archives
(`TarDelta`).

It does not assume that a delta comes. The service may answer `AskInVain` every
time, as it does for images of equally many layers, more than one:
`checkCompatability` accepts them and `LoadArtifact` refuses them, so the answer is
500, then 202 until the dummy expires, and so on for ever. `DummyLeadsToDelta` is
about single-layer images and runs without failures and says nothing of these. Nor
does it assume that a delta can be applied: for the pairs of `Inapplicable` the
patch or the replacement fails at every pull. With `WithKeepOldDir` these are
images with a directory the old image also has (`os.Rename` onto a directory) or
without one it has (`os.Remove` of a directory that is not empty); with any patcher,
images whose delta names a file the patcher does not find. In all these cases
record and directory agree afterwards, no answer leads to a full pull, and the
client **never converges**. `Converges` says that there are no other cases: the
directory comes to hold the current image, or stays, whole, at an image from which
one of the two applies. `AskInVain`, `Patch` and `SwapObstructed` need no failure
from the budget for it.

**StateFile** is `doras-state.json` between several processes on one device, each
with an output directory and so a record of its own. A lock is taken on a second
file in the same directory, by `flock`, and belongs to the file that was opened:
`generation` counts the removals of the directory, and `lockFile[c]`, `file[c]`
say which generation's files a process has open. `disk` is what is at the path,
`Torn` between truncation and writing; `tail` is left by two writers of one file.

| Action | Code |
|---|---|
| `Start`, `Purge`, `Prepare` | `NewClient`, `cleanupLegacyState`: read without the lock, `RemoveAll`, `MkdirAll` |
| `OpenLock`, `CanLock` | `flock`: the lock file is opened, then waited for |
| `Load` | `Load`, under the shared lock |
| `Modify`, `Truncate`, `Write` | `ModifyState`; `Commit` is its second half |
| `Begin`, `Exit`, `Crash` | pulls, the end of a process |

**StateMap** is what the clients may expect of it: a map in which only the owner
of a record changes it, until it is disturbed. `disturbed` is set by a process
that dies while it writes, one that starts while another is recording or writes,
and a removal of the directory under a running process; from then on records may
be lost or fall back to an earlier one of the same owner.

**Backoff** is the arithmetic of `Wait`, operators on a strategy: its base and
maximal delay (`Delays` are the pairs there may be), the attempts made and the last
delay; an `int64` is a word of any even size, its operations wrap around and
`rand.Int63n` panics when its argument is not positive.

**DownloadVolume** is the limit on what is downloaded within a period. Sizes are
in chunks, one per `Read`; time goes in seconds, as the names of the statistics
files do, and a file is known by its age. Of a second client that shares the
directory the module has what it may still record and where it is in
`WriteUintToFile`. That function opens the file with `O_TRUNC`, writes from its
beginning and cuts it to the length of what it wrote, without a lock; a file in
which the two clients overlap is `Mixed` and may hold any number or none, so a
validation that meets it may go either way (`Doubtful`). It stays so if the writer
dies before it cuts the file.

| Action | Code |
|---|---|
| `Validate` | `resolveAndLoad`, `SumUpDownloadStats`, `checkSizeLimit` |
| `Inspect`, `Read`, `ReadError`, `Close`, `Closed` | `InspectContents`, `CountingReader.Read`, without and with an error, `CleanupReadCloser.Close` |
| `Take`, `WriteStats`, `Cut`, `WriteFails` | `ObserveDownloadStats`: swap of the counter and opening the file, writing, cutting it |
| `Wake`, `Stop` | the `select` of `Observe` |
| `OtherValidates`, `OtherOpens`, `OtherWrites`, `OtherCuts`, `OtherStops` | the same code in the second client |
| `Tick` | time |

**Pull** puts them together: the loop of `Pull` and `ReadDelta` asks (`Begin`),
is told to wait (`Accepted`, `Wait`, `GiveUp`), to load (`Available`, then the
actions above) or is refused, and returns. The strategy lives as long as the
client does, over many pulls. What the service answers is left open.

**TarDelta** is the differ and the patcher of tar archives, as two programs that
share nothing but the operations in `writer.ops`. Both have a cursor, `file` and
`pos`: the writer's is a guess of where the patcher will be, by which it leaves
out redundant operations. `Archives` is what an archive is: a sequence of entries
with a path, bytes, the mark of a plain file, and the mark `rooted` of a name such
as `/x` or `../x`, which the differ takes for the path `x`
(`path.Clean("/" + name)[1:]`) and the data source of the patcher does not
(`path.Clean(name)`). So `Entries`, which the patcher opens, leaves rooted entries
out. `Proper` holds of two archives when every source file the differ chooses is
`Found`: no later entry overwrites it, and it is not rooted.

| Action | Code |
|---|---|
| `Analyze` | `analyzeForDelta` with the search for a source, `extractDeltaData` |
| `NextHeader`, `CopyRest`, `EndDelta` | `generateDelta` and what the stealing reader copies |
| `ReuseOldFile` | `WriteOldFile` for a file with the same contents |
| `StartBsdiff`, `Bsdiff` | one round of `bsdiff`, for any matches the suffix sort finds |
| `StartRollsums`, `NextMatch`, `EndRollsums` | `generateForFileWithrollsums`, one match at a time |
| `ApplyOpen`, `ApplySeek`, ... | `tarpatch.Apply` (external) over `DataSource` |

Definitions named "Mutant" in comments are wrong versions of the definition that
follows them. They are used nowhere in the specifications; putting one in the
place of the right definition must break the property named in `PROJECT.json`.

## 3. Runs

| Run | Instance | Shows |
|---|---|---|
| `service` | 2 instances, 2 requests, 3 images, failures, 2 exits | all safety properties of the service, and that it implements `DeltaBoard` |
| `service_live` | 1 instance, 3 requests for one delta, no failures | every request is answered; a dummy leads to a delta |
| `fresh_dummy` | 1 instance, 2 requests, no failures | *violated*: "someone else is working on creating this delta" |
| `graceful_stop` | 1 request | *violated*: a graceful exit leaves a creation unfinished |
| `ingest` | 2 loaders, 2 bytes, 2 faults of any kind | the digest is that of the file; interrupted fetches are picked up |
| `ingest_race` | 2 loaders, no faults | *violated*: an unverified file reaches the completed directory |
| `ingest_power_loss` | 1 loader, 1 power loss | *violated*: a device is stuck on a spoiled partial file |
| `update` | 3 images, all patchers, 3 troubles, a pair whose delta cannot be applied, a service that may never have one | the record is true, success is installed, the client converges but in the two cases above |
| `state_file` | 2 clients, 2 records, 3 starts, 1 crash, new or legacy state | the file is a `StateMap`; the lock protects it; every modification ends |
| `pull` | 2 strategies of 3 attempts, 2 artifacts, limit 4 over 2 seconds, 1 fault, reads that fail, a second client in the same files | waits in bounds, limit kept, reads counted, pulls return, the limit lifts |
| `backoff` | the default strategy scaled to 10 bits | *violated*: a wait panics before the attempts are used up |
| `tar_delta` | all 812 pairs of 29 old and 28 new archives of up to 2 files, any matches | proper pairs: deltas can be made and give the new archive; all pairs: left out operations are redundant, and both programs stop |

The violated properties quote a comment or document of the repository; what the
code does instead is under "findings" in `PROJECT.json`.

Some disagreements between code and comments are modelled, but have no run of
their own:

- `replace.go:71` calls `ReplaceDirectory` an atomic replacement; it removes the
  target (line 84) before it renames the new directory into place. `UpdateClient`
  has the crash in between, and `Converges` holds all the same.
- `statemanager.go:49` says that `Commit` writes atomically; the file is truncated
  and written in place. `StateFile` has the crash in between; `IsStateMap` says
  what is left of the promise.
- `analysis.go:134` says that files which a later entry overwrites are no delta
  sources; the search for a similar file in line 285 does not skip them. For such
  pairs, which `tar_delta` has, the differ may fail, since the data of the source
  was not stored, or the delta may give another archive. The same search may choose
  a rooted file, which the patcher then does not find. `Rebuilt` and `Reproduces`
  promise the new archive for proper pairs only, and `FailsOnlyImproper` says that
  on these nothing fails.
- A chunk that comes with an error is not counted, at the end of a blob or when the
  connection breaks in the middle of one, what was counted since the last tick of
  the observer is not recorded, and two blobs, or two clients, that write within one
  second share a file and overwrite or mix each other's volume. What one client
  alone has recorded is at most what it has downloaded, and `WithinLimit` is about
  that; what a mixed file holds may be more or less.

**Bounds.** Two requests are enough for every interference between two handlers,
a handler and a goroutine, and two goroutines, on one or two instances; a third
is needed only for a creation that gives way to one whose own dummy was
replaced, which `service_live` covers. Requests do not come back, so an instance
is restarted at most once in an interesting way; two exits let both instances go
away, or one after its restart, each at every step. The three images are two
compatible ones and one that is not. In `Ingest` two bytes give an empty, a
short, a complete and an overlong partial file; two faults allow one during the
recovery from another. In `UpdateClient` the third image is one deltas cannot
reach, and three troubles are a crash while recovering from a crash after an
edit; the one inapplicable pair has the two images deltas can reach, in one of
the two directions. In `StateFile` three starts are a restart next to a client that
runs on, so a process can find what a dead one left while another is recording; two records
let one fall back. In `Pull` the limit of four holds one artifact of two chunks
and its manifest but not two with theirs, a period of one second makes files of
two ages count and lets them grow old, and one fault is a torn file left by a crash
or a failing write; the second client may stop anywhere as often as it likes. Its
strategies have a base delay of 2 with a maximum of 3, so that the delays are 2, 4
and 8 and the maximum cuts them, and a base of 2 with a maximum of 1, for which
`Wait` repeats the last delay (line 40). Words end at 11: the first two delays keep
clear of overflow, the third does not and may come out negative. Three attempts can
be used up by one pull or by several. `MaxExits`, `MaxFaults`, `MaxTroubles`,
`MaxStarts`, `MaxCrashes` are the only counters; chunks and attempts are bounded by
the code. Symmetry is used in the safety runs of the service, between requests and
between instances, which the specification never tells apart by choice.

In `TarDelta` bytes have three values, so that sums and differences are not the
same; files have up to three bytes, so that one can be compared in several
rounds, of several chunks, or be of a dissimilar size; a chunk and its checksum
collide as soon as they begin alike; the buffer takes two bytes. Two new files
are needed for what one leaves behind in the writer's cursor and buffer.

`backoff` scales the default strategy, 64 bits, 100 ms, 30 s and 40 attempts, to
10 bits, a base delay of 3, a bound of 40 and 10 attempts, in which the delay
passes the size of a word before the attempts are used up, as it does in the code
at the 37th. In `Pull.cfg` the jitter overflows at the last attempt, after which no
wait is left that could panic; `WaitsInBounds` promises a positive wait only as long
as delay and jitter fit a word, which for the default strategy is up to attempt 35.

**Deadlock** is checked in every run but `tar_delta`, a program that ends, and
`state_file`, whose processes may all have exited with no start left: in each of
the others something can always happen, also if only a release, a retry or a
restart.

**Fairness.** `DeltaService`: each handler and each goroutine goes on, since Go
schedules what can run and registry calls return, perhaps with an error; the
mutex is released after finitely many steps, so weak fairness is enough. Nobody
has to send a request, release an image or stop an instance. `Ingest`: a loader
keeps trying and the runtime, which forces a collection every two minutes,
releases leaked locks. `UpdateClient`: pulls are repeated and do not stop half
way, which is all: what the service answers is under no fairness. `StateFile`: a
process goes on with the call it is in; a lock that becomes free
again and again is granted at some time, which needs strong fairness of `Modify` and
of `Truncate`, since readers and writers of other processes may take it in between. `Pull`: a pull does not stop half way, every download ends at
some time, the second client's too, the goroutine of the observer runs; `Stop` is
strongly fair because `select` chooses at random between the timer and the closed
channel, and time, which does not pass during a write, goes on. `TarDelta`: a sequential program
keeps running. Failures, crashes and edits are never fair, and are finitely many in
the runs that check liveness: nothing converges under failures that never end.

## 4. Proofs

`DeltaServiceProofs` proves, for any finite or infinite sets of instances,
requests, images and algorithms that satisfy the assumptions stated in
`DeltaLocation` and `DeltaService`:

- `Typed`: the type invariant.
- `DummyLockTheorem`: the mutex of `PushDummy` is held exactly by the handler
  between its check and its return. Inductive with typing alone.
- `DummyMarkTheorem`: an entry of `activeDummiesCreation` belongs to a push that
  is going on or to a request that has failed. It needs that a request which has
  been answered, or holds the mutex, keeps its location and its instance.
- `NoDuplicateCreation`, `NoStaleClaim`: at most one goroutine of an instance
  creates a delta, and the set of active creations is the set of deltas being
  created. `OneCreationPerInstance` is not inductive: the goroutine that enters
  must find its location unclaimed because claims are exactly the running
  creations, and the one that leaves removes a claim no other goroutine rests on
  because creations are unique. The invariant is their conjunction.
- `ServedIsReal`: a delta that was served is in the registry and answers its
  request. The inductive invariant follows the data: what a tag points at is of
  that tag's location, and if it is a delta, in the registry; so is what a
  handler has found; a handler's location is that of its question; a goroutine
  at its last call has pushed its delta.
- `WaitGroupTheorem`: `WaitGroupCounts`. Counting needs finite sets, and there may
  be infinitely many requests, so the invariant adds that only finitely many
  handlers and goroutines run on an instance; each step then adds one to a set or
  removes one, or moves one from the handlers to the goroutines.

`DeltaBoardProofs` proves `Promise`: `Spec => KeepsThePromise`, the refinement of
`DeltaBoard`, for the same instances. To each action belongs a lemma that makes it
a step of the board or shows that it is not seen there. They rest on what is
proved about the data (`ServedInv`) and on two more facts: a target is settled
when, and only when, the handler has resolved it, and only compatible images get
as far as a location (`SettledInv`); a delta on the board was pushed by the
goroutine of the request it names, which pushes once (`PushedInv`).

`IngestProofs` proves for any number of loaders, files and faults and for any
size of the blob:

- `WellTyped`: the type invariant.
- `DigestOfFile`: `HashIsOfFile`. Inductive with the fact that only the holder
  of the lock is between the size check and the end of the copy: other loaders
  may have the same file open, but none can write it.
- `LoneLoader`: `CompletedIsWhole`, if there is one loader. Then the file it has
  open is the one at the path of the download, so that what it renames is what it
  has verified. With two loaders this is what fails (`ingest_race`).

`UpdateClientProofs` proves for any images, patchers and number of troubles
`WellTyped`, `RecordTheorem` (`RecordIsTrue`) and `SuccessTheorem`
(`SuccessIsInstalled`). The invariant says at each place in the code what is
known there: before a patch the directory holds the recorded image, what is
staged is the goal, and a record is only made of a directory that holds it.

`StateFileProofs` proves for any clients, records, starts and crashes:

- `WellTyped`: the type invariant.
- `LockTheorem`: `LockProtects`. Inductive with the fact that, until it is
  disturbed, every lock file and state file that is open is of the present
  generation, so that an exclusive lock excludes.
- `Refinement`: `IsStateMap`. `Genuine` says that nothing is in the file or in
  any memory that its owner did not record, disturbed or not; `Faithful` that,
  until it is disturbed, a process about to write differs from the file in its
  own record only.

`PullProofs` proves for delays, attempts, artifacts and limits of any size:

- `WellTyped`: the type invariant.
- `WaitTheorem`: `WaitsInBounds`, for every strategy, the default one included, and
  whatever overflows. What jitter makes of a delay is never zero, so that a last
  delay of zero means that there was none (`Sound`); and where delay and jitter fit
  a word, the result is right although their sum, which comes first, may not fit
  one: the second operation wraps back.
- `NoPanicTheorem`: `NeverPanics`, under the condition `Roomy` that delay and jitter
  of every attempt fit a word. `Roomy` does not hold of the default strategy, whose
  `NeverPanics` the run `backoff` refutes: the two together say that overflow is
  the only reason. (`NoOverflow` says that a delay is positive as well, which of
  `2^n`, defined by a recursion, the provers do not know.)
- `CountTheorem`: `NoReadIsLost`, with what the observer holds at each place, and
  reads that fail with data in hand.
- `LimitTheorem`: `WithinLimit`. The limit is checked once per artifact, so what
  counts is what may still be recorded of admitted ones: the rest of the blobs,
  what was counted, what the observer holds. `Admitted` says that for either
  client this is one artifact at most, and chunks are left only while one is
  read. Each step moves chunks on towards the files or drops some; files that grow
  old, are removed, or have two writers only make the sum smaller.

`TarDeltaProofs` proves, for archives of any number and size of files, chunks,
buffers and bounds of any size, and whatever matches the differ finds:

- `WellTyped`: the type invariant.
- `ReproducesTheorem`: `Reproduces`, whose condition is `Proper(old, new)`.
- `CursorsTheorem`: `CursorsAgree`, for proper pairs; on the others TLC has found
  it to hold as well.
- `FailsOnlyImproper`: if neither program can go on before the patcher has ended,
  the pair is not proper.
- `OrdinaryTheorem`: an old archive in which no two entries have the same path and
  none is rooted makes every pair proper, so that the new archive, whatever it is,
  is rebuilt.

Without `Proper` the code does not do what they say (`analysis.go:285`,
`tarfsdatasource.go:59`, see section 3). They rest on one invariant, `Right`. While the
differ runs, it says what its output means: carrying out the operations written
so far and then writing the buffer gives exactly what has been read of the new
archive, and leads to the file and position of the writer's cursor (`Yields`).
Only with this can one see that an open or seek that was left out was redundant.
A step of the differ appends a few operations and reads a few bytes; one lemma for
each function of the writer says what this adds to both sides, with the cases in
which it adds no operation. While the patcher runs, it says that the patcher is at
the state that a run of the same operations has after as many steps. That what the
differ reads of the stored data is the source file takes what `Analyze` computes:
where each part of a flattened sequence lies.

`DataLemmas` replaces induction. That a sum over a set or a flattened sequence is
what it should be is shown at the least number, or in a smallest set, for which it
would not be. A sum of sizes is the number of units there are, `Cardinality` of a
set of pairs, so that the order of a fold does not matter.

Except for `Roomy` of `NoPanicTheorem`, `Proper` and the one loader of
`LoneLoader`, which these theorems state, every theorem rests only on the named
assumptions of the modules, which TLC evaluates in the runs. `ArchiveAssumption` says of the pairs that the
differ may be given no more than that they are archives.

**Only model-checked**: liveness (`EveryRequestIsAnswered`, `DummyLeadsToDelta`,
`PicksUpInterruptedFetches`, `Converges`, `ModifyEnds`, `PullReturns`, `LimitLifts`,
`Rebuilt`), which is out of the prover's reach, as is ENABLED. Of `Rebuilt` the
safety half is proved: of a proper pair neither program fails
(`FailsOnlyImproper`), and what it leaves is complete (`ReproducesTheorem`). Every invariant and every action property
that a passing run checks is proved.

## 5. Not modelled, and the plan

What is left, in this order:

1. `FileBackedReader`: the reader under the patcher's data source, which lets one
   seek in a stream, against a plain file.
2. `PullSystem`: `UpdateClient` with `DeltaBoard` in the place of its abstract
   answers, so that what `Promise` proves of the service is used rather than
   assumed.
3. `push` and the tar extraction: what is packed can be unpacked. `push.go` packs
   symbolic links, which the extraction refuses.
4. Proofs about these modules.

Left out for good: the suffix sort of bsdiff and the arithmetic of rolling
checksums (one right answer that tests reach; `TarDelta` holds for any matches),
compression, HTTP and JSON encoding, command line, configuration, metrics and
logging, the observer that prints progress. What credentials allow is decided by
the registry. `Ingest` does not model directory entries that a power loss undoes:
`ReplaceFile` syncs the directory, and an undone rename leaves a state that an
earlier power loss leaves as well. `UpdateClient` has edits of the directory
between pulls only: nothing in the code guards against one during a pull.
