# Hypcast in TLA+

Hypcast streams ATSC television from one DVB device to web browsers. This
directory holds a model of the parts of Hypcast in which the order of events
matters, what TLC checks about it, and what TLAPS proves about it. Line numbers
refer to the sources of the commit the model was written from.

## The system

| Component | State | Operations | What is hard |
|---|---|---|---|
| `internal/watch` | `Value`: `mu`, `value`, `watchers`; each watch: `mu`, `wg`, `next`, `ok`, `running`, `cancel` | `Set`, `Get`, `Watch`, `Cancel`, `Wait`; a goroutine per busy watch | decisions taken under a lock and carried out after it; handlers that block, that call back, or that end by `Goexit` |
| `internal/atsc/tuner` | `mu`, `pipeline`, `status`, `tracks` | `Tune`, `Stop`, `WatchStatus`, `WatchTracks` | many steps under one lock, each of which may fail; deferred cleanup; watchers see intermediate states |
| `internal/gst` | element, cgo handles by sink | `NewPipeline`, `SetSink`, `Start`, `Stop`, `Close`, `hypcastSinkSample` | streaming threads that call into Go while a pipeline is being closed |
| `internal/api` sockets | per session: context, socket, PeerConnection, watch | `ServeHTTP`, the reader, the handler of the watch | three goroutines on the same objects; the order of teardown; offers and answers that cross |
| `internal/api` RPC | the buffered body of a request | `tune`, `stop`, `WithLimitedBodyBuffer`, `Handle` | checks in two layers; requests that run concurrently |
| `internal/atsc` | channels parsed so far, first error | `ParseChannelsConf`, `Channel.String` | the first error of several; two tables of modulations |
| `internal/assets` | open files | `FileSystem.Open` | early returns; what `http.FileServer` makes of its result; files that change in between |
| `cmd/hypcast-server` | tuner, `http.Server` | start and shutdown | requests under way; sockets are not waited for |
| `client` | per provider: socket, PeerConnection, reducer state | messages, track and close events | events of objects that were replaced |

An HTTP request calls `Tune` or `Stop` in its own goroutine. The tuner holds
`t.mu`, works on one `gst.Pipeline`, and stores its `Status` and its `Tracks` in
two watch Values. Each open socket has a watch on one of them. The handler of a
track watch replaces the tracks of the session's PeerConnection and sends an
offer; the reader of the session applies the client's answers. The handler of a
status watch writes the status to its socket. GStreamer calls the sink functions
in its own threads, which write samples to the tracks.

What makes each of them correct, in a sentence:

- **watch**: every watch ends up with the latest value, one handler execution at a
  time, without ever holding up whoever stores values; `Wait` means what it says.
- **tuner**: status, tracks, answers and the pipeline agree; one pipeline has the
  device; no failure leaves a pipeline behind; every call returns.
- **gst**: no callback meets a deleted handle.
- **sockets**: a session that goes on ends up in step with the tuner; one whose
  client is gone ends, and leaves nothing running.
- **channels.conf**: every line is read exactly or refused, and every channel that is
  listed can be tuned to, unless its name is empty or too long for a request.
- **rpc, api**: a request is refused exactly when the conventions say so, reaches the
  tuner with its own parameters, and is answered with what has happened.
- **assets**: every URL leads to its page, without listings, circles or open files.
- **server**: no request waits forever once its body has come, and no shutdown does.

The list of hazards, with the line where each one bites and the properties that
watch over it, is in `PROJECT.json`.

## Modules

| Module | Models | Uses |
|---|---|---|
| `WatchContract` | what the watch package promises: mailboxes of size one | |
| `Watch` | `watch.go`, step by step | refines `WatchContract` |
| `WatchContractProofs` | what the users of a watch rely on | `WatchContract` |
| `WatchProofs` | proofs about `Watch` | `Watch` |
| `Gst` | `gst.go`, `gst.c`: pipelines, handles, streaming threads | |
| `TunerContract` | what the tuner promises to its callers and watchers | |
| `Tuner` | `tuner.go`: `Tune` and `Stop` on top of `Gst` | `Gst`, refines `TunerContract` |
| `WebRTC` | `webrtc.go` and how `Backend.ts` answers offers | `WatchContract` |
| `TunerStatus` | `tunerstatus.go` and `TunerStatus.tsx` | `WatchContract` |
| `ChannelsConf` | `atsc.go`, and the tuner's map, list and descriptions of channels | |
| `Rpc` | `rpc.go` and the handlers of `api.go`: the checks of a request | |
| `Server` | `main.go`, and requests that run concurrently | `ChannelsConf`, `Rpc`, `TunerContract` |
| `Assets` | `assets.go`, between `http.FileServer` and the files | |
| `TunerProofs` | proofs about `Tuner` and `Gst`, and the refinement of `TunerContract` | `Tuner` |
| `WebRTCProofs`, `TunerStatusProofs` | proofs about the sockets | `WebRTC`, `TunerStatus`, `WatchContractProofs` |
| `ServerProofs` | proofs about `Server`, `Rpc` and `ChannelsConf` | `Server` |
| `AssetsProofs` | proofs about `Assets` | `Assets` |
| `MCWatch`, `MCTuner` | symmetry for the instances that TLC checks | `Watch`, `Tuner` |
| `MCServer`, `MCAssets` | files, requests and trees for TLC | `Server`, `Assets` |

Operators whose name has a suffix (`SetFlag_NeverSet`) are broken variants of the
operator that follows them. No specification uses them; they are there to show that
a property fails when the code is wrong in that way.

### Watch

A thread is a client, or a goroutine that executes a handler, since handlers may
call `Set`, `Watch` and `Cancel` too. `v.mu` is the variable `vmu`: `SetLock` and
`WatchLock` take it, `Update` visits the watches in any order, `ValueUnlock`
releases it. A section under `w.mu` only assigns, so it is one step; what follows
its unlock is another: `UpdateSpawn` is `go w.run()`, `CancelDone` and `RunDone` are
`w.wg.Done()`. The head of the loop of `run` has three outcomes, `RunStop`,
`RunCancelled` and `RunHandle`. A handler ends by `HandlerReturn` or by
`HandlerGoexit`, after which `RunUnwind` is the deferred function. Values are
represented by their version, their position in the order of the Sets. `born` and
`handled` are history: the version when the watch was created, and the version the
handler was given last.

A panic in a handler ends the process, so it is not modelled. `Wait` is only called by clients: a
handler that waits for its own watch waits forever, which is the caller's mistake.
`Get` changes nothing.

The mapping to `WatchContract` makes the box of a watch its slot, unless `cancel` is
set; a watch is *closing* from then on, and *closed* when `wg` is zero, which is when
`Wait` returns.

### Gst and Tuner

`Gst` defines the operations of a pipeline as operators and the streaming threads as
actions; `Tuner` combines the operators with its own steps. `Close` is `CloseBegin` (no
thread enters a callback from here on), `CloseStopped` (all have left) or
`CloseStopFailed`, one `CloseHandle` per sink, and `CloseUnref`. A streaming thread is idle,
in `hypcast_sink_sample` (`SampleBegin`), or past the lookup of its handle
(`SampleValue`), which panics when the handle is gone.

Each call that `Tune` or `Stop` makes while it holds `t.mu` is a step of `Tuner`. The named
result `err` of `Tune` is the variable `err`, and `Fail` is every `return err` after the
deferred cleanup was set up. `destroyAnyRunningPipeline` has three callers and one set
of actions; `AfterDestroy` goes back to the right one. The two sinks are connected in
either order, which the code does not do, but nothing depends on it. Tracks are
represented by the pipeline they were made for. Since `Close` always returns nil, `Stop`
never has an error to report.

Assumed of GStreamer (external): a change to NULL that succeeds has waited for the
callbacks; one that fails has changed nothing (`Close` ignores that
error and forgets a pipeline that still runs, the set `stuck`, of which `DeviceExclusive` and
`NoHandleMisuse` make an exception); `GST_STATE_CHANGE_ASYNC` completes, or
fails, later; a pipeline that left NULL holds the device. `gst_parse_launch` may return
an element along with an error, which the code then loses (`abandoned`).

### WebRTC and TunerStatus

The goroutine of `ServeHTTP` is the variable `stage`. Its deferred calls run from last to
first: `CancelLeave` and `CancelClose` (`Cancel`), `PeerClose`, `SocketClose`, and then
`WaitWatch` and `WaitReader`. In `WebRTC` the handler goes through `replaceTracks`, `CreateOffer`,
`SetLocalDescription`, the wait for gathering, and the write; `HandlerFails` is its error
path. An offer is represented by the version of the tracks it describes, an
answer by the version of the offer it answers.

The client may fail where `Backend.ts` swallows the error: `ClientOfferRejected` is a
`setRemoteDescription` that the browser rejects, after which `createAnswer` has no
offer to answer, and `ClientAnswerRejected` is a `createAnswer` or `setLocalDescription` that it rejects.
No answer is sent, the server waits in `have-local-offer`, and nobody cancels: only the next change of the
tracks, whose offer the PeerConnection refuses, ends the session. `rejected` is history, the version of the offer
rejected last; `TracksReachClient` makes an exception of a client that rejected an offer of the current tracks.

The watches are mailboxes of `WatchContract`, whose actions are conjoined with the
sessions' own: what `Watch` refines is what these modules rely on.

Assumed of pion (external): an offer is refused while another is unanswered, every use
of a closed PeerConnection fails, and gathering ends. Assumed of the sockets: messages
arrive in order until either side closes, and what is under way then may be lost.
`Slow` in `TunerStatus` is the set of clients that may stop reading.

### TunerContract

A call of `Tune` or `Stop` waits, is let in alone, tells the watchers of the status what it
does (`Announce`, `Change`, `Fail`), then those of the tracks (`Publish`), and is done; its answer
is the error it returns. An unknown channel is refused before anything changes. A
failed `Tune` says nothing of tracks, and new tracks are not the previous ones. `Tuner`
implements it: a call is *done* when it is about to unlock, *publishing* when only the tracks
are left to be set, and *working* during everything in between, whatever GStreamer does. The pipelines that
tracks are made for are the contract's `Stream`.

### ChannelsConf, Rpc and Server

`ChannelsConf` reads a file line by line: `ReadLine` is one turn of the loop of
`ParseChannelsConf`, with the closures' shared `err` as the least bad field. Texts are abstract:
`Numeral` is the table of what `strconv.ParseUint` accepts and `Decimal` that of what `fmt` prints.
`ReadFails` is any error of the file. `ChannelMap`, `ChannelNames` and `Describe` are what the tuner makes
of the channels.

`Rpc` describes each layer that a request goes through as a sequence of checks, each with the
status code of its response; `Verdict` is the first that applies in `CrossOriginProtection`,
`WithLimitedBodyBuffer`, the inner `ServeMux`, `Handle` and the handler. `Buffered` is `bufferedBody`: from
there on the stream is empty and the length is that of the buffer. A body is a name, none, or one
of two kinds that do not decode. `ReadsBody` tells whether `ReadFrom` is called.

`Server` is `main`: it loads the file, or exits, serves, and shuts down. The head of a request comes by
`Arrive`, the rest of its body, which `ReadFrom` waits for, by `BodyArrives`, and `Check` is what the
layers make of it. The server has no `ReadTimeout`, so a client may leave its request `Stalled` between the first two
for ever; `received` says how far each request is. `Judged` is `Verdict` as a table. A request that passes all
checks calls the tuner, which is `TunerContract` with the channels of the file; what `Tuner` is shown
to implement is what `Server` relies on. `Respond` turns the tuner's answer into a code. `Finish` is up to
the client. `main` reads the file before it serves and never again, so `Listen` forgets it.

Assumed of `net/http` (external): cross-origin protection exempts GET; `MaxBytesReader` fails on the first byte
over the limit; `Shutdown` refuses new requests, returns when none is under way, or when its context
ends. The empty channel name stands for none: a channel that has it is listed, and `rpcTune`
refuses to tune to it (`ListedIsTunable` makes that exception). `Size` has the length of the body that carries a
name: one that exceeds the limit of 1024 bytes is listed too, and a request for it gets a 413, which
`ListedIsTunable` states. Of several channels of a name, the last can be tuned to.

### Assets

The variable `at` says whether `FileServer` is about to look at the URL (`Serve`), or `Open` is about to open
the file itself (`OpenFile`) or the index of a directory (`CheckIndex`). `FileServer` opens the file of
the URL, and for a directory its index; `Opened` and `Refused` are what it does with the result of
`Open`: a response, a redirect, which the client follows, or another call. Between any two of these the tree may
`Change`, and any open may fail. `mishap` is history: what went wrong since the client asked.

Assumed of the tree: no directory is named `index.html`. With one, `Open` accepts the directory around
it, `FileServer` cannot open it as an index, and lists the directory. The same happens when the
index cannot be opened for the second time and neither can the root index, which is why `NoListing` speaks of
a root index that stays. Errors of `Stat` are not modelled.

## Runs

| Run | Instance | Shows |
|---|---|---|
| `watch_safety` | 2 clients, 3 goroutines, 2 watches, 3 versions | type, `SingleRunner`, `NoLostUpdate`, `WaitGuarantee`, `DoneAtMostOnce`, `DeliveryInOrder`, refinement of `WatchContract` |
| `watch_blocked` | 1 client, 3 goroutines, 2 watches, 2 versions | handlers may block: `ValueLockReleased`, `DeliveredUnlessBusy` |
| `watch_live` | 2 clients, 2 goroutines, 1 watch, 4 versions | handlers end: `LatestDelivered`, `WaitReturns` |
| `watch_creation` | as `watch_safety` | a sentence of the documentation does not hold literally |
| `tuner_safety` | 2 clients, 2 channels and an unknown one, 2 pipelines, 2 sinks | type, `DeviceExclusive`, `NoHandleMisuse`, `Quiescent`, `AnswerIsTrue`, refinement of `TunerContract` |
| `tuner_live` | 2 clients, 1 channel and an unknown one, 2 pipelines, 1 sink | `CallReturns` |
| `tuner_async`, `tuner_stale` | as `tuner_safety` | two sentences of the documentation do not hold literally |
| `webrtc` | 1 session, 5 versions | type, `QuietAfterReturn`, `AnswerFitsOffer`, `InSync`, `TracksReachClient`, `SessionEnds` |
| `status` | 2 sessions, one of them slow, 3 versions, 1 message under way | type, `QuietAfterReturn`, `ShowsCurrent`, `StatusReachesClient`, `SessionEnds` |
| `server` | 2 connections, 3 names and the empty one, 2 files that parse and 36 of one or two lines that do not, limit 1, 2 pairs of tracks | `ParseIsExact`, `RoundTrip`, `ListedIsTunable`, `Conventions`, `ParametersArrive`, `CodeIsTrue`, `NothingHangs` |
| `assets` | a root index, a directory and its index, another file; 3 changes or failures | `GetsPage`, `NoListing`, `NothingLeft`, `Answered` |

### Bounds

- *Watch.* Three goroutines are two in charge of the two watches and one that takes over
  or that should not exist. Three versions are the initial one, one in the handler
  and one that overwrites the slot. Safety does not rest on these bounds: it is
  proved for all of them. Liveness with two watches and three versions was too large,
  so `watch_live` has one watch and more versions, and `watch_blocked`, where another
  watch matters, has fewer versions.
- *Tuner.* Two clients are one in a call and one that waits. Two pipelines are an old one
  and its replacement; when both are used up, `NewPipeline` can only fail, so the runs
  also cover every call after that. One sink is enough for liveness: sinks do not wait for each other.
- *Sockets.* Sessions share only the Value and its lock, which `status` has two of them
  contend for; `webrtc` has one, and more versions. Three versions are enough for tracks
  that come, go and come back (the first is always empty) and for a change that
  overtakes an answer; two more let each of these happen again after the other.

- *Server.* Two lines are enough for a second error and for a good line before or after a bad one; the
  seven lines have a wrong number of fields, one and two bad fields, both spellings of 8VSB, numerals
  that print differently, and an empty name. The files that parse are one with a channel, and one with two
  channels of a name, one without a name, and one whose name makes a body too large. One
  connection carries requests that differ from a sound one in up to two ways, so that every pair of
  checks meets; the other one's are sound. Lengths are 0, the limit, and one more. Two pairs of tracks are enough because only consecutive ones are compared.
- *Assets.* With the root there are directories with and without an index at two levels, and paths with
  nothing. Three changes or failures in one request are one per call of the file system.

Runs of `Watch`, `WebRTC` and `TunerStatus` say `CHECK_DEADLOCK FALSE`: versions run out, and a
client may wait on a watch that nobody cancels. So does the run of `Server`, which exits. `Tuner` cannot stop, and its runs check that.

### Fairness

- `SchedSpec` of `Watch`: every goroutine that can take a step eventually does (weak
  fairness per thread). Nobody has to begin a call and handlers need not end.
- `FairSpec` of `Watch` adds that handlers end. It is strong fairness because a handler
  that makes calls of its own can only end between them.
- `FairSpec` of `Tuner`: strong fairness of `Lock` stands for `sync.Mutex`, which hands itself to
  the oldest waiter after a millisecond; weak fairness for the holder and for the
  callbacks. No fairness for failures, nor for GStreamer to lock onto a signal.
- `FairSpec` of the sockets: strong fairness of `ServeStep` for the same mutex (it takes
  the Value's lock), weak fairness for the rest. Nobody has to connect, leave, or store anything. The
  write of a slow client may never end. A browser settles the promises of a WebRTC client one way
  or the other.
- `FairSpec` of `Server`: the same for calls of the tuner, weak fairness for the deadline of
  `Shutdown`. No client has to send the rest of a request or to finish it, and nobody has to send a signal.
- `FairSpec` of `Assets`: the server gets on with a request. Nothing has to change or fail.

## Proofs

Every safety property that a passing run checks is also a theorem, for every value of the
constants: any number of goroutines, watches, pipelines, sinks, sessions, versions,
requests, files and paths. Both refinements are theorems too. None of the interesting properties is
inductive as it stands, so each `*Proofs` module has an invariant `IInv`, a conjunction of
named parts, a lemma for each part or action, and a theorem `Inductive`; what follows says what
the parts know that the properties do not say. TLC confirmed each `IInv` on the
instance of the run before it was proved.

**Assumptions.** Each is a named `ASSUME` of the module that declares the constants, and TLC
evaluates it in the runs.

- `WatchAssumption`, `TunerAssumption`: what stands for none (no thread, watcher, client, pipeline,
  channel) is not one of them, there is at least one version, and a pipeline has finitely
  many sinks.
- `WebRTCAssumption`, `TunerStatusAssumption`: there is a first version, since a `watch.Value` is made
  with a value, and a socket buffers at least one message.
- `ChannelsConfAssumption`: a file is a sequence of lines, a line one of texts; what `fmt` prints of a number
  that `ParseUint` returned, `ParseUint` accepts and returns as the same number.
- `RpcAssumption`: a body may be of at least one byte, and neither no name nor the two kinds of
  bodies that do not decode are names. `ServerAssumption` adds that clients send requests, no
  text of a file is one of those kinds of bodies, a body that carries a name of a file is not empty, and what stands
  for none is not a request, a name or a pair of tracks.
- `AssetsAssumption`: paths are sequences of names and closed under their parents, no path goes through an index,
  and in a tree every file is in a directory; the root and the path of its index are there.

**Watch.** `SingleRunner` needs to know that `running` says
exactly whether a goroutine is in charge or about to be (`RunnerInv`): `update` starts one
because the flag is down. `WaitGuarantee` and `DoneAtMostOnce` need to know who owes the one call
of `wg.Done`: the goroutine in charge, one that is ending, or a `Cancel` that found nobody (`WgInv`).
`NoLostUpdate` and `DeliveryInOrder` need the order of the versions in the handler, the slot and the
Value (`SlotInv`), and all of them need to know who holds `v.mu` and which watch a call is about
(`CallInv`). For the refinement, `RefinementStep` names the action of `WatchContract` that each
action of `Watch` is, or shows that it changes nothing there.

**WatchContract.** `MailInv` is what a session may rely on: a watch that is not open holds
no version, and one that listens holds the current version or none, unless a
`Set` is on its way to it. `MailStep` is stated for one step of any mailbox, so that the sockets, which
conjoin those steps with their own, cite it with their sessions as the watches.

**Tuner.** `CallInv` makes `t.mu` a lock (the call past `Lock` is alone) and says at
which places which errors and names are possible. `PipelineInv` says that exactly the pipeline in
`t.pipeline` is open, or being closed by the call that is in `destroyAnyRunningPipeline`: with it
every early return of `Tune` is seen to leave no other. `StreamInv` ties GStreamer's state, the handles
and the streaming threads of a pipeline together: a pipeline streams only between `Start` and a
successful stop, with every handle valid, and `Close` deletes the handles after all threads have left; this is
`NoHandleMisuse`. `PublishInv` says what each call has published so far. `Quiescent` and
`AnswerIsTrue` follow: values agree with the pipeline already before the unlock, also when the
call changed nothing.

For `Refinement`, `Place`, `atMap` and `answerMap` map the places of a call to those of
`TunerContract`; for each action of `Tuner` and `Gst` a lemma names the contract's action or shows a stutter. That new
tracks are not the previous ones needs `PublishInv`: tracks are those of a pipeline that existed.

**Sockets.** `Serving` fits the stage of `ServeHTTP`, the phase of its watch, the socket, the reader and the
PeerConnection together. `QuietAfterReturn` follows from it and `MailInv`: the deferred calls run in an order
in which `Wait` comes after everything that the handler uses was closed.
In `TunerStatus`, `Current` says where the latest status is: due, in the mailbox, with the handler, last in
the socket, or shown.
In `WebRTC`, `Exchange` is about the only offer and its answer: it is with the
handler, on its way, with the client, on its way back, or with the reader, in one of these places and
never in two, and in none while the PeerConnection is stable. Therefore an answer that names no offer cannot be applied to another one
(`AnswerFitsOffer`). `Tracking` is the counterpart of `Current`: the current tracks are due, in the mailbox, with the
handler, or in the PeerConnection, in the pending offer or in the client's answer to the last.

**Server.** `Verdicts` computes which of the ten checks of a request decides. `Acceptable` concludes that
exactly the requests that `Proper` describes pass: the checks that `Handle` repeats never decide anything, and a length is
counted once although two layers look at it. `Reading` says that the lines read so far are the channels, or that all but
the last of them were fine; `Listing` keeps the origin of every channel once main has forgotten the file, for
`RoundTrip` and `ListedIsTunable`. `Carried` follows a request, by what of it was received, from its head through its
check, its call, its answer and its code, and `Turns` has the calls of `TunerContract`: one at a time, so that nobody else tells the watchers
anything before a call is done.

**Assets.** `Located` says what is about to be opened at each call of `Open`, `Held` that the open
files are those of the call under way, or its caller's, and `Heading` that as long as nothing changes
every redirect and every fallback keeps the page that was asked for.

**Composition.** `UsesContract` of the sockets says that whatever a session does is, to its watch, a step of
`WatchContract`, and that of `Server` that once the channels are loaded what requests do to the tuner is a step of
`TunerContract`, with a name that it may be asked for. With the two theorems `Refinement`, the modules fit together: each
one relies on no more than the module below it is proved to do.

**Only model-checked.** Liveness under fairness is out of the prover's reach: `ValueLockReleased`,
`DeliveredUnlessBusy`, `LatestDelivered`, `WaitReturns`, `CallReturns`, `TracksReachClient`,
`StatusReachesClient`, `SessionEnds`, `NothingHangs`, `Answered`. Three of the sentences below that do not hold
literally have a counterexample that TLC finds.

## Where documentation and code differ

- `watch.go:45-47` promises that the first execution of a handler gets the value stored
  when the watch was created. A `Set` before the new goroutine is scheduled replaces it.
- `watch.go:77-78` says that a canceled watch terminates after any *pending* execution. A pending
  one is discarded; only the one in flight is waited for, as in `Terminate` of `WatchContract`. (The comment in
  `watch_test.go:228-229` agrees with the code.)
- `tuner.go:32-33` says that `StatePlaying` means a signal and a stream. `Start` accepts an
  asynchronous start, and errors that come later are not read from the bus.
- `tuner.go:44-45` calls `Tracks` the current set. A `Tune` that fails leaves the tracks of the pipeline
  it destroyed.
- `assets.go:19` says that directory listings are not served. One is when both the index and
  the root index go between `Open` and its use, or when the index is a directory.

## Not modelled

Contents of samples, SDP, statuses and the bodies of responses; the parts of a pipeline description that no
channel changes, and the choice among the video pipelines; routing, cross-origin protection and the file
server of `net/http` beyond what is assumed of them above; flags and logging; the shutdown of
sockets, which `http.Server` does not wait for and the end of the process closes; in the client,
rendering, the connection state that it shows, media streams as the browser reports
them, and the cache of `useConfig.ts`, which one map of promises keeps.

## Plan

1. Done: `WatchContract`, `Watch`; `Gst`, `TunerContract`, `Tuner`; `WebRTC`, `TunerStatus`; `ChannelsConf`,
   `Rpc`, `Server`; `Assets`; and their proofs.
2. More about the contracts: the answers of `TunerContract` as an invariant of its own, from which
   `AnswerIsTrue` of `Tuner` and `CodeIsTrue` of `Server` follow, and `MailInv` as a theorem about `Watch`
   itself, through its refinement.
3. Action properties worth a theorem: the messages of a status socket never go back to an older version, and
   a client is never offered older tracks than before.
