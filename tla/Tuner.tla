------------------------------- MODULE Tuner -------------------------------
(***************************************************************************)
(* internal/atsc/tuner/tuner.go on top of internal/gst.                    *)
(*                                                                         *)
(* Any number of clients (HTTP requests) call Tune and Stop at any time.   *)
(* A call holds t.mu from beginning to end, but it is not atomic: GStreamer*)
(* threads run, and watchers see status and tracks, between its steps.     *)
(* Each call to gst or to Value.Set is a step.                             *)
(*                                                                         *)
(* A Tracks value is represented by the pipeline it was created for.       *)
(***************************************************************************)
EXTENDS Gst, FiniteSets

CONSTANTS
  Client,      \* goroutines that call the tuner
  Channel,     \* names that channelMap knows
  Unknown,     \* a name that it does not know
  NoClient,    \* t.mu is not locked
  NoChannel,   \* the empty channel name
  NoPipeline   \* nil, for t.pipeline and for both tracks

ASSUME TunerAssumption ==
  /\ NoClient \notin Client
  /\ NoPipeline \notin Pipeline
  /\ Unknown \notin Channel
  /\ NoChannel \notin Channel \union {Unknown}
  /\ IsFiniteSet(Sink)

VARIABLES
  tmu,       \* holder of t.mu
  pipeline,  \* t.pipeline
  status,    \* value stored in t.status
  tracks,    \* value stored in t.tracks
  pc,        \* where each client is
  op,        \* the operation it called
  arg,       \* the channel it asked for
  err        \* the error its call is going to return

tunerVars == <<tmu, pipeline, status, tracks, pc, op, arg, err>>
vars == <<gstVars, tunerVars>>

State == {"Stopped", "Starting", "Playing"}
Error == {"none", "unknown", "failed"}

Stopped(e) == [state |-> "Stopped", channel |-> NoChannel, error |-> e]
Starting(ch) == [state |-> "Starting", channel |-> ch, error |-> "none"]
Playing(ch) == [state |-> "Playing", channel |-> ch, error |-> "none"]

TypeOK ==
  /\ GstTypeOK
  /\ tmu \in Client \union {NoClient}
  /\ pipeline \in Pipeline \union {NoPipeline}
  /\ status \in [state : State, channel : Channel \union {NoChannel}, error : Error]
  /\ tracks \in Pipeline \union {NoPipeline}
  /\ pc \in [Client -> {"idle", "lock", "starting", "destroy", "create", "pair",
                        "connect", "start", "play", "publish", "report",
                        "unpublish", "unlock"}]
  /\ op \in [Client -> {"Tune", "Stop"}]
  /\ arg \in [Client -> Channel \union {Unknown, NoChannel}]
  /\ err \in [Client -> Error]

Init ==
  /\ GstInit
  /\ tmu = NoClient
  /\ pipeline = NoPipeline
  /\ status = Stopped("none")
  /\ tracks = NoPipeline
  /\ pc = [c \in Client |-> "idle"]
  /\ op = [c \in Client |-> "Stop"]
  /\ arg = [c \in Client |-> NoChannel]
  /\ err = [c \in Client |-> "none"]

-----------------------------------------------------------------------------

Goto(c, label) == pc' = [pc EXCEPT ![c] = label]

\* return e: the deferred cleanup of Tune comes first, if there is an error.
Fail_NoCleanup(c, e) ==
  /\ err' = [err EXCEPT ![c] = e]
  /\ Goto(c, "report")
Fail(c, e) ==
  /\ err' = [err EXCEPT ![c] = e]
  /\ Goto(c, "destroy")

Call(c, o, ch) ==
  /\ pc[c] = "idle"
  /\ Goto(c, "lock")
  /\ op' = [op EXCEPT ![c] = o]
  /\ arg' = [arg EXCEPT ![c] = ch]
  /\ err' = [err EXCEPT ![c] = "none"]
  /\ UNCHANGED <<gstVars, tmu, pipeline, status, tracks>>

CallTune(c, ch) == Call(c, "Tune", ch)
CallStop(c) == Call(c, "Stop", NoChannel)

\* t.mu.Lock(), and the lookup of Tune, which fails with nothing changed.
Acquire_Always(c) == tmu' = c
Acquire(c) == tmu = NoClient /\ tmu' = c

\* A broken Tune, which does not look its channel up.
Lock_NoLookup(c) ==
  /\ pc[c] = "lock"
  /\ Acquire(c)
  /\ Goto(c, IF op[c] = "Stop" THEN "destroy" ELSE "starting")
  /\ UNCHANGED <<gstVars, pipeline, status, tracks, op, arg, err>>

\* A broken Tune, which defers its cleanup before it looks the channel up.
Lock_CleanupDeferred(c) ==
  /\ pc[c] = "lock"
  /\ Acquire(c)
  /\ IF op[c] = "Stop" THEN Goto(c, "destroy") /\ UNCHANGED err
     ELSE IF arg[c] \in Channel THEN Goto(c, "starting") /\ UNCHANGED err
     ELSE Fail(c, "unknown")
  /\ UNCHANGED <<gstVars, pipeline, status, tracks, op, arg>>

Lock(c) ==
  /\ pc[c] = "lock"
  /\ Acquire(c)
  /\ IF op[c] = "Stop" THEN Goto(c, "destroy") /\ UNCHANGED err
     ELSE IF arg[c] \in Channel THEN Goto(c, "starting") /\ UNCHANGED err
     ELSE Goto(c, "unlock") /\ err' = [err EXCEPT ![c] = "unknown"]
  /\ UNCHANGED <<gstVars, pipeline, status, tracks, op, arg>>

TuneStarting(c) ==
  /\ pc[c] = "starting"
  /\ status' = Starting(arg[c])
  /\ Goto(c, "destroy")
  /\ UNCHANGED <<gstVars, tmu, pipeline, tracks, op, arg, err>>

(***************************************************************************)
(* destroyAnyRunningPipeline, called by Stop, by Tune before it creates a  *)
(* pipeline, and by the deferred cleanup of Tune.                          *)
(***************************************************************************)

AfterDestroy(c) ==
  IF op[c] = "Stop" \/ err[c] # "none" THEN Goto(c, "report") ELSE Goto(c, "create")

\* A broken Tune, which does not close the pipeline it replaces.
DestroyNothing_Retune(c) ==
  /\ pc[c] = "destroy"
  /\ pipeline = NoPipeline \/ (op[c] = "Tune" /\ err[c] = "none")
  /\ AfterDestroy(c)
  /\ UNCHANGED <<gstVars, tmu, pipeline, status, tracks, op, arg, err>>

DestroyNothing(c) ==
  /\ pc[c] = "destroy"
  /\ pipeline = NoPipeline
  /\ AfterDestroy(c)
  /\ UNCHANGED <<gstVars, tmu, pipeline, status, tracks, op, arg, err>>

DestroyClose(c) ==
  /\ pc[c] = "destroy"
  /\ pipeline # NoPipeline
  /\ \/ CloseBegin(pipeline)
     \/ CloseStopped(pipeline)
     \/ \E s \in Sink : CloseHandle(pipeline, s)
  /\ UNCHANGED tunerVars

DestroyStopFails(c) ==
  /\ pc[c] = "destroy"
  /\ pipeline # NoPipeline
  /\ CloseStopFailed(pipeline)
  /\ UNCHANGED tunerVars

DestroyUnref(c) ==
  /\ pc[c] = "destroy"
  /\ pipeline # NoPipeline
  /\ CloseUnref(pipeline)
  /\ pipeline' = NoPipeline
  /\ AfterDestroy(c)
  /\ UNCHANGED <<tmu, status, tracks, op, arg, err>>

(***************************************************************************)
(* The rest of Tune.                                                       *)
(***************************************************************************)

TuneCreate(c) ==
  /\ pc[c] = "create"
  /\ \E p \in Pipeline : NewPipeline(p) /\ pipeline' = p
  /\ Goto(c, "pair")
  /\ UNCHANGED <<tmu, status, tracks, op, arg, err>>

TuneCreateFails(c) ==
  /\ pc[c] = "create"
  /\ NewPipelineFails
  /\ Fail(c, "failed")
  /\ UNCHANGED <<tmu, pipeline, status, tracks, op, arg>>

TuneTrackPair(c) ==
  /\ pc[c] = "pair"
  /\ \/ Goto(c, "connect") /\ UNCHANGED err
     \/ Fail(c, "failed")
  /\ UNCHANGED <<gstVars, tmu, pipeline, status, tracks, op, arg>>

\* t.pipeline.SetSink, first for the video sink, then for the audio sink.
TuneConnect(c) ==
  /\ pc[c] = "connect"
  /\ \E s \in Sink :
       /\ SetSink(pipeline, s)
       /\ IF \A r \in Sink \ {s} : handle[pipeline][r] # "none"
          THEN Goto(c, "start") ELSE UNCHANGED pc
  /\ UNCHANGED <<tmu, pipeline, status, tracks, op, arg, err>>

TuneStart(c) ==
  /\ pc[c] = "start"
  /\ \/ Start(pipeline) /\ Goto(c, "play") /\ UNCHANGED err
     \/ StartFails(pipeline) /\ Fail(c, "failed")
  /\ UNCHANGED <<tmu, pipeline, status, tracks, op, arg>>

TunePlaying(c) ==
  /\ pc[c] = "play"
  /\ status' = Playing(arg[c])
  /\ Goto(c, "publish")
  /\ UNCHANGED <<gstVars, tmu, pipeline, tracks, op, arg, err>>

TuneTracks(c) ==
  /\ pc[c] = "publish"
  /\ tracks' = pipeline
  /\ Goto(c, "unlock")
  /\ UNCHANGED <<gstVars, tmu, pipeline, status, op, arg, err>>

\* t.status.Set(Status{Error: err}), by Stop and by the cleanup of Tune.
Report(c) ==
  /\ pc[c] = "report"
  /\ status' = Stopped(err[c])
  /\ Goto(c, IF op[c] = "Stop" THEN "unpublish" ELSE "unlock")
  /\ UNCHANGED <<gstVars, tmu, pipeline, tracks, op, arg, err>>

StopTracks(c) ==
  /\ pc[c] = "unpublish"
  /\ tracks' = NoPipeline
  /\ Goto(c, "unlock")
  /\ UNCHANGED <<gstVars, tmu, pipeline, status, op, arg, err>>

\* A broken Tune, which forgets to unlock when the channel is not found.
Unlock_NotOnError(c) ==
  /\ pc[c] = "unlock"
  /\ tmu' = IF err[c] = "unknown" THEN tmu ELSE NoClient
  /\ Goto(c, "idle")
  /\ UNCHANGED <<gstVars, pipeline, status, tracks, op, arg, err>>

Unlock(c) ==
  /\ pc[c] = "unlock"
  /\ tmu' = NoClient
  /\ Goto(c, "idle")
  /\ UNCHANGED <<gstVars, pipeline, status, tracks, op, arg, err>>

-----------------------------------------------------------------------------

\* Steps of a call that holds t.mu.
HeldStep(c) ==
  \/ TuneStarting(c)
  \/ DestroyNothing(c) \/ DestroyClose(c) \/ DestroyUnref(c)
  \/ TuneCreate(c) \/ TuneCreateFails(c)
  \/ TuneTrackPair(c) \/ TuneConnect(c) \/ TuneStart(c)
  \/ TunePlaying(c) \/ TuneTracks(c)
  \/ Report(c) \/ StopTracks(c) \/ Unlock(c)

Begin(c) == CallStop(c) \/ \E ch \in Channel \union {Unknown} : CallTune(c, ch)

Next ==
  \/ \E c \in Client :
       Begin(c) \/ Lock(c) \/ HeldStep(c) \/ DestroyStopFails(c)
  \/ GstStep /\ UNCHANGED tunerVars

Spec == Init /\ [][Next]_vars

(***************************************************************************)
(* The mutex is fair to every waiter (after a millisecond, sync.Mutex      *)
(* hands itself over in order of arrival), the holder keeps executing, and *)
(* the callbacks return: track.WriteSample does not wait for the tuner.    *)
(* Nothing makes a change to NULL fail, or a client call.                  *)
(***************************************************************************)
FairSpec ==
  /\ Spec
  /\ \A c \in Client : SF_vars(Lock(c)) /\ WF_vars(HeldStep(c))
  /\ \A p \in Pipeline, s \in Sink :
       WF_vars(SampleStep(p, s) /\ UNCHANGED tunerVars)

-----------------------------------------------------------------------------
(***************************************************************************)
(* Properties.                                                             *)
(***************************************************************************)

\* One DVB device, one user: a pipeline that has left the NULL state is the
\* one in t.pipeline, unless GStreamer refused to stop it.
DeviceExclusive == \A p \in Pipeline : HoldsDevice(p) => p = pipeline \/ p \in stuck

\* A streaming thread that is in a callback while Tune or Stop closes its
\* pipeline finds its handle valid, unless GStreamer refused to stop it: a
\* panic in that thread would end the server.
NoHandleMisuse ==
  \A p \in Pipeline, s \in Sink : thread[p][s] = "panic" => p \in stuck

\* Between two calls the parts of the tuner agree: either a pipeline was
\* started and connected to both sinks, and its channel and its tracks are
\* the published ones, or there is no pipeline and the status is Stopped.
\* Nothing else is left open, and the tuner is never left Starting.
Quiescent ==
  tmu = NoClient =>
    /\ \A p \in Pipeline : obj[p] = "open" <=> p = pipeline
    /\ \A p \in Pipeline : obj[p] \notin {"stopping", "closing"}
    /\ IF pipeline = NoPipeline THEN status.state = "Stopped"
       ELSE /\ status.state = "Playing"
            /\ tracks = pipeline
            /\ HoldsDevice(pipeline)
            /\ \A s \in Sink : handle[pipeline][s] = "valid"

\* What a call is about to return is what its watchers have been told, even
\* when other calls wait for their turn.
AnswerIsTrue ==
  \A c \in Client : pc[c] = "unlock" =>
    /\ op[c] = "Stop" =>
         status = Stopped("none") /\ tracks = NoPipeline /\ pipeline = NoPipeline
    /\ op[c] = "Tune" /\ err[c] = "failed" =>
         status = Stopped("failed") /\ pipeline = NoPipeline
    /\ op[c] = "Tune" /\ err[c] = "none" =>
         status = Playing(arg[c]) /\ tracks = pipeline /\ pipeline # NoPipeline

\* Every call of Tune and Stop returns, whatever the others do, although it
\* waits for the mutex, and for callbacks of the pipeline that it closes.
CallReturns == \A c \in Client : pc[c] # "idle" ~> pc[c] = "idle"

-----------------------------------------------------------------------------
(***************************************************************************)
(* The refinement.  A call of the contract is done when t.mu is about to   *)
(* be unlocked; an error that is on its way there is not an answer yet.    *)
(***************************************************************************)

Place(label) ==
  CASE label = "idle" -> "idle"
    [] label = "lock" -> "waiting"
    [] label = "starting" -> "starting"
    [] label \in {"publish", "unpublish"} -> "publishing"
    [] label = "unlock" -> "done"
    [] OTHER -> "working"

atMap == [c \in Client |-> Place(pc[c])]

answerMap ==
  [c \in Client |-> IF pc[c] \in {"unlock", "idle"} THEN err[c] ELSE "none"]

Contract == INSTANCE TunerContract WITH
  Name <- Channel \union {Unknown},
  Halt <- NoChannel,
  Stream <- Pipeline,
  NoStream <- NoPipeline,
  known <- Channel,
  at <- atMap,
  asked <- arg,
  answer <- answerMap

\* What callers and watchers see of the tuner is what TunerContract allows.
ImplementsContract == Contract!Spec

-----------------------------------------------------------------------------
(***************************************************************************)
(* Two sentences of the documentation, read literally.                   *)
(***************************************************************************)

\* tuner.go:32-33: "StatePlaying means that the tuner is locked onto a
\* singal and is actively streaming video."
PlayingIsStreaming ==
  status.state = "Playing" /\ pipeline # NoPipeline => gst[pipeline] = "playing"

\* tuner.go:44-45: Tracks is "the current set of video and audio tracks": when
\* no call is in progress, that of the pipeline, or none.
TracksAreCurrent == tmu = NoClient => tracks = pipeline

=============================================================================
