---------------------------- MODULE TunerProofs ----------------------------
(***************************************************************************)
(* Safety of module Tuner for every set of clients, channels, pipelines    *)
(* and sinks.                                                              *)
(***************************************************************************)
EXTENDS Tuner, TLAPS

\* The steps of Tune between the lookup and the end, the cleanup apart.
Tuning == {"starting", "create", "pair", "connect", "start", "play", "publish"}

\* The steps of Tune that have a pipeline of their own in t.pipeline.
Building == {"pair", "connect", "start", "play", "publish"}

\* A call is between its two halves, Lock and Unlock, when it holds t.mu; and
\* its name and its error fit the place it has reached.
CallInv ==
  \A c \in Client :
    /\ pc[c] \notin {"idle", "lock"} <=> tmu = c
    /\ op[c] = "Stop" => arg[c] = NoChannel /\ err[c] = "none"
    /\ op[c] = "Tune" => arg[c] # NoChannel
    /\ pc[c] = "lock" => err[c] = "none"
    /\ pc[c] \in Tuning => op[c] = "Tune" /\ err[c] = "none"
    /\ pc[c] \in Tuning \union {"destroy", "report"} /\ op[c] = "Tune" =>
         arg[c] \in Channel /\ err[c] # "unknown"
    /\ pc[c] = "report" /\ op[c] = "Tune" => err[c] = "failed"
    /\ pc[c] = "unpublish" => op[c] = "Stop"

\* Exactly the pipeline in t.pipeline is open or being closed, and it is being
\* closed only by a call that is in destroyAnyRunningPipeline.
PipelineInv ==
  /\ pipeline # NoPipeline => obj[pipeline] \in {"open", "stopping", "closing"}
  /\ \A p \in Pipeline :
       /\ obj[p] \in {"open", "stopping", "closing"} => p = pipeline
       /\ obj[p] \in {"stopping", "closing"} => \E c \in Client : pc[c] = "destroy"
  /\ \A c \in Client :
       /\ pc[c] \in Building => pipeline # NoPipeline
       /\ pc[c] \in {"create", "report", "unpublish"} => pipeline = NoPipeline

\* A pipeline that GStreamer was able to stop streams only between Start and
\* Close, with every handle valid, and a pipeline in NULL has no thread in a
\* callback.
Sound(p) ==
  /\ gst[p] = "null" => \A s \in Sink : thread[p][s] = "idle"
  /\ p \in stuck => obj[p] \in {"closing", "closed"}
  /\ obj[p] \in {"none", "abandoned"} => gst[p] = "null"
  /\ obj[p] = "none" => \A s \in Sink : handle[p][s] = "none"
  /\ obj[p] = "open" => \A s \in Sink : handle[p][s] # "deleted"
  /\ gst[p] # "null" /\ p \notin stuck =>
       /\ obj[p] \in {"open", "stopping"}
       /\ \A s \in Sink : handle[p][s] = "valid" /\ thread[p][s] # "panic"

\* A call of Tune starts its pipeline once, when every sink is connected.
Ready(c) ==
  /\ pc[c] \in {"pair", "connect", "start"} => gst[pipeline] = "null"
  /\ pc[c] = "start" => \A s \in Sink : handle[pipeline][s] = "valid"
  /\ pc[c] \in {"play", "publish"} => gst[pipeline] # "null"

StreamInv ==
  /\ \A p \in Pipeline : Sound(p)
  /\ \A c \in Client : Ready(c)

\* What Quiescent asks of the published values and the pipeline.
Agreed ==
  IF pipeline = NoPipeline THEN status.state = "Stopped"
  ELSE status.state = "Playing" /\ tracks = pipeline /\ gst[pipeline] # "null"

\* What a call is about to publish, or has published.
Telling(c) ==
  /\ pc[c] = "unlock" =>
       /\ Agreed
       /\ op[c] = "Stop" =>
            status = Stopped("none") /\ tracks = NoPipeline /\ pipeline = NoPipeline
       /\ op[c] = "Tune" /\ err[c] = "failed" =>
            status = Stopped("failed") /\ pipeline = NoPipeline
       /\ op[c] = "Tune" /\ err[c] = "none" =>
            status = Playing(arg[c]) /\ tracks = pipeline /\ pipeline # NoPipeline
  /\ pc[c] \in Building => tracks # pipeline
  /\ pc[c] = "publish" => status = Playing(arg[c])
  /\ pc[c] = "unpublish" => status = Stopped("none")

\* The published values follow the pipeline.  They agree when t.mu is free and
\* already when it is about to be, also after a call that changed nothing.
PublishInv ==
  /\ tracks # NoPipeline => obj[tracks] # "none"
  /\ tmu = NoClient => Agreed
  /\ \A c \in Client : Telling(c)

IInv == TypeOK /\ CallInv /\ PipelineInv /\ StreamInv /\ PublishInv

\* A table keeps its type when one entry is replaced, and changes nowhere else.
LEMMA TableUpdate ==
  ASSUME NEW A, NEW B, NEW V, NEW f \in [A -> [B -> V]],
         NEW a \in A, NEW b \in B, NEW v \in V
  PROVE  LET g == [f EXCEPT ![a][b] = v]
         IN  /\ g \in [A -> [B -> V]]
             /\ \A x \in A, y \in B :
                  g[x][y] = IF x = a /\ y = b THEN v ELSE f[x][y]
  OBVIOUS

\* While a call is past Lock every other one is before it.
LEMMA Alone ==
  ASSUME CallInv, NEW c \in Client, pc[c] \notin {"idle", "lock"},
         NEW d \in Client, d # c
  PROVE  pc[d] \in {"idle", "lock"}
  BY DEF CallInv

\* GStreamer takes no pipeline to NULL, or out of it, by itself.
LEMMA GstStepKeeps ==
  ASSUME GstTypeOK, GstStep, NEW p \in Pipeline
  PROVE  gst'[p] = "null" <=> gst[p] = "null"
<1>1. gst' = gst \/ \E q \in Pipeline : Preroll(q) \/ StreamError(q)
  BY DEF GstStep, SampleBegin, SampleStep, SampleValue, SampleEnd
<1> QED BY <1>1 DEF Preroll, StreamError, Streaming, GstTypeOK

\* The steps that change something of the pipelines.
LEMMA MovesPipelines ==
  ASSUME Next
  PROVE  \/ UNCHANGED gstVars
         \/ GstStep
         \/ \E c \in Client :
              \/ DestroyClose(c) \/ DestroyUnref(c) \/ DestroyStopFails(c)
              \/ TuneCreate(c) \/ TuneCreateFails(c)
              \/ TuneConnect(c) \/ TuneStart(c)
  BY DEF Next, HeldStep, Begin, CallTune, CallStop, Call, Lock, TuneStarting,
         DestroyNothing, TuneTrackPair, TunePlaying, TuneTracks, Report,
         StopTracks, Unlock

\* Types of the pipelines are preserved.
LEMMA GstTypeOKStep ==
  ASSUME IInv, Next
  PROVE GstTypeOK'
<1> USE TunerAssumption
    DEF IInv, TypeOK, GstTypeOK, Obj, GstState, gstVars, tunerVars
<1>1. CASE UNCHANGED gstVars
  BY <1>1
<1>2. ASSUME NEW c \in Client, DestroyClose(c) PROVE GstTypeOK'
  <2>1. pipeline \in Pipeline
    BY <1>2 DEF DestroyClose
  <2>2. CASE CloseBegin(pipeline) \/ CloseStopped(pipeline)
    BY <1>2, <2>1, <2>2 DEF CloseBegin, CloseStopped, Stop
  <2>3. ASSUME NEW s \in Sink, CloseHandle(pipeline, s) PROVE GstTypeOK'
    BY <2>1, <2>3, TableUpdate DEF CloseHandle
  <2> QED BY <1>2, <2>2, <2>3 DEF DestroyClose
<1>3. ASSUME NEW c \in Client, DestroyUnref(c) PROVE GstTypeOK'
  BY <1>3 DEF DestroyUnref, CloseUnref, AfterDestroy
<1>4. ASSUME NEW c \in Client, DestroyStopFails(c) PROVE GstTypeOK'
  BY <1>4 DEF DestroyStopFails, CloseStopFailed, StopFails
<1>5. ASSUME NEW c \in Client, TuneCreate(c) PROVE GstTypeOK'
  BY <1>5 DEF TuneCreate, NewPipeline
<1>6. ASSUME NEW c \in Client, TuneCreateFails(c) PROVE GstTypeOK'
  BY <1>6 DEF TuneCreateFails, NewPipelineFails, Fail
<1>7. ASSUME NEW c \in Client, TuneConnect(c) PROVE GstTypeOK'
  <2>1. PICK s \in Sink : SetSink(pipeline, s)
    BY <1>7 DEF TuneConnect
  <2>2. pipeline \in Pipeline
    BY <1>7 DEF TuneConnect, PipelineInv, Building
  <2> QED BY <2>1, <2>2, TableUpdate DEF SetSink
<1>8. ASSUME NEW c \in Client, TuneStart(c) PROVE GstTypeOK'
  <2>1. pipeline \in Pipeline
    BY <1>8 DEF TuneStart, PipelineInv, Building
  <2>2. PICK state \in GstState : /\ gst' = [gst EXCEPT ![pipeline] = state]
                               /\ UNCHANGED <<obj, handle, thread, stuck>>
    BY <1>8 DEF TuneStart, Start, StartFails
  <2> QED BY <2>1, <2>2
<1>9. ASSUME GstStep PROVE GstTypeOK'
  <2>1. ASSUME NEW p \in Pipeline, NEW s \in Sink,
               SampleBegin(p, s) \/ SampleStep(p, s)
        PROVE  GstTypeOK'
    <3>1. PICK state \in {"idle", "sample", "write", "panic"} :
            /\ thread' = [thread EXCEPT ![p][s] = state]
            /\ UNCHANGED <<obj, gst, handle, stuck>>
      BY <2>1 DEF SampleBegin, SampleStep, SampleValue, SampleEnd, ThreadTo
    <3> QED BY <3>1, TableUpdate
  <2>2. ASSUME NEW p \in Pipeline, Preroll(p) \/ StreamError(p)
        PROVE  GstTypeOK'
    BY <2>2 DEF Preroll, StreamError
  <2> QED BY <1>9, <2>1, <2>2 DEF GstStep
<1> QED BY <1>1, <1>2, <1>3, <1>4, <1>5, <1>6, <1>7, <1>8, <1>9, MovesPipelines

\* Types of the tuner are preserved.
LEMMA TypeOKStep ==
  ASSUME IInv, Next
  PROVE TypeOK'
<1> USE TunerAssumption
        DEF gstVars, tunerVars, Goto, Fail, IInv, TypeOK, State, Error,
        Stopped, Starting, Playing
<1>0. GstTypeOK'
  BY GstTypeOKStep
<1>1. ASSUME NEW c \in Client, Begin(c) PROVE TypeOK'
  <2>1. PICK o \in {"Tune", "Stop"}, ch \in Channel \union {Unknown, NoChannel} :
          Call(c, o, ch)
    BY <1>0, <1>1 DEF Begin, CallTune, CallStop
  <2> QED BY <1>0, <2>1 DEF Call
<1>2. ASSUME NEW c \in Client, Lock(c) PROVE TypeOK'
  BY <1>0, <1>2 DEF Lock, Acquire
<1>3. ASSUME NEW c \in Client, TuneStarting(c) PROVE TypeOK'
  BY <1>0, <1>3 DEF TuneStarting, CallInv, Tuning
<1>4. ASSUME NEW c \in Client, DestroyNothing(c) PROVE TypeOK'
  BY <1>0, <1>4 DEF DestroyNothing, AfterDestroy
<1>5. ASSUME NEW c \in Client, DestroyClose(c) PROVE TypeOK'
  BY <1>0, <1>5 DEF DestroyClose, CloseBegin, CloseStopped, Stop, CloseHandle
<1>6. ASSUME NEW c \in Client, DestroyUnref(c) PROVE TypeOK'
  BY <1>0, <1>6 DEF DestroyUnref, CloseUnref, AfterDestroy
<1>7. ASSUME NEW c \in Client, DestroyStopFails(c) PROVE TypeOK'
  BY <1>0, <1>7 DEF DestroyStopFails, CloseStopFailed, StopFails
<1>8. ASSUME NEW c \in Client, TuneCreate(c) PROVE TypeOK'
  BY <1>0, <1>8 DEF TuneCreate, NewPipeline
<1>9. ASSUME NEW c \in Client, TuneCreateFails(c) PROVE TypeOK'
  BY <1>0, <1>9 DEF TuneCreateFails, NewPipelineFails, Fail
<1>10. ASSUME NEW c \in Client, TuneTrackPair(c) PROVE TypeOK'
  BY <1>0, <1>10 DEF TuneTrackPair, Fail
<1>11. ASSUME NEW c \in Client, TuneConnect(c) PROVE TypeOK'
  BY <1>0, <1>11 DEF TuneConnect, SetSink
<1>12. ASSUME NEW c \in Client, TuneStart(c) PROVE TypeOK'
  BY <1>0, <1>12 DEF TuneStart, Start, StartFails, Fail
<1>13. ASSUME NEW c \in Client, TunePlaying(c) PROVE TypeOK'
  BY <1>0, <1>13 DEF TunePlaying, CallInv, Tuning
<1>14. ASSUME NEW c \in Client, TuneTracks(c) PROVE TypeOK'
  BY <1>0, <1>14 DEF TuneTracks
<1>15. ASSUME NEW c \in Client, Report(c) PROVE TypeOK'
  BY <1>0, <1>15 DEF Report
<1>16. ASSUME NEW c \in Client, StopTracks(c) PROVE TypeOK'
  BY <1>0, <1>16 DEF StopTracks
<1>17. ASSUME NEW c \in Client, Unlock(c) PROVE TypeOK'
  BY <1>0, <1>17 DEF Unlock
<1>18. ASSUME GstStep, UNCHANGED tunerVars PROVE TypeOK'
  BY <1>0, <1>18
     DEF GstStep, SampleBegin, SampleStep, SampleValue, SampleEnd, Preroll,
         StreamError, ThreadTo, Streaming
<1> QED BY <1>1, <1>2, <1>3, <1>4, <1>5, <1>6, <1>7, <1>8, <1>9, <1>10, <1>11,
       <1>12, <1>13, <1>14, <1>15, <1>16, <1>17, <1>18
   DEF Next, HeldStep

\* A call keeps t.mu from Lock to Unlock, and goes to places that fit it.
LEMMA CallInvStep ==
  ASSUME IInv, Next
  PROVE CallInv'
<1> USE TunerAssumption
    DEF gstVars, tunerVars, Goto, Fail, Tuning, Error, IInv, TypeOK, CallInv
<1>1. ASSUME NEW c \in Client, Begin(c) PROVE CallInv'
  <2>1. PICK o \in {"Tune", "Stop"}, ch \in Channel \union {Unknown, NoChannel} :
          /\ Call(c, o, ch)
          /\ o = "Stop" <=> ch = NoChannel
    BY <1>1 DEF Begin, CallTune, CallStop
  <2> QED BY <2>1 DEF Call
<1>2. ASSUME NEW c \in Client, Lock(c) PROVE CallInv'
  <2>1. CASE op[c] = "Stop"
    BY <1>2, <2>1 DEF Lock, Acquire
  <2>2. CASE op[c] # "Stop" /\ arg[c] \in Channel
    BY <1>2, <2>2 DEF Lock, Acquire
  <2>3. CASE op[c] # "Stop" /\ arg[c] \notin Channel
    <3>1. /\ pc' = [pc EXCEPT ![c] = "unlock"]
          /\ err' = [err EXCEPT ![c] = "unknown"]
          /\ op[c] = "Tune" /\ tmu = NoClient /\ tmu' = c
          /\ UNCHANGED <<op, arg>>
      BY <1>2, <2>3 DEF Lock, Acquire
    <3> QED BY <3>1
  <2> QED BY <2>1, <2>2, <2>3
<1>3. ASSUME NEW c \in Client, TuneStarting(c) PROVE CallInv'
  BY <1>3 DEF TuneStarting
<1>4. ASSUME NEW c \in Client, DestroyNothing(c) PROVE CallInv'
  <2>1. CASE op[c] = "Stop" \/ err[c] # "none"
    <3>1. /\ pc[c] = "destroy" /\ pc' = [pc EXCEPT ![c] = "report"]
          /\ UNCHANGED <<tmu, op, arg, err>>
      BY <1>4, <2>1 DEF DestroyNothing, AfterDestroy
    <3> QED BY <2>1, <3>1
  <2>2. CASE op[c] = "Tune" /\ err[c] = "none"
    <3>1. /\ pc[c] = "destroy" /\ pc' = [pc EXCEPT ![c] = "create"]
          /\ UNCHANGED <<tmu, op, arg, err>>
      BY <1>4, <2>2 DEF DestroyNothing, AfterDestroy
    <3> QED BY <2>2, <3>1
  <2> QED BY <2>1, <2>2
<1>5. ASSUME NEW c \in Client, DestroyClose(c) PROVE CallInv'
  BY <1>5 DEF DestroyClose, CloseBegin, CloseStopped, Stop, CloseHandle
<1>6. ASSUME NEW c \in Client, DestroyUnref(c) PROVE CallInv'
  <2>1. CASE op[c] = "Stop" \/ err[c] # "none"
    <3>1. /\ pc[c] = "destroy" /\ pc' = [pc EXCEPT ![c] = "report"]
          /\ UNCHANGED <<tmu, op, arg, err>>
      BY <1>6, <2>1 DEF DestroyUnref, AfterDestroy
    <3> QED BY <2>1, <3>1
  <2>2. CASE op[c] = "Tune" /\ err[c] = "none"
    <3>1. /\ pc[c] = "destroy" /\ pc' = [pc EXCEPT ![c] = "create"]
          /\ UNCHANGED <<tmu, op, arg, err>>
      BY <1>6, <2>2 DEF DestroyUnref, AfterDestroy
    <3> QED BY <2>2, <3>1
  <2> QED BY <2>1, <2>2
<1>7. ASSUME NEW c \in Client, DestroyStopFails(c) PROVE CallInv'
  BY <1>7 DEF DestroyStopFails, CloseStopFailed, StopFails
<1>8. ASSUME NEW c \in Client, TuneCreate(c) PROVE CallInv'
  BY <1>8 DEF TuneCreate, NewPipeline
<1>9. ASSUME NEW c \in Client, TuneCreateFails(c) PROVE CallInv'
  BY <1>9 DEF TuneCreateFails, NewPipelineFails, Fail
<1>10. ASSUME NEW c \in Client, TuneTrackPair(c) PROVE CallInv'
  <2>1. CASE Goto(c, "connect") /\ UNCHANGED err
    BY <1>10, <2>1 DEF TuneTrackPair
  <2>2. CASE Fail(c, "failed")
    BY <1>10, <2>2 DEF TuneTrackPair, Fail
  <2> QED BY <1>10, <2>1, <2>2 DEF TuneTrackPair
<1>11. ASSUME NEW c \in Client, TuneConnect(c) PROVE CallInv'
  <2>1. CASE UNCHANGED pc
    BY <1>11, <2>1 DEF TuneConnect
  <2>2. CASE Goto(c, "start")
    BY <1>11, <2>2 DEF TuneConnect
  <2> QED BY <1>11, <2>1, <2>2 DEF TuneConnect
<1>12. ASSUME NEW c \in Client, TuneStart(c) PROVE CallInv'
  <2>1. CASE Goto(c, "play") /\ UNCHANGED err
    BY <1>12, <2>1 DEF TuneStart
  <2>2. CASE Fail(c, "failed")
    BY <1>12, <2>2 DEF TuneStart, Fail
  <2> QED BY <1>12, <2>1, <2>2 DEF TuneStart
<1>13. ASSUME NEW c \in Client, TunePlaying(c) PROVE CallInv'
  BY <1>13 DEF TunePlaying
<1>14. ASSUME NEW c \in Client, TuneTracks(c) PROVE CallInv'
  BY <1>14 DEF TuneTracks
<1>15. ASSUME NEW c \in Client, Report(c) PROVE CallInv'
  BY <1>15 DEF Report
<1>16. ASSUME NEW c \in Client, StopTracks(c) PROVE CallInv'
  BY <1>16 DEF StopTracks
<1>17. ASSUME NEW c \in Client, Unlock(c) PROVE CallInv'
  BY <1>17 DEF Unlock
<1>18. ASSUME GstStep, UNCHANGED tunerVars PROVE CallInv'
  BY <1>18
     DEF GstStep, SampleBegin, SampleStep, SampleValue, SampleEnd, Preroll,
         StreamError, ThreadTo, Streaming
<1> QED BY <1>1, <1>2, <1>3, <1>4, <1>5, <1>6, <1>7, <1>8, <1>9, <1>10, <1>11,
       <1>12, <1>13, <1>14, <1>15, <1>16, <1>17, <1>18
   DEF Next, HeldStep

\* The pipeline in t.pipeline stays the one that is open.
LEMMA PipelineInvStep ==
  ASSUME IInv, Next
  PROVE PipelineInv'
<1> USE TunerAssumption
        DEF gstVars, tunerVars, Goto, Fail, Building, IInv, TypeOK, GstTypeOK,
        PipelineInv, CallInv
<1>1. ASSUME NEW c \in Client, Begin(c) PROVE PipelineInv'
  <2>1. pc[c] = "idle" /\ pc' = [pc EXCEPT ![c] = "lock"]
    BY <1>1 DEF Begin, CallTune, CallStop, Call
  <2>2. UNCHANGED <<obj, pipeline>>
    BY <1>1 DEF Begin, CallTune, CallStop, Call
  <2>3. \A d \in Client : pc[d] = "destroy" => pc'[d] = "destroy"
    BY <2>1
  <2> QED BY <2>1, <2>2, <2>3
<1>2. ASSUME NEW c \in Client, Lock(c) PROVE PipelineInv'
  BY <1>2 DEF Lock, Acquire
<1>3. ASSUME NEW c \in Client, TuneStarting(c) PROVE PipelineInv'
  BY <1>3 DEF TuneStarting
<1>4. ASSUME NEW c \in Client, DestroyNothing(c) PROVE PipelineInv'
  BY <1>4 DEF DestroyNothing, AfterDestroy
<1>5. ASSUME NEW c \in Client, DestroyClose(c) PROVE PipelineInv'
  BY <1>5 DEF DestroyClose, CloseBegin, CloseStopped, Stop, CloseHandle
<1>6. ASSUME NEW c \in Client, DestroyUnref(c) PROVE PipelineInv'
  <2>1. /\ pipeline \in Pipeline /\ pipeline' = NoPipeline
        /\ obj' = [obj EXCEPT ![pipeline] = "closed"]
    BY <1>6 DEF DestroyUnref, CloseUnref
  <2>2. \A p \in Pipeline : obj'[p] \notin {"open", "stopping", "closing"}
    BY <2>1
  <2>3. pc'[c] \in {"report", "create"} /\ \A d \in Client \ {c} : pc'[d] \in {"idle", "lock"}
    BY <1>6 DEF DestroyUnref, AfterDestroy
  <2> QED BY <2>1, <2>2, <2>3
<1>7. ASSUME NEW c \in Client, DestroyStopFails(c) PROVE PipelineInv'
  BY <1>7 DEF DestroyStopFails, CloseStopFailed, StopFails
<1>8. ASSUME NEW c \in Client, TuneCreate(c) PROVE PipelineInv'
  <2>1. PICK p \in Pipeline : NewPipeline(p) /\ pipeline' = p
    BY <1>8 DEF TuneCreate
  <2>2. pipeline = NoPipeline /\ obj' = [obj EXCEPT ![p] = "open"]
    BY <1>8, <2>1 DEF TuneCreate, NewPipeline
  <2>3. \A q \in Pipeline : obj'[q] \in {"open", "stopping", "closing"} => q = p
    BY <2>2
  <2>4. pc'[c] = "pair" /\ \A d \in Client \ {c} : pc'[d] \in {"idle", "lock"}
    BY <1>8 DEF TuneCreate
  <2> QED BY <2>1, <2>2, <2>3, <2>4
<1>9. ASSUME NEW c \in Client, TuneCreateFails(c) PROVE PipelineInv'
  BY <1>9 DEF TuneCreateFails, NewPipelineFails, Fail
<1>10. ASSUME NEW c \in Client, TuneTrackPair(c) PROVE PipelineInv'
  BY <1>10 DEF TuneTrackPair, Fail
<1>11. ASSUME NEW c \in Client, TuneConnect(c) PROVE PipelineInv'
  <2>1. UNCHANGED <<obj, pipeline>>
    BY <1>11 DEF TuneConnect, SetSink
  <2>2. /\ pc[c] = "connect" /\ pc'[c] \in {"connect", "start"}
        /\ \A d \in Client \ {c} : pc'[d] = pc[d]
    BY <1>11 DEF TuneConnect
  <2> QED BY <2>1, <2>2
<1>12. ASSUME NEW c \in Client, TuneStart(c) PROVE PipelineInv'
  BY <1>12 DEF TuneStart, Start, StartFails, Fail
<1>13. ASSUME NEW c \in Client, TunePlaying(c) PROVE PipelineInv'
  BY <1>13 DEF TunePlaying
<1>14. ASSUME NEW c \in Client, TuneTracks(c) PROVE PipelineInv'
  BY <1>14 DEF TuneTracks
<1>15. ASSUME NEW c \in Client, Report(c) PROVE PipelineInv'
  BY <1>15 DEF Report
<1>16. ASSUME NEW c \in Client, StopTracks(c) PROVE PipelineInv'
  BY <1>16 DEF StopTracks
<1>17. ASSUME NEW c \in Client, Unlock(c) PROVE PipelineInv'
  BY <1>17 DEF Unlock
<1>18. ASSUME GstStep, UNCHANGED tunerVars PROVE PipelineInv'
  BY <1>18
     DEF GstStep, SampleBegin, SampleStep, SampleValue, SampleEnd, Preroll,
         StreamError, ThreadTo, Streaming
<1> QED BY <1>1, <1>2, <1>3, <1>4, <1>5, <1>6, <1>7, <1>8, <1>9, <1>10, <1>11,
       <1>12, <1>13, <1>14, <1>15, <1>16, <1>17, <1>18
   DEF Next, HeldStep

\* A step of any part of the system leaves every pipeline sound.
LEMMA SoundStep ==
  ASSUME IInv, Next, NEW p \in Pipeline
  PROVE Sound(p)'
<1> USE TunerAssumption
    DEF IInv, TypeOK, GstTypeOK, gstVars, tunerVars, StreamInv, Sound
<1>1. CASE UNCHANGED gstVars
  BY <1>1
<1>2. ASSUME NEW c \in Client, DestroyClose(c) PROVE Sound(p)'
  <2>1. pipeline \in Pipeline
    BY <1>2 DEF DestroyClose
  <2>2. CASE CloseBegin(pipeline)
    BY <2>1, <2>2 DEF CloseBegin
  <2>3. CASE CloseStopped(pipeline)
    BY <2>1, <2>3 DEF CloseStopped, Stop
  <2>4. ASSUME NEW s \in Sink, CloseHandle(pipeline, s) PROVE Sound(p)'
    <3>1. obj[pipeline] = "closing" /\ UNCHANGED <<obj, gst, thread, stuck>>
      BY <2>4 DEF CloseHandle
    <3>2. CASE p = pipeline
      BY <3>1, <3>2
    <3>3. CASE p # pipeline
      <4>1. \A r \in Sink : handle'[p][r] = handle[p][r]
        BY <2>1, <2>4, <3>3, TableUpdate DEF CloseHandle
      <4> QED BY <3>1, <4>1
    <3> QED BY <3>2, <3>3
  <2> QED BY <1>2, <2>2, <2>3, <2>4 DEF DestroyClose
<1>3. ASSUME NEW c \in Client, DestroyUnref(c) PROVE Sound(p)'
  BY <1>3 DEF DestroyUnref, CloseUnref
<1>4. ASSUME NEW c \in Client, DestroyStopFails(c) PROVE Sound(p)'
  BY <1>4 DEF DestroyStopFails, CloseStopFailed, StopFails
<1>5. ASSUME NEW c \in Client, TuneCreate(c) PROVE Sound(p)'
  <2>1. PICK q \in Pipeline : NewPipeline(q)
    BY <1>5 DEF TuneCreate
  <2> QED BY <2>1 DEF NewPipeline
<1>6. ASSUME NEW c \in Client, TuneCreateFails(c) PROVE Sound(p)'
  BY <1>6 DEF TuneCreateFails, NewPipelineFails
<1>7. ASSUME NEW c \in Client, TuneConnect(c) PROVE Sound(p)'
  <2>1. PICK s \in Sink : SetSink(pipeline, s)
    BY <1>7 DEF TuneConnect
  <2>2. pipeline \in Pipeline /\ gst[pipeline] = "null" /\ obj[pipeline] = "open"
    BY <1>7, <2>1 DEF TuneConnect, SetSink, PipelineInv, Building, Ready
  <2>3. \A r \in Sink : handle'[p][r] =
          IF p = pipeline /\ r = s THEN "valid" ELSE handle[p][r]
    BY <2>1, <2>2, TableUpdate DEF SetSink
  <2> QED BY <2>1, <2>2, <2>3 DEF SetSink
<1>8. ASSUME NEW c \in Client, TuneStart(c) PROVE Sound(p)'
  <2>1. /\ pipeline \in Pipeline /\ gst[pipeline] = "null"
        /\ obj[pipeline] = "open"
        /\ \A s \in Sink : handle[pipeline][s] = "valid"
    <3>1. pc[c] = "start" /\ pipeline \in Pipeline
      BY <1>8 DEF TuneStart, PipelineInv, Building
    <3>2. \A d \in Client : pc[d] # "destroy"
      <4>1. \A d \in Client : d # c => pc[d] \in {"idle", "lock"}
        BY <3>1, Alone
      <4> QED BY <3>1, <4>1
    <3> QED BY <3>1, <3>2 DEF PipelineInv, Ready
  <2>2. PICK state \in GstState \ {"null"} :
          /\ gst' = [gst EXCEPT ![pipeline] = state]
          /\ UNCHANGED <<obj, handle, thread, stuck>>
    BY <1>8 DEF TuneStart, Start, StartFails, GstState
  <2> QED BY <2>1, <2>2
<1>9. ASSUME NEW q \in Pipeline, NEW s \in Sink,
             SampleBegin(q, s) \/ SampleStep(q, s)
      PROVE  Sound(p)'
  <2>1. UNCHANGED <<obj, gst, handle, stuck>>
    BY <1>9 DEF SampleBegin, SampleStep, SampleValue, SampleEnd
  <2>2. PICK state \in {"idle", "sample", "write", "panic"} :
          thread' = [thread EXCEPT ![q][s] = state]
    BY <1>9 DEF SampleBegin, SampleStep, SampleValue, SampleEnd, ThreadTo
  <2>3. gst[q] # "null" /\ (state = "panic" => handle[q][s] # "valid")
    <3>1. thread'[q][s] = state
      BY <2>2, TableUpdate
    <3> QED BY <1>9, <3>1, TableUpdate
        DEF SampleBegin, SampleStep, SampleValue, SampleEnd, ThreadTo, Streaming
  <2>4. \A r \in Sink : thread'[p][r] =
          IF p = q /\ r = s THEN state ELSE thread[p][r]
    BY <2>2, TableUpdate
  <2> QED BY <2>1, <2>3, <2>4
<1>10. ASSUME NEW q \in Pipeline, Preroll(q) \/ StreamError(q) PROVE Sound(p)'
  BY <1>10 DEF Preroll, StreamError, Streaming
<1> QED BY <1>1, <1>2, <1>3, <1>4, <1>5, <1>6, <1>7, <1>8, <1>9, <1>10,
    MovesPipelines
    DEF GstStep

\* Tune starts its pipeline when both sinks are connected.
LEMMA ReadyStep ==
  ASSUME IInv, Next
  PROVE \A d \in Client : Ready(d)'
<1> USE TunerAssumption
    DEF gstVars, tunerVars, Goto, Fail, Building, IInv, StreamInv, Ready
<1>1. ASSUME NEW c \in Client, Begin(c) PROVE \A d \in Client : Ready(d)'
  <2>1. pc' = [pc EXCEPT ![c] = "lock"] /\ UNCHANGED <<gstVars, pipeline>>
    BY <1>1 DEF Begin, CallTune, CallStop, Call
  <2> QED BY <2>1 DEF TypeOK
<1>2. ASSUME NEW c \in Client, Lock(c) PROVE \A d \in Client : Ready(d)'
  <2>1. /\ pc'[c] \in {"destroy", "starting", "unlock"}
        /\ \A d \in Client \ {c} : pc'[d] = pc[d]
    BY <1>2 DEF Lock, TypeOK
  <2>2. UNCHANGED <<gstVars, pipeline>>
    BY <1>2 DEF Lock, TypeOK
  <2> QED BY <2>1, <2>2
<1>3. ASSUME NEW c \in Client, TuneStarting(c) PROVE \A d \in Client : Ready(d)'
  BY <1>3 DEF TuneStarting, TypeOK
<1>4. ASSUME NEW c \in Client, DestroyNothing(c) PROVE \A d \in Client : Ready(d)'
  <2>1. /\ pc'[c] \in {"report", "create"}
        /\ \A d \in Client \ {c} : pc'[d] = pc[d]
    BY <1>4 DEF DestroyNothing, AfterDestroy, TypeOK
  <2>2. UNCHANGED <<gstVars, pipeline>>
    BY <1>4 DEF DestroyNothing
  <2> QED BY <2>1, <2>2
<1>5. ASSUME NEW c \in Client, DestroyClose(c) PROVE \A d \in Client : Ready(d)'
  BY <1>5, Alone DEF DestroyClose
<1>6. ASSUME NEW c \in Client, DestroyUnref(c) PROVE \A d \in Client : Ready(d)'
  <2>1. /\ pc'[c] \in {"report", "create"}
        /\ \A d \in Client \ {c} : pc[d] \in {"idle", "lock"} /\ pc'[d] = pc[d]
    BY <1>6, Alone DEF DestroyUnref, AfterDestroy, TypeOK
  <2> QED BY <2>1
<1>7. ASSUME NEW c \in Client, DestroyStopFails(c) PROVE \A d \in Client : Ready(d)'
  BY <1>7, Alone DEF DestroyStopFails
<1>8. ASSUME NEW c \in Client, TuneCreate(c) PROVE \A d \in Client : Ready(d)'
  <2>1. PICK p \in Pipeline : NewPipeline(p) /\ pipeline' = p
    BY <1>8 DEF TuneCreate
  <2>2. gst'[p] = "null"
    BY <2>1 DEF NewPipeline, Sound
  <2>3. pc'[c] = "pair" /\ \A d \in Client \ {c} : pc'[d] \in {"idle", "lock"}
    BY <1>8, Alone DEF TuneCreate, TypeOK
  <2> QED BY <2>1, <2>2, <2>3
<1>9. ASSUME NEW c \in Client, TuneCreateFails(c) PROVE \A d \in Client : Ready(d)'
  BY <1>9, Alone DEF TuneCreateFails, TypeOK
<1>10. ASSUME NEW c \in Client, TuneTrackPair(c) PROVE \A d \in Client : Ready(d)'
  <2>1. /\ pc'[c] \in {"connect", "destroy"}
        /\ \A d \in Client \ {c} : pc'[d] \in {"idle", "lock"}
    BY <1>10, Alone DEF TuneTrackPair, TypeOK
  <2>2. pc[c] = "pair" /\ UNCHANGED <<gstVars, pipeline>>
    BY <1>10 DEF TuneTrackPair
  <2> QED BY <2>1, <2>2
<1>11. ASSUME NEW c \in Client, TuneConnect(c) PROVE \A d \in Client : Ready(d)'
  <2>1. PICK s \in Sink :
          /\ SetSink(pipeline, s)
          /\ IF \A r \in Sink \ {s} : handle[pipeline][r] # "none"
             THEN Goto(c, "start") ELSE UNCHANGED pc
    BY <1>11 DEF TuneConnect
  <2>2. pipeline \in Pipeline /\ gst[pipeline] = "null" /\ obj[pipeline] = "open"
    BY <1>11, <2>1 DEF TuneConnect, SetSink, TypeOK, PipelineInv
  <2>3. \A d \in Client \ {c} : pc'[d] \in {"idle", "lock"}
    <3>1. \A d \in Client \ {c} : pc[d] \in {"idle", "lock"}
      BY <1>11, Alone DEF TuneConnect
    <3> QED BY <2>1, <3>1 DEF TypeOK
  <2>4. UNCHANGED <<gst, pipeline>>
    BY <1>11 DEF TuneConnect, SetSink
  <2>5. \A r \in Sink : handle'[pipeline][r] =
          IF r = s THEN "valid" ELSE handle[pipeline][r]
    <3>1. handle' = [handle EXCEPT ![pipeline][s] = "valid"]
      BY <2>1 DEF SetSink
    <3> QED BY <2>2, <3>1, TableUpdate DEF TypeOK, GstTypeOK
  <2>6. CASE \A r \in Sink \ {s} : handle[pipeline][r] # "none"
    <3>1. \A r \in Sink : handle'[pipeline][r] = "valid"
      <4>1. \A r \in Sink : handle[pipeline][r] \in {"none", "valid"}
        BY <2>2 DEF Sound, TypeOK, GstTypeOK
      <4> QED BY <2>5, <2>6, <4>1
    <3>2. pc'[c] = "start"
      BY <2>1, <2>6 DEF TypeOK
    <3> QED BY <2>2, <2>3, <2>4, <3>1, <3>2
  <2>7. CASE pc' = pc
    <3>1. pc'[c] = "connect"
      BY <1>11, <2>7 DEF TuneConnect
    <3> QED BY <2>2, <2>3, <2>4, <3>1
  <2> QED BY <2>1, <2>6, <2>7
<1>12. ASSUME NEW c \in Client, TuneStart(c) PROVE \A d \in Client : Ready(d)'
  <2>1. pipeline \in Pipeline
    BY <1>12 DEF TuneStart, TypeOK, PipelineInv
  <2>2. PICK state \in {"async", "playing", "failed"} :
          gst' = [gst EXCEPT ![pipeline] = state]
    BY <1>12 DEF TuneStart, Start, StartFails
  <2>3. /\ pc'[c] \in {"play", "destroy"} /\ UNCHANGED pipeline
        /\ \A d \in Client \ {c} : pc[d] \in {"idle", "lock"} /\ pc'[d] = pc[d]
    BY <1>12, Alone DEF TuneStart, TypeOK
  <2> QED BY <2>1, <2>2, <2>3 DEF TypeOK, GstTypeOK
<1>13. ASSUME NEW c \in Client, TunePlaying(c) PROVE \A d \in Client : Ready(d)'
  BY <1>13 DEF TunePlaying, TypeOK
<1>14. ASSUME NEW c \in Client, TuneTracks(c) PROVE \A d \in Client : Ready(d)'
  BY <1>14 DEF TuneTracks, TypeOK
<1>15. ASSUME NEW c \in Client, Report(c) PROVE \A d \in Client : Ready(d)'
  BY <1>15 DEF Report, TypeOK
<1>16. ASSUME NEW c \in Client, StopTracks(c) PROVE \A d \in Client : Ready(d)'
  BY <1>16 DEF StopTracks, TypeOK
<1>17. ASSUME NEW c \in Client, Unlock(c) PROVE \A d \in Client : Ready(d)'
  BY <1>17 DEF Unlock, TypeOK
<1>18. ASSUME GstStep, UNCHANGED tunerVars PROVE \A d \in Client : Ready(d)'
  <2>1. UNCHANGED <<handle, pipeline, pc>>
    BY <1>18 DEF GstStep, SampleBegin, SampleStep, SampleValue, SampleEnd, Preroll,
             StreamError
  <2>2. \A p \in Pipeline : gst'[p] = "null" <=> gst[p] = "null"
    BY <1>18, GstStepKeeps DEF TypeOK
  <2>3. \A d \in Client : pc[d] \in Building => pipeline \in Pipeline
    BY DEF PipelineInv, TypeOK
  <2> QED BY <2>1, <2>2, <2>3
<1> QED BY <1>1, <1>2, <1>3, <1>4, <1>5, <1>6, <1>7, <1>8, <1>9, <1>10, <1>11,
       <1>12, <1>13, <1>14, <1>15, <1>16, <1>17, <1>18
   DEF Next, HeldStep

\* What is read of the pipelines in StreamInv stays true.
LEMMA StreamInvStep ==
  ASSUME IInv, Next
  PROVE StreamInv'
BY SoundStep, ReadyStep DEF StreamInv

\* An identity that was used is never fresh again, so published tracks are
\* those of a pipeline that was created.
LEMMA TracksStep ==
  ASSUME IInv, Next
  PROVE tracks' # NoPipeline => obj'[tracks'] # "none"
<1> USE TunerAssumption DEF IInv, TypeOK, gstVars, tunerVars, PublishInv
<1>1. \A p \in Pipeline : obj[p] # "none" => obj'[p] # "none"
  <2>1. \/ obj' = obj
        \/ \E p \in Pipeline, o \in Obj \ {"none"} : obj' = [obj EXCEPT ![p] = o]
    <3>1. ASSUME NEW c \in Client, DestroyClose(c) \/ DestroyUnref(c) \/ DestroyStopFails(c)
          PROVE  \/ obj' = obj
                 \/ \E p \in Pipeline, o \in Obj \ {"none"} : obj' = [obj EXCEPT ![p] = o]
      BY <3>1 DEF DestroyClose, DestroyUnref, DestroyStopFails, CloseBegin,
                  CloseStopped, CloseStopFailed, CloseHandle, CloseUnref, Obj
    <3>2. ASSUME NEW c \in Client, TuneCreate(c) \/ TuneCreateFails(c)
          PROVE  \/ obj' = obj
                 \/ \E p \in Pipeline, o \in Obj \ {"none"} : obj' = [obj EXCEPT ![p] = o]
      BY <3>2 DEF TuneCreate, TuneCreateFails, NewPipeline, NewPipelineFails, Obj
    <3>3. ASSUME NEW c \in Client, TuneConnect(c) \/ TuneStart(c)
          PROVE  obj' = obj
      BY <3>3 DEF TuneConnect, TuneStart, SetSink, Start, StartFails
    <3>4. ASSUME GstStep PROVE obj' = obj
      BY <3>4 DEF GstStep, SampleBegin, SampleStep, SampleValue, SampleEnd,
                  Preroll, StreamError
    <3> QED BY <3>1, <3>2, <3>3, <3>4, MovesPipelines
  <2> QED BY <2>1 DEF GstTypeOK
<1>2. CASE tracks' = tracks
  BY <1>1, <1>2
<1>3. ASSUME NEW c \in Client, TuneTracks(c)
      PROVE  tracks' # NoPipeline => obj'[tracks'] # "none"
  BY <1>3 DEF TuneTracks, PipelineInv
<1>4. ASSUME NEW c \in Client, StopTracks(c) PROVE tracks' = NoPipeline
  BY <1>4 DEF StopTracks
<1>5. \/ tracks' = tracks
      \/ \E c \in Client : TuneTracks(c) \/ StopTracks(c)
  BY DEF Next, HeldStep, Begin, CallTune, CallStop, Call, Lock, TuneStarting,
         DestroyNothing, DestroyClose, DestroyUnref, DestroyStopFails,
         TuneCreate, TuneCreateFails, TuneTrackPair, TuneConnect, TuneStart,
         TunePlaying, Report, Unlock
<1> QED BY <1>2, <1>3, <1>4, <1>5

\* A call that is about to return has told the watchers what it returns.
LEMMA TellingStep ==
  ASSUME IInv, Next
  PROVE \A d \in Client : Telling(d)'
<1> USE TunerAssumption
    DEF gstVars, tunerVars, Goto, Fail, Building, IInv, PublishInv, Telling, Agreed
<1>1. ASSUME NEW c \in Client, Begin(c) PROVE \A d \in Client : Telling(d)'
  <2>1. pc' = [pc EXCEPT ![c] = "lock"]
    BY <1>1 DEF Begin, CallTune, CallStop, Call
  <2>2. UNCHANGED <<gstVars, pipeline, status, tracks>>
    BY <1>1 DEF Begin, CallTune, CallStop, Call
  <2>3. \A d \in Client \ {c} : op'[d] = op[d] /\ arg'[d] = arg[d] /\ err'[d] = err[d]
    BY <1>1 DEF Begin, CallTune, CallStop, Call, TypeOK
  <2> QED BY <2>1, <2>2, <2>3 DEF TypeOK
<1>2. ASSUME NEW c \in Client, Lock(c) PROVE \A d \in Client : Telling(d)'
  <2>1. UNCHANGED <<gstVars, pipeline, status, tracks, op, arg>>
    BY <1>2 DEF Lock
  <2>2. \A d \in Client \ {c} : pc'[d] = pc[d] /\ err'[d] = err[d]
    BY <1>2 DEF Lock, TypeOK
  <2>3. /\ tmu = NoClient
        /\ \/ pc'[c] \in {"destroy", "starting"}
           \/ pc'[c] = "unlock" /\ op[c] = "Tune" /\ err'[c] = "unknown"
    BY <1>2 DEF Lock, Acquire, TypeOK
  <2> QED BY <2>1, <2>2, <2>3
<1>3. ASSUME NEW c \in Client, TuneStarting(c) PROVE \A d \in Client : Telling(d)'
  <2>1. pc'[c] = "destroy" /\ \A d \in Client \ {c} : pc'[d] \in {"idle", "lock"}
    BY <1>3, Alone DEF TuneStarting, TypeOK
  <2> QED BY <2>1
<1>4. ASSUME NEW c \in Client, DestroyNothing(c) PROVE \A d \in Client : Telling(d)'
  <2>1. /\ pc'[c] \in {"report", "create"}
        /\ \A d \in Client \ {c} : pc'[d] \in {"idle", "lock"}
    BY <1>4, Alone DEF DestroyNothing, AfterDestroy, TypeOK
  <2> QED BY <2>1
<1>5. ASSUME NEW c \in Client, DestroyClose(c) PROVE \A d \in Client : Telling(d)'
  <2>1. pc'[c] = "destroy" /\ \A d \in Client \ {c} : pc'[d] \in {"idle", "lock"}
    BY <1>5, Alone DEF DestroyClose
  <2> QED BY <2>1
<1>6. ASSUME NEW c \in Client, DestroyUnref(c) PROVE \A d \in Client : Telling(d)'
  <2>1. /\ pc'[c] \in {"report", "create"}
        /\ \A d \in Client \ {c} : pc'[d] \in {"idle", "lock"}
    BY <1>6, Alone DEF DestroyUnref, AfterDestroy, TypeOK
  <2> QED BY <2>1
<1>7. ASSUME NEW c \in Client, DestroyStopFails(c) PROVE \A d \in Client : Telling(d)'
  <2>1. pc'[c] = "destroy" /\ \A d \in Client \ {c} : pc'[d] \in {"idle", "lock"}
    BY <1>7, Alone DEF DestroyStopFails
  <2> QED BY <2>1
<1>8. ASSUME NEW c \in Client, TuneCreate(c) PROVE \A d \in Client : Telling(d)'
  <2>1. pc'[c] = "pair" /\ \A d \in Client \ {c} : pc'[d] \in {"idle", "lock"}
    BY <1>8, Alone DEF TuneCreate, TypeOK
  <2>2. PICK p \in Pipeline : obj[p] = "none" /\ pipeline' = p
    BY <1>8 DEF TuneCreate, NewPipeline
  <2>3. tracks' # pipeline'
    BY <1>8, <2>2, TunerAssumption DEF TuneCreate
  <2> QED BY <2>1, <2>3
<1>9. ASSUME NEW c \in Client, TuneCreateFails(c) PROVE \A d \in Client : Telling(d)'
  <2>1. pc'[c] = "destroy" /\ \A d \in Client \ {c} : pc'[d] \in {"idle", "lock"}
    BY <1>9, Alone DEF TuneCreateFails, TypeOK
  <2> QED BY <2>1
<1>10. ASSUME NEW c \in Client, TuneTrackPair(c) PROVE \A d \in Client : Telling(d)'
  <2>1. /\ pc[c] = "pair" /\ pc'[c] \in {"connect", "destroy"}
        /\ \A d \in Client \ {c} : pc'[d] \in {"idle", "lock"}
    BY <1>10, Alone DEF TuneTrackPair, TypeOK
  <2> QED BY <1>10, <2>1 DEF TuneTrackPair
<1>11. ASSUME NEW c \in Client, TuneConnect(c) PROVE \A d \in Client : Telling(d)'
  <2>1. /\ pc[c] = "connect" /\ pc'[c] \in {"connect", "start"}
        /\ \A d \in Client \ {c} : pc'[d] \in {"idle", "lock"}
    BY <1>11, Alone DEF TuneConnect, TypeOK
  <2> QED BY <1>11, <2>1 DEF TuneConnect
<1>12. ASSUME NEW c \in Client, TuneStart(c) PROVE \A d \in Client : Telling(d)'
  <2>1. /\ pc[c] = "start" /\ pc'[c] \in {"play", "destroy"}
        /\ \A d \in Client \ {c} : pc'[d] \in {"idle", "lock"}
    BY <1>12, Alone DEF TuneStart, TypeOK
  <2> QED BY <1>12, <2>1 DEF TuneStart
<1>13. ASSUME NEW c \in Client, TunePlaying(c) PROVE \A d \in Client : Telling(d)'
  <2>1. /\ pc[c] = "play" /\ pc'[c] = "publish"
        /\ \A d \in Client \ {c} : pc'[d] \in {"idle", "lock"}
    BY <1>13, Alone DEF TunePlaying, TypeOK
  <2> QED BY <1>13, <2>1 DEF TunePlaying
<1>14. ASSUME NEW c \in Client, TuneTracks(c) PROVE \A d \in Client : Telling(d)'
  <2>1. /\ pc[c] = "publish" /\ pc'[c] = "unlock"
        /\ \A d \in Client \ {c} : pc'[d] \in {"idle", "lock"}
    BY <1>14, Alone DEF TuneTracks, TypeOK
  <2>2. op[c] = "Tune" /\ err[c] = "none" /\ status = Playing(arg[c])
    BY <2>1 DEF CallInv, Tuning
  <2>3. pipeline # NoPipeline /\ gst[pipeline] # "null"
    BY <2>1 DEF PipelineInv, StreamInv, Ready
  <2> QED BY <1>14, <2>1, <2>2, <2>3 DEF TuneTracks, Playing
<1>15. ASSUME NEW c \in Client, Report(c) PROVE \A d \in Client : Telling(d)'
  <2>1. /\ pc[c] = "report" /\ pipeline = NoPipeline
        /\ \A d \in Client \ {c} : pc'[d] \in {"idle", "lock"}
        /\ status' = Stopped(err[c])
        /\ UNCHANGED <<gstVars, pipeline, tracks, op, arg, err>>
    BY <1>15, Alone DEF Report, TypeOK, PipelineInv
  <2>2. CASE op[c] = "Stop"
    <3>1. pc'[c] = "unpublish" /\ err[c] = "none"
      BY <1>15, <2>1, <2>2 DEF Report, TypeOK, CallInv
    <3> QED BY <2>1, <3>1
  <2>3. CASE op[c] = "Tune"
    <3>1. pc'[c] = "unlock" /\ err[c] = "failed"
      BY <1>15, <2>1, <2>3 DEF Report, TypeOK, CallInv
    <3> QED BY <2>1, <2>3, <3>1 DEF Stopped
  <2> QED BY <2>2, <2>3 DEF TypeOK
<1>16. ASSUME NEW c \in Client, StopTracks(c) PROVE \A d \in Client : Telling(d)'
  <2>1. /\ pc[c] = "unpublish" /\ pc'[c] = "unlock"
        /\ \A d \in Client \ {c} : pc'[d] \in {"idle", "lock"}
    BY <1>16, Alone DEF StopTracks, TypeOK
  <2>2. op[c] = "Stop" /\ pipeline = NoPipeline /\ status = Stopped("none")
    BY <2>1 DEF CallInv, PipelineInv
  <2> QED BY <1>16, <2>1, <2>2 DEF StopTracks, Stopped
<1>17. ASSUME NEW c \in Client, Unlock(c) PROVE \A d \in Client : Telling(d)'
  <2>1. pc'[c] = "idle" /\ \A d \in Client \ {c} : pc'[d] \in {"idle", "lock"}
    BY <1>17, Alone DEF Unlock, TypeOK
  <2> QED BY <2>1
<1>18. ASSUME GstStep, UNCHANGED tunerVars PROVE \A d \in Client : Telling(d)'
  <2>1. pipeline # NoPipeline /\ gst[pipeline] # "null" => gst'[pipeline] # "null"
    BY <1>18, GstStepKeeps DEF TypeOK
  <2> QED BY <1>18, <2>1
<1> QED BY <1>1, <1>2, <1>3, <1>4, <1>5, <1>6, <1>7, <1>8, <1>9, <1>10, <1>11,
       <1>12, <1>13, <1>14, <1>15, <1>16, <1>17, <1>18
   DEF Next, HeldStep

\* The published values agree with the pipeline whenever t.mu is unlocked.
LEMMA PublishInvStep ==
  ASSUME IInv, Next
  PROVE PublishInv'
<1> USE TunerAssumption DEF IInv, TypeOK, gstVars, tunerVars
<1>1. tmu' = NoClient => Agreed'
  <2> SUFFICES ASSUME tmu' = NoClient PROVE Agreed'
    OBVIOUS
  <2>1. \/ /\ tmu = NoClient
           /\ UNCHANGED <<pipeline, status, tracks>>
           /\ UNCHANGED gstVars \/ GstStep
        \/ \E c \in Client : Unlock(c)
    <3>1. ASSUME NEW c \in Client, HeldStep(c) \/ DestroyStopFails(c), ~Unlock(c)
          PROVE  tmu' = c
      <4>1. tmu' = tmu
        BY <3>1 DEF HeldStep, DestroyStopFails, TuneStarting, DestroyNothing,
             DestroyClose, DestroyUnref, TuneCreate, TuneCreateFails,
             TuneTrackPair, TuneConnect, TuneStart, TunePlaying, TuneTracks,
             Report, StopTracks
      <4>2. pc[c] \notin {"idle", "lock"}
        BY <3>1 DEF HeldStep, DestroyStopFails, TuneStarting, DestroyNothing,
             DestroyClose, DestroyUnref, TuneCreate, TuneCreateFails,
             TuneTrackPair, TuneConnect, TuneStart, TunePlaying, TuneTracks,
             Report, StopTracks
      <4> QED BY <4>1, <4>2 DEF CallInv
    <3>2. ASSUME NEW c \in Client, Begin(c)
          PROVE  tmu' = tmu /\ UNCHANGED <<pipeline, status, tracks, gstVars>>
      BY <3>2 DEF Begin, CallTune, CallStop, Call
    <3>3. ASSUME NEW c \in Client, Lock(c) PROVE tmu' = c
      BY <3>3 DEF Lock, Acquire
    <3> QED BY <3>1, <3>2, <3>3 DEF Next
  <2>2. CASE tmu = NoClient /\ UNCHANGED <<pipeline, status, tracks, gstVars>>
    BY <2>2 DEF PublishInv, Agreed
  <2>3. CASE tmu = NoClient /\ UNCHANGED <<pipeline, status, tracks>> /\ GstStep
    BY <2>3, GstStepKeeps DEF PublishInv, Agreed
  <2>4. ASSUME NEW c \in Client, Unlock(c) PROVE Agreed'
    BY <2>4 DEF Unlock, PublishInv, Telling, Agreed
  <2> QED BY <2>1, <2>2, <2>3, <2>4
<1> QED BY <1>1, TracksStep, TellingStep DEF PublishInv

-----------------------------------------------------------------------------
(***************************************************************************)
(* The theorems.                                                           *)
(***************************************************************************)

\* Threads, mutex, pipelines and published values agree in every state.
THEOREM Inductive == Spec => []IInv
<1>1. Init => IInv
  <2> SUFFICES ASSUME Init PROVE IInv
    OBVIOUS
  <2> USE TunerAssumption DEF Init, GstInit
  <2>1. TypeOK
    BY DEF TypeOK, GstTypeOK, Obj, GstState, State, Error, Stopped
  <2>2. CallInv /\ PipelineInv
    BY DEF CallInv, PipelineInv, Tuning, Building
  <2>3. StreamInv
    BY DEF StreamInv, Sound, Ready
  <2>4. PublishInv
    BY DEF PublishInv, Agreed, Telling, Building, Stopped
  <2> QED BY <2>1, <2>2, <2>3, <2>4 DEF IInv
<1>2. IInv /\ [Next]_vars => IInv'
  <2>1. ASSUME IInv, Next PROVE IInv'
    BY <2>1, TypeOKStep, CallInvStep, PipelineInvStep, StreamInvStep,
       PublishInvStep DEF IInv
  <2>2. ASSUME IInv, UNCHANGED vars PROVE IInv'
    <3> USE <2>2 DEF IInv, vars, gstVars, tunerVars
    <3>1. TypeOK'
      BY DEF TypeOK, GstTypeOK
    <3>2. CallInv' /\ PipelineInv'
      BY DEF CallInv, PipelineInv
    <3>3. StreamInv'
      BY DEF StreamInv, Sound, Ready
    <3>4. PublishInv'
      BY DEF PublishInv, Agreed, Telling
    <3> QED BY <3>1, <3>2, <3>3, <3>4
  <2> QED BY <2>1, <2>2
<1> QED BY <1>1, <1>2, PTL DEF Spec

\* Every variable keeps its type.
THEOREM Types == Spec => []TypeOK
BY Inductive, PTL DEF IInv

\* One user of the DVB device at a time: whatever calls overlap, and whichever
\* of their steps fail, only the pipeline in t.pipeline has left NULL, those
\* that GStreamer refused to stop excepted.
THEOREM Exclusive == Spec => []DeviceExclusive
<1>1. IInv => DeviceExclusive
  BY DEF IInv, StreamInv, Sound, PipelineInv, DeviceExclusive, HoldsDevice
<1> QED BY <1>1, Inductive, PTL

\* No callback finds its handle deleted while Tune or Stop closes a pipeline,
\* for any number of sinks, unless GStreamer refused to stop it.
THEOREM HandlesValid == Spec => []NoHandleMisuse
<1>1. IInv => NoHandleMisuse
  BY DEF IInv, StreamInv, Sound, NoHandleMisuse
<1> QED BY <1>1, Inductive, PTL

\* Between two calls the pipeline, its handles, the status and the tracks
\* agree, and nothing is left half done.
THEOREM QuietAgreement == Spec => []Quiescent
<1>1. IInv => Quiescent
  <2> SUFFICES ASSUME IInv, tmu = NoClient PROVE Quiescent
    BY DEF Quiescent
  <2> USE TunerAssumption DEF IInv
  <2>1. \A c \in Client : pc[c] \in {"idle", "lock"}
    BY DEF CallInv
  <2>2. \A p \in Pipeline : obj[p] \notin {"stopping", "closing"}
    BY <2>1 DEF PipelineInv
  <2>3. \A p \in Pipeline : obj[p] = "open" <=> p = pipeline
    BY <2>2 DEF PipelineInv
  <2>4. Agreed
    BY DEF PublishInv
  <2>5. CASE pipeline = NoPipeline
    BY <2>2, <2>3, <2>4, <2>5 DEF Agreed, Quiescent
  <2>6. CASE pipeline # NoPipeline
    <3>1. pipeline \in Pipeline /\ gst[pipeline] # "null"
      BY <2>4, <2>6 DEF Agreed, TypeOK
    <3>2. pipeline \notin stuck => \A s \in Sink : handle[pipeline][s] = "valid"
      BY <3>1 DEF StreamInv, Sound
    <3>3. pipeline \notin stuck
      BY <2>3, <3>1 DEF StreamInv, Sound
    <3> QED BY <2>2, <2>3, <2>4, <2>6, <3>1, <3>2, <3>3
        DEF Agreed, Quiescent, HoldsDevice
  <2> QED BY <2>5, <2>6
<1> QED BY <1>1, Inductive, PTL

\* What Tune or Stop is about to return is what its watchers were told last.
THEOREM TrueAnswers == Spec => []AnswerIsTrue
<1>1. IInv => AnswerIsTrue
  BY DEF IInv, PublishInv, Telling, AnswerIsTrue
<1> QED BY <1>1, Inductive, PTL

-----------------------------------------------------------------------------
(***************************************************************************)
(* The refinement of TunerContract.                                        *)
(***************************************************************************)

\* The places of the contract, one by one.
LEMMA Places ==
  /\ Place("idle") = "idle" /\ Place("lock") = "waiting"
  /\ Place("starting") = "starting" /\ Place("unlock") = "done"
  /\ Place("publish") = "publishing" /\ Place("unpublish") = "publishing"
  /\ \A l \in {"destroy", "create", "pair", "connect", "start", "play", "report"} :
       Place(l) = "working"
  BY DEF Place

\* A step from a place of the contract to the same place is not seen.
LEMMA Unseen ==
  ASSUME TypeOK, NEW c \in Client, NEW l, NEW e,
         pc' = [pc EXCEPT ![c] = l], err' = [err EXCEPT ![c] = e],
         Place(l) = Place(pc[c]), {l, pc[c]} \intersect {"unlock", "idle"} = {},
         UNCHANGED <<status, tracks, arg>>
  PROVE  UNCHANGED Contract!vars
<1>1. atMap' = atMap
  BY DEF TypeOK, atMap
<1>2. answerMap' = answerMap
  BY DEF TypeOK, answerMap
<1> QED BY <1>1, <1>2 DEF Contract!vars

\* The initial states are initial states of the contract.
LEMMA RefinementInit == Init => Contract!Init
  BY DEF Init, Contract!Init, atMap, answerMap, Place, Stopped, Contract!Stopped

\* Each step of the tuner is a step of the contract or is not seen.
LEMMA RefinementStep ==
  ASSUME IInv, Next
  PROVE Contract!Next \/ UNCHANGED Contract!vars
<1> USE TunerAssumption DEF IInv, tunerVars, Goto
<1>1. ASSUME NEW c \in Client, Begin(c)
      PROVE  \E name \in Channel \union {Unknown, NoChannel} : Contract!Call(c, name)
  <2>1. PICK o \in {"Tune", "Stop"}, ch \in Channel \union {Unknown, NoChannel} :
          Call(c, o, ch)
    BY <1>1 DEF Begin, CallTune, CallStop
  <2>2. /\ atMap' = [atMap EXCEPT ![c] = "waiting"]
        /\ answerMap' = [answerMap EXCEPT ![c] = "none"]
        /\ atMap[c] = "idle"
    <3>1. /\ pc' = [pc EXCEPT ![c] = "lock"] /\ pc[c] = "idle"
          /\ err' = [err EXCEPT ![c] = "none"]
      BY <2>1 DEF Call
    <3>2. answerMap' = [answerMap EXCEPT ![c] = "none"]
      BY <3>1 DEF answerMap, TypeOK
    <3> QED BY <3>1, <3>2, Places DEF atMap, TypeOK
  <2>3. Contract!Call(c, ch)
    BY <2>1, <2>2 DEF Call, Contract!Call, Contract!To, Contract!Answer
  <2> QED BY <2>3
<1>2. ASSUME NEW c \in Client, Lock(c) PROVE Contract!Enter(c)
  <2>1. \A d \in Client : atMap[d] \in {"idle", "waiting"}
    BY <1>2 DEF Lock, Acquire, CallInv, atMap, Place
  <2>2. pc[c] = "lock" /\ atMap[c] = "waiting" /\ err[c] = "none"
    BY <1>2 DEF Lock, CallInv, atMap, Place
  <2>3. UNCHANGED <<status, tracks, arg>>
    BY <1>2 DEF Lock
  <2>4. CASE op[c] = "Stop"
    <3>1. arg[c] = NoChannel /\ pc' = [pc EXCEPT ![c] = "destroy"] /\ err' = err
      BY <1>2, <2>4 DEF Lock, CallInv
    <3>2. atMap' = [atMap EXCEPT ![c] = "working"] /\ answerMap' = answerMap
      BY <2>2, <3>1, Places DEF atMap, answerMap, TypeOK
    <3> QED BY <2>1, <2>2, <2>3, <3>1, <3>2
        DEF Contract!Enter, Contract!To, Contract!Answer
  <2>5. CASE op[c] = "Tune" /\ arg[c] \in Channel
    <3>1. pc' = [pc EXCEPT ![c] = "starting"] /\ err' = err
      BY <1>2, <2>5 DEF Lock
    <3>2. atMap' = [atMap EXCEPT ![c] = "starting"] /\ answerMap' = answerMap
      BY <2>2, <3>1, Places DEF atMap, answerMap, TypeOK
    <3> QED BY <2>1, <2>2, <2>3, <2>5, <3>1, <3>2
        DEF Contract!Enter, Contract!To, Contract!Answer
  <2>6. CASE op[c] = "Tune" /\ arg[c] \notin Channel
    <3>1. /\ arg[c] \notin Channel \union {NoChannel}
          /\ pc' = [pc EXCEPT ![c] = "unlock"]
          /\ err' = [err EXCEPT ![c] = "unknown"]
      BY <1>2, <2>6 DEF Lock, CallInv
    <3>2. /\ atMap' = [atMap EXCEPT ![c] = "done"]
          /\ answerMap' = [answerMap EXCEPT ![c] = "unknown"]
      BY <3>1, Places DEF atMap, answerMap, TypeOK
    <3> QED BY <2>1, <2>2, <2>3, <3>1, <3>2
        DEF Contract!Enter, Contract!To, Contract!Answer
  <2> QED BY <2>4, <2>5, <2>6 DEF TypeOK
<1>3. ASSUME NEW c \in Client, TuneStarting(c) PROVE Contract!Announce(c)
  <2>1. pc[c] = "starting" /\ pc' = [pc EXCEPT ![c] = "destroy"] /\ err' = err
    BY <1>3 DEF TuneStarting
  <2>2. /\ atMap[c] = "starting" /\ atMap' = [atMap EXCEPT ![c] = "working"]
        /\ answerMap' = answerMap
    BY <2>1, Places DEF atMap, answerMap, TypeOK
  <2> QED BY <1>3, <2>1, <2>2
      DEF TuneStarting, Starting, Contract!Announce, Contract!To, Contract!Starting
<1>4. ASSUME NEW c \in Client,
             DestroyClose(c) \/ DestroyStopFails(c)
      PROVE  UNCHANGED Contract!vars
  BY <1>4 DEF DestroyClose, DestroyStopFails, Contract!vars, atMap, answerMap
<1>5. ASSUME NEW c \in Client,
             \/ DestroyNothing(c) \/ DestroyUnref(c) \/ TuneCreate(c)
             \/ TuneCreateFails(c) \/ TuneTrackPair(c) \/ TuneConnect(c)
             \/ TuneStart(c)
      PROVE  UNCHANGED Contract!vars
  <2> DEFINE Inside == {"destroy", "create", "pair", "connect", "start", "play", "report"}
  <2>1. UNCHANGED <<status, tracks, arg>>
    BY <1>5 DEF DestroyNothing, DestroyUnref, TuneCreate, TuneCreateFails,
                TuneTrackPair, TuneConnect, TuneStart
  <2>2. pc[c] \in Inside
    BY <1>5 DEF DestroyNothing, DestroyUnref, TuneCreate, TuneCreateFails,
                TuneTrackPair, TuneConnect, TuneStart
  <2>3. \E l \in Inside : pc' = [pc EXCEPT ![c] = l]
    <3>1. pc = [pc EXCEPT ![c] = pc[c]]
      BY DEF TypeOK
    <3> QED BY <1>5, <2>2, <3>1
        DEF DestroyNothing, DestroyUnref, AfterDestroy, TuneCreate,
            TuneCreateFails, TuneTrackPair, TuneConnect, TuneStart, Fail
  <2>4. \E e \in Error : err' = [err EXCEPT ![c] = e]
    <3>1. err = [err EXCEPT ![c] = err[c]] /\ err[c] \in Error
      BY DEF TypeOK
    <3> QED BY <1>5, <3>1
        DEF DestroyNothing, DestroyUnref, TuneCreate, TuneCreateFails,
            TuneTrackPair, TuneConnect, TuneStart, Fail, Error
  <2>5. PICK l \in Inside : pc' = [pc EXCEPT ![c] = l]
    BY <2>3
  <2>6. Place(l) = "working" /\ Place(pc[c]) = "working"
    BY <2>2, Places
  <2> QED BY <2>1, <2>2, <2>4, <2>5, <2>6, Unseen
<1>6. ASSUME NEW c \in Client, TunePlaying(c) PROVE Contract!Change(c)
  <2>1. pc[c] = "play" /\ pc' = [pc EXCEPT ![c] = "publish"] /\ err' = err
    BY <1>6 DEF TunePlaying
  <2>2. /\ atMap[c] = "working" /\ atMap' = [atMap EXCEPT ![c] = "publishing"]
        /\ answerMap' = answerMap
    BY <2>1, Places DEF atMap, answerMap, TypeOK
  <2>3. arg[c] # NoChannel
    BY <1>6 DEF TunePlaying, CallInv, Tuning
  <2> QED BY <1>6, <2>1, <2>2, <2>3
      DEF TunePlaying, Playing, Contract!Change, Contract!To, Contract!Playing
<1>7. ASSUME NEW c \in Client, TuneTracks(c) PROVE Contract!Publish(c)
  <2>1. op[c] = "Tune" /\ err[c] = "none"
    BY <1>7 DEF TuneTracks, CallInv, Tuning
  <2>2. pc[c] = "publish" /\ pc' = [pc EXCEPT ![c] = "unlock"] /\ err' = err
    BY <1>7 DEF TuneTracks
  <2>3. /\ atMap[c] = "publishing" /\ atMap' = [atMap EXCEPT ![c] = "done"]
        /\ answerMap' = answerMap
    BY <2>1, <2>2, Places DEF atMap, answerMap, TypeOK
  <2>4. arg[c] # NoChannel
    BY <2>1 DEF CallInv
  <2>5. pipeline \in Pipeline /\ tracks # pipeline
    BY <1>7 DEF TuneTracks, TypeOK, PipelineInv, PublishInv, Telling, Building
  <2> QED BY <1>7, <2>2, <2>3, <2>4, <2>5
      DEF TuneTracks, Contract!Publish, Contract!To
<1>8. ASSUME NEW c \in Client, Report(c)
      PROVE  Contract!Change(c) \/ Contract!Fail(c)
  <2>1. pc[c] = "report" /\ UNCHANGED <<tracks, arg, err>>
    BY <1>8 DEF Report
  <2>2. CASE op[c] = "Stop"
    <3>1. arg[c] = NoChannel /\ err[c] = "none"
      BY <2>2 DEF CallInv
    <3>2. /\ pc' = [pc EXCEPT ![c] = "unpublish"] /\ err' = err
          /\ status' = Stopped("none")
      BY <1>8, <2>2, <3>1 DEF Report
    <3>3. atMap[c] = "working" /\ atMap' = [atMap EXCEPT ![c] = "publishing"]
      BY <2>1, <3>2, Places DEF atMap, TypeOK
    <3>4. answerMap' = answerMap
      BY <2>1, <3>2 DEF answerMap, TypeOK
    <3>5. Contract!Change(c)
      BY <2>1, <3>1, <3>2, <3>3, <3>4
         DEF Stopped, Contract!Change, Contract!To, Contract!Stopped
    <3> QED BY <3>5
  <2>3. CASE op[c] = "Tune"
    <3>1. arg[c] # NoChannel /\ err[c] = "failed"
      BY <2>1, <2>3 DEF CallInv
    <3>2. /\ pc' = [pc EXCEPT ![c] = "unlock"]
          /\ err' = [err EXCEPT ![c] = "failed"]
          /\ status' = Stopped("failed")
      BY <1>8, <2>3, <3>1 DEF Report, TypeOK
    <3>3. /\ atMap[c] = "working" /\ atMap' = [atMap EXCEPT ![c] = "done"]
          /\ answerMap' = [answerMap EXCEPT ![c] = "failed"]
      BY <2>1, <3>2, Places DEF atMap, answerMap, TypeOK
    <3>4. Contract!Fail(c)
      BY <2>1, <3>1, <3>2, <3>3
         DEF Stopped, Contract!Fail, Contract!To, Contract!Answer, Contract!Stopped
    <3> QED BY <3>4
  <2> QED BY <2>2, <2>3 DEF TypeOK
<1>9. ASSUME NEW c \in Client, StopTracks(c) PROVE Contract!Publish(c)
  <2>1. arg[c] = NoChannel /\ err[c] = "none"
    BY <1>9 DEF StopTracks, CallInv
  <2>2. pc[c] = "unpublish" /\ pc' = [pc EXCEPT ![c] = "unlock"] /\ err' = err
    BY <1>9 DEF StopTracks
  <2>3. /\ atMap[c] = "publishing" /\ atMap' = [atMap EXCEPT ![c] = "done"]
        /\ answerMap' = answerMap
    BY <2>1, <2>2, Places DEF atMap, answerMap, TypeOK
  <2> QED BY <1>9, <2>1, <2>2, <2>3 DEF StopTracks, Contract!Publish, Contract!To
<1>10. ASSUME NEW c \in Client, Unlock(c) PROVE Contract!Return(c)
  <2>1. pc[c] = "unlock" /\ pc' = [pc EXCEPT ![c] = "idle"] /\ err' = err
    BY <1>10 DEF Unlock
  <2>2. atMap[c] = "done" /\ atMap' = [atMap EXCEPT ![c] = "idle"]
    BY <2>1, Places DEF atMap, TypeOK
  <2>3. answerMap' = answerMap
    BY <2>1 DEF answerMap, TypeOK
  <2> QED BY <1>10, <2>1, <2>2, <2>3 DEF Unlock, Contract!Return, Contract!To
<1>11. CASE GstStep /\ UNCHANGED tunerVars
  BY <1>11 DEF Contract!vars, atMap, answerMap
<1> QED BY <1>1, <1>2, <1>3, <1>4, <1>5, <1>6, <1>7, <1>8, <1>9, <1>10, <1>11
    DEF Next, HeldStep, Contract!Next, Contract!Work

\* Tune and Stop implement the calls of TunerContract: they take effect one
\* after another, status before tracks, and return what they published.
THEOREM Refinement == Spec => ImplementsContract
<1>1. IInv /\ [Next]_vars => [Contract!Next]_(Contract!vars)
  <2>1. UNCHANGED vars => UNCHANGED Contract!vars
    BY DEF vars, tunerVars, Contract!vars, atMap, answerMap
  <2> QED BY <2>1, RefinementStep
<1> QED BY <1>1, RefinementInit, Inductive, PTL
    DEF Spec, ImplementsContract, Contract!Spec

=============================================================================
