-------------------------------- MODULE Gst --------------------------------
(***************************************************************************)
(* internal/gst: pipelines whose appsinks call back into Go.               *)
(*                                                                         *)
(* The calling goroutine creates a pipeline, connects its sinks, starts it *)
(* and closes it.  Meanwhile GStreamer runs one streaming thread per sink, *)
(* which enters hypcastSinkSample through gst.c and looks its SinkFunc up  *)
(* by cgo handle.  The caller's operations are the operators below, which  *)
(* module Tuner combines into actions; the threads have actions here.      *)
(*                                                                         *)
(* GStreamer itself is external.  What is assumed of it: a change of state *)
(* to NULL that succeeds returns after every streaming thread has left its *)
(* callback, and none enters one afterwards; a change that fails leaves    *)
(* the pipeline as it was; an asynchronous start completes or fails later. *)
(***************************************************************************)
EXTENDS Naturals

CONSTANTS
  Pipeline,  \* identities of the pipelines that may be created
  Sink       \* names of the appsinks of every pipeline

VARIABLES
  obj,      \* life cycle of the Go object, with the progress of Close
  gst,      \* GStreamer's own state of the pipeline
  handle,   \* cgo handle connected to each appsink
  thread,   \* where the streaming thread of each appsink is
  stuck     \* history: pipelines whose change to NULL has failed

gstVars == <<obj, gst, handle, thread, stuck>>

Obj == {"none", "open", "stopping", "closing", "closed", "abandoned"}
GstState == {"null", "async", "playing", "failed"}

GstTypeOK ==
  /\ obj \in [Pipeline -> Obj]
  /\ gst \in [Pipeline -> GstState]
  /\ handle \in [Pipeline -> [Sink -> {"none", "valid", "deleted"}]]
  /\ thread \in [Pipeline -> [Sink -> {"idle", "sample", "write", "panic"}]]
  /\ stuck \subseteq Pipeline

GstInit ==
  /\ obj = [p \in Pipeline |-> "none"]
  /\ gst = [p \in Pipeline |-> "null"]
  /\ handle = [p \in Pipeline |-> [s \in Sink |-> "none"]]
  /\ thread = [p \in Pipeline |-> [s \in Sink |-> "idle"]]
  /\ stuck = {}

\* A pipeline that has left NULL keeps the DVB device open.
HoldsDevice(p) == gst[p] # "null"

Streaming(p) == gst[p] \in {"async", "playing"}

-----------------------------------------------------------------------------
(***************************************************************************)
(* Operations of the caller.                                               *)
(***************************************************************************)

NewPipeline(p) ==
  /\ obj[p] = "none"
  /\ obj' = [obj EXCEPT ![p] = "open"]
  /\ UNCHANGED <<gst, handle, thread, stuck>>

\* gst_parse_launch reports an error.  It may have returned an element all
\* the same: the Go code returns without a reference to it.
NewPipelineFails ==
  \/ UNCHANGED gstVars
  \/ \E p \in Pipeline :
       /\ obj[p] = "none"
       /\ obj' = [obj EXCEPT ![p] = "abandoned"]
       /\ UNCHANGED <<gst, handle, thread, stuck>>

SetSink(p, s) ==
  /\ obj[p] = "open"
  /\ handle[p][s] = "none"
  /\ handle' = [handle EXCEPT ![p][s] = "valid"]
  /\ UNCHANGED <<obj, gst, thread, stuck>>

\* Any result but FAILURE counts as started, ASYNC included.
Start(p) ==
  /\ \E state \in {"async", "playing"} : gst' = [gst EXCEPT ![p] = state]
  /\ UNCHANGED <<obj, handle, thread, stuck>>

StartFails(p) ==
  /\ gst' = [gst EXCEPT ![p] = "failed"]
  /\ UNCHANGED <<obj, handle, thread, stuck>>

Stop(p) ==
  /\ \A s \in Sink : thread[p][s] = "idle"
  /\ gst' = [gst EXCEPT ![p] = "null"]
  /\ UNCHANGED <<handle, thread, stuck>>

StopFails(p) ==
  /\ gst[p] # "null"
  /\ stuck' = stuck \union {p}
  /\ UNCHANGED <<gst, handle, thread>>

\* Close calls Stop: from now on no thread enters a callback.
CloseBegin(p) ==
  /\ obj[p] = "open"
  /\ obj' = [obj EXCEPT ![p] = "stopping"]
  /\ UNCHANGED <<gst, handle, thread, stuck>>

\* Stop has returned, and Close ignores its error.
CloseStopped(p) == obj[p] = "stopping" /\ Stop(p) /\ obj' = [obj EXCEPT ![p] = "closing"]
CloseStopFailed(p) ==
  obj[p] = "stopping" /\ StopFails(p) /\ obj' = [obj EXCEPT ![p] = "closing"]

\* A broken Close, which deletes a handle before it stops the pipeline.
CloseHandle_BeforeStop(p, s) ==
  /\ obj[p] \in {"open", "stopping", "closing"}
  /\ handle[p][s] = "valid"
  /\ handle' = [handle EXCEPT ![p][s] = "deleted"]
  /\ UNCHANGED <<obj, gst, thread, stuck>>

\* handle.Delete, in the arbitrary order of the map.
CloseHandle(p, s) ==
  /\ obj[p] = "closing"
  /\ handle[p][s] = "valid"
  /\ handle' = [handle EXCEPT ![p][s] = "deleted"]
  /\ UNCHANGED <<obj, gst, thread, stuck>>

CloseUnref(p) ==
  /\ obj[p] = "closing"
  /\ \A s \in Sink : handle[p][s] # "valid"
  /\ obj' = [obj EXCEPT ![p] = "closed"]
  /\ UNCHANGED <<gst, handle, thread, stuck>>

-----------------------------------------------------------------------------
(***************************************************************************)
(* GStreamer's threads.                                                    *)
(***************************************************************************)

ThreadTo(p, s, state) == thread' = [thread EXCEPT ![p][s] = state]

\* "new-sample" is emitted: the thread is in hypcast_sink_sample.
SampleBegin(p, s) ==
  /\ Streaming(p)
  /\ obj[p] # "stopping"
  /\ handle[p][s] # "none"
  /\ thread[p][s] = "idle"
  /\ ThreadTo(p, s, "sample")
  /\ UNCHANGED <<obj, gst, handle, stuck>>

\* cgo.Handle.Value panics on a handle that was deleted.
SampleValue(p, s) ==
  /\ thread[p][s] = "sample"
  /\ ThreadTo(p, s, IF handle[p][s] = "valid" THEN "write" ELSE "panic")
  /\ UNCHANGED <<obj, gst, handle, stuck>>

\* No sample or no buffer, or the SinkFunc has written the sample.
SampleEnd(p, s) ==
  /\ thread[p][s] \in {"sample", "write"}
  /\ ThreadTo(p, s, "idle")
  /\ UNCHANGED <<obj, gst, handle, stuck>>

\* The tuner locks onto the signal and data reaches the sinks.
Preroll(p) ==
  /\ gst[p] = "async"
  /\ gst' = [gst EXCEPT ![p] = "playing"]
  /\ UNCHANGED <<obj, handle, thread, stuck>>

\* No signal, or an error later on: a message on a bus that nobody reads.
StreamError(p) ==
  /\ Streaming(p)
  /\ gst' = [gst EXCEPT ![p] = "failed"]
  /\ UNCHANGED <<obj, handle, thread, stuck>>

SampleStep(p, s) == SampleValue(p, s) \/ SampleEnd(p, s)

GstStep ==
  \E p \in Pipeline :
    \/ \E s \in Sink : SampleBegin(p, s) \/ SampleStep(p, s)
    \/ Preroll(p) \/ StreamError(p)

=============================================================================
