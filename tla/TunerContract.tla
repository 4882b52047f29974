--------------------------- MODULE TunerContract ---------------------------
(***************************************************************************)
(* What the tuner promises to the code that calls it and to the watchers   *)
(* of its status and its tracks: calls take effect one after another, each *)
(* tells the watchers what it does, and what it returns is what they were  *)
(* told last.  New tracks never are those of an earlier stream.            *)
(*                                                                         *)
(* No pipelines and no GStreamer: module Tuner has those, and implements   *)
(* this.                                                                   *)
(***************************************************************************)

CONSTANTS
  Client,     \* goroutines that call the tuner
  Name,       \* channel names that calls may carry
  Halt,       \* stands for the name in a call of Stop
  NoChannel,  \* the empty channel name of a Status
  Stream,     \* identities of pairs of tracks
  NoStream    \* no tracks

VARIABLES
  known,    \* names in channelMap
  status,   \* value stored in t.status
  tracks,   \* value stored in t.tracks
  at,       \* where each call is
  asked,    \* the name it carries
  answer    \* the error it returns

vars == <<known, status, tracks, at, asked, answer>>

State == {"Stopped", "Starting", "Playing"}
Error == {"none", "unknown", "failed"}

Stopped(e) == [state |-> "Stopped", channel |-> NoChannel, error |-> e]
Starting(ch) == [state |-> "Starting", channel |-> ch, error |-> "none"]
Playing(ch) == [state |-> "Playing", channel |-> ch, error |-> "none"]

TypeOK ==
  /\ status \in [state : State, channel : Name \union {NoChannel}, error : Error]
  /\ tracks \in Stream \union {NoStream}
  /\ at \in [Client -> {"idle", "waiting", "starting", "working", "publishing", "done"}]
  /\ asked \in [Client -> Name \union {Halt}]
  /\ answer \in [Client -> Error]

Init ==
  /\ status = Stopped("none")
  /\ tracks = NoStream
  /\ at = [c \in Client |-> "idle"]
  /\ asked = [c \in Client |-> Halt]
  /\ answer = [c \in Client |-> "none"]

To(c, place) == at' = [at EXCEPT ![c] = place]
Answer(c, e) == answer' = [answer EXCEPT ![c] = e]

-----------------------------------------------------------------------------

Call(c, name) ==
  /\ at[c] = "idle"
  /\ To(c, "waiting")
  /\ asked' = [asked EXCEPT ![c] = name]
  /\ Answer(c, "none")
  /\ UNCHANGED <<status, tracks>>

\* One call at a time.  An unknown name is refused before anything changes.
Enter(c) ==
  /\ at[c] = "waiting"
  /\ \A d \in Client : at[d] \in {"idle", "waiting"}
  /\ \/ asked[c] = Halt /\ To(c, "working") /\ UNCHANGED answer
     \/ asked[c] \in known /\ To(c, "starting") /\ UNCHANGED answer
     \/ asked[c] \notin known \union {Halt} /\ To(c, "done") /\ Answer(c, "unknown")
  /\ UNCHANGED <<status, tracks, asked>>

Announce(c) ==
  /\ at[c] = "starting"
  /\ status' = Starting(asked[c])
  /\ To(c, "working")
  /\ UNCHANGED <<tracks, asked, answer>>

\* The new status comes before the new tracks.
Change(c) ==
  /\ at[c] = "working"
  /\ status' = IF asked[c] = Halt THEN Stopped("none") ELSE Playing(asked[c])
  /\ To(c, "publishing")
  /\ UNCHANGED <<tracks, asked, answer>>

Publish(c) ==
  /\ at[c] = "publishing"
  /\ IF asked[c] = Halt THEN tracks' = NoStream ELSE tracks' \in Stream \ {tracks}
  /\ To(c, "done")
  /\ UNCHANGED <<status, asked, answer>>

\* A Tune that fails tells why, and says nothing of tracks.
Fail(c) ==
  /\ at[c] = "working"
  /\ asked[c] # Halt
  /\ status' = Stopped("failed")
  /\ To(c, "done")
  /\ Answer(c, "failed")
  /\ UNCHANGED <<tracks, asked>>

\* A broken Tune, which calls Stop after it has failed: that waits for the
\* mutex that Tune has locked.
Return_CallsStop(c) ==
  /\ at[c] = "done"
  /\ answer[c] # "failed"
  /\ To(c, "idle")
  /\ UNCHANGED <<status, tracks, asked, answer>>

Return(c) ==
  /\ at[c] = "done"
  /\ To(c, "idle")
  /\ UNCHANGED <<status, tracks, asked, answer>>

\* A call in progress gets on.
Work(c) == Announce(c) \/ Change(c) \/ Publish(c) \/ Fail(c) \/ Return(c)

Next ==
  /\ \E c \in Client :
       (\E name \in Name \union {Halt} : Call(c, name)) \/ Enter(c) \/ Work(c)
  /\ UNCHANGED known

Spec == Init /\ [][Next]_vars

=============================================================================
