--------------------------- MODULE WatchContract ---------------------------
(***************************************************************************)
(* What the watch package promises to the code that uses it: a Value is a  *)
(* cell with a current version, and a watch is a mailbox of size one.      *)
(* Every Set posts the new version to every listening watch, a newer post  *)
(* overwrites an older one, and the handler of a watch takes what is in    *)
(* its box, one execution at a time, until the watch is closed.            *)
(*                                                                         *)
(* No locks, no goroutines: module Watch has those, and implements this.   *)
(***************************************************************************)
EXTENDS Naturals

CONSTANTS
  Watcher,   \* identities of the watches that may be created
  MaxValue   \* bound on the number of versions stored in the Value

VARIABLES
  value,      \* version stored in the Value; the initial value is version 1
  listening,  \* watches that every later Set must reach
  due,        \* watches the current version has not been posted to yet
  phase,      \* life cycle of each watch
  box,        \* the version waiting for the handler: {} or one version
  inflight    \* the version the handler is executing on: {} or one version

vars == <<value, listening, due, phase, box, inflight>>

Phase == {"new", "open", "closing", "closed"}

TypeOK ==
  /\ value \in 1..MaxValue
  /\ listening \subseteq Watcher
  /\ due \subseteq listening
  /\ phase \in [Watcher -> Phase]
  /\ box \in [Watcher -> {{}} \union {{v} : v \in 1..MaxValue}]
  /\ inflight \in [Watcher -> {{}} \union {{v} : v \in 1..MaxValue}]

Init ==
  /\ value = 1
  /\ listening = {}
  /\ due = {}
  /\ phase = [w \in Watcher |-> "new"]
  /\ box = [w \in Watcher |-> {}]
  /\ inflight = [w \in Watcher |-> {}]

\* A new version, once the previous one has reached every listening watch.
Set ==
  /\ due = {}
  /\ value < MaxValue
  /\ value' = value + 1
  /\ due' = listening
  /\ UNCHANGED <<listening, phase, box, inflight>>

\* A new watch, which is owed the version stored when it is created.
Open(w) ==
  /\ due = {}
  /\ phase[w] = "new"
  /\ phase' = [phase EXCEPT ![w] = "open"]
  /\ listening' = listening \union {w}
  /\ due' = {w}
  /\ UNCHANGED <<value, box, inflight>>

\* The current version replaces whatever the handler has not taken yet.
Post(w) ==
  /\ w \in due
  /\ due' = due \ {w}
  /\ box' = [box EXCEPT ![w] = {value}]
  /\ UNCHANGED <<value, listening, phase, inflight>>

\* One handler execution at a time, and only on a watch that is still open.
Begin(w) ==
  /\ phase[w] = "open"
  /\ inflight[w] = {}
  /\ box[w] # {}
  /\ inflight' = [inflight EXCEPT ![w] = box[w]]
  /\ box' = [box EXCEPT ![w] = {}]
  /\ UNCHANGED <<value, listening, due, phase>>

Return(w) ==
  /\ inflight[w] # {}
  /\ inflight' = [inflight EXCEPT ![w] = {}]
  /\ UNCHANGED <<value, listening, due, phase, box>>

\* Cancel, first half: no later version is posted to the watch.
Leave(w) ==
  /\ due = {}
  /\ phase[w] # "new"
  /\ listening' = listening \ {w}
  /\ UNCHANGED <<value, due, phase, box, inflight>>

\* Cancel, second half: a version still in the box is dropped.
Close(w) ==
  /\ w \notin listening
  /\ phase[w] = "open"
  /\ phase' = [phase EXCEPT ![w] = "closing"]
  /\ box' = [box EXCEPT ![w] = {}]
  /\ UNCHANGED <<value, listening, due, inflight>>

\* From here on Wait returns: no handler executes, and none ever will.
Terminate(w) ==
  /\ phase[w] = "closing"
  /\ inflight[w] = {}
  /\ phase' = [phase EXCEPT ![w] = "closed"]
  /\ UNCHANGED <<value, listening, due, box, inflight>>

Next ==
  \/ Set
  \/ \E w \in Watcher :
       \/ Open(w) \/ Post(w) \/ Begin(w) \/ Return(w)
       \/ Leave(w) \/ Close(w) \/ Terminate(w)

Spec == Init /\ [][Next]_vars

=============================================================================
