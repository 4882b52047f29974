---------------------------- MODULE TunerStatus ----------------------------
(***************************************************************************)
(* internal/api/tunerstatus.go: one session per /api/socket/tuner-status   *)
(* socket, with the provider of client/src/TunerStatus.tsx at its other    *)
(* end.                                                                    *)
(*                                                                         *)
(* The handler of a session's status watch writes to the socket, and a     *)
(* client that does not read makes the write wait.  The watch is the       *)
(* mailbox of WatchContract, whose actions are parts of actions.           *)
(***************************************************************************)
EXTENDS Naturals, Sequences

CONSTANTS
  Session,   \* identities of the sockets that clients may open
  Slow,      \* sessions whose clients may stop reading
  MaxValue,  \* bound on the number of versions of the tuner's status
  Buffer     \* messages that fit between a write and a read

ASSUME TunerStatusAssumption ==
  /\ Slow \subseteq Session
  /\ MaxValue \in Nat \ {0}
  /\ Buffer \in Nat \ {0}

Version == 1..MaxValue

VARIABLES
  \* The watch.Value of the tuner's status, and the mailbox of each session.
  value, listening, due, phase, box, inflight,
  stage,       \* where ServeHTTP is
  canceled,    \* tsh.ctx is done
  sock,        \* state of the socket
  msgs,        \* messages on their way to the client
  connection,  \* the Connection that the client shows
  shown        \* the version of the status it has received last, or 0

mailVars == <<value, listening, due, phase, box, inflight>>
clientVars == <<connection, shown>>
vars == <<mailVars, stage, canceled, sock, msgs, clientVars>>

Mail == INSTANCE WatchContract WITH Watcher <- Session

TypeOK ==
  /\ Mail!TypeOK
  /\ stage \in [Session -> {"new", "watch", "open", "leave", "hangup", "wait", "done"}]
  /\ canceled \in [Session -> BOOLEAN]
  /\ sock \in [Session -> {"none", "open", "closed"}]
  /\ msgs \in [Session -> Seq(Version)]
  /\ \A k \in Session : Len(msgs[k]) <= Buffer
  /\ connection \in [Session -> {"Connecting", "Connected", "Disconnected"}]
  /\ shown \in [Session -> Version \union {0}]

Init ==
  /\ Mail!Init
  /\ stage = [k \in Session |-> "new"]
  /\ canceled = [k \in Session |-> FALSE]
  /\ sock = [k \in Session |-> "none"]
  /\ msgs = [k \in Session |-> <<>>]
  /\ connection = [k \in Session |-> "Connecting"]
  /\ shown = [k \in Session |-> 0]

Stage(k, s) == stage' = [stage EXCEPT ![k] = s]
Shutdown(k) == canceled' = [canceled EXCEPT ![k] = TRUE]

-----------------------------------------------------------------------------
(***************************************************************************)
(* The tuner stores a status; the holder of the Value's lock posts it.     *)
(***************************************************************************)

TunerSet == Mail!Set /\ UNCHANGED <<stage, canceled, sock, msgs, clientVars>>

Post(k) == Mail!Post(k) /\ UNCHANGED <<stage, canceled, sock, msgs, clientVars>>

\* The watch notices that it has been canceled and that no handler executes.
Terminate(k) == Mail!Terminate(k) /\ UNCHANGED <<stage, canceled, sock, msgs, clientVars>>

-----------------------------------------------------------------------------
(***************************************************************************)
(* ServeHTTP, and its deferred calls from last to first.                   *)
(***************************************************************************)

Accept(k) ==
  /\ stage[k] = "new"
  /\ \/ Stage(k, "watch") /\ sock' = [sock EXCEPT ![k] = "open"]
     \/ Stage(k, "done") /\ UNCHANGED sock
  /\ UNCHANGED <<mailVars, canceled, msgs, clientVars>>

WatchStatus(k) ==
  /\ stage[k] = "watch"
  /\ Mail!Open(k)
  /\ Stage(k, "open")
  /\ UNCHANGED <<canceled, sock, msgs, clientVars>>

\* The goroutine of CloseRead cancels the context when the socket is closed.
CloseRead_Omitted(k) == FALSE
CloseRead(k) ==
  /\ sock[k] = "closed"
  /\ ~canceled[k]
  /\ Shutdown(k)
  /\ UNCHANGED <<mailVars, stage, sock, msgs, clientVars>>

\* tsh.statusWatch.Cancel, once the context is done.
CancelLeave_NoLock(k) ==
  /\ stage[k] = "open"
  /\ canceled[k]
  /\ listening' = listening \ {k}
  /\ Stage(k, "leave")
  /\ UNCHANGED <<value, due, phase, box, inflight, canceled, sock, msgs, clientVars>>
CancelLeave(k) ==
  /\ stage[k] = "open"
  /\ canceled[k]
  /\ Mail!Leave(k)
  /\ Stage(k, "leave")
  /\ UNCHANGED <<canceled, sock, msgs, clientVars>>

CancelClose(k) ==
  /\ stage[k] = "leave"
  /\ Mail!Close(k)
  /\ Stage(k, "hangup")
  /\ UNCHANGED <<canceled, sock, msgs, clientVars>>

SocketClose(k) ==
  /\ stage[k] = "hangup"
  /\ sock' = [sock EXCEPT ![k] = "closed"]
  /\ Stage(k, "wait")
  /\ UNCHANGED <<mailVars, canceled, msgs, clientVars>>

\* tsh.statusWatch.Wait.
WaitWatch_Skipped(k) ==
  /\ stage[k] = "wait"
  /\ Stage(k, "done")
  /\ UNCHANGED <<mailVars, canceled, sock, msgs, clientVars>>
WaitWatch(k) ==
  /\ stage[k] = "wait"
  /\ phase[k] = "closed"
  /\ Stage(k, "done")
  /\ UNCHANGED <<mailVars, canceled, sock, msgs, clientVars>>

-----------------------------------------------------------------------------
(***************************************************************************)
(* sendNewTunerStatus: the handler executes while inflight is not empty.   *)
(***************************************************************************)

HandlerBegin(k) == Mail!Begin(k) /\ UNCHANGED <<stage, canceled, sock, msgs, clientVars>>

\* A broken handler, which drops the message when the client is behind.
Write_Dropped(k) ==
  \E v \in inflight[k] :
    /\ sock[k] = "open"
    /\ ~canceled[k]
    /\ msgs' = IF Len(msgs[k]) < Buffer THEN [msgs EXCEPT ![k] = Append(@, v)] ELSE msgs
    /\ Mail!Return(k)
    /\ UNCHANGED <<stage, canceled, sock, clientVars>>

Write(k) ==
  \E v \in inflight[k] :
    /\ sock[k] = "open"
    /\ ~canceled[k]
    /\ Len(msgs[k]) < Buffer
    /\ msgs' = [msgs EXCEPT ![k] = Append(@, v)]
    /\ Mail!Return(k)
    /\ UNCHANGED <<stage, canceled, sock, clientVars>>

WriteFails(k) ==
  /\ inflight[k] # {}
  /\ sock[k] = "closed" \/ canceled[k]
  /\ Mail!Return(k)
  /\ Shutdown(k)
  /\ UNCHANGED <<stage, sock, msgs, clientVars>>

-----------------------------------------------------------------------------
(***************************************************************************)
(* The client.  It closes its socket at most once, and after that its      *)
(* listeners are gone: it shows nothing that arrives later.                *)
(***************************************************************************)

ClientMessage(k) ==
  /\ connection[k] # "Disconnected"
  /\ msgs[k] # <<>>
  /\ shown' = [shown EXCEPT ![k] = Head(msgs[k])]
  /\ connection' = [connection EXCEPT ![k] = "Connected"]
  /\ msgs' = [msgs EXCEPT ![k] = Tail(@)]
  /\ UNCHANGED <<mailVars, stage, canceled, sock>>

\* onclose or onerror: the server refused or closed the socket, or the
\* connection is lost.  The same happens when the provider is unmounted.
ClientClosed(k) ==
  /\ connection[k] # "Disconnected"
  /\ stage[k] # "new"
  /\ connection' = [connection EXCEPT ![k] = "Disconnected"]
  /\ sock' = [sock EXCEPT ![k] = IF @ = "open" THEN "closed" ELSE @]
  /\ msgs' = [msgs EXCEPT ![k] = <<>>]
  /\ UNCHANGED <<mailVars, stage, canceled, shown>>

-----------------------------------------------------------------------------

ServeStep(k) ==
  \/ WatchStatus(k) \/ CancelLeave(k) \/ CancelClose(k)
  \/ SocketClose(k) \/ WaitWatch(k)

HandlerStep(k) == HandlerBegin(k) \/ Write(k) \/ WriteFails(k)

Next ==
  \/ TunerSet
  \/ \E k \in Session :
       \/ Post(k) \/ Terminate(k)
       \/ Accept(k) \/ ServeStep(k) \/ CloseRead(k) \/ HandlerStep(k)
       \/ ClientMessage(k) \/ ClientClosed(k)

Spec == Init /\ [][Next]_vars

(***************************************************************************)
(* Goroutines that can take a step are scheduled, a mutex is fair to its   *)
(* waiters, and clients that are not slow read.  No client has to leave.   *)
(***************************************************************************)
FairSpec ==
  /\ Spec
  /\ \A k \in Session :
       /\ WF_vars(Post(k)) /\ WF_vars(Terminate(k)) /\ WF_vars(CloseRead(k))
       /\ SF_vars(ServeStep(k)) /\ WF_vars(HandlerStep(k))
  /\ \A k \in Session \ Slow : WF_vars(ClientMessage(k))

-----------------------------------------------------------------------------
(***************************************************************************)
(* Properties.                                                             *)
(***************************************************************************)

\* ServeHTTP returns only when no handler of its watch executes or can start:
\* nothing uses the socket and the request after net/http has them back.
QuietAfterReturn ==
  \A k \in Session : stage[k] = "done" =>
    /\ inflight[k] = {} /\ box[k] = {}
    /\ k \notin listening /\ phase[k] \in {"new", "closed"}
    /\ sock[k] # "open"

\* A session with nothing under way shows the tuner's current status, however
\* many statuses were skipped because the client was behind.
ShowsCurrent ==
  \A k \in Session :
    /\ stage[k] = "open" /\ ~canceled[k] /\ sock[k] = "open"
    /\ k \notin due /\ box[k] = {} /\ inflight[k] = {} /\ msgs[k] = <<>>
    => shown[k] = value /\ connection[k] = "Connected"

\* Every status, or a later one, reaches each client that reads and stays,
\* although other clients may have stopped reading with a write in progress.
StatusReachesClient ==
  \A k \in Session \ Slow, n \in Version :
    (stage[k] = "open" /\ value = n) ~> (shown[k] >= n \/ sock[k] = "closed")

\* When a client is gone its session comes to an end, even when the handler
\* was waiting to write.
SessionEnds == \A k \in Session : sock[k] = "closed" ~> stage[k] = "done"

=============================================================================
