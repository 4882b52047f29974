------------------------------- MODULE WebRTC -------------------------------
(***************************************************************************)
(* internal/api/webrtc.go: one session per /api/socket/webrtc-peer socket, *)
(* with the client of client/src/WebRTC/Backend.ts at its other end.       *)
(*                                                                         *)
(* In a session three goroutines share a PeerConnection and a socket: the  *)
(* one of ServeHTTP, which sets up, waits for the end of the context and   *)
(* tears down in the order of its deferred calls; the reader of answers;   *)
(* and the goroutine that the tracks watch runs the handler in.  The watch *)
(* is the mailbox of WatchContract, whose actions are parts of actions.    *)
(*                                                                         *)
(* External: the PeerConnection refuses an offer while an earlier one is   *)
(* not answered (pion does not have that transition) and every use after   *)
(* Close; gathering comes to an end; the socket delivers in order until    *)
(* either side closes it, and what is under way then is lost.              *)
(***************************************************************************)
EXTENDS Naturals, Sequences

CONSTANTS
  Session,   \* identities of the sockets that clients may open
  MaxValue   \* bound on the number of versions of the tuner's tracks

ASSUME WebRTCAssumption == MaxValue \in Nat \ {0}

Version == 1..MaxValue

\* No tracks, no offer.
None == 0

VARIABLES
  \* The watch.Value of the tuner's tracks, and the mailbox of each session.
  value, listening, due, phase, box, inflight,
  empty,         \* versions stored so far that are Tracks{}
  \* The server's side of each session.
  stage,         \* where ServeHTTP is
  canceled,      \* wh.ctx is done
  reader,        \* where readClientSessionDescriptions is
  got,           \* the answer it has read
  handler,       \* where handleTrackUpdate is
  transceivers,  \* wh.hasTransceivers()
  senders,       \* version whose tracks the PeerConnection sends
  signaling,     \* signaling state of the PeerConnection
  pending,       \* version described by its unanswered local offer
  \* The socket and the client's side.
  sock,          \* state of the socket
  offers,        \* offers on their way to the client
  answers,       \* answers on their way to the server
  remote,        \* version of the offer the client has set last
  answering,     \* offers that the client is working on
  rejected       \* history: version of the offer the browser rejected last

mailVars == <<value, listening, due, phase, box, inflight>>
serveVars == <<stage, canceled>>
readerVars == <<reader, got>>
peerVars == <<transceivers, senders, signaling, pending>>
clientVars == <<offers, answers, remote, answering, rejected>>
vars == <<mailVars, empty, serveVars, readerVars, handler, peerVars, sock, clientVars>>

Mail == INSTANCE WatchContract WITH Watcher <- Session

TypeOK ==
  /\ Mail!TypeOK
  /\ empty \subseteq 1..value
  /\ stage \in [Session -> {"new", "peer", "watch", "open", "leave", "close",
                            "hangup", "wait", "drain", "done"}]
  /\ canceled \in [Session -> BOOLEAN]
  /\ reader \in [Session -> {"off", "read", "apply", "stopped"}]
  /\ handler \in [Session -> {"idle", "replace", "offer", "local", "gather", "send"}]
  /\ transceivers \in [Session -> BOOLEAN]
  /\ signaling \in [Session -> {"none", "stable", "have-local-offer", "closed"}]
  /\ sock \in [Session -> {"none", "open", "closed"}]
  /\ got \in [Session -> Version \union {None}]
  /\ senders \in [Session -> Version \union {None}]
  /\ pending \in [Session -> Version \union {None}]
  /\ remote \in [Session -> Version \union {None}]
  /\ rejected \in [Session -> Version \union {None}]
  /\ offers \in [Session -> Seq(Version)]
  /\ answers \in [Session -> Seq(Version)]
  /\ answering \in [Session -> SUBSET Version]

Init ==
  /\ Mail!Init
  /\ empty = {1}
  /\ stage = [k \in Session |-> "new"]
  /\ canceled = [k \in Session |-> FALSE]
  /\ reader = [k \in Session |-> "off"]
  /\ handler = [k \in Session |-> "idle"]
  /\ transceivers = [k \in Session |-> FALSE]
  /\ signaling = [k \in Session |-> "none"]
  /\ sock = [k \in Session |-> "none"]
  /\ got = [k \in Session |-> None]
  /\ senders = [k \in Session |-> None]
  /\ pending = [k \in Session |-> None]
  /\ remote = [k \in Session |-> None]
  /\ rejected = [k \in Session |-> None]
  /\ offers = [k \in Session |-> <<>>]
  /\ answers = [k \in Session |-> <<>>]
  /\ answering = [k \in Session |-> {}]

Stage(k, s) == stage' = [stage EXCEPT ![k] = s]
Handler(k, s) == handler' = [handler EXCEPT ![k] = s]
Shutdown(k) == canceled' = [canceled EXCEPT ![k] = TRUE]

-----------------------------------------------------------------------------
(***************************************************************************)
(* The tuner stores new tracks, or none; the holder of the Value's lock    *)
(* posts them to every session.                                            *)
(***************************************************************************)

TunerSet ==
  /\ Mail!Set
  /\ empty' \in {empty, empty \union {value'}}
  /\ UNCHANGED <<serveVars, readerVars, handler, peerVars, sock, clientVars>>

Post(k) ==
  /\ Mail!Post(k)
  /\ UNCHANGED <<empty, serveVars, readerVars, handler, peerVars, sock, clientVars>>

\* The watch notices that it has been canceled and that no handler executes.
Terminate(k) ==
  /\ Mail!Terminate(k)
  /\ UNCHANGED <<empty, serveVars, readerVars, handler, peerVars, sock, clientVars>>

-----------------------------------------------------------------------------
(***************************************************************************)
(* ServeHTTP, and its deferred calls from last to first.                   *)
(***************************************************************************)

Accept(k) ==
  /\ stage[k] = "new"
  /\ \/ Stage(k, "peer") /\ sock' = [sock EXCEPT ![k] = "open"]
     \/ Stage(k, "done") /\ UNCHANGED sock
  /\ UNCHANGED <<mailVars, empty, canceled, readerVars, handler, peerVars, clientVars>>

\* NewPeerConnection, and the start of the reader.
NewPeer(k) ==
  /\ stage[k] = "peer"
  /\ Stage(k, "watch")
  /\ signaling' = [signaling EXCEPT ![k] = "stable"]
  /\ reader' = [reader EXCEPT ![k] = "read"]
  /\ UNCHANGED <<mailVars, empty, canceled, got, handler, transceivers, senders,
                 pending, sock, clientVars>>

NewPeerFails(k) ==
  /\ stage[k] = "peer"
  /\ Stage(k, "hangup")
  /\ UNCHANGED <<mailVars, empty, canceled, readerVars, handler, peerVars, sock, clientVars>>

WatchTracks(k) ==
  /\ stage[k] = "watch"
  /\ Mail!Open(k)
  /\ Stage(k, "open")
  /\ UNCHANGED <<empty, canceled, readerVars, handler, peerVars, sock, clientVars>>

\* wh.trackWatch.Cancel, once the context is done.
CancelLeave_NoLock(k) ==
  /\ stage[k] = "open"
  /\ canceled[k]
  /\ listening' = listening \ {k}
  /\ Stage(k, "leave")
  /\ UNCHANGED <<value, due, phase, box, inflight, empty, canceled, readerVars, handler,
                 peerVars, sock, clientVars>>
CancelLeave(k) ==
  /\ stage[k] = "open"
  /\ canceled[k]
  /\ Mail!Leave(k)
  /\ Stage(k, "leave")
  /\ UNCHANGED <<empty, canceled, readerVars, handler, peerVars, sock, clientVars>>

CancelClose(k) ==
  /\ stage[k] = "leave"
  /\ Mail!Close(k)
  /\ Stage(k, "close")
  /\ UNCHANGED <<empty, canceled, readerVars, handler, peerVars, sock, clientVars>>

PeerClose(k) ==
  /\ stage[k] = "close"
  /\ signaling' = [signaling EXCEPT ![k] = "closed"]
  /\ Stage(k, "hangup")
  /\ UNCHANGED <<mailVars, empty, canceled, readerVars, handler, transceivers, senders,
                 pending, sock, clientVars>>

SocketClose(k) ==
  /\ stage[k] = "hangup"
  /\ sock' = [sock EXCEPT ![k] = "closed"]
  /\ Stage(k, "wait")
  /\ UNCHANGED <<mailVars, empty, canceled, readerVars, handler, peerVars, clientVars>>

\* wh.trackWatch.Wait, unless there is no watch.
WaitWatch_Skipped(k) ==
  /\ stage[k] = "wait"
  /\ Stage(k, "drain")
  /\ UNCHANGED <<mailVars, empty, canceled, readerVars, handler, peerVars, sock, clientVars>>
WaitWatch(k) ==
  /\ stage[k] = "wait"
  /\ phase[k] \in {"new", "closed"}
  /\ Stage(k, "drain")
  /\ UNCHANGED <<mailVars, empty, canceled, readerVars, handler, peerVars, sock, clientVars>>

WaitReader(k) ==
  /\ stage[k] = "drain"
  /\ reader[k] \in {"off", "stopped"}
  /\ Stage(k, "done")
  /\ UNCHANGED <<mailVars, empty, canceled, readerVars, handler, peerVars, sock, clientVars>>

-----------------------------------------------------------------------------
(***************************************************************************)
(* readClientSessionDescriptions.                                          *)
(***************************************************************************)

ReaderRead(k) ==
  /\ reader[k] = "read"
  /\ sock[k] = "open"
  /\ answers[k] # <<>>
  /\ got' = [got EXCEPT ![k] = Head(answers[k])]
  /\ answers' = [answers EXCEPT ![k] = Tail(@)]
  /\ reader' = [reader EXCEPT ![k] = "apply"]
  /\ UNCHANGED <<mailVars, empty, serveVars, handler, peerVars, sock, offers, remote,
                 answering, rejected>>

ReaderApply(k) ==
  /\ reader[k] = "apply"
  /\ signaling[k] = "have-local-offer"
  /\ signaling' = [signaling EXCEPT ![k] = "stable"]
  /\ pending' = [pending EXCEPT ![k] = None]
  /\ reader' = [reader EXCEPT ![k] = "read"]
  /\ UNCHANGED <<mailVars, empty, serveVars, got, handler, transceivers, senders, sock,
                 clientVars>>

\* Read or SetRemoteDescription fails.
ReaderFailing(k) ==
  \/ reader[k] = "read" /\ (sock[k] = "closed" \/ canceled[k])
  \/ reader[k] = "apply" /\ signaling[k] # "have-local-offer"

ReaderStop_NoShutdown(k) ==
  /\ ReaderFailing(k)
  /\ reader' = [reader EXCEPT ![k] = "stopped"]
  /\ UNCHANGED <<mailVars, empty, serveVars, got, handler, peerVars, sock, clientVars>>
ReaderStop(k) ==
  /\ ReaderFailing(k)
  /\ reader' = [reader EXCEPT ![k] = "stopped"]
  /\ Shutdown(k)
  /\ UNCHANGED <<mailVars, empty, stage, got, handler, peerVars, sock, clientVars>>

-----------------------------------------------------------------------------
(***************************************************************************)
(* handleTrackUpdate.                                                      *)
(***************************************************************************)

HandlerBegin(k) ==
  /\ Mail!Begin(k)
  /\ Handler(k, "replace")
  /\ UNCHANGED <<empty, serveVars, readerVars, peerVars, sock, clientVars>>

HandlerReturn(k) == Mail!Return(k) /\ Handler(k, "idle")

\* replaceTracks, and the decision of renegotiateSession to do nothing.
HasTransceivers_Before(k, v) == transceivers[k]
HasTransceivers(k, v) == transceivers[k] \/ v \notin empty

HandlerReplace(k) ==
  \E v \in inflight[k] :
    /\ handler[k] = "replace"
    /\ signaling[k] # "closed" \/ ~HasTransceivers(k, v)
    /\ senders' = [senders EXCEPT ![k] = IF v \in empty THEN None ELSE v]
    /\ transceivers' = [transceivers EXCEPT ![k] = @ \/ v \notin empty]
    /\ IF HasTransceivers(k, v) THEN Handler(k, "offer") /\ UNCHANGED mailVars
                                ELSE HandlerReturn(k)
    /\ UNCHANGED <<empty, serveVars, readerVars, signaling, pending, sock, clientVars>>

HandlerCreateOffer(k) ==
  /\ handler[k] = "offer"
  /\ signaling[k] # "closed"
  /\ Handler(k, "local")
  /\ UNCHANGED <<mailVars, empty, serveVars, readerVars, peerVars, sock, clientVars>>

\* A broken renegotiateSession, which ignores the error of the next call.
HandlerSetLocal_ErrorIgnored(k) ==
  /\ handler[k] = "local"
  /\ Handler(k, "gather")
  /\ IF signaling[k] = "stable"
     THEN /\ signaling' = [signaling EXCEPT ![k] = "have-local-offer"]
          /\ pending' = [pending EXCEPT ![k] = CHOOSE v \in inflight[k] : TRUE]
     ELSE UNCHANGED <<signaling, pending>>
  /\ UNCHANGED <<mailVars, empty, serveVars, readerVars, transceivers, senders, sock,
                 clientVars>>

HandlerSetLocal(k) ==
  /\ handler[k] = "local"
  /\ signaling[k] = "stable"
  /\ signaling' = [signaling EXCEPT ![k] = "have-local-offer"]
  /\ pending' = [pending EXCEPT ![k] = CHOOSE v \in inflight[k] : TRUE]
  /\ Handler(k, "gather")
  /\ UNCHANGED <<mailVars, empty, serveVars, readerVars, transceivers, senders, sock,
                 clientVars>>

HandlerGather(k) ==
  /\ handler[k] = "gather"
  /\ Handler(k, "send")
  /\ UNCHANGED <<mailVars, empty, serveVars, readerVars, peerVars, sock, clientVars>>

HandlerSend(k) ==
  \E v \in inflight[k] :
    /\ handler[k] = "send"
    /\ sock[k] = "open"
    /\ ~canceled[k]
    /\ offers' = [offers EXCEPT ![k] = Append(@, v)]
    /\ HandlerReturn(k)
    /\ UNCHANGED <<empty, serveVars, readerVars, peerVars, sock, answers, remote, answering,
                   rejected>>

\* A broken handleTrackUpdate, which only returns.
HandlerFails_NoShutdown(k) ==
  /\ handler[k] \in {"replace", "offer", "local", "send"}
  /\ HandlerReturn(k)
  /\ UNCHANGED <<empty, serveVars, readerVars, peerVars, sock, clientVars>>

\* A call to the PeerConnection or the write fails; it must fail after Close,
\* when an offer is still unanswered, or when the socket is gone.
HandlerFails(k) ==
  /\ handler[k] \in {"replace", "offer", "local", "send"}
  /\ Shutdown(k)
  /\ HandlerReturn(k)
  /\ UNCHANGED <<empty, stage, readerVars, peerVars, sock, clientVars>>

-----------------------------------------------------------------------------
(***************************************************************************)
(* The client: Backend.ts.  The browser may reject every step of           *)
(* handleRTCOffer, and the client ignores that: it sends no answer, and    *)
(* nobody tells the server.                                                *)
(***************************************************************************)

\* handleRTCOffer up to its first await; the socket may deliver another
\* message before the answer is ready.
ClientOffer(k) ==
  /\ sock[k] = "open"
  /\ offers[k] # <<>>
  /\ remote' = [remote EXCEPT ![k] = Head(offers[k])]
  /\ answering' = [answering EXCEPT ![k] = @ \union {Head(offers[k])}]
  /\ offers' = [offers EXCEPT ![k] = Tail(@)]
  /\ UNCHANGED <<mailVars, empty, serveVars, readerVars, handler, peerVars, sock, answers,
                 rejected>>

\* setRemoteDescription is rejected; createAnswer, which goes on all the same,
\* has no offer to answer then.
ClientOfferRejected(k) ==
  /\ sock[k] = "open"
  /\ offers[k] # <<>>
  /\ rejected' = [rejected EXCEPT ![k] = Head(offers[k])]
  /\ offers' = [offers EXCEPT ![k] = Tail(@)]
  /\ UNCHANGED <<mailVars, empty, serveVars, readerVars, handler, peerVars, sock, answers,
                 remote, answering>>

\* The end of handleRTCOffer; the answer to an offer that was replaced is
\* rejected and dropped.
ClientAnswer(k) ==
  \E v \in answering[k] :
    /\ answering' = [answering EXCEPT ![k] = @ \ {v}]
    /\ answers' = IF sock[k] = "open" /\ remote[k] = v
                  THEN [answers EXCEPT ![k] = Append(@, v)] ELSE answers
    /\ UNCHANGED <<mailVars, empty, serveVars, readerVars, handler, peerVars, sock, offers,
                   remote, rejected>>

\* createAnswer or setLocalDescription is rejected.
ClientAnswerRejected(k) ==
  \E v \in answering[k] :
    /\ answering' = [answering EXCEPT ![k] = @ \ {v}]
    /\ rejected' = [rejected EXCEPT ![k] = v]
    /\ UNCHANGED <<mailVars, empty, serveVars, readerVars, handler, peerVars, sock, offers,
                   answers, remote>>

\* The user leaves the page, or the connection is lost.
ClientLeave(k) ==
  /\ sock[k] = "open"
  /\ sock' = [sock EXCEPT ![k] = "closed"]
  /\ UNCHANGED <<mailVars, empty, serveVars, readerVars, handler, peerVars, clientVars>>

-----------------------------------------------------------------------------

ServeStep(k) ==
  \/ NewPeer(k) \/ NewPeerFails(k) \/ WatchTracks(k)
  \/ CancelLeave(k) \/ CancelClose(k) \/ PeerClose(k) \/ SocketClose(k)
  \/ WaitWatch(k) \/ WaitReader(k)

ReaderStep(k) == ReaderRead(k) \/ ReaderApply(k) \/ ReaderStop(k)

HandlerStep(k) ==
  \/ HandlerBegin(k) \/ HandlerReplace(k) \/ HandlerCreateOffer(k)
  \/ HandlerSetLocal(k) \/ HandlerGather(k) \/ HandlerSend(k) \/ HandlerFails(k)

ClientStep(k) ==
  \/ ClientOffer(k) \/ ClientOfferRejected(k)
  \/ ClientAnswer(k) \/ ClientAnswerRejected(k)

Next ==
  \/ TunerSet
  \/ \E k \in Session :
       \/ Post(k) \/ Terminate(k)
       \/ Accept(k) \/ ServeStep(k) \/ ReaderStep(k) \/ HandlerStep(k)
       \/ ClientStep(k) \/ ClientLeave(k)

Spec == Init /\ [][Next]_vars

(***************************************************************************)
(* Goroutines that can take a step are scheduled, and so are the callbacks *)
(* of a client that stays, with either outcome.  Nothing makes the tuner   *)
(* store new tracks, nor a client connect or leave.                        *)
(***************************************************************************)
FairSpec ==
  /\ Spec
  /\ \A k \in Session :
       /\ WF_vars(Post(k)) /\ WF_vars(Terminate(k))
       /\ SF_vars(ServeStep(k)) /\ WF_vars(ReaderStep(k)) /\ WF_vars(HandlerStep(k))
       /\ WF_vars(ClientStep(k))

-----------------------------------------------------------------------------
(***************************************************************************)
(* Properties.                                                             *)
(***************************************************************************)

\* ServeHTTP returns only when nothing of the session is left running: no
\* handler, none that could start, no reader, no PeerConnection, no socket.
QuietAfterReturn ==
  \A k \in Session : stage[k] = "done" =>
    /\ handler[k] = "idle" /\ inflight[k] = {}
    /\ k \notin listening /\ phase[k] \in {"new", "closed"}
    /\ reader[k] \in {"off", "stopped"}
    /\ signaling[k] \in {"none", "closed"}
    /\ sock[k] # "open"

\* An answer that the server applies belongs to the offer that is pending,
\* although answers carry nothing that says which offer they belong to.
AnswerFitsOffer ==
  \A k \in Session :
    reader[k] = "apply" /\ signaling[k] = "have-local-offer" => got[k] = pending[k]

Settled(k) ==
  /\ stage[k] = "open" /\ ~canceled[k] /\ sock[k] = "open"
  /\ k \notin due /\ box[k] = {} /\ handler[k] = "idle"
  /\ signaling[k] = "stable" /\ reader[k] = "read"
  /\ offers[k] = <<>> /\ answers[k] = <<>> /\ answering[k] = {}

\* When nothing is under way in a session and every offer was answered, client
\* and server agree on the tracks, and they are the tuner's: a session never
\* comes to rest out of step.
InSync ==
  \A k \in Session : Settled(k) =>
    /\ senders[k] = IF value \in empty THEN None ELSE value
    /\ IF transceivers[k] THEN remote[k] = value ELSE value \in empty

\* Every change of the tracks reaches the client of a session that goes on,
\* or a later change does, or there is nothing to tell: the tuner has no
\* tracks and the client was never offered any.  A client whose browser has
\* rejected an offer or its answer is not told more than that offer, but only
\* as long as the tracks stay the same: their next change ends its session.
TracksReachClient ==
  \A k \in Session, n \in Version :
    (stage[k] = "open" /\ value = n) ~>
      \/ remote[k] >= n
      \/ canceled[k]
      \/ rejected[k] = value
      \/ ~transceivers[k] /\ handler[k] = "idle" /\ value \in empty

\* When the client is gone the session comes to an end.
SessionEnds == \A k \in Session : sock[k] = "closed" ~> stage[k] = "done"

=============================================================================
