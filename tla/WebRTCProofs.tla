---------------------------- MODULE WebRTCProofs ----------------------------
(***************************************************************************)
(* Safety of module WebRTC for every set of sessions and every number of   *)
(* changes of the tracks.                                                  *)
(***************************************************************************)
EXTENDS WebRTC, SequenceTheorems, TLAPS

\* The mailboxes of the sessions, with what is proved about them.
Box == INSTANCE WatchContractProofs WITH Watcher <- Session

\* What the PeerConnection has to send when the tuner has these tracks.
Tracks(v) == IF v \in empty THEN None ELSE v

\* ServeHTTP, its watch, its PeerConnection, its reader and its socket are at
\* places that fit each other.
Serving(k) ==
  /\ stage[k] \in {"new", "peer", "watch"} => phase[k] = "new"
  /\ stage[k] \in {"new", "peer"} => signaling[k] = "none" /\ reader[k] = "off"
  /\ stage[k] \in {"watch", "open", "leave", "close"} =>
       signaling[k] \in {"stable", "have-local-offer"}
  /\ stage[k] = "open" => k \in listening
  /\ stage[k] = "leave" => phase[k] = "open" /\ k \notin listening
  /\ stage[k] = "close" => phase[k] \in {"closing", "closed"}
  /\ stage[k] \in {"hangup", "wait", "drain", "done"} =>
       /\ phase[k] \in {"new", "closing", "closed"}
       /\ signaling[k] \in {"none", "closed"}
  /\ stage[k] \in {"drain", "done"} => phase[k] \in {"new", "closed"}
  /\ stage[k] \in {"wait", "drain", "done"} => sock[k] # "open"
  /\ stage[k] = "new" => sock[k] = "none"
  /\ stage[k] = "done" => reader[k] \in {"off", "stopped"}

\* The handler executes on one version, and has replaced the tracks by those
\* of that version before it negotiates.
Handling(k) ==
  /\ handler[k] = "idle" <=> inflight[k] = {}
  /\ handler[k] \in {"offer", "local", "gather", "send"} =>
       transceivers[k] /\ \A v \in inflight[k] : senders[k] = Tracks(v)

\* An offer and its answer are the token of an exchange: the server has it until
\* the offer is sent, then it is on its way to the client, with the client, on
\* its way back, and with the reader.  It is never in two of these places.
Offering(k) == handler[k] \in {"gather", "send"}

NoToken(k) ==
  /\ ~Offering(k) /\ offers[k] = <<>> /\ answering[k] = {}
  /\ answers[k] = <<>> /\ reader[k] # "apply"

OneToken(k) ==
  /\ Offering(k) => inflight[k] = {pending[k]} /\ offers[k] = <<>>
  /\ Offering(k) \/ offers[k] # <<>> => answering[k] = {}
  /\ Offering(k) \/ offers[k] # <<>> \/ answering[k] # {} => answers[k] = <<>>
  /\ Offering(k) \/ offers[k] # <<>> \/ answering[k] # {} \/ answers[k] # <<>> =>
       reader[k] # "apply"
  /\ offers[k] # <<>> => offers[k] = <<pending[k]>>
  /\ answering[k] # {} => answering[k] = {pending[k]} /\ remote[k] = pending[k]
  /\ answers[k] # <<>> => answers[k] = <<pending[k]>> /\ remote[k] = pending[k]
  /\ reader[k] = "apply" => got[k] = pending[k] /\ remote[k] = pending[k]

Exchange(k) ==
  /\ signaling[k] \in {"none", "stable"} => NoToken(k)
  /\ signaling[k] = "have-local-offer" => OneToken(k)

\* The client knows of the tuner's tracks, or will unless the session ends.
Told(k) ==
  \/ box[k] = {value}
  \/ box[k] = {} /\ inflight[k] = {value}
  \/ /\ box[k] = {} /\ inflight[k] = {}
     /\ senders[k] = Tracks(value)
     /\ IF transceivers[k]
        THEN \/ signaling[k] = "have-local-offer" /\ pending[k] = value
             \/ signaling[k] = "stable" /\ remote[k] = value
        ELSE value \in empty

Tracking(k) == stage[k] = "open" /\ ~canceled[k] /\ k \notin due => Told(k)

\* What an exchange depends on.
Deal(k) ==
  <<signaling[k], pending[k], handler[k], inflight[k], offers[k], answering[k],
    answers[k], reader[k], got[k], remote[k]>>

\* What Told depends on, but for the tuner's side.
View(k) ==
  <<box[k], inflight[k], senders[k], transceivers[k], signaling[k], pending[k],
    remote[k]>>

IInv ==
  /\ TypeOK
  /\ Box!MailInv
  /\ \A k \in Session : Serving(k) /\ Handling(k) /\ Exchange(k) /\ Tracking(k)

\* A queue with one message in it.
LEMMA OneMessage ==
  ASSUME NEW v
  PROVE  /\ <<v>> # <<>> /\ Head(<<v>>) = v /\ Tail(<<v>>) = <<>>
         /\ Append(<<>>, v) = <<v>>
OBVIOUS

\* The steps of a session that are not steps of its watch.
LEMMA MailMoves ==
  ASSUME Next
  PROVE  Box!Next \/ UNCHANGED mailVars
BY DEF Next, TunerSet, Post, Terminate, Accept, ServeStep, NewPeer, NewPeerFails,
       WatchTracks, CancelLeave, CancelClose, PeerClose, SocketClose, WaitWatch,
       WaitReader, ReaderStep, ReaderRead, ReaderApply, ReaderStop,
       HandlerStep, HandlerBegin, HandlerReturn, HandlerReplace, HandlerCreateOffer,
       HandlerSetLocal, HandlerGather, HandlerSend, HandlerFails,
       ClientStep, ClientOffer, ClientOfferRejected, ClientAnswer,
       ClientAnswerRejected, ClientLeave, Box!Next, mailVars,
       Mail!Set, Mail!Open, Mail!Post, Mail!Begin, Mail!Return, Mail!Leave,
       Mail!Close, Mail!Terminate,
       Box!Set, Box!Open, Box!Post, Box!Begin, Box!Return, Box!Leave,
       Box!Close, Box!Terminate

\* The mailboxes keep the invariant of their contract.
LEMMA BoxStep ==
  ASSUME IInv, Next
  PROVE  Box!MailInv' /\ Mail!TypeOK'
<1>1. Box!MailInv'
  <2>1. CASE Box!Next
    BY <2>1, WebRTCAssumption, Box!MailStep DEF IInv
  <2>2. CASE UNCHANGED mailVars
    BY <2>2 DEF IInv, mailVars, Box!MailInv, Box!TypeOK, Box!Mailbox
  <2> QED BY <2>1, <2>2, MailMoves
<1> QED BY <1>1 DEF Box!MailInv, Box!TypeOK, Mail!TypeOK, Box!Phase, Mail!Phase

\* Types are preserved.
LEMMA TypeStep ==
  ASSUME IInv, Next
  PROVE  TypeOK'
<1> USE WebRTCAssumption
    DEF IInv, TypeOK, Version, None,
        mailVars, serveVars, readerVars, peerVars, clientVars
<1>1. ASSUME TunerSet PROVE TypeOK'
  <2>1. value' = value + 1 /\ value \in Nat
    BY <1>1 DEF TunerSet, Mail!Set, Mail!TypeOK
  <2>2. empty' \subseteq 1..value'
    BY <1>1, <2>1 DEF TunerSet
  <2>3. Mail!TypeOK'
    BY BoxStep
  <2> QED BY <1>1, <2>2, <2>3 DEF TunerSet, Mail!Set
<1>2. ASSUME NEW k \in Session, Post(k) PROVE TypeOK'
  BY <1>2, BoxStep DEF Post, Mail!Post
<1>3. ASSUME NEW k \in Session, Terminate(k) PROVE TypeOK'
  BY <1>3, BoxStep DEF Terminate, Mail!Terminate
<1>4. ASSUME NEW k \in Session, Accept(k) PROVE TypeOK'
  BY <1>4, BoxStep DEF Accept, Stage
<1>5. ASSUME NEW k \in Session, NewPeer(k) PROVE TypeOK'
  BY <1>5, BoxStep DEF NewPeer, Stage
<1>6. ASSUME NEW k \in Session, NewPeerFails(k) PROVE TypeOK'
  BY <1>6, BoxStep DEF NewPeerFails, Stage
<1>7. ASSUME NEW k \in Session, WatchTracks(k) PROVE TypeOK'
  BY <1>7, BoxStep DEF WatchTracks, Mail!Open, Stage
<1>8. ASSUME NEW k \in Session, CancelLeave(k) PROVE TypeOK'
  BY <1>8, BoxStep DEF CancelLeave, Mail!Leave, Stage
<1>9. ASSUME NEW k \in Session, CancelClose(k) PROVE TypeOK'
  BY <1>9, BoxStep DEF CancelClose, Mail!Close, Stage
<1>10. ASSUME NEW k \in Session, PeerClose(k) PROVE TypeOK'
  BY <1>10, BoxStep DEF PeerClose, Stage
<1>11. ASSUME NEW k \in Session, SocketClose(k) PROVE TypeOK'
  BY <1>11, BoxStep DEF SocketClose, Stage
<1>12. ASSUME NEW k \in Session, WaitWatch(k) PROVE TypeOK'
  BY <1>12, BoxStep DEF WaitWatch, Stage
<1>13. ASSUME NEW k \in Session, WaitReader(k) PROVE TypeOK'
  BY <1>13, BoxStep DEF WaitReader, Stage
<1>14. ASSUME NEW k \in Session, ReaderRead(k) PROVE TypeOK'
  <2>1. Head(answers[k]) \in Version /\ Tail(answers[k]) \in Seq(Version)
    BY <1>14, HeadTailProperties DEF ReaderRead
  <2> QED BY <1>14, <2>1, BoxStep DEF ReaderRead
<1>15. ASSUME NEW k \in Session, ReaderApply(k) PROVE TypeOK'
  BY <1>15, BoxStep DEF ReaderApply
<1>16. ASSUME NEW k \in Session, ReaderStop(k) PROVE TypeOK'
  BY <1>16, BoxStep DEF ReaderStop, ReaderFailing, Shutdown
<1>17. ASSUME NEW k \in Session, HandlerBegin(k) PROVE TypeOK'
  BY <1>17, BoxStep DEF HandlerBegin, Handler, Mail!Begin
<1>18. ASSUME NEW k \in Session, HandlerReplace(k) PROVE TypeOK'
  <2>1. inflight[k] \in {{}} \union {{n} : n \in Version} /\ empty \subseteq 1..value
    BY DEF Mail!TypeOK
  <2>2. PICK v \in inflight[k] :
          /\ senders' = [senders EXCEPT ![k] = IF v \in empty THEN None ELSE v]
          /\ transceivers' = [transceivers EXCEPT ![k] = @ \/ v \notin empty]
          /\ handler' \in {[handler EXCEPT ![k] = "offer"],
                           [handler EXCEPT ![k] = "idle"]}
          /\ UNCHANGED <<value, empty, serveVars, readerVars, signaling, pending, sock,
                         clientVars>>
    BY <1>18 DEF HandlerReplace, Handler, HandlerReturn, Mail!Return
  <2>3. (IF v \in empty THEN None ELSE v) \in Version \union {None}
    BY <2>1
  <2>4. senders' \in [Session -> Version \union {None}]
    BY <2>2, <2>3
  <2>5. /\ transceivers' \in [Session -> BOOLEAN]
        /\ handler' \in [Session ->
                           {"idle", "replace", "offer", "local", "gather", "send"}]
    BY <2>2
  <2> QED BY <2>2, <2>4, <2>5, BoxStep
<1>19. ASSUME NEW k \in Session, HandlerCreateOffer(k) PROVE TypeOK'
  BY <1>19, BoxStep DEF HandlerCreateOffer, Handler
<1>20. ASSUME NEW k \in Session, HandlerSetLocal(k) PROVE TypeOK'
  <2>1. inflight[k] # {}
    BY <1>20 DEF HandlerSetLocal, Handling
  <2>2. inflight[k] \in {{}} \union {{n} : n \in Version}
    BY DEF Mail!TypeOK
  <2>3. (CHOOSE v \in inflight[k] : TRUE) \in Version
    <3> HIDE DEF IInv, TypeOK, Version
    <3> QED BY <2>1, <2>2
  <2> QED BY <1>20, <2>3, BoxStep DEF HandlerSetLocal, Handler
<1>21. ASSUME NEW k \in Session, HandlerGather(k) PROVE TypeOK'
  BY <1>21, BoxStep DEF HandlerGather, Handler
<1>22. ASSUME NEW k \in Session, HandlerSend(k) PROVE TypeOK'
  <2>1. PICK v \in inflight[k] : offers' = [offers EXCEPT ![k] = Append(offers[k], v)]
    BY <1>22 DEF HandlerSend
  <2>2. inflight[k] \in {{}} \union {{n} : n \in Version}
    BY DEF Mail!TypeOK
  <2>3. Append(offers[k], v) \in Seq(Version)
    BY <2>1, <2>2, AppendProperties
  <2> QED BY <1>22, <2>1, <2>3, BoxStep
         DEF HandlerSend, Handler, HandlerReturn, Mail!Return
<1>23. ASSUME NEW k \in Session, HandlerFails(k) PROVE TypeOK'
  BY <1>23, BoxStep DEF HandlerFails, Handler, HandlerReturn, Mail!Return, Shutdown
<1>24. ASSUME NEW k \in Session, ClientOffer(k) PROVE TypeOK'
  <2>1. Head(offers[k]) \in Version /\ Tail(offers[k]) \in Seq(Version)
    BY <1>24, HeadTailProperties DEF ClientOffer
  <2> QED BY <1>24, <2>1, BoxStep DEF ClientOffer
<1>25. ASSUME NEW k \in Session, ClientAnswer(k) PROVE TypeOK'
  BY <1>25, BoxStep DEF ClientAnswer
<1>26. ASSUME NEW k \in Session, ClientLeave(k) PROVE TypeOK'
  BY <1>26, BoxStep DEF ClientLeave
<1>27. ASSUME NEW k \in Session, ClientOfferRejected(k) PROVE TypeOK'
  <2>1. Head(offers[k]) \in Version /\ Tail(offers[k]) \in Seq(Version)
    BY <1>27, HeadTailProperties DEF ClientOfferRejected
  <2> QED BY <1>27, <2>1, BoxStep DEF ClientOfferRejected
<1>28. ASSUME NEW k \in Session, ClientAnswerRejected(k) PROVE TypeOK'
  BY <1>28, BoxStep DEF ClientAnswerRejected
<1> QED BY <1>1, <1>2, <1>3, <1>4, <1>5, <1>6, <1>7, <1>8, <1>9,
         <1>10, <1>11, <1>12, <1>13, <1>14, <1>15, <1>16, <1>17, <1>18,
         <1>19, <1>20, <1>21, <1>22, <1>23, <1>24, <1>25, <1>26, <1>27, <1>28
    DEF Next, ServeStep, ReaderStep, HandlerStep, ClientStep

\* ServeHTTP and what it started move together.
LEMMA ServingStep ==
  ASSUME IInv, Next
  PROVE  \A j \in Session : Serving(j)'
<1> USE WebRTCAssumption
    DEF IInv, TypeOK, Box!MailInv, Box!Mailbox, Box!TypeOK, Serving,
        mailVars, serveVars, readerVars, peerVars, clientVars
<1>1. ASSUME TunerSet PROVE \A j \in Session : Serving(j)'
  BY <1>1 DEF TunerSet, Mail!Set
<1>2. ASSUME NEW k \in Session, Post(k) PROVE \A j \in Session : Serving(j)'
  BY <1>2 DEF Post, Mail!Post
<1>3. ASSUME NEW k \in Session, Terminate(k)
     PROVE \A j \in Session : Serving(j)'
  BY <1>3 DEF Terminate, Mail!Terminate
<1>4. ASSUME NEW k \in Session, Accept(k) PROVE \A j \in Session : Serving(j)'
  BY <1>4 DEF Accept, Stage
<1>5. ASSUME NEW k \in Session, NewPeer(k) PROVE \A j \in Session : Serving(j)'
  BY <1>5 DEF NewPeer, Stage
<1>6. ASSUME NEW k \in Session, NewPeerFails(k)
     PROVE \A j \in Session : Serving(j)'
  BY <1>6 DEF NewPeerFails, Stage
<1>7. ASSUME NEW k \in Session, WatchTracks(k)
     PROVE \A j \in Session : Serving(j)'
  BY <1>7 DEF WatchTracks, Mail!Open, Stage
<1>8. ASSUME NEW k \in Session, CancelLeave(k)
     PROVE \A j \in Session : Serving(j)'
  BY <1>8 DEF CancelLeave, Mail!Leave, Stage
<1>9. ASSUME NEW k \in Session, CancelClose(k)
     PROVE \A j \in Session : Serving(j)'
  BY <1>9 DEF CancelClose, Mail!Close, Stage
<1>10. ASSUME NEW k \in Session, PeerClose(k)
      PROVE \A j \in Session : Serving(j)'
  BY <1>10 DEF PeerClose, Stage
<1>11. ASSUME NEW k \in Session, SocketClose(k)
      PROVE \A j \in Session : Serving(j)'
  BY <1>11 DEF SocketClose, Stage
<1>12. ASSUME NEW k \in Session, WaitWatch(k)
      PROVE \A j \in Session : Serving(j)'
  BY <1>12 DEF WaitWatch, Stage
<1>13. ASSUME NEW k \in Session, WaitReader(k)
      PROVE \A j \in Session : Serving(j)'
  BY <1>13 DEF WaitReader, Stage
<1>14. ASSUME NEW k \in Session, ReaderRead(k)
      PROVE \A j \in Session : Serving(j)'
  BY <1>14 DEF ReaderRead
<1>15. ASSUME NEW k \in Session, ReaderApply(k)
      PROVE \A j \in Session : Serving(j)'
  BY <1>15 DEF ReaderApply
<1>16. ASSUME NEW k \in Session, ReaderStop(k)
      PROVE \A j \in Session : Serving(j)'
  BY <1>16 DEF ReaderStop, ReaderFailing, Shutdown
<1>17. ASSUME NEW k \in Session, HandlerBegin(k)
      PROVE \A j \in Session : Serving(j)'
  BY <1>17 DEF HandlerBegin, Handler, Mail!Begin
<1>18. ASSUME NEW k \in Session, HandlerReplace(k)
      PROVE \A j \in Session : Serving(j)'
  BY <1>18 DEF HandlerReplace, Handler, HandlerReturn, Mail!Return, HasTransceivers
<1>19. ASSUME NEW k \in Session, HandlerCreateOffer(k)
      PROVE \A j \in Session : Serving(j)'
  BY <1>19 DEF HandlerCreateOffer, Handler
<1>20. ASSUME NEW k \in Session, HandlerSetLocal(k)
      PROVE \A j \in Session : Serving(j)'
  BY <1>20 DEF HandlerSetLocal, Handler
<1>21. ASSUME NEW k \in Session, HandlerGather(k)
      PROVE \A j \in Session : Serving(j)'
  BY <1>21 DEF HandlerGather, Handler
<1>22. ASSUME NEW k \in Session, HandlerSend(k)
      PROVE \A j \in Session : Serving(j)'
  BY <1>22 DEF HandlerSend, Handler, HandlerReturn, Mail!Return
<1>23. ASSUME NEW k \in Session, HandlerFails(k)
      PROVE \A j \in Session : Serving(j)'
  BY <1>23 DEF HandlerFails, Handler, HandlerReturn, Mail!Return, Shutdown
<1>24. ASSUME NEW k \in Session, ClientOffer(k)
      PROVE \A j \in Session : Serving(j)'
  BY <1>24 DEF ClientOffer
<1>25. ASSUME NEW k \in Session, ClientAnswer(k)
      PROVE \A j \in Session : Serving(j)'
  BY <1>25 DEF ClientAnswer
<1>26. ASSUME NEW k \in Session, ClientLeave(k)
      PROVE \A j \in Session : Serving(j)'
  BY <1>26 DEF ClientLeave
<1>27. ASSUME NEW k \in Session, ClientOfferRejected(k)
      PROVE \A j \in Session : Serving(j)'
  BY <1>27 DEF ClientOfferRejected
<1>28. ASSUME NEW k \in Session, ClientAnswerRejected(k)
      PROVE \A j \in Session : Serving(j)'
  BY <1>28 DEF ClientAnswerRejected
<1> QED BY <1>1, <1>2, <1>3, <1>4, <1>5, <1>6, <1>7, <1>8, <1>9,
         <1>10, <1>11, <1>12, <1>13, <1>14, <1>15, <1>16, <1>17, <1>18,
         <1>19, <1>20, <1>21, <1>22, <1>23, <1>24, <1>25, <1>26, <1>27, <1>28
    DEF Next, ServeStep, ReaderStep, HandlerStep, ClientStep

\* The handler offers the tracks that it has replaced.
LEMMA HandlingStep ==
  ASSUME IInv, Next
  PROVE  \A j \in Session : Handling(j)'
<1> USE WebRTCAssumption
    DEF IInv, TypeOK, Box!MailInv, Box!Mailbox, Box!TypeOK, Handling, Tracks,
        mailVars, serveVars, readerVars, peerVars, clientVars
<1>1. ASSUME TunerSet PROVE \A j \in Session : Handling(j)'
  BY <1>1 DEF TunerSet, Mail!Set
<1>2. ASSUME NEW k \in Session, Post(k) PROVE \A j \in Session : Handling(j)'
  BY <1>2 DEF Post, Mail!Post
<1>3. ASSUME NEW k \in Session, Terminate(k)
     PROVE \A j \in Session : Handling(j)'
  BY <1>3 DEF Terminate, Mail!Terminate
<1>4. ASSUME NEW k \in Session, Accept(k) PROVE \A j \in Session : Handling(j)'
  BY <1>4 DEF Accept, Stage
<1>5. ASSUME NEW k \in Session, NewPeer(k)
     PROVE \A j \in Session : Handling(j)'
  BY <1>5 DEF NewPeer, Stage
<1>6. ASSUME NEW k \in Session, NewPeerFails(k)
     PROVE \A j \in Session : Handling(j)'
  BY <1>6 DEF NewPeerFails, Stage
<1>7. ASSUME NEW k \in Session, WatchTracks(k)
     PROVE \A j \in Session : Handling(j)'
  BY <1>7 DEF WatchTracks, Mail!Open, Stage
<1>8. ASSUME NEW k \in Session, CancelLeave(k)
     PROVE \A j \in Session : Handling(j)'
  BY <1>8 DEF CancelLeave, Mail!Leave, Stage
<1>9. ASSUME NEW k \in Session, CancelClose(k)
     PROVE \A j \in Session : Handling(j)'
  BY <1>9 DEF CancelClose, Mail!Close, Stage
<1>10. ASSUME NEW k \in Session, PeerClose(k)
      PROVE \A j \in Session : Handling(j)'
  BY <1>10 DEF PeerClose, Stage
<1>11. ASSUME NEW k \in Session, SocketClose(k)
      PROVE \A j \in Session : Handling(j)'
  BY <1>11 DEF SocketClose, Stage
<1>12. ASSUME NEW k \in Session, WaitWatch(k)
      PROVE \A j \in Session : Handling(j)'
  BY <1>12 DEF WaitWatch, Stage
<1>13. ASSUME NEW k \in Session, WaitReader(k)
      PROVE \A j \in Session : Handling(j)'
  BY <1>13 DEF WaitReader, Stage
<1>14. ASSUME NEW k \in Session, ReaderRead(k)
      PROVE \A j \in Session : Handling(j)'
  BY <1>14 DEF ReaderRead
<1>15. ASSUME NEW k \in Session, ReaderApply(k)
      PROVE \A j \in Session : Handling(j)'
  BY <1>15 DEF ReaderApply
<1>16. ASSUME NEW k \in Session, ReaderStop(k)
      PROVE \A j \in Session : Handling(j)'
  BY <1>16 DEF ReaderStop, ReaderFailing, Shutdown
<1>17. ASSUME NEW k \in Session, HandlerBegin(k)
      PROVE \A j \in Session : Handling(j)'
  BY <1>17 DEF HandlerBegin, Handler, Mail!Begin
<1>18. ASSUME NEW k \in Session, HandlerReplace(k)
      PROVE \A j \in Session : Handling(j)'
  <2>1. PICK v \in inflight[k] :
          /\ senders' = [senders EXCEPT ![k] = IF v \in empty THEN None ELSE v]
          /\ transceivers' = [transceivers EXCEPT ![k] = @ \/ v \notin empty]
          /\ \/ /\ transceivers[k] \/ v \notin empty
                /\ handler' = [handler EXCEPT ![k] = "offer"]
                /\ UNCHANGED inflight
             \/ /\ handler' = [handler EXCEPT ![k] = "idle"]
                /\ inflight' = [inflight EXCEPT ![k] = {}]
          /\ UNCHANGED empty
    BY <1>18 DEF HandlerReplace, HasTransceivers, Handler, HandlerReturn, Mail!Return,
                mailVars
  <2>2. inflight[k] = {v}
    <3>1. inflight[k] \in {{}} \union {{n} : n \in 1..MaxValue}
      OBVIOUS
    <3> HIDE DEF IInv, TypeOK
    <3> QED BY <2>1, <3>1
  <2>3. /\ senders'[k] = (IF v \in empty THEN None ELSE v)
        /\ transceivers'[k] = (transceivers[k] \/ v \notin empty)
        /\ empty' = empty
    BY <2>1
  <2>4. \/ /\ handler'[k] = "offer" /\ inflight'[k] = {v}
           /\ transceivers[k] \/ v \notin empty
        \/ handler'[k] = "idle" /\ inflight'[k] = {}
    BY <2>1, <2>2
  <2>5. \A j \in Session \ {k} : Handling(j)'
    <3>1. \A j \in Session \ {k} :
            /\ handler'[j] = handler[j] /\ inflight'[j] = inflight[j]
            /\ transceivers'[j] = transceivers[j] /\ senders'[j] = senders[j]
      BY <2>1
    <3> QED BY <2>1, <3>1
  <2> HIDE DEF IInv, TypeOK
  <2>6. Handling(k)'
    BY <2>3, <2>4
  <2> QED BY <2>5, <2>6
<1>19. ASSUME NEW k \in Session, HandlerCreateOffer(k)
      PROVE \A j \in Session : Handling(j)'
  BY <1>19 DEF HandlerCreateOffer, Handler
<1>20. ASSUME NEW k \in Session, HandlerSetLocal(k)
      PROVE \A j \in Session : Handling(j)'
  BY <1>20 DEF HandlerSetLocal, Handler
<1>21. ASSUME NEW k \in Session, HandlerGather(k)
      PROVE \A j \in Session : Handling(j)'
  BY <1>21 DEF HandlerGather, Handler
<1>22. ASSUME NEW k \in Session, HandlerSend(k)
      PROVE \A j \in Session : Handling(j)'
  BY <1>22 DEF HandlerSend, Handler, HandlerReturn, Mail!Return
<1>23. ASSUME NEW k \in Session, HandlerFails(k)
      PROVE \A j \in Session : Handling(j)'
  BY <1>23 DEF HandlerFails, Handler, HandlerReturn, Mail!Return, Shutdown
<1>24. ASSUME NEW k \in Session, ClientOffer(k)
      PROVE \A j \in Session : Handling(j)'
  BY <1>24 DEF ClientOffer
<1>25. ASSUME NEW k \in Session, ClientAnswer(k)
      PROVE \A j \in Session : Handling(j)'
  BY <1>25 DEF ClientAnswer
<1>26. ASSUME NEW k \in Session, ClientLeave(k)
      PROVE \A j \in Session : Handling(j)'
  BY <1>26 DEF ClientLeave
<1>27. ASSUME NEW k \in Session, ClientOfferRejected(k)
      PROVE \A j \in Session : Handling(j)'
  BY <1>27 DEF ClientOfferRejected
<1>28. ASSUME NEW k \in Session, ClientAnswerRejected(k)
      PROVE \A j \in Session : Handling(j)'
  BY <1>28 DEF ClientAnswerRejected
<1> QED BY <1>1, <1>2, <1>3, <1>4, <1>5, <1>6, <1>7, <1>8, <1>9,
         <1>10, <1>11, <1>12, <1>13, <1>14, <1>15, <1>16, <1>17, <1>18,
         <1>19, <1>20, <1>21, <1>22, <1>23, <1>24, <1>25, <1>26, <1>27, <1>28
    DEF Next, ServeStep, ReaderStep, HandlerStep, ClientStep

\* An exchange changes only with what it depends on.
LEMMA DealKept ==
  ASSUME NEW j \in Session, Exchange(j), Deal(j)' = Deal(j)
  PROVE  Exchange(j)'
BY DEF Exchange, NoToken, OneToken, Offering, Deal

\* There is one token at most, and it belongs to the pending offer.
LEMMA ExchangeStep ==
  ASSUME IInv, Next
  PROVE  \A j \in Session : Exchange(j)'
<1> USE WebRTCAssumption
    DEF IInv, TypeOK, Box!MailInv, Box!Mailbox, Box!TypeOK, Serving, Handling,
        Exchange, NoToken, OneToken, Offering, Deal,
        mailVars, serveVars, readerVars, peerVars, clientVars
<1>1. ASSUME TunerSet PROVE \A j \in Session : Exchange(j)'
  BY <1>1 DEF TunerSet, Mail!Set
<1>2. ASSUME NEW k \in Session, Post(k) PROVE \A j \in Session : Exchange(j)'
  BY <1>2 DEF Post, Mail!Post
<1>3. ASSUME NEW k \in Session, Terminate(k)
     PROVE \A j \in Session : Exchange(j)'
  BY <1>3 DEF Terminate, Mail!Terminate
<1>4. ASSUME NEW k \in Session, Accept(k) PROVE \A j \in Session : Exchange(j)'
  BY <1>4 DEF Accept, Stage
<1>5. ASSUME NEW k \in Session, NewPeer(k)
     PROVE \A j \in Session : Exchange(j)'
  BY <1>5 DEF NewPeer, Stage
<1>6. ASSUME NEW k \in Session, NewPeerFails(k)
     PROVE \A j \in Session : Exchange(j)'
  BY <1>6 DEF NewPeerFails, Stage
<1>7. ASSUME NEW k \in Session, WatchTracks(k)
     PROVE \A j \in Session : Exchange(j)'
  BY <1>7 DEF WatchTracks, Mail!Open, Stage
<1>8. ASSUME NEW k \in Session, CancelLeave(k)
     PROVE \A j \in Session : Exchange(j)'
  BY <1>8 DEF CancelLeave, Mail!Leave, Stage
<1>9. ASSUME NEW k \in Session, CancelClose(k)
     PROVE \A j \in Session : Exchange(j)'
  BY <1>9 DEF CancelClose, Mail!Close, Stage
<1>10. ASSUME NEW k \in Session, PeerClose(k)
      PROVE \A j \in Session : Exchange(j)'
  BY <1>10 DEF PeerClose, Stage
<1>11. ASSUME NEW k \in Session, SocketClose(k)
      PROVE \A j \in Session : Exchange(j)'
  BY <1>11 DEF SocketClose, Stage
<1>12. ASSUME NEW k \in Session, WaitWatch(k)
      PROVE \A j \in Session : Exchange(j)'
  BY <1>12 DEF WaitWatch, Stage
<1>13. ASSUME NEW k \in Session, WaitReader(k)
      PROVE \A j \in Session : Exchange(j)'
  BY <1>13 DEF WaitReader, Stage
<1>14. ASSUME NEW k \in Session, ReaderRead(k)
      PROVE \A j \in Session : Exchange(j)'
  <2>1. /\ reader[k] = "read" /\ answers[k] # <<>>
        /\ got' = [got EXCEPT ![k] = Head(answers[k])]
        /\ answers' = [answers EXCEPT ![k] = Tail(answers[k])]
        /\ reader' = [reader EXCEPT ![k] = "apply"]
        /\ UNCHANGED <<inflight, handler, signaling, pending, offers, answering, remote>>
    BY <1>14 DEF ReaderRead
  <2>2. \A j \in Session \ {k} : Deal(j)' = Deal(j)
    BY <2>1
  <2>3. /\ got'[k] = Head(answers[k]) /\ answers'[k] = Tail(answers[k])
        /\ reader'[k] = "apply"
    BY <2>1
  <2>4. Exchange(k) /\ signaling[k] \in {"none", "stable", "have-local-offer", "closed"}
    OBVIOUS
  <2> HIDE DEF IInv, TypeOK
  <2>5. Exchange(k)'
    BY <2>1, <2>3, <2>4, OneMessage
  <2> QED BY <2>2, <2>5, DealKept DEF IInv
<1>15. ASSUME NEW k \in Session, ReaderApply(k)
      PROVE \A j \in Session : Exchange(j)'
  BY <1>15 DEF ReaderApply
<1>16. ASSUME NEW k \in Session, ReaderStop(k)
      PROVE \A j \in Session : Exchange(j)'
  BY <1>16 DEF ReaderStop, ReaderFailing, Shutdown
<1>17. ASSUME NEW k \in Session, HandlerBegin(k)
      PROVE \A j \in Session : Exchange(j)'
  <2>1. /\ inflight[k] = {}
        /\ inflight' = [inflight EXCEPT ![k] = box[k]]
        /\ handler' = [handler EXCEPT ![k] = "replace"]
        /\ UNCHANGED <<reader, got, signaling, pending, clientVars>>
    BY <1>17 DEF HandlerBegin, Handler, Mail!Begin
  <2>2. \A j \in Session \ {k} : Deal(j)' = Deal(j)
    BY <2>1
  <2>3. handler[k] = "idle" /\ handler'[k] = "replace" /\ Exchange(k)
    BY <2>1
  <2> HIDE DEF IInv, TypeOK
  <2>4. Exchange(k)'
    BY <2>1, <2>3
  <2> QED BY <2>2, <2>4, DealKept DEF IInv
<1>18. ASSUME NEW k \in Session, HandlerReplace(k)
      PROVE \A j \in Session : Exchange(j)'
  BY <1>18 DEF HandlerReplace, Handler, HandlerReturn, Mail!Return, HasTransceivers
<1>19. ASSUME NEW k \in Session, HandlerCreateOffer(k)
      PROVE \A j \in Session : Exchange(j)'
  BY <1>19 DEF HandlerCreateOffer, Handler
<1>20. ASSUME NEW k \in Session, HandlerSetLocal(k)
      PROVE \A j \in Session : Exchange(j)'
  <2>1. /\ handler[k] = "local" /\ signaling[k] = "stable"
        /\ signaling' = [signaling EXCEPT ![k] = "have-local-offer"]
        /\ pending' = [pending EXCEPT ![k] = CHOOSE v \in inflight[k] : TRUE]
        /\ handler' = [handler EXCEPT ![k] = "gather"]
        /\ UNCHANGED <<inflight, reader, got, clientVars>>
    BY <1>20 DEF HandlerSetLocal, Handler
  <2>2. \A j \in Session \ {k} : Deal(j)' = Deal(j)
    BY <2>1
  <2>3. /\ inflight[k] # {} /\ inflight[k] \in {{}} \union {{n} : n \in 1..MaxValue}
        /\ Exchange(k)
    BY <2>1
  <2>4. /\ signaling'[k] = "have-local-offer" /\ handler'[k] = "gather"
        /\ pending'[k] = CHOOSE v \in inflight[k] : TRUE
    BY <2>1
  <2> HIDE DEF IInv, TypeOK
  <2>5. inflight[k] = {pending'[k]}
    BY <2>3, <2>4
  <2>6. Exchange(k)'
    BY <2>1, <2>3, <2>4, <2>5
  <2> QED BY <2>2, <2>6, DealKept DEF IInv
<1>21. ASSUME NEW k \in Session, HandlerGather(k)
      PROVE \A j \in Session : Exchange(j)'
  BY <1>21 DEF HandlerGather, Handler
<1>22. ASSUME NEW k \in Session, HandlerSend(k)
      PROVE \A j \in Session : Exchange(j)'
  <2>1. PICK v \in inflight[k] :
          /\ handler[k] = "send"
          /\ offers' = [offers EXCEPT ![k] = Append(offers[k], v)]
          /\ handler' = [handler EXCEPT ![k] = "idle"]
          /\ inflight' = [inflight EXCEPT ![k] = {}]
          /\ UNCHANGED <<reader, got, signaling, pending, answers, answering, remote>>
    BY <1>22 DEF HandlerSend, Handler, HandlerReturn, Mail!Return
  <2>2. \A j \in Session \ {k} : Deal(j)' = Deal(j)
    BY <2>1
  <2>3. /\ offers'[k] = Append(offers[k], v) /\ handler'[k] = "idle"
        /\ inflight'[k] = {} /\ Exchange(k)
    BY <2>1
  <2> HIDE DEF IInv, TypeOK
  <2>4. Exchange(k)'
    BY <2>1, <2>3, OneMessage
  <2> QED BY <2>2, <2>4, DealKept DEF IInv
<1>23. ASSUME NEW k \in Session, HandlerFails(k)
      PROVE \A j \in Session : Exchange(j)'
  BY <1>23 DEF HandlerFails, Handler, HandlerReturn, Mail!Return, Shutdown
<1>24. ASSUME NEW k \in Session, ClientOffer(k)
      PROVE \A j \in Session : Exchange(j)'
  <2>1. /\ offers[k] # <<>>
        /\ remote' = [remote EXCEPT ![k] = Head(offers[k])]
        /\ answering' = [answering EXCEPT ![k] = @ \union {Head(offers[k])}]
        /\ offers' = [offers EXCEPT ![k] = Tail(offers[k])]
        /\ UNCHANGED <<inflight, handler, reader, got, signaling, pending, answers>>
    BY <1>24 DEF ClientOffer
  <2>2. \A j \in Session \ {k} : Deal(j)' = Deal(j)
    BY <2>1
  <2>3. /\ remote'[k] = Head(offers[k]) /\ offers'[k] = Tail(offers[k])
        /\ answering'[k] = answering[k] \union {Head(offers[k])}
        /\ Exchange(k)
    BY <2>1
  <2> HIDE DEF IInv, TypeOK
  <2>4. Exchange(k)'
    BY <2>1, <2>3, OneMessage
  <2> QED BY <2>2, <2>4, DealKept DEF IInv
<1>25. ASSUME NEW k \in Session, ClientAnswer(k)
      PROVE \A j \in Session : Exchange(j)'
  <2>1. PICK v \in answering[k] :
          /\ answering' = [answering EXCEPT ![k] = @ \ {v}]
          /\ answers' = IF sock[k] = "open" /\ remote[k] = v
                        THEN [answers EXCEPT ![k] = Append(answers[k], v)] ELSE answers
          /\ UNCHANGED <<inflight, handler, reader, got, signaling, pending, offers, remote>>
    BY <1>25 DEF ClientAnswer
  <2>2. ASSUME NEW j \in Session \ {k} PROVE Deal(j)' = Deal(j)
    <3>1. CASE sock[k] = "open" /\ remote[k] = v
      BY <2>1, <3>1
    <3>2. CASE ~(sock[k] = "open" /\ remote[k] = v)
      BY <2>1, <3>2
    <3> QED BY <3>1, <3>2
  <2>3. answering'[k] = answering[k] \ {v} /\ Exchange(k)
    <3>1. answering' = [answering EXCEPT ![k] = answering[k] \ {v}]
      BY <2>1
    <3>2. answering \in [Session -> SUBSET Version] /\ Exchange(k)
      OBVIOUS
    <3> HIDE DEF IInv, TypeOK, Version, Exchange
    <3> QED BY <3>1, <3>2
  <2>4. answers'[k] = answers[k] \/ answers'[k] = Append(answers[k], v)
    <3>1. CASE sock[k] = "open" /\ remote[k] = v
      BY <2>1, <3>1
    <3>2. CASE ~(sock[k] = "open" /\ remote[k] = v)
      BY <2>1, <3>2
    <3> QED BY <3>1, <3>2
  <2> HIDE DEF IInv, TypeOK
  <2>5. Exchange(k)'
    BY <2>1, <2>3, <2>4, OneMessage
  <2> QED BY <2>2, <2>5, DealKept DEF IInv
<1>26. ASSUME NEW k \in Session, ClientLeave(k)
      PROVE \A j \in Session : Exchange(j)'
  BY <1>26 DEF ClientLeave
<1>27. ASSUME NEW k \in Session, ClientOfferRejected(k)
      PROVE \A j \in Session : Exchange(j)'
  <2>1. /\ offers[k] # <<>>
        /\ offers' = [offers EXCEPT ![k] = Tail(offers[k])]
        /\ UNCHANGED <<inflight, handler, reader, got, signaling, pending, answers,
                       answering, remote>>
    BY <1>27 DEF ClientOfferRejected
  <2>2. \A j \in Session \ {k} : Deal(j)' = Deal(j)
    BY <2>1
  <2>3. offers'[k] = Tail(offers[k]) /\ Exchange(k)
    BY <2>1
  <2> HIDE DEF IInv, TypeOK
  <2>4. Exchange(k)'
    BY <2>1, <2>3, OneMessage
  <2> QED BY <2>2, <2>4, DealKept DEF IInv
<1>28. ASSUME NEW k \in Session, ClientAnswerRejected(k)
      PROVE \A j \in Session : Exchange(j)'
  <2>1. PICK v \in answering[k] :
          /\ answering' = [answering EXCEPT ![k] = answering[k] \ {v}]
          /\ UNCHANGED <<inflight, handler, reader, got, signaling, pending, offers, answers,
                         remote>>
    BY <1>28 DEF ClientAnswerRejected
  <2>2. \A j \in Session \ {k} : Deal(j)' = Deal(j)
    BY <2>1
  <2>3. answering'[k] = answering[k] \ {v} /\ Exchange(k)
    <3>1. answering' = [answering EXCEPT ![k] = answering[k] \ {v}]
      BY <2>1
    <3>2. answering \in [Session -> SUBSET Version] /\ Exchange(k)
      OBVIOUS
    <3> HIDE DEF IInv, TypeOK, Version, Exchange
    <3> QED BY <3>1, <3>2
  <2> HIDE DEF IInv, TypeOK
  <2>4. Exchange(k)'
    BY <2>1, <2>3
  <2> QED BY <2>2, <2>4, DealKept DEF IInv
<1> QED BY <1>1, <1>2, <1>3, <1>4, <1>5, <1>6, <1>7, <1>8, <1>9,
         <1>10, <1>11, <1>12, <1>13, <1>14, <1>15, <1>16, <1>17, <1>18,
         <1>19, <1>20, <1>21, <1>22, <1>23, <1>24, <1>25, <1>26, <1>27, <1>28
    DEF Next, ServeStep, ReaderStep, HandlerStep, ClientStep

\* What a client was told changes only with what it depends on.
LEMMA ToldKept ==
  ASSUME NEW j \in Session, Told(j), View(j)' = View(j), UNCHANGED <<value, empty>>
  PROVE  Told(j)'
BY DEF Told, View, Tracks

\* Every change of the tracks is on its way to a client that stays.
LEMMA TrackingStep ==
  ASSUME IInv, Next
  PROVE  \A j \in Session : Tracking(j)'
<1> USE WebRTCAssumption
    DEF IInv, TypeOK, Box!MailInv, Box!Mailbox, Box!TypeOK, Serving, Tracking, View,
        mailVars, serveVars, readerVars, peerVars, clientVars
<1>1. ASSUME TunerSet PROVE \A j \in Session : Tracking(j)'
  BY <1>1 DEF TunerSet, Mail!Set
<1>2. ASSUME NEW k \in Session, Post(k) PROVE \A j \in Session : Tracking(j)'
  <2>1. /\ due' = due \ {k} /\ box' = [box EXCEPT ![k] = {value}]
        /\ UNCHANGED <<value, inflight, empty, serveVars, peerVars, remote>>
    BY <1>2 DEF Post, Mail!Post
  <2>2. \A j \in Session \ {k} : View(j)' = View(j)
    BY <2>1
  <2>3. Tracking(k)'
    BY <2>1 DEF Told
  <2> QED BY <2>1, <2>2, <2>3, ToldKept
<1>3. ASSUME NEW k \in Session, Terminate(k)
     PROVE \A j \in Session : Tracking(j)'
  BY <1>3, ToldKept DEF Terminate, Mail!Terminate
<1>4. ASSUME NEW k \in Session, Accept(k) PROVE \A j \in Session : Tracking(j)'
  BY <1>4, ToldKept DEF Accept, Stage
<1>5. ASSUME NEW k \in Session, NewPeer(k)
     PROVE \A j \in Session : Tracking(j)'
  <2>1. /\ stage' = [stage EXCEPT ![k] = "watch"]
        /\ signaling' = [signaling EXCEPT ![k] = "stable"]
        /\ UNCHANGED <<mailVars, empty, canceled, transceivers, senders, pending, remote>>
    BY <1>5 DEF NewPeer, Stage
  <2>2. \A j \in Session \ {k} : View(j)' = View(j)
    BY <2>1
  <2> QED BY <2>1, <2>2, ToldKept
<1>6. ASSUME NEW k \in Session, NewPeerFails(k)
     PROVE \A j \in Session : Tracking(j)'
  BY <1>6, ToldKept DEF NewPeerFails, Stage
<1>7. ASSUME NEW k \in Session, WatchTracks(k)
     PROVE \A j \in Session : Tracking(j)'
  BY <1>7, ToldKept DEF WatchTracks, Mail!Open, Stage
<1>8. ASSUME NEW k \in Session, CancelLeave(k)
     PROVE \A j \in Session : Tracking(j)'
  BY <1>8, ToldKept DEF CancelLeave, Mail!Leave, Stage
<1>9. ASSUME NEW k \in Session, CancelClose(k)
     PROVE \A j \in Session : Tracking(j)'
  <2>1. /\ stage' = [stage EXCEPT ![k] = "close"]
        /\ box' = [box EXCEPT ![k] = {}]
        /\ UNCHANGED <<value, due, inflight, empty, canceled, peerVars, remote>>
    BY <1>9 DEF CancelClose, Stage, Mail!Close
  <2>2. \A j \in Session \ {k} : View(j)' = View(j)
    BY <2>1
  <2> QED BY <2>1, <2>2, ToldKept
<1>10. ASSUME NEW k \in Session, PeerClose(k)
      PROVE \A j \in Session : Tracking(j)'
  <2>1. /\ stage' = [stage EXCEPT ![k] = "hangup"]
        /\ signaling' = [signaling EXCEPT ![k] = "closed"]
        /\ UNCHANGED <<mailVars, empty, canceled, transceivers, senders, pending, remote>>
    BY <1>10 DEF PeerClose, Stage
  <2>2. \A j \in Session \ {k} : View(j)' = View(j)
    BY <2>1
  <2> QED BY <2>1, <2>2, ToldKept
<1>11. ASSUME NEW k \in Session, SocketClose(k)
      PROVE \A j \in Session : Tracking(j)'
  BY <1>11, ToldKept DEF SocketClose, Stage
<1>12. ASSUME NEW k \in Session, WaitWatch(k)
      PROVE \A j \in Session : Tracking(j)'
  BY <1>12, ToldKept DEF WaitWatch, Stage
<1>13. ASSUME NEW k \in Session, WaitReader(k)
      PROVE \A j \in Session : Tracking(j)'
  BY <1>13, ToldKept DEF WaitReader, Stage
<1>14. ASSUME NEW k \in Session, ReaderRead(k)
      PROVE \A j \in Session : Tracking(j)'
  BY <1>14, ToldKept DEF ReaderRead
<1>15. ASSUME NEW k \in Session, ReaderApply(k)
      PROVE \A j \in Session : Tracking(j)'
  <2>1. /\ reader[k] = "apply" /\ signaling[k] = "have-local-offer"
        /\ signaling' = [signaling EXCEPT ![k] = "stable"]
        /\ pending' = [pending EXCEPT ![k] = None]
        /\ UNCHANGED <<mailVars, empty, serveVars, transceivers, senders, remote>>
    BY <1>15 DEF ReaderApply
  <2>2. \A j \in Session \ {k} : View(j)' = View(j)
    BY <2>1
  <2>3. remote[k] = pending[k]
    BY <2>1 DEF Exchange, OneToken
  <2>4. signaling'[k] = "stable"
    BY <2>1
  <2>5. Told(k) => Told(k)'
    BY <2>1, <2>3, <2>4 DEF Told, Tracks
  <2>6. Tracking(k)'
    BY <2>1, <2>5
  <2>7. ASSUME NEW j \in Session \ {k} PROVE Tracking(j)'
    BY <2>1, <2>2, ToldKept
  <2> QED BY <2>6, <2>7
<1>16. ASSUME NEW k \in Session, ReaderStop(k)
      PROVE \A j \in Session : Tracking(j)'
  BY <1>16, ToldKept DEF ReaderStop, ReaderFailing, Shutdown
<1>17. ASSUME NEW k \in Session, HandlerBegin(k)
      PROVE \A j \in Session : Tracking(j)'
  <2>1. /\ inflight[k] = {} /\ box[k] # {}
        /\ inflight' = [inflight EXCEPT ![k] = box[k]]
        /\ box' = [box EXCEPT ![k] = {}]
        /\ UNCHANGED <<value, due, empty, serveVars, peerVars, remote>>
    BY <1>17 DEF HandlerBegin, Mail!Begin
  <2>2. \A j \in Session \ {k} : View(j)' = View(j)
    BY <2>1
  <2>3. inflight'[k] = box[k] /\ box'[k] = {}
    BY <2>1
  <2>4. Told(k) => Told(k)'
    BY <2>1, <2>3 DEF Told
  <2>5. Tracking(k)'
    BY <2>1, <2>4
  <2>6. ASSUME NEW j \in Session \ {k} PROVE Tracking(j)'
    BY <2>1, <2>2, ToldKept
  <2> QED BY <2>5, <2>6
<1>18. ASSUME NEW k \in Session, HandlerReplace(k)
      PROVE \A j \in Session : Tracking(j)'
  <2>1. PICK v \in inflight[k] :
          /\ senders' = [senders EXCEPT ![k] = IF v \in empty THEN None ELSE v]
          /\ transceivers' = [transceivers EXCEPT ![k] = @ \/ v \notin empty]
          /\ \/ UNCHANGED inflight
             \/ /\ ~transceivers[k] /\ v \in empty
                /\ inflight' = [inflight EXCEPT ![k] = {}]
          /\ UNCHANGED <<value, due, box, empty, serveVars, signaling, pending, remote>>
    BY <1>18 DEF HandlerReplace, HasTransceivers, HandlerReturn, Mail!Return
  <2>2. \A j \in Session \ {k} : View(j)' = View(j)
    BY <2>1
  <2>3. /\ senders'[k] = (IF v \in empty THEN None ELSE v)
        /\ transceivers'[k] = (transceivers[k] \/ v \notin empty)
    BY <2>1
  <2>4. \/ inflight'[k] = inflight[k]
        \/ ~transceivers[k] /\ v \in empty /\ inflight'[k] = {}
    BY <2>1
  <2>5. ASSUME Told(k) PROVE Told(k)'
    <3>1. CASE box[k] = {value}
      BY <2>1, <3>1 DEF Told
    <3>2. CASE box[k] = {} /\ inflight[k] = {value}
      BY <2>1, <2>3, <2>4, <3>2 DEF Told, Tracks
    <3> QED BY <2>1, <2>5, <3>1, <3>2 DEF Told
  <2>6. Tracking(k)'
    BY <2>1, <2>5
  <2>7. ASSUME NEW j \in Session \ {k} PROVE Tracking(j)'
    BY <2>1, <2>2, ToldKept
  <2> QED BY <2>6, <2>7
<1>19. ASSUME NEW k \in Session, HandlerCreateOffer(k)
      PROVE \A j \in Session : Tracking(j)'
  BY <1>19, ToldKept DEF HandlerCreateOffer, Handler
<1>20. ASSUME NEW k \in Session, HandlerSetLocal(k)
      PROVE \A j \in Session : Tracking(j)'
  <2>1. /\ handler[k] = "local"
        /\ signaling' = [signaling EXCEPT ![k] = "have-local-offer"]
        /\ pending' = [pending EXCEPT ![k] = CHOOSE v \in inflight[k] : TRUE]
        /\ UNCHANGED <<mailVars, empty, serveVars, transceivers, senders, remote>>
    BY <1>20 DEF HandlerSetLocal
  <2>2. \A j \in Session \ {k} : View(j)' = View(j)
    BY <2>1
  <2>3. inflight[k] # {}
    BY <2>1 DEF Handling
  <2>4. Told(k) => Told(k)'
    BY <2>1, <2>3 DEF Told
  <2>5. Tracking(k)'
    BY <2>1, <2>4
  <2>6. ASSUME NEW j \in Session \ {k} PROVE Tracking(j)'
    BY <2>1, <2>2, ToldKept
  <2> QED BY <2>5, <2>6
<1>21. ASSUME NEW k \in Session, HandlerGather(k)
      PROVE \A j \in Session : Tracking(j)'
  BY <1>21, ToldKept DEF HandlerGather, Handler
<1>22. ASSUME NEW k \in Session, HandlerSend(k)
      PROVE \A j \in Session : Tracking(j)'
  <2>1. /\ handler[k] = "send" /\ inflight[k] # {}
        /\ inflight' = [inflight EXCEPT ![k] = {}]
        /\ UNCHANGED <<value, due, box, empty, serveVars, peerVars, remote>>
    BY <1>22 DEF HandlerSend, HandlerReturn, Mail!Return
  <2>2. \A j \in Session \ {k} : View(j)' = View(j)
    BY <2>1
  <2>3. inflight'[k] = {} /\ Handling(k) /\ Exchange(k)
    BY <2>1
  <2>4. ASSUME stage[k] = "open", Told(k) PROVE Told(k)'
    <3>1. CASE box[k] = {value}
      BY <2>1, <3>1 DEF Told
    <3>2. CASE box[k] = {} /\ inflight[k] = {value}
      <4>1. signaling[k] \in {"stable", "have-local-offer"}
        BY <2>4
      <4>2. signaling[k] = "have-local-offer" /\ pending[k] = value
        <5> HIDE DEF IInv, TypeOK
        <5>1. signaling[k] # "stable"
          BY <2>1, <2>3 DEF Exchange, NoToken, Offering
        <5>2. inflight[k] = {pending[k]}
          BY <2>1, <2>3, <4>1, <5>1 DEF Exchange, OneToken, Offering
        <5> QED BY <3>2, <4>1, <5>1, <5>2
      <4>3. transceivers[k] /\ senders[k] = Tracks(value)
        BY <2>1, <2>3, <3>2 DEF Handling
      <4> QED BY <2>1, <2>3, <3>2, <4>2, <4>3 DEF Told, Tracks
    <3> QED BY <2>1, <2>4, <3>1, <3>2 DEF Told
  <2> QED BY <2>1, <2>2, <2>4, ToldKept
<1>23. ASSUME NEW k \in Session, HandlerFails(k)
      PROVE \A j \in Session : Tracking(j)'
  <2>1. /\ inflight' = [inflight EXCEPT ![k] = {}]
        /\ canceled' = [canceled EXCEPT ![k] = TRUE]
        /\ UNCHANGED <<value, due, box, empty, stage, peerVars, remote>>
    BY <1>23 DEF HandlerFails, HandlerReturn, Mail!Return, Shutdown
  <2>2. \A j \in Session \ {k} : View(j)' = View(j)
    BY <2>1
  <2> QED BY <2>1, <2>2, ToldKept
<1>24. ASSUME NEW k \in Session, ClientOffer(k)
      PROVE \A j \in Session : Tracking(j)'
  <2>1. /\ offers[k] # <<>>
        /\ remote' = [remote EXCEPT ![k] = Head(offers[k])]
        /\ UNCHANGED <<mailVars, empty, serveVars, peerVars>>
    BY <1>24 DEF ClientOffer
  <2>2. \A j \in Session \ {k} : View(j)' = View(j)
    BY <2>1
  <2>3. signaling[k] # "stable"
    BY <2>1 DEF Exchange, NoToken
  <2>4. Told(k) => Told(k)'
    BY <2>1, <2>3 DEF Told, Tracks
  <2> QED BY <2>1, <2>2, <2>4, ToldKept
<1>25. ASSUME NEW k \in Session, ClientAnswer(k)
      PROVE \A j \in Session : Tracking(j)'
  BY <1>25, ToldKept DEF ClientAnswer
<1>26. ASSUME NEW k \in Session, ClientLeave(k)
      PROVE \A j \in Session : Tracking(j)'
  BY <1>26, ToldKept DEF ClientLeave
<1>27. ASSUME NEW k \in Session, ClientOfferRejected(k)
      PROVE \A j \in Session : Tracking(j)'
  BY <1>27, ToldKept DEF ClientOfferRejected
<1>28. ASSUME NEW k \in Session, ClientAnswerRejected(k)
      PROVE \A j \in Session : Tracking(j)'
  BY <1>28, ToldKept DEF ClientAnswerRejected
<1> QED BY <1>1, <1>2, <1>3, <1>4, <1>5, <1>6, <1>7, <1>8, <1>9,
         <1>10, <1>11, <1>12, <1>13, <1>14, <1>15, <1>16, <1>17, <1>18,
         <1>19, <1>20, <1>21, <1>22, <1>23, <1>24, <1>25, <1>26, <1>27, <1>28
    DEF Next, ServeStep, ReaderStep, HandlerStep, ClientStep

\* Server, watch, socket and client of every session agree in every state.
THEOREM Inductive == Spec => []IInv
<1>1. Init => IInv
  <2> SUFFICES ASSUME Init PROVE IInv
    OBVIOUS
  <2> USE WebRTCAssumption DEF Init
  <2>1. Box!MailInv
    BY Box!MailInit DEF Mail!Init, Box!Init
  <2>2. TypeOK
    <3>1. Mail!TypeOK /\ value = 1
      BY <2>1 DEF Box!MailInv, Box!TypeOK, Mail!TypeOK, Box!Phase, Mail!Phase, Mail!Init
    <3> QED BY <3>1 DEF TypeOK, Version, None
  <2>3. \A k \in Session : Serving(k) /\ Handling(k)
    BY DEF Serving, Handling, Mail!Init
  <2>4. \A k \in Session : Exchange(k) /\ Tracking(k)
    BY DEF Exchange, NoToken, Offering, Tracking, Mail!Init
  <2> QED BY <2>1, <2>2, <2>3, <2>4 DEF IInv
<1>2. IInv /\ [Next]_vars => IInv'
  <2>1. ASSUME IInv, Next PROVE IInv'
    BY <2>1, BoxStep, TypeStep, ServingStep, HandlingStep, ExchangeStep, TrackingStep
       DEF IInv
  <2>2. ASSUME IInv, UNCHANGED vars PROVE IInv'
    <3> USE <2>2 DEF IInv, vars, mailVars, serveVars, readerVars, peerVars, clientVars
    <3>1. TypeOK' /\ Box!MailInv'
      BY DEF TypeOK, Mail!TypeOK, Box!MailInv, Box!TypeOK, Box!Mailbox
    <3>2. \A k \in Session : Serving(k)' /\ Handling(k)'
      BY DEF Serving, Handling, Tracks
    <3>3. \A k \in Session : Exchange(k)' /\ Tracking(k)'
      BY DEF Exchange, NoToken, OneToken, Offering, Tracking, Told, Tracks
    <3> QED BY <3>1, <3>2, <3>3
  <2> QED BY <2>1, <2>2
<1> QED BY <1>1, <1>2, PTL DEF Spec

\* A session uses its watch as the contract allows, whatever its goroutines do:
\* what Watch is proved to implement is what the session relies on.
THEOREM UsesContract == Spec => Mail!Spec
<1>1. Init => Mail!Init
  BY DEF Init
<1>2. [Next]_vars => [Mail!Next]_(Mail!vars)
  <2>1. ASSUME Next PROVE Mail!Next \/ UNCHANGED mailVars
    BY <2>1
    DEF Next, TunerSet, Post, Terminate, Accept, ServeStep, NewPeer, NewPeerFails,
        WatchTracks, CancelLeave, CancelClose, PeerClose, SocketClose, WaitWatch,
        WaitReader, ReaderStep, ReaderRead, ReaderApply, ReaderStop, HandlerStep,
        HandlerBegin, HandlerReturn, HandlerReplace, HandlerCreateOffer,
        HandlerSetLocal, HandlerGather, HandlerSend, HandlerFails, ClientStep,
        ClientOffer, ClientOfferRejected, ClientAnswer, ClientAnswerRejected,
        ClientLeave, Mail!Next, mailVars
  <2> QED BY <2>1 DEF vars, mailVars, Mail!vars
<1> QED BY <1>1, <1>2, PTL DEF Spec, Mail!Spec

\* Every variable keeps its type.
THEOREM Types == Spec => []TypeOK
BY Inductive, PTL DEF IInv

\* ServeHTTP leaves nothing of its session running, on every path out of it.
THEOREM Quiet == Spec => []QuietAfterReturn
<1>1. IInv => QuietAfterReturn
  <2> SUFFICES ASSUME IInv, NEW k \in Session, stage[k] = "done"
               PROVE  /\ handler[k] = "idle" /\ inflight[k] = {}
                      /\ k \notin listening /\ phase[k] \in {"new", "closed"}
                      /\ reader[k] \in {"off", "stopped"}
                      /\ signaling[k] \in {"none", "closed"}
                      /\ sock[k] # "open"
    BY DEF QuietAfterReturn
  <2> QED BY DEF IInv, Serving, Handling, Box!MailInv, Box!Mailbox
<1> QED BY <1>1, Inductive, PTL

\* The answer that the reader applies is the answer to the pending offer.
THEOREM AnswersFit == Spec => []AnswerFitsOffer
<1>1. IInv => AnswerFitsOffer
  BY DEF IInv, Exchange, OneToken, AnswerFitsOffer
<1> QED BY <1>1, Inductive, PTL

\* A session with nothing under way is in step with the tuner.
THEOREM StaysInSync == Spec => []InSync
<1>1. IInv => InSync
  <2> SUFFICES ASSUME IInv, NEW k \in Session, Settled(k)
               PROVE  /\ senders[k] = IF value \in empty THEN None ELSE value
                      /\ IF transceivers[k] THEN remote[k] = value ELSE value \in empty
    BY DEF InSync
  <2> QED BY DEF IInv, Settled, Handling, Tracking, Told, Tracks
<1> QED BY <1>1, Inductive, PTL

=============================================================================
