------------------------- MODULE TunerStatusProofs -------------------------
(***************************************************************************)
(* Safety of module TunerStatus for every set of sessions, whichever of    *)
(* their clients are slow, and every size of the buffers.                  *)
(***************************************************************************)
EXTENDS TunerStatus, SequenceTheorems, TLAPS

\* The mailboxes of the sessions, with what is proved about them.
Box == INSTANCE WatchContractProofs WITH Watcher <- Session

\* ServeHTTP, its watch and its socket are at places that fit each other.
Serving(k) ==
  /\ stage[k] \in {"new", "watch"} => phase[k] = "new"
  /\ stage[k] = "open" => k \in listening
  /\ stage[k] = "leave" => phase[k] = "open" /\ k \notin listening
  /\ stage[k] \in {"hangup", "wait"} => phase[k] \in {"closing", "closed"}
  /\ stage[k] = "done" => phase[k] \in {"new", "closed"}
  /\ stage[k] \in {"wait", "done"} => sock[k] # "open"
  /\ stage[k] = "new" => sock[k] = "none"
  /\ stage[k] = "new" \/ sock[k] = "open" => connection[k] # "Disconnected"

\* The client has the current status, or it is what will reach it last.
Ahead(k) ==
  \/ box[k] = {value}
  \/ box[k] = {} /\ inflight[k] = {value}
  \/ /\ box[k] = {} /\ inflight[k] = {}
     /\ IF msgs[k] = <<>> THEN shown[k] = value /\ connection[k] = "Connected"
                          ELSE msgs[k][Len(msgs[k])] = value

Current(k) ==
  stage[k] = "open" /\ ~canceled[k] /\ sock[k] = "open" /\ k \notin due => Ahead(k)

IInv ==
  /\ TypeOK
  /\ Box!MailInv
  /\ \A k \in Session : Serving(k) /\ Current(k)

\* The message sent last is the last one on its way ...
LEMMA LastSent ==
  ASSUME NEW S, NEW s \in Seq(S), NEW v \in S
  PROVE  Append(s, v) # <<>> /\ Append(s, v)[Len(Append(s, v))] = v
<1>1. /\ Len(Append(s, v)) = Len(s) + 1 /\ Len(s) \in Nat
      /\ Append(s, v)[Len(s) + 1] = v
  BY AppendProperties, LenProperties
<1>2. Len(<<>>) = 0
  BY EmptySeq
<1> QED BY <1>1, <1>2

\* ... and stays the last one until it is received itself.
LEMMA LastReceived ==
  ASSUME NEW S, NEW s \in Seq(S), s # <<>>
  PROVE  IF Tail(s) = <<>> THEN Head(s) = s[Len(s)]
                           ELSE Tail(s)[Len(Tail(s))] = s[Len(s)]
<1>1. /\ Tail(s) \in Seq(S) /\ Len(Tail(s)) = Len(s) - 1 /\ Head(s) = s[1]
      /\ \A i \in 1..Len(Tail(s)) : Tail(s)[i] = s[i + 1]
  BY HeadTailProperties
<1>2. Len(s) \in Nat \ {0}
  BY LenProperties, EmptySeq
<1>3. Tail(s) = <<>> <=> Len(Tail(s)) = 0
  BY <1>1, EmptySeq
<1>4. CASE Len(s) = 1
  BY <1>1, <1>3, <1>4
<1>5. CASE Len(s) # 1
  <2>1. Len(Tail(s)) \in 1..Len(Tail(s)) /\ Len(Tail(s)) + 1 = Len(s)
    BY <1>1, <1>2, <1>5
  <2> QED BY <1>1, <1>3, <2>1
<1> QED BY <1>4, <1>5

\* The steps of a session that are not steps of its watch.
LEMMA MailMoves ==
  ASSUME Next
  PROVE  Box!Next \/ UNCHANGED mailVars
BY DEF Next, TunerSet, Post, Terminate, Accept, ServeStep, WatchStatus, CancelLeave,
       CancelClose, SocketClose, WaitWatch, CloseRead, HandlerStep, HandlerBegin,
       Write, WriteFails, ClientMessage, ClientClosed, Box!Next, mailVars,
       Mail!Set, Mail!Open, Mail!Post, Mail!Begin, Mail!Return, Mail!Leave,
       Mail!Close, Mail!Terminate,
       Box!Set, Box!Open, Box!Post, Box!Begin, Box!Return, Box!Leave,
       Box!Close, Box!Terminate

\* The mailboxes keep the invariant of their contract.
LEMMA BoxStep ==
  ASSUME IInv, Next
  PROVE  Box!MailInv' /\ Mail!TypeOK'
<1>1. Box!MailInv'
  <2>1. CASE Box!Next
    BY <2>1, TunerStatusAssumption, Box!MailStep DEF IInv
  <2>2. CASE UNCHANGED mailVars
    BY <2>2 DEF IInv, mailVars, Box!MailInv, Box!TypeOK, Box!Mailbox
  <2> QED BY <2>1, <2>2, MailMoves
<1> QED BY <1>1 DEF Box!MailInv, Box!TypeOK, Mail!TypeOK, Box!Phase, Mail!Phase

\* Types are preserved; a write waits until there is room for its message.
LEMMA TypeStep ==
  ASSUME IInv, Next
  PROVE  TypeOK'
<1> USE TunerStatusAssumption
    DEF IInv, TypeOK, mailVars, clientVars, Version
<1>0. Mail!TypeOK'
  BY BoxStep
<1>1. ASSUME TunerSet PROVE TypeOK'
  BY <1>0, <1>1 DEF TunerSet, Mail!Set
<1>2. ASSUME NEW k \in Session, Post(k) PROVE TypeOK'
  BY <1>0, <1>2 DEF Post, Mail!Post
<1>3. ASSUME NEW k \in Session, Terminate(k) PROVE TypeOK'
  BY <1>0, <1>3 DEF Terminate, Mail!Terminate
<1>4. ASSUME NEW k \in Session, Accept(k) PROVE TypeOK'
  BY <1>0, <1>4 DEF Accept, Stage
<1>5. ASSUME NEW k \in Session, WatchStatus(k) PROVE TypeOK'
  BY <1>0, <1>5 DEF WatchStatus, Mail!Open, Stage
<1>6. ASSUME NEW k \in Session, CloseRead(k) PROVE TypeOK'
  BY <1>0, <1>6 DEF CloseRead, Shutdown
<1>7. ASSUME NEW k \in Session, CancelLeave(k) PROVE TypeOK'
  BY <1>0, <1>7 DEF CancelLeave, Mail!Leave, Stage
<1>8. ASSUME NEW k \in Session, CancelClose(k) PROVE TypeOK'
  BY <1>0, <1>8 DEF CancelClose, Mail!Close, Stage
<1>9. ASSUME NEW k \in Session, SocketClose(k) PROVE TypeOK'
  BY <1>0, <1>9 DEF SocketClose, Stage
<1>10. ASSUME NEW k \in Session, WaitWatch(k) PROVE TypeOK'
  BY <1>0, <1>10 DEF WaitWatch, Stage
<1>11. ASSUME NEW k \in Session, HandlerBegin(k) PROVE TypeOK'
  BY <1>0, <1>11 DEF HandlerBegin, Mail!Begin
<1>12. ASSUME NEW k \in Session, Write(k) PROVE TypeOK'
  <2>1. PICK v \in inflight[k] :
          Len(msgs[k]) < Buffer /\ msgs' = [msgs EXCEPT ![k] = Append(@, v)]
    BY <1>12 DEF Write
  <2>2. v \in 1..MaxValue
    <3>1. inflight[k] \in {{}} \union {{n} : n \in 1..MaxValue}
      BY DEF Mail!TypeOK
    <3> HIDE DEF IInv, TypeOK
    <3> QED BY <2>1, <3>1
  <2>3. /\ Append(msgs[k], v) \in Seq(1..MaxValue)
        /\ Len(Append(msgs[k], v)) = Len(msgs[k]) + 1
    BY <2>2, AppendProperties
  <2>4. /\ msgs' \in [Session -> Seq(1..MaxValue)]
        /\ \A j \in Session : Len(msgs'[j]) <= Buffer
    BY <2>1, <2>3, LenProperties
  <2> QED BY <1>12, <1>0, <2>4 DEF Write
<1>13. ASSUME NEW k \in Session, WriteFails(k) PROVE TypeOK'
  BY <1>0, <1>13 DEF WriteFails, Mail!Return, Shutdown
<1>14. ASSUME NEW k \in Session, ClientMessage(k) PROVE TypeOK'
  <2>1. msgs[k] # <<>> /\ msgs' = [msgs EXCEPT ![k] = Tail(@)]
    BY <1>14 DEF ClientMessage
  <2>2. /\ Head(msgs[k]) \in 1..MaxValue
        /\ Tail(msgs[k]) \in Seq(1..MaxValue)
        /\ Len(Tail(msgs[k])) = Len(msgs[k]) - 1
    BY <2>1, HeadTailProperties
  <2>3. /\ msgs' \in [Session -> Seq(1..MaxValue)]
        /\ \A j \in Session : Len(msgs'[j]) <= Buffer
    BY <2>1, <2>2, LenProperties
  <2> QED BY <1>14, <1>0, <2>2, <2>3 DEF ClientMessage
<1>15. ASSUME NEW k \in Session, ClientClosed(k) PROVE TypeOK'
  <2>1. /\ msgs' \in [Session -> Seq(1..MaxValue)]
        /\ \A j \in Session : Len(msgs'[j]) <= Buffer
    BY <1>15 DEF ClientClosed
  <2> QED BY <1>15, <1>0, <2>1 DEF ClientClosed
<1> QED BY <1>1, <1>2, <1>3, <1>4, <1>5, <1>6, <1>7, <1>8,
         <1>9, <1>10, <1>11, <1>12, <1>13, <1>14, <1>15
    DEF Next, ServeStep, HandlerStep

\* ServeHTTP and its watch move together.
LEMMA ServingStep ==
  ASSUME IInv, Next
  PROVE  \A j \in Session : Serving(j)'
<1> USE TunerStatusAssumption
    DEF IInv, TypeOK, Box!MailInv, Box!Mailbox, Box!TypeOK, Serving, mailVars, clientVars
<1>1. ASSUME TunerSet PROVE \A j \in Session : Serving(j)'
  BY <1>1 DEF TunerSet, Mail!Set
<1>2. ASSUME NEW k \in Session, Post(k) PROVE \A j \in Session : Serving(j)'
  BY <1>2 DEF Post, Mail!Post
<1>3. ASSUME NEW k \in Session, Terminate(k) PROVE \A j \in Session : Serving(j)'
  BY <1>3 DEF Terminate, Mail!Terminate
<1>4. ASSUME NEW k \in Session, Accept(k) PROVE \A j \in Session : Serving(j)'
  BY <1>4 DEF Accept, Stage
<1>5. ASSUME NEW k \in Session, WatchStatus(k) PROVE \A j \in Session : Serving(j)'
  BY <1>5 DEF WatchStatus, Mail!Open, Stage
<1>6. ASSUME NEW k \in Session, CloseRead(k) PROVE \A j \in Session : Serving(j)'
  BY <1>6 DEF CloseRead, Shutdown
<1>7. ASSUME NEW k \in Session, CancelLeave(k) PROVE \A j \in Session : Serving(j)'
  BY <1>7 DEF CancelLeave, Mail!Leave, Stage
<1>8. ASSUME NEW k \in Session, CancelClose(k) PROVE \A j \in Session : Serving(j)'
  BY <1>8 DEF CancelClose, Mail!Close, Stage
<1>9. ASSUME NEW k \in Session, SocketClose(k) PROVE \A j \in Session : Serving(j)'
  BY <1>9 DEF SocketClose, Stage
<1>10. ASSUME NEW k \in Session, WaitWatch(k) PROVE \A j \in Session : Serving(j)'
  BY <1>10 DEF WaitWatch, Stage
<1>11. ASSUME NEW k \in Session, HandlerBegin(k) PROVE \A j \in Session : Serving(j)'
  BY <1>11 DEF HandlerBegin, Mail!Begin
<1>12. ASSUME NEW k \in Session, Write(k) PROVE \A j \in Session : Serving(j)'
  BY <1>12 DEF Write, Mail!Return
<1>13. ASSUME NEW k \in Session, WriteFails(k) PROVE \A j \in Session : Serving(j)'
  BY <1>13 DEF WriteFails, Mail!Return, Shutdown
<1>14. ASSUME NEW k \in Session, ClientMessage(k) PROVE \A j \in Session : Serving(j)'
  BY <1>14 DEF ClientMessage
<1>15. ASSUME NEW k \in Session, ClientClosed(k) PROVE \A j \in Session : Serving(j)'
  BY <1>15 DEF ClientClosed
<1> QED BY <1>1, <1>2, <1>3, <1>4, <1>5, <1>6, <1>7, <1>8,
         <1>9, <1>10, <1>11, <1>12, <1>13, <1>14, <1>15
    DEF Next, ServeStep, HandlerStep

\* What is on its way to a client that stays is the current status.
LEMMA CurrentStep ==
  ASSUME IInv, Next
  PROVE  \A j \in Session : Current(j)'
<1> USE TunerStatusAssumption
    DEF IInv, TypeOK, Box!MailInv, Box!TypeOK, Box!Mailbox, Serving, Current, Ahead,
        mailVars, clientVars
<1>1. ASSUME TunerSet PROVE \A j \in Session : Current(j)'
  BY <1>1 DEF TunerSet, Mail!Set
<1>2. ASSUME NEW k \in Session, Post(k) PROVE \A j \in Session : Current(j)'
  BY <1>2 DEF Post, Mail!Post
<1>3. ASSUME NEW k \in Session, Terminate(k) PROVE \A j \in Session : Current(j)'
  BY <1>3 DEF Terminate, Mail!Terminate
<1>4. ASSUME NEW k \in Session, Accept(k) PROVE \A j \in Session : Current(j)'
  <2>1. stage'[k] # "open" /\ \A j \in Session \ {k} :
          stage'[j] = stage[j] /\ sock'[j] = sock[j]
    BY <1>4 DEF Accept, Stage
  <2> QED BY <1>4, <2>1 DEF Accept
<1>5. ASSUME NEW k \in Session, WatchStatus(k) PROVE \A j \in Session : Current(j)'
  BY <1>5 DEF WatchStatus, Mail!Open, Stage
<1>6. ASSUME NEW k \in Session, CloseRead(k) PROVE \A j \in Session : Current(j)'
  BY <1>6 DEF CloseRead, Shutdown
<1>7. ASSUME NEW k \in Session, CancelLeave(k) PROVE \A j \in Session : Current(j)'
  BY <1>7 DEF CancelLeave, Mail!Leave, Stage
<1>8. ASSUME NEW k \in Session, CancelClose(k) PROVE \A j \in Session : Current(j)'
  BY <1>8 DEF CancelClose, Mail!Close, Stage
<1>9. ASSUME NEW k \in Session, SocketClose(k) PROVE \A j \in Session : Current(j)'
  BY <1>9 DEF SocketClose, Stage
<1>10. ASSUME NEW k \in Session, WaitWatch(k) PROVE \A j \in Session : Current(j)'
  BY <1>10 DEF WaitWatch, Stage
<1>11. ASSUME NEW k \in Session, HandlerBegin(k) PROVE \A j \in Session : Current(j)'
  BY <1>11 DEF HandlerBegin, Mail!Begin
<1>12. ASSUME NEW k \in Session, Write(k) PROVE \A j \in Session : Current(j)'
  <2> HIDE DEF Ahead
  <2>1. PICK v \in inflight[k] : msgs' = [msgs EXCEPT ![k] = Append(msgs[k], v)]
    BY <1>12 DEF Write
  <2>2. /\ UNCHANGED <<value, listening, due, box, stage, canceled, sock, clientVars>>
        /\ inflight' = [inflight EXCEPT ![k] = {}]
    BY <1>12 DEF Write, Mail!Return
  <2>3. ASSUME NEW j \in Session \ {k}, Current(j) PROVE Current(j)'
    BY <2>1, <2>2, <2>3 DEF Ahead
  <2>4. ASSUME Ahead(k) PROVE Ahead(k)'
    <3>1. CASE box[k] = {value}
      BY <2>2, <3>1 DEF Ahead
    <3>2. CASE box[k] = {} /\ inflight[k] = {value}
      <4>1. v = value /\ box'[k] = {} /\ inflight'[k] = {} /\ value' = value
        BY <2>2, <3>2
      <4>2. msgs'[k] = Append(msgs[k], value) /\ msgs[k] \in Seq(Version)
        BY <2>1, <4>1
      <4>3. /\ Append(msgs[k], value) # <<>>
            /\ Append(msgs[k], value)[Len(Append(msgs[k], value))] = value
        <5>1. value \in Version
          BY DEF Version
        <5> HIDE DEF IInv, TypeOK, Current
        <5> QED BY <4>2, <5>1, LastSent
      <4> QED BY <4>1, <4>2, <4>3 DEF Ahead
    <3> QED BY <2>4, <3>1, <3>2 DEF Ahead
  <2> QED BY <2>2, <2>3, <2>4
<1>13. ASSUME NEW k \in Session, WriteFails(k) PROVE \A j \in Session : Current(j)'
  BY <1>13 DEF WriteFails, Mail!Return, Shutdown
<1>14. ASSUME NEW k \in Session, ClientMessage(k) PROVE \A j \in Session : Current(j)'
  <2> HIDE DEF Ahead
  <2>1. /\ msgs[k] # <<>> /\ msgs' = [msgs EXCEPT ![k] = Tail(msgs[k])]
        /\ shown' = [shown EXCEPT ![k] = Head(msgs[k])]
        /\ connection' = [connection EXCEPT ![k] = "Connected"]
        /\ UNCHANGED <<mailVars, stage, canceled, sock>>
    BY <1>14 DEF ClientMessage
  <2>2. ASSUME NEW j \in Session \ {k}, Current(j) PROVE Current(j)'
    BY <2>1, <2>2 DEF Ahead
  <2>3. ASSUME Ahead(k) PROVE Ahead(k)'
    <3>1. CASE box[k] = {} /\ inflight[k] = {}
      <4> DEFINE s == msgs[k]
                 last == s[Len(s)]
      <4>1. last = value /\ s \in Seq(Version) /\ s # <<>>
        BY <2>1, <2>3, <3>1 DEF Ahead
      <4>2. /\ msgs'[k] = Tail(s) /\ shown'[k] = Head(s)
            /\ connection'[k] = "Connected"
        BY <2>1
      <4> HIDE DEF s, Version
      <4>3. IF Tail(s) = <<>> THEN Head(s) = last
                              ELSE Tail(s)[Len(Tail(s))] = last
        BY <4>1, LastReceived
      <4> QED BY <2>1, <3>1, <4>1, <4>2, <4>3 DEF Ahead
    <3> QED BY <2>1, <2>3, <3>1 DEF Ahead
  <2> QED BY <2>1, <2>2, <2>3
<1>15. ASSUME NEW k \in Session, ClientClosed(k) PROVE \A j \in Session : Current(j)'
  BY <1>15 DEF ClientClosed
<1> QED BY <1>1, <1>2, <1>3, <1>4, <1>5, <1>6, <1>7, <1>8,
         <1>9, <1>10, <1>11, <1>12, <1>13, <1>14, <1>15
    DEF Next, ServeStep, HandlerStep

\* Socket, watch and client of every session agree in every state.
THEOREM Inductive == Spec => []IInv
<1>1. Init => IInv
  <2> SUFFICES ASSUME Init PROVE IInv
    OBVIOUS
  <2> USE TunerStatusAssumption DEF Init
  <2>1. Box!MailInv
    BY Box!MailInit DEF Mail!Init, Box!Init
  <2>2. TypeOK
    BY <2>1 DEF TypeOK, Version, Box!MailInv, Box!TypeOK, Mail!TypeOK,
                Box!Phase, Mail!Phase
  <2>3. \A k \in Session : Serving(k) /\ Current(k)
    BY DEF Serving, Current, Mail!Init
  <2> QED BY <2>1, <2>2, <2>3 DEF IInv
<1>2. IInv /\ [Next]_vars => IInv'
  <2>1. ASSUME IInv, Next PROVE IInv'
    BY <2>1, BoxStep, TypeStep, ServingStep, CurrentStep DEF IInv
  <2>2. ASSUME IInv, UNCHANGED vars PROVE IInv'
    <3> USE <2>2 DEF IInv, vars, mailVars, clientVars
    <3>1. TypeOK' /\ Box!MailInv'
      BY DEF TypeOK, Mail!TypeOK, Box!MailInv, Box!TypeOK, Box!Mailbox
    <3>2. \A k \in Session : Serving(k)' /\ Current(k)'
      BY DEF Serving, Current, Ahead
    <3> QED BY <3>1, <3>2
  <2> QED BY <2>1, <2>2
<1> QED BY <1>1, <1>2, PTL DEF Spec

\* A session uses its watch as the contract allows, whatever its goroutines do:
\* what Watch is proved to implement is what the session relies on.
THEOREM UsesContract == Spec => Mail!Spec
<1>1. Init => Mail!Init
  BY DEF Init
<1>2. [Next]_vars => [Mail!Next]_(Mail!vars)
  <2>1. ASSUME Next PROVE Mail!Next \/ UNCHANGED mailVars
    BY <2>1
    DEF Next, TunerSet, Post, Terminate, Accept, ServeStep, WatchStatus, CancelLeave,
        CancelClose, SocketClose, WaitWatch, CloseRead, HandlerStep, HandlerBegin,
        Write, WriteFails, ClientMessage, ClientClosed, Mail!Next, mailVars
  <2> QED BY <2>1 DEF vars, mailVars, Mail!vars
<1> QED BY <1>1, <1>2, PTL DEF Spec, Mail!Spec

\* Every variable keeps its type, and no buffer holds more than it can.
THEOREM Types == Spec => []TypeOK
BY Inductive, PTL DEF IInv

\* When ServeHTTP has returned, the handler of its watch neither executes nor
\* ever will, however the client left.
THEOREM Quiet == Spec => []QuietAfterReturn
<1>1. IInv => QuietAfterReturn
  <2> SUFFICES ASSUME IInv, NEW k \in Session, stage[k] = "done"
               PROVE  /\ inflight[k] = {} /\ box[k] = {}
                      /\ k \notin listening /\ phase[k] \in {"new", "closed"}
                      /\ sock[k] # "open"
    BY DEF QuietAfterReturn
  <2> QED BY DEF IInv, Serving, Box!MailInv, Box!Mailbox
<1> QED BY <1>1, Inductive, PTL

\* A session with nothing under way shows the tuner's current status.
THEOREM UpToDate == Spec => []ShowsCurrent
<1>1. IInv => ShowsCurrent
  <2> SUFFICES ASSUME IInv, NEW k \in Session,
                      stage[k] = "open", ~canceled[k], sock[k] = "open",
                      k \notin due, box[k] = {}, inflight[k] = {}, msgs[k] = <<>>
               PROVE  shown[k] = value /\ connection[k] = "Connected"
    BY DEF ShowsCurrent
  <2> QED BY DEF IInv, Current, Ahead
<1> QED BY <1>1, Inductive, PTL

=============================================================================
