------------------------------- MODULE Server -------------------------------
(***************************************************************************)
(* The process: cmd/hypcast-server/main.go reads channels.conf, serves RPC *)
(* requests (internal/api) on top of the tuner, and shuts down when it is  *)
(* told to.  Requests run concurrently, and may stall in the middle of     *)
(* their bodies; the tuner is TunerContract, whose actions are parts of    *)
(* actions.                                                                *)
(*                                                                         *)
(* External: http.Server.Shutdown refuses new requests and returns when    *)
(* those under way have been answered, or when its context ends.           *)
(***************************************************************************)
EXTENDS ChannelsConf, Rpc

CONSTANTS
  Client,    \* the connections that requests come on
  Send,      \* the requests that each of them may carry
  Size,      \* bytes of the body that carries a channel's name, by name
  Halt, Stream, NoStream,  \* see TunerContract
  NoRequest

\* What stands for no request, no tracks or an unreadable body is none itself.
ASSUME ServerAssumption ==
  /\ DOMAIN Send = Client /\ \A k \in Client : \A r \in Send[k] : r \in Request
  /\ \A k \in Client : NoRequest \notin Send[k]
  /\ Halt \notin Name \union {NoName}
  /\ NoStream \notin Stream
  /\ \A conf \in File : \A n \in DOMAIN conf : \A i \in DOMAIN conf[n] :
       conf[n][i] \notin {Malformed, Mistyped}
  /\ \A conf \in File : \A n \in DOMAIN conf : 1 \in DOMAIN conf[n] =>
       Size[conf[n][1]] \in Nat \ {0}

VARIABLES
  phase,     \* where main is
  status, tracks, at, asked, answer,  \* see TunerContract
  request,   \* the request under way on each connection
  received,  \* what of it the server has: its head, all, or all checked
  code       \* its status code, or Pass when there is none yet

tunerVars == <<status, tracks, at, asked, answer>>
requestVars == <<request, received, code>>
vars == <<confVars, phase, tunerVars, requestVars>>

Tuner == INSTANCE TunerContract WITH
  Name <- Name \union {NoName}, NoChannel <- NoName, known <- DOMAIN ChannelMap

Init ==
  /\ ConfInit
  /\ phase = "loading"
  /\ Tuner!Init
  /\ request = [k \in Client |-> NoRequest]
  /\ received = [k \in Client |-> "nothing"]
  /\ code = [k \in Client |-> Pass]

Enter(p, from) == phase \in from /\ phase' = p

-----------------------------------------------------------------------------
(***************************************************************************)
(* main, from the start to the select.                                     *)
(***************************************************************************)

Load ==
  /\ phase = "loading"
  /\ ReadLine \/ ReadFails
  /\ UNCHANGED <<phase, tunerVars, requestVars>>

LoadFailed ==
  /\ failure # <<>>
  /\ Enter("exited", {"loading"})
  /\ UNCHANGED <<confVars, tunerVars, requestVars>>

Loaded ==
  /\ failure = <<>> /\ line = Len(file)
  /\ Enter("loaded", {"loading"})
  /\ UNCHANGED <<confVars, tunerVars, requestVars>>

\* ListenAndServe; main forgets the file.
Listen ==
  /\ Enter("serving", {"loaded"})
  /\ file' = <<>> /\ line' = 0
  /\ UNCHANGED <<channels, failure, tunerVars, requestVars>>

ListenFails ==
  /\ Enter("exited", {"loaded", "serving"})
  /\ UNCHANGED <<confVars, tunerVars, requestVars>>

\* SIGINT or SIGTERM; later ones change nothing.
Signal ==
  /\ Enter("stopping", {"serving"})
  /\ UNCHANGED <<confVars, tunerVars, requestVars>>

\* Shutdown returns when no request is under way.
ShutdownDone ==
  /\ \A k \in Client : request[k] = NoRequest
  /\ Enter("exited", {"stopping"})
  /\ UNCHANGED <<confVars, tunerVars, requestVars>>

\* Shutdown returns after five seconds, and main with it.
ShutdownTimeout ==
  /\ Enter("exited", {"stopping"})
  /\ UNCHANGED <<confVars, tunerVars, requestVars>>

-----------------------------------------------------------------------------
(***************************************************************************)
(* Requests.                                                               *)
(***************************************************************************)

Up == phase \in {"serving", "stopping"}

\* rpcStop and rpcTune call the tuner when no check has refused the request.
Asks(r) == IF r.route = "stop" THEN Halt ELSE ChannelName(Buffered(r))

\* What the checks come to for every request, as a set that TLC enumerates once.
Judged == {<<r, Verdict(r)>> : r \in UNION {Send[k] : k \in Client}}

Receive(k, what) == received' = [received EXCEPT ![k] = what]

\* The head of a request.
Arrive(k) ==
  /\ phase = "serving"
  /\ request[k] = NoRequest
  /\ \E r \in Send[k] : request' = [request EXCEPT ![k] = r]
  /\ Receive(k, "head")
  /\ UNCHANGED <<confVars, phase, tunerVars, code>>

\* The end of its body, the byte over the limit, or the error that cuts it:
\* what ReadFrom waits for.  The client may take any time, or forever.
BodyArrives(k) ==
  /\ Up
  /\ received[k] = "head"
  /\ Receive(k, "all")
  /\ UNCHANGED <<confVars, phase, tunerVars, request, code>>

\* The client still has to send something, and the server waits for it.
Stalled(k) == received[k] = "head" /\ ReadsBody(request[k])

\* All checks, up to the call of the tuner.
Check(k) ==
  /\ Up
  /\ received[k] \in {"head", "all"} /\ ~Stalled(k)
  /\ Receive(k, "checked")
  /\ \E judged \in Judged :
       /\ judged[1] = request[k]
       /\ code' = [code EXCEPT ![k] = judged[2]]
       /\ IF judged[2] = Pass THEN Tuner!Call(k, Asks(request[k])) ELSE UNCHANGED tunerVars
  /\ UNCHANGED <<confVars, phase, request>>

TunerEnter(k) == Up /\ Tuner!Enter(k) /\ UNCHANGED <<confVars, phase, requestVars>>
TunerWork(k) == Up /\ Tuner!Work(k) /\ UNCHANGED <<confVars, phase, requestVars>>

Respond(k) ==
  /\ Up
  /\ received[k] = "checked" /\ code[k] = Pass
  /\ at[k] = "idle"
  /\ code' = [code EXCEPT ![k] = CodeOf(answer[k])]
  /\ UNCHANGED <<confVars, phase, tunerVars, request, received>>

\* The client has read the response, or has gone.
Finish(k) ==
  /\ Up
  /\ code[k] # Pass
  /\ request' = [request EXCEPT ![k] = NoRequest]
  /\ Receive(k, "nothing")
  /\ code' = [code EXCEPT ![k] = Pass]
  /\ UNCHANGED <<confVars, phase, tunerVars>>

Next ==
  \/ Load \/ LoadFailed \/ Loaded \/ Listen \/ ListenFails
  \/ Signal \/ ShutdownDone \/ ShutdownTimeout
  \/ \E k \in Client :
       \/ Arrive(k) \/ BodyArrives(k) \/ Check(k)
       \/ TunerEnter(k) \/ TunerWork(k) \/ Respond(k) \/ Finish(k)

Spec == Init /\ [][Next]_vars

(***************************************************************************)
(* Goroutines that can take a step are scheduled, the tuner's mutex is fair*)
(* to its waiters, and timers fire.  Nobody has to send a request, to end  *)
(* the body of one that was begun, or to read the response, and nobody has *)
(* to send a signal.                                                       *)
(***************************************************************************)
FairSpec ==
  /\ Spec
  /\ WF_vars(ShutdownTimeout)
  /\ \A k \in Client :
       /\ WF_vars(Check(k)) /\ WF_vars(Respond(k))
       /\ SF_vars(TunerEnter(k)) /\ WF_vars(TunerWork(k))

-----------------------------------------------------------------------------
(***************************************************************************)
(* Properties.                                                             *)
(***************************************************************************)

\* The channels served are those of the file, line by line; otherwise main
\* ends with the first line, and its first field, that do not parse.
ParseIsExact ==
  LET badLines == {n \in DOMAIN file : BadFields(file[n]) # {}} IN
    /\ phase = "loaded" =>
         badLines = {} /\ channels = [n \in DOMAIN file |-> Channel(file[n])]
    /\ failure \notin {<<>>, <<0, 0>>} =>
         failure[1] = Min(badLines) /\ failure[2] = Min(BadFields(file[failure[1]]))

\* Channels survive a format and a parse unchanged, whatever they were
\* parsed from (FuzzParseChannelsConf tests this of random files).
RoundTrip ==
  \A i \in DOMAIN channels :
    LET fields == Format(channels[i]) IN BadFields(fields) = {} /\ Channel(fields) = channels[i]

\* A request to tune as the frontend sends it (client/src/rpc.ts).
TuneRequest(name) ==
  [method |-> "POST", crossOrigin |-> FALSE, route |-> "tune", json |-> TRUE,
   length |-> Size[name], cut |-> FALSE, body |-> name, buffer |-> <<>>]

\* Every name that /api/config/channels lists, unless it is empty, can be
\* tuned to by a request, unless the name makes the body too large: nothing
\* else is refused by any layer, the map has the last channel of that name,
\* and that channel can be described to GStreamer.
ListedIsTunable ==
  Up => \A i \in DOMAIN channels :
    LET name == channels[i].name IN
      name # NoName =>
        /\ Verdict(TuneRequest(name)) = IF Size[name] > Limit THEN 413 ELSE Pass
        /\ name \in DOMAIN ChannelMap
        /\ \E j \in DOMAIN channels :
             /\ ChannelMap[name] = channels[j] /\ channels[j].name = name
             /\ \A m \in DOMAIN channels : channels[m].name = name => m <= j
        /\ Describe(ChannelMap[name]).modulation # ""

\* The requests that the comments of the packages say are acceptable.
Proper(r) ==
  /\ r.method = "POST" /\ ~r.crossOrigin /\ r.route # "other"
  /\ r.length <= Limit /\ ~r.cut
  /\ r.length > 0 => r.json /\ r.body # Malformed
  /\ r.route = "tune" => r.length > 0 /\ r.body \in Name

\* What a request is answered agrees with the conventions of package rpc
\* (rpc.go:3-11, 75-83), in whatever order two layers check it: acceptable
\* requests are not refused for their form, all others are, and limits hold
\* to the byte.  What refuses a request on its head does not wait for the rest.
Conventions ==
  \A k \in Client :
    LET r == request[k] IN
      /\ received[k] = "checked" =>
           /\ r.method = "GET" <=> code[k] = 405
           /\ r.method = "POST" /\ ~r.crossOrigin => (r.length > Limit <=> code[k] = 413)
           /\ ~Proper(r) => code[k] \notin {Pass, 204}
           /\ Proper(r) => \/ code[k] \in {Pass, 204, 500}
                           \/ code[k] = 400 /\ r.route = "tune" /\ r.body \notin DOMAIN ChannelMap
      /\ Stalled(k) => r.method = "POST" /\ ~r.crossOrigin

\* The tuner is asked for what the body of an acceptable request says, although
\* the body was read in another layer.
ParametersArrive ==
  \A k \in Client : at[k] # "idle" =>
    LET r == request[k] IN
      Proper(r) /\ asked[k] = IF r.route = "stop" THEN Halt ELSE r.body

\* The code that a request is going to get is what the watchers have been
\* told, while other requests wait for their turn.
CodeIsTrue ==
  \A k \in Client : at[k] = "done" =>
    LET r == request[k]
        c == CodeOf(answer[k])
    IN /\ c = 204 /\ r.route = "stop" => status = Tuner!Stopped("none") /\ tracks = NoStream
       /\ c = 204 /\ r.route = "tune" => status = Tuner!Playing(r.body) /\ tracks # NoStream
       /\ c = 500 => status = Tuner!Stopped("failed")
       /\ c = 400 => r.body \notin DOMAIN ChannelMap

\* Every request gets a code once the client has sent what the server waits
\* for, however many others stall or never finish, and a signal ends the
\* process although they do; only its end leaves a request without a code.
NothingHangs ==
  /\ \A k \in Client :
       request[k] # NoRequest /\ ~Stalled(k) ~>
         code[k] # Pass \/ request[k] = NoRequest \/ phase = "exited"
  /\ phase = "stopping" ~> phase = "exited"

=============================================================================
