-------------------------------- MODULE Rpc --------------------------------
(***************************************************************************)
(* internal/api/rpc, and its use in internal/api: what becomes of a        *)
(* request on its way through CrossOriginProtection, WithLimitedBodyBuffer,*)
(* the inner ServeMux, Handle and the handler.                             *)
(*                                                                         *)
(* Each of them is a sequence of checks <<condition, status code>>, the    *)
(* first of which that applies is the response.                            *)
(***************************************************************************)
EXTENDS Naturals, SequencesExt

CONSTANTS
  Limit,      \* the largest body, in bytes
  Name,       \* the values of ChannelName that requests carry
  NoName      \* the empty one, and that of a body without ChannelName

\* Bodies that json.Unmarshal rejects: always, or as parameters of tune.
Malformed == "malformed"
Mistyped == "mistyped"

ASSUME RpcAssumption ==
  /\ Limit \in Nat \ {0}
  /\ Name \intersect {NoName, Malformed, Mistyped} = {}
  /\ NoName \notin {Malformed, Mistyped}

(***************************************************************************)
(* A request.  length is the number of bytes in the stream, cut tells that *)
(* an error comes after them, and buffer has the number of bytes in a      *)
(* bufferedBody, if r.Body is one.                                         *)
(***************************************************************************)
Request ==
  [method : {"GET", "POST"}, crossOrigin : BOOLEAN, route : {"tune", "stop", "other"},
   json : BOOLEAN, length : Nat, cut : BOOLEAN, body : Name \union {NoName, Malformed, Mistyped},
   buffer : Seq(Nat)]

\* net/http: only methods that are not safe are protected.
CrossOriginProtection(r) == << <<r.crossOrigin /\ r.method # "GET", 403>> >>

BadMethod(r) == r.method # "POST"

\* A broken limit, which a body of that size exceeds.
WithLimitedBodyBuffer_Early(r) ==
  << <<BadMethod(r), 405>>, <<r.length >= Limit, 413>>, <<r.cut, 500>> >>

\* http.MaxBytesReader counts before it meets the end of the stream.
WithLimitedBodyBuffer(r) ==
  << <<BadMethod(r), 405>>, <<r.length > Limit, 413>>, <<r.cut, 500>> >>

\* ReadFrom is called, and waits for what the client has still to send.
ReadsBody(r) == ~r.crossOrigin /\ ~BadMethod(r)

\* r.Body = &bufferedBody{rbody}: the stream has been read to its end.
Buffered(r) == [r EXCEPT !.buffer = <<r.length>>, !.length = 0]

RpcMux(r) == << <<r.route = "other", 404>> >>

\* A broken Handle, which reads the stream again.
BodyLength_Reread(r) == r.length
BodyLength(r) == IF r.buffer = <<>> THEN r.length ELSE r.buffer[1]

Decodes(r) == r.body # Malformed /\ (r.body = Mistyped => r.route = "stop")

Handle(r) ==
  << <<BadMethod(r), 405>>,
     <<r.buffer = <<>> /\ r.cut, 500>>,
     <<BodyLength(r) > 0 /\ ~r.json, 415>>,
     <<BodyLength(r) > 0 /\ ~Decodes(r), 400>> >>

\* params.ChannelName: the zero value without a body.
ChannelName(r) == IF BodyLength(r) = 0 THEN NoName ELSE r.body

\* The checks of the handlers before they call the tuner.
Handler(r) == << <<r.route = "tune" /\ ChannelName(r) = NoName, 400>> >>

Applies(check) == check[1]
Checks(r) ==
  LET b == Buffered(r) IN
    CrossOriginProtection(r) \o WithLimitedBodyBuffer(r) \o RpcMux(b) \o Handle(b) \o Handler(b)

\* The code of the response that is given without asking the tuner, or Pass.
Pass == 0
Verdict(r) ==
  LET i == SelectInSeq(Checks(r), Applies) IN IF i = 0 THEN Pass ELSE Checks(r)[i][2]

\* A broken rpcTune, without a case for ErrChannelNotFound.
CodeOf_Coarse(answer) == IF answer = "none" THEN 204 ELSE 500

\* The code of the response when the tuner has answered.
CodeOf(answer) ==
  CASE answer = "none" -> 204 [] answer = "unknown" -> 400 [] OTHER -> 500

=============================================================================
