---------------------------- MODULE ServerProofs ----------------------------
(***************************************************************************)
(* Safety of module Server for every set of files, of clients and of       *)
(* requests, and every limit of the bodies.                                *)
(***************************************************************************)
EXTENDS Server, SequenceTheorems, FiniteSetTheorems, TLAPS

-----------------------------------------------------------------------------
(***************************************************************************)
(* The operators of Rpc and ChannelsConf.                                  *)
(***************************************************************************)

\* A least element is the minimum.
LEMMA MinIs ==
  ASSUME NEW S \in SUBSET Nat, NEW n \in S, \A m \in S : n <= m
  PROVE  Min(S) = n
<1>1. Min(S) \in S /\ \A m \in S : Min(S) <= m
  BY DEF Min
<1>2. Min(S) <= n /\ n <= Min(S) /\ Min(S) \in Nat
  BY <1>1
<1> HIDE DEF Min
<1> QED BY <1>2

\* A set of indexes has a greatest one: of the intervals that start in the set
\* one does not contain another.
LEMMA MaxIs ==
  ASSUME NEW n \in Nat, NEW S \in SUBSET (1..n), S # {}
  PROVE  Max(S) \in S /\ \A m \in S : m <= Max(S)
<1> DEFINE R == StrictSubsetOrdering(1..n)
           F == {i..n : i \in S}
<1>1. IsWellFoundedOn(R, SUBSET (1..n))
  <2>1. IsFiniteSet(1..n)
    BY FS_Interval
  <2>2. FiniteSubsetsOf(1..n) = SUBSET (1..n)
    BY <2>1, FS_FiniteSubsetsOfFinite
  <2>3. IsWellFoundedOn(R, FiniteSubsetsOf(1..n))
    BY FS_StrictSubsetOrderingWellFounded
  <2> HIDE DEF R
  <2> QED BY <2>2, <2>3
<1>2. F \subseteq SUBSET (1..n) /\ F # {}
  <2>1. \A i \in S : i..n \in SUBSET (1..n)
    OBVIOUS
  <2> QED BY <2>1
<1>3. PICK I \in F : \A J \in F : ~ (<<J, I>> \in R)
  <2> HIDE DEF R, F
  <2> QED BY <1>1, <1>2, WFMin
<1>4. PICK i \in S : I = i..n
  BY <1>3
<1>5. ASSUME NEW j \in S PROVE i >= j
  <2>1. SUFFICES ASSUME j > i PROVE FALSE
    OBVIOUS
  <2>2. j..n \in F /\ j..n \subseteq I /\ i \in I /\ i \notin j..n
    BY <1>4, <2>1
  <2>3. <<j..n, I>> \in R
    BY <1>2, <2>2 DEF StrictSubsetOrdering
  <2> QED BY <1>3, <2>2, <2>3
<1> QED BY <1>5 DEF Max

\* The layers of a request have one check, three, one, four and one.  First
\* the two outer layers.
LEMMA LayerTwo ==
  ASSUME NEW a, NEW b, NEW c, NEW d
  PROVE  <<a>> \o <<b, c, d>> = <<a, b, c, d>>
<1> DEFINE s == <<a>>
           t == <<b, c, d>>
           u == <<a, b, c, d>>
           S == {a, b, c, d}
<1>1. s \in Seq(S) /\ t \in Seq(S) /\ u \in Seq(S)
  OBVIOUS
<1>2. Len(s) = 1 /\ Len(t) = 3 /\ Len(u) = 4
  OBVIOUS
<1>3. s \o t \in Seq(S) /\ Len(s \o t) = 4
  BY <1>1, <1>2, ConcatProperties
<1>4. (s \o t)[1] = a /\ (s \o t)[2] = b /\ (s \o t)[3] = c /\ (s \o t)[4] = d
  BY <1>1, <1>2, ConcatProperties
<1>5. \A n \in 1..4 : (s \o t)[n] = u[n]
  BY <1>4
<1> HIDE DEF s, t, u, S
<1>6. s \o t = u
  BY <1>1, <1>2, <1>3, <1>5, SeqEqual
<1> QED BY <1>6 DEF s, t, u

\* Then the one of the inner mux ...
LEMMA LayerThree ==
  ASSUME NEW a, NEW b, NEW c, NEW d, NEW e
  PROVE  <<a, b, c, d>> \o <<e>> = <<a, b, c, d, e>>
<1> DEFINE s == <<a, b, c, d>>
           t == <<e>>
           u == <<a, b, c, d, e>>
           S == {a, b, c, d, e}
<1>1. s \in Seq(S) /\ t \in Seq(S) /\ u \in Seq(S)
  OBVIOUS
<1>2. Len(s) = 4 /\ Len(t) = 1 /\ Len(u) = 5
  OBVIOUS
<1>3. s \o t \in Seq(S) /\ Len(s \o t) = 5
  BY <1>1, <1>2, ConcatProperties
<1>4. (s \o t)[1] = a /\ (s \o t)[2] = b /\ (s \o t)[3] = c /\ (s \o t)[4] = d /\ (s \o t)[5] = e
  BY <1>1, <1>2, ConcatProperties
<1>5. \A n \in 1..5 : (s \o t)[n] = u[n]
  BY <1>4
<1> HIDE DEF s, t, u, S
<1>6. s \o t = u
  BY <1>1, <1>2, <1>3, <1>5, SeqEqual
<1> QED BY <1>6 DEF s, t, u

\* ... the four of Handle ...
LEMMA LayerFour ==
  ASSUME NEW a, NEW b, NEW c, NEW d, NEW e, NEW f, NEW g, NEW h, NEW i
  PROVE  <<a, b, c, d, e>> \o <<f, g, h, i>> = <<a, b, c, d, e, f, g, h, i>>
<1> DEFINE s == <<a, b, c, d, e>>
           t == <<f, g, h, i>>
           u == <<a, b, c, d, e, f, g, h, i>>
           S == {a, b, c, d, e, f, g, h, i}
<1>1. s \in Seq(S) /\ t \in Seq(S) /\ u \in Seq(S)
  OBVIOUS
<1>2. Len(s) = 5 /\ Len(t) = 4 /\ Len(u) = 9
  OBVIOUS
<1>3. s \o t \in Seq(S) /\ Len(s \o t) = 9
  BY <1>1, <1>2, ConcatProperties
<1>4. /\ (s \o t)[1] = a /\ (s \o t)[2] = b /\ (s \o t)[3] = c /\ (s \o t)[4] = d
      /\ (s \o t)[5] = e /\ (s \o t)[6] = f /\ (s \o t)[7] = g /\ (s \o t)[8] = h /\ (s \o t)[9] = i
  BY <1>1, <1>2, ConcatProperties
<1>5. \A n \in 1..9 : (s \o t)[n] = u[n]
  BY <1>4
<1> HIDE DEF s, t, u, S
<1>6. s \o t = u
  BY <1>1, <1>2, <1>3, <1>5, SeqEqual
<1> QED BY <1>6 DEF s, t, u

\* ... and that of the handler.
LEMMA LayerFive ==
  ASSUME NEW a, NEW b, NEW c, NEW d, NEW e, NEW f, NEW g, NEW h, NEW i, NEW j
  PROVE  <<a, b, c, d, e, f, g, h, i>> \o <<j>> = <<a, b, c, d, e, f, g, h, i, j>>
<1> DEFINE s == <<a, b, c, d, e, f, g, h, i>>
           t == <<j>>
           u == <<a, b, c, d, e, f, g, h, i, j>>
           S == {a, b, c, d, e, f, g, h, i, j}
<1>1. s \in Seq(S) /\ t \in Seq(S) /\ u \in Seq(S)
  OBVIOUS
<1>2. Len(s) = 9 /\ Len(t) = 1 /\ Len(u) = 10
  OBVIOUS
<1>3. s \o t \in Seq(S) /\ Len(s \o t) = 10
  BY <1>1, <1>2, ConcatProperties
<1>4. /\ (s \o t)[1] = a /\ (s \o t)[2] = b /\ (s \o t)[3] = c /\ (s \o t)[4] = d
      /\ (s \o t)[5] = e /\ (s \o t)[6] = f /\ (s \o t)[7] = g /\ (s \o t)[8] = h /\ (s \o t)[9] = i
      /\ (s \o t)[10] = j
  BY <1>1, <1>2, ConcatProperties
<1>5. \A n \in 1..10 : (s \o t)[n] = u[n]
  BY <1>4
<1> HIDE DEF s, t, u, S
<1>6. s \o t = u
  BY <1>1, <1>2, <1>3, <1>5, SeqEqual
<1> QED BY <1>6 DEF s, t, u

\* The index of the check that decides, which Verdict is defined with.
FirstOf(checks) == SelectInSeq(checks, Applies)

\* The first check that applies is selected, if there is one.
LEMMA First ==
  ASSUME NEW s, Len(s) \in Nat, NEW n \in 1..Len(s), s[n][1] = TRUE,
         \A m \in 1..(n - 1) : s[m][1] = FALSE
  PROVE  FirstOf(s) = n
<1> DEFINE I == {i \in 1..Len(s) : s[i][1]}
<1>1. FirstOf(s) = IF I # {} THEN Min(I) ELSE 0
  BY DEF FirstOf, SelectInSeq, Applies
<1>2. I \in SUBSET Nat /\ n \in I /\ \A m \in I : n <= m
  <2>1. ASSUME NEW m \in I PROVE n <= m
    <3>1. m \in Nat /\ n \in Nat /\ ~(m \in 1..(n - 1))
      OBVIOUS
    <3> QED BY <3>1
  <2> QED BY <2>1
<1> HIDE DEF I
<1> QED BY <1>1, <1>2, MinIs

\* None is selected when none applies.
LEMMA NoFirst ==
  ASSUME NEW s, Len(s) \in Nat, \A m \in 1..Len(s) : s[m][1] = FALSE
  PROVE  FirstOf(s) = 0
BY DEF FirstOf, SelectInSeq, Applies

\* What ten checks come to.
LEMMA TenChecks ==
  ASSUME NEW s, Len(s) = 10, \A n \in 1..10 : s[n][1] \in BOOLEAN
  PROVE  FirstOf(s) =
           IF s[1][1] THEN 1 ELSE IF s[2][1] THEN 2 ELSE IF s[3][1] THEN 3
           ELSE IF s[4][1] THEN 4 ELSE IF s[5][1] THEN 5 ELSE IF s[6][1] THEN 6
           ELSE IF s[7][1] THEN 7 ELSE IF s[8][1] THEN 8 ELSE IF s[9][1] THEN 9
           ELSE IF s[10][1] THEN 10 ELSE 0
<1> DEFINE None(n) == \A m \in 1..n : s[m][1] = FALSE
<1>1. Len(s) \in Nat /\ \A n \in 1..10 : n \in 1..Len(s)
  OBVIOUS
<1>2. ASSUME NEW n \in 1..10, s[n][1], None(n - 1) PROVE FirstOf(s) = n
  <2>1. s[n][1] = TRUE
    BY <1>2
  <2> QED BY <1>1, <1>2, <2>1, First, Zenon
<1>3. ASSUME None(10) PROVE FirstOf(s) = 0
  BY <1>1, <1>3, NoFirst
<1>4. None(0) /\ \A n \in 1..10 : None(n - 1) /\ ~s[n][1] => None(n)
  OBVIOUS
<1> HIDE DEF None
<1> QED BY <1>2, <1>3, <1>4

\* Requests of any bodies, such as the names in a channels.conf.
RequestOf(bodies) ==
  [method : {"GET", "POST"}, crossOrigin : BOOLEAN, route : {"tune", "stop", "other"},
   json : BOOLEAN, length : Nat, cut : BOOLEAN, body : bodies, buffer : Seq(Nat)]

\* The code of a request that the tuner is not asked for, or Pass.
LEMMA Verdicts ==
  ASSUME NEW bodies, NEW r \in RequestOf(bodies)
  PROVE  Verdict(r) =
           IF r.crossOrigin /\ r.method # "GET" THEN 403
           ELSE IF r.method # "POST" THEN 405
           ELSE IF r.length > Limit THEN 413
           ELSE IF r.cut THEN 500
           ELSE IF r.route = "other" THEN 404
           ELSE IF r.length > 0 /\ ~r.json THEN 415
           ELSE IF r.length > 0 /\ ~Decodes(r) THEN 400
           ELSE IF r.route = "tune" /\ (r.length = 0 \/ r.body = NoName) THEN 400
           ELSE Pass
<1> DEFINE b == Buffered(r)
           A == r.crossOrigin /\ r.method # "GET"
           B == BadMethod(r)
           C == r.length > Limit
           D == r.cut
           E == b.route = "other"
           F == BadMethod(b)
           G == b.buffer = <<>> /\ b.cut
           H == BodyLength(b) > 0 /\ ~b.json
           I == BodyLength(b) > 0 /\ ~Decodes(b)
           J == b.route = "tune" /\ ChannelName(b) = NoName
           ten == << <<A, 403>>, <<B, 405>>, <<C, 413>>, <<D, 500>>, <<E, 404>>,
                     <<F, 405>>, <<G, 500>>, <<H, 415>>, <<I, 400>>, <<J, 400>> >>
<1>1. /\ CrossOriginProtection(r) = << <<A, 403>> >>
      /\ WithLimitedBodyBuffer(r) = << <<B, 405>>, <<C, 413>>, <<D, 500>> >>
  BY Zenon DEF CrossOriginProtection, WithLimitedBodyBuffer
<1>2. /\ RpcMux(b) = << <<E, 404>> >>
      /\ Handle(b) = << <<F, 405>>, <<G, 500>>, <<H, 415>>, <<I, 400>> >>
      /\ Handler(b) = << <<J, 400>> >>
  BY Zenon DEF RpcMux, Handle, Handler
<1>3. Checks(r) = CrossOriginProtection(r) \o WithLimitedBodyBuffer(r) \o RpcMux(b)
                     \o Handle(b) \o Handler(b)
  BY DEF Checks
<1>4. /\ b.method = r.method /\ b.route = r.route /\ b.json = r.json /\ b.body = r.body
      /\ b.cut = r.cut /\ b.buffer # <<>> /\ BodyLength(b) = r.length
  BY DEF Buffered, RequestOf, BodyLength
<1>5. /\ A <=> r.crossOrigin /\ r.method # "GET"
      /\ B <=> r.method # "POST"
      /\ C <=> r.length > Limit
      /\ D <=> r.cut
      /\ E <=> r.route = "other"
      /\ F <=> r.method # "POST"
      /\ ~G
      /\ H <=> r.length > 0 /\ ~r.json
      /\ I <=> r.length > 0 /\ ~Decodes(r)
      /\ J <=> r.route = "tune" /\ (r.length = 0 \/ r.body = NoName)
  <2> HIDE DEF b
  <2> QED BY <1>4 DEF BadMethod, Decodes, ChannelName
<1>6. /\ A \in BOOLEAN /\ B \in BOOLEAN /\ C \in BOOLEAN /\ D \in BOOLEAN /\ E \in BOOLEAN
      /\ F \in BOOLEAN /\ G \in BOOLEAN /\ H \in BOOLEAN /\ I \in BOOLEAN /\ J \in BOOLEAN
  <2>1. D \in BOOLEAN
    BY DEF RequestOf
  <2> QED BY <2>1 DEF BadMethod
<1> HIDE DEF A, B, C, D, E, F, G, H, I, J
<1>7. Checks(r) = ten
  <2> DEFINE two == << <<A, 403>>, <<B, 405>>, <<C, 413>>, <<D, 500>> >>
             three == << <<A, 403>>, <<B, 405>>, <<C, 413>>, <<D, 500>>, <<E, 404>> >>
             four == << <<A, 403>>, <<B, 405>>, <<C, 413>>, <<D, 500>>, <<E, 404>>,
                        <<F, 405>>, <<G, 500>>, <<H, 415>>, <<I, 400>> >>
  <2>1. CrossOriginProtection(r) \o WithLimitedBodyBuffer(r) = two
    BY <1>1, LayerTwo
  <2>2. two \o RpcMux(b) = three
    BY <1>2, LayerThree
  <2>3. three \o Handle(b) = four
    BY <1>2, LayerFour
  <2>4. four \o Handler(b) = ten
    BY <1>2, LayerFive
  <2> HIDE DEF two, three, four, ten, b
  <2> QED BY <1>3, <2>1, <2>2, <2>3, <2>4
<1>8. Len(ten) = 10
  OBVIOUS
<1>9. /\ ten[1] = <<A, 403>> /\ ten[2] = <<B, 405>> /\ ten[3] = <<C, 413>> /\ ten[4] = <<D, 500>>
      /\ ten[5] = <<E, 404>> /\ ten[6] = <<F, 405>> /\ ten[7] = <<G, 500>> /\ ten[8] = <<H, 415>>
      /\ ten[9] = <<I, 400>> /\ ten[10] = <<J, 400>>
  OBVIOUS
<1> HIDE DEF ten, b
<1>10. \A n \in 1..10 : ten[n][1] \in BOOLEAN
  BY <1>6, <1>9
<1>11. Verdict(r) = LET i == FirstOf(Checks(r)) IN IF i = 0 THEN Pass ELSE Checks(r)[i][2]
  BY DEF Verdict, FirstOf, SelectInSeq
<1>12. Verdict(r) = LET i == FirstOf(ten) IN IF i = 0 THEN Pass ELSE ten[i][2]
  BY <1>7, <1>11
<1>13. Verdict(r) =
        IF A THEN 403 ELSE IF B THEN 405 ELSE IF C THEN 413 ELSE IF D THEN 500
        ELSE IF E THEN 404 ELSE IF F THEN 405 ELSE IF G THEN 500 ELSE IF H THEN 415
        ELSE IF I THEN 400 ELSE IF J THEN 400 ELSE Pass
  BY <1>8, <1>9, <1>10, <1>12, TenChecks
<1>14. CASE A
  BY <1>5, <1>13, <1>14
<1>15. CASE ~A /\ B
  BY <1>5, <1>13, <1>15
<1>16. CASE ~A /\ ~B /\ C
  BY <1>5, <1>13, <1>16
<1>17. CASE ~A /\ ~B /\ ~C /\ D
  BY <1>5, <1>13, <1>17
<1>18. CASE ~A /\ ~B /\ ~C /\ ~D /\ E
  BY <1>5, <1>13, <1>18
<1>19. CASE ~A /\ ~B /\ ~C /\ ~D /\ ~E /\ F
  BY <1>5, <1>13, <1>19
<1>20. CASE ~A /\ ~B /\ ~C /\ ~D /\ ~E /\ ~F /\ G
  BY <1>5, <1>13, <1>20
<1>21. CASE ~A /\ ~B /\ ~C /\ ~D /\ ~E /\ ~F /\ ~G /\ H
  BY <1>5, <1>13, <1>21
<1>22. CASE ~A /\ ~B /\ ~C /\ ~D /\ ~E /\ ~F /\ ~G /\ ~H /\ I
  BY <1>5, <1>13, <1>22
<1>23. CASE ~A /\ ~B /\ ~C /\ ~D /\ ~E /\ ~F /\ ~G /\ ~H /\ ~I /\ J
  BY <1>5, <1>13, <1>23
<1>24. CASE ~A /\ ~B /\ ~C /\ ~D /\ ~E /\ ~F /\ ~G /\ ~H /\ ~I /\ ~J
  BY <1>5, <1>13, <1>24
<1> QED BY <1>6, <1>14, <1>15, <1>16, <1>17, <1>18, <1>19, <1>20, <1>21, <1>22, <1>23, <1>24

-----------------------------------------------------------------------------
(***************************************************************************)
(* The inductive invariant.                                                *)
(***************************************************************************)

Phases == {"loading", "loaded", "serving", "stopping", "exited"}

\* While main loads, the lines read so far are the channels, or the last of
\* them is the first that does not parse.
Reading ==
  /\ phase \in Phases
  /\ file \in File \union {<<>>} /\ line \in 0..Len(file)
  /\ phase \in {"loading", "loaded"} /\ failure = <<>> =>
       /\ channels = [n \in 1..line |-> Channel(file[n])]
       /\ \A n \in 1..line : BadFields(file[n]) = {}
  /\ phase = "loaded" => failure = <<>> /\ line = Len(file)
  /\ failure \notin {<<>>, <<0, 0>>} =>
       /\ phase # "loaded"
       /\ line > 0 /\ BadFields(file[line]) # {}
       /\ \A n \in 1..(line - 1) : BadFields(file[n]) = {}
       /\ failure = <<line, Min(BadFields(file[line]))>>

\* Channels are those of lines that parse.
Listing ==
  /\ Len(channels) \in Nat /\ DOMAIN channels = 1..Len(channels)
  /\ \A i \in DOMAIN channels : \E conf \in File : \E n \in DOMAIN conf :
       BadFields(conf[n]) = {} /\ channels[i] = Channel(conf[n])

\* A request that was checked is with the tuner, which was asked for what it
\* says, until it has an answer, or it was refused.
Carried(k) ==
  /\ request[k] = NoRequest <=> received[k] = "nothing"
  /\ request[k] # NoRequest => request[k] \in Send[k]
  /\ received[k] # "checked" => at[k] = "idle" /\ code[k] = Pass
  /\ received[k] = "checked" =>
       /\ Verdict(request[k]) # Pass => at[k] = "idle" /\ code[k] = Verdict(request[k])
       /\ Verdict(request[k]) = Pass =>
            /\ asked[k] = Asks(request[k])
            /\ code[k] = Pass \/ (at[k] = "idle" /\ code[k] = CodeOf(answer[k]))
  /\ answer[k] = "unknown" => asked[k] \notin DOMAIN ChannelMap \union {Halt}

Requests ==
  /\ at \in [Client -> {"idle", "waiting", "starting", "working", "publishing", "done"}]
  /\ answer \in [Client -> Tuner!Error]
  /\ DOMAIN asked = Client /\ DOMAIN request = Client
  /\ DOMAIN received = Client /\ DOMAIN code = Client
  /\ phase \in {"loading", "loaded"} =>
       \A k \in Client : request[k] = NoRequest /\ answer[k] = "none"
  /\ \A k \in Client : Carried(k)

\* What a call has told the watchers.
Told(k) ==
  /\ at[k] \in {"waiting", "starting", "working", "publishing"} => answer[k] = "none"
  /\ at[k] \in {"publishing", "done"} /\ answer[k] = "none" =>
       status = IF asked[k] = Halt THEN Tuner!Stopped("none") ELSE Tuner!Playing(asked[k])
  /\ at[k] = "done" /\ answer[k] = "none" => (asked[k] = Halt <=> tracks = NoStream)
  /\ at[k] = "done" /\ answer[k] = "failed" => status = Tuner!Stopped("failed")

\* One call at a time has the tuner.
Turns ==
  /\ \A j, k \in Client :
       at[j] \notin {"idle", "waiting"} /\ at[k] \notin {"idle", "waiting"} => j = k
  /\ \A k \in Client : Told(k)

IInv == Reading /\ Listing /\ Requests /\ Turns

-----------------------------------------------------------------------------
(***************************************************************************)
(* The invariant holds at the start, and steps keep it.                    *)
(***************************************************************************)

\* A process that has just been started.
LEMMA Start == Init => IInv
<1> SUFFICES ASSUME Init PROVE IInv
  OBVIOUS
<1> USE DEF Init, ConfInit
<1>1. Reading
  <2>1. Len(file) \in Nat
    BY ChannelsConfAssumption
  <2>2. channels = [n \in 1..line |-> Channel(file[n])]
    OBVIOUS
  <2> QED BY <2>1, <2>2 DEF Reading, Phases
<1>2. Listing
  BY DEF Listing
<1>3. Requests
  BY DEF Requests, Carried, Tuner!Init, Tuner!Error
<1>4. Turns
  BY DEF Turns, Told, Tuner!Init
<1> QED BY <1>1, <1>2, <1>3, <1>4 DEF IInv

\* A line that has been read.
LEMMA LineRead ==
  ASSUME Reading, Listing, phase = "loading", ReadLine, UNCHANGED phase
  PROVE  Reading' /\ Listing'
<1> DEFINE fields == file[line']
           bad == BadFields(fields)
<1>1. /\ line \in Nat /\ Len(file) \in Nat /\ line < Len(file) /\ failure = <<>>
      /\ line' = line + 1 /\ file' = file /\ file \in File
  <2>1. Len(file) \in Nat /\ file \in File
    <3>1. file # <<>>
      BY DEF Reading, ReadLine
    <3> QED BY <3>1, ChannelsConfAssumption DEF Reading
  <2> QED BY <2>1 DEF Reading, ReadLine
<1>2. /\ channels = [n \in 1..line |-> Channel(file[n])]
      /\ \A n \in 1..line : BadFields(file[n]) = {}
  BY <1>1 DEF Reading
<1>3. DOMAIN file = 1..Len(file)
  BY <1>1, ChannelsConfAssumption
<1>4. CASE bad = {}
  <2>1. channels' = Append(channels, Channel(fields)) /\ failure' = <<>>
    BY <1>1, <1>4 DEF ReadLine
  <2>2. channels' = [n \in 1..line' |-> Channel(file[n])]
    <3> DEFINE C == {Channel(file[n]) : n \in 1..(line + 1)}
    <3>1. channels \in Seq(C) /\ Len(channels) = line /\ Channel(fields) \in C
      BY <1>1, <1>2
    <3> HIDE DEF C, fields
    <3>2. /\ channels' \in Seq(C) /\ Len(channels') = line + 1
          /\ \A n \in 1..line : channels'[n] = channels[n]
          /\ channels'[line + 1] = Channel(fields)
      BY <1>1, <2>1, <3>1, AppendProperties
    <3>3. \A n \in 1..line : channels[n] = Channel(file[n])
      BY <1>2
    <3>4. \A n \in 1..(line + 1) : channels'[n] = Channel(file[n])
      BY <1>1, <3>2, <3>3 DEF fields
    <3>5. channels' = [n \in 1..(line + 1) |-> channels'[n]]
      BY <1>1, <3>2
    <3> QED BY <1>1, <3>4, <3>5
  <2>3. ASSUME NEW n \in 1..line' PROVE BadFields(file[n]) = {}
    <3>1. n \in 1..line \/ n = line'
      BY <1>1
    <3> QED BY <1>2, <1>4, <3>1
  <2>4. Reading'
    <3> HIDE DEF fields, bad
    <3> QED BY <1>1, <2>1, <2>2, <2>3 DEF Reading, Phases
  <2>5. Listing'
    <3>1. Len(channels') = line' /\ DOMAIN channels' = 1..line'
      BY <1>1, <2>2
    <3>2. \A i \in 1..line' : i \in DOMAIN file /\ channels'[i] = Channel(file[i])
      BY <1>1, <1>3, <2>2
    <3>3. ASSUME NEW i \in DOMAIN channels'
          PROVE  \E conf \in File : \E n \in DOMAIN conf :
                   BadFields(conf[n]) = {} /\ channels'[i] = Channel(conf[n])
      <4>1. i \in DOMAIN file /\ BadFields(file[i]) = {} /\ channels'[i] = Channel(file[i])
        BY <2>3, <3>1, <3>2
      <4> QED BY <1>1, <4>1
    <3>4. Len(channels') \in Nat
      BY <1>1, <3>1
    <3> QED BY <3>1, <3>3, <3>4 DEF Listing
  <2> QED BY <2>4, <2>5
<1>5. CASE bad # {}
  <2>1. channels' = <<>> /\ failure' = <<line', Min(bad)>>
    BY <1>1, <1>5 DEF ReadLine
  <2>2. failure' # <<>> /\ failure' # <<0, 0>>
    BY <1>1, <2>1
  <2>3. \A n \in 1..(line' - 1) : BadFields(file[n]) = {}
    BY <1>1, <1>2
  <2>4. Reading'
    BY <1>1, <1>5, <2>1, <2>2, <2>3 DEF Reading, Phases
  <2>5. Listing'
    BY <2>1 DEF Listing
  <2> QED BY <2>4, <2>5
<1> QED BY <1>4, <1>5

\* Steps of main, and of requests, which leave the channels alone.
LEMMA ReadingKept ==
  ASSUME Reading, Listing, [Next]_vars
  PROVE  Reading' /\ Listing'
<1>1. CASE Load
  <2>1. CASE ReadLine
    BY <1>1, <2>1, LineRead DEF Load
  <2>2. CASE ReadFails
    <3>1. failure' = <<0, 0>> /\ failure' # <<>> /\ channels' = <<>> /\ phase' = "loading"
      BY <1>1, <2>2 DEF ReadFails, Load
    <3>2. Reading'
      BY <2>2, <3>1 DEF Reading, ReadFails, Phases
    <3>3. Listing'
      BY <3>1 DEF Listing
    <3> QED BY <3>2, <3>3
  <2> QED BY <1>1, <2>1, <2>2 DEF Load
<1>2. CASE Listen
  <2>1. file' = <<>> /\ line' = 0 /\ UNCHANGED <<channels, failure>> /\ phase' = "serving"
        /\ failure = <<>>
    BY <1>2 DEF Listen, Enter, Reading
  <2>2. Reading'
    BY <2>1 DEF Reading, Phases
  <2>3. Listing'
    BY <2>1 DEF Listing
  <2> QED BY <2>2, <2>3
<1>3. ASSUME UNCHANGED confVars PROVE Listing'
  BY <1>3 DEF confVars, Listing
<1>4. ASSUME UNCHANGED <<confVars, phase>> PROVE Reading'
  BY <1>4 DEF confVars, Reading
<1>5. CASE LoadFailed
  BY <1>3, <1>5 DEF LoadFailed, Enter, confVars, Reading, Phases
<1>6. CASE Loaded
  BY <1>3, <1>6 DEF Loaded, Enter, confVars, Reading, Phases
<1>7. CASE ListenFails \/ Signal \/ ShutdownDone \/ ShutdownTimeout
  BY <1>3, <1>7
  DEF ListenFails, Signal, ShutdownDone, ShutdownTimeout, Enter, confVars, Reading, Phases
<1>8. CASE \E k \in Client :
             \/ Arrive(k) \/ BodyArrives(k) \/ Check(k)
             \/ TunerEnter(k) \/ TunerWork(k) \/ Respond(k) \/ Finish(k)
  <2>1. UNCHANGED <<confVars, phase>>
    BY <1>8 DEF Arrive, BodyArrives, Check, TunerEnter, TunerWork, Respond, Finish
  <2> QED BY <1>3, <1>4, <2>1
<1>9. CASE UNCHANGED vars
  BY <1>3, <1>4, <1>9 DEF vars
<1> QED BY <1>1, <1>2, <1>5, <1>6, <1>7, <1>8, <1>9 DEF Next

-----------------------------------------------------------------------------
(***************************************************************************)
(* What the invariant says of channels.                                    *)
(***************************************************************************)

\* The lines read are all lines in the end, or the last of them is the first bad one.
LEMMA Exact == ASSUME Reading PROVE ParseIsExact
<1> DEFINE badLines == {n \in DOMAIN file : BadFields(file[n]) # {}}
<1>1. Len(file) \in Nat /\ DOMAIN file = 1..Len(file)
  BY ChannelsConfAssumption DEF Reading
<1>2. ASSUME phase = "loaded"
      PROVE  badLines = {} /\ channels = [n \in DOMAIN file |-> Channel(file[n])]
  BY <1>1, <1>2 DEF Reading
<1>3. ASSUME failure \notin {<<>>, <<0, 0>>}
      PROVE  failure[1] = Min(badLines) /\ failure[2] = Min(BadFields(file[failure[1]]))
  <2>1. /\ line \in DOMAIN file /\ BadFields(file[line]) # {}
        /\ \A n \in 1..(line - 1) : BadFields(file[n]) = {}
        /\ failure[1] = line /\ failure[2] = Min(BadFields(file[line]))
    <3>1. /\ line \in 0..Len(file) /\ line > 0 /\ BadFields(file[line]) # {}
          /\ \A n \in 1..(line - 1) : BadFields(file[n]) = {}
          /\ failure = <<line, Min(BadFields(file[line]))>>
      BY <1>3, Zenon DEF Reading
    <3>2. line \in DOMAIN file
      BY <1>1, <3>1
    <3> QED BY <3>1, <3>2
  <2>2. badLines \in SUBSET Nat /\ line \in badLines
    BY <1>1, <2>1
  <2>3. ASSUME NEW m \in badLines PROVE line <= m
    <3>1. m \in 1..Len(file) /\ line \in 1..Len(file)
      BY <1>1, <2>1
    <3>2. m \notin 1..(line - 1)
      BY <2>1
    <3> QED BY <1>1, <3>1, <3>2
  <2>4. Min(badLines) = line
    <3> HIDE DEF badLines
    <3> QED BY <2>2, <2>3, MinIs
  <2> QED BY <2>1, <2>4
<1> QED BY <1>2, <1>3 DEF ParseIsExact

\* The texts of a line that parses.
LEMMA Fields ==
  ASSUME NEW fields, Len(fields) \in Nat, BadFields(fields) = {}
  PROVE  /\ Len(fields) = 6
         /\ fields[2] \in DOMAIN Numeral /\ fields[3] \in DOMAIN Modulation
         /\ fields[4] \in DOMAIN Numeral /\ fields[5] \in DOMAIN Numeral
         /\ fields[6] \in DOMAIN Numeral
<1>1. Len(fields) = 6
  BY DEF BadFields
<1>2. {i \in {2, 4, 5, 6} : fields[i] \notin DOMAIN Numeral} = {}
  BY <1>1 DEF BadFields
<1>3. {i \in {3} : fields[i] \notin DOMAIN Modulation} = {}
  BY <1>1 DEF BadFields
<1> QED BY <1>1, <1>2, <1>3

\* And the other way round.
LEMMA GoodFields ==
  ASSUME NEW fields, Len(fields) = 6,
         fields[2] \in DOMAIN Numeral, fields[3] \in DOMAIN Modulation,
         fields[4] \in DOMAIN Numeral, fields[5] \in DOMAIN Numeral, fields[6] \in DOMAIN Numeral
  PROVE  BadFields(fields) = {}
BY DEF BadFields

\* Normalized modulations stay what they are.
LEMMA Modulations ==
  ASSUME NEW text \in DOMAIN Modulation
  PROVE  /\ Modulation[text] \in {"8VSB", "QAM_64", "QAM_256"}
         /\ Modulation[text] \in DOMAIN Modulation
         /\ Modulation[Modulation[text]] = Modulation[text]
BY DEF Modulation

\* What a channel of a line is formatted as parses to the same channel.
LEMMA Survives ==
  ASSUME NEW fields, Len(fields) \in Nat, BadFields(fields) = {}
  PROVE  LET text == Format(Channel(fields)) IN
           BadFields(text) = {} /\ Channel(text) = Channel(fields)
<1> DEFINE ch == Channel(fields)
           text == Format(ch)
<1>1. /\ fields[2] \in DOMAIN Numeral /\ fields[3] \in DOMAIN Modulation
      /\ fields[4] \in DOMAIN Numeral /\ fields[5] \in DOMAIN Numeral
      /\ fields[6] \in DOMAIN Numeral
  BY Fields
<1>2. /\ ch.name = fields[1] /\ ch.frequency = Numeral[fields[2]]
      /\ ch.modulation = Modulation[fields[3]] /\ ch.video = Numeral[fields[4]]
      /\ ch.audio = Numeral[fields[5]] /\ ch.program = Numeral[fields[6]]
  BY DEF Channel
<1>3. /\ Len(text) = 6
      /\ text[1] = ch.name /\ text[2] = Decimal[ch.frequency] /\ text[3] = ch.modulation
      /\ text[4] = Decimal[ch.video] /\ text[5] = Decimal[ch.audio]
      /\ text[6] = Decimal[ch.program]
  BY DEF Format
<1> HIDE DEF ch, text
<1>4. BadFields(text) = {}
  BY <1>1, <1>2, <1>3, ChannelsConfAssumption, Modulations, GoodFields
<1>5. /\ text[1] = fields[1] /\ Numeral[text[2]] = Numeral[fields[2]]
      /\ Modulation[text[3]] = Modulation[fields[3]] /\ Numeral[text[4]] = Numeral[fields[4]]
      /\ Numeral[text[5]] = Numeral[fields[5]] /\ Numeral[text[6]] = Numeral[fields[6]]
  BY <1>1, <1>2, <1>3, ChannelsConfAssumption, Modulations
<1>6. Channel(text) = Channel(fields)
  BY <1>5 DEF Channel
<1> QED BY <1>4, <1>6 DEF ch, text

\* A channel comes from a line that parses.
LEMMA Origin ==
  ASSUME Listing, NEW i \in DOMAIN channels
  PROVE  \E fields : /\ Len(fields) \in Nat /\ BadFields(fields) = {}
                     /\ channels[i] = Channel(fields)
                     /\ fields[1] \notin {Malformed, Mistyped}
                     /\ Size[fields[1]] \in Nat \ {0}
<1>1. PICK conf \in File : \E n \in DOMAIN conf :
             BadFields(conf[n]) = {} /\ channels[i] = Channel(conf[n])
  BY DEF Listing
<1>2. PICK n \in DOMAIN conf : BadFields(conf[n]) = {} /\ channels[i] = Channel(conf[n])
  BY <1>1
<1>3. conf[n] \in Seq(STRING)
  BY ChannelsConfAssumption
<1>4. Len(conf[n]) = 6 /\ 1 \in DOMAIN conf[n]
  BY <1>2, <1>3, Fields
<1> QED BY <1>2, <1>3, <1>4, ServerAssumption

\* So do all channels that are served.
LEMMA Survive == ASSUME Listing PROVE RoundTrip
<1> SUFFICES ASSUME NEW i \in DOMAIN channels
             PROVE  LET fields == Format(channels[i]) IN
                      BadFields(fields) = {} /\ Channel(fields) = channels[i]
  BY DEF RoundTrip
<1>1. PICK fields : /\ Len(fields) \in Nat /\ BadFields(fields) = {}
                    /\ channels[i] = Channel(fields)
  BY Origin
<1> QED BY <1>1, Survives

\* The map has every name, and the last channel of that name.
LEMMA Mapped ==
  ASSUME Listing, NEW i \in DOMAIN channels
  PROVE  LET name == channels[i].name IN
           /\ name \in DOMAIN ChannelMap
           /\ \E j \in DOMAIN channels :
                /\ ChannelMap[name] = channels[j] /\ channels[j].name = name
                /\ \A m \in DOMAIN channels : channels[m].name = name => m <= j
<1> DEFINE name == channels[i].name
           S == {j \in DOMAIN channels : channels[j].name = name}
<1>1. i \in DOMAIN ChannelNames /\ name = ChannelNames[i]
  BY DEF ChannelNames
<1>2. name \in Range(ChannelNames)
  BY <1>1 DEF Range
<1>3. S \in SUBSET (1..Len(channels)) /\ S # {} /\ Len(channels) \in Nat
  BY DEF Listing
<1>4. Max(S) \in S /\ \A m \in S : m <= Max(S)
  <2> HIDE DEF S
  <2> QED BY <1>3, MaxIs
<1>5. name \in DOMAIN ChannelMap /\ ChannelMap[name] = channels[Max(S)]
  BY <1>2 DEF ChannelMap
<1>6. \A m \in DOMAIN channels : channels[m].name = name => m <= Max(S)
  BY <1>4
<1>7. Max(S) \in DOMAIN channels /\ channels[Max(S)].name = name
  BY <1>4
<1> HIDE DEF S, name
<1> QED BY <1>5, <1>6, <1>7 DEF name

\* Only the limit refuses a request for a channel of that name.
LEMMA Tunable == ASSUME Listing PROVE ListedIsTunable
<1> SUFFICES ASSUME NEW i \in DOMAIN channels, channels[i].name # NoName
             PROVE  LET name == channels[i].name IN
                      /\ Verdict(TuneRequest(name)) = IF Size[name] > Limit THEN 413 ELSE Pass
                      /\ name \in DOMAIN ChannelMap
                      /\ \E j \in DOMAIN channels :
                           /\ ChannelMap[name] = channels[j] /\ channels[j].name = name
                           /\ \A m \in DOMAIN channels : channels[m].name = name => m <= j
                      /\ Describe(ChannelMap[name]).modulation # ""
  <2> HIDE DEF Verdict, TuneRequest, ChannelMap, Describe
  <2> QED BY DEF ListedIsTunable
<1> DEFINE name == channels[i].name
           r == TuneRequest(name)
<1>1. PICK j \in DOMAIN channels : ChannelMap[name] = channels[j] /\ channels[j].name = name
  BY Mapped
<1>2. PICK fields : /\ Len(fields) \in Nat /\ BadFields(fields) = {}
                    /\ channels[i] = Channel(fields)
                    /\ fields[1] \notin {Malformed, Mistyped}
                    /\ Size[fields[1]] \in Nat \ {0}
  BY Origin
<1>3. name = fields[1]
  BY <1>2 DEF Channel
<1>4. Verdict(r) = IF Size[name] > Limit THEN 413 ELSE Pass
  <2>1. Size[name] \in Nat /\ Size[name] > 0
    BY <1>2, <1>3
  <2>2. /\ r.method = "POST" /\ r.crossOrigin = FALSE /\ r.length = Size[name] /\ r.cut = FALSE
        /\ r.route = "tune" /\ r.json = TRUE /\ r.body = name
    BY DEF TuneRequest
  <2> HIDE DEF name
  <2>3. r \in RequestOf({name})
    BY <2>1 DEF TuneRequest, RequestOf
  <2>4. Decodes(r)
    BY <1>2, <1>3, <2>2 DEF Decodes
  <2>5. r.length # 0 /\ r.body # NoName
    BY <2>1, <2>2 DEF name
  <2> HIDE DEF r
  <2> QED BY <2>2, <2>3, <2>4, <2>5, Verdicts
<1>5. Describe(ChannelMap[name]).modulation # ""
  <2>1. PICK origin : /\ Len(origin) \in Nat /\ BadFields(origin) = {}
                      /\ channels[j] = Channel(origin)
    BY Origin
  <2>2. channels[j].modulation \in {"8VSB", "QAM_64", "QAM_256"}
    BY <2>1, Fields, Modulations DEF Channel
  <2> QED BY <1>1, <2>2 DEF Describe
<1> HIDE DEF r
<1> QED BY <1>4, <1>5, Mapped DEF r

-----------------------------------------------------------------------------
(***************************************************************************)
(* Requests and calls.                                                     *)
(***************************************************************************)

Place == {"idle", "waiting", "starting", "working", "publishing", "done"}
Rest == {"idle", "waiting"}

\* The map depends on the channels only.
LEMMA KnownKept == ASSUME UNCHANGED channels PROVE (DOMAIN ChannelMap)' = DOMAIN ChannelMap
BY DEF ChannelMap, ChannelNames

\* Nothing about a request changes.
LEMMA CarriedKept ==
  ASSUME NEW k \in Client, Carried(k), UNCHANGED channels,
         <<request[k], received[k], at[k], code[k], asked[k], answer[k]>>' =
           <<request[k], received[k], at[k], code[k], asked[k], answer[k]>>
  PROVE  Carried(k)'
<1> HIDE DEF ChannelMap, CodeOf, Verdict, Asks
<1>1. /\ request'[k] = request[k] /\ received'[k] = received[k] /\ at'[k] = at[k]
      /\ code'[k] = code[k] /\ asked'[k] = asked[k] /\ answer'[k] = answer[k]
  OBVIOUS
<1> QED BY <1>1, KnownKept DEF Carried

\* A step of one request, or of its call.
LEMMA RequestsFrom ==
  ASSUME Requests, UNCHANGED channels, phase' \notin {"loading", "loaded"},
         at' \in [Client -> Place], answer' \in [Client -> Tuner!Error],
         DOMAIN asked' = Client, DOMAIN request' = Client,
         DOMAIN received' = Client, DOMAIN code' = Client,
         NEW k \in Client, Carried(k)',
         \A j \in Client \ {k} :
           <<request[j], received[j], at[j], code[j], asked[j], answer[j]>>' =
             <<request[j], received[j], at[j], code[j], asked[j], answer[j]>>
  PROVE  Requests'
<1>1. ASSUME NEW j \in Client PROVE Carried(j)'
  <2>1. CASE j # k
    <3>1. Carried(j)
      BY DEF Requests
    <3>2. j \in Client \ {k}
      BY <2>1
    <3> QED BY <3>1, <3>2, CarriedKept
  <2> QED BY <2>1
<1> QED BY <1>1 DEF Requests, Place

\* The same of calls: others have not told anything, if it tells something.
LEMMA TurnsFrom ==
  ASSUME Requests, Turns, NEW k \in Client,
         \A j \in Client \ {k} :
           <<at[j], asked[j], answer[j]>>' = <<at[j], asked[j], answer[j]>>,
         at'[k] \in Rest \/ at[k] \notin Rest \/ \A j \in Client : at[j] \in Rest,
         UNCHANGED <<status, tracks>> \/ at[k] \notin Rest,
         Told(k)'
  PROVE  Turns'
<1>1. ASSUME NEW i \in Client, NEW j \in Client, at'[i] \notin Rest, at'[j] \notin Rest
      PROVE  i = j
  <2>1. i # k => at[i] \notin Rest
    BY <1>1
  <2>2. j # k => at[j] \notin Rest
    BY <1>1
  <2> QED BY <1>1, <2>1, <2>2 DEF Turns, Rest
<1>2. ASSUME NEW j \in Client \ {k} PROVE Told(j)'
  <2>1. at'[j] = at[j] /\ asked'[j] = asked[j] /\ answer'[j] = answer[j]
    OBVIOUS
  <2>2. Told(j)
    BY DEF Turns
  <2>3. CASE UNCHANGED <<status, tracks>>
    BY <2>1, <2>2, <2>3 DEF Told
  <2>4. CASE at[k] \notin Rest
    <3>1. at[j] \in Rest
      BY <2>4 DEF Turns, Rest
    <3> QED BY <2>1, <2>2, <3>1 DEF Told, Rest
  <2> QED BY <2>3, <2>4
<1> QED BY <1>1, <1>2 DEF Turns, Rest

\* What the layers do to a request.
LEMMA Checked ==
  ASSUME Requests, NEW k \in Client, Check(k)
  PROVE  /\ request[k] \in Send[k] /\ received[k] # "checked"
         /\ received' = [received EXCEPT ![k] = "checked"]
         /\ code' = [code EXCEPT ![k] = Verdict(request[k])]
         /\ IF Verdict(request[k]) = Pass THEN Tuner!Call(k, Asks(request[k]))
            ELSE UNCHANGED tunerVars
         /\ UNCHANGED <<confVars, phase, request>> /\ phase \in {"serving", "stopping"}
<1> HIDE DEF Verdict, Asks
<1>1. request[k] \in Send[k] /\ received[k] # "checked"
  BY DEF Check, Requests, Carried
<1>2. PICK judged \in Judged :
         /\ judged[1] = request[k]
         /\ code' = [code EXCEPT ![k] = judged[2]]
         /\ IF judged[2] = Pass THEN Tuner!Call(k, Asks(request[k])) ELSE UNCHANGED tunerVars
  BY Zenon DEF Check
<1>3. judged[2] = Verdict(request[k])
  BY <1>2 DEF Judged
<1>4. /\ received' = [received EXCEPT ![k] = "checked"]
      /\ UNCHANGED <<confVars, phase, request>> /\ phase \in {"serving", "stopping"}
  BY DEF Check, Receive, Up
<1> QED BY <1>1, <1>2, <1>3, <1>4

\* What the actions do to the other requests.
LEMMA Others ==
  ASSUME Requests, NEW k \in Client,
         \/ Arrive(k) \/ BodyArrives(k) \/ Check(k)
         \/ TunerEnter(k) \/ TunerWork(k) \/ Respond(k) \/ Finish(k)
  PROVE  /\ UNCHANGED <<confVars, phase>>
         /\ phase \in {"serving", "stopping"}
         /\ at' \in [Client -> Place] /\ answer' \in [Client -> Tuner!Error]
         /\ DOMAIN asked' = Client /\ DOMAIN request' = Client
         /\ DOMAIN received' = Client /\ DOMAIN code' = Client
         /\ \A j \in Client \ {k} :
              <<request[j], received[j], at[j], code[j], asked[j], answer[j]>>' =
                <<request[j], received[j], at[j], code[j], asked[j], answer[j]>>
<1> HIDE DEF Verdict, Asks, CodeOf
<1>1. /\ at \in [Client -> Place] /\ answer \in [Client -> Tuner!Error]
      /\ DOMAIN asked = Client /\ DOMAIN request = Client
      /\ DOMAIN received = Client /\ DOMAIN code = Client
  BY DEF Requests, Place
<1>2. CASE Arrive(k) \/ BodyArrives(k)
  BY <1>1, <1>2 DEF Arrive, BodyArrives, Receive, Up, tunerVars
<1>7. CASE Check(k)
  <2>1. /\ received' = [received EXCEPT ![k] = "checked"]
        /\ code' = [code EXCEPT ![k] = Verdict(request[k])]
        /\ UNCHANGED <<confVars, phase, request>> /\ phase \in {"serving", "stopping"}
        /\ IF Verdict(request[k]) = Pass THEN Tuner!Call(k, Asks(request[k]))
           ELSE UNCHANGED tunerVars
    BY <1>7, Checked
  <2>2. CASE Verdict(request[k]) = Pass
    BY <1>1, <2>1, <2>2 DEF Tuner!Call, Tuner!To, Tuner!Answer, Tuner!Error, Place
  <2>3. CASE Verdict(request[k]) # Pass
    BY <1>1, <2>1, <2>3 DEF tunerVars
  <2> QED BY <2>2, <2>3
<1>3. CASE TunerEnter(k)
  BY <1>1, <1>3
  DEF TunerEnter, Up, requestVars, Tuner!Enter, Tuner!To, Tuner!Answer, Tuner!Error, Place
<1>4. CASE TunerWork(k)
  <2>1. UNCHANGED <<confVars, phase, request, received, code>>
        /\ phase \in {"serving", "stopping"} /\ Tuner!Work(k)
    BY <1>4 DEF TunerWork, Up, requestVars
  <2>2. /\ \E p \in Place : at' = [at EXCEPT ![k] = p]
        /\ answer' = answer \/ answer' = [answer EXCEPT ![k] = "failed"]
        /\ asked' = asked
    BY <2>1 DEF Tuner!Work, Tuner!Announce, Tuner!Change, Tuner!Publish, Tuner!Fail,
                Tuner!Return, Tuner!To, Tuner!Answer, Place
  <2> QED BY <1>1, <2>1, <2>2 DEF Tuner!Error
<1>5. CASE Respond(k)
  BY <1>1, <1>5 DEF Respond, Up, tunerVars
<1>6. CASE Finish(k)
  BY <1>1, <1>6 DEF Finish, Receive, Up, tunerVars
<1> QED BY <1>2, <1>3, <1>4, <1>5, <1>6, <1>7

\* A request comes, in two parts.
LEMMA ArriveKept ==
  ASSUME Requests, NEW k \in Client, Arrive(k) \/ BodyArrives(k)
  PROVE  /\ Carried(k)' /\ (Turns => Told(k)')
         /\ UNCHANGED <<status, tracks>> /\ at'[k] \in Rest
<1> HIDE DEF Verdict, Asks, CodeOf
<1>1. /\ UNCHANGED <<status, tracks, at, asked, answer, code, channels>>
      /\ Carried(k) /\ (Turns => Told(k))
  BY DEF Arrive, BodyArrives, tunerVars, confVars, Requests, Turns
<1>2. /\ request'[k] \in Send[k] /\ request'[k] # NoRequest
      /\ received[k] # "checked" /\ received'[k] \in {"head", "all"}
  <2>1. CASE Arrive(k)
    BY <1>1, <2>1, ServerAssumption DEF Arrive, Receive, Requests, Carried
  <2>2. CASE BodyArrives(k)
    BY <1>1, <2>2 DEF BodyArrives, Receive, Requests, Carried
  <2> QED BY <2>1, <2>2
<1>3. Carried(k)'
  BY <1>1, <1>2, KnownKept DEF Carried
<1> QED BY <1>1, <1>2, <1>3 DEF Carried, Told, Rest

\* A call is made in the name of a request, and nothing is told yet.
LEMMA CheckKept ==
  ASSUME Requests, NEW k \in Client, Check(k)
  PROVE  /\ Carried(k)' /\ (Turns => Told(k)')
         /\ UNCHANGED <<status, tracks>> /\ (at'[k] \in Rest \/ at'[k] = at[k])
<1> HIDE DEF Verdict, Asks, CodeOf
<1> DEFINE r == request[k]
<1>1. /\ r \in Send[k] /\ r # NoRequest /\ received[k] # "checked"
      /\ request'[k] = r /\ received'[k] = "checked" /\ code'[k] = Verdict(r)
      /\ IF Verdict(r) = Pass THEN Tuner!Call(k, Asks(r)) ELSE UNCHANGED tunerVars
      /\ UNCHANGED channels
  BY Checked, ServerAssumption DEF Requests, confVars
<1>2. at[k] = "idle" /\ Carried(k) /\ (Turns => Told(k))
  BY <1>1 DEF Requests, Carried, Turns
<1> HIDE DEF r
<1>3. CASE Verdict(r) = Pass
  <2>1. /\ at'[k] = "waiting" /\ asked'[k] = Asks(r) /\ answer'[k] = "none"
        /\ UNCHANGED <<status, tracks>>
    BY <1>1, <1>3 DEF Requests, Tuner!Call, Tuner!To, Tuner!Answer
  <2>2. Carried(k)'
    BY <1>1, <1>3, <2>1 DEF Carried
  <2>3. Told(k)'
    BY <2>1 DEF Told
  <2> QED BY <2>1, <2>2, <2>3 DEF Rest
<1>4. CASE Verdict(r) # Pass
  <2>1. /\ at'[k] = at[k] /\ asked'[k] = asked[k] /\ answer'[k] = answer[k]
        /\ UNCHANGED <<status, tracks>>
    BY <1>1, <1>4 DEF tunerVars
  <2>2. Carried(k)'
    BY <1>1, <1>2, <1>4, <2>1, KnownKept DEF Carried
  <2>3. Turns => Told(k)'
    BY <1>2, <2>1 DEF Told
  <2> QED BY <2>1, <2>2, <2>3
<1> QED BY <1>3, <1>4

\* The call has its turn.
LEMMA EnterKept ==
  ASSUME Requests, Turns, NEW k \in Client, TunerEnter(k)
  PROVE  /\ Carried(k)' /\ Told(k)'
         /\ UNCHANGED <<status, tracks>> /\ \A j \in Client : at[j] \in Rest
<1> HIDE DEF Verdict, Asks, CodeOf
<1>1. /\ at[k] = "waiting" /\ \A j \in Client : at[j] \in Rest
      /\ UNCHANGED <<status, tracks, asked, request, received, code, channels>>
      /\ \/ asked[k] = Halt /\ at' = [at EXCEPT ![k] = "working"] /\ UNCHANGED answer
         \/ /\ asked[k] \in DOMAIN ChannelMap
            /\ at' = [at EXCEPT ![k] = "starting"] /\ UNCHANGED answer
         \/ /\ asked[k] \notin DOMAIN ChannelMap \union {Halt}
            /\ at' = [at EXCEPT ![k] = "done"] /\ answer' = [answer EXCEPT ![k] = "unknown"]
  BY DEF TunerEnter, Tuner!Enter, Tuner!To, Tuner!Answer, requestVars, confVars, Rest
<1>2. Carried(k) /\ Told(k) /\ answer[k] = "none"
  BY <1>1 DEF Requests, Turns, Told
<1>3. \/ at'[k] \in {"working", "starting"} /\ answer'[k] = "none"
      \/ /\ asked[k] \notin DOMAIN ChannelMap \union {Halt}
         /\ at'[k] = "done" /\ answer'[k] = "unknown"
  BY <1>1, <1>2 DEF Requests
<1>4. Carried(k)'
  BY <1>1, <1>2, <1>3, KnownKept DEF Carried
<1>5. Told(k)'
  BY <1>1, <1>3 DEF Told
<1> QED BY <1>1, <1>4, <1>5

\* The call gets on and tells the watchers.
LEMMA WorkKept ==
  ASSUME Requests, Turns, NEW k \in Client, TunerWork(k)
  PROVE  Carried(k)' /\ Told(k)' /\ at[k] \notin Rest
<1> HIDE DEF Verdict, Asks, CodeOf
<1>1. UNCHANGED <<asked, request, received, code, channels>> /\ Tuner!Work(k)
      /\ Carried(k) /\ Told(k)
  BY DEF TunerWork, Tuner!Work, Tuner!Announce, Tuner!Change, Tuner!Publish, Tuner!Fail,
         Tuner!Return, requestVars, confVars, Requests, Turns
<1>2. k \in DOMAIN at /\ k \in DOMAIN answer
  BY DEF Requests
<1>3. /\ at[k] \in {"starting", "working", "publishing", "done"}
      /\ answer'[k] = answer[k] \/ answer'[k] = "failed"
  BY <1>1, <1>2 DEF Tuner!Work, Tuner!Announce, Tuner!Change, Tuner!Publish, Tuner!Fail,
         Tuner!Return, Tuner!Answer
<1>4. Carried(k)'
  <2>1. answer'[k] = "unknown" => answer[k] = "unknown"
    BY <1>3
  <2>2. received[k] = "checked" /\ Verdict(request[k]) = Pass /\ code[k] = Pass
    BY <1>1, <1>3 DEF Carried
  <2>3. /\ request'[k] = request[k] /\ received'[k] = received[k]
        /\ code'[k] = code[k] /\ asked'[k] = asked[k]
    BY <1>1
  <2> QED BY <1>1, <2>1, <2>2, <2>3, KnownKept DEF Carried
<1>5. Told(k)'
  <2>1. CASE Tuner!Announce(k)
    BY <1>1, <1>2, <2>1 DEF Tuner!Announce, Tuner!To, Told
  <2>2. CASE Tuner!Change(k)
    BY <1>1, <1>2, <2>2 DEF Tuner!Change, Tuner!To, Told
  <2>3. CASE Tuner!Publish(k)
    <3>1. /\ at'[k] = "done" /\ at[k] = "publishing" /\ UNCHANGED <<status, asked, answer>>
          /\ IF asked[k] = Halt THEN tracks' = NoStream ELSE tracks' \in Stream \ {tracks}
      BY <1>2, <2>3 DEF Tuner!Publish, Tuner!To
    <3>2. asked[k] = Halt <=> tracks' = NoStream
      BY <3>1, ServerAssumption
    <3> QED BY <1>1, <3>1, <3>2 DEF Told
  <2>4. CASE Tuner!Fail(k)
    BY <1>1, <1>2, <2>4 DEF Tuner!Fail, Tuner!To, Tuner!Answer, Told
  <2>5. CASE Tuner!Return(k)
    BY <1>1, <1>2, <2>5 DEF Tuner!Return, Tuner!To, Told
  <2> QED BY <1>1, <2>1, <2>2, <2>3, <2>4, <2>5 DEF Tuner!Work
<1> QED BY <1>3, <1>4, <1>5 DEF Rest

\* The handler writes the code of the answer, and the connection is free again.
LEMMA AnswerKept ==
  ASSUME Requests, Turns, NEW k \in Client, Respond(k) \/ Finish(k)
  PROVE  /\ Carried(k)' /\ Told(k)'
         /\ UNCHANGED <<status, tracks>> /\ at'[k] \in Rest
<1> HIDE DEF Verdict, Asks, CodeOf
<1>1. UNCHANGED <<status, tracks, at, asked, answer, channels>> /\ Carried(k) /\ Told(k)
  BY DEF Respond, Finish, tunerVars, confVars, Requests, Turns
<1>2. at[k] = "idle"
  BY <1>1 DEF Respond, Finish, Carried
<1>3. CASE Respond(k)
  <2>1. /\ request'[k] = request[k] /\ received'[k] = received[k]
        /\ received[k] = "checked" /\ code[k] = Pass /\ code'[k] = CodeOf(answer[k])
    BY <1>3 DEF Respond, Requests
  <2> QED BY <1>1, <1>2, <2>1, KnownKept DEF Carried, Told, Rest
<1>4. CASE Finish(k)
  <2>1. request'[k] = NoRequest /\ received'[k] = "nothing" /\ code'[k] = Pass
    BY <1>4 DEF Finish, Receive, Requests
  <2> QED BY <1>1, <1>2, <2>1, KnownKept DEF Carried, Told, Rest
<1> QED BY <1>3, <1>4

\* Every step, of main or of a request, keeps both parts.
LEMMA RequestsKept ==
  ASSUME IInv, [Next]_vars
  PROVE  Requests' /\ Turns'
<1> USE DEF IInv
<1>1. ASSUME NEW k \in Client,
             \/ Arrive(k) \/ BodyArrives(k) \/ Check(k)
             \/ TunerEnter(k) \/ TunerWork(k) \/ Respond(k) \/ Finish(k)
      PROVE  Requests' /\ Turns'
  <2>1. /\ Carried(k)' /\ Told(k)'
        /\ at'[k] \in Rest \/ at[k] \notin Rest \/ \A j \in Client : at[j] \in Rest
        /\ UNCHANGED <<status, tracks>> \/ at[k] \notin Rest
    BY <1>1, ArriveKept, CheckKept, EnterKept, WorkKept, AnswerKept
  <2>2. UNCHANGED channels /\ phase' \notin {"loading", "loaded"}
    BY <1>1, Others DEF confVars
  <2>3. Requests'
    BY <1>1, <2>1, <2>2, Others, RequestsFrom
  <2>4. Turns'
    <3>1. \A j \in Client \ {k} :
            <<at[j], asked[j], answer[j]>>' = <<at[j], asked[j], answer[j]>>
      BY <1>1, Others
    <3> QED BY <2>1, <3>1, TurnsFrom
  <2> QED BY <2>3, <2>4
<1>2. ASSUME UNCHANGED <<tunerVars, requestVars>> PROVE Turns'
  BY <1>2 DEF Turns, Told, tunerVars
<1>3. ASSUME UNCHANGED <<tunerVars, requestVars>>, UNCHANGED channels \/ phase = "loading",
             phase' \in {"loading", "loaded"} => phase \in {"loading", "loaded"}
      PROVE  Requests'
  <2>1. UNCHANGED <<at, asked, answer, request, received, code>>
    BY <1>3 DEF tunerVars, requestVars
  <2>2. ASSUME NEW k \in Client PROVE Carried(k)'
    <3>1. Carried(k)
      BY DEF Requests
    <3>2. CASE UNCHANGED channels
      BY <2>1, <3>1, <3>2, CarriedKept
    <3>3. CASE phase = "loading"
      <4>1. /\ request'[k] = NoRequest /\ received'[k] = "nothing" /\ answer'[k] = "none"
            /\ at'[k] = "idle" /\ code'[k] = Pass
        BY <2>1, <3>1, <3>3 DEF Requests, Carried
      <4> QED BY <4>1 DEF Carried
    <3> QED BY <1>3, <3>2, <3>3
  <2> QED BY <1>3, <2>1, <2>2 DEF Requests
<1>4. CASE Load \/ LoadFailed \/ Loaded
  <2>1. /\ UNCHANGED <<tunerVars, requestVars>> /\ phase = "loading"
    BY <1>4 DEF Load, LoadFailed, Loaded, Enter
  <2> QED BY <1>2, <1>3, <2>1
<1>5. CASE Listen \/ ListenFails \/ Signal \/ ShutdownDone \/ ShutdownTimeout
  <2>1. /\ UNCHANGED <<tunerVars, requestVars, channels>>
        /\ phase' \notin {"loading", "loaded"}
    BY <1>5 DEF Listen, ListenFails, Signal, ShutdownDone, ShutdownTimeout, Enter, confVars
  <2> QED BY <1>2, <1>3, <2>1
<1>6. CASE UNCHANGED vars
  <2>1. UNCHANGED <<tunerVars, requestVars, channels, phase>>
    BY <1>6 DEF vars, confVars
  <2> QED BY <1>2, <1>3, <2>1
<1> QED BY <1>1, <1>4, <1>5, <1>6 DEF Next

-----------------------------------------------------------------------------
(***************************************************************************)
(* What the invariant says of requests.                                    *)
(***************************************************************************)

\* Exactly the acceptable requests reach the tuner.
LEMMA Acceptable ==
  ASSUME NEW r \in Request
  PROVE  /\ Verdict(r) = Pass <=> Proper(r)
         /\ Verdict(r) \in {Pass, 400, 403, 404, 405, 413, 415, 500}
         /\ r.method = "GET" <=> Verdict(r) = 405
         /\ r.method = "POST" /\ ~r.crossOrigin => (r.length > Limit <=> Verdict(r) = 413)
<1>1. r \in RequestOf(Name \union {NoName, Malformed, Mistyped})
  BY DEF Request, RequestOf
<1>2. /\ r.method \in {"GET", "POST"} /\ r.crossOrigin \in BOOLEAN
      /\ r.route \in {"tune", "stop", "other"} /\ r.json \in BOOLEAN
      /\ r.length \in Nat /\ r.cut \in BOOLEAN
      /\ r.body \in Name \union {NoName, Malformed, Mistyped} /\ Limit \in Nat
  BY RpcAssumption DEF Request
<1> DEFINE tail == IF r.route = "other" THEN 404
                   ELSE IF r.length > 0 /\ ~r.json THEN 415
                   ELSE IF r.length > 0 /\ ~Decodes(r) THEN 400
                   ELSE IF r.route = "tune" /\ (r.length = 0 \/ r.body = NoName) THEN 400
                   ELSE Pass
<1>3. Verdict(r) = IF r.crossOrigin /\ r.method # "GET" THEN 403
                   ELSE IF r.method # "POST" THEN 405
                   ELSE IF r.length > Limit THEN 413
                   ELSE IF r.cut THEN 500 ELSE tail
  BY <1>1, Verdicts
<1>4. /\ tail \in {Pass, 400, 404, 415}
      /\ tail = Pass <=> /\ r.route # "other"
                         /\ r.length > 0 => r.json /\ r.body # Malformed
                         /\ r.route = "tune" => r.length > 0 /\ r.body \in Name
  <2>1. Decodes(r) <=> r.body # Malformed /\ (r.body = Mistyped => r.route = "stop")
    BY DEF Decodes
  <2>2. r.body \in Name <=> r.body \notin {NoName, Malformed, Mistyped}
    BY <1>2, RpcAssumption
  <2>3. r.length = 0 <=> ~(r.length > 0)
    BY <1>2
  <2> QED BY <1>2, <2>1, <2>2, <2>3 DEF Pass
<1>5. r.length <= Limit <=> ~(r.length > Limit)
  BY <1>2
<1> HIDE DEF tail
<1> QED BY <1>2, <1>3, <1>4, <1>5 DEF Proper, Pass

\* What the tuner is asked for.
LEMMA AskedFor ==
  ASSUME NEW r \in Request, Proper(r)
  PROVE  /\ r.route \in {"tune", "stop"}
         /\ Asks(r) = (IF r.route = "stop" THEN Halt ELSE r.body)
         /\ Asks(r) = Halt <=> r.route = "stop"
<1>1. BodyLength(Buffered(r)) = r.length /\ Buffered(r).body = r.body
  BY DEF Buffered, BodyLength, Request
<1>2. r.route \in {"tune", "stop"} /\ (r.route = "tune" => r.length > 0 /\ r.body \in Name)
  BY DEF Proper, Request
<1>3. r.route = "tune" => ChannelName(Buffered(r)) = r.body
  BY <1>1, <1>2 DEF ChannelName
<1> QED BY <1>2, <1>3, ServerAssumption DEF Asks

\* The code tells the answer.
LEMMA Codes ==
  ASSUME NEW e \in {"none", "unknown", "failed"}
  PROVE  /\ CodeOf(e) \in {204, 400, 500}
         /\ CodeOf(e) = 204 <=> e = "none"
         /\ CodeOf(e) = 400 <=> e = "unknown"
         /\ CodeOf(e) = 500 <=> e = "failed"
<1>1. e = "none" => CodeOf(e) = 204
  BY DEF CodeOf
<1>2. e = "unknown" => CodeOf(e) = 400
  BY DEF CodeOf
<1>3. e = "failed" => CodeOf(e) = 500
  BY DEF CodeOf
<1> QED BY <1>1, <1>2, <1>3

\* A call is made for an acceptable request.
LEMMA Arrived == ASSUME Requests PROVE ParametersArrive
<1> SUFFICES ASSUME NEW k \in Client, at[k] # "idle"
             PROVE  LET r == request[k] IN
                      Proper(r) /\ asked[k] = IF r.route = "stop" THEN Halt ELSE r.body
  BY DEF ParametersArrive
<1>1. /\ request[k] \in Request /\ Verdict(request[k]) = Pass
      /\ asked[k] = Asks(request[k])
  BY ServerAssumption DEF Requests, Carried
<1> QED BY <1>1, Acceptable, AskedFor

\* A code is that of a check or of an answer.
LEMMA Conventional == ASSUME Requests PROVE Conventions
<1>1. ASSUME NEW k \in Client, Stalled(k)
      PROVE  request[k].method = "POST" /\ ~request[k].crossOrigin
  BY <1>1 DEF Stalled, ReadsBody, BadMethod
<1> SUFFICES ASSUME NEW k \in Client, received[k] = "checked"
             PROVE  LET r == request[k] IN
                      /\ r.method = "GET" <=> code[k] = 405
                      /\ r.method = "POST" /\ ~r.crossOrigin => (r.length > Limit <=> code[k] = 413)
                      /\ ~Proper(r) => code[k] \notin {Pass, 204}
                      /\ Proper(r) => \/ code[k] \in {Pass, 204, 500}
                                      \/ /\ code[k] = 400 /\ r.route = "tune"
                                         /\ r.body \notin DOMAIN ChannelMap
  BY <1>1 DEF Conventions
<1> DEFINE r == request[k]
<1>2. r \in Request /\ Carried(k) /\ answer[k] \in {"none", "unknown", "failed"}
  BY ServerAssumption DEF Requests, Carried, Tuner!Error
<1>3. CASE Verdict(r) # Pass
  <2>1. code[k] = Verdict(r)
    BY <1>2, <1>3 DEF Carried
  <2> HIDE DEF r
  <2> QED BY <1>2, <1>3, <2>1, Acceptable DEF r, Pass
<1>4. CASE Verdict(r) = Pass
  <2>1. asked[k] = Asks(r) /\ (code[k] = Pass \/ code[k] = CodeOf(answer[k]))
    BY <1>2, <1>4 DEF Carried
  <2>2. code[k] = 400 => asked[k] \notin DOMAIN ChannelMap \union {Halt}
    <3>1. code[k] = 400 => CodeOf(answer[k]) = 400
      BY <2>1 DEF Pass
    <3> QED BY <1>2, <3>1, Codes DEF Carried
  <2>3. code[k] \in {Pass, 204, 400, 500}
    <3>1. CodeOf(answer[k]) \in {204, 400, 500}
      BY <1>2, Codes
    <3> QED BY <2>1, <3>1
  <2>4. Proper(r) /\ r.method # "GET" /\ ~(r.method = "POST" /\ ~r.crossOrigin /\ r.length > Limit)
    BY <1>2, <1>4, Acceptable DEF Pass
  <2>5. code[k] = 400 => r.route = "tune" /\ r.body \notin DOMAIN ChannelMap
    BY <1>2, <2>1, <2>2, <2>4, AskedFor
  <2> HIDE DEF r
  <2> QED BY <2>3, <2>4, <2>5 DEF r, Pass
<1> QED BY <1>3, <1>4

\* A call that is done has told the watchers what it answers.
LEMMA TrueCodes == ASSUME Requests, Turns PROVE CodeIsTrue
<1> SUFFICES ASSUME NEW k \in Client, at[k] = "done"
             PROVE  LET r == request[k]
                        c == CodeOf(answer[k])
                    IN /\ c = 204 /\ r.route = "stop" =>
                            status = Tuner!Stopped("none") /\ tracks = NoStream
                       /\ c = 204 /\ r.route = "tune" =>
                            status = Tuner!Playing(r.body) /\ tracks # NoStream
                       /\ c = 500 => status = Tuner!Stopped("failed")
                       /\ c = 400 => r.body \notin DOMAIN ChannelMap
  BY DEF CodeIsTrue
<1> DEFINE r == request[k]
<1>1. /\ r \in Request /\ Verdict(r) = Pass /\ asked[k] = Asks(r)
      /\ answer[k] \in {"none", "unknown", "failed"}
      /\ answer[k] = "unknown" => asked[k] \notin DOMAIN ChannelMap \union {Halt}
  BY ServerAssumption DEF Requests, Carried, Tuner!Error
<1>2. Proper(r)
  BY <1>1, Acceptable
<1>3. /\ r.route \in {"tune", "stop"}
      /\ asked[k] = (IF r.route = "stop" THEN Halt ELSE r.body)
      /\ asked[k] = Halt <=> r.route = "stop"
  BY <1>1, <1>2, AskedFor
<1>4. /\ answer[k] = "none" =>
           /\ status = IF asked[k] = Halt THEN Tuner!Stopped("none") ELSE Tuner!Playing(asked[k])
           /\ asked[k] = Halt <=> tracks = NoStream
      /\ answer[k] = "failed" => status = Tuner!Stopped("failed")
  BY DEF Turns, Told
<1> HIDE DEF r
<1>5. /\ CodeOf(answer[k]) = 204 <=> answer[k] = "none"
      /\ CodeOf(answer[k]) = 400 <=> answer[k] = "unknown"
      /\ CodeOf(answer[k]) = 500 <=> answer[k] = "failed"
  BY <1>1, Codes
<1> QED BY <1>1, <1>3, <1>4, <1>5 DEF r

-----------------------------------------------------------------------------
(***************************************************************************)
(* The theorems.                                                           *)
(***************************************************************************)

\* Every step of main and of a request keeps the invariant.
THEOREM Inductive == Spec => []IInv
<1>1. ASSUME IInv, [Next]_vars PROVE IInv'
  BY <1>1, ReadingKept, RequestsKept DEF IInv
<1> QED BY <1>1, Start, PTL DEF Spec

\* Once main has loaded the channels, what the requests do to the tuner is what
\* its contract allows, with names that it may be asked for: Tuner, which
\* implements the contract for a fixed map, is a tuner for Server.
THEOREM UsesContract ==
  Spec => [][phase # "loading" => Tuner!Next \/ UNCHANGED Tuner!vars]_vars
<1>1. ASSUME IInv, Next, phase # "loading" PROVE Tuner!Next \/ UNCHANGED Tuner!vars
  <2>1. UNCHANGED channels /\ (DOMAIN ChannelMap)' = DOMAIN ChannelMap
    <3>1. UNCHANGED channels
      BY <1>1
      DEF Next, Load, LoadFailed, Loaded, Listen, ListenFails, Signal, ShutdownDone,
          ShutdownTimeout, Enter, Arrive, BodyArrives, Check, TunerEnter, TunerWork, Respond, Finish, confVars
    <3> QED BY <3>1, KnownKept
  <2>2. ASSUME UNCHANGED tunerVars PROVE UNCHANGED Tuner!vars
    BY <2>1, <2>2 DEF tunerVars, Tuner!vars
  <2>3. CASE UNCHANGED tunerVars
    BY <2>2, <2>3
  <2>4. ASSUME NEW k \in Client, Check(k), ~UNCHANGED tunerVars PROVE Tuner!Next
    <3> DEFINE r == request[k]
    <3>1. r \in Send[k] /\ Verdict(r) = Pass /\ Tuner!Call(k, Asks(r))
      <4> HIDE DEF Verdict, Asks
      <4> QED BY <1>1, <2>4, Checked DEF IInv
    <3>2. r \in Request
      BY <3>1, ServerAssumption
    <3> HIDE DEF r
    <3>3. Proper(r)
      BY <3>1, <3>2, Acceptable
    <3>4. Asks(r) \in (Name \union {NoName}) \union {Halt}
      BY <3>2, <3>3, AskedFor DEF Proper
    <3> QED BY <2>1, <3>1, <3>4 DEF Tuner!Next
  <2>5. ASSUME NEW k \in Client, TunerEnter(k) \/ TunerWork(k) PROVE Tuner!Next
    BY <2>1, <2>5 DEF TunerEnter, TunerWork, Tuner!Next
  <2>6. \/ UNCHANGED tunerVars
        \/ \E k \in Client : Check(k) \/ TunerEnter(k) \/ TunerWork(k)
    BY <1>1
    DEF Next, Arrive, BodyArrives, Load, LoadFailed, Loaded, Listen, ListenFails, Signal, ShutdownDone,
        ShutdownTimeout, Respond, Finish
  <2> QED BY <2>3, <2>4, <2>5, <2>6
<1>2. IInv /\ [Next]_vars =>
        [phase # "loading" => Tuner!Next \/ UNCHANGED Tuner!vars]_vars
  BY <1>1
<1> QED BY <1>2, Inductive, PTL DEF Spec

\* Whatever is in channels.conf: the channels served are those of its lines, or
\* main ends with the first line and the first field that do not parse.
THEOREM ParsesExactly == Spec => []ParseIsExact
<1>1. IInv => ParseIsExact
  BY Exact DEF IInv
<1> QED BY <1>1, Inductive, PTL

\* Channel.String and ParseChannelsConf are inverse on all that was parsed.
THEOREM RoundTrips == Spec => []RoundTrip
<1>1. IInv => RoundTrip
  BY Survive DEF IInv
<1> QED BY <1>1, Inductive, PTL

\* A name in the list of channels is one that a request can tune to, through
\* all the layers unless it makes the body too large; the map has the last
\* channel of that name, of which GStreamer gets a description.
THEOREM ListedTunable == Spec => []ListedIsTunable
<1>1. IInv => ListedIsTunable
  BY Tunable DEF IInv
<1> QED BY <1>1, Inductive, PTL

\* Whatever requests are sent at once, and however large a body may be, the
\* codes keep to the conventions of package rpc.
THEOREM KeepsConventions == Spec => []Conventions
<1>1. IInv => Conventions
  BY Conventional DEF IInv
<1> QED BY <1>1, Inductive, PTL

\* The body that WithLimitedBodyBuffer has read is the one that Handle decodes.
THEOREM RightParameters == Spec => []ParametersArrive
<1>1. IInv => ParametersArrive
  BY Arrived DEF IInv
<1> QED BY <1>1, Inductive, PTL

\* No other request changes what a code says before the handler writes it.
THEOREM RightCodes == Spec => []CodeIsTrue
<1>1. IInv => CodeIsTrue
  BY TrueCodes DEF IInv
<1> QED BY <1>1, Inductive, PTL

=============================================================================
