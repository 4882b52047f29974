------------------------------ MODULE MCServer ------------------------------
(***************************************************************************)
(* Server on a small instance: two files that parse, all short ones that do*)
(* not, one client that sends anything, and one that tunes.                *)
(***************************************************************************)
EXTENDS Server, TLC

CONSTANTS c1, c2, t1, t2

\* "c" is never listed.
MCName == {"a", "b", "c"}
MCNumeral == "5" :> 5 @@ "05" :> 5 @@ "6" :> 6
MCDecimal == 5 :> "5" @@ 6 :> "6"

Line(name, frequency, modulation) == <<name, frequency, modulation, "5", "6", "5">>

\* The body for "b" is one byte over the limit.
MCSize == "b" :> Limit + 1 @@ [name \in {"", "a", "c"} |-> Limit]

Good ==
  <<Line("", "6", "QAM_64"), Line("b", "6", "QAM_256"), Line("a", "05", "8VSB"),
    Line("a", "6", "VSB_8")>>
Bad == {Line("a", "?", "42VSB"), Line("b", "5", "42VSB"), <<"a", "5">>}

\* Two files that parse, and all with one or two lines that do not.
MCFile ==
  {Good, <<Good[3]>>}
  \union {conf \in BoundedSeq(Bad \union Range(Good), 2) : Range(conf) \intersect Bad # {}}

Sound ==
  [method |-> "POST", crossOrigin |-> FALSE, route |-> "tune", json |-> TRUE, length |-> 1,
   cut |-> FALSE, body |-> "a", buffer |-> <<>>]

\* At most two things are unusual about a request; a body may be so by its size.
Unusual(r) ==
  {field \in DOMAIN r : r[field] # Sound[field]}
    \ (IF r.length # 1 THEN {"body"} ELSE {})

MCSend ==
  c1 :> {r \in [method : {"GET", "POST"}, crossOrigin : BOOLEAN, route : {"tune", "stop", "other"},
                json : BOOLEAN, length : 0..(Limit + 1), cut : BOOLEAN,
                body : {"a", "b", "c", NoName, Malformed, Mistyped}, buffer : {<<>>}] :
           /\ r.length = 0 => r.body = NoName
           /\ r.length > Limit <=> r.body = "b"
           /\ Cardinality(Unusual(r)) <= 2}
  @@ c2 :> {Sound}

=============================================================================
