------------------------ MODULE WatchContractProofs ------------------------
(***************************************************************************)
(* What the users of a watch may rely on: an invariant of the mailboxes,   *)
(* for every set of watches and every bound on the number of versions.     *)
(***************************************************************************)
EXTENDS WatchContract, TLAPS

\* A watch that still listens is open, one that was closed holds no version,
\* and once it is closed its handler does not execute.  A version in the box
\* of a watch that listens is the current one, unless that is still due.  No
\* version is from the future.
Mailbox(w) ==
  /\ w \in listening => phase[w] = "open"
  /\ phase[w] # "open" => box[w] = {}
  /\ phase[w] \in {"new", "closed"} => inflight[w] = {}
  /\ w \in listening \ due => box[w] \subseteq {value}
  /\ box[w] \union inflight[w] \subseteq 1..value

MailInv == TypeOK /\ \A w \in Watcher : Mailbox(w)

\* A new Value has no watches.
LEMMA MailInit ==
  ASSUME MaxValue \in Nat \ {0}, Init
  PROVE  MailInv
BY DEF Init, MailInv, TypeOK, Mailbox, Phase

\* Every step of a Value or of one of its watches preserves the invariant.
LEMMA MailStep ==
  ASSUME MaxValue \in Nat, MailInv, Next
  PROVE  MailInv'
<1> USE DEF MailInv, TypeOK, Phase
<1>1. CASE Set
  BY <1>1 DEF Set, Mailbox
<1>2. ASSUME NEW w \in Watcher, Open(w) PROVE MailInv'
  BY <1>2 DEF Open, Mailbox
<1>3. ASSUME NEW w \in Watcher, Post(w) PROVE MailInv'
  BY <1>3 DEF Post, Mailbox
<1>4. ASSUME NEW w \in Watcher, Begin(w) PROVE MailInv'
  BY <1>4 DEF Begin, Mailbox
<1>5. ASSUME NEW w \in Watcher, Return(w) PROVE MailInv'
  BY <1>5 DEF Return, Mailbox
<1>6. ASSUME NEW w \in Watcher, Leave(w) PROVE MailInv'
  BY <1>6 DEF Leave, Mailbox
<1>7. ASSUME NEW w \in Watcher, Close(w) PROVE MailInv'
  BY <1>7 DEF Close, Mailbox
<1>8. ASSUME NEW w \in Watcher, Terminate(w) PROVE MailInv'
  BY <1>8 DEF Terminate, Mailbox
<1> QED BY <1>1, <1>2, <1>3, <1>4, <1>5, <1>6, <1>7, <1>8 DEF Next

\* A watch that is closed is empty and idle, and one that listens never has an
\* old version in its box once the current one was posted to it.
THEOREM Mailboxes ==
  ASSUME MaxValue \in Nat \ {0}
  PROVE  Spec => []MailInv
<1>1. MailInv /\ [Next]_vars => MailInv'
  <2>1. ASSUME MailInv, UNCHANGED vars PROVE MailInv'
    BY <2>1 DEF MailInv, TypeOK, Mailbox, vars
  <2> QED BY <2>1, MailStep
<1> QED BY <1>1, MailInit, PTL DEF Spec

=============================================================================
