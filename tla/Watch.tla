------------------------------- MODULE Watch -------------------------------
(***************************************************************************)
(* internal/watch/watch.go: a Value whose watches are told of every Set.   *)
(*                                                                         *)
(* Any number of threads call Set, Watch, Cancel and Wait concurrently.    *)
(* A thread is a client goroutine, or a goroutine that executes the        *)
(* handler of a watch: a handler may call into the package too.  The mutex *)
(* v.mu is the variable vmu.  A section protected by w.mu contains nothing *)
(* but assignments, so each is one step, and what the code does after the  *)
(* unlock (go w.run(), w.wg.Done(), the handler) is a step of its own.     *)
(*                                                                         *)
(* The code only copies the stored values, so they are represented by      *)
(* their position in the order of the Sets: version 1 is the initial       *)
(* value, and Zero stands for the zero value of T.                         *)
(***************************************************************************)
EXTENDS Integers

CONSTANTS
  Client,      \* goroutines of the callers
  Goroutine,   \* identities for the goroutines that watches start
  Watcher,     \* identities of the watches that may be created
  NoThread,    \* v.mu is not locked
  NoWatcher,   \* no watch
  MaxValue     \* bound on the number of versions stored in the Value

Thread == Client \union Goroutine
Zero == 0
Version == 1..MaxValue

ASSUME WatchAssumption ==
  /\ Client \intersect Goroutine = {}
  /\ NoThread \notin Thread
  /\ NoWatcher \notin Watcher
  /\ MaxValue \in Nat \ {0}

VARIABLES
  vmu,       \* holder of v.mu
  value,     \* v.value
  watchers,  \* v.watchers
  todo,      \* watches the holder of v.mu has yet to update
  next,      \* w.next
  ok,        \* w.ok
  running,   \* w.running
  cancel,    \* w.cancel
  wg,        \* counter of w.wg
  run,       \* where each goroutine is in watch.run
  of,        \* the watch a goroutine runs for
  call,      \* where each thread is in a call of an exported operation
  callee,    \* the watch that call is about
  born,      \* history: version stored when the watch was created, or Zero
  handled    \* history: last version given to the handler, or Zero

vars == <<vmu, value, watchers, todo, next, ok, running, cancel, wg,
          run, of, call, callee, born, handled>>

valueVars == <<vmu, value, watchers, todo>>
slotVars == <<next, ok>>
watchVars == <<next, ok, running, cancel, wg>>
runVars == <<run, of>>
callVars == <<call, callee>>
histVars == <<born, handled>>

RunState == {"none", "loop", "handler", "unwind", "done"}
CallState == {"idle", "update", "spawn", "cancel", "finish", "wait"}

TypeOK ==
  /\ vmu \in Thread \union {NoThread}
  /\ value \in Version
  /\ watchers \subseteq Watcher
  /\ todo \subseteq watchers
  /\ next \in [Watcher -> Version \union {Zero}]
  /\ ok \in [Watcher -> BOOLEAN]
  /\ running \in [Watcher -> BOOLEAN]
  /\ cancel \in [Watcher -> BOOLEAN]
  /\ wg \in [Watcher -> Int]
  /\ run \in [Goroutine -> RunState]
  /\ of \in [Goroutine -> Watcher \union {NoWatcher}]
  /\ call \in [Thread -> CallState]
  /\ callee \in [Thread -> Watcher \union {NoWatcher}]
  /\ born \in [Watcher -> Version \union {Zero}]
  /\ handled \in [Watcher -> Version \union {Zero}]

Init ==
  /\ vmu = NoThread
  /\ value = 1
  /\ watchers = {}
  /\ todo = {}
  /\ next = [w \in Watcher |-> Zero]
  /\ ok = [w \in Watcher |-> FALSE]
  /\ running = [w \in Watcher |-> FALSE]
  /\ cancel = [w \in Watcher |-> FALSE]
  /\ wg = [w \in Watcher |-> 0]
  /\ run = [g \in Goroutine |-> "none"]
  /\ of = [g \in Goroutine |-> NoWatcher]
  /\ call = [t \in Thread |-> "idle"]
  /\ callee = [t \in Thread |-> NoWatcher]
  /\ born = [w \in Watcher |-> Zero]
  /\ handled = [w \in Watcher |-> Zero]

-----------------------------------------------------------------------------
(***************************************************************************)
(* The pieces the operations are made of.  The operators whose names end   *)
(* in a fault (SetFlag_NeverSet, ...) are broken variants of the operator  *)
(* that follows them: they show that the properties below can fail.        *)
(***************************************************************************)

Handling(w) == \E g \in Goroutine : of[g] = w /\ run[g] = "handler"

\* A client between two calls, or a goroutine that is executing its handler.
CanCall(t) ==
  /\ call[t] = "idle"
  /\ t \in Goroutine => run[t] = "handler"

Created(w) == born[w] # Zero

Goto(t, state, w) ==
  /\ call' = [call EXCEPT ![t] = state]
  /\ callee' = [callee EXCEPT ![t] = w]

GoIdle(t) == Goto(t, "idle", NoWatcher)

\* w.running, written under w.mu by update and by run.
SetFlag_NeverSet(w, b) == running' = [running EXCEPT ![w] = @ /\ b]
SetFlag_NeverCleared(w, b) == running' = [running EXCEPT ![w] = @ \/ b]
SetFlag(w, b) == running' = [running EXCEPT ![w] = b]

\* w.next, w.ok = *new(T), false
ClearSlot_OkKept(w) == next' = [next EXCEPT ![w] = Zero] /\ UNCHANGED ok
ClearSlot(w) ==
  /\ next' = [next EXCEPT ![w] = Zero]
  /\ ok' = [ok EXCEPT ![w] = FALSE]

\* stop := !w.ok || cancel
Stop_CancelIgnored(w) == ~ok[w]
Stop(w) == ~ok[w] \/ cancel[w]

\* finish := !w.running && !w.cancel
Finish_RunningIgnored(w) == ~cancel[w]
Finish_CancelIgnored(w) == ~running[w]
Finish_Never(w) == FALSE
Finish(w) == ~running[w] /\ ~cancel[w]

WgDone(w) == wg' = [wg EXCEPT ![w] = @ - 1]

\* The Go statement: an unused goroutine starts to run for w.
StartGoroutine(w) ==
  \E g \in Goroutine :
    /\ run[g] = "none"
    /\ run' = [run EXCEPT ![g] = "loop"]
    /\ of' = [of EXCEPT ![g] = w]

\* The goroutine returns from run.
EndGoroutine(g) ==
  /\ run' = [run EXCEPT ![g] = "none"]
  /\ of' = [of EXCEPT ![g] = NoWatcher]

-----------------------------------------------------------------------------
(***************************************************************************)
(* Value.Set and Value.Watch.  Both hold v.mu until every watch in todo    *)
(* has been updated with the stored value.                                 *)
(***************************************************************************)

SetLock(t) ==
  /\ CanCall(t)
  /\ vmu = NoThread
  /\ value < MaxValue
  /\ vmu' = t
  /\ value' = value + 1
  /\ todo' = watchers
  /\ Goto(t, "update", NoWatcher)
  /\ UNCHANGED <<watchers, watchVars, runVars, histVars>>

WatchLock(t, w) ==
  /\ CanCall(t)
  /\ vmu = NoThread
  /\ ~Created(w)
  /\ vmu' = t
  /\ wg' = [wg EXCEPT ![w] = 1]
  /\ born' = [born EXCEPT ![w] = value]
  /\ watchers' = watchers \union {w}
  /\ todo' = {w}
  /\ Goto(t, "update", NoWatcher)
  /\ UNCHANGED <<value, slotVars, running, cancel, runVars, handled>>

\* w.update: the section under w.mu.  The order of a Go map is arbitrary.
Update(t, w) ==
  /\ call[t] = "update"
  /\ w \in todo
  /\ todo' = todo \ {w}
  /\ next' = [next EXCEPT ![w] = value]
  /\ ok' = [ok EXCEPT ![w] = TRUE]
  /\ SetFlag(w, TRUE)
  /\ IF running[w] THEN UNCHANGED callVars ELSE Goto(t, "spawn", w)
  /\ UNCHANGED <<vmu, value, watchers, cancel, wg, runVars, histVars>>

\* w.update: go w.run() after the unlock of w.mu.
UpdateSpawn(t) ==
  /\ call[t] = "spawn"
  /\ StartGoroutine(callee[t])
  /\ Goto(t, "update", NoWatcher)
  /\ UNCHANGED <<valueVars, watchVars, histVars>>

ReleaseValue_WaitsForHandlers == vmu' = NoThread /\ \A w \in watchers : ~Handling(w)
ReleaseValue == vmu' = NoThread

ValueUnlock(t) ==
  /\ call[t] = "update"
  /\ todo = {}
  /\ ReleaseValue
  /\ GoIdle(t)
  /\ UNCHANGED <<value, watchers, todo, watchVars, runVars, histVars>>

-----------------------------------------------------------------------------
(***************************************************************************)
(* watch.Cancel and watch.Wait.                                            *)
(***************************************************************************)

\* Value.unregisterWatch: its section under v.mu locks nothing else.
Unregister_NoLock(w) == watchers' = watchers \ {w}
Unregister(w) == vmu = NoThread /\ watchers' = watchers \ {w}

CancelUnregister(t, w) ==
  /\ CanCall(t)
  /\ Created(w)
  /\ Unregister(w)
  /\ Goto(t, "cancel", w)
  /\ UNCHANGED <<vmu, value, todo, watchVars, runVars, histVars>>

\* The section under w.mu, and the decision who must call w.wg.Done().
CancelMark(t) ==
  LET w == callee[t] IN
  /\ call[t] = "cancel"
  /\ cancel' = [cancel EXCEPT ![w] = TRUE]
  /\ IF Finish(w) THEN Goto(t, "finish", w) ELSE GoIdle(t)
  /\ UNCHANGED <<valueVars, slotVars, running, wg, runVars, histVars>>

CancelDone(t) ==
  /\ call[t] = "finish"
  /\ WgDone(callee[t])
  /\ GoIdle(t)
  /\ UNCHANGED <<valueVars, slotVars, running, cancel, runVars, histVars>>

\* Only clients wait: a handler that waits for its own watch waits forever.
WaitCall(t, w) ==
  /\ CanCall(t)
  /\ t \in Client
  /\ Created(w)
  /\ Goto(t, "wait", w)
  /\ UNCHANGED <<valueVars, watchVars, runVars, histVars>>

WaitReturn(t) ==
  /\ call[t] = "wait"
  /\ wg[callee[t]] = 0
  /\ GoIdle(t)
  /\ UNCHANGED <<valueVars, watchVars, runVars, histVars>>

-----------------------------------------------------------------------------
(***************************************************************************)
(* watch.run.  RunStop, RunCancelled and RunHandle are the three outcomes  *)
(* of the section under w.mu at the head of the loop.                      *)
(***************************************************************************)

RunStop(g) ==
  LET w == of[g] IN
  /\ run[g] = "loop"
  /\ Stop(w)
  /\ ~cancel[w]
  /\ SetFlag(w, FALSE)
  /\ ClearSlot(w)
  /\ EndGoroutine(g)
  /\ UNCHANGED <<valueVars, cancel, wg, callVars, histVars>>

RunCancelled(g) ==
  LET w == of[g] IN
  /\ run[g] = "loop"
  /\ Stop(w)
  /\ cancel[w]
  /\ SetFlag(w, FALSE)
  /\ ClearSlot(w)
  /\ run' = [run EXCEPT ![g] = "done"]
  /\ UNCHANGED <<valueVars, cancel, wg, of, callVars, histVars>>

RunHandle(g) ==
  LET w == of[g] IN
  /\ run[g] = "loop"
  /\ ~Stop(w)
  /\ SetFlag(w, TRUE)
  /\ ClearSlot(w)
  /\ run' = [run EXCEPT ![g] = "handler"]
  /\ handled' = [handled EXCEPT ![w] = next[w]]
  /\ UNCHANGED <<valueVars, cancel, wg, of, callVars, born>>

\* w.wg.Done() after the unlock of w.mu, and return.
RunDone(g) ==
  /\ run[g] = "done"
  /\ WgDone(of[g])
  /\ EndGoroutine(g)
  /\ UNCHANGED <<valueVars, slotVars, running, cancel, callVars, histVars>>

HandlerReturn(g) ==
  /\ run[g] = "handler"
  /\ call[g] = "idle"
  /\ run' = [run EXCEPT ![g] = "loop"]
  /\ UNCHANGED <<valueVars, watchVars, of, callVars, histVars>>

\* The handler calls runtime.Goexit, which executes the deferred function.
HandlerGoexit(g) ==
  /\ run[g] = "handler"
  /\ call[g] = "idle"
  /\ run' = [run EXCEPT ![g] = "unwind"]
  /\ UNCHANGED <<valueVars, watchVars, of, callVars, histVars>>

\* The deferred function: a new goroutine takes over, and this one ends.
RunUnwind_NoRestart(g) ==
  /\ run[g] = "unwind"
  /\ EndGoroutine(g)
  /\ UNCHANGED <<valueVars, watchVars, callVars, histVars>>
RunUnwind(g) ==
  /\ run[g] = "unwind"
  /\ \E h \in Goroutine :
       /\ run[h] = "none"
       /\ run' = [run EXCEPT ![h] = "loop", ![g] = "none"]
       /\ of' = [of EXCEPT ![h] = of[g], ![g] = NoWatcher]
  /\ UNCHANGED <<valueVars, watchVars, callVars, histVars>>

-----------------------------------------------------------------------------

\* Steps a call takes once it has begun.
CallStep(t) ==
  \/ \E w \in Watcher : Update(t, w)
  \/ UpdateSpawn(t) \/ ValueUnlock(t)
  \/ CancelMark(t) \/ CancelDone(t)
  \/ WaitReturn(t)

CallBegin(t) ==
  \/ SetLock(t)
  \/ \E w \in Watcher : WatchLock(t, w) \/ CancelUnregister(t, w) \/ WaitCall(t, w)

\* Steps of watch.run, which only the Go scheduler can delay.
RunStep(g) ==
  RunStop(g) \/ RunCancelled(g) \/ RunHandle(g) \/ RunDone(g) \/ RunUnwind(g)

HandlerEnd(g) == HandlerReturn(g) \/ HandlerGoexit(g)

Next ==
  \/ \E t \in Thread : CallBegin(t) \/ CallStep(t)
  \/ \E g \in Goroutine : RunStep(g) \/ HandlerEnd(g)

Spec == Init /\ [][Next]_vars

(***************************************************************************)
(* The scheduler runs every goroutine that can take a step.  Callers need  *)
(* not begin any call, and a handler may block forever.                    *)
(***************************************************************************)
Scheduling ==
  /\ \A t \in Thread : WF_vars(CallStep(t))
  /\ \A g \in Goroutine : WF_vars(RunStep(g))

SchedSpec == Spec /\ Scheduling

(***************************************************************************)
(* Handlers finish.  Strong fairness: a handler between two of its own     *)
(* calls can finish, one in the middle of a call cannot, and no handler    *)
(* calls into the package forever.                                         *)
(***************************************************************************)
FairSpec == SchedSpec /\ \A g \in Goroutine : SF_vars(HandlerEnd(g))

-----------------------------------------------------------------------------
(***************************************************************************)
(* Safety.                                                                 *)
(***************************************************************************)

Live(g, w) == of[g] = w /\ run[g] # "none"
Spawning(t, w) == call[t] = "spawn" /\ callee[t] = w

\* At most one goroutine runs for a watch, in any phase of watch.run, and
\* none while a caller of update is about to start one: the flag running is
\* what keeps two handler executions of a watch from overlapping.
SingleRunner ==
  \A w \in Watcher :
    /\ \A g, h \in Goroutine : Live(g, w) /\ Live(h, w) => g = h
    /\ \A t \in Thread : Spawning(t, w) => \A g \in Goroutine : ~Live(g, w)

\* No update is lost between Set, Watch and the goroutine that decides to
\* stop: a registered watch that is not waiting for the holder of v.mu has
\* the stored value in its slot or has given it to the handler already, and
\* a filled slot has a goroutine that will come back to it.
NoLostUpdate ==
  \A w \in watchers \ todo :
    /\ IF ok[w] THEN next[w] = value ELSE handled[w] = value
    /\ ok[w] => \/ \E g \in Goroutine : Live(g, w)
                \/ \E t \in Thread : Spawning(t, w)

\* The guarantee of Wait: when the counter of a created watch is zero, its
\* handler is not running and nothing is left that could execute it again.
WaitGuarantee ==
  \A w \in Watcher :
    Created(w) /\ wg[w] = 0 =>
      /\ cancel[w]
      /\ w \notin watchers
      /\ \A g \in Goroutine : ~Live(g, w)
      /\ \A t \in Thread : ~Spawning(t, w)

\* WaitGroup.Done panics when it is called once too often: Cancel, called
\* any number of times, and the goroutine agree on who calls it, once.
DoneAtMostOnce == \A w \in Watcher : wg[w] >= 0

\* A handler execution is given a version newer than the one before: none is
\* repeated, none is out of order, and the cleared slot is never handed over.
DeliveryInOrder ==
  [][\A g \in Goroutine :
       run[g] = "loop" /\ run'[g] = "handler" =>
         handled'[of[g]] > handled[of[g]]]_vars

-----------------------------------------------------------------------------
(***************************************************************************)
(* Liveness.                                                               *)
(***************************************************************************)

\* Whoever locks v.mu unlocks it, even when a handler never returns: Set,
\* Watch and Cancel wait for each other, never for a handler.
ValueLockReleased == \A t \in Thread : vmu = t ~> vmu = NoThread

\* A blocked handler holds up its own watch only: every registered watch
\* comes to handle the stored version or a newer one, unless it is canceled
\* or its own handler is still executing.
DeliveredUnlessBusy ==
  \A w \in Watcher, n \in Version :
    (w \in watchers /\ value = n) ~>
      (handled[w] >= n \/ w \notin watchers \/ Handling(w))

\* When handlers return, the latest version always reaches the handler of a
\* watch that stays registered.
LatestDelivered ==
  \A w \in Watcher, n \in Version :
    (w \in watchers /\ value = n) ~> (handled[w] >= n \/ w \notin watchers)

\* When handlers return, Wait returns once the watch has been canceled, by
\* whomever and however often, in whatever phase of watch.run.
WaitReturns ==
  \A t \in Client :
    (call[t] = "wait" /\ cancel[callee[t]]) ~> call[t] # "wait"

-----------------------------------------------------------------------------
(***************************************************************************)
(* A sentence of the documentation, read literally.                        *)
(***************************************************************************)

\* Value.Watch (watch.go:45-47): "Each active watch executes [...] handler
\* [...] first with the value stored in v upon creation of the watch".
FirstCallSeesCreationValue ==
  [][\A g \in Goroutine :
       LET w == of[g] IN
       (run[g] = "loop" /\ run'[g] = "handler" /\ handled[w] = Zero) =>
         handled'[w] = born[w]]_vars

-----------------------------------------------------------------------------
(***************************************************************************)
(* Refinement: the watch package implements the mailboxes of               *)
(* WatchContract.                                                          *)
(***************************************************************************)

phaseMap ==
  [w \in Watcher |->
     IF ~Created(w) THEN "new"
     ELSE IF ~cancel[w] THEN "open"
     ELSE IF wg[w] # 0 THEN "closing" ELSE "closed"]

\* Once cancel is set the slot is dead: the goroutine discards it.
boxMap == [w \in Watcher |-> IF ok[w] /\ ~cancel[w] THEN {next[w]} ELSE {}]

inflightMap == [w \in Watcher |-> IF Handling(w) THEN {handled[w]} ELSE {}]

Contract == INSTANCE WatchContract WITH
  listening <- watchers,
  due <- todo,
  phase <- phaseMap,
  box <- boxMap,
  inflight <- inflightMap

\* Every behaviour of the package is one its documentation promises.
ImplementsContract == Contract!Spec

=============================================================================
