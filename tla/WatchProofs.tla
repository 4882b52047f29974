---------------------------- MODULE WatchProofs ----------------------------
(***************************************************************************)
(* Safety of module Watch for every set of clients, goroutines and watches *)
(* and every bound on the number of versions.                              *)
(***************************************************************************)
EXTENDS Watch, TLAPS

Active(g, w) == of[g] = w /\ run[g] \in {"loop", "handler", "unwind"}
Ending(g, w) == of[g] = w /\ run[g] = "done"
Finishing(t, w) == call[t] = "finish" /\ callee[t] = w

\* Threads, v.mu and goroutines agree with each other.
CallInv ==
  /\ \A t \in Thread :
       /\ call[t] \in {"update", "spawn"} <=> vmu = t
       /\ call[t] \in {"spawn", "cancel", "finish", "wait"} =>
            callee[t] \in Watcher /\ Created(callee[t])
       /\ call[t] = "cancel" => callee[t] \notin watchers
       /\ call[t] = "spawn" => callee[t] \in watchers
  /\ \A g \in Goroutine :
       /\ run[g] = "none" <=> of[g] = NoWatcher
       /\ run[g] # "none" => Created(of[g])
       /\ call[g] # "idle" => run[g] = "handler"
  /\ vmu = NoThread => todo = {}
  /\ \A w \in watchers : Created(w) /\ ~cancel[w]

\* The flag running says exactly that a goroutine is, or will be, in charge.
RunnerInv ==
  /\ SingleRunner
  /\ \A w \in Watcher :
       /\ running[w] <=> \/ \E g \in Goroutine : Active(g, w)
                         \/ \E t \in Thread : Spawning(t, w)
       /\ ok[w] => running[w]

\* One call of wg.Done is owed for a watch from its creation until it ends:
\* by the goroutine in charge, by one that is ending, or by a Cancel.
WgInv ==
  \A w \in Watcher :
    /\ ~Created(w) => wg[w] = 0 /\ ~cancel[w] /\ ~running[w]
    /\ Created(w) /\ ~cancel[w] => wg[w] = 1
    /\ cancel[w] =>
         wg[w] = IF \/ running[w]
                    \/ \E g \in Goroutine : Ending(g, w)
                    \/ \E t \in Thread : Finishing(t, w)
                 THEN 1 ELSE 0
    /\ \A g \in Goroutine : Ending(g, w) => cancel[w] /\ ~running[w]
    /\ \A t \in Thread : Finishing(t, w) =>
         /\ cancel[w] /\ ~running[w]
         /\ \A g \in Goroutine : ~Ending(g, w)
         /\ \A u \in Thread : Finishing(u, w) => u = t

\* Versions only move forward through the slot of a watch.
SlotInv ==
  \A w \in Watcher :
    /\ handled[w] <= value
    /\ ok[w] => handled[w] < next[w] /\ next[w] <= value
    /\ w \in todo => handled[w] < value
    /\ w \in todo /\ ok[w] => next[w] < value
    /\ ~Created(w) => handled[w] = Zero
    /\ w \in watchers \ todo => IF ok[w] THEN next[w] = value
                                         ELSE handled[w] = value

IInv == TypeOK /\ CallInv /\ RunnerInv /\ WgInv /\ SlotInv

\* Types are preserved: only unregisterWatch shrinks watchers, with nothing due,
\* and only threads that owe a wg.Done to a real watch call it.
LEMMA TypeOKStep ==
  ASSUME IInv, Next
  PROVE TypeOK'
<1> USE WatchAssumption
    DEF IInv, TypeOK, Goto, GoIdle, CanCall, Created, SetFlag, ClearSlot,
        Stop, Finish, WgDone, StartGoroutine, EndGoroutine, ReleaseValue,
        Unregister, Zero, Version, Thread, valueVars, slotVars, watchVars,
        runVars, callVars, histVars, RunState, CallState
<1>1. ASSUME NEW t \in Thread, SetLock(t) PROVE TypeOK'
  BY <1>1 DEF SetLock
<1>2. ASSUME NEW t \in Thread, NEW w \in Watcher, WatchLock(t, w) PROVE TypeOK'
  BY <1>2 DEF WatchLock
<1>3. ASSUME NEW t \in Thread, NEW w \in Watcher, Update(t, w) PROVE TypeOK'
  BY <1>3 DEF Update
<1>4. ASSUME NEW t \in Thread, UpdateSpawn(t) PROVE TypeOK'
  BY <1>4 DEF UpdateSpawn
<1>5. ASSUME NEW t \in Thread, ValueUnlock(t) PROVE TypeOK'
  BY <1>5 DEF ValueUnlock
<1>6. ASSUME NEW t \in Thread, NEW w \in Watcher, CancelUnregister(t, w)
      PROVE TypeOK'
  BY <1>6 DEF CancelUnregister, CallInv
<1>7. ASSUME NEW t \in Thread, CancelMark(t) PROVE TypeOK'
  <2>1. cancel' \in [Watcher -> BOOLEAN]
    BY <1>7 DEF CancelMark
  <2>2. /\ call' \in [Thread -> CallState] 
        /\ callee' \in [Thread -> Watcher \union {NoWatcher}]
    BY <1>7 DEF CancelMark
  <2> QED BY <1>7, <2>1, <2>2 DEF CancelMark
<1>8. ASSUME NEW t \in Thread, CancelDone(t) PROVE TypeOK'
  <2>1. callee[t] \in Watcher
    BY <1>8 DEF CancelDone, CallInv
  <2>2. wg' \in [Watcher -> Int]
    BY <1>8, <2>1 DEF CancelDone
  <2> QED BY <1>8, <2>2 DEF CancelDone
<1>9. ASSUME NEW t \in Thread, NEW w \in Watcher, WaitCall(t, w) PROVE TypeOK'
  BY <1>9 DEF WaitCall
<1>10. ASSUME NEW t \in Thread, WaitReturn(t) PROVE TypeOK'
  BY <1>10 DEF WaitReturn
<1>11. ASSUME NEW g \in Goroutine, RunStop(g) PROVE TypeOK'
  BY <1>11 DEF RunStop
<1>12. ASSUME NEW g \in Goroutine, RunCancelled(g) PROVE TypeOK'
  BY <1>12 DEF RunCancelled
<1>13. ASSUME NEW g \in Goroutine, RunHandle(g) PROVE TypeOK'
  BY <1>13 DEF RunHandle
<1>14. ASSUME NEW g \in Goroutine, RunDone(g) PROVE TypeOK'
  <2>1. of[g] \in Watcher
    BY <1>14 DEF RunDone, CallInv
  <2>2. wg' \in [Watcher -> Int]
    BY <1>14, <2>1 DEF RunDone
  <2> QED BY <1>14, <2>2 DEF RunDone
<1>15. ASSUME NEW g \in Goroutine, HandlerReturn(g) PROVE TypeOK'
  BY <1>15 DEF HandlerReturn
<1>16. ASSUME NEW g \in Goroutine, HandlerGoexit(g) PROVE TypeOK'
  BY <1>16 DEF HandlerGoexit
<1>17. ASSUME NEW g \in Goroutine, RunUnwind(g) PROVE TypeOK'
  BY <1>17 DEF RunUnwind
<1> QED BY <1>1, <1>2, <1>3, <1>4, <1>5, <1>6, <1>7, <1>8, <1>9, <1>10, <1>11,
         <1>12, <1>13, <1>14, <1>15, <1>16, <1>17
    DEF Next, CallBegin, CallStep, RunStep, HandlerEnd

\* Threads, v.mu and goroutines stay in agreement.
LEMMA CallInvStep ==
  ASSUME IInv, Next
  PROVE CallInv'
<1> USE WatchAssumption
    DEF IInv, CallInv, Goto, GoIdle, CanCall, Created, SetFlag, ClearSlot,
        Stop, Finish, WgDone, StartGoroutine, EndGoroutine, ReleaseValue,
        Unregister, Zero, Version, Thread, valueVars, slotVars, watchVars,
        runVars, callVars, histVars, TypeOK
<1>1. ASSUME NEW t \in Thread, SetLock(t) PROVE CallInv'
  BY <1>1 DEF SetLock
<1>2. ASSUME NEW t \in Thread, NEW w \in Watcher, WatchLock(t, w) PROVE CallInv'
  BY <1>2 DEF WatchLock, WgInv
<1>3. ASSUME NEW t \in Thread, NEW w \in Watcher, Update(t, w) PROVE CallInv'
  BY <1>3 DEF Update
<1>4. ASSUME NEW t \in Thread, UpdateSpawn(t) PROVE CallInv'
  BY <1>4 DEF UpdateSpawn
<1>5. ASSUME NEW t \in Thread, ValueUnlock(t) PROVE CallInv'
  BY <1>5 DEF ValueUnlock
<1>6. ASSUME NEW t \in Thread, NEW w \in Watcher, CancelUnregister(t, w)
      PROVE CallInv'
  BY <1>6 DEF CancelUnregister
<1>7. ASSUME NEW t \in Thread, CancelMark(t) PROVE CallInv'
  BY <1>7 DEF CancelMark
<1>8. ASSUME NEW t \in Thread, CancelDone(t) PROVE CallInv'
  BY <1>8 DEF CancelDone
<1>9. ASSUME NEW t \in Thread, NEW w \in Watcher, WaitCall(t, w) PROVE CallInv'
  BY <1>9 DEF WaitCall
<1>10. ASSUME NEW t \in Thread, WaitReturn(t) PROVE CallInv'
  BY <1>10 DEF WaitReturn
<1>11. ASSUME NEW g \in Goroutine, RunStop(g) PROVE CallInv'
  BY <1>11 DEF RunStop
<1>12. ASSUME NEW g \in Goroutine, RunCancelled(g) PROVE CallInv'
  BY <1>12 DEF RunCancelled
<1>13. ASSUME NEW g \in Goroutine, RunHandle(g) PROVE CallInv'
  BY <1>13 DEF RunHandle
<1>14. ASSUME NEW g \in Goroutine, RunDone(g) PROVE CallInv'
  BY <1>14 DEF RunDone
<1>15. ASSUME NEW g \in Goroutine, HandlerReturn(g) PROVE CallInv'
  BY <1>15 DEF HandlerReturn
<1>16. ASSUME NEW g \in Goroutine, HandlerGoexit(g) PROVE CallInv'
  BY <1>16 DEF HandlerGoexit
<1>17. ASSUME NEW g \in Goroutine, RunUnwind(g) PROVE CallInv'
  BY <1>17 DEF RunUnwind
<1> QED BY <1>1, <1>2, <1>3, <1>4, <1>5, <1>6, <1>7, <1>8, <1>9, <1>10, <1>11,
         <1>12, <1>13, <1>14, <1>15, <1>16, <1>17
    DEF Next, CallBegin, CallStep, RunStep, HandlerEnd

\* The flag running stays exact, so a second goroutine is never started.
LEMMA RunnerInvStep ==
  ASSUME IInv, Next
  PROVE RunnerInv'
<1> USE WatchAssumption
    DEF IInv, RunnerInv, Goto, GoIdle, CanCall, Created, SetFlag, ClearSlot,
        Stop, Finish, WgDone, StartGoroutine, EndGoroutine, ReleaseValue,
        Unregister, Zero, Version, Thread, valueVars, slotVars, watchVars,
        runVars, callVars, histVars, SingleRunner, Active, Spawning, Live,
        TypeOK, CallInv, CallState, RunState
<1>1. ASSUME NEW t \in Thread, SetLock(t) PROVE RunnerInv'
  BY <1>1 DEF SetLock
<1>2. ASSUME NEW t \in Thread, NEW w \in Watcher, WatchLock(t, w)
      PROVE RunnerInv'
  BY <1>2 DEF WatchLock
<1>3. ASSUME NEW t \in Thread, NEW w \in Watcher, Update(t, w) PROVE RunnerInv'
  <2>1. CASE running[w]
    BY <1>3, <2>1 DEF Update
  <2>2. CASE ~running[w]
    <3>1. \A x \in Watcher, g \in Goroutine :
            (Active(g, x)' <=> Active(g, x)) /\ (Live(g, x)' <=> Live(g, x))
      BY <1>3 DEF Update
    <3>2. \A x \in Watcher, u \in Thread :
            Spawning(u, x)' <=> Spawning(u, x) \/ (u = t /\ x = w)
      BY <1>3, <2>2 DEF Update
    <3>3. \A g \in Goroutine : ~Active(g, w)
      BY <2>2
    <3>4. \A g \in Goroutine : ~Live(g, w)
      BY <1>3, <3>3 DEF WgInv, Ending, Update
    <3> QED BY <1>3, <2>2, <3>1, <3>2, <3>3, <3>4 DEF Update
  <2> QED BY <2>1, <2>2
<1>4. ASSUME NEW t \in Thread, UpdateSpawn(t) PROVE RunnerInv'
  BY <1>4 DEF UpdateSpawn
<1>5. ASSUME NEW t \in Thread, ValueUnlock(t) PROVE RunnerInv'
  BY <1>5 DEF ValueUnlock
<1>6. ASSUME NEW t \in Thread, NEW w \in Watcher, CancelUnregister(t, w)
      PROVE RunnerInv'
  BY <1>6 DEF CancelUnregister
<1>7. ASSUME NEW t \in Thread, CancelMark(t) PROVE RunnerInv'
  BY <1>7 DEF CancelMark
<1>8. ASSUME NEW t \in Thread, CancelDone(t) PROVE RunnerInv'
  BY <1>8 DEF CancelDone
<1>9. ASSUME NEW t \in Thread, NEW w \in Watcher, WaitCall(t, w)
      PROVE RunnerInv'
  BY <1>9 DEF WaitCall
<1>10. ASSUME NEW t \in Thread, WaitReturn(t) PROVE RunnerInv'
  BY <1>10 DEF WaitReturn
<1>11. ASSUME NEW g \in Goroutine, RunStop(g) PROVE RunnerInv'
  BY <1>11 DEF RunStop
<1>12. ASSUME NEW g \in Goroutine, RunCancelled(g) PROVE RunnerInv'
  BY <1>12 DEF RunCancelled
<1>13. ASSUME NEW g \in Goroutine, RunHandle(g) PROVE RunnerInv'
  BY <1>13 DEF RunHandle
<1>14. ASSUME NEW g \in Goroutine, RunDone(g) PROVE RunnerInv'
  BY <1>14 DEF RunDone
<1>15. ASSUME NEW g \in Goroutine, HandlerReturn(g) PROVE RunnerInv'
  BY <1>15 DEF HandlerReturn
<1>16. ASSUME NEW g \in Goroutine, HandlerGoexit(g) PROVE RunnerInv'
  BY <1>16 DEF HandlerGoexit
<1>17. ASSUME NEW g \in Goroutine, RunUnwind(g) PROVE RunnerInv'
  <2>1. PICK h \in Goroutine :
         /\ run[h] = "none"
         /\ run' = [run EXCEPT ![h] = "loop", ![g] = "none"]
         /\ of' = [of EXCEPT ![h] = of[g], ![g] = NoWatcher]
    BY <1>17 DEF RunUnwind
  <2>2. h # g /\ of[h] = NoWatcher
    BY <1>17, <2>1 DEF RunUnwind
  <2>3. \A i \in Goroutine :
         /\ of'[i] = IF i = h THEN of[g] ELSE IF i = g THEN NoWatcher ELSE of[i]
         /\ run'[i] = IF i = h THEN "loop"
                      ELSE IF i = g THEN "none" ELSE run[i]
    BY <2>1, <2>2
  <2>4. \A x \in Watcher, u \in Thread : Spawning(u, x)' <=> Spawning(u, x)
    BY <1>17 DEF RunUnwind
  <2>5. \A x \in Watcher, i \in Goroutine :
         Live(i, x)' <=> IF i = h THEN Live(g, x) ELSE i # g /\ Live(i, x)
    BY <1>17, <2>2, <2>3 DEF RunUnwind
  <2>6. SingleRunner'
    BY <2>4, <2>5
  <2>7. \A x \in Watcher, i \in Goroutine :
         Active(i, x)' <=> IF i = h THEN Active(g, x) ELSE i # g /\ Active(i, x)
    BY <1>17, <2>2, <2>3 DEF RunUnwind
  <2>8. \A x \in Watcher : (\E i \in Goroutine : Active(i, x)')
                          <=> (\E i \in Goroutine : Active(i, x))
    <3> HIDE DEF IInv, Active
    <3>1. \A x \in Watcher : ~Active(h, x)
      BY <2>1 DEF Active
    <3> QED BY <2>1, <2>2, <2>7, <3>1
  <2>9. running' = running /\ ok' = ok
    BY <1>17 DEF RunUnwind
  <2> QED BY <2>4, <2>6, <2>8, <2>9
<1> QED BY <1>1, <1>2, <1>3, <1>4, <1>5, <1>6, <1>7, <1>8, <1>9, <1>10, <1>11,
         <1>12, <1>13, <1>14, <1>15, <1>16, <1>17
    DEF Next, CallBegin, CallStep, RunStep, HandlerEnd

\* The obligation to call wg.Done is handed over, never copied or dropped.
LEMMA WgInvStep ==
  ASSUME IInv, Next
  PROVE WgInv'
<1> USE WatchAssumption
    DEF IInv, WgInv, Goto, GoIdle, CanCall, Created, SetFlag, ClearSlot,
        Stop, Finish, WgDone, StartGoroutine, EndGoroutine, ReleaseValue,
        Unregister, Zero, Version, Thread, valueVars, slotVars, watchVars,
        runVars, callVars, histVars, RunnerInv, SingleRunner, Live,
        Spawning, Active, Ending, Finishing, TypeOK, CallInv, CallState,
        RunState
<1>1. ASSUME NEW t \in Thread, SetLock(t) PROVE WgInv'
  BY <1>1 DEF SetLock
<1>2. ASSUME NEW t \in Thread, NEW w \in Watcher, WatchLock(t, w) PROVE WgInv'
  BY <1>2 DEF WatchLock
<1>3. ASSUME NEW t \in Thread, NEW w \in Watcher, Update(t, w) PROVE WgInv'
  <2>1. \A x \in Watcher, i \in Goroutine : Ending(i, x)' <=> Ending(i, x)
    BY <1>3 DEF Update
  <2>2. \A x \in Watcher, u \in Thread : Finishing(u, x)' <=> Finishing(u, x)
    BY <1>3 DEF Update
  <2>3. Created(w) /\ ~cancel[w]
    BY <1>3 DEF Update
  <2> QED BY <1>3, <2>1, <2>2, <2>3 DEF Update
<1>4. ASSUME NEW t \in Thread, UpdateSpawn(t) PROVE WgInv'
  BY <1>4 DEF UpdateSpawn
<1>5. ASSUME NEW t \in Thread, ValueUnlock(t) PROVE WgInv'
  BY <1>5 DEF ValueUnlock
<1>6. ASSUME NEW t \in Thread, NEW w \in Watcher, CancelUnregister(t, w)
      PROVE WgInv'
  BY <1>6 DEF CancelUnregister
<1>7. ASSUME NEW t \in Thread, CancelMark(t) PROVE WgInv'
  <2>1. \A x \in Watcher, i \in Goroutine : Ending(i, x)' <=> Ending(i, x)
    BY <1>7 DEF CancelMark
  <2>2. \A x \in Watcher, u \in Thread :
         Finishing(u, x)' <=> Finishing(u, x) \/ (u = t /\ x = callee[t] /\ Finish(x))
    BY <1>7 DEF CancelMark
  <2> QED BY <1>7, <2>1, <2>2 DEF CancelMark
<1>8. ASSUME NEW t \in Thread, CancelDone(t) PROVE WgInv'
  BY <1>8 DEF CancelDone
<1>9. ASSUME NEW t \in Thread, NEW w \in Watcher, WaitCall(t, w) PROVE WgInv'
  BY <1>9 DEF WaitCall
<1>10. ASSUME NEW t \in Thread, WaitReturn(t) PROVE WgInv'
  BY <1>10 DEF WaitReturn
<1>11. ASSUME NEW g \in Goroutine, RunStop(g) PROVE WgInv'
  BY <1>11 DEF RunStop
<1>12. ASSUME NEW g \in Goroutine, RunCancelled(g) PROVE WgInv'
  BY <1>12 DEF RunCancelled
<1>13. ASSUME NEW g \in Goroutine, RunHandle(g) PROVE WgInv'
  BY <1>13 DEF RunHandle
<1>14. ASSUME NEW g \in Goroutine, RunDone(g) PROVE WgInv'
  BY <1>14 DEF RunDone
<1>15. ASSUME NEW g \in Goroutine, HandlerReturn(g) PROVE WgInv'
  BY <1>15 DEF HandlerReturn
<1>16. ASSUME NEW g \in Goroutine, HandlerGoexit(g) PROVE WgInv'
  BY <1>16 DEF HandlerGoexit
<1>17. ASSUME NEW g \in Goroutine, RunUnwind(g) PROVE WgInv'
  <2>1. PICK h \in Goroutine :
         /\ run[h] = "none"
         /\ run' = [run EXCEPT ![h] = "loop", ![g] = "none"]
         /\ of' = [of EXCEPT ![h] = of[g], ![g] = NoWatcher]
    BY <1>17 DEF RunUnwind
  <2>2. h # g /\ of[h] = NoWatcher
    BY <1>17, <2>1 DEF RunUnwind
  <2>3. \A i \in Goroutine :
         /\ of'[i] = IF i = h THEN of[g] ELSE IF i = g THEN NoWatcher ELSE of[i]
         /\ run'[i] = IF i = h THEN "loop"
                      ELSE IF i = g THEN "none" ELSE run[i]
    BY <2>1, <2>2

  <2>4. \A x \in Watcher, i \in Goroutine : Ending(i, x)' <=> Ending(i, x)
    BY <1>17, <2>2, <2>3 DEF RunUnwind
  <2>5. \A x \in Watcher, u \in Thread : Finishing(u, x)' <=> Finishing(u, x)
    BY <1>17 DEF RunUnwind
  <2>6. running' = running /\ cancel' = cancel /\ wg' = wg /\ born' = born
    BY <1>17 DEF RunUnwind
  <2> QED BY <2>4, <2>5, <2>6
<1> QED BY <1>1, <1>2, <1>3, <1>4, <1>5, <1>6, <1>7, <1>8, <1>9, <1>10, <1>11,
         <1>12, <1>13, <1>14, <1>15, <1>16, <1>17
    DEF Next, CallBegin, CallStep, RunStep, HandlerEnd

\* Versions keep their order on the way through the slot.
LEMMA SlotInvStep ==
  ASSUME IInv, Next
  PROVE SlotInv'
<1> USE WatchAssumption
    DEF IInv, SlotInv, Goto, GoIdle, CanCall, Created, SetFlag, ClearSlot,
        Stop, Finish, WgDone, StartGoroutine, EndGoroutine, ReleaseValue,
        Unregister, Zero, Version, Thread, valueVars, slotVars, watchVars,
        runVars, callVars, histVars, TypeOK, CallInv, RunnerInv
<1>1. ASSUME NEW t \in Thread, SetLock(t) PROVE SlotInv'
  BY <1>1 DEF SetLock
<1>2. ASSUME NEW t \in Thread, NEW w \in Watcher, WatchLock(t, w) PROVE SlotInv'
  BY <1>2 DEF WatchLock, WgInv
<1>3. ASSUME NEW t \in Thread, NEW w \in Watcher, Update(t, w) PROVE SlotInv'
  BY <1>3 DEF Update
<1>4. ASSUME NEW t \in Thread, UpdateSpawn(t) PROVE SlotInv'
  BY <1>4 DEF UpdateSpawn
<1>5. ASSUME NEW t \in Thread, ValueUnlock(t) PROVE SlotInv'
  BY <1>5 DEF ValueUnlock
<1>6. ASSUME NEW t \in Thread, NEW w \in Watcher, CancelUnregister(t, w)
      PROVE SlotInv'
  BY <1>6 DEF CancelUnregister
<1>7. ASSUME NEW t \in Thread, CancelMark(t) PROVE SlotInv'
  BY <1>7 DEF CancelMark
<1>8. ASSUME NEW t \in Thread, CancelDone(t) PROVE SlotInv'
  BY <1>8 DEF CancelDone
<1>9. ASSUME NEW t \in Thread, NEW w \in Watcher, WaitCall(t, w) PROVE SlotInv'
  BY <1>9 DEF WaitCall
<1>10. ASSUME NEW t \in Thread, WaitReturn(t) PROVE SlotInv'
  BY <1>10 DEF WaitReturn
<1>11. ASSUME NEW g \in Goroutine, RunStop(g) PROVE SlotInv'
  BY <1>11 DEF RunStop
<1>12. ASSUME NEW g \in Goroutine, RunCancelled(g) PROVE SlotInv'
  BY <1>12 DEF RunCancelled
<1>13. ASSUME NEW g \in Goroutine, RunHandle(g) PROVE SlotInv'
  BY <1>13 DEF RunHandle
<1>14. ASSUME NEW g \in Goroutine, RunDone(g) PROVE SlotInv'
  BY <1>14 DEF RunDone
<1>15. ASSUME NEW g \in Goroutine, HandlerReturn(g) PROVE SlotInv'
  BY <1>15 DEF HandlerReturn
<1>16. ASSUME NEW g \in Goroutine, HandlerGoexit(g) PROVE SlotInv'
  BY <1>16 DEF HandlerGoexit
<1>17. ASSUME NEW g \in Goroutine, RunUnwind(g) PROVE SlotInv'
  BY <1>17 DEF RunUnwind
<1> QED BY <1>1, <1>2, <1>3, <1>4, <1>5, <1>6, <1>7, <1>8, <1>9, <1>10, <1>11,
         <1>12, <1>13, <1>14, <1>15, <1>16, <1>17
    DEF Next, CallBegin, CallStep, RunStep, HandlerEnd

\* No watch exists at first.
LEMMA InitIInv == Init => IInv
  BY WatchAssumption
      DEF Init, IInv, TypeOK, CallInv, RunnerInv, SingleRunner, WgInv,
          SlotInv, Active, Ending, Finishing, Live, Spawning, Created, Zero,
          Version, Thread, RunState, CallState

\* A step that changes nothing preserves the invariant.
LEMMA Stutter ==
  ASSUME IInv, UNCHANGED vars
  PROVE IInv'
  BY
      DEF vars, IInv, TypeOK, CallInv, RunnerInv, SingleRunner, WgInv,
          SlotInv, Active, Ending, Finishing, Live, Spawning, Created

\* The inductive invariant holds in every reachable state.
THEOREM Inductive == Spec => []IInv
<1>1. IInv /\ [Next]_vars => IInv'
  BY Stutter, TypeOKStep, CallInvStep, RunnerInvStep, WgInvStep, SlotInvStep
      DEF IInv
<1> QED BY <1>1, InitIInv, PTL DEF Spec

\* Every variable has its type, and only registered watches are due an update.
THEOREM TypeCorrect == Spec => []TypeOK
  BY Inductive, PTL DEF IInv

\* For any number of watches, clients and goroutines, update and run never let
\* two goroutines be in charge of one watch.
THEOREM OneRunnerPerWatch == Spec => []SingleRunner
<1>1. IInv => SingleRunner
  BY DEF IInv, RunnerInv
<1> QED BY <1>1, Inductive, PTL

\* No update is lost between Set, Watch and the goroutine that decides to stop.
THEOREM UpdatesNotLost == Spec => []NoLostUpdate
<1>1. IInv => NoLostUpdate
  BY DEF IInv, TypeOK, RunnerInv, SlotInv, NoLostUpdate, Active, Live
<1> QED BY <1>1, Inductive, PTL

\* When Wait can return, the watch is over: no handler runs or ever will.
THEOREM WaitKeepsItsPromise == Spec => []WaitGuarantee
<1>1. IInv => WaitGuarantee
  BY
      DEF IInv, TypeOK, CallInv, RunnerInv, WgInv, WaitGuarantee, Active,
          Ending, Live, RunState
<1> QED BY <1>1, Inductive, PTL

\* However many Cancels race with run, wg.Done is never called once too often.
THEOREM DoneNeverPanics == Spec => []DoneAtMostOnce
<1>1. IInv => DoneAtMostOnce
  BY DEF IInv, TypeOK, WgInv, DoneAtMostOnce
<1> QED BY <1>1, Inductive, PTL

\* What DeliveryInOrder says of one step.
InOrder ==
  \A g \in Goroutine :
    run[g] = "loop" /\ run'[g] = "handler" => handled'[of[g]] > handled[of[g]]

\* Only RunHandle enters the handler, and the slot is ahead of the last execution.
LEMMA InOrderStep ==
  ASSUME IInv, Next
  PROVE InOrder
<1> USE WatchAssumption
    DEF IInv, TypeOK, CallInv, SlotInv, InOrder, Goto, GoIdle, CanCall,
        Created, SetFlag, ClearSlot, Stop, Finish, WgDone, StartGoroutine,
        EndGoroutine, ReleaseValue, Unregister, Zero, Version, Thread,
        valueVars, slotVars, watchVars, runVars, callVars, histVars
<1>1. ASSUME NEW t \in Thread, SetLock(t) PROVE InOrder
  BY <1>1 DEF SetLock
<1>2. ASSUME NEW t \in Thread, NEW w \in Watcher, WatchLock(t, w) PROVE InOrder
  BY <1>2 DEF WatchLock
<1>3. ASSUME NEW t \in Thread, NEW w \in Watcher, Update(t, w) PROVE InOrder
  BY <1>3 DEF Update
<1>4. ASSUME NEW t \in Thread, UpdateSpawn(t) PROVE InOrder
  BY <1>4 DEF UpdateSpawn
<1>5. ASSUME NEW t \in Thread, ValueUnlock(t) PROVE InOrder
  BY <1>5 DEF ValueUnlock
<1>6. ASSUME NEW t \in Thread, NEW w \in Watcher, CancelUnregister(t, w)
      PROVE InOrder
  BY <1>6 DEF CancelUnregister
<1>7. ASSUME NEW t \in Thread, CancelMark(t) PROVE InOrder
  BY <1>7 DEF CancelMark
<1>8. ASSUME NEW t \in Thread, CancelDone(t) PROVE InOrder
  BY <1>8 DEF CancelDone
<1>9. ASSUME NEW t \in Thread, NEW w \in Watcher, WaitCall(t, w) PROVE InOrder
  BY <1>9 DEF WaitCall
<1>10. ASSUME NEW t \in Thread, WaitReturn(t) PROVE InOrder
  BY <1>10 DEF WaitReturn
<1>11. ASSUME NEW g \in Goroutine, RunStop(g) PROVE InOrder
  BY <1>11 DEF RunStop
<1>12. ASSUME NEW g \in Goroutine, RunCancelled(g) PROVE InOrder
  BY <1>12 DEF RunCancelled
<1>13. ASSUME NEW g \in Goroutine, RunHandle(g) PROVE InOrder
  BY <1>13 DEF RunHandle
<1>14. ASSUME NEW g \in Goroutine, RunDone(g) PROVE InOrder
  BY <1>14 DEF RunDone
<1>15. ASSUME NEW g \in Goroutine, HandlerReturn(g) PROVE InOrder
  BY <1>15 DEF HandlerReturn
<1>16. ASSUME NEW g \in Goroutine, HandlerGoexit(g) PROVE InOrder
  BY <1>16 DEF HandlerGoexit
<1>17. ASSUME NEW g \in Goroutine, RunUnwind(g) PROVE InOrder
  BY <1>17 DEF RunUnwind
<1> QED BY <1>1, <1>2, <1>3, <1>4, <1>5, <1>6, <1>7, <1>8, <1>9, <1>10, <1>11,
         <1>12, <1>13, <1>14, <1>15, <1>16, <1>17
    DEF Next, CallBegin, CallStep, RunStep, HandlerEnd

\* Every handler execution is given a newer version than the one before it.
THEOREM DeliveriesInOrder == Spec => DeliveryInOrder
<1>1. IInv /\ [Next]_vars => [InOrder]_vars
  BY InOrderStep
<1> QED BY <1>1, Inductive, PTL DEF Spec, DeliveryInOrder, InOrder

\* The initial states of the package are those of the mailboxes.
LEMMA RefinementInit == Init => Contract!Init
  BY  DEF Init, Contract!Init, phaseMap, boxMap, inflightMap, Created,
          Handling, Zero

\* Steps that leave these variables alone leave the mapped state alone.
LEMMA SamePhase ==
  ASSUME UNCHANGED <<born, cancel, wg>> PROVE phaseMap' = phaseMap
  BY DEF phaseMap, Created

\* As above, for the box.
LEMMA SameBox ==
  ASSUME UNCHANGED <<ok, cancel, next>> PROVE boxMap' = boxMap
  BY DEF boxMap

\* As above, for the handler execution.
LEMMA SameInflight ==
  ASSUME UNCHANGED handled, \A w \in Watcher : Handling(w)' <=> Handling(w)
  PROVE inflightMap' = inflightMap
  BY DEF inflightMap

\* Handlers execute in goroutines.
LEMMA SameHandling ==
  ASSUME UNCHANGED runVars PROVE \A w \in Watcher : Handling(w)' <=> Handling(w)
  BY DEF runVars, Handling

\* Every step of the package is a step of the mailboxes or invisible there.
LEMMA RefinementStep ==
  ASSUME IInv, Next
  PROVE Contract!Next \/ UNCHANGED Contract!vars
<1> USE WatchAssumption
    DEF IInv, TypeOK, Contract!vars, Goto, GoIdle, CanCall, Created,
        SetFlag, ClearSlot, Stop, Finish, WgDone, StartGoroutine,
        EndGoroutine, ReleaseValue, Unregister, Zero, Version, Thread,
        valueVars, slotVars, watchVars, runVars, callVars, histVars
<1>1. ASSUME NEW t \in Thread, SetLock(t) PROVE Contract!Set
  <2>1. phaseMap' = phaseMap /\ boxMap' = boxMap /\ inflightMap' = inflightMap
    BY <1>1, SamePhase, SameBox, SameInflight, SameHandling DEF SetLock
  <2> QED BY <1>1, <2>1 DEF SetLock, Contract!Set, CallInv
<1>2. ASSUME NEW t \in Thread, NEW w \in Watcher, WatchLock(t, w)
      PROVE Contract!Open(w)
  <2>1. boxMap' = boxMap /\ inflightMap' = inflightMap
    BY <1>2, SameBox, SameInflight, SameHandling DEF WatchLock
  <2>2. ~cancel[w]
    BY <1>2 DEF WatchLock, WgInv
  <2>3. phaseMap[w] = "new" /\ phaseMap' = [phaseMap EXCEPT ![w] = "open"]
    <3>1. /\ born[w] = 0 /\ born' = [born EXCEPT ![w] = value] /\ value # 0
          /\ cancel' = cancel
          /\ wg' = [wg EXCEPT ![w] = 1]
      BY <1>2 DEF WatchLock
    <3> QED BY <2>2, <3>1 DEF phaseMap
  <2> QED BY <1>2, <2>1, <2>3 DEF WatchLock, Contract!Open, CallInv
<1>3. ASSUME NEW t \in Thread, NEW w \in Watcher, Update(t, w)
      PROVE Contract!Post(w)
  <2>1. phaseMap' = phaseMap /\ inflightMap' = inflightMap
    BY <1>3, SamePhase, SameInflight, SameHandling DEF Update
  <2>2. boxMap' = [boxMap EXCEPT ![w] = {value}]
    <3>1. w \in Watcher /\ ~cancel[w] /\ cancel' = cancel
      BY <1>3 DEF Update, CallInv
    <3>2. /\ next' = [next EXCEPT ![w] = value]
          /\ ok' = [ok EXCEPT ![w] = TRUE]
      BY <1>3 DEF Update
    <3> QED BY <3>1, <3>2 DEF boxMap
  <2> QED BY <1>3, <2>1, <2>2 DEF Update, Contract!Post
<1>4. ASSUME NEW t \in Thread, UpdateSpawn(t) PROVE UNCHANGED Contract!vars
  <2>1. PICK g \in Goroutine : /\ run[g] = "none"
                              /\ run' = [run EXCEPT ![g] = "loop"]
                              /\ of' = [of EXCEPT ![g] = callee[t]]
    BY <1>4 DEF UpdateSpawn
  <2>2. \A w \in Watcher : Handling(w)' <=> Handling(w)
    BY <2>1 DEF Handling
  <2>3. phaseMap' = phaseMap /\ boxMap' = boxMap /\ inflightMap' = inflightMap
    BY <1>4, <2>2, SamePhase, SameBox, SameInflight DEF UpdateSpawn
  <2> QED BY <1>4, <2>3 DEF UpdateSpawn
<1>5. ASSUME NEW t \in Thread, ValueUnlock(t) PROVE UNCHANGED Contract!vars
  BY <1>5, SamePhase, SameBox, SameInflight, SameHandling DEF ValueUnlock
<1>6. ASSUME NEW t \in Thread, NEW w \in Watcher, CancelUnregister(t, w)
      PROVE Contract!Leave(w)
  <2>1. phaseMap' = phaseMap /\ boxMap' = boxMap /\ inflightMap' = inflightMap
    BY <1>6, SamePhase, SameBox, SameInflight, SameHandling DEF CancelUnregister
  <2>2. phaseMap[w] # "new"
    BY <1>6 DEF CancelUnregister, phaseMap
  <2> QED BY <1>6, <2>1, <2>2 DEF CancelUnregister, Contract!Leave, CallInv
<1>7. ASSUME NEW t \in Thread, CancelMark(t)
      PROVE Contract!Next \/ UNCHANGED Contract!vars
  <2> DEFINE w == callee[t]
  <2>1. w \in Watcher /\ Created(w) /\ w \notin watchers
    BY <1>7 DEF CancelMark, CallInv
  <2>2. inflightMap' = inflightMap
    BY <1>7, SameInflight, SameHandling DEF CancelMark
  <2>3. CASE cancel[w]
    <3>1. cancel' = cancel
      BY <1>7, <2>3 DEF CancelMark
    <3> QED BY <1>7, <2>2, <3>1, SamePhase, SameBox DEF CancelMark
  <2>4. CASE ~cancel[w]
    <3>1. wg[w] = 1
      BY <2>1, <2>4 DEF WgInv
    <3>2. phaseMap[w] = "open" /\ phaseMap' = [phaseMap EXCEPT ![w] = "closing"]
      BY <1>7, <2>1, <2>4, <3>1 DEF CancelMark, phaseMap
    <3>3. boxMap' = [boxMap EXCEPT ![w] = {}]
      BY <1>7, <2>1 DEF CancelMark, boxMap
    <3>4. Contract!Close(w)
      BY <1>7, <2>1, <2>2, <3>2, <3>3 DEF CancelMark, Contract!Close
    <3> QED BY <2>1, <3>4 DEF Contract!Next
  <2> QED BY <2>3, <2>4
<1>8. ASSUME NEW t \in Thread, CancelDone(t)
      PROVE \E w \in Watcher : Contract!Terminate(w)
  <2> DEFINE w == callee[t]
  <2>1. w \in Watcher /\ Created(w) /\ Finishing(t, w)
    BY <1>8 DEF CancelDone, CallInv, Finishing
  <2>2. cancel[w] /\ ~running[w] /\ wg[w] = 1
    BY <2>1 DEF WgInv
  <2>3. inflightMap[w] = {}
    BY <2>1, <2>2 DEF RunnerInv, Active, Handling, inflightMap
  <2>4. phaseMap[w] = "closing" /\ phaseMap' = [phaseMap EXCEPT ![w] = "closed"]
    BY <1>8, <2>1, <2>2 DEF CancelDone, phaseMap
  <2>5. boxMap' = boxMap /\ inflightMap' = inflightMap
    BY <1>8, SameBox, SameInflight, SameHandling DEF CancelDone
  <2>6. Contract!Terminate(w)
    BY <1>8, <2>3, <2>4, <2>5 DEF CancelDone, Contract!Terminate
  <2> QED BY <2>1, <2>6
<1>9. ASSUME NEW t \in Thread, NEW w \in Watcher, WaitCall(t, w)
      PROVE UNCHANGED Contract!vars
  BY <1>9, SamePhase, SameBox, SameInflight, SameHandling DEF WaitCall
<1>10. ASSUME NEW t \in Thread, WaitReturn(t) PROVE UNCHANGED Contract!vars
  BY <1>10, SamePhase, SameBox, SameInflight, SameHandling DEF WaitReturn
<1>11. ASSUME NEW g \in Goroutine, RunStop(g) PROVE UNCHANGED Contract!vars
  <2> DEFINE w == of[g]
  <2>1. w \in Watcher
    BY <1>11 DEF RunStop, CallInv
  <2>2. \A x \in Watcher : Handling(x)' <=> Handling(x)
    BY <1>11 DEF RunStop, Handling
  <2>3. boxMap' = boxMap
    BY <1>11, <2>1 DEF RunStop, boxMap
  <2> QED BY <1>11, <2>2, <2>3, SamePhase, SameInflight DEF RunStop
<1>12. ASSUME NEW g \in Goroutine, RunCancelled(g) PROVE UNCHANGED Contract!vars
  <2> DEFINE w == of[g]
  <2>1. w \in Watcher
    BY <1>12 DEF RunCancelled, CallInv
  <2>2. \A x \in Watcher : Handling(x)' <=> Handling(x)
    BY <1>12 DEF RunCancelled, Handling
  <2>3. boxMap' = boxMap
    BY <1>12, <2>1 DEF RunCancelled, boxMap
  <2> QED BY <1>12, <2>2, <2>3, SamePhase, SameInflight DEF RunCancelled
<1>13. ASSUME NEW g \in Goroutine, RunHandle(g)
       PROVE \E w \in Watcher : Contract!Begin(w)
  <2> DEFINE w == of[g]
  <2>1. w \in Watcher /\ Created(w) /\ ~cancel[w] /\ ok[w]
    BY <1>13 DEF RunHandle, CallInv
  <2>2. \A h \in Goroutine : Live(h, w) => h = g
    BY <1>13, <2>1 DEF RunHandle, RunnerInv, SingleRunner, Live
  <2>3. ~Handling(w)
    BY <1>13, <2>2 DEF RunHandle, Handling, Live
  <2>4. \A x \in Watcher : Handling(x)' <=> Handling(x) \/ x = w
    BY <1>13, <2>1 DEF RunHandle, Handling
  <2>5. /\ inflightMap[w] = {}
       /\ inflightMap' = [inflightMap EXCEPT ![w] = {next[w]}]
    BY <1>13, <2>1, <2>3, <2>4 DEF RunHandle, inflightMap
  <2>6. boxMap[w] = {next[w]} /\ boxMap' = [boxMap EXCEPT ![w] = {}]
    BY <1>13, <2>1 DEF RunHandle, boxMap
  <2>7. phaseMap[w] = "open"
    BY <2>1 DEF phaseMap
  <2>8. phaseMap' = phaseMap
    BY <1>13, SamePhase DEF RunHandle
  <2>9. Contract!Begin(w)
    BY <1>13, <2>5, <2>6, <2>7, <2>8 DEF RunHandle, Contract!Begin
  <2> QED BY <2>1, <2>9
<1>14. ASSUME NEW g \in Goroutine, RunDone(g)
       PROVE \E w \in Watcher : Contract!Terminate(w)
  <2> DEFINE w == of[g]
  <2>1. w \in Watcher /\ Created(w) /\ Ending(g, w)
    BY <1>14 DEF RunDone, CallInv, Ending
  <2>2. cancel[w] /\ ~running[w] /\ wg[w] = 1
    BY <2>1 DEF WgInv
  <2>3. inflightMap[w] = {}
    BY <2>1, <2>2 DEF RunnerInv, Active, Handling, inflightMap
  <2>4. phaseMap[w] = "closing" /\ phaseMap' = [phaseMap EXCEPT ![w] = "closed"]
    <3>1. /\ \A x \in Watcher : wg'[x] = IF x = w THEN 0 ELSE wg[x]
          /\ cancel' = cancel /\ born' = born
      BY <1>14, <2>1, <2>2 DEF RunDone
    <3>2. \A x \in Watcher :
            phaseMap'[x] = IF x = w THEN "closed" ELSE phaseMap[x]
      BY <2>1, <2>2, <3>1 DEF phaseMap
    <3>3. phaseMap[w] = "closing"
      BY <2>1, <2>2 DEF phaseMap
    <3> QED BY <3>2, <3>3 DEF phaseMap
  <2>5. \A x \in Watcher : Handling(x)' <=> Handling(x)
    BY <1>14 DEF RunDone, Handling
  <2>6. boxMap' = boxMap /\ inflightMap' = inflightMap
    BY <1>14, <2>5, SameBox, SameInflight DEF RunDone
  <2>7. Contract!Terminate(w)
    BY <1>14, <2>3, <2>4, <2>6 DEF RunDone, Contract!Terminate
  <2> QED BY <2>1, <2>7
<1>15. ASSUME NEW g \in Goroutine, HandlerReturn(g)
       PROVE \E w \in Watcher : Contract!Return(w)
  <2> DEFINE w == of[g]
  <2>1. w \in Watcher /\ Handling(w)
    BY <1>15 DEF HandlerReturn, CallInv, Handling
  <2>2. \A h \in Goroutine : Live(h, w) => h = g
    BY <1>15, <2>1 DEF HandlerReturn, RunnerInv, SingleRunner, Live
  <2>3. ~Handling(w)'
    BY <1>15, <2>2 DEF HandlerReturn, Handling, Live
  <2>4. \A x \in Watcher : x # w => (Handling(x)' <=> Handling(x))
    BY <1>15 DEF HandlerReturn, Handling
  <2>5. inflightMap[w] # {} /\ inflightMap' = [inflightMap EXCEPT ![w] = {}]
    BY <1>15, <2>1, <2>3, <2>4 DEF HandlerReturn, inflightMap
  <2>6. phaseMap' = phaseMap /\ boxMap' = boxMap
    BY <1>15, SamePhase, SameBox DEF HandlerReturn
  <2>7. Contract!Return(w)
    BY <1>15, <2>5, <2>6 DEF HandlerReturn, Contract!Return
  <2> QED BY <2>1, <2>7
<1>16. ASSUME NEW g \in Goroutine, HandlerGoexit(g)
       PROVE \E w \in Watcher : Contract!Return(w)
  <2> DEFINE w == of[g]
  <2>1. w \in Watcher /\ Handling(w)
    BY <1>16 DEF HandlerGoexit, CallInv, Handling
  <2>2. \A h \in Goroutine : Live(h, w) => h = g
    BY <1>16, <2>1 DEF HandlerGoexit, RunnerInv, SingleRunner, Live
  <2>3. ~Handling(w)'
    BY <1>16, <2>2 DEF HandlerGoexit, Handling, Live
  <2>4. \A x \in Watcher : x # w => (Handling(x)' <=> Handling(x))
    BY <1>16 DEF HandlerGoexit, Handling
  <2>5. inflightMap[w] # {} /\ inflightMap' = [inflightMap EXCEPT ![w] = {}]
    BY <1>16, <2>1, <2>3, <2>4 DEF HandlerGoexit, inflightMap
  <2>6. phaseMap' = phaseMap /\ boxMap' = boxMap
    BY <1>16, SamePhase, SameBox DEF HandlerGoexit
  <2>7. Contract!Return(w)
    BY <1>16, <2>5, <2>6 DEF HandlerGoexit, Contract!Return
  <2> QED BY <2>1, <2>7
<1>17. ASSUME NEW g \in Goroutine, RunUnwind(g) PROVE UNCHANGED Contract!vars
  <2>1. \A x \in Watcher : Handling(x)' <=> Handling(x)
    BY <1>17 DEF RunUnwind, Handling
  <2> QED BY <1>17, <2>1, SamePhase, SameBox, SameInflight DEF RunUnwind
<1> QED BY <1>1, <1>2, <1>3, <1>4, <1>5, <1>6, <1>7, <1>8, <1>9, <1>10, <1>11,
         <1>12, <1>13, <1>14, <1>15, <1>16, <1>17
    DEF Next, CallBegin, CallStep, RunStep, HandlerEnd, Contract!Next

\* The watch package implements the mailboxes of WatchContract.
THEOREM Refinement == Spec => ImplementsContract
<1>1. IInv /\ [Next]_vars => [Contract!Next]_(Contract!vars)
  <2>1. UNCHANGED vars => UNCHANGED Contract!vars
    BY DEF vars, Contract!vars, phaseMap, boxMap, inflightMap, Created, Handling
  <2> QED BY <2>1, RefinementStep
<1> QED BY <1>1, RefinementInit, Inductive, PTL
    DEF Spec, ImplementsContract, Contract!Spec

=============================================================================
