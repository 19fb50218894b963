----------------------------- MODULE CheckQueue -----------------------------
(***************************************************************************)
(* The parallel script-verification queue: CCheckQueue and its RAII        *)
(* controller CCheckQueueControl (src/src/checkqueue.h), as ConnectBlock   *)
(* uses them.                                                              *)
(*                                                                         *)
(* Worker threads run Loop(false) for ever.  The thread that connects a    *)
(* block (the master) constructs a controller, adds the script checks of   *)
(* one transaction after the other, and calls Wait, which is Loop(true).   *)
(* When ConnectBlock returns early, the controller's destructor calls Wait *)
(* and drops the answer.  At shutdown the threads are interrupted:         *)
(* cond.wait is an interruption point, and the counters nIdle and nTotal   *)
(* keep what the interrupted thread had added to them.                     *)
(*                                                                         *)
(* Data abstracted: a check is a model value that is either failing or     *)
(* not; the LIFO vector of checks is a set, of which a thread takes any    *)
(* nNow elements (every order the stack may have, and more).               *)
(*                                                                         *)
(* Definitions marked "Fault:" are not part of the specification: each is  *)
(* a definition with a bug that a property below has to detect.            *)
(***************************************************************************)
EXTENDS Integers, FiniteSets

CONSTANTS
  Workers,            \* the script-check threads
  Master,             \* whichever thread is connecting a block
  Checks,             \* the checks one block may need
  FailingChecks,      \* those whose operator() returns false
  nBatchSize,         \* the constructor's nBatchSizeIn
  MaxInterrupts       \* bound: interruptions of a waiting master

ASSUME QueueAssumption ==
  /\ Master \notin Workers
  /\ IsFiniteSet(Workers) /\ IsFiniteSet(Checks)
  /\ FailingChecks \subseteq Checks
  /\ nBatchSize \in Nat \ {0}
  /\ MaxInterrupts \in Nat

Threads == Workers \cup {Master}

VARIABLES
  pc,           \* where each thread is, see PCs
  queue,        \* checks nobody has taken yet
  nIdle,        \* threads counted as idle
  nTotal,       \* threads counted as being in Loop
  fAllOk,       \* the temporary evaluation result
  nTodo,        \* verifications that haven't completed yet
  vChecks,      \* each thread's own batch; nNow is its size, 0 before the first
  fOk,          \* each thread's local result
  fDtor,        \* the running Wait is the destructor's
  added,        \* history: the checks added since the controller was built
  ret,          \* history: what the last Wait returned
  interrupts    \* history: interruptions of a waiting master

queueVars == <<pc, queue, nIdle, nTotal, fAllOk, nTodo, vChecks, fOk, fDtor,
               added, ret, interrupts>>

(* out: the master is not connecting a block.  adding: between construction  *)
(* of the controller and Wait.  enter: about to lock the mutex at the top of *)
(* the loop.  locked: owns the mutex, at the while condition.  wait: blocked *)
(* on its condition variable.  woken: notified, about to lock again.         *)
(* work: runs its batch without the mutex.  dead: interrupted worker.        *)
PCs == {"out", "adding", "enter", "locked", "wait", "woken", "work", "dead"}

QueueInit ==
  /\ pc = [t \in Threads |-> IF t = Master THEN "out" ELSE "enter"]
  /\ queue = {} /\ nIdle = 0 /\ nTotal = 0 /\ fAllOk = TRUE /\ nTodo = 0
  /\ vChecks = [t \in Threads |-> {}]
  /\ fOk = [t \in Threads |-> TRUE]
  /\ fDtor = FALSE
  /\ added = {} /\ ret = TRUE /\ interrupts = 0

MutexFree == \A t \in Threads : pc[t] # "locked"

Sleepers == {w \in Workers : pc[w] = "wait"}

-----------------------------------------------------------------------------
(* The controller, run by the master. *)

(* CCheckQueueControl's constructor.  It reads the counters without the     *)
(* mutex; when an assertion fails the process aborts, so there is no step.  *)
Construct ==
  /\ pc[Master] = "out"
  /\ nTotal = nIdle /\ nTodo = 0 /\ fAllOk
  /\ pc' = [pc EXCEPT ![Master] = "adding"]
  /\ added' = {}
  /\ fDtor' = FALSE
  /\ UNCHANGED <<queue, nIdle, nTotal, fAllOk, nTodo, vChecks, fOk, ret, interrupts>>

(* Which workers Add wakes: one of them for a single check, all for more.   *)
Notified(S) ==
  IF S = {} THEN {{}}
  ELSE IF Cardinality(S) = 1 /\ Sleepers # {} THEN {{w} : w \in Sleepers}
  ELSE {Sleepers}

(* Fault: the new checks are not added to nTodo. *)
AddUncounted(S) ==
  /\ pc[Master] = "adding"
  /\ MutexFree
  /\ queue' = queue \cup S
  /\ added' = added \cup S
  /\ \E W \in Notified(S) :
       pc' = [t \in Threads |-> IF t \in W THEN "woken" ELSE pc[t]]
  /\ UNCHANGED <<nIdle, nTotal, fAllOk, nTodo, vChecks, fOk, fDtor, ret, interrupts>>

Add(S) ==
  /\ pc[Master] = "adding"
  /\ MutexFree
  /\ queue' = queue \cup S
  /\ nTodo' = nTodo + Cardinality(S)
  /\ added' = added \cup S
  /\ \E W \in Notified(S) :
       pc' = [t \in Threads |-> IF t \in W THEN "woken" ELSE pc[t]]
  /\ UNCHANGED <<nIdle, nTotal, fAllOk, vChecks, fOk, fDtor, ret, interrupts>>

(* The master calls Loop(true): from Wait when every transaction has been   *)
(* added, or from the destructor when ConnectBlock returns early.           *)
StartWait(dtor) ==
  /\ pc[Master] = "adding"
  /\ pc' = [pc EXCEPT ![Master] = "enter"]
  /\ fOk' = [fOk EXCEPT ![Master] = TRUE]
  /\ fDtor' = dtor
  /\ UNCHANGED <<queue, nIdle, nTotal, fAllOk, nTodo, vChecks, added, ret, interrupts>>

-----------------------------------------------------------------------------
(* Loop, run by any thread t. *)

(* Fault: nTodo is tested before the batch is subtracted. *)
NotifiesBeforeCounting(t) == nTodo = 0 /\ t # Master /\ pc[Master] = "wait"

(* A worker whose batch was the last to finish notifies the master.         *)
NotifiesMaster(t) == nTodo' = 0 /\ t # Master /\ pc[Master] = "wait"

(* Lock, and clean up after the previous run of the loop body.              *)
Enter(t) ==
  /\ pc[t] = "enter"
  /\ MutexFree
  /\ IF vChecks[t] # {}
     THEN /\ fAllOk' = (fAllOk /\ fOk[t])
          /\ nTodo' = nTodo - Cardinality(vChecks[t])
          /\ vChecks' = [vChecks EXCEPT ![t] = {}]
          /\ nTotal' = nTotal
          /\ pc' = IF NotifiesMaster(t)
                   THEN [pc EXCEPT ![t] = "locked", ![Master] = "woken"]
                   ELSE [pc EXCEPT ![t] = "locked"]
     ELSE /\ nTotal' = nTotal + 1
          /\ pc' = [pc EXCEPT ![t] = "locked"]
          /\ UNCHANGED <<fAllOk, nTodo, vChecks>>
  /\ UNCHANGED <<queue, nIdle, fOk, fDtor, added, ret, interrupts>>

(* fQuit is never assigned after construction.                              *)
fQuit == FALSE

(* Fault: the master leaves as soon as the queue is empty. *)
MayReturnWithBatchesOut(t) == t = Master \/ fQuit

(* Only the master returns, once every verification has completed.          *)
MayReturn(t) == (t = Master \/ fQuit) /\ nTodo = 0

(* Nothing left: the master takes the answer and resets it for new work.    *)
Return(t) ==
  /\ pc[t] = "locked"
  /\ queue = {} /\ MayReturn(t)
  /\ nTotal' = nTotal - 1
  /\ ret' = fAllOk
  /\ fAllOk' = TRUE
  /\ pc' = [pc EXCEPT ![t] = "out"]
  /\ UNCHANGED <<queue, nIdle, nTodo, vChecks, fOk, fDtor, added, interrupts>>

Sleep(t) ==
  /\ pc[t] = "locked"
  /\ queue = {} /\ ~MayReturn(t)
  /\ nIdle' = nIdle + 1
  /\ pc' = [pc EXCEPT ![t] = "wait"]
  /\ UNCHANGED <<queue, nTotal, fAllOk, nTodo, vChecks, fOk, fDtor, added, ret, interrupts>>

MinOf(a, b) == IF a < b THEN a ELSE b

BatchOf(q) ==
  LET share == MinOf(nBatchSize, Cardinality(q) \div (nTotal + nIdle + 1))
  IN  IF share < 1 THEN 1 ELSE share

Take(t) ==
  /\ pc[t] = "locked"
  /\ queue # {}
  /\ \E B \in SUBSET queue :
       /\ Cardinality(B) = BatchOf(queue)
       /\ vChecks' = [vChecks EXCEPT ![t] = B]
       /\ queue' = queue \ B
  /\ fOk' = [fOk EXCEPT ![t] = fAllOk]
  /\ pc' = [pc EXCEPT ![t] = "work"]
  /\ UNCHANGED <<nIdle, nTotal, fAllOk, nTodo, fDtor, added, ret, interrupts>>

(* Fault: each check overwrites fOk. *)
WorkKeepsLastResult(t) ==
  /\ pc[t] = "work"
  /\ \E c \in vChecks[t] : fOk' = [fOk EXCEPT ![t] = c \notin FailingChecks]
  /\ pc' = [pc EXCEPT ![t] = "enter"]
  /\ UNCHANGED <<queue, nIdle, nTotal, fAllOk, nTodo, vChecks, fDtor, added, ret, interrupts>>

(* Run the batch; a check after the first failing one is skipped.           *)
Work(t) ==
  /\ pc[t] = "work"
  /\ fOk' = [fOk EXCEPT ![t] = @ /\ vChecks[t] \cap FailingChecks = {}]
  /\ pc' = [pc EXCEPT ![t] = "enter"]
  /\ UNCHANGED <<queue, nIdle, nTotal, fAllOk, nTodo, vChecks, fDtor, added, ret, interrupts>>

(* Fault: no nIdle-- after cond.wait. *)
WakeStillIdle(t) ==
  /\ pc[t] = "woken"
  /\ MutexFree
  /\ pc' = [pc EXCEPT ![t] = "locked"]
  /\ UNCHANGED <<queue, nIdle, nTotal, fAllOk, nTodo, vChecks, fOk, fDtor, added, ret, interrupts>>

(* cond.wait returns with the mutex locked.                                 *)
Wake(t) ==
  /\ pc[t] = "woken"
  /\ MutexFree
  /\ nIdle' = nIdle - 1
  /\ pc' = [pc EXCEPT ![t] = "locked"]
  /\ UNCHANGED <<queue, nTotal, fAllOk, nTodo, vChecks, fOk, fDtor, added, ret, interrupts>>

(* A condition variable may wake a thread that nobody notified.             *)
SpuriousWake(t) ==
  /\ pc[t] = "wait"
  /\ pc' = [pc EXCEPT ![t] = "woken"]
  /\ UNCHANGED <<queue, nIdle, nTotal, fAllOk, nTodo, vChecks, fOk, fDtor, added, ret, interrupts>>

(* Shutdown interrupts a waiting worker: the exception leaves Loop.         *)
InterruptWorker(w) ==
  /\ pc[w] = "wait"
  /\ pc' = [pc EXCEPT ![w] = "dead"]
  /\ UNCHANGED <<queue, nIdle, nTotal, fAllOk, nTodo, vChecks, fOk, fDtor, added, ret, interrupts>>

(* The same in the master's explicit Wait: unwinding runs the destructor,   *)
(* which calls Wait again (fDone is still false).  An interruption of the    *)
(* destructor's own Wait ends the thread, and no block is connected after it.*)
InterruptMaster ==
  /\ pc[Master] = "wait" /\ ~fDtor
  /\ interrupts < MaxInterrupts
  /\ pc' = [pc EXCEPT ![Master] = "enter"]
  /\ fOk' = [fOk EXCEPT ![Master] = TRUE]
  /\ fDtor' = TRUE
  /\ interrupts' = interrupts + 1
  /\ UNCHANGED <<queue, nIdle, nTotal, fAllOk, nTodo, vChecks, added, ret>>

-----------------------------------------------------------------------------
QueueNext ==
  \/ Construct
  \/ \E S \in SUBSET (Checks \ added) : Add(S)
  \/ \E dtor \in BOOLEAN : StartWait(dtor)
  \/ \E t \in Threads : \/ Enter(t) \/ Return(t) \/ Sleep(t) \/ Take(t)
                        \/ Work(t) \/ Wake(t) \/ SpuriousWake(t)
  \/ \E w \in Workers : InterruptWorker(w)
  \/ InterruptMaster

QueueSpec == QueueInit /\ [][QueueNext]_queueVars

(* A thread that can run does run, and a thread that waits for the mutex is *)
(* not passed over for ever.  Nothing is assumed about the master calling   *)
(* Add or Wait, about spurious wake-ups or about interruptions.             *)
Runs(t) == Enter(t) \/ Return(t) \/ Sleep(t) \/ Take(t) \/ Work(t) \/ Wake(t)

Fairness == \A t \in Threads : SF_queueVars(Runs(t))

QueueLiveSpec == QueueSpec /\ Fairness

-----------------------------------------------------------------------------
(* Properties *)

(* Every field stays in its range; in particular the unsigned nTodo never   *)
(* wraps below zero in Loop's clean-up.                                     *)
QueueTypes ==
  /\ pc \in [Threads -> PCs]
  /\ queue \subseteq Checks
  /\ nIdle \in Int /\ nTotal \in Int /\ nTodo \in Nat
  /\ fAllOk \in BOOLEAN /\ fDtor \in BOOLEAN /\ ret \in BOOLEAN
  /\ vChecks \in [Threads -> SUBSET Checks]
  /\ fOk \in [Threads -> BOOLEAN]
  /\ added \subseteq Checks
  /\ interrupts \in 0..MaxInterrupts

(* Checks added and not yet accounted for as done.                          *)
Outstanding == queue \cup UNION {vChecks[t] : t \in Threads}

(* nTodo is the number of checks still queued or in some thread's batch, so *)
(* "nTodo == 0", on which the master leaves Loop, means that nothing is left *)
(* anywhere, and no check is in two places.                                 *)
TodoCounts ==
  /\ nTodo = Cardinality(Outstanding)
  /\ \A t \in Threads : vChecks[t] \cap queue = {}
  /\ \A t, u \in Threads : t # u => vChecks[t] \cap vChecks[u] = {}

(* "guarantees the passed queue is finished before continuing"              *)
(* (CCheckQueueControl): when the controller is gone, on the normal path, on *)
(* an early return or after an interruption, no check of the block is left  *)
(* in the queue or in a worker, and a failure does not leak into the next   *)
(* block's fAllOk (the constructor's second and third assertions).          *)
QueueFinished ==
  pc[Master] = "out" =>
    /\ nTodo = 0 /\ fAllOk
    /\ queue = {} /\ \A t \in Threads : vChecks[t] = {}

(* Wait answers true exactly when no check added for this block fails,      *)
(* whichever threads ran them and whatever they skipped.                    *)
WaitAnswer ==
  pc[Master] = "out" => (ret <=> added \cap FailingChecks = {})

(* The constructor's first assertion, as it holds when it is read under the *)
(* mutex: between blocks every thread counted in nTotal is counted in nIdle, *)
(* interrupted threads included.                                            *)
IdleBetweenBlocks ==
  (pc[Master] = "out" /\ MutexFree) => nTotal = nIdle

(* A master that called Wait gets its answer: no wake-up is lost, whatever  *)
(* the workers do, spurious wake-ups and interruptions included.            *)
WaitReturns ==
  pc[Master] = "enter" ~> pc[Master] = "out"

-----------------------------------------------------------------------------
(* The inductive invariant behind the safety properties. *)

(* What the program counters say about batches.                             *)
Phases ==
  /\ \A w \in Workers : pc[w] \notin {"out", "adding"}
  /\ pc[Master] # "dead"
  /\ \A t \in Threads : vChecks[t] # {} => pc[t] \in {"work", "enter"}
  /\ \A t \in Threads : pc[t] = "work" => vChecks[t] # {}

(* Somebody knows of a failed check: fAllOk, or a thread that has not yet   *)
(* merged its local result.                                                 *)
FailureSeen == ~fAllOk \/ \E t \in Threads : vChecks[t] # {} /\ ~fOk[t]

(* A failing check that has been taken and run is never forgotten.          *)
Unrun(c) == c \in queue \/ \E t \in Threads : c \in vChecks[t] /\ pc[t] = "work"

NoFailureLost ==
  pc[Master] # "out" => \A c \in added \cap FailingChecks : Unrun(c) \/ FailureSeen

NoFailureInvented == FailureSeen => added \cap FailingChecks # {}

QueueInv ==
  /\ QueueTypes /\ Phases /\ TodoCounts
  /\ Outstanding \subseteq added
  /\ NoFailureLost /\ NoFailureInvented
  /\ QueueFinished /\ WaitAnswer

(* The threads that are in Loop and not idle.                               *)
Busy == {t \in Threads : pc[t] \in {"locked", "work"} \/ vChecks[t] # {}}

(* They are what nTotal counts and nIdle does not: an interrupted thread is *)
(* counted in both for ever.                                                *)
BusyCounted == nTotal = nIdle + Cardinality(Busy)
=============================================================================
