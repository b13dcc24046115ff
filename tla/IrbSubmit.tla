----------------------------- MODULE IrbSubmit -----------------------------
(***************************************************************************)
(* Synchronous IRB submission (photonic/p1394.c) against the bus driver's  *)
(* completions and the teardown of the device (SRB_UNINITIALIZE_DEVICE in  *)
(* photonic/dispatch.c).  A request is one call of PhotonicSubmitIrbEx: a  *)
(* waiter and a completion routine share its block (the sync block and the *)
(* IRP) and the caller's attached memory (MDL and buffers), and whichever  *)
(* exchanges State last frees them.  An abandoned request outlives its     *)
(* call, so every request and every queued run of the control work item    *)
(* holds IrbRemoveLock, which the teardown waits for.                      *)
(*                                                                         *)
(* One action is one interlocked operation, one use of a kernel object or  *)
(* one stretch of code in between that only its own thread can see.        *)
(***************************************************************************)
EXTENDS Integers

CONSTANTS
  Req,       \* requests that can be outstanding at once, one submitter each
  Run,       \* runs of the control work item that can be outstanding at once
  Srb,       \* the teardown, as a holder of the remove lock
  NoReq,
  Attempts   \* tries of Photonic1394DeregisterBusResetNotification

ASSUME IrbAssumption ==
  /\ NoReq \notin Req /\ Req \cap Run = {} /\ Srb \notin Req \cup Run
  /\ Attempts \in Nat \ {0}

VARIABLES
  waiter,      \* where the submitting thread stands
  routine,     \* where the bus driver and the completion routine stand
  state,       \* sync->State
  event,       \* sync->Event
  status,      \* Irp->IoStatus, as the bus driver left it
  withdraws,   \* the request asks the bus driver to drop the callback
  block,       \* the sync block and the IRP are allocated
  attached,    \* so are the caller's Mdl, Buffer and Buffer2
  holders,     \* acquisitions of IrbRemoveLock
  removed,     \* IoReleaseRemoveLockAndWait has begun
  teardown,    \* where SRB_UNINITIALIZE_DEVICE stands
  dereg,       \* the request withdrawing the bus-reset callback
  tries,       \* its attempts that failed
  registered,  \* BusResetRegistered
  callback,    \* the bus driver holds the callback
  queued,      \* ControlWorkQueued
  run          \* where each run stands, from its request on

requestVars == <<waiter, routine, state, event, status, withdraws, block, attached>>
lockVars    == <<holders, removed>>
deregVars   == <<dereg, tries, registered>>
workVars    == <<queued, run>>
vars == <<requestVars, lockVars, teardown, deregVars, callback, workVars>>

Init ==
  /\ waiter = [r \in Req |-> "idle"] /\ routine = [r \in Req |-> "none"]
  /\ state = [r \in Req |-> "pending"] /\ event = [r \in Req |-> FALSE]
  /\ status = [r \in Req |-> "error"] /\ withdraws = [r \in Req |-> FALSE]
  /\ block = [r \in Req |-> FALSE] /\ attached = [r \in Req |-> FALSE]
  /\ holders = {} /\ removed = FALSE
  /\ teardown = "up"
  /\ dereg = NoReq /\ tries = 0 /\ registered = TRUE /\ callback = TRUE
  /\ queued = FALSE /\ run = [w \in Run |-> "idle"]

(* Places of the waiter in which the driver's code is using the block. *)
Waiting == {"wait", "cancelled", "claim", "claimed", "reap"}
-----------------------------------------------------------------------------
(* The submitting thread. *)

(* PhotonicAsyncTransfer allocates what the transfer references, then      *)
(* PhotonicSubmitIrbEx its block.                                          *)
Build(r, withdrawal) ==
  /\ waiter[r] = "idle" /\ routine[r] = "none"
  /\ waiter' = [waiter EXCEPT ![r] = "built"]
  /\ state' = [state EXCEPT ![r] = "pending"]
  /\ event' = [event EXCEPT ![r] = FALSE]
  /\ withdraws' = [withdraws EXCEPT ![r] = withdrawal]
  /\ block' = [block EXCEPT ![r] = TRUE]
  /\ attached' = [attached EXCEPT ![r] = TRUE]
  /\ UNCHANGED <<routine, status>>

(* A freed block holds nothing: its fields go back to what they were. *)
Forget(r) ==
  /\ state' = [state EXCEPT ![r] = "pending"] /\ event' = [event EXCEPT ![r] = FALSE]
  /\ status' = [status EXCEPT ![r] = "error"] /\ withdraws' = [withdraws EXCEPT ![r] = FALSE]

(* The call returns.  Its caller frees the memory it attached unless the   *)
(* request was abandoned; the attempt to deregister counts its failure.    *)
Return(r, ok, abandoned) ==
  /\ waiter' = [waiter EXCEPT ![r] = "idle"]
  /\ attached' = [attached EXCEPT ![r] = abandoned]
  /\ IF r = dereg
     THEN /\ dereg' = NoReq
          /\ registered' = IF ok THEN FALSE ELSE registered
          /\ tries' = IF ok THEN tries ELSE tries + 1
     ELSE UNCHANGED deregVars

Submit(r) ==
  /\ Build(r, FALSE) /\ teardown # "unloaded"
  /\ UNCHANGED <<lockVars, teardown, deregVars, callback, workVars>>

(* No PDO, no memory, or a remove lock whose wait has begun: the request   *)
(* never reaches the bus driver.                                           *)
Refuse(r) ==
  /\ waiter[r] = "built"
  /\ block' = [block EXCEPT ![r] = FALSE]
  /\ Return(r, FALSE, FALSE) /\ Forget(r)
  /\ UNCHANGED <<routine, lockVars, teardown, callback, workVars>>

Call(r) ==
  /\ waiter[r] = "built" /\ ~removed
  /\ holders' = holders \cup {r}
  /\ waiter' = [waiter EXCEPT ![r] = "wait"]
  /\ routine' = [routine EXCEPT ![r] = "bus"]
  /\ UNCHANGED <<state, event, status, withdraws, block, attached, removed,
                 teardown, deregVars, callback, workVars>>

(* KeWaitForSingleObject, the last of the three without a timeout. *)
Wake(r) ==
  /\ waiter[r] \in {"wait", "cancelled", "claimed"} /\ event[r]
  /\ waiter' = [waiter EXCEPT ![r] = "reap"]
  /\ UNCHANGED <<routine, state, event, status, withdraws, block, attached,
                 lockVars, teardown, deregVars, callback, workVars>>

(* Mutant of Bounded: the wait after the cancel has no timeout. *)
BoundedOnce == {"wait"}
Bounded     == {"wait", "cancelled"}

TimeOut(r) ==
  /\ waiter[r] \in Bounded /\ ~event[r]
  /\ waiter' = [waiter EXCEPT ![r] = IF waiter[r] = "wait" THEN "cancelled" ELSE "claim"]
  /\ UNCHANGED <<routine, state, event, status, withdraws, block, attached,
                 lockVars, teardown, deregVars, callback, workVars>>

(* Mutant of LostClaim: the waiter does not wait for the set. *)
LostClaimReaps == "reap"
LostClaim      == "claimed"

(* Mutant of Claim: the waiter that abandons gives the remove lock back. *)
ClaimUnlocks(r) ==
  /\ waiter[r] = "claim"
  /\ state' = [state EXCEPT ![r] = "abandoned"]
  /\ IF state[r] = "completed"
     THEN /\ waiter' = [waiter EXCEPT ![r] = LostClaim]
          /\ UNCHANGED <<attached, deregVars, holders>>
     ELSE Return(r, FALSE, TRUE) /\ holders' = holders \ {r}
  /\ UNCHANGED <<routine, event, status, withdraws, block, removed, teardown,
                 callback, workVars>>

Claim(r) ==
  /\ waiter[r] = "claim"
  /\ state' = [state EXCEPT ![r] = "abandoned"]
  /\ IF state[r] = "completed"
     THEN /\ waiter' = [waiter EXCEPT ![r] = LostClaim]
          /\ UNCHANGED <<attached, deregVars>>
     ELSE Return(r, FALSE, TRUE)
  /\ UNCHANGED <<routine, event, status, withdraws, block, lockVars, teardown,
                 callback, workVars>>

Reap(r) ==
  /\ waiter[r] = "reap"
  /\ block' = [block EXCEPT ![r] = FALSE]
  /\ waiter' = [waiter EXCEPT ![r] = "unlock"]
  /\ UNCHANGED <<routine, state, event, status, withdraws, attached, lockVars,
                 teardown, deregVars, callback, workVars>>

Unlock(r) ==
  /\ waiter[r] = "unlock"
  /\ holders' = holders \ {r}
  /\ Return(r, status[r] = "ok", FALSE) /\ Forget(r)
  /\ UNCHANGED <<routine, block, removed, teardown, callback, workVars>>

Waiter(r) ==
  Submit(r) \/ Refuse(r) \/ Call(r) \/ Wake(r) \/ TimeOut(r) \/ Claim(r) \/ Reap(r) \/ Unlock(r)
-----------------------------------------------------------------------------
(* The bus driver and PhotonicIrbComplete. *)

(* The bus driver is done with the request, or heeds its cancel. *)
Complete(r) ==
  /\ routine[r] = "bus"
  /\ \E s \in {"ok", "error"} :
       /\ status' = [status EXCEPT ![r] = s]
       /\ callback' = (callback /\ ~(withdraws[r] /\ s = "ok"))
  /\ routine' = [routine EXCEPT ![r] = "completing"]
  /\ UNCHANGED <<waiter, state, event, withdraws, block, attached, lockVars,
                 teardown, deregVars, workVars>>

(* Mutant of Verdict: the completion routine always signals. *)
VerdictSignals(r) == "signalling"
Verdict(r)        == IF state[r] = "abandoned" THEN "cleaning" ELSE "signalling"

Exchange(r) ==
  /\ routine[r] = "completing"
  /\ routine' = [routine EXCEPT ![r] = Verdict(r)]
  /\ state' = [state EXCEPT ![r] = "completed"]
  /\ UNCHANGED <<waiter, event, status, withdraws, block, attached, lockVars,
                 teardown, deregVars, callback, workVars>>

Signal(r) ==
  /\ routine[r] = "signalling"
  /\ event' = [event EXCEPT ![r] = TRUE]
  /\ routine' = [routine EXCEPT ![r] = "none"]
  /\ UNCHANGED <<waiter, state, status, withdraws, block, attached, lockVars,
                 teardown, deregVars, callback, workVars>>

(* Mutant of AfterCleanUp: the completion routine keeps the remove lock. *)
AfterCleanUpDone == "none"
AfterCleanUp     == "unlocking"

CleanUp(r) ==
  /\ routine[r] = "cleaning"
  /\ block' = [block EXCEPT ![r] = FALSE]
  /\ attached' = [attached EXCEPT ![r] = FALSE]
  /\ routine' = [routine EXCEPT ![r] = AfterCleanUp]
  /\ UNCHANGED <<waiter, state, event, status, withdraws, lockVars, teardown,
                 deregVars, callback, workVars>>

LastRelease(r) ==
  /\ routine[r] = "unlocking"
  /\ holders' = holders \ {r}
  /\ routine' = [routine EXCEPT ![r] = "none"] /\ Forget(r)
  /\ UNCHANGED <<waiter, block, attached, removed, teardown, deregVars, callback, workVars>>

Routine(r) == Exchange(r) \/ Signal(r) \/ CleanUp(r) \/ LastRelease(r)
-----------------------------------------------------------------------------
(* The control work item: PhotonicCaptureRequestWork and the frame of      *)
(* PhotonicCaptureWorker.                                                  *)

(* Mutant of MayQueue: the coalescing flag is not looked at. *)
MayQueueAlways == TRUE
MayQueue       == ~queued

RequestWork(w) ==
  /\ run[w] = "idle" /\ MayQueue /\ teardown # "unloaded"
  /\ queued' = TRUE
  /\ run' = [run EXCEPT ![w] = "asked"]
  /\ UNCHANGED <<requestVars, lockVars, teardown, deregVars, callback>>

QueueWork(w) ==
  /\ run[w] = "asked"
  /\ IF removed
     THEN /\ queued' = FALSE
          /\ run' = [run EXCEPT ![w] = "idle"]
          /\ UNCHANGED holders
     ELSE /\ holders' = holders \cup {w}
          /\ run' = [run EXCEPT ![w] = "queued"]
          /\ UNCHANGED queued
  /\ UNCHANGED <<requestVars, removed, teardown, deregVars, callback>>

BeginWork(w) ==
  /\ run[w] = "queued"
  /\ queued' = FALSE
  /\ run' = [run EXCEPT ![w] = "running"]
  /\ UNCHANGED <<requestVars, lockVars, teardown, deregVars, callback>>

EndWork(w) ==
  /\ run[w] = "running"
  /\ holders' = holders \ {w}
  /\ run' = [run EXCEPT ![w] = "idle"]
  /\ UNCHANGED <<requestVars, removed, teardown, deregVars, callback, queued>>

Work(w) == RequestWork(w) \/ QueueWork(w) \/ BeginWork(w) \/ EndWork(w)
-----------------------------------------------------------------------------
(* SRB_UNINITIALIZE_DEVICE. *)

(* Routing removed and the IOCTL capture slot released; the IRBs that      *)
(* releases it are requests like any other.                                *)
Uninitialize ==
  /\ teardown = "up"
  /\ teardown' = "deregister"
  /\ UNCHANGED <<requestVars, lockVars, deregVars, callback, workVars>>

TriesLeft == tries < Attempts

(* One attempt of Photonic1394DeregisterBusResetNotification. *)
Deregister(r) ==
  /\ teardown = "deregister" /\ dereg = NoReq /\ registered /\ TriesLeft
  /\ Build(r, TRUE)
  /\ dereg' = r
  /\ UNCHANGED <<tries, registered, lockVars, teardown, callback, workVars>>

(* Mutant of WithdrawalOver: one failed attempt is enough. *)
WithdrawalOverOneTry == dereg = NoReq /\ (registered => tries > 0)
WithdrawalOver       == dereg = NoReq /\ (registered => tries = Attempts)

RemoveAndWait ==
  /\ teardown = "deregister" /\ WithdrawalOver
  /\ removed' = TRUE
  /\ teardown' = "wait"
  /\ UNCHANGED <<requestVars, holders, deregVars, callback, workVars>>

(* The wait is over: the work item is freed, the SRB returns and the       *)
(* driver's image may go.                                                  *)
Unload ==
  /\ teardown = "wait" /\ holders = {}
  /\ teardown' = "unloaded"
  /\ UNCHANGED <<requestVars, lockVars, deregVars, callback, workVars>>

Teardown == Uninitialize \/ (\E r \in Req : Deregister(r)) \/ RemoveAndWait \/ Unload
-----------------------------------------------------------------------------
Next ==
  \/ \E r \in Req : Waiter(r) \/ Complete(r) \/ Routine(r)
  \/ \E w \in Run : Work(w)
  \/ Teardown

(* Every thread that is running goes on running and timeouts expire.       *)
(* Nothing makes the bus driver complete a request, a client submit one,   *)
(* or the device go away.                                                  *)
Fairness ==
  /\ \A r \in Req : /\ WF_vars(Waiter(r) /\ waiter[r] # "idle")
                    /\ WF_vars(Routine(r))
  /\ \A w \in Run : WF_vars(Work(w) /\ run[w] # "idle")
  /\ SF_vars(\E r \in Req : Deregister(r)) /\ WF_vars(RemoveAndWait) /\ WF_vars(Unload)

Spec == Init /\ [][Next]_vars /\ Fairness
-----------------------------------------------------------------------------
RequestTypeOK ==
  /\ waiter \in [Req -> {"idle", "built", "unlock"} \cup Waiting]
  /\ routine \in [Req -> {"none", "bus", "completing", "signalling", "cleaning", "unlocking"}]
  /\ state \in [Req -> {"pending", "completed", "abandoned"}]
  /\ event \in [Req -> BOOLEAN] /\ status \in [Req -> {"ok", "error"}]
  /\ withdraws \in [Req -> BOOLEAN]
  /\ block \in [Req -> BOOLEAN] /\ attached \in [Req -> BOOLEAN]

TeardownTypeOK ==
  /\ holders \subseteq Req \cup Run /\ removed \in BOOLEAN
  /\ teardown \in {"up", "deregister", "wait", "unloaded"}
  /\ dereg \in Req \cup {NoReq} /\ tries \in 0 .. Attempts
  /\ registered \in BOOLEAN /\ callback \in BOOLEAN

WorkTypeOK ==
  queued \in BOOLEAN /\ run \in [Run -> {"idle", "asked", "queued", "running"}]

(* Every variable holds a value the code can give it. *)
TypeOK == RequestTypeOK /\ TeardownTypeOK /\ WorkTypeOK

(* p1394.c:65-67, 182-186: whoever may still touch a request's memory      *)
(* finds it allocated.  The bus driver and the completion routine use the  *)
(* block until the event is set or the cleanup done, the bus driver the    *)
(* attached memory until it completes, the waiter the block until it frees *)
(* it itself.                                                              *)
NoUseAfterFree ==
  \A r \in Req :
    /\ routine[r] \in {"bus", "completing", "signalling", "cleaning"} => block[r]
    /\ routine[r] \in {"bus", "cleaning"} => attached[r]
    /\ waiter[r] \in Waiting => block[r]
    /\ waiter[r] \in Waiting \cup {"built", "unlock"} => attached[r]

(* p1394.c:178-186: once the call has returned and the request is no       *)
(* longer at the bus, one side has freed the block, one the attached       *)
(* memory, and the remove lock is given back: an abandoned request leaks   *)
(* nothing once it completes.                                              *)
NothingLeaks ==
  \A r \in Req :
    waiter[r] = "idle" /\ routine[r] = "none" => ~block[r] /\ ~attached[r] /\ r \notin holders

(* dispatch.c:405-416, 421-424: once SRB_UNINITIALIZE_DEVICE returns, no   *)
(* completion routine is running or still to come, no thread is inside a   *)
(* submission that reached the bus driver, and the freed work item is      *)
(* neither queued nor executing.                                           *)
UnloadedIsQuiet ==
  teardown = "unloaded" =>
    /\ \A r \in Req : routine[r] = "none" /\ waiter[r] \in {"idle", "built"}
    /\ \A w \in Run : run[w] \notin {"queued", "running"}

(* work.c:263-284: the one work item is never queued while it is queued.   *)
QueuedOnce ==
  \A v, w \in Run : run[v] = "queued" /\ run[w] = "queued" => v = w

(* dispatch.c:411-413: the teardown's own IRB goes out before the lock     *)
(* refuses new ones, and the callback survives into the unloaded driver    *)
(* only after every attempt to withdraw it failed.                         *)
WithdrawnFirst ==
  /\ dereg # NoReq => ~removed
  /\ removed /\ callback => tries = Attempts

(* p1394.c:50-55: a call returns even if the bus driver never completes    *)
(* its request.                                                            *)
SubmitReturns == \A r \in Req : []<>(waiter[r] = "idle")

(* dispatch.c:405-416: if the bus driver completes every request in the    *)
(* end, abandoned ones included, the teardown ends.                        *)
UninitializeReturns ==
  (\A r \in Req : []<>(routine[r] # "bus")) => []<>(teardown \in {"up", "unloaded"})
=============================================================================
