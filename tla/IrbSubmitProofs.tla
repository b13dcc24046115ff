-------------------------- MODULE IrbSubmitProofs --------------------------
(***************************************************************************)
(* Proofs about IRB submission, for any number of requests and work item   *)
(* runs: the safety properties of IrbSubmit follow from where a request's  *)
(* two sides can stand at the same time (Stands), what the work item's     *)
(* runs hold (Works) and how far the teardown has come (Tears).            *)
(***************************************************************************)
EXTENDS IrbSubmit, TLAPS

(* What the block, the attached memory and the remove lock are while the   *)
(* request is held by somebody.                                            *)
Owned(r) == block[r] /\ attached[r] /\ r \in holders
Spent(r) == ~block[r] /\ ~attached[r]

Stands(r) ==
  \/ waiter[r] = "idle" /\ routine[r] = "none" /\ Spent(r) /\ r \notin holders
  \/ /\ waiter[r] = "built" /\ routine[r] = "none" /\ state[r] = "pending" /\ ~event[r]
     /\ block[r] /\ attached[r] /\ r \notin holders
  \/ /\ waiter[r] \in {"wait", "cancelled", "claim"} /\ Owned(r)
     /\ \/ routine[r] \in {"bus", "completing"} /\ state[r] = "pending" /\ ~event[r]
        \/ routine[r] = "signalling" /\ state[r] = "completed" /\ ~event[r]
        \/ routine[r] = "none" /\ state[r] = "completed" /\ event[r]
  \/ /\ waiter[r] = "claimed" /\ Owned(r)
     /\ \/ routine[r] = "signalling" /\ ~event[r]
        \/ routine[r] = "none" /\ event[r]
  \/ waiter[r] = "reap" /\ routine[r] = "none" /\ Owned(r)
  \/ waiter[r] = "unlock" /\ routine[r] = "none" /\ ~block[r] /\ attached[r] /\ r \in holders
  \/ waiter[r] = "idle" /\ routine[r] \in {"bus", "completing"} /\ state[r] = "abandoned" /\ Owned(r)
  \/ waiter[r] = "idle" /\ routine[r] = "cleaning" /\ Owned(r)
  \/ waiter[r] = "idle" /\ routine[r] = "unlocking" /\ Spent(r) /\ r \in holders

(* A run that is queued or executing holds the lock, and the coalescing    *)
(* flag stands for the one run that was asked for and has not begun.       *)
Works ==
  /\ \A w \in Run : w \in holders <=> run[w] \in {"queued", "running"}
  /\ \A w \in Run : run[w] \in {"asked", "queued"} => queued
  /\ \A v, w \in Run : run[v] \in {"asked", "queued"} /\ run[w] \in {"asked", "queued"} => v = w

(* The request that withdraws the callback is still with its caller, and   *)
(* one that went well took the callback with it.                           *)
Withdraws ==
  /\ dereg # NoReq => /\ teardown = "deregister" /\ registered /\ tries < Attempts
                      /\ waiter[dereg] # "idle" /\ withdraws[dereg]
  /\ \A r \in Req :
       /\ withdraws[r] /\ waiter[r] \in Waiting \cup {"unlock"} /\ routine[r] # "bus" /\ status[r] = "ok"
       => ~callback
  /\ callback => registered

Tears ==
  /\ removed <=> teardown \in {"wait", "unloaded"}
  /\ removed /\ registered => tries = Attempts
  /\ teardown = "unloaded" => holders = {}

IrbInv == TypeOK /\ (\A r \in Req : Stands(r)) /\ Works /\ Withdraws /\ Tears
-----------------------------------------------------------------------------

(* Every step keeps the types. *)
LEMMA KeepsType ==
  ASSUME IrbInv, Next
  PROVE  TypeOK'
<1>1. ASSUME NEW r \in Req, Submit(r)
      PROVE  TypeOK'
  BY <1>1, IrbAssumption DEF IrbInv, TypeOK, RequestTypeOK, TeardownTypeOK, WorkTypeOK, Waiting,
       Withdraws, requestVars, lockVars, deregVars, workVars, Submit, Build
<1>2. ASSUME NEW r \in Req, Refuse(r)
      PROVE  TypeOK'
  <2>1. RequestTypeOK'
    BY <1>2, IrbAssumption DEF IrbInv, TypeOK, RequestTypeOK, Waiting, requestVars, lockVars,
         deregVars, workVars, Refuse, Return, Forget
  <2>2. TeardownTypeOK'
    BY <1>2, IrbAssumption DEF IrbInv, TypeOK, TeardownTypeOK, Withdraws, requestVars, lockVars,
         deregVars, workVars, Refuse, Return, Forget
  <2>3. WorkTypeOK'
    BY <1>2, IrbAssumption DEF IrbInv, TypeOK, WorkTypeOK, requestVars, lockVars, deregVars,
         workVars, Refuse, Return, Forget
  <2> QED
    BY <2>1, <2>2, <2>3 DEF TypeOK
<1>3. ASSUME NEW r \in Req, Call(r)
      PROVE  TypeOK'
  BY <1>3, IrbAssumption DEF IrbInv, TypeOK, RequestTypeOK, TeardownTypeOK, WorkTypeOK, Waiting,
       Withdraws, requestVars, lockVars, deregVars, workVars, Call
<1>4. ASSUME NEW r \in Req, Wake(r)
      PROVE  TypeOK'
  BY <1>4, IrbAssumption DEF IrbInv, TypeOK, RequestTypeOK, TeardownTypeOK, WorkTypeOK, Waiting,
       Withdraws, requestVars, lockVars, deregVars, workVars, Wake
<1>5. ASSUME NEW r \in Req, TimeOut(r)
      PROVE  TypeOK'
  BY <1>5, IrbAssumption DEF IrbInv, TypeOK, RequestTypeOK, TeardownTypeOK, WorkTypeOK, Waiting,
       Withdraws, requestVars, lockVars, deregVars, workVars, TimeOut, Bounded
<1>6. ASSUME NEW r \in Req, Claim(r)
      PROVE  TypeOK'
  <2>1. RequestTypeOK'
    BY <1>6, IrbAssumption DEF IrbInv, TypeOK, RequestTypeOK, Waiting, requestVars, lockVars,
         deregVars, workVars, Claim, Return, LostClaim
  <2>2. TeardownTypeOK'
    BY <1>6, IrbAssumption DEF IrbInv, TypeOK, TeardownTypeOK, Withdraws, requestVars, lockVars,
         deregVars, workVars, Claim, Return, LostClaim
  <2>3. WorkTypeOK'
    BY <1>6, IrbAssumption DEF IrbInv, TypeOK, WorkTypeOK, requestVars, lockVars, deregVars,
         workVars, Claim, Return, LostClaim
  <2> QED
    BY <2>1, <2>2, <2>3 DEF TypeOK
<1>7. ASSUME NEW r \in Req, Reap(r)
      PROVE  TypeOK'
  BY <1>7, IrbAssumption DEF IrbInv, TypeOK, RequestTypeOK, TeardownTypeOK, WorkTypeOK, Waiting,
       Withdraws, requestVars, lockVars, deregVars, workVars, Reap
<1>8. ASSUME NEW r \in Req, Unlock(r)
      PROVE  TypeOK'
  <2>1. RequestTypeOK'
    BY <1>8, IrbAssumption DEF IrbInv, TypeOK, RequestTypeOK, Waiting, requestVars, lockVars,
         deregVars, workVars, Unlock, Return, Forget
  <2>2. TeardownTypeOK'
    <3>1. CASE r = dereg /\ status[r] = "ok"
      BY <1>8, <3>1, IrbAssumption DEF IrbInv, TypeOK, TeardownTypeOK, Unlock, Return, Forget
    <3>2. CASE r = dereg /\ status[r] # "ok"
      BY <1>8, <3>2, IrbAssumption DEF IrbInv, TypeOK, TeardownTypeOK, Withdraws, Unlock, Return, Forget
    <3>3. CASE r # dereg
      BY <1>8, <3>3 DEF IrbInv, TypeOK, TeardownTypeOK, deregVars, Unlock, Return, Forget
    <3> QED
      BY <3>1, <3>2, <3>3
  <2>3. WorkTypeOK'
    BY <1>8, IrbAssumption DEF IrbInv, TypeOK, WorkTypeOK, requestVars, lockVars, deregVars,
         workVars, Unlock, Return, Forget
  <2> QED
    BY <2>1, <2>2, <2>3 DEF TypeOK
<1>9. ASSUME NEW r \in Req, Complete(r)
      PROVE  TypeOK'
  BY <1>9, IrbAssumption DEF IrbInv, TypeOK, RequestTypeOK, TeardownTypeOK, WorkTypeOK, Waiting,
       Withdraws, requestVars, lockVars, deregVars, workVars, Complete
<1>10. ASSUME NEW r \in Req, Exchange(r)
      PROVE  TypeOK'
  BY <1>10, IrbAssumption DEF IrbInv, TypeOK, RequestTypeOK, TeardownTypeOK, WorkTypeOK,
       Waiting, Withdraws, requestVars, lockVars, deregVars, workVars, Exchange, Verdict
<1>11. ASSUME NEW r \in Req, Signal(r)
      PROVE  TypeOK'
  BY <1>11, IrbAssumption DEF IrbInv, TypeOK, RequestTypeOK, TeardownTypeOK, WorkTypeOK,
       Waiting, Withdraws, requestVars, lockVars, deregVars, workVars, Signal
<1>12. ASSUME NEW r \in Req, CleanUp(r)
      PROVE  TypeOK'
  BY <1>12, IrbAssumption DEF IrbInv, TypeOK, RequestTypeOK, TeardownTypeOK, WorkTypeOK,
       Waiting, Withdraws, requestVars, lockVars, deregVars, workVars, CleanUp, AfterCleanUp
<1>13. ASSUME NEW r \in Req, LastRelease(r)
      PROVE  TypeOK'
  BY <1>13, IrbAssumption DEF IrbInv, TypeOK, RequestTypeOK, TeardownTypeOK, WorkTypeOK,
       Waiting, Withdraws, requestVars, lockVars, deregVars, workVars, LastRelease, Forget
<1>14. ASSUME NEW w \in Run, RequestWork(w)
      PROVE  TypeOK'
  BY <1>14, IrbAssumption DEF IrbInv, TypeOK, RequestTypeOK, TeardownTypeOK, WorkTypeOK,
       Waiting, Withdraws, requestVars, lockVars, deregVars, workVars, RequestWork, MayQueue
<1>15. ASSUME NEW w \in Run, QueueWork(w)
      PROVE  TypeOK'
  <2>1. RequestTypeOK'
    BY <1>15, IrbAssumption DEF IrbInv, TypeOK, RequestTypeOK, Waiting, requestVars, lockVars,
         deregVars, workVars, QueueWork
  <2>2. TeardownTypeOK'
    BY <1>15, IrbAssumption DEF IrbInv, TypeOK, TeardownTypeOK, Withdraws, requestVars, lockVars,
         deregVars, workVars, QueueWork
  <2>3. WorkTypeOK'
    BY <1>15, IrbAssumption DEF IrbInv, TypeOK, WorkTypeOK, requestVars, lockVars, deregVars,
         workVars, QueueWork
  <2> QED
    BY <2>1, <2>2, <2>3 DEF TypeOK
<1>16. ASSUME NEW w \in Run, BeginWork(w)
      PROVE  TypeOK'
  BY <1>16, IrbAssumption DEF IrbInv, TypeOK, RequestTypeOK, TeardownTypeOK, WorkTypeOK,
       Waiting, Withdraws, requestVars, lockVars, deregVars, workVars, BeginWork
<1>17. ASSUME NEW w \in Run, EndWork(w)
      PROVE  TypeOK'
  BY <1>17, IrbAssumption DEF IrbInv, TypeOK, RequestTypeOK, TeardownTypeOK, WorkTypeOK,
       Waiting, Withdraws, requestVars, lockVars, deregVars, workVars, EndWork
<1>18. CASE Uninitialize
  BY <1>18, IrbAssumption DEF IrbInv, TypeOK, RequestTypeOK, TeardownTypeOK, WorkTypeOK,
       Waiting, Withdraws, requestVars, lockVars, deregVars, workVars, Uninitialize
<1>19. ASSUME NEW r \in Req, Deregister(r)
      PROVE  TypeOK'
  BY <1>19, IrbAssumption DEF IrbInv, TypeOK, RequestTypeOK, TeardownTypeOK, WorkTypeOK,
       Waiting, Withdraws, requestVars, lockVars, deregVars, workVars, Deregister, Build,
       TriesLeft
<1>20. CASE RemoveAndWait
  BY <1>20, IrbAssumption DEF IrbInv, TypeOK, RequestTypeOK, TeardownTypeOK, WorkTypeOK,
       Waiting, Withdraws, requestVars, lockVars, deregVars, workVars, RemoveAndWait,
       WithdrawalOver
<1>21. CASE Unload
  BY <1>21, IrbAssumption DEF IrbInv, TypeOK, RequestTypeOK, TeardownTypeOK, WorkTypeOK,
       Waiting, Withdraws, requestVars, lockVars, deregVars, workVars, Unload
<1> QED
  BY <1>1, <1>2, <1>3, <1>4, <1>5, <1>6, <1>7, <1>8, <1>9, <1>10, <1>11, <1>12, <1>13, <1>14,
       <1>15, <1>16, <1>17, <1>18, <1>19, <1>20, <1>21 DEF Next, Waiter, Routine, Work, Teardown

(* Every step leaves every request where its two sides can stand. *)
LEMMA KeepsStands ==
  ASSUME IrbInv, Next
  PROVE  \A q \in Req : Stands(q)'
<1>1. ASSUME NEW r \in Req, Submit(r)
      PROVE  \A q \in Req : Stands(q)'
  BY <1>1, IrbAssumption DEF IrbInv, TypeOK, RequestTypeOK, TeardownTypeOK, WorkTypeOK, Waiting,
       Stands, Owned, Spent, requestVars, lockVars, deregVars, workVars, Submit, Build
<1>2. ASSUME NEW r \in Req, Refuse(r)
      PROVE  \A q \in Req : Stands(q)'
  BY <1>2, IrbAssumption DEF IrbInv, TypeOK, RequestTypeOK, TeardownTypeOK, WorkTypeOK, Waiting,
       Stands, Owned, Spent, requestVars, lockVars, deregVars, workVars, Refuse, Return, Forget
<1>3. ASSUME NEW r \in Req, Call(r)
      PROVE  \A q \in Req : Stands(q)'
  <2>1. Stands(r)'
    BY <1>3, IrbAssumption DEF IrbInv, TypeOK, RequestTypeOK, TeardownTypeOK, WorkTypeOK, Waiting,
         Stands, Owned, Spent, Call
  <2>2. ASSUME NEW q \in Req, q # r PROVE Stands(q)'
    BY <1>3, <2>2, IrbAssumption DEF IrbInv, TypeOK, RequestTypeOK, TeardownTypeOK, WorkTypeOK,
         Waiting, Stands, Owned, Spent, Call
  <2> QED
    BY <2>1, <2>2
<1>4. ASSUME NEW r \in Req, Wake(r)
      PROVE  \A q \in Req : Stands(q)'
  BY <1>4, IrbAssumption DEF IrbInv, TypeOK, RequestTypeOK, TeardownTypeOK, WorkTypeOK, Waiting,
       Stands, Owned, Spent, requestVars, lockVars, deregVars, workVars, Wake
<1>5. ASSUME NEW r \in Req, TimeOut(r)
      PROVE  \A q \in Req : Stands(q)'
  BY <1>5, IrbAssumption DEF IrbInv, TypeOK, RequestTypeOK, TeardownTypeOK, WorkTypeOK, Waiting,
       Stands, Owned, Spent, requestVars, lockVars, deregVars, workVars, TimeOut, Bounded
<1>6. ASSUME NEW r \in Req, Claim(r)
      PROVE  \A q \in Req : Stands(q)'
  BY <1>6, IrbAssumption DEF IrbInv, TypeOK, RequestTypeOK, TeardownTypeOK, WorkTypeOK, Waiting,
       Stands, Owned, Spent, requestVars, lockVars, deregVars, workVars, Claim, Return,
       LostClaim
<1>7. ASSUME NEW r \in Req, Reap(r)
      PROVE  \A q \in Req : Stands(q)'
  BY <1>7, IrbAssumption DEF IrbInv, TypeOK, RequestTypeOK, TeardownTypeOK, WorkTypeOK, Waiting,
       Stands, Owned, Spent, requestVars, lockVars, deregVars, workVars, Reap
<1>8. ASSUME NEW r \in Req, Unlock(r)
      PROVE  \A q \in Req : Stands(q)'
  BY <1>8, IrbAssumption DEF IrbInv, TypeOK, RequestTypeOK, TeardownTypeOK, WorkTypeOK, Waiting,
       Stands, Owned, Spent, requestVars, lockVars, deregVars, workVars, Unlock, Return, Forget
<1>9. ASSUME NEW r \in Req, Complete(r)
      PROVE  \A q \in Req : Stands(q)'
  BY <1>9, IrbAssumption DEF IrbInv, TypeOK, RequestTypeOK, TeardownTypeOK, WorkTypeOK, Waiting,
       Stands, Owned, Spent, requestVars, lockVars, deregVars, workVars, Complete
<1>10. ASSUME NEW r \in Req, Exchange(r)
      PROVE  \A q \in Req : Stands(q)'
  BY <1>10, IrbAssumption DEF IrbInv, TypeOK, RequestTypeOK, TeardownTypeOK, WorkTypeOK,
       Waiting, Stands, Owned, Spent, requestVars, lockVars, deregVars, workVars, Exchange,
       Verdict
<1>11. ASSUME NEW r \in Req, Signal(r)
      PROVE  \A q \in Req : Stands(q)'
  BY <1>11, IrbAssumption DEF IrbInv, TypeOK, RequestTypeOK, TeardownTypeOK, WorkTypeOK,
       Waiting, Stands, Owned, Spent, requestVars, lockVars, deregVars, workVars, Signal
<1>12. ASSUME NEW r \in Req, CleanUp(r)
      PROVE  \A q \in Req : Stands(q)'
  BY <1>12, IrbAssumption DEF IrbInv, TypeOK, RequestTypeOK, TeardownTypeOK, WorkTypeOK,
       Waiting, Stands, Owned, Spent, requestVars, lockVars, deregVars, workVars, CleanUp,
       AfterCleanUp
<1>13. ASSUME NEW r \in Req, LastRelease(r)
      PROVE  \A q \in Req : Stands(q)'
  BY <1>13, IrbAssumption DEF IrbInv, TypeOK, RequestTypeOK, TeardownTypeOK, WorkTypeOK,
       Waiting, Stands, Owned, Spent, requestVars, lockVars, deregVars, workVars, LastRelease, Forget
<1>14. ASSUME NEW w \in Run, RequestWork(w)
      PROVE  \A q \in Req : Stands(q)'
  BY <1>14, IrbAssumption DEF IrbInv, TypeOK, RequestTypeOK, TeardownTypeOK, WorkTypeOK,
       Waiting, Stands, Owned, Spent, requestVars, lockVars, deregVars, workVars, RequestWork,
       MayQueue
<1>15. ASSUME NEW w \in Run, QueueWork(w)
      PROVE  \A q \in Req : Stands(q)'
  BY <1>15, IrbAssumption DEF IrbInv, TypeOK, RequestTypeOK, TeardownTypeOK, WorkTypeOK,
       Waiting, Stands, Owned, Spent, requestVars, lockVars, deregVars, workVars, QueueWork
<1>16. ASSUME NEW w \in Run, BeginWork(w)
      PROVE  \A q \in Req : Stands(q)'
  BY <1>16, IrbAssumption DEF IrbInv, TypeOK, RequestTypeOK, TeardownTypeOK, WorkTypeOK,
       Waiting, Stands, Owned, Spent, requestVars, lockVars, deregVars, workVars, BeginWork
<1>17. ASSUME NEW w \in Run, EndWork(w)
      PROVE  \A q \in Req : Stands(q)'
  BY <1>17, IrbAssumption DEF IrbInv, TypeOK, RequestTypeOK, TeardownTypeOK, WorkTypeOK,
       Waiting, Stands, Owned, Spent, requestVars, lockVars, deregVars, workVars, EndWork
<1>18. CASE Uninitialize
  BY <1>18, IrbAssumption DEF IrbInv, TypeOK, RequestTypeOK, TeardownTypeOK, WorkTypeOK,
       Waiting, Stands, Owned, Spent, requestVars, lockVars, deregVars, workVars, Uninitialize
<1>19. ASSUME NEW r \in Req, Deregister(r)
      PROVE  \A q \in Req : Stands(q)'
  BY <1>19, IrbAssumption DEF IrbInv, TypeOK, RequestTypeOK, TeardownTypeOK, WorkTypeOK,
       Waiting, Stands, Owned, Spent, requestVars, lockVars, deregVars, workVars, Deregister,
       Build, TriesLeft
<1>20. CASE RemoveAndWait
  BY <1>20, IrbAssumption DEF IrbInv, TypeOK, RequestTypeOK, TeardownTypeOK, WorkTypeOK,
       Waiting, Stands, Owned, Spent, requestVars, lockVars, deregVars, workVars, RemoveAndWait,
       WithdrawalOver
<1>21. CASE Unload
  BY <1>21, IrbAssumption DEF IrbInv, TypeOK, RequestTypeOK, TeardownTypeOK, WorkTypeOK,
       Waiting, Stands, Owned, Spent, requestVars, lockVars, deregVars, workVars, Unload
<1> QED
  BY <1>1, <1>2, <1>3, <1>4, <1>5, <1>6, <1>7, <1>8, <1>9, <1>10, <1>11, <1>12, <1>13, <1>14,
       <1>15, <1>16, <1>17, <1>18, <1>19, <1>20, <1>21 DEF Next, Waiter, Routine, Work, Teardown

(* Every step keeps what the runs of the work item hold. *)
LEMMA KeepsWorks ==
  ASSUME IrbInv, Next
  PROVE  Works'
<1>1. ASSUME NEW r \in Req, Submit(r)
      PROVE  Works'
  BY <1>1, IrbAssumption DEF IrbInv, TypeOK, RequestTypeOK, TeardownTypeOK, WorkTypeOK, Waiting,
       Works, requestVars, lockVars, deregVars, workVars, Submit, Build
<1>2. ASSUME NEW r \in Req, Refuse(r)
      PROVE  Works'
  BY <1>2, IrbAssumption DEF IrbInv, TypeOK, RequestTypeOK, TeardownTypeOK, WorkTypeOK, Waiting,
       Works, requestVars, lockVars, deregVars, workVars, Refuse, Return, Forget
<1>3. ASSUME NEW r \in Req, Call(r)
      PROVE  Works'
  BY <1>3, IrbAssumption DEF IrbInv, TypeOK, RequestTypeOK, TeardownTypeOK, WorkTypeOK, Waiting,
       Works, requestVars, lockVars, deregVars, workVars, Call
<1>4. ASSUME NEW r \in Req, Wake(r)
      PROVE  Works'
  BY <1>4, IrbAssumption DEF IrbInv, TypeOK, RequestTypeOK, TeardownTypeOK, WorkTypeOK, Waiting,
       Works, requestVars, lockVars, deregVars, workVars, Wake
<1>5. ASSUME NEW r \in Req, TimeOut(r)
      PROVE  Works'
  BY <1>5, IrbAssumption DEF IrbInv, TypeOK, RequestTypeOK, TeardownTypeOK, WorkTypeOK, Waiting,
       Works, requestVars, lockVars, deregVars, workVars, TimeOut, Bounded
<1>6. ASSUME NEW r \in Req, Claim(r)
      PROVE  Works'
  BY <1>6, IrbAssumption DEF IrbInv, TypeOK, RequestTypeOK, TeardownTypeOK, WorkTypeOK, Waiting,
       Works, requestVars, lockVars, deregVars, workVars, Claim, Return, LostClaim
<1>7. ASSUME NEW r \in Req, Reap(r)
      PROVE  Works'
  BY <1>7, IrbAssumption DEF IrbInv, TypeOK, RequestTypeOK, TeardownTypeOK, WorkTypeOK, Waiting,
       Works, requestVars, lockVars, deregVars, workVars, Reap
<1>8. ASSUME NEW r \in Req, Unlock(r)
      PROVE  Works'
  BY <1>8, IrbAssumption DEF IrbInv, TypeOK, RequestTypeOK, TeardownTypeOK, WorkTypeOK, Waiting,
       Works, requestVars, lockVars, deregVars, workVars, Unlock, Return, Forget
<1>9. ASSUME NEW r \in Req, Complete(r)
      PROVE  Works'
  BY <1>9, IrbAssumption DEF IrbInv, TypeOK, RequestTypeOK, TeardownTypeOK, WorkTypeOK, Waiting,
       Works, requestVars, lockVars, deregVars, workVars, Complete
<1>10. ASSUME NEW r \in Req, Exchange(r)
      PROVE  Works'
  BY <1>10, IrbAssumption DEF IrbInv, TypeOK, RequestTypeOK, TeardownTypeOK, WorkTypeOK,
       Waiting, Works, requestVars, lockVars, deregVars, workVars, Exchange, Verdict
<1>11. ASSUME NEW r \in Req, Signal(r)
      PROVE  Works'
  BY <1>11, IrbAssumption DEF IrbInv, TypeOK, RequestTypeOK, TeardownTypeOK, WorkTypeOK,
       Waiting, Works, requestVars, lockVars, deregVars, workVars, Signal
<1>12. ASSUME NEW r \in Req, CleanUp(r)
      PROVE  Works'
  BY <1>12, IrbAssumption DEF IrbInv, TypeOK, RequestTypeOK, TeardownTypeOK, WorkTypeOK,
       Waiting, Works, requestVars, lockVars, deregVars, workVars, CleanUp, AfterCleanUp
<1>13. ASSUME NEW r \in Req, LastRelease(r)
      PROVE  Works'
  BY <1>13, IrbAssumption DEF IrbInv, TypeOK, RequestTypeOK, TeardownTypeOK, WorkTypeOK,
       Waiting, Works, requestVars, lockVars, deregVars, workVars, LastRelease, Forget
<1>14. ASSUME NEW w \in Run, RequestWork(w)
      PROVE  Works'
  BY <1>14, IrbAssumption DEF IrbInv, TypeOK, RequestTypeOK, TeardownTypeOK, WorkTypeOK,
       Waiting, Works, requestVars, lockVars, deregVars, workVars, RequestWork, MayQueue
<1>15. ASSUME NEW w \in Run, QueueWork(w)
      PROVE  Works'
  BY <1>15, IrbAssumption DEF IrbInv, TypeOK, RequestTypeOK, TeardownTypeOK, WorkTypeOK,
       Waiting, Works, requestVars, lockVars, deregVars, workVars, QueueWork
<1>16. ASSUME NEW w \in Run, BeginWork(w)
      PROVE  Works'
  BY <1>16, IrbAssumption DEF IrbInv, TypeOK, RequestTypeOK, TeardownTypeOK, WorkTypeOK,
       Waiting, Works, requestVars, lockVars, deregVars, workVars, BeginWork
<1>17. ASSUME NEW w \in Run, EndWork(w)
      PROVE  Works'
  BY <1>17, IrbAssumption DEF IrbInv, TypeOK, RequestTypeOK, TeardownTypeOK, WorkTypeOK,
       Waiting, Works, requestVars, lockVars, deregVars, workVars, EndWork
<1>18. CASE Uninitialize
  BY <1>18, IrbAssumption DEF IrbInv, TypeOK, RequestTypeOK, TeardownTypeOK, WorkTypeOK,
       Waiting, Works, requestVars, lockVars, deregVars, workVars, Uninitialize
<1>19. ASSUME NEW r \in Req, Deregister(r)
      PROVE  Works'
  BY <1>19, IrbAssumption DEF IrbInv, TypeOK, RequestTypeOK, TeardownTypeOK, WorkTypeOK,
       Waiting, Works, requestVars, lockVars, deregVars, workVars, Deregister, Build, TriesLeft
<1>20. CASE RemoveAndWait
  BY <1>20, IrbAssumption DEF IrbInv, TypeOK, RequestTypeOK, TeardownTypeOK, WorkTypeOK,
       Waiting, Works, requestVars, lockVars, deregVars, workVars, RemoveAndWait, WithdrawalOver
<1>21. CASE Unload
  BY <1>21, IrbAssumption DEF IrbInv, TypeOK, RequestTypeOK, TeardownTypeOK, WorkTypeOK,
       Waiting, Works, requestVars, lockVars, deregVars, workVars, Unload
<1> QED
  BY <1>1, <1>2, <1>3, <1>4, <1>5, <1>6, <1>7, <1>8, <1>9, <1>10, <1>11, <1>12, <1>13, <1>14,
       <1>15, <1>16, <1>17, <1>18, <1>19, <1>20, <1>21 DEF Next, Waiter, Routine, Work, Teardown

(* Every step keeps the account of the withdrawal. *)
LEMMA KeepsWithdraws ==
  ASSUME IrbInv, Next
  PROVE  Withdraws'
<1>1. ASSUME NEW r \in Req, Submit(r)
      PROVE  Withdraws'
  BY <1>1, IrbAssumption DEF IrbInv, TypeOK, RequestTypeOK, TeardownTypeOK, WorkTypeOK, Waiting,
       Stands, Withdraws, Tears, requestVars, lockVars, deregVars, workVars, Submit, Build
<1>2. ASSUME NEW r \in Req, Refuse(r)
      PROVE  Withdraws'
  BY <1>2, IrbAssumption DEF IrbInv, TypeOK, RequestTypeOK, TeardownTypeOK, WorkTypeOK, Waiting,
       Stands, Withdraws, Tears, requestVars, lockVars, deregVars, workVars, Refuse, Return, Forget
<1>3. ASSUME NEW r \in Req, Call(r)
      PROVE  Withdraws'
  BY <1>3, IrbAssumption DEF IrbInv, TypeOK, RequestTypeOK, TeardownTypeOK, WorkTypeOK, Waiting,
       Stands, Withdraws, Tears, requestVars, lockVars, deregVars, workVars, Call
<1>4. ASSUME NEW r \in Req, Wake(r)
      PROVE  Withdraws'
  BY <1>4, IrbAssumption DEF IrbInv, TypeOK, RequestTypeOK, TeardownTypeOK, WorkTypeOK, Waiting,
       Stands, Withdraws, Tears, requestVars, lockVars, deregVars, workVars, Wake
<1>5. ASSUME NEW r \in Req, TimeOut(r)
      PROVE  Withdraws'
  BY <1>5, IrbAssumption DEF IrbInv, TypeOK, RequestTypeOK, TeardownTypeOK, WorkTypeOK, Waiting,
       Stands, Withdraws, Tears, requestVars, lockVars, deregVars, workVars, TimeOut, Bounded
<1>6. ASSUME NEW r \in Req, Claim(r)
      PROVE  Withdraws'
  BY <1>6, IrbAssumption DEF IrbInv, TypeOK, RequestTypeOK, TeardownTypeOK, WorkTypeOK, Waiting,
       Stands, Withdraws, Tears, requestVars, lockVars, deregVars, workVars, Claim, Return,
       LostClaim
<1>7. ASSUME NEW r \in Req, Reap(r)
      PROVE  Withdraws'
  BY <1>7, IrbAssumption DEF IrbInv, TypeOK, RequestTypeOK, TeardownTypeOK, WorkTypeOK, Waiting,
       Stands, Withdraws, Tears, requestVars, lockVars, deregVars, workVars, Reap
<1>8. ASSUME NEW r \in Req, Unlock(r)
      PROVE  Withdraws'
  <2>1. CASE r = dereg /\ status[r] = "ok"
    <3>1. ~callback
      BY <1>8, <2>1, IrbAssumption DEF IrbInv, Stands, Owned, Spent, Withdraws, Unlock
    <3> QED
      BY <1>8, <2>1, <3>1, IrbAssumption DEF IrbInv, TypeOK, RequestTypeOK, Withdraws, Unlock, Return, Forget
  <2>2. CASE r = dereg /\ status[r] # "ok"
    BY <1>8, <2>2, IrbAssumption DEF IrbInv, TypeOK, RequestTypeOK, Withdraws, Waiting, Unlock, Return, Forget
  <2>3. CASE r # dereg
    BY <1>8, <2>3 DEF IrbInv, TypeOK, RequestTypeOK, Withdraws, Waiting, deregVars, Unlock, Return, Forget
  <2> QED
    BY <2>1, <2>2, <2>3
<1>9. ASSUME NEW r \in Req, Complete(r)
      PROVE  Withdraws'
  BY <1>9, IrbAssumption DEF IrbInv, TypeOK, RequestTypeOK, TeardownTypeOK, WorkTypeOK, Waiting,
       Stands, Withdraws, Tears, requestVars, lockVars, deregVars, workVars, Complete
<1>10. ASSUME NEW r \in Req, Exchange(r)
      PROVE  Withdraws'
  BY <1>10, IrbAssumption DEF IrbInv, TypeOK, RequestTypeOK, TeardownTypeOK, WorkTypeOK,
       Waiting, Stands, Withdraws, Tears, requestVars, lockVars, deregVars, workVars, Exchange,
       Verdict
<1>11. ASSUME NEW r \in Req, Signal(r)
      PROVE  Withdraws'
  BY <1>11, IrbAssumption DEF IrbInv, TypeOK, RequestTypeOK, TeardownTypeOK, WorkTypeOK,
       Waiting, Stands, Withdraws, Tears, requestVars, lockVars, deregVars, workVars, Signal
<1>12. ASSUME NEW r \in Req, CleanUp(r)
      PROVE  Withdraws'
  BY <1>12, IrbAssumption DEF IrbInv, TypeOK, RequestTypeOK, TeardownTypeOK, WorkTypeOK,
       Waiting, Stands, Withdraws, Tears, requestVars, lockVars, deregVars, workVars, CleanUp,
       AfterCleanUp
<1>13. ASSUME NEW r \in Req, LastRelease(r)
      PROVE  Withdraws'
  BY <1>13, IrbAssumption DEF IrbInv, TypeOK, RequestTypeOK, TeardownTypeOK, WorkTypeOK,
       Waiting, Stands, Withdraws, Tears, requestVars, lockVars, deregVars, workVars,
       LastRelease, Forget
<1>14. ASSUME NEW w \in Run, RequestWork(w)
      PROVE  Withdraws'
  BY <1>14, IrbAssumption DEF IrbInv, TypeOK, RequestTypeOK, TeardownTypeOK, WorkTypeOK,
       Waiting, Stands, Withdraws, Tears, requestVars, lockVars, deregVars, workVars,
       RequestWork, MayQueue
<1>15. ASSUME NEW w \in Run, QueueWork(w)
      PROVE  Withdraws'
  BY <1>15, IrbAssumption DEF IrbInv, TypeOK, RequestTypeOK, TeardownTypeOK, WorkTypeOK,
       Waiting, Stands, Withdraws, Tears, requestVars, lockVars, deregVars, workVars, QueueWork
<1>16. ASSUME NEW w \in Run, BeginWork(w)
      PROVE  Withdraws'
  BY <1>16, IrbAssumption DEF IrbInv, TypeOK, RequestTypeOK, TeardownTypeOK, WorkTypeOK,
       Waiting, Stands, Withdraws, Tears, requestVars, lockVars, deregVars, workVars, BeginWork
<1>17. ASSUME NEW w \in Run, EndWork(w)
      PROVE  Withdraws'
  BY <1>17, IrbAssumption DEF IrbInv, TypeOK, RequestTypeOK, TeardownTypeOK, WorkTypeOK,
       Waiting, Stands, Withdraws, Tears, requestVars, lockVars, deregVars, workVars, EndWork
<1>18. CASE Uninitialize
  BY <1>18, IrbAssumption DEF IrbInv, TypeOK, RequestTypeOK, TeardownTypeOK, WorkTypeOK,
       Waiting, Stands, Withdraws, Tears, requestVars, lockVars, deregVars, workVars,
       Uninitialize
<1>19. ASSUME NEW r \in Req, Deregister(r)
      PROVE  Withdraws'
  BY <1>19, IrbAssumption DEF IrbInv, TypeOK, RequestTypeOK, TeardownTypeOK, WorkTypeOK,
       Waiting, Stands, Withdraws, Tears, requestVars, lockVars, deregVars, workVars,
       Deregister, Build, TriesLeft
<1>20. CASE RemoveAndWait
  BY <1>20, IrbAssumption DEF IrbInv, TypeOK, RequestTypeOK, TeardownTypeOK, WorkTypeOK,
       Waiting, Stands, Withdraws, Tears, requestVars, lockVars, deregVars, workVars,
       RemoveAndWait, WithdrawalOver
<1>21. CASE Unload
  BY <1>21, IrbAssumption DEF IrbInv, TypeOK, RequestTypeOK, TeardownTypeOK, WorkTypeOK,
       Waiting, Stands, Withdraws, Tears, requestVars, lockVars, deregVars, workVars, Unload
<1> QED
  BY <1>1, <1>2, <1>3, <1>4, <1>5, <1>6, <1>7, <1>8, <1>9, <1>10, <1>11, <1>12, <1>13, <1>14,
       <1>15, <1>16, <1>17, <1>18, <1>19, <1>20, <1>21 DEF Next, Waiter, Routine, Work, Teardown

(* Every step keeps how far the teardown has come. *)
LEMMA KeepsTears ==
  ASSUME IrbInv, Next
  PROVE  Tears'
<1>1. ASSUME NEW r \in Req, Submit(r)
      PROVE  Tears'
  BY <1>1, IrbAssumption DEF IrbInv, TypeOK, RequestTypeOK, TeardownTypeOK, WorkTypeOK, Waiting,
       Withdraws, Tears, requestVars, lockVars, deregVars, workVars, Submit, Build
<1>2. ASSUME NEW r \in Req, Refuse(r)
      PROVE  Tears'
  BY <1>2, IrbAssumption DEF IrbInv, TypeOK, RequestTypeOK, TeardownTypeOK, WorkTypeOK, Waiting,
       Withdraws, Tears, requestVars, lockVars, deregVars, workVars, Refuse, Return, Forget
<1>3. ASSUME NEW r \in Req, Call(r)
      PROVE  Tears'
  BY <1>3, IrbAssumption DEF IrbInv, TypeOK, RequestTypeOK, TeardownTypeOK, WorkTypeOK, Waiting,
       Withdraws, Tears, requestVars, lockVars, deregVars, workVars, Call
<1>4. ASSUME NEW r \in Req, Wake(r)
      PROVE  Tears'
  BY <1>4, IrbAssumption DEF IrbInv, TypeOK, RequestTypeOK, TeardownTypeOK, WorkTypeOK, Waiting,
       Withdraws, Tears, requestVars, lockVars, deregVars, workVars, Wake
<1>5. ASSUME NEW r \in Req, TimeOut(r)
      PROVE  Tears'
  BY <1>5, IrbAssumption DEF IrbInv, TypeOK, RequestTypeOK, TeardownTypeOK, WorkTypeOK, Waiting,
       Withdraws, Tears, requestVars, lockVars, deregVars, workVars, TimeOut, Bounded
<1>6. ASSUME NEW r \in Req, Claim(r)
      PROVE  Tears'
  BY <1>6, IrbAssumption DEF IrbInv, TypeOK, RequestTypeOK, TeardownTypeOK, WorkTypeOK, Waiting,
       Withdraws, Tears, requestVars, lockVars, deregVars, workVars, Claim, Return, LostClaim
<1>7. ASSUME NEW r \in Req, Reap(r)
      PROVE  Tears'
  BY <1>7, IrbAssumption DEF IrbInv, TypeOK, RequestTypeOK, TeardownTypeOK, WorkTypeOK, Waiting,
       Withdraws, Tears, requestVars, lockVars, deregVars, workVars, Reap
<1>8. ASSUME NEW r \in Req, Unlock(r)
      PROVE  Tears'
  BY <1>8, IrbAssumption DEF IrbInv, TypeOK, RequestTypeOK, TeardownTypeOK, WorkTypeOK, Waiting,
       Withdraws, Tears, requestVars, lockVars, deregVars, workVars, Unlock, Return, Forget
<1>9. ASSUME NEW r \in Req, Complete(r)
      PROVE  Tears'
  BY <1>9, IrbAssumption DEF IrbInv, TypeOK, RequestTypeOK, TeardownTypeOK, WorkTypeOK, Waiting,
       Withdraws, Tears, requestVars, lockVars, deregVars, workVars, Complete
<1>10. ASSUME NEW r \in Req, Exchange(r)
      PROVE  Tears'
  BY <1>10, IrbAssumption DEF IrbInv, TypeOK, RequestTypeOK, TeardownTypeOK, WorkTypeOK,
       Waiting, Withdraws, Tears, requestVars, lockVars, deregVars, workVars, Exchange, Verdict
<1>11. ASSUME NEW r \in Req, Signal(r)
      PROVE  Tears'
  BY <1>11, IrbAssumption DEF IrbInv, TypeOK, RequestTypeOK, TeardownTypeOK, WorkTypeOK,
       Waiting, Withdraws, Tears, requestVars, lockVars, deregVars, workVars, Signal
<1>12. ASSUME NEW r \in Req, CleanUp(r)
      PROVE  Tears'
  BY <1>12, IrbAssumption DEF IrbInv, TypeOK, RequestTypeOK, TeardownTypeOK, WorkTypeOK,
       Waiting, Withdraws, Tears, requestVars, lockVars, deregVars, workVars, CleanUp,
       AfterCleanUp
<1>13. ASSUME NEW r \in Req, LastRelease(r)
      PROVE  Tears'
  BY <1>13, IrbAssumption DEF IrbInv, TypeOK, RequestTypeOK, TeardownTypeOK, WorkTypeOK,
       Waiting, Withdraws, Tears, requestVars, lockVars, deregVars, workVars, LastRelease, Forget
<1>14. ASSUME NEW w \in Run, RequestWork(w)
      PROVE  Tears'
  BY <1>14, IrbAssumption DEF IrbInv, TypeOK, RequestTypeOK, TeardownTypeOK, WorkTypeOK,
       Waiting, Withdraws, Tears, requestVars, lockVars, deregVars, workVars, RequestWork,
       MayQueue
<1>15. ASSUME NEW w \in Run, QueueWork(w)
      PROVE  Tears'
  BY <1>15, IrbAssumption DEF IrbInv, TypeOK, RequestTypeOK, TeardownTypeOK, WorkTypeOK,
       Waiting, Withdraws, Tears, requestVars, lockVars, deregVars, workVars, QueueWork
<1>16. ASSUME NEW w \in Run, BeginWork(w)
      PROVE  Tears'
  BY <1>16, IrbAssumption DEF IrbInv, TypeOK, RequestTypeOK, TeardownTypeOK, WorkTypeOK,
       Waiting, Withdraws, Tears, requestVars, lockVars, deregVars, workVars, BeginWork
<1>17. ASSUME NEW w \in Run, EndWork(w)
      PROVE  Tears'
  BY <1>17, IrbAssumption DEF IrbInv, TypeOK, RequestTypeOK, TeardownTypeOK, WorkTypeOK,
       Waiting, Withdraws, Tears, requestVars, lockVars, deregVars, workVars, EndWork
<1>18. CASE Uninitialize
  BY <1>18, IrbAssumption DEF IrbInv, TypeOK, RequestTypeOK, TeardownTypeOK, WorkTypeOK,
       Waiting, Withdraws, Tears, requestVars, lockVars, deregVars, workVars, Uninitialize
<1>19. ASSUME NEW r \in Req, Deregister(r)
      PROVE  Tears'
  BY <1>19, IrbAssumption DEF IrbInv, TypeOK, RequestTypeOK, TeardownTypeOK, WorkTypeOK,
       Waiting, Withdraws, Tears, requestVars, lockVars, deregVars, workVars, Deregister, Build,
       TriesLeft
<1>20. CASE RemoveAndWait
  BY <1>20, IrbAssumption DEF IrbInv, TypeOK, RequestTypeOK, TeardownTypeOK, WorkTypeOK,
       Waiting, Withdraws, Tears, requestVars, lockVars, deregVars, workVars, RemoveAndWait,
       WithdrawalOver
<1>21. CASE Unload
  BY <1>21, IrbAssumption DEF IrbInv, TypeOK, RequestTypeOK, TeardownTypeOK, WorkTypeOK,
       Waiting, Withdraws, Tears, requestVars, lockVars, deregVars, workVars, Unload
<1> QED
  BY <1>1, <1>2, <1>3, <1>4, <1>5, <1>6, <1>7, <1>8, <1>9, <1>10, <1>11, <1>12, <1>13, <1>14,
       <1>15, <1>16, <1>17, <1>18, <1>19, <1>20, <1>21 DEF Next, Waiter, Routine, Work, Teardown
-----------------------------------------------------------------------------
LEMMA IrbInit == Init => IrbInv
<1> SUFFICES ASSUME Init PROVE IrbInv
  OBVIOUS
<1>1. TypeOK
  <2>1. RequestTypeOK
    BY DEF Init, RequestTypeOK
  <2>2. TeardownTypeOK
    <3>1. tries \in 0 .. Attempts
      BY IrbAssumption DEF Init
    <3> QED
      BY <3>1, Zenon DEF Init, TeardownTypeOK
  <2>3. WorkTypeOK
    BY DEF Init, WorkTypeOK
  <2> QED
    BY <2>1, <2>2, <2>3 DEF TypeOK
<1>2. \A r \in Req : Stands(r)
  BY DEF Init, Stands, Spent
<1>3. Works
  BY DEF Init, Works
<1>4. Withdraws
  BY DEF Init, Withdraws, Waiting
<1>5. Tears
  BY DEF Init, Tears
<1> QED
  BY <1>1, <1>2, <1>3, <1>4, <1>5 DEF IrbInv

LEMMA IrbStep == IrbInv /\ [Next]_vars => IrbInv'
<1> SUFFICES ASSUME IrbInv, [Next]_vars PROVE IrbInv'
  OBVIOUS
<1>1. CASE Next
  BY <1>1, KeepsType, KeepsStands, KeepsWorks, KeepsWithdraws, KeepsTears DEF IrbInv
<1>2. CASE UNCHANGED vars
  BY <1>2 DEF IrbInv, TypeOK, RequestTypeOK, TeardownTypeOK, WorkTypeOK, Stands, Owned, Spent, Works,
      Withdraws, Tears, vars, requestVars, lockVars, deregVars, workVars
<1> QED
  BY <1>1, <1>2

LEMMA IrbAlways == Spec => []IrbInv
  BY IrbInit, IrbStep, PTL DEF Spec

(* Types: what each variable of IRB submission holds. *)
THEOREM IrbTypeCorrect == Spec => []TypeOK
  BY IrbAlways, PTL DEF IrbInv

(* The handshake of p1394.c:109-148 and 267-319: no side of a request      *)
(* reaches memory the other has freed, whatever the order of completion,   *)
(* timeout, cancel and abandonment.                                        *)
THEOREM NoUseAfterFreeAlways == Spec => []NoUseAfterFree
<1>1. IrbInv => NoUseAfterFree
  BY DEF IrbInv, TypeOK, RequestTypeOK, Stands, Owned, Spent, NoUseAfterFree, Waiting
<1> QED
  BY <1>1, IrbAlways, PTL

(* The same handshake frees everything exactly once the request is over.   *)
THEOREM NothingLeaksAlways == Spec => []NothingLeaks
<1>1. IrbInv => NothingLeaks
  BY DEF IrbInv, TypeOK, RequestTypeOK, Stands, Owned, Spent, NothingLeaks, Waiting
<1> QED
  BY <1>1, IrbAlways, PTL

(* dispatch.c:405-424: the remove-lock wait covers abandoned requests and  *)
(* work item runs, so nothing of the driver runs once the SRB returned.    *)
THEOREM UnloadedIsQuietAlways == Spec => []UnloadedIsQuiet
<1>1. IrbInv => UnloadedIsQuiet
  <2> SUFFICES ASSUME IrbInv, teardown = "unloaded"
               PROVE  /\ \A r \in Req : routine[r] = "none" /\ waiter[r] \in {"idle", "built"}
                      /\ \A w \in Run : run[w] \notin {"queued", "running"}
    BY DEF UnloadedIsQuiet
  <2>1. holders = {}
    BY DEF IrbInv, Tears
  <2>2. \A r \in Req : routine[r] = "none" /\ waiter[r] \in {"idle", "built"}
    BY <2>1 DEF IrbInv, Stands, Owned, Spent
  <2>3. \A w \in Run : run[w] \notin {"queued", "running"}
    BY <2>1 DEF IrbInv, Works
  <2> QED
    BY <2>2, <2>3
<1> QED
  BY <1>1, IrbAlways, PTL

(* work.c:263-284: the coalescing flag keeps the work item from being      *)
(* queued while it is queued.                                              *)
THEOREM QueuedOnceAlways == Spec => []QueuedOnce
<1>1. IrbInv => QueuedOnce
  BY DEF IrbInv, Works, QueuedOnce
<1> QED
  BY <1>1, IrbAlways, PTL

(* dispatch.c:405-413: the teardown's own submissions come before the wait *)
(* that refuses them.                                                      *)
THEOREM WithdrawnFirstAlways == Spec => []WithdrawnFirst
<1>1. IrbInv => WithdrawnFirst
  BY DEF IrbInv, Withdraws, Tears, WithdrawnFirst
<1> QED
  BY <1>1, IrbAlways, PTL
=============================================================================
