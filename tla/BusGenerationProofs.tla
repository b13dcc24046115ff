------------------------ MODULE BusGenerationProofs ------------------------
(***************************************************************************)
(* Proofs about the cached bus generation, for any number of threads.      *)
(***************************************************************************)
EXTENDS BusGeneration, TLAPS

Places == {"idle", "query", "store", "rearm", "stamp", "submit",
           "requery", "restore", "giveUp", "restamp", "resubmit", "rejected"}

Types ==
  /\ busGen \in Generations /\ gen \in Generations
  /\ untold \in BOOLEAN /\ pending \in BOOLEAN /\ overlapped \in BOOLEAN
  /\ pc \in [Thread -> Places]
  /\ answer \in [Thread -> Generations] /\ stamp \in [Thread -> Generations]
  /\ unrefreshed \in [Thread -> BOOLEAN] /\ alone \in [Thread -> BOOLEAN]

(* A transfer that is alone has the bus's generation in hand from its      *)
(* second query on, and gave up only because that query failed.            *)
Retries ==
  /\ \A s, t \in Thread : alone[t] /\ pc[t] # "idle" /\ pc[s] # "idle" => s = t
  /\ \A t \in Thread : pc[t] = "giveUp" => unrefreshed[t]
  /\ \A t \in Thread : alone[t] =>
       /\ pc[t] = "restore" => answer[t] = busGen
       /\ pc[t] = "restamp" => gen = busGen
       /\ pc[t] = "resubmit" => stamp[t] = busGen
       /\ pc[t] = "rejected" => unrefreshed[t]

(* One transfer at a time: with no reset left to hear of and no flag set,  *)
(* what it stores is current, and so is what is stored unless it is        *)
(* refreshing it.                                                          *)
Flags ==
  ~overlapped =>
    /\ \A s, t \in Thread : pc[s] # "idle" /\ pc[t] # "idle" => s = t
    /\ ~untold /\ ~pending =>
         /\ \A t \in Thread : pc[t] \in {"store", "restore"} => answer[t] = busGen
         /\ gen = busGen \/ \E t \in Thread : pc[t] \in {"query", "store", "rearm"}

GenInv == Types /\ Retries /\ Flags
-----------------------------------------------------------------------------

(* Every step keeps the types. *)
LEMMA KeepsTypes ==
  ASSUME GenInv, Next
  PROVE  Types'
<1>1. CASE BusReset
  BY <1>1, GenerationAssumption DEF GenInv, Types, Places, Generations, BusReset, threadVars
<1>2. CASE BusResetRoutine
  BY <1>2 DEF GenInv, Types, Places, Generations, BusResetRoutine, threadVars, history
<1>3. ASSUME NEW t \in Thread, Begin(t) PROVE Types'
  BY <1>3 DEF GenInv, Types, Places, Generations, Begin, Running, Goto, history
<1>4. ASSUME NEW t \in Thread, Query(t) PROVE Types'
  BY <1>4 DEF GenInv, Types, Places, Generations, Query, Goto, history
<1>5. ASSUME NEW t \in Thread, Store(t) PROVE Types'
  BY <1>5 DEF GenInv, Types, Places, Generations, Store, Goto, history
<1>6. ASSUME NEW t \in Thread, Rearm(t) PROVE Types'
  BY <1>6 DEF GenInv, Types, Places, Generations, Rearm, Goto, history
<1>7. ASSUME NEW t \in Thread, Stamp(t) PROVE Types'
  BY <1>7 DEF GenInv, Types, Places, Generations, Stamp, Goto, history
<1>8. ASSUME NEW t \in Thread, Submit(t) PROVE Types'
  BY <1>8 DEF GenInv, Types, Places, Generations, Submit, Rejected, Goto, history
<1>9. ASSUME NEW t \in Thread, Surface(t) PROVE Types'
  BY <1>9 DEF GenInv, Types, Places, Generations, Surface, Goto, history
<1> QED
  BY <1>1, <1>2, <1>3, <1>4, <1>5, <1>6, <1>7, <1>8, <1>9 DEF Next, Transfer

(* Every step keeps what a transfer alone knows. *)
LEMMA KeepsRetries ==
  ASSUME GenInv, Next
  PROVE  Retries'
<1>1. CASE BusReset
  BY <1>1, GenerationAssumption DEF GenInv, Types, Places, Retries, BusReset, threadVars
<1>2. CASE BusResetRoutine
  BY <1>2 DEF GenInv, Types, Places, Retries, BusResetRoutine, threadVars, history
<1>3. ASSUME NEW t \in Thread, Begin(t) PROVE Retries'
  BY <1>3 DEF GenInv, Types, Places, Retries, Begin, Running, Goto, history
<1>4. ASSUME NEW t \in Thread, Query(t) PROVE Retries'
  BY <1>4 DEF GenInv, Types, Places, Retries, Query, Goto, history
<1>5. ASSUME NEW t \in Thread, Store(t) PROVE Retries'
  BY <1>5 DEF GenInv, Types, Places, Retries, Store, Goto, history
<1>6. ASSUME NEW t \in Thread, Rearm(t) PROVE Retries'
  BY <1>6 DEF GenInv, Types, Places, Retries, Rearm, Goto, history
<1>7. ASSUME NEW t \in Thread, Stamp(t) PROVE Retries'
  BY <1>7 DEF GenInv, Types, Places, Retries, Stamp, Goto, history
<1>8. ASSUME NEW t \in Thread, Submit(t) PROVE Retries'
  BY <1>8 DEF GenInv, Types, Places, Retries, Submit, Rejected, Goto, history
<1>9. ASSUME NEW t \in Thread, Surface(t) PROVE Retries'
  BY <1>9 DEF GenInv, Types, Places, Retries, Surface, Goto, history
<1> QED
  BY <1>1, <1>2, <1>3, <1>4, <1>5, <1>6, <1>7, <1>8, <1>9 DEF Next, Transfer

(* Every step keeps the flag's account of the cached generation. *)
LEMMA KeepsFlags ==
  ASSUME GenInv, Next
  PROVE  Flags'
<1>1. CASE BusReset
  BY <1>1, GenerationAssumption DEF GenInv, Types, Places, Flags, BusReset, threadVars
<1>2. CASE BusResetRoutine
  BY <1>2 DEF GenInv, Types, Places, Flags, BusResetRoutine, threadVars, history
<1>3. ASSUME NEW t \in Thread, Begin(t) PROVE Flags'
  BY <1>3 DEF GenInv, Types, Places, Flags, Begin, Running, Goto, history
<1>4. ASSUME NEW t \in Thread, Query(t) PROVE Flags'
  BY <1>4 DEF GenInv, Types, Places, Flags, Query, Goto, history
<1>5. ASSUME NEW t \in Thread, Store(t) PROVE Flags'
  BY <1>5 DEF GenInv, Types, Places, Flags, Store, Goto, history
<1>6. ASSUME NEW t \in Thread, Rearm(t) PROVE Flags'
  BY <1>6 DEF GenInv, Types, Places, Flags, Rearm, Goto, history
<1>7. ASSUME NEW t \in Thread, Stamp(t) PROVE Flags'
  BY <1>7 DEF GenInv, Types, Places, Flags, Stamp, Goto, history
<1>8. ASSUME NEW t \in Thread, Submit(t) PROVE Flags'
  BY <1>8 DEF GenInv, Types, Places, Flags, Submit, Rejected, Goto, history
<1>9. ASSUME NEW t \in Thread, Surface(t) PROVE Flags'
  BY <1>9 DEF GenInv, Types, Places, Flags, Surface, Goto, history
<1> QED
  BY <1>1, <1>2, <1>3, <1>4, <1>5, <1>6, <1>7, <1>8, <1>9 DEF Next, Transfer
-----------------------------------------------------------------------------
LEMMA GenInit == Init => GenInv
<1> SUFFICES ASSUME Init PROVE GenInv
  OBVIOUS
<1>1. Types
  <2>1. 0 \in Generations
    BY GenerationAssumption DEF Generations
  <2>2. pc \in [Thread -> Places]
    BY DEF Init, Places
  <2> QED
    BY <2>1, <2>2, Zenon DEF Init, Types
<1>2. Retries
  BY DEF Init, Retries
<1>3. Flags
  BY DEF Init, Flags
<1> QED
  BY <1>1, <1>2, <1>3 DEF GenInv

LEMMA GenAlways == Spec => []GenInv
<1>1. GenInv /\ [Next]_vars => GenInv'
  <2> SUFFICES ASSUME GenInv, [Next]_vars PROVE GenInv'
    OBVIOUS
  <2>1. CASE Next
    BY <2>1, KeepsTypes, KeepsRetries, KeepsFlags DEF GenInv
  <2>2. CASE UNCHANGED vars
    BY <2>2 DEF GenInv, Types, Retries, Flags, vars, threadVars, history
  <2> QED
    BY <2>1, <2>2
<1> QED
  BY <1>1, GenInit, PTL DEF Spec

(* p1394.c:713-722: re-arming the flag after a failed refresh keeps a      *)
(* stale generation from going unnoticed while transfers do not overlap.   *)
THEOREM StaleIsFlaggedAlways == Spec => []StaleIsFlagged
<1>1. GenInv => StaleIsFlagged
  BY DEF GenInv, Flags, Running, StaleIsFlagged
<1> QED
  BY <1>1, GenAlways, PTL

(* p1394.c:780-787: the one retry is enough for a transfer that nothing    *)
(* overlaps, whatever stale generation earlier transfers left behind.      *)
THEOREM AloneSucceedsAlways == Spec => []AloneSucceeds
<1>1. GenInv => AloneSucceeds
  BY DEF GenInv, Retries, AloneSucceeds
<1> QED
  BY <1>1, GenAlways, PTL
=============================================================================
