--------------------------- MODULE BusGeneration ---------------------------
(***************************************************************************)
(* Async transactions and the bus generation (PhotonicAsyncTransfer and    *)
(* PhotonicQueryGenerationCount in photonic/p1394.c).  Threads that read   *)
(* and write camera registers share the cached generation and the flag the *)
(* bus-reset callback sets, with no lock: property requests run beside the *)
(* holder of InterfaceMutex.  The bus driver rejects a transaction stamped *)
(* with another generation than the bus has when it handles it.            *)
(*                                                                         *)
(* A submission is one step here: what can interrupt it is in IrbSubmit.   *)
(***************************************************************************)
EXTENDS Naturals, FiniteSets

CONSTANTS
  Thread,    \* threads that issue register transactions
  MaxResets  \* bound: bus resets

ASSUME GenerationAssumption == MaxResets \in Nat

VARIABLES
  busGen,    \* the bus's generation
  untold,    \* a reset whose callback has not run yet
  pending,   \* BusResetPending
  gen,       \* Extension->BusGeneration
  pc,        \* where each thread stands in PhotonicAsyncTransfer
  answer,    \* what its generation query returned
  stamp,     \* the generation in its IRB
  (* History: what happened around each transfer. *)
  unrefreshed, \* its own query failed
  alone,       \* no other transfer and no bus reset overlapped it
  overlapped   \* two transfers have overlapped

threadVars == <<pc, answer, stamp>>
history    == <<unrefreshed, alone, overlapped>>
vars == <<busGen, untold, pending, gen, threadVars, history>>

Generations == 0 .. MaxResets

Init ==
  /\ busGen = 0 /\ gen = 0
  /\ untold = FALSE /\ pending = FALSE
  /\ pc = [t \in Thread |-> "idle"]
  /\ answer = [t \in Thread |-> 0] /\ stamp = [t \in Thread |-> 0]
  /\ unrefreshed = [t \in Thread |-> FALSE] /\ alone = [t \in Thread |-> FALSE]
  /\ overlapped = FALSE

Running == {t \in Thread : pc[t] # "idle"}
Goto(t, place) == pc' = [pc EXCEPT ![t] = place]
-----------------------------------------------------------------------------
(* The bus resets, then the bus driver calls PhotonicBusResetRoutine. *)
BusReset ==
  /\ busGen < MaxResets
  /\ busGen' = busGen + 1
  /\ untold' = TRUE
  /\ alone' = [t \in Thread |-> FALSE]
  /\ UNCHANGED <<pending, gen, threadVars, unrefreshed, overlapped>>

BusResetRoutine ==
  /\ untold
  /\ untold' = FALSE
  /\ pending' = TRUE
  /\ UNCHANGED <<busGen, gen, threadVars, history>>
-----------------------------------------------------------------------------
(* PhotonicAsyncTransfer. *)

(* The interlocked exchange that consumes the flag. *)
Begin(t) ==
  /\ pc[t] = "idle"
  /\ Goto(t, IF pending THEN "query" ELSE "stamp")
  /\ pending' = FALSE
  /\ unrefreshed' = [unrefreshed EXCEPT ![t] = FALSE]
  /\ alone' = [s \in Thread |-> IF s = t THEN Running = {} ELSE FALSE]
  /\ overlapped' = (overlapped \/ Running # {})
  /\ UNCHANGED <<busGen, untold, gen, answer, stamp>>

(* The query's round trip; the answer is stored only once the thread runs  *)
(* again.                                                                  *)
Query(t) ==
  /\ pc[t] \in {"query", "requery"}
  /\ \/ /\ answer' = [answer EXCEPT ![t] = busGen]
        /\ Goto(t, IF pc[t] = "query" THEN "store" ELSE "restore")
        /\ UNCHANGED unrefreshed
     \/ /\ Goto(t, IF pc[t] = "query" THEN "rearm" ELSE "giveUp")
        /\ unrefreshed' = [unrefreshed EXCEPT ![t] = TRUE]
        /\ UNCHANGED answer
  /\ UNCHANGED <<busGen, untold, pending, gen, stamp, alone, overlapped>>

Store(t) ==
  /\ pc[t] \in {"store", "restore"}
  /\ gen' = answer[t]
  /\ Goto(t, IF pc[t] = "store" THEN "stamp" ELSE "restamp")
  /\ UNCHANGED <<busGen, untold, pending, answer, stamp, history>>

(* Mutant of Rearm: the failed refresh is not remembered. *)
RearmNot(t) ==
  /\ pc[t] \in {"rearm", "giveUp"}
  /\ Goto(t, IF pc[t] = "rearm" THEN "stamp" ELSE "rejected")
  /\ UNCHANGED <<busGen, untold, pending, gen, answer, stamp, history>>

Rearm(t) ==
  /\ pc[t] \in {"rearm", "giveUp"}
  /\ pending' = TRUE
  /\ Goto(t, IF pc[t] = "rearm" THEN "stamp" ELSE "rejected")
  /\ UNCHANGED <<busGen, untold, gen, answer, stamp, history>>

Stamp(t) ==
  /\ pc[t] \in {"stamp", "restamp"}
  /\ stamp' = [stamp EXCEPT ![t] = gen]
  /\ Goto(t, IF pc[t] = "stamp" THEN "submit" ELSE "resubmit")
  /\ UNCHANGED <<busGen, untold, pending, gen, answer, history>>

(* Mutant of Rejected: a stale generation is reported at once. *)
RejectedAtOnce(t) == "rejected"
Rejected(t) == IF pc[t] = "submit" THEN "requery" ELSE "rejected"

(* The bus driver carries the transaction out, fails it for another reason *)
(* or rejects its stamp.                                                   *)
Submit(t) ==
  /\ pc[t] \in {"submit", "resubmit"}
  /\ \/ Goto(t, "idle")
     \/ stamp[t] # busGen /\ Goto(t, Rejected(t))
  /\ UNCHANGED <<busGen, untold, pending, gen, answer, stamp, unrefreshed, alone, overlapped>>

(* STATUS_INVALID_GENERATION reaches the caller. *)
Surface(t) ==
  /\ pc[t] = "rejected"
  /\ Goto(t, "idle")
  /\ UNCHANGED <<busGen, untold, pending, gen, answer, stamp, history>>

Transfer(t) ==
  Begin(t) \/ Query(t) \/ Store(t) \/ Rearm(t) \/ Stamp(t) \/ Submit(t) \/ Surface(t)
-----------------------------------------------------------------------------
Next == BusReset \/ BusResetRoutine \/ \E t \in Thread : Transfer(t)

Spec == Init /\ [][Next]_vars
-----------------------------------------------------------------------------
(* p1394.c:713-722: while no transfer is running, the cached generation is *)
(* current or the next transfer is told to refresh it, as long as only one *)
(* transfer ran at a time.                                                 *)
StaleIsFlagged ==
  Running = {} /\ ~untold /\ gen # busGen => pending \/ overlapped

(* p1394.c:780-787: whatever the cached generation was, a transfer that    *)
(* overlaps no other and meets no bus reset is not rejected for its        *)
(* generation unless its own refresh failed.                               *)
AloneSucceeds == \A t \in Thread : pc[t] = "rejected" /\ alone[t] => unrefreshed[t]
=============================================================================
