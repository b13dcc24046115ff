--------------------------- MODULE CaptureState ---------------------------
(***************************************************************************)
(* The state of the capture engine (photonic/capture) as the DirectShow    *)
(* pin drives it (photonic/stream): the descriptor pool, the pump's        *)
(* election, the bus driver's side of every descriptor, the session, the   *)
(* control work item and the stream front-end.  CapturePump, StreamReads   *)
(* and CaptureControl add the actions, CaptureEngine the specification.    *)
(*                                                                         *)
(* One action is one hold of a lock, or one call to the bus driver, the    *)
(* front-end or the camera made between two holds.  Four kinds of thread   *)
(* interleave: bus completions (cpu), data threads (rd), a cancel thread     *)
(* (cn) and the holder of InterfaceMutex (ctl).  Any but the cancel thread *)
(* may win the pump's election and run its laps (lap).                     *)
(***************************************************************************)
EXTENDS Integers, FiniteSets, SequencesExt

CONSTANTS
  Desc,           \* frame descriptors (PHOTONIC_CAPTURE_FRAME_COUNT of them)
  Buf,            \* read requests, each with the consumer pages it carries
  ShortBuf,       \* those whose MDL is shorter than one frame
  NoMdlBuf,       \* those that arrive without an MDL
  Cpu,            \* contexts a bus completion routine can run in
  Reader,         \* threads that dispatch data SRBs
  Ctl,            \* the holder of InterfaceMutex, as a caller of the pump
  NoBuf, NoDesc,
  RetryMax,       \* PHOTONIC_CAPTURE_CONTROL_RETRY_MAX
  MaxWorkers,     \* bound: work item runs waiting for InterfaceMutex at once
  Ops,            \* bound: the client operations this instance exercises
  Faults          \* bound: the bus and camera failures this instance injects

OpNames    == {"start", "stop", "pause", "close", "open", "remove", "flush", "cancel"}
FaultNames == {"attach", "detach", "frame", "listen", "enable", "alloc", "free", "isochStop"}
Thread     == Cpu \cup Reader \cup {Ctl}
Resources  == {"channel", "bandwidth", "handle"}

ASSUME ConstantsAssumption ==
  /\ IsFiniteSet(Desc) /\ IsFiniteSet(Cpu)
  /\ ShortBuf \subseteq Buf /\ NoMdlBuf \subseteq Buf
  /\ NoBuf \notin Buf /\ NoDesc \notin Desc
  /\ Cpu \cap Reader = {} /\ Ctl \notin Cpu \cup Reader
  /\ RetryMax \in Nat /\ MaxWorkers \in Nat \ {0}
  /\ Ops \subseteq OpNames /\ Faults \subseteq FaultNames

VARIABLES
  (* Descriptors; everything here changes under the engine's Lock. *)
  fstate,       \* desc->State
  cookie,       \* desc->Cookie
  outcome,      \* desc->CompletionStatus, meaningful once the detach is claimed
  freeList, pendingList,
  (* The bus driver's side. *)
  irp,          \* what the descriptor's IRP carries while it is at the bus
  dma,          \* the buffer whose pages the bus maps through the descriptor
  fill,         \* ISOCH_DESCRIPTOR.status of that buffer, "empty" until filled
  busListening, \* the isochronous context is running
  (* The pump. *)
  pumpActive, pumpAgain,
  lap,          \* where each thread stands inside a run it won
  lapDesc, lapBuf, lapCount, \* its locals there: the claim, the buffer, the loop counter
  (* The session. *)
  draining, inFlight, held, stranded, listening, firstAttach,
  enableWanted, isoEnabled, retries,
  (* The control work item. *)
  cancelPending, workQueued, workers,
  (* The stream front-end. *)
  ready,        \* PendingReads
  out,          \* reads the class driver sent and has not got back
  cancelled,    \* those whose Irp->Cancel is set
  streamState, rundown, removed,
  rd, rdBuf,    \* where each data thread stands, with which read
  cn,
  (* Threads. *)
  cpu, cpuBuf,  \* where each completion stands, with the read it gives back
  ctl, op, alive

descVars  == <<fstate, cookie, outcome, freeList, pendingList>>
busVars   == <<irp, dma, fill, busListening>>
lapVars   == <<lap, lapDesc, lapBuf, lapCount>>
pumpVars  == <<pumpActive, pumpAgain, lapVars>>
runVars   == <<draining, inFlight, listening, firstAttach>>
resVars   == <<held, stranded>>
camVars   == <<enableWanted, isoEnabled, retries>>
workVars  == <<cancelPending, workQueued, workers>>
readVars  == <<ready, out, cancelled>>
rdVars    == <<rd, rdBuf>>
frontVars == <<streamState, rundown, removed, rdVars, cn>>
cpuVars   == <<cpu, cpuBuf>>
ctlVars   == <<ctl, op, alive>>
vars == <<descVars, busVars, pumpVars, runVars, resVars, camVars, workVars,
          readVars, frontVars, cpuVars, ctlVars>>

FrameStates == {"Free", "Attaching", "CompletedWhileAttaching", "Pending",
                "Detaching", "DetachFailed"}
OnPending   == {"Attaching", "CompletedWhileAttaching", "Pending"}
CpuPcs  == {"idle", "deliverFailed", "deliverFrame", "pump", "pumping",
            "signal", "signalListen", "done", "tail"}
RdPcs   == {"idle", "park", "pump", "pumping"}
LapPcs  == {"none", "begin", "claim", "acquire", "publish", "reject", "handBack", "end"}
CtlPcs  == {"idle", "rundown", "stop", "settled", "shutdown", "quiesce",
            "isochStop", "claim", "drainWait", "drainCheck", "pumpIdle", "resume", "release",
            "unquarantine", "drain", "destroy", "allocate", "open", "pump",
            "pumping", "listen", "listenWait", "listenIrb", "enable", "running",
            "workEnable", "workRetry"}
CtlOps  == {"none", "start", "failed", "stop", "close", "closed", "remove", "work"}

-----------------------------------------------------------------------------
(* What the code computes from its state.                                   *)

Quarantined == {d \in Desc : fstate[d] = "DetachFailed"}
NeedsReleaseRetry == held # {} \/ Quarantined # {}
Attached == {d \in Desc : dma[d] # NoBuf}
Parked   == ToSet(ready)
NoListenWanted == draining \/ listening \/ pendingList = {}

(* Mutant of Recycle: the insertion into FreeList is forgotten. *)
RecycleOffList(d) ==
  /\ fstate' = [fstate EXCEPT ![d] = "Free"]
  /\ cookie' = [cookie EXCEPT ![d] = NoBuf]
  /\ outcome' = [outcome EXCEPT ![d] = "success"]
  /\ UNCHANGED freeList

(* A descriptor back on the free list, its read out of its hands.  The      *)
(* outcome is dead until the next Prime sets it to success.                 *)
Recycle(d) ==
  /\ fstate' = [fstate EXCEPT ![d] = "Free"]
  /\ cookie' = [cookie EXCEPT ![d] = NoBuf]
  /\ outcome' = [outcome EXCEPT ![d] = "success"]
  /\ freeList' = freeList \cup {d}

(* The single-completer handoff and PhotonicCapturePumpBeginDetach.         *)
BeginDetach(d, result) ==
  /\ pendingList' = pendingList \ {d}
  /\ fstate' = [fstate EXCEPT ![d] = "Detaching"]
  /\ outcome' = [outcome EXCEPT ![d] = result]
  /\ irp' = [irp EXCEPT ![d] = "detach"]

(* Where a thread goes next, with what in its hands. *)
LapAt(t, pc, d, b) ==
  /\ lap' = [lap EXCEPT ![t] = pc]
  /\ lapDesc' = [lapDesc EXCEPT ![t] = d]
  /\ lapBuf' = [lapBuf EXCEPT ![t] = b]
CpuAt(c, pc, b) ==
  /\ cpu' = [cpu EXCEPT ![c] = pc]
  /\ cpuBuf' = [cpuBuf EXCEPT ![c] = b]
ReaderAt(r, pc, b) ==
  /\ rd' = [rd EXCEPT ![r] = pc]
  /\ rdBuf' = [rdBuf EXCEPT ![r] = b]

(* PhotonicStreamCompleteRead: the class driver has the reads back. *)
Complete(bs) == out' = out \ bs /\ cancelled' = cancelled \ bs

(* Mutants of PumpCall: no election at all; a loser that flags no re-run. *)
PumpCallUnelected(t) ==
  /\ pumpActive' = TRUE
  /\ LapAt(t, "begin", NoDesc, NoBuf)
  /\ UNCHANGED <<pumpAgain, lapCount>>
PumpCallForgets(t) ==
  \/ pumpActive /\ UNCHANGED pumpVars
  \/ ~pumpActive /\ PumpCallUnelected(t)

(* PhotonicCapturePump up to the end of the election. *)
PumpCall(t) ==
  \/ /\ pumpActive
     /\ pumpAgain' = TRUE
     /\ UNCHANGED <<pumpActive, lapVars>>
  \/ /\ ~pumpActive
     /\ pumpActive' = TRUE
     /\ LapAt(t, "begin", NoDesc, NoBuf)
     /\ UNCHANGED <<pumpAgain, lapCount>>

(* Where the caller stands after PumpCall: inside the run it won, or past it. *)
AfterPumpCall(inside, past) == IF pumpActive THEN past ELSE inside

Init ==
  /\ fstate = [d \in Desc |-> "Free"] /\ cookie = [d \in Desc |-> NoBuf]
  /\ outcome = [d \in Desc |-> "success"]
  /\ freeList = Desc /\ pendingList = {}
  /\ irp = [d \in Desc |-> "none"] /\ dma = [d \in Desc |-> NoBuf]
  /\ fill = [d \in Desc |-> "empty"] /\ busListening = FALSE
  /\ pumpActive = FALSE /\ pumpAgain = FALSE
  /\ lap = [t \in Thread |-> "none"] /\ lapDesc = [t \in Thread |-> NoDesc]
  /\ lapBuf = [t \in Thread |-> NoBuf] /\ lapCount = [t \in Thread |-> 0]
  /\ draining = TRUE /\ inFlight = 0 /\ listening = FALSE /\ firstAttach = FALSE
  /\ held = {} /\ stranded = {}
  /\ enableWanted = FALSE /\ isoEnabled = FALSE /\ retries = 0
  /\ cancelPending = FALSE /\ workQueued = FALSE /\ workers = 0
  /\ ready = <<>> /\ out = {} /\ cancelled = {}
  /\ streamState = "STOP" /\ rundown = FALSE /\ removed = FALSE
  /\ rd = [r \in Reader |-> "idle"] /\ rdBuf = [r \in Reader |-> NoBuf] /\ cn = "idle"
  /\ cpu = [c \in Cpu |-> "idle"] /\ cpuBuf = [c \in Cpu |-> NoBuf]
  /\ ctl = "idle" /\ op = "none" /\ alive = "open"
=============================================================================
