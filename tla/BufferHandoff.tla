--------------------------- MODULE BufferHandoff ---------------------------
(***************************************************************************)
(* What the capture engine and its pin promise the class driver about the  *)
(* buffer of a read (photonic/capture.h, the deliver and acquire callback  *)
(* contracts): it waits in line, the engine takes the head of the line,    *)
(* lets the bus map it, and gives it back - once, and never while a bus    *)
(* mapping of its pages is left.  A buffer still in line may be withdrawn. *)
(***************************************************************************)
EXTENDS SequencesExt

CONSTANT Buf

VARIABLES line,    \* the reads parked in the pin, oldest first
          engine,  \* those the engine owns
          mapped   \* those whose pages the bus driver maps
hvars == <<line, engine, mapped>>

Init == line = <<>> /\ engine = {} /\ mapped = {}

InLine(b) == \E i \in DOMAIN line : line[i] = b

Park(b) ==
  /\ ~InLine(b) /\ b \notin engine
  /\ line' = Append(line, b)
  /\ UNCHANGED <<engine, mapped>>

Withdraw ==
  /\ \E i \in DOMAIN line : line' = RemoveAt(line, i)
  /\ UNCHANGED <<engine, mapped>>

Take ==
  /\ line # <<>>
  /\ engine' = engine \cup {Head(line)} /\ line' = Tail(line)
  /\ UNCHANGED mapped

Map(b) ==
  /\ b \in engine \ mapped
  /\ mapped' = mapped \cup {b}
  /\ UNCHANGED <<line, engine>>

(* A detach unmaps one buffer, a free of the resource handle all of them.   *)
Unmap(S) ==
  /\ S \subseteq mapped
  /\ mapped' = mapped \ S
  /\ UNCHANGED <<line, engine>>

Return(b) ==
  /\ b \in engine \ mapped
  /\ engine' = engine \ {b}
  /\ UNCHANGED <<line, mapped>>

Next ==
  \/ Withdraw \/ Take
  \/ \E b \in Buf : Park(b) \/ Map(b) \/ Return(b)
  \/ \E S \in SUBSET mapped : Unmap(S)

Spec == Init /\ [][Next]_hvars
=============================================================================
