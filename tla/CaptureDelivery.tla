--------------------------- MODULE CaptureDelivery ---------------------------
(***************************************************************************)
(* What the offline capture path promises an official, whatever happens to *)
(* connections, requests and processes: a captured trial stays on the      *)
(* device until the server has decided, durably and once, what becomes of  *)
(* it. CaptureSync (the server) and CaptureQueue (the device) each         *)
(* implement this specification.                                           *)
(***************************************************************************)
CONSTANTS
  Ops,       \* client-minted operation ids
  Decided,   \* what the server can decide: applied, reconciliation, rejected
  Pending    \* no decision yet

VARIABLES
  held,      \* captures a device still keeps
  decision   \* the server's durable decision per operation

deliveryVars == <<held, decision>>

DeliveryTypeOK ==
  /\ held \subseteq Ops
  /\ decision \in [Ops -> Decided \union {Pending}]

DeliveryInit ==
  /\ held = {}
  /\ decision = [o \in Ops |-> Pending]

\* The device stores a capture it did not hold.
Hold(o) ==
  /\ o \notin held
  /\ decision[o] = Pending
  /\ held' = held \union {o}
  /\ UNCHANGED decision

\* The server decides a capture that reached it.
Decide(o, d) ==
  /\ o \in held
  /\ decision[o] = Pending
  /\ decision' = [decision EXCEPT ![o] = d]
  /\ UNCHANGED held

\* The device lets go of captures, every one of them decided.
LetGo(S) ==
  /\ S \subseteq held
  /\ \A o \in S : decision[o] # Pending
  /\ held' = held \ S
  /\ UNCHANGED decision

DeliveryNext ==
  \/ \E o \in Ops : Hold(o)
  \/ \E o \in Ops, d \in Decided : Decide(o, d)
  \/ \E S \in SUBSET held : LetGo(S)

DeliverySpec == DeliveryInit /\ [][DeliveryNext]_deliveryVars

-----------------------------------------------------------------------------
\* Nothing an official captured is lost: from one state to the next it stays
\* on the device or has been decided. (That every capture is decided in the
\* end is the device's liveness, see CaptureQueue.)
NothingLost ==
  [][ \A o \in held : o \in held' \/ decision'[o] \in Decided ]_deliveryVars
=============================================================================
