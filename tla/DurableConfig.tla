--------------------------- MODULE DurableConfig ---------------------------
(***************************************************************************)
(* What the configuration store promises, without slots, pages or          *)
(* generations: one durable configuration that changes in one instant, and *)
(* a running one.  A save that is cut off or reported as failed may have   *)
(* landed all the same, and may then be undone by the attempt after it; a  *)
(* save that is acknowledged has landed, and nothing else ever does.       *)
(***************************************************************************)
CONSTANTS Configs, Defaults, None

VARIABLES
  durable,    \* what a boot finds
  running,    \* s_cfg: what the regulator runs on
  request     \* the save in progress

Init == durable = Defaults /\ running = Defaults /\ request = None

Ask == request = None /\ request' \in Configs /\ UNCHANGED <<durable, running>>

\* The point of no return, or the end of an earlier one that nobody was told of.
Land ==
  /\ request # None /\ request' \in {request, None}
  /\ durable' \in {request, running}
  /\ UNCHANGED running

Fail == request # None /\ request' = None /\ UNCHANGED <<durable, running>>

Acknowledge ==
  /\ request # None /\ durable = request
  /\ running' = request /\ request' = None /\ UNCHANGED durable

Load == request = None /\ running' = durable /\ UNCHANGED <<durable, request>>

Next == Ask \/ Land \/ Fail \/ Acknowledge \/ Load

Spec == Init /\ [][Next]_<<durable, running, request>>
=============================================================================
