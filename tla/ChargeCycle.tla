----------------------------- MODULE ChargeCycle -----------------------------
(***************************************************************************)
(* What the engine promises about its mode alone, without measurements,    *)
(* timers or settings: the state diagram of PROFILE_SPEC_LFP section 2.    *)
(*   - a hard fault can strike at any time and is never left;              *)
(*   - BULK is only entered from the warmup gate (or straight from off     *)
(*     when the gate is disabled) and from a rest that reverts;            *)
(*   - a rest follows BULK, or the gate when the battery is already full;  *)
(*   - FLOAT is also limp home, so any mode but fault may turn to it.      *)
(***************************************************************************)
VARIABLE mode

Modes == {"OFF", "WARMUP", "REST", "FAULT", "BULK", "FLOAT"}

Init == mode = "OFF"

StartWarmup == mode = "OFF" /\ mode' = "WARMUP"
StartBulk   == mode \in {"OFF", "WARMUP", "REST", "FLOAT"} /\ mode' = "BULK"
StartRest   == mode \in {"OFF", "WARMUP", "BULK"} /\ mode' = "REST"
StartFloat  == mode # "FAULT" /\ mode' = "FLOAT"
SwitchOff   == mode # "FAULT" /\ mode' = "OFF"
Trip        == mode' = "FAULT"

Next == StartWarmup \/ StartBulk \/ StartRest \/ StartFloat \/ SwitchOff \/ Trip

Spec == Init /\ [][Next]_mode
=============================================================================
