----------------------------- MODULE MCFieldPath -----------------------------
(***************************************************************************)
(* Inputs and settings for the TLC runs of FieldPath.                      *)
(***************************************************************************)
EXTENDS FieldPath

reading(v) == [vbat |-> v, vcomp |-> v, amps |-> NaN, watts |-> 0, isrc |-> "NONE",
               vsupBad |-> FALSE, altTemp |-> "normal", driverTemp |-> "normal",
               battTemp |-> "normal", running |-> TRUE, soc |-> -1, socTrusted |-> FALSE,
               ignition |-> TRUE, ext |-> {}, ceiling |-> NaN]
withExt(ms) == UNION {{m, [m EXCEPT !.ext = {"WATCHDOG"}],
                          [m EXCEPT !.ext = {"IMPLAUSIBLE_SHUNT"}],
                          [m EXCEPT !.ext = {"WATCHDOG", "IMPLAUSIBLE_SHUNT"}]} : m \in ms}

settings == [cvTarget |-> 2, exitAtCv |-> FALSE, restZero |-> FALSE, restV |-> 2,
             restCap |-> 1, vRevert |-> 1, tRevert |-> 1, socRevert |-> -1,
             ahRevert |-> 0, maxPower |-> 2, ramp |-> 2, pTail |-> -1, tTail |-> 1,
             tVclamp |-> 1, cvHold |-> 2, tChargeMax |-> 2, warmup |-> 0,
             socTarget |-> -1, skipV |-> 0, skipSoc |-> -1, limpV |-> 2,
             limpCap |-> 1, requireTemp |-> FALSE]

\* Low and high voltage, a hard overvoltage, key off, a temperature block, lost readings.
pathInputs == withExt({reading(1), reading(2), reading(4),
                       [reading(1) EXCEPT !.ignition = FALSE],
                       [reading(NaN) EXCEPT !.watts = NaN]})
pathConfigs == {settings, [settings EXCEPT !.warmup = 1]}
pathDuty    == {0, 1}

\* The recovery from a temperature block.
blockInputs   == {reading(1), [reading(1) EXCEPT !.battTemp = "cold"]}
recoverConfig == {settings}
fullDuty      == {1}
=============================================================================
