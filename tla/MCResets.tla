------------------------------ MODULE MCResets ------------------------------
(***************************************************************************)
(* What must come right again after any reset, in one run: the crash       *)
(* record in RAM that is not cleared, the configuration store in the       *)
(* EEPROM, and the address a node claims on the bus.  They share nothing:  *)
(* `part` names the one that moves.                                        *)
(***************************************************************************)
EXTENDS CrashRecord, ConfigStore, AddressClaim, TLC

CONSTANTS n1, n2, n3

VARIABLE part

rank == n1 :> 1 @@ n2 :> 2 @@ n3 :> 3
pref == [n \in Node |-> 1]
ASSUME ClaimConstants == ClaimAssumption

ResetsInit == part \in {"crash", "store", "claim"} /\ Init /\ StoreInit /\ ClaimInit
ResetsNext ==
    /\ UNCHANGED part
    /\ \/ part = "crash" /\ Next /\ UNCHANGED <<storeVars, claimVars>>
       \/ part = "store" /\ StoreNext /\ UNCHANGED <<vars, claimVars>>
       \/ part = "claim" /\ ClaimNext /\ UNCHANGED <<vars, storeVars>>
ResetsSpec ==
    /\ ResetsInit /\ [][ResetsNext]_<<part, vars, storeVars, claimVars>>
    /\ WF_claimVars(part = "claim" /\ Goes)

-----------------------------------------------------------------------------
\* restart_claim: the walk over the addresses ends, only a better name ends an ownership,
\* and an owner that is asked answers; each is stated and explained in AddressClaim.
AddressSettles == EveryoneSettles /\ LeavesOnlyBeaten /\ RequestsAreAnswered
=============================================================================
