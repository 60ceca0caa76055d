---------------------------- MODULE ConfigStore ----------------------------
(***************************************************************************)
(* The two-slot configuration store (config_store.c) over the EEPROM       *)
(* driver (eeprom24c16.c), with its two users: the boot (config_init) and  *)
(* the host's save (config_host_save).  A save goes page by page to the    *)
(* standby slot; a reset may fall between any two pages or inside one.     *)
(*                                                                         *)
(* A page holds its part of a record, named here by the record; a slot is  *)
(* valid when all its pages belong to one record, which is what the CRC    *)
(* establishes.  The validation of a stored record always succeeds: only   *)
(* validated configurations are saved (config_msg.c).                      *)
(***************************************************************************)
EXTENDS Integers, FiniteSets

CONSTANTS
  Configs,      \* configurations a host may save
  Defaults,     \* the compiled defaults, config_defaults()
  Pages,        \* 16-byte pages of a record
  GenHalf,      \* half the range of the generation counter: 2^31
  BootReads     \* how many slots may fail to answer at a boot: a subset of 0..2

ASSUME StoreAssumption ==
  /\ Defaults \notin Configs
  /\ Pages \in Nat \ {0} /\ GenHalf \in Nat \ {0, 1}
  /\ BootReads \subseteq 0..2

VARIABLES
  eeprom,       \* slot -> page -> record, or Torn
  generation, live_slot,    \* cfg_store_t
  s_store_status,           \* what config_load_persisted remembers
  s_cfg,        \* the running configuration
  save,           \* "BOOT", "IDLE", or a save in progress: "WRITE", "VERIFY"
  page,         \* the next page to write
  asked         \* the configuration being saved

storeVars == <<eeprom, generation, live_slot, s_store_status, s_cfg, save, page, asked>>

StoreSlots == 0..1
PageNo     == 1..Pages
Generation == 0..(2 * GenHalf - 1)
SlotRecord == [gen : Generation, cfg : Configs]
Torn       == [gen |-> -1, cfg |-> Defaults]      \* blank, or cut off inside a page

-----------------------------------------------------------------------------
(* Records *)

\* cfg_peek: the frame, its length and its CRC are right.
Valid(s) == \E r \in SlotRecord : \A p \in PageNo : eeprom[s][p] = r
Read(s)  == eeprom[s][1]

\* cfg_generation_newer: (int32_t)(a - b) > 0.
Newer(a, b) ==
  LET d == a - b
  IN  (IF d < 0 THEN d + 2 * GenHalf ELSE d) \in 1..(GenHalf - 1)

\* generation + 1u
NextGen(g) == IF g = 2 * GenHalf - 1 THEN 0 ELSE g + 1

\* The winner among the slots that answer: slot order, a later one only when newer.
Winner(answering) ==
  {s \in answering : Valid(s) /\ \A t \in answering \ {s} :
     Valid(t) => IF t < s THEN Newer(Read(s).gen, Read(t).gen)
                          ELSE ~Newer(Read(t).gen, Read(s).gen)}

\* SLIP: the save goes to the slot that is live.
StandbyLive == live_slot

\* The slot that is not live; slot A when none is.
Standby == 1 - live_slot

\* The record a save writes.
Saving == [gen |-> NextGen(generation), cfg |-> asked]

-----------------------------------------------------------------------------
(* Boot *)

StoreInit ==
  /\ eeprom = [s \in StoreSlots |-> [p \in PageNo |-> Torn]]
  /\ generation = 0 /\ live_slot = 1
  /\ s_store_status = "EMPTY" /\ s_cfg = Defaults
  /\ save = "BOOT" /\ page = 1 /\ asked = Defaults

\* config_init(): defaults, then cfg_store_load() over the slots that answer.
LoadAtBoot ==
  /\ save = "BOOT" /\ save' = "IDLE"
  /\ \E silent \in SUBSET StoreSlots :
       /\ Cardinality(silent) \in BootReads
       /\ \/ /\ Winner(StoreSlots \ silent) = {}
             /\ generation' = 0 /\ live_slot' = 1 /\ s_cfg' = Defaults
             /\ s_store_status' = IF silent = StoreSlots THEN "IO" ELSE "EMPTY"
          \/ \E s \in Winner(StoreSlots \ silent) :
             /\ generation' = Read(s).gen /\ live_slot' = s /\ s_cfg' = Read(s).cfg
             /\ s_store_status' = "OK"
  /\ UNCHANGED <<eeprom, page, asked>>

-----------------------------------------------------------------------------
(* A save: cfg_store_save() called by config_host_save() *)

BeginSave ==
  /\ save = "IDLE" /\ save' = "WRITE" /\ page' = 1
  /\ asked' \in Configs
  /\ UNCHANGED <<eeprom, generation, live_slot, s_store_status, s_cfg>>

Program(content) ==
  eeprom' = [eeprom EXCEPT ![Standby][page] = content]

\* eeprom_write_page() returns true; the part may have dropped the page all the same.
WritePage ==
  /\ save = "WRITE"
  /\ Program(Saving) \/ UNCHANGED eeprom
  /\ IF page = Pages THEN save' = "VERIFY" /\ page' = 1 ELSE save' = save /\ page' = page + 1
  /\ UNCHANGED <<generation, live_slot, s_store_status, s_cfg, asked>>

\* Three attempts without an acknowledge; the last may have reached the array.
WriteFails ==
  /\ save = "WRITE" /\ save' = "IDLE" /\ page' = 1
  /\ Program(Saving) \/ UNCHANGED eeprom
  /\ UNCHANGED <<generation, live_slot, s_store_status, s_cfg, asked>>

\* The read-back fails, or what it reads is not what was written.
VerifyFails ==
  /\ save = "VERIFY" /\ save' = "IDLE"
  /\ UNCHANGED <<eeprom, generation, live_slot, s_store_status, s_cfg, page, asked>>

\* SLIP: the write is trusted.
ReadsBackAlways == TRUE

ReadsBack == \A p \in PageNo : eeprom[Standby][p] = Saving

\* Read back identical: the slot becomes live, the configuration is adopted and published.
Commit ==
  /\ save = "VERIFY" /\ save' = "IDLE"
  /\ ReadsBack
  /\ generation' = Saving.gen /\ live_slot' = Standby
  /\ s_cfg' = asked /\ s_store_status' = "OK"
  /\ UNCHANGED <<eeprom, page, asked>>

\* A reset or a power cut; a page being programmed may be left torn.
Crash ==
  /\ save # "BOOT" /\ save' = "BOOT" /\ page' = 1
  /\ (save = "WRITE" /\ Program(Torn)) \/ UNCHANGED eeprom
  /\ UNCHANGED <<generation, live_slot, s_store_status, s_cfg, asked>>

StoreNext ==
  \/ LoadAtBoot \/ BeginSave \/ WritePage \/ WriteFails \/ VerifyFails \/ Commit \/ Crash

StoreSpec == StoreInit /\ [][StoreNext]_storeVars

-----------------------------------------------------------------------------
(* Properties *)

StoreTypeOK ==
  /\ eeprom \in [StoreSlots -> [PageNo -> SlotRecord \cup {Torn}]]
  /\ generation \in Generation /\ live_slot \in StoreSlots
  /\ s_store_status \in {"OK", "EMPTY", "IO"}
  /\ s_cfg \in Configs \cup {Defaults}
  /\ save \in {"BOOT", "IDLE", "WRITE", "VERIFY"} /\ page \in PageNo
  /\ asked \in Configs \cup {Defaults}

\* What a boot with a healthy part would run on.
Durable == IF Winner(StoreSlots) = {} THEN Defaults ELSE Read(CHOOSE s \in Winner(StoreSlots) : TRUE).cfg

\* While pages are being written, the record that would survive a power cut at this instant
\* is the one the regulator runs on (config_store.h: "leaves the previous record untouched
\* and still the highest valid generation").
PowerCutKeepsRecord ==
  (save = "WRITE" /\ s_store_status = "OK") =>
    \E s \in StoreSlots \ {Standby} : Valid(s) /\ Read(s).cfg = s_cfg

\* The newest record is never overwritten: the standby slot is not the winner, unless the
\* save of this very record has landed.
StandbyIsOlder ==
  save \in {"IDLE", "WRITE"} =>
    Standby \notin Winner(StoreSlots) \/ Read(Standby).gen = NextGen(generation)

\* A save that was acknowledged is what the next boot finds, across counter wraps.
AckedSaveSurvives ==
  [][Commit => Durable' = asked]_storeVars

\* The store is a DurableConfig: whatever is cut off, the durable configuration only ever
\* jumps to the one being saved, or back to the running one.
Promise == INSTANCE DurableConfig WITH
             durable <- Durable, running <- s_cfg, None <- Defaults,
             request <- IF save \in {"WRITE", "VERIFY"} THEN asked ELSE Defaults
PromiseSpec == Promise!Spec
=============================================================================
