----------------------------- MODULE ConfigDoc -----------------------------
(***************************************************************************)
(* A configuration, the document that carries it (config_doc.c), the rules *)
(* that judge it (config_validate.c) and the compiled defaults.            *)
(*                                                                         *)
(* A document is the sequence of its members in the order they stand on    *)
(* the line: a member is the block it is in, its key and a JSON value.     *)
(* Voltages are hundredths of a volt per cell.  Another number is one of   *)
(* the legal values "a" and "b", "low" when it breaks its rule, Wide when  *)
(* the field cannot store it.  Off is NAN in a float and -1 in an int8,    *)
(* and travels as null.  The numbers that no rule tells apart stand for    *)
(* their group: bank_capacity_ah for what the tail window depends on.      *)
(***************************************************************************)
EXTENDS Integers, SequencesExt

CONSTANTS Profiles,    \* CFG_PROFILE_COUNT, the last of them reserved by default
          Off, Wide    \* model values

NoRef == "literal"     \* CFG_PRIM_NONE
PrimitiveOrder == <<"v_bulk", "v_bulk_cons", "v_float", "v_float_cons", "v_limp">>
Primitives == ToSet(PrimitiveOrder)

\* The fields by what reads them: rd_u8 and rd_u16, rd_i8, rd_bool, else rd_f32.
FieldOrder == <<"battery_c_limit", "rotor_rated_v", "rotor_v_max", "cells_series",
                "bank_capacity_ah", "max_charge_power_w", "p_tail_w", "t_tail_hold_s",
                "warmup_time_s", "warmup_coolant_c", "soc_target_pct", "skip_bulk_soc_pct",
                "batt_temp_src", "require_batt_temp">>
Fields == ToSet(FieldOrder)
Uints  == {"cells_series", "t_tail_hold_s", "warmup_time_s"}
Int8s  == {"soc_target_pct", "skip_bulk_soc_pct"}
Sources == {"none", "adc_a", "adc_b"}
BlockOf(f) == IF f \in {"battery_c_limit", "rotor_rated_v", "rotor_v_max"} THEN "limits" ELSE "global"

\* What may be off: NAN for two floats, -1 for the percentages.
MayBeOff == Int8s \cup {"warmup_coolant_c", "rotor_v_max"}

Member(block, key, json) == [in |-> block, slot |-> 0, key |-> key, json |-> json]
InProfile(i, key, json) == [in |-> "profiles", slot |-> i, key |-> key, json |-> json]
Num(v) == [t |-> "num", v |-> v]
Str(s) == [t |-> "str", v |-> s]
Bool(b) == [t |-> "bool", v |-> b]
Null == [t |-> "null", v |-> Off]

-----------------------------------------------------------------------------
(* The compiled defaults                                                   *)

\* config_default_profile: the reserved slot, the ones that rest at zero, the others.
DefaultProfile(id) ==
    LET rests == id \notin {2, Profiles} IN
    [id |-> id, reserved |-> id = Profiles,
     cv_ref |-> IF id = Profiles THEN NoRef ELSE "v_bulk", cv |-> 0,
     mode |-> IF rests THEN "hold" ELSE "zero",
     rest_ref |-> IF rests THEN "v_float" ELSE NoRef, rest |-> 0,
     revert |-> "a"]

\* cfg_primitive_value, and what it leaves in place when there is no number
Resolved(v, ref, prim) == IF ref \in Primitives /\ prim[ref] # Off THEN prim[ref] ELSE v

\* Every profile voltage that is a reference takes the value of its primitive.
Propagate(prof, prim) ==
    [i \in DOMAIN prof |->
        [prof[i] EXCEPT !.cv = Resolved(@, prof[i].cv_ref, prim),
                        !.rest = Resolved(@, prof[i].rest_ref, prim)]]

\* config_defaults: without a charge power the regulator stays off.
Defaults ==
    LET prim == [v_bulk |-> 360, v_bulk_cons |-> 350, v_float |-> 340, v_float_cons |-> 335, v_limp |-> 330] IN
    [prim |-> prim, limp_vcell |-> prim.v_limp,
     f |-> [x \in Fields |->
              CASE x \in {"max_charge_power_w", "p_tail_w"} -> "low"
                [] x \in MayBeOff -> Off
                [] x = "batt_temp_src" -> "none"
                [] x = "require_batt_temp" -> FALSE
                [] OTHER -> "a"],
     prof |-> Propagate([i \in 1..Profiles |-> DefaultProfile(i)], prim),
     active |-> 1]

-----------------------------------------------------------------------------
(* ctrl_config_validate: the first rule that is broken, and by which profile *)

Verdict(rule, profile) == [rule |-> rule, profile |-> profile]
InSpan(v, lo, hi) == v # Off /\ v >= lo /\ v <= hi

PrimitivesOK(p) ==
    /\ InSpan(p.v_limp, 320, 335) /\ InSpan(p.v_bulk, 345, 365) /\ InSpan(p.v_bulk_cons, 340, 358)
    /\ InSpan(p.v_float, 333, 345) /\ InSpan(p.v_float_cons, 328, 340)
    /\ p.v_bulk - p.v_bulk_cons >= 3 /\ p.v_bulk_cons - p.v_float >= 3
    /\ p.v_float - p.v_float_cons >= 2 /\ p.v_float_cons - p.v_limp >= 2

FieldOK(f, k) ==
    CASE k = "batt_temp_src" -> f[k] \in Sources
      [] k = "require_batt_temp" -> TRUE
      [] k = "p_tail_w" -> f[k] = f["bank_capacity_ah"]    \* a window relative to C
      [] OTHER -> f[k] \in {"a", "b"} \/ (f[k] = Off /\ k \in MayBeOff)

\* A voltage agrees with the primitive it names, or is a literal in the span.
VoltageOK(v, ref, prim) == IF ref = NoRef THEN InSpan(v, 320, 365) ELSE v = prim[ref]

ProfileRule(p, i, prim) ==
    CASE p.id # i -> "CFG_ERR_PROFILE_ID"
      [] p.id = i /\ p.reserved -> "CFG_OK"
      [] OTHER ->
           IF p.mode \notin {"hold", "zero"} THEN "CFG_ERR_PROFILE_REST_MODE"
           ELSE IF ~VoltageOK(p.cv, p.cv_ref, prim) THEN "CFG_ERR_PROFILE_CV"
           ELSE IF p.mode = "hold" /\ ~VoltageOK(p.rest, p.rest_ref, prim) THEN "CFG_ERR_PROFILE_REST_V"
           ELSE IF p.revert \notin {"a", "b"} THEN "CFG_ERR_PROFILE_REVERT" ELSE "CFG_OK"

\* The profile that is active exists and is not a reserved slot.
ActiveOK(c) == c.active \in 1..Profiles /\ ~c.prof[c.active].reserved

Validate(c) ==
    LET rule(i) == ProfileRule(c.prof[i], i, c.prim)
        bad == {i \in 1..Profiles : rule(i) # "CFG_OK"}
        first == Min(bad)
    IN  IF ~PrimitivesOK(c.prim) THEN Verdict("CFG_ERR_PRIMITIVES", 0)
        ELSE IF c.limp_vcell # c.prim.v_limp THEN Verdict("CFG_ERR_LIMP_VCELL_MISMATCH", 0)
        ELSE IF \E k \in Fields : ~FieldOK(c.f, k) THEN Verdict("CFG_ERR_RANGE", 0)
        ELSE IF bad # {} THEN Verdict(rule(first), first)
        ELSE IF ~ActiveOK(c) THEN Verdict("CFG_ERR_ACTIVE_PROFILE", IF c.active \in 1..Profiles THEN c.active ELSE 0)
        ELSE Verdict("CFG_OK", 0)

Valid(c) == Validate(c).rule = "CFG_OK"

-----------------------------------------------------------------------------
(* cfg_doc_parse: the overlay of a document on a configuration             *)

\* What the readers make of a JSON value: a value to store, or a type error.
Numeric(j) == j.t \in {"num", "null"}
Fits(f, j) ==
    CASE f = "batt_temp_src" -> j.t = "str"
      [] f = "require_batt_temp" -> j.t = "bool"
      [] f \in Uints -> j.t = "num" /\ j.v # Wide
      [] f \in Int8s -> Numeric(j) /\ j.v # Wide
      [] OTHER -> Numeric(j)
FitsRef(j) == Numeric(j) \/ (j.t = "str" /\ j.v \in Primitives)

\* A spelling outside an enum is stored out of the enum.
Stored(f, j) == IF f = "batt_temp_src" /\ j.v \notin Sources THEN "0xFF" ELSE j.v

\* rd_vref: a string names a primitive, a number or null is a literal.
RefOf(j) == IF j.t = "str" THEN j.v ELSE NoRef
LiteralOf(j, old) == IF j.t = "str" THEN old ELSE j.v

ProfileKeys == {"id", "name", "reserved", "cv_target", "mode", "voltage", "v_cell"}
ProfileFits(key, j) ==
    CASE key = "id" -> j.t = "num" /\ j.v # Wide
      [] key = "reserved" -> j.t = "bool"
      [] key \in {"cv_target", "voltage"} -> FitsRef(j)
      [] key = "mode" -> j.t = "str"
      [] key = "v_cell" -> Numeric(j)
      [] OTHER -> TRUE

\* parse_profile, parse_rest, parse_revert: one member of a profile.
ProfileWith(p, key, j) ==
    CASE key = "id" -> [p EXCEPT !.id = j.v]
      [] key = "reserved" -> [p EXCEPT !.reserved = j.v]
      [] key = "cv_target" -> [p EXCEPT !.cv_ref = RefOf(j), !.cv = LiteralOf(j, @)]
      [] key = "mode" -> [p EXCEPT !.mode = IF j.v \in {"hold", "zero"} THEN j.v ELSE "out of enum"]
      [] key = "voltage" -> [p EXCEPT !.rest_ref = RefOf(j), !.rest = LiteralOf(j, @)]
      [] key = "v_cell" -> [p EXCEPT !.revert = j.v]
      [] OTHER -> p

\* The state of a parse, and what stops it.
Begin(c) == [cfg |-> c, err |-> "OK", unknown |-> 0, sawLimp |-> FALSE, sawLimpVcell |-> FALSE]
Put(d, fits, cfg) == IF fits THEN [d EXCEPT !.cfg = cfg] ELSE [d EXCEPT !.err = "TYPE"]
Unknown(d) == [d EXCEPT !.unknown = @ + 1]

\* The block a member is in and its key decide where it goes.
ParseMember(d, m) ==
    LET c == d.cfg
        j == m.json
    IN
    CASE m.in = "top" /\ m.key = "schema_version" ->
            [d EXCEPT !.err = IF j.t # "num" THEN "TYPE" ELSE IF j.v = "ours" THEN "OK" ELSE "SCHEMA"]
      [] m.in = "top" /\ m.key \in {"primitives", "limits", "global", "profiles"} ->
            [d EXCEPT !.err = "JSON"]                        \* the block is not a container
      [] m.in = "top" /\ m.key = "active_profile" ->
            Put(d, j.t = "num" /\ j.v # Wide, [c EXCEPT !.active = j.v])
      [] m.in = "top" /\ m.key = "fw" -> d
      [] m.in = "primitives" /\ m.key \in Primitives ->
            [Put(d, Numeric(j), [c EXCEPT !.prim[m.key] = j.v])
                EXCEPT !.sawLimp = IF m.key = "v_limp" THEN Numeric(j) ELSE @]
      [] m.in = "global" /\ m.key = "limp_vcell" ->
            [Put(d, Numeric(j), [c EXCEPT !.limp_vcell = j.v]) EXCEPT !.sawLimpVcell = Numeric(j)]
      [] m.key \in Fields /\ BlockOf(m.key) = m.in ->
            Put(d, Fits(m.key, j), [c EXCEPT !.f[m.key] = Stored(m.key, j)])
      [] m.in = "profiles" /\ m.slot \notin 1..Profiles -> [d EXCEPT !.err = "TYPE"]   \* too many slots
      [] m.in = "profiles" /\ m.slot \in 1..Profiles /\ m.key \in ProfileKeys ->
            Put(d, ProfileFits(m.key, j), [c EXCEPT !.prof[m.slot] = ProfileWith(@, m.key, j)])
      [] OTHER -> Unknown(d)

\* The parse stops at the first member it cannot take.
Overlay(c, doc) ==
    LET upTo[i \in 0 .. Len(doc)] ==
            IF i = 0 THEN Begin(c)
            ELSE LET d == upTo[i - 1] IN IF d.err = "OK" THEN ParseMember(d, doc[i]) ELSE d
    IN upTo[Len(doc)]

\* SLIP: limp_vcell follows v_limp even when the document states it.
ResolveMirrors(d) ==
    [d EXCEPT !.cfg.prof = Propagate(@, d.cfg.prim), !.cfg.limp_vcell = d.cfg.prim.v_limp]

\* resolve_after_parse: limp_vcell follows v_limp unless the document states it.
ResolveAfter(d) ==
    [d EXCEPT !.cfg.prof = Propagate(@, d.cfg.prim),
              !.cfg.limp_vcell = IF d.sawLimp /\ ~d.sawLimpVcell THEN d.cfg.prim.v_limp ELSE @]

Parse(c, doc) == LET d == Overlay(c, doc) IN IF d.err = "OK" THEN ResolveAfter(d) ELSE d

-----------------------------------------------------------------------------
(* cfg_doc_emit: the whole configuration as a document                     *)

NumberJson(v) == IF v \in {Off, Wide} THEN Null ELSE Num(v)    \* a float is finite or null
FieldJson(f, v) ==
    CASE f = "require_batt_temp" -> Bool(v)
      [] f = "batt_temp_src" -> Str(IF v \in Sources THEN v ELSE "none")
      [] OTHER -> NumberJson(v)
ModeShown(mode) == IF mode = "zero" THEN "zero" ELSE "hold"
RefJson(ref, v) == IF ref \in Primitives THEN Str(ref) ELSE NumberJson(v)

EmitProfile(i, p) ==
    << InProfile(i, "id", Num(p.id)), InProfile(i, "name", Str("name")),
       InProfile(i, "reserved", Bool(p.reserved)), InProfile(i, "cv_target", RefJson(p.cv_ref, p.cv)),
       InProfile(i, "mode", Str(ModeShown(p.mode))),
       InProfile(i, "voltage", RefJson(p.rest_ref, p.rest)), InProfile(i, "v_cell", NumberJson(p.revert)) >>

Emit(c) ==
    << Member("top", "schema_version", Num("ours")), Member("top", "fw", Str("fw")) >>
    \o [i \in DOMAIN PrimitiveOrder |->
            Member("primitives", PrimitiveOrder[i], NumberJson(c.prim[PrimitiveOrder[i]]))]
    \o [i \in DOMAIN FieldOrder |->
            Member(BlockOf(FieldOrder[i]), FieldOrder[i], FieldJson(FieldOrder[i], c.f[FieldOrder[i]]))]
    \o << Member("global", "limp_vcell", NumberJson(c.limp_vcell)) >>
    \o FlattenSeq([i \in 1..Profiles |-> EmitProfile(i, c.prof[i])])
    \o << Member("top", "active_profile", Num(c.active)) >>
=============================================================================
