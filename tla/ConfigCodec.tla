---------------------------- MODULE ConfigCodec ----------------------------
(***************************************************************************)
(* config_codec.c: the record of a configuration in the EEPROM, written    *)
(* field by field, framed and read back.  Between writing and reading one  *)
(* byte may be damaged or the end cut off.                                 *)
(*                                                                         *)
(* A float is an opaque number of four bytes.  The CRC is ideal: it is the *)
(* same only if all the bytes it covers are.                               *)
(***************************************************************************)
EXTENDS Integers, SequencesExt

CONSTANTS Slots,     \* CFG_PROFILE_COUNT
          Version    \* CFG_SCHEMA_VERSION

VARIABLES
    cfg,       \* the pattern of the configuration that was written
    at,        \* the byte that was damaged, or 0
    cut        \* the length that reaches the reader

codecVars == <<cfg, at, cut>>

Field(name, type) == [name |-> name, type |-> type]
OfType(type, names) == [i \in DOMAIN names |-> Field(names[i], type)]
Width(type) == CASE type \in {"u8", "i8", "bool"} -> 1 [] type = "u16" -> 2 [] OTHER -> 4

\* encode_payload, one profile.
ProfileOut(i) ==
    OfType("u8", <<<<"id", i>>, <<"flags", i>>, <<"cv_ref", i>>, <<"rest_ref", i>>>>)
    \o <<Field(<<"cv_target", i>>, "f32"), Field(<<"exit_at_cv", i>>, "bool"), Field(<<"rest_mode", i>>, "u8")>>
    \o OfType("f32", <<<<"rest_voltage", i>>, <<"rest_power", i>>, <<"v_revert", i>>>>)
    \o <<Field(<<"t_revert", i>>, "u16"), Field(<<"soc_revert", i>>, "i8"), Field(<<"ah_revert", i>>, "f32")>>

\* encode_payload.
PayloadOut ==
    OfType("f32", <<<<"v_bulk">>, <<"v_bulk_cons">>, <<"v_float">>, <<"v_float_cons">>, <<"v_limp">>>>)
    \o OfType("u8", <<<<"cells_series">>>>)
    \o OfType("f32", <<<<"bank_capacity">>, <<"max_charge">>, <<"ramp">>, <<"p_tail">>>>)
    \o OfType("u16", <<<<"t_tail_hold">>, <<"t_vclamp">>, <<"cv_hold_exit">>, <<"t_charge_max">>, <<"warmup_time">>>>)
    \o <<Field(<<"warmup_coolant">>, "f32"), Field(<<"soc_target">>, "i8"),
         Field(<<"skip_bulk_v">>, "f32"), Field(<<"skip_bulk_soc">>, "i8")>>
    \o OfType("f32", <<<<"rotor_rated">>, <<"rotor_max">>>>)
    \o <<Field(<<"full_field_48v">>, "bool")>>
    \o OfType("f32", <<<<"limp_v">>, <<"limp_power">>, <<"c_limit">>, <<"wiring">>, <<"alternator">>>>)
    \o FlattenSeq([i \in 1 .. Slots |-> ProfileOut(i)])
    \o <<Field(<<"active">>, "u8"), Field(<<"temp_src">>, "u8"), Field(<<"require_temp">>, "bool")>>

\* decode_payload, one profile.
ProfileIn(i) ==
    OfType("u8", <<<<"id", i>>, <<"flags", i>>, <<"cv_ref", i>>, <<"rest_ref", i>>>>)
    \o <<Field(<<"cv_target", i>>, "f32"), Field(<<"exit_at_cv", i>>, "bool"), Field(<<"rest_mode", i>>, "u8")>>
    \o OfType("f32", <<<<"rest_voltage", i>>, <<"rest_power", i>>, <<"v_revert", i>>>>)
    \o <<Field(<<"t_revert", i>>, "u16"), Field(<<"soc_revert", i>>, "i8"), Field(<<"ah_revert", i>>, "f32")>>

\* decode_payload.
PayloadIn ==
    OfType("f32", <<<<"v_bulk">>, <<"v_bulk_cons">>, <<"v_float">>, <<"v_float_cons">>, <<"v_limp">>>>)
    \o OfType("u8", <<<<"cells_series">>>>)
    \o OfType("f32", <<<<"bank_capacity">>, <<"max_charge">>, <<"ramp">>, <<"p_tail">>>>)
    \o OfType("u16", <<<<"t_tail_hold">>, <<"t_vclamp">>, <<"cv_hold_exit">>, <<"t_charge_max">>, <<"warmup_time">>>>)
    \o <<Field(<<"warmup_coolant">>, "f32"), Field(<<"soc_target">>, "i8"),
         Field(<<"skip_bulk_v">>, "f32"), Field(<<"skip_bulk_soc">>, "i8")>>
    \o OfType("f32", <<<<"rotor_rated">>, <<"rotor_max">>>>)
    \o <<Field(<<"full_field_48v">>, "bool")>>
    \o OfType("f32", <<<<"limp_v">>, <<"limp_power">>, <<"c_limit">>, <<"wiring">>, <<"alternator">>>>)
    \o FlattenSeq([i \in 1 .. Slots |-> ProfileIn(i)])
    \o <<Field(<<"active">>, "u8"), Field(<<"temp_src">>, "u8"), Field(<<"require_temp">>, "bool")>>

HeaderBytes == 16
PayloadBytes == 20 + 54 + 12 + 29 * Slots + 1 + 2
RecordBytes == HeaderBytes + PayloadBytes + 4

-----------------------------------------------------------------------------
\* put_u8 to put_f32: the bytes of a number, the low one first.
Put(v, type) == [i \in 1 .. Width(type) |-> (v \div 256 ^ (i - 1)) % 256]

\* get_i8, get_u8 != 0.
SignOf(n, type) == IF type = "i8" /\ n >= 128 THEN n - 256
                   ELSE IF type = "bool" THEN (IF n # 0 THEN 1 ELSE 0) ELSE n

\* get_u8 to get_f32, at an offset; the floats here leave the highest byte zero.
Get(b, off, type) ==
    SignOf(FoldLeft(LAMBDA s, i : s + b[off + i] * 256 ^ (i - 1), 0,
                    [i \in 1 .. (IF type = "f32" THEN 3 ELSE Width(type)) |-> i]), type)

\* The numbers of a configuration: pattern "small" counts the fields, "edge" has
\* -1 where off is -1, true where a switch is on, and the highest number elsewhere.
Value(pattern, k, type) ==
    CASE pattern = "small" -> IF type = "bool" THEN 0 ELSE k
      [] type = "i8" -> -1
      [] type = "bool" -> 1
      [] type = "u8" -> 255 - k
      [] OTHER -> 65535 - k

EncodedPayload(pattern) ==
    FlattenSeq([k \in DOMAIN PayloadOut |-> Put(Value(pattern, k, PayloadOut[k].type), PayloadOut[k].type)])

\* cfg_encode, without the CRC that trails it.
Encoded(pattern, generation) ==
    <<87, 53, 67, 70>> \o Put(Version, "u16") \o Put(0, "u16") \o Put(generation, "f32")
    \o Put(PayloadBytes, "u16") \o Put(0, "u16") \o EncodedPayload(pattern)

\* What the reader is given: a byte damaged, the end cut off; the CRC is four
\* bytes that name what they were computed of.
Damaged(b) == IF at \in DOMAIN b THEN [b EXCEPT ![at] = (@ + 1) % 256] ELSE b

\* cfg_peek
Peek(b, len, crcOk) ==
    IF len < HeaderBytes THEN "SHORT"
    ELSE IF SubSeq(b, 1, 4) # <<87, 53, 67, 70>> THEN "MAGIC"
    ELSE IF Get(b, 4, "u16") # Version THEN "VERSION"
    ELSE IF Get(b, 12, "u16") # PayloadBytes THEN "LEN"
    ELSE IF len < RecordBytes THEN "SHORT"
    ELSE IF ~crcOk THEN "CRC" ELSE "OK"

Start(k) == FoldLeft(LAMBDA n, f : n + Width(f.type), 0, SubSeq(PayloadIn, 1, k - 1))

\* cfg_decode: the fields by name, or nothing when the frame is refused.
Decode(b, len, crcOk) ==
    IF Peek(b, len, crcOk) # "OK" THEN {}
    ELSE {<<PayloadIn[k].name, Get(b, HeaderBytes + Start(k), PayloadIn[k].type)>> : k \in DOMAIN PayloadIn}

-----------------------------------------------------------------------------
CodecInit == cfg = "small" /\ at = 0 /\ cut = RecordBytes

\* Every byte is damaged, then every shorter record is read, of both patterns.
CodecNext ==
    \/ at < RecordBytes /\ cut = RecordBytes /\ at' = at + 1 /\ UNCHANGED <<cfg, cut>>
    \/ at = RecordBytes /\ at' = 0 /\ cut' = RecordBytes - 1 /\ UNCHANGED cfg
    \/ cut \in 1 .. RecordBytes - 1 /\ cut' = cut - 1 /\ UNCHANGED <<cfg, at>>
    \/ cut = 0 /\ cut' = RecordBytes /\ cfg' = (IF cfg = "small" THEN "edge" ELSE "small") /\ UNCHANGED at

-----------------------------------------------------------------------------
\* The record that was written gives back every field under its own name, and one
\* that is damaged in a byte or cut short is refused: "*out untouched on any
\* rejection" (cfg_decode).
RecordReadsBack ==
    LET b == Encoded(cfg, 7)
        whole == at = 0 /\ cut = RecordBytes
        wrote == {<<PayloadOut[k].name, Value(cfg, k, PayloadOut[k].type)>> : k \in DOMAIN PayloadOut}
    IN Decode(Damaged(b), cut, at = 0) = (IF whole THEN wrote ELSE {})
=============================================================================
