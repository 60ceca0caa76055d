---------------------------- MODULE MCConfigDocs ----------------------------
(***************************************************************************)
(* Documents for the instance of ConfigMsg that TLC checks: they leave    *)
(* the defaults, move a primitive with and without what depends on it,     *)
(* switch profiles, and break one rule each.                               *)
(***************************************************************************)
EXTENDS ConfigDoc

Global(k, j) == Member("global", k, j)
Top(k, j) == Member("top", k, j)
Commission == << Global("max_charge_power_w", Num("a")), Global("p_tail_w", Num("a")) >>

docs ==
  << Commission,
    << Member("primitives", "v_limp", Num(325)) >>,
    << Member("primitives", "v_limp", Num(325)), Global("limp_vcell", Num(330)) >>,
    << InProfile(1, "voltage", Str("v_float_cons")), Member("primitives", "v_float_cons", Num(336)) >>,
    << InProfile(1, "cv_target", Num(345)), Top("fw", Str("fw")) >>,
    << Top("active_profile", Num(2)), Member("limits", "rotor_v_max", Null) >>,
    << Top("active_profile", Num(3)) >>,
    << InProfile(3, "reserved", Bool(FALSE)) >>,
    << InProfile(2, "mode", Str("Hold")) >>,
    << InProfile(3, "mode", Str("Hold")), InProfile(3, "v_cell", Num(Wide)) >>,
    << InProfile(4, "id", Num(4)) >>,
    << Global("bank_capacity_ah", Num("b")), Global("topbalance_days", Num("a")) >>,
    << Global("cells_series", Num(Wide)), Global("warmup_time_s", Null) >>,
    << Global("batt_temp_src", Str("adc_c")), Global("require_batt_temp", Bool(TRUE)) >>,
    << Global("soc_target_pct", Null), Global("limp_vcell", Num(325)) >>,
    << Top("schema_version", Num("theirs")) >>,
    << Top("primitives", Num("a")) >> >>
=============================================================================
