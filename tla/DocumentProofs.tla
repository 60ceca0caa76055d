--------------------------- MODULE DocumentProofs ---------------------------
(***************************************************************************)
(* Theorems about the documents of the configuration host interface, for   *)
(* every list of documents that are JSON and hold no key twice, and in     *)
(* every state the run of the parts (MCParts) can be in.  HostInv, the     *)
(* invariant of the host interface they build on, is proved in PartsProofs. *)
(***************************************************************************)
EXTENDS PartsProofs

-----------------------------------------------------------------------------
(* What a document means.  A member writes at one place of the configuration and   *)
(* nowhere else, so that a document is what its members write: this is what the    *)
(* order, the echo and the member that is shown again all rest on.                 *)

\* The kinds of member that mean something, by where they stand.
IsActive(a, k)    == a = "top" /\ k = "active_profile"
IsPrimitive(a, k) == a = "primitives" /\ k \in Host!Primitives
IsLimp(a, k)      == a = "global" /\ k = "limp_vcell"
IsField(a, k)     == k \in Host!Fields /\ Host!BlockOf(k) = a
IsOfProfile(a, s, k) == a = "profiles" /\ s \in 1 .. Profiles /\ k \in Host!ProfileKeys
IsSchema(a, k)    == a = "top" /\ k = "schema_version"
IsBlock(a, k)     == a = "top" /\ k \in {"primitives", "limits", "global", "profiles"}
IsFw(a, k)        == a = "top" /\ k = "fw"
IsBeyond(a, s)    == a = "profiles" /\ s \notin 1 .. Profiles

Known(m) ==
    \/ IsActive(m.in, m.key) \/ IsPrimitive(m.in, m.key) \/ IsLimp(m.in, m.key)
    \/ IsField(m.in, m.key) \/ IsOfProfile(m.in, m.slot, m.key)
    \/ IsSchema(m.in, m.key) \/ IsFw(m.in, m.key)

\* A member that does not stop the parse.
Accepted(m) ==
    /\ ~IsBlock(m.in, m.key) /\ ~IsBeyond(m.in, m.slot)
    /\ IsSchema(m.in, m.key) => m.json.t = "num" /\ m.json.v = "ours"
    /\ IsActive(m.in, m.key) => m.json.t = "num" /\ m.json.v # Wide
    /\ IsPrimitive(m.in, m.key) \/ IsLimp(m.in, m.key) => Host!Numeric(m.json)
    /\ IsField(m.in, m.key) => Host!Fits(m.key, m.json)
    /\ IsOfProfile(m.in, m.slot, m.key) => Host!ProfileFits(m.key, m.json)

\* The names of the fields.
LEMMA FieldNames ==
  /\ Host!Fields = {"battery_c_limit", "rotor_rated_v", "rotor_v_max", "cells_series",
                "bank_capacity_ah", "max_charge_power_w", "p_tail_w", "t_tail_hold_s",
                "warmup_time_s", "warmup_coolant_c", "soc_target_pct", "skip_bulk_soc_pct",
                "batt_temp_src", "require_batt_temp"}
  /\ \A i \in 1 .. 14 : Host!FieldOrder[i] \in Host!Fields
  /\ DOMAIN Host!FieldOrder = 1 .. 14
<1> DEFINE F == Host!FieldOrder
<1>1. /\ F[1] = "battery_c_limit" /\ F[2] = "rotor_rated_v" /\ F[3] = "rotor_v_max"
      /\ F[4] = "cells_series" /\ F[5] = "bank_capacity_ah" /\ F[6] = "max_charge_power_w"
      /\ F[7] = "p_tail_w" /\ F[8] = "t_tail_hold_s" /\ F[9] = "warmup_time_s"
      /\ F[10] = "warmup_coolant_c" /\ F[11] = "soc_target_pct" /\ F[12] = "skip_bulk_soc_pct"
      /\ F[13] = "batt_temp_src" /\ F[14] = "require_batt_temp"
  BY DEF Host!FieldOrder
<1>2. DOMAIN F = 1 .. 14
  BY DEF Host!FieldOrder
<1>3. Host!Fields = {F[i] : i \in 1 .. 14}
  BY <1>2 DEF Host!Fields, Host!ToSet
<1> HIDE DEF F
<1>4. Host!Fields = {F[1], F[2], F[3], F[4], F[5], F[6], F[7], F[8], F[9], F[10], F[11], F[12],
                     F[13], F[14]}
  <2>1. \A i \in 1 .. 14 : i = 1 \/ i = 2 \/ i = 3 \/ i = 4 \/ i = 5 \/ i = 6 \/ i = 7 \/ i = 8
                           \/ i = 9 \/ i = 10 \/ i = 11 \/ i = 12 \/ i = 13 \/ i = 14
    OBVIOUS
  <2>2. \A x : x \in Host!Fields => x \in {F[1], F[2], F[3], F[4], F[5], F[6], F[7], F[8], F[9], F[10], F[11], F[12],
                     F[13], F[14]}
    BY <1>3, <2>1
  <2>3. \A i \in 1 .. 14 : F[i] \in Host!Fields
    BY <1>3
  <2>4. QED
    BY <2>2, <2>3
<1>5. QED
  BY <1>1, <1>2, <1>3, <1>4 DEF F

\* No member is of two kinds.
LEMMA KindsApart ==
  ASSUME NEW a, NEW s, NEW k
  PROVE  /\ IsActive(a, k) => ~IsSchema(a, k) /\ ~IsBlock(a, k) /\ ~IsFw(a, k)
         /\ IsSchema(a, k) => ~IsBlock(a, k) /\ ~IsFw(a, k)
         /\ IsBlock(a, k) => ~IsFw(a, k)
         /\ IsActive(a, k) \/ IsSchema(a, k) \/ IsBlock(a, k) \/ IsFw(a, k) => a = "top"
         /\ IsPrimitive(a, k) => a = "primitives"
         /\ IsLimp(a, k) => a = "global" /\ ~IsField(a, k)
         /\ IsField(a, k) => a \in {"global", "limits"}
         /\ IsOfProfile(a, s, k) => a = "profiles" /\ ~IsBeyond(a, s)
         /\ IsBeyond(a, s) => a = "profiles"
<1>1. "limp_vcell" \notin Host!Fields
  BY FieldNames
<1>2. QED
  BY <1>1 DEF IsActive, IsSchema, IsBlock, IsFw, IsPrimitive, IsLimp, IsField, IsOfProfile, IsBeyond,
     Host!BlockOf

\* What ParseMember makes of each.
SchemaOut(d, j) ==
    [d EXCEPT !.err = IF j.t # "num" THEN "TYPE" ELSE IF j.v = "ours" THEN "OK" ELSE "SCHEMA"]
ActiveOut(d, j) == Host!Put(d, j.t = "num" /\ j.v # Wide, [d.cfg EXCEPT !.active = j.v])
PrimitiveOut(d, k, j) ==
    [Host!Put(d, Host!Numeric(j), [d.cfg EXCEPT !.prim[k] = j.v])
        EXCEPT !.sawLimp = IF k = "v_limp" THEN Host!Numeric(j) ELSE @]
LimpOut(d, j) ==
    [Host!Put(d, Host!Numeric(j), [d.cfg EXCEPT !.limp_vcell = j.v])
        EXCEPT !.sawLimpVcell = Host!Numeric(j)]
FieldOut(d, k, j) == Host!Put(d, Host!Fits(k, j), [d.cfg EXCEPT !.f[k] = Host!Stored(k, j)])
ProfileOut(d, s, k, j) ==
    Host!Put(d, Host!ProfileFits(k, j), [d.cfg EXCEPT !.prof[s] = Host!ProfileWith(@, k, j)])

\* ParseMember, by the kind of the member.
LEMMA MemberIs ==
  ASSUME NEW d, NEW m
  PROVE  /\ IsSchema(m.in, m.key) => Host!ParseMember(d, m) = SchemaOut(d, m.json)
         /\ IsBlock(m.in, m.key) => Host!ParseMember(d, m) = [d EXCEPT !.err = "JSON"]
         /\ IsActive(m.in, m.key) => Host!ParseMember(d, m) = ActiveOut(d, m.json)
         /\ IsFw(m.in, m.key) => Host!ParseMember(d, m) = d
         /\ IsPrimitive(m.in, m.key) => Host!ParseMember(d, m) = PrimitiveOut(d, m.key, m.json)
         /\ IsLimp(m.in, m.key) => Host!ParseMember(d, m) = LimpOut(d, m.json)
         /\ IsField(m.in, m.key) => Host!ParseMember(d, m) = FieldOut(d, m.key, m.json)
         /\ IsBeyond(m.in, m.slot) => Host!ParseMember(d, m) = [d EXCEPT !.err = "TYPE"]
         /\ IsOfProfile(m.in, m.slot, m.key) =>
               Host!ParseMember(d, m) = ProfileOut(d, m.slot, m.key, m.json)
         /\ ~Known(m) /\ ~IsBlock(m.in, m.key) /\ ~IsBeyond(m.in, m.slot) =>
               Host!ParseMember(d, m) = Host!Unknown(d)
<1> DEFINE r == Host!ParseMember(d, m)
           r1 == SchemaOut(d, m.json)
           r2 == [d EXCEPT !.err = "JSON"]
           r3 == ActiveOut(d, m.json)
           r5 == PrimitiveOut(d, m.key, m.json)
           r6 == LimpOut(d, m.json)
           r7 == FieldOut(d, m.key, m.json)
           r8 == [d EXCEPT !.err = "TYPE"]
           r9 == ProfileOut(d, m.slot, m.key, m.json)
           r10 == Host!Unknown(d)
           K1 == IsSchema(m.in, m.key)
           K2 == IsBlock(m.in, m.key)
           K3 == IsActive(m.in, m.key)
           K4 == IsFw(m.in, m.key)
           K5 == IsPrimitive(m.in, m.key)
           K6 == IsLimp(m.in, m.key)
           K7 == IsField(m.in, m.key)
           K8 == IsBeyond(m.in, m.slot)
           K9 == IsOfProfile(m.in, m.slot, m.key)
<1>1. r = CASE K1 -> r1 [] K2 -> r2 [] K3 -> r3 [] K4 -> d [] K5 -> r5 [] K6 -> r6 [] K7 -> r7
            [] K8 -> r8 [] K9 -> r9 [] OTHER -> r10
  BY DEF Host!ParseMember, IsActive, IsSchema, IsBlock, IsFw, IsPrimitive, IsLimp, IsField,
         IsOfProfile, IsBeyond, SchemaOut, ActiveOut, PrimitiveOut, LimpOut, FieldOut, ProfileOut
<1>2. /\ K1 => ~(K2 \/ K3 \/ K4 \/ K5 \/ K6 \/ K7 \/ K8 \/ K9)
      /\ K2 => ~(K3 \/ K4 \/ K5 \/ K6 \/ K7 \/ K8 \/ K9)
      /\ K3 => ~(K4 \/ K5 \/ K6 \/ K7 \/ K8 \/ K9)
      /\ K4 => ~(K5 \/ K6 \/ K7 \/ K8 \/ K9)
      /\ K5 => ~(K6 \/ K7 \/ K8 \/ K9)
      /\ K6 => ~(K7 \/ K8 \/ K9)
      /\ K7 => ~(K8 \/ K9)
      /\ K8 => ~K9
  BY KindsApart
<1>3. Known(m) <=> K1 \/ K3 \/ K4 \/ K5 \/ K6 \/ K7 \/ K9
  BY DEF Known
<1> HIDE DEF r, r1, r2, r3, r5, r6, r7, r8, r9, r10, K1, K2, K3, K4, K5, K6, K7, K8, K9
<1>4. K1 => r = r1
  BY <1>1, <1>2
<1>5. K2 => r = r2
  BY <1>1, <1>2
<1>6. K3 => r = r3
  BY <1>1, <1>2
<1>7. K4 => r = d
  BY <1>1, <1>2
<1>8. K5 => r = r5
  BY <1>1, <1>2
<1>9. K6 => r = r6
  BY <1>1, <1>2
<1>10. K7 => r = r7
  BY <1>1, <1>2
<1>11. K8 => r = r8
  BY <1>1, <1>2
<1>12. K9 => r = r9
  BY <1>1, <1>2
<1>13. ~Known(m) /\ ~K2 /\ ~K8 => r = r10
  BY <1>1, <1>3
<1>14. QED
  BY <1>4, <1>5, <1>6, <1>7, <1>8, <1>9, <1>10, <1>11, <1>12, <1>13
     DEF r, r1, r2, r3, r5, r6, r7, r8, r9, r10, K1, K2, K3, K4, K5, K6, K7, K8, K9

\* The same for each kind, with the reader's verdict on the value.
LEMMA BlockIs ==
  ASSUME NEW d, NEW m, IsBlock(m.in, m.key)
  PROVE  Host!ParseMember(d, m) = [d EXCEPT !.err = "JSON"]
BY MemberIs

LEMMA BeyondIs ==
  ASSUME NEW d, NEW m, IsBeyond(m.in, m.slot)
  PROVE  Host!ParseMember(d, m) = [d EXCEPT !.err = "TYPE"]
BY MemberIs

LEMMA SchemaIs ==
  ASSUME NEW d, NEW m, IsSchema(m.in, m.key)
  PROVE  IF m.json.t = "num" /\ m.json.v = "ours" THEN Host!ParseMember(d, m) = [d EXCEPT !.err = "OK"]
         ELSE \/ Host!ParseMember(d, m) = [d EXCEPT !.err = "TYPE"]
              \/ Host!ParseMember(d, m) = [d EXCEPT !.err = "SCHEMA"]
BY MemberIs DEF SchemaOut

LEMMA ActiveIs ==
  ASSUME NEW d, NEW m, IsActive(m.in, m.key)
  PROVE  /\ m.json.t = "num" /\ m.json.v # Wide =>
               Host!ParseMember(d, m) = [d EXCEPT !.cfg = [d.cfg EXCEPT !.active = m.json.v]]
         /\ ~(m.json.t = "num" /\ m.json.v # Wide) => Host!ParseMember(d, m) = [d EXCEPT !.err = "TYPE"]
<1>1. Host!ParseMember(d, m) = ActiveOut(d, m.json)
  BY MemberIs
<1>2. QED
  BY <1>1 DEF ActiveOut, Host!Put

LEMMA FieldIs ==
  ASSUME NEW d, NEW m, IsField(m.in, m.key)
  PROVE  /\ Host!Fits(m.key, m.json) =>
               Host!ParseMember(d, m)
                 = [d EXCEPT !.cfg = [d.cfg EXCEPT !.f[m.key] = Host!Stored(m.key, m.json)]]
         /\ ~(Host!Fits(m.key, m.json)) => Host!ParseMember(d, m) = [d EXCEPT !.err = "TYPE"]
<1>1. Host!ParseMember(d, m) = FieldOut(d, m.key, m.json)
  BY MemberIs
<1>2. QED
  BY <1>1 DEF FieldOut, Host!Put

LEMMA ProfileIs ==
  ASSUME NEW d, NEW m, IsOfProfile(m.in, m.slot, m.key)
  PROVE  /\ Host!ProfileFits(m.key, m.json) =>
               Host!ParseMember(d, m)
                 = [d EXCEPT !.cfg = [d.cfg EXCEPT !.prof[m.slot] = Host!ProfileWith(@, m.key, m.json)]]
         /\ ~(Host!ProfileFits(m.key, m.json)) => Host!ParseMember(d, m) = [d EXCEPT !.err = "TYPE"]
<1>1. Host!ParseMember(d, m) = ProfileOut(d, m.slot, m.key, m.json)
  BY MemberIs
<1>2. QED
  BY <1>1 DEF ProfileOut, Host!Put

LEMMA PrimitiveIs ==
  ASSUME NEW d, NEW m, IsPrimitive(m.in, m.key)
  PROVE  LET r == Host!ParseMember(d, m)
             q == [d EXCEPT !.cfg = [d.cfg EXCEPT !.prim[m.key] = m.json.v]]
         IN
         /\ Host!Numeric(m.json) /\ m.key = "v_limp" => r = [q EXCEPT !.sawLimp = TRUE]
         /\ Host!Numeric(m.json) /\ m.key # "v_limp" => r = [q EXCEPT !.sawLimp = @]
         /\ ~Host!Numeric(m.json) => \E x : r = [[d EXCEPT !.err = "TYPE"] EXCEPT !.sawLimp = x]
<1> DEFINE r == Host!ParseMember(d, m)
           e == [d.cfg EXCEPT !.prim[m.key] = m.json.v]
           q == [d EXCEPT !.cfg = e]
           p == Host!Put(d, Host!Numeric(m.json), e)
<1>1. /\ m.key = "v_limp" => r = [p EXCEPT !.sawLimp = Host!Numeric(m.json)]
      /\ m.key # "v_limp" => r = [p EXCEPT !.sawLimp = @]
  <2>1. r = PrimitiveOut(d, m.key, m.json)
    BY MemberIs
  <2> HIDE DEF r
  <2>2. QED
    BY <2>1 DEF PrimitiveOut
<1>2. /\ Host!Numeric(m.json) => p = q /\ Host!Numeric(m.json) = TRUE
      /\ ~Host!Numeric(m.json) => p = [d EXCEPT !.err = "TYPE"]
  BY DEF Host!Put, Host!Numeric
<1> HIDE DEF p, q, r
<1>3. Host!Numeric(m.json) /\ m.key = "v_limp" => r = [q EXCEPT !.sawLimp = TRUE]
  BY <1>1, <1>2
<1>4. Host!Numeric(m.json) /\ m.key # "v_limp" => r = [q EXCEPT !.sawLimp = @]
  BY <1>1, <1>2
<1>5. ASSUME ~Host!Numeric(m.json)
      PROVE  \E x : r = [[d EXCEPT !.err = "TYPE"] EXCEPT !.sawLimp = x]
  <2>1. \E x : r = [p EXCEPT !.sawLimp = x]
    BY <1>1
  <2>2. QED
    BY <1>2, <1>5, <2>1
<1>6. QED
  BY <1>3, <1>4, <1>5 DEF q, r

LEMMA LimpIs ==
  ASSUME NEW d, NEW m, IsLimp(m.in, m.key)
  PROVE  LET r == Host!ParseMember(d, m)
             q == [d EXCEPT !.cfg = [d.cfg EXCEPT !.limp_vcell = m.json.v]]
         IN
         /\ Host!Numeric(m.json) => r = [q EXCEPT !.sawLimpVcell = TRUE]
         /\ ~Host!Numeric(m.json) => \E x : r = [[d EXCEPT !.err = "TYPE"] EXCEPT !.sawLimpVcell = x]
<1> DEFINE r == Host!ParseMember(d, m)
           e == [d.cfg EXCEPT !.limp_vcell = m.json.v]
           q == [d EXCEPT !.cfg = e]
           p == Host!Put(d, Host!Numeric(m.json), e)
<1>1. r = [p EXCEPT !.sawLimpVcell = Host!Numeric(m.json)]
  <2>1. r = LimpOut(d, m.json)
    BY MemberIs
  <2> HIDE DEF r
  <2>2. QED
    BY <2>1 DEF LimpOut
<1>2. /\ Host!Numeric(m.json) => p = q /\ Host!Numeric(m.json) = TRUE
      /\ ~Host!Numeric(m.json) => p = [d EXCEPT !.err = "TYPE"]
  BY DEF Host!Put, Host!Numeric
<1> HIDE DEF p, q, r
<1>3. Host!Numeric(m.json) => r = [q EXCEPT !.sawLimpVcell = TRUE]
  BY <1>1, <1>2
<1>4. ASSUME ~Host!Numeric(m.json)
      PROVE  \E x : r = [[d EXCEPT !.err = "TYPE"] EXCEPT !.sawLimpVcell = x]
  BY <1>1, <1>2, <1>4
<1>5. QED
  BY <1>3, <1>4 DEF q, r

ProfileShaped(p) ==
    /\ ProfileTyped(p) /\ p = [x \in DOMAIN p |-> p[x]]
    /\ DOMAIN p = {"id", "reserved", "cv_ref", "cv", "mode", "rest_ref", "rest", "revert"}

CfgShaped(c) ==
    /\ CfgTyped(c) /\ c = [x \in DOMAIN c |-> c[x]]
    /\ DOMAIN c = {"prim", "limp_vcell", "f", "prof", "active"}
    /\ c.f = [k \in Host!Fields |-> c.f[k]]
    /\ c.prof = [i \in 1 .. Profiles |-> c.prof[i]]
    /\ \A i \in 1 .. Profiles : ProfileShaped(c.prof[i])

ParseShaped(d) ==
    /\ DOMAIN d = {"cfg", "err", "unknown", "sawLimp", "sawLimpVcell"}
    /\ d = [x \in DOMAIN d |-> d[x]] /\ CfgShaped(d.cfg)
    /\ d.unknown \in Nat /\ d.sawLimp \in BOOLEAN /\ d.sawLimpVcell \in BOOLEAN

\* A value that is put in its place leaves a configuration, and the rest of it.
LEMMA ActivePut ==
  ASSUME NEW c, CfgShaped(c), NEW v
  PROVE  LET e == [c EXCEPT !.active = v] IN
         /\ CfgShaped(e) /\ e.active = v /\ e.prim = c.prim /\ e.limp_vcell = c.limp_vcell
         /\ e.f = c.f /\ e.prof = c.prof
BY DEF CfgShaped, CfgTyped

LEMMA PrimitivePut ==
  ASSUME NEW c, CfgShaped(c), NEW k \in Host!Primitives, NEW v \in Volts
  PROVE  LET e == [c EXCEPT !.prim[k] = v] IN
         /\ CfgShaped(e) /\ e.prim = [c.prim EXCEPT ![k] = v] /\ e.active = c.active
         /\ e.limp_vcell = c.limp_vcell /\ e.f = c.f /\ e.prof = c.prof
BY DEF CfgShaped, CfgTyped

LEMMA LimpPut ==
  ASSUME NEW c, CfgShaped(c), NEW v \in Volts
  PROVE  LET e == [c EXCEPT !.limp_vcell = v] IN
         /\ CfgShaped(e) /\ e.limp_vcell = v /\ e.active = c.active /\ e.prim = c.prim
         /\ e.f = c.f /\ e.prof = c.prof
BY DEF CfgShaped, CfgTyped

LEMMA FieldPut ==
  ASSUME NEW c, CfgShaped(c), NEW k \in Host!Fields, NEW v
  PROVE  LET e == [c EXCEPT !.f[k] = v] IN
         /\ CfgShaped(e) /\ e.f = [c.f EXCEPT ![k] = v] /\ e.active = c.active
         /\ e.limp_vcell = c.limp_vcell /\ e.prim = c.prim /\ e.prof = c.prof
<1> DEFINE e == [c EXCEPT !.f[k] = v]
           g == [c.f EXCEPT ![k] = v]
<1>1. g = [x \in Host!Fields |-> g[x]]
  BY DEF CfgShaped
<1> HIDE DEF g
<1>2. [c EXCEPT !.f = g] = e
  BY DEF g, CfgShaped
<1>3. QED
  BY <1>1, <1>2 DEF CfgShaped, CfgTyped, g

LEMMA ProfilePut ==
  ASSUME NEW c, CfgShaped(c), NEW i \in 1 .. Profiles, NEW p, ProfileShaped(p)
  PROVE  LET e == [c EXCEPT !.prof[i] = p] IN
         /\ CfgShaped(e) /\ e.prof = [c.prof EXCEPT ![i] = p] /\ e.active = c.active
         /\ e.limp_vcell = c.limp_vcell /\ e.prim = c.prim /\ e.f = c.f
<1> DEFINE e == [c EXCEPT !.prof[i] = p]
           g == [c.prof EXCEPT ![i] = p]
<1>1. g = [x \in 1 .. Profiles |-> g[x]] /\ \A x \in 1 .. Profiles : ProfileShaped(g[x])
  BY DEF CfgShaped
<1>2. ProfilesTyped(g)
  BY <1>1 DEF ProfilesTyped, ProfileShaped
<1> HIDE DEF g
<1>3. [c EXCEPT !.prof = g] = e
  BY DEF g, CfgShaped
<1>4. QED
  BY <1>1, <1>2, <1>3 DEF CfgShaped, CfgTyped, g

LEMMA ProfileWithShaped ==
  ASSUME NEW p, ProfileShaped(p), NEW key, NEW j, Host!ProfileFits(key, j),
         key \in {"cv_target", "voltage"} /\ Host!Numeric(j) => j.v \in Volts
  PROVE  ProfileShaped(Host!ProfileWith(p, key, j))
<1>1. ProfileTyped(Host!ProfileWith(p, key, j))
  BY ProfileWithTyped DEF ProfileShaped
<1>2. CASE key = "cv_target"
  <2>1. Host!ProfileWith(p, key, j)
          = [p EXCEPT !.cv_ref = Host!RefOf(j), !.cv = Host!LiteralOf(j, p.cv)]
    BY <1>2 DEF Host!ProfileWith, ProfileShaped
  <2>2. QED
    BY <1>1, <2>1 DEF ProfileShaped
<1>3. CASE key = "voltage"
  <2>1. Host!ProfileWith(p, key, j)
          = [p EXCEPT !.rest_ref = Host!RefOf(j), !.rest = Host!LiteralOf(j, p.rest)]
    BY <1>3 DEF Host!ProfileWith, ProfileShaped
  <2>2. QED
    BY <1>1, <2>1 DEF ProfileShaped
<1>4. CASE key \in {"id", "reserved", "mode", "v_cell"}
  BY <1>1, <1>4 DEF Host!ProfileWith, ProfileShaped
<1>5. CASE key \notin {"id", "reserved", "mode", "v_cell", "cv_target", "voltage"}
  BY <1>5 DEF Host!ProfileWith
<1>6. QED
  BY <1>2, <1>3, <1>4, <1>5

-----------------------------------------------------------------------------
(* What stands at a place of a configuration, and what a member puts there *)

InSlot(p, k) ==
    CASE k = "id" -> p.id
      [] k = "reserved" -> p.reserved
      [] k = "cv_target" -> <<p.cv_ref, p.cv>>
      [] k = "mode" -> p.mode
      [] k = "voltage" -> <<p.rest_ref, p.rest>>
      [] k = "v_cell" -> p.revert
      [] OTHER -> Host!NoRef

\* What stands at a place: a block, a slot and a key.
At(c, t) ==
    IF IsActive(t[1], t[3]) THEN c.active
    ELSE IF IsPrimitive(t[1], t[3]) THEN c.prim[t[3]]
    ELSE IF IsLimp(t[1], t[3]) THEN c.limp_vcell
    ELSE IF IsField(t[1], t[3]) THEN c.f[t[3]]
    ELSE IF IsOfProfile(t[1], t[2], t[3]) THEN InSlot(c.prof[t[2]], t[3])
    ELSE Host!NoRef

IntoSlot(k, j, x) ==
    CASE k \in {"id", "reserved", "v_cell"} -> j.v
      [] k \in {"cv_target", "voltage"} -> <<Host!RefOf(j), Host!LiteralOf(j, x[2])>>
      [] k = "mode" -> IF j.v \in {"hold", "zero"} THEN j.v ELSE "out of enum"
      [] OTHER -> x

\* What a member leaves where x stood.
Into(m, x) ==
    IF IsActive(m.in, m.key) \/ IsPrimitive(m.in, m.key) \/ IsLimp(m.in, m.key) THEN m.json.v
    ELSE IF IsField(m.in, m.key) THEN Host!Stored(m.key, m.json)
    ELSE IF IsOfProfile(m.in, m.slot, m.key) THEN IntoSlot(m.key, m.json, x)
    ELSE x

\* Only a profile has a slot.
IsPlace(t) == t = <<t[1], t[2], t[3]>> /\ (t[1] # "profiles" => t[2] = 0)

\* e is c but for what the member m wrote.
Written(e, c, m) ==
    \A t : IsPlace(t) => At(e, t) = IF t = Host!Place(m) THEN Into(m, At(c, t)) ELSE At(c, t)

\* A member writes at its own place and nowhere else.
LEMMA SlotWritten ==
  ASSUME NEW p, ProfileShaped(p), NEW key, NEW j, NEW k
  PROVE  InSlot(Host!ProfileWith(p, key, j), k)
           = IF k = key THEN IntoSlot(k, j, InSlot(p, k)) ELSE InSlot(p, k)
<1>1. CASE key = "cv_target"
  <2>1. Host!ProfileWith(p, key, j)
          = [p EXCEPT !.cv_ref = Host!RefOf(j), !.cv = Host!LiteralOf(j, p.cv)]
    BY <1>1 DEF Host!ProfileWith, ProfileShaped
  <2>2. QED
    BY <1>1, <2>1 DEF ProfileShaped, InSlot, IntoSlot
<1>2. CASE key = "voltage"
  <2>1. Host!ProfileWith(p, key, j)
          = [p EXCEPT !.rest_ref = Host!RefOf(j), !.rest = Host!LiteralOf(j, p.rest)]
    BY <1>2 DEF Host!ProfileWith, ProfileShaped
  <2>2. QED
    BY <1>2, <2>1 DEF ProfileShaped, InSlot, IntoSlot
<1>3. CASE key = "id"
  BY <1>3 DEF Host!ProfileWith, ProfileShaped, InSlot, IntoSlot
<1>4. CASE key = "reserved"
  BY <1>4 DEF Host!ProfileWith, ProfileShaped, InSlot, IntoSlot
<1>5. CASE key = "mode"
  BY <1>5 DEF Host!ProfileWith, ProfileShaped, InSlot, IntoSlot
<1>6. CASE key = "v_cell"
  BY <1>6 DEF Host!ProfileWith, ProfileShaped, InSlot, IntoSlot
<1>7. CASE key \notin {"id", "reserved", "mode", "v_cell", "cv_target", "voltage"}
  BY <1>7 DEF Host!ProfileWith, IntoSlot, InSlot
<1>8. QED
  BY <1>1, <1>2, <1>3, <1>4, <1>5, <1>6, <1>7

LEMMA PlaceParts ==
  ASSUME NEW m
  PROVE  Host!Place(m)[1] = m.in /\ Host!Place(m)[2] = m.slot /\ Host!Place(m)[3] = m.key
BY DEF Host!Place

\* The places of one kind that are not the member's have another key (or slot).
LEMMA OtherPlace ==
  ASSUME NEW t, IsPlace(t), NEW m, IsPlace(Host!Place(m)), t # Host!Place(m)
  PROVE  /\ t[1] = m.in /\ m.in # "profiles" => t[3] # m.key
         /\ t[1] = m.in /\ t[2] = m.slot => t[3] # m.key
BY DEF IsPlace, Host!Place

LEMMA ActiveWritten ==
  ASSUME NEW c, CfgShaped(c), NEW m, IsPlace(Host!Place(m)), IsActive(m.in, m.key)
  PROVE  Written([c EXCEPT !.active = m.json.v], c, m)
<1> DEFINE e == [c EXCEPT !.active = m.json.v]
<1>1. /\ e.active = m.json.v /\ e.prim = c.prim /\ e.limp_vcell = c.limp_vcell
      /\ e.f = c.f /\ e.prof = c.prof
  BY ActivePut
<1> HIDE DEF e
<1>2. ASSUME NEW t, IsPlace(t)
      PROVE  At(e, t) = IF t = Host!Place(m) THEN Into(m, At(c, t)) ELSE At(c, t)
  <2>1. CASE t = Host!Place(m)
    BY <1>1, <2>1, PlaceParts DEF At, Into
  <2>2. CASE t # Host!Place(m)
    <3>1. ~IsActive(t[1], t[3])
      BY <1>2, <2>2, OtherPlace DEF IsActive
    <3>2. QED
      BY <1>1, <2>2, <3>1 DEF At
  <2>3. QED
    BY <2>1, <2>2
<1>3. QED
  BY <1>2 DEF Written, e

LEMMA PrimitiveWritten ==
  ASSUME NEW c, CfgShaped(c), NEW m, IsPlace(Host!Place(m)), IsPrimitive(m.in, m.key),
         m.json.v \in Volts
  PROVE  Written([c EXCEPT !.prim[m.key] = m.json.v], c, m)
<1> DEFINE e == [c EXCEPT !.prim[m.key] = m.json.v]
<1>1. /\ e.active = c.active /\ e.prim = [c.prim EXCEPT ![m.key] = m.json.v]
      /\ e.limp_vcell = c.limp_vcell /\ e.f = c.f /\ e.prof = c.prof
  BY PrimitivePut DEF IsPrimitive
<1>2. c.prim \in [Host!Primitives -> Volts]
  BY DEF CfgShaped, CfgTyped
<1> HIDE DEF e
<1>3. ASSUME NEW t, IsPlace(t)
      PROVE  At(e, t) = IF t = Host!Place(m) THEN Into(m, At(c, t)) ELSE At(c, t)
  <2>0. ~IsActive(m.in, m.key)
    BY KindsApart
  <2>1. CASE t = Host!Place(m)
    <3>1. At(e, t) = e.prim[m.key]
      BY <2>0, <2>1, PlaceParts DEF At
    <3>2. e.prim[m.key] = m.json.v
      BY <1>1, <1>2 DEF IsPrimitive
    <3>3. QED
      BY <2>1, <3>1, <3>2 DEF Into
  <2>2. CASE t # Host!Place(m)
    <3>1. IsPrimitive(t[1], t[3]) => t[3] # m.key
      BY <1>3, <2>2, OtherPlace DEF IsPrimitive
    <3>2. IsPrimitive(t[1], t[3]) => e.prim[t[3]] = c.prim[t[3]]
      BY <1>1, <1>2, <3>1 DEF IsPrimitive
    <3>3. QED
      BY <1>1, <2>2, <3>2 DEF At
  <2>3. QED
    BY <2>1, <2>2
<1>4. QED
  BY <1>3 DEF Written, e

LEMMA LimpWritten ==
  ASSUME NEW c, CfgShaped(c), NEW m, IsPlace(Host!Place(m)), IsLimp(m.in, m.key),
         m.json.v \in Volts
  PROVE  Written([c EXCEPT !.limp_vcell = m.json.v], c, m)
<1> DEFINE e == [c EXCEPT !.limp_vcell = m.json.v]
<1>1. /\ e.active = c.active /\ e.prim = c.prim /\ e.limp_vcell = m.json.v
      /\ e.f = c.f /\ e.prof = c.prof
  BY LimpPut
<1> HIDE DEF e
<1>2. ASSUME NEW t, IsPlace(t)
      PROVE  At(e, t) = IF t = Host!Place(m) THEN Into(m, At(c, t)) ELSE At(c, t)
  <2>0. ~IsActive(m.in, m.key) /\ ~IsPrimitive(m.in, m.key)
    BY KindsApart
  <2>1. CASE t = Host!Place(m)
    BY <1>1, <2>0, <2>1, PlaceParts DEF At, Into
  <2>2. CASE t # Host!Place(m)
    <3>1. ~IsLimp(t[1], t[3])
      BY <1>2, <2>2, OtherPlace DEF IsLimp
    <3>2. QED
      BY <1>1, <2>2, <3>1 DEF At
  <2>3. QED
    BY <2>1, <2>2
<1>3. QED
  BY <1>2 DEF Written, e

LEMMA FieldWritten ==
  ASSUME NEW c, CfgShaped(c), NEW m, IsPlace(Host!Place(m)), IsField(m.in, m.key)
  PROVE  Written([c EXCEPT !.f[m.key] = Host!Stored(m.key, m.json)], c, m)
<1> DEFINE v == Host!Stored(m.key, m.json)
           e == [c EXCEPT !.f[m.key] = v]
<1>1. /\ e.active = c.active /\ e.f = [c.f EXCEPT ![m.key] = v] /\ e.prim = c.prim
      /\ e.limp_vcell = c.limp_vcell /\ e.prof = c.prof
  BY FieldPut DEF IsField
<1>2. c.f = [k \in Host!Fields |-> c.f[k]]
  BY DEF CfgShaped
<1> HIDE DEF e, v
<1>3. ASSUME NEW t, IsPlace(t)
      PROVE  At(e, t) = IF t = Host!Place(m) THEN Into(m, At(c, t)) ELSE At(c, t)
  <2>0. ~IsActive(m.in, m.key) /\ ~IsPrimitive(m.in, m.key) /\ ~IsLimp(m.in, m.key)
    BY KindsApart
  <2>1. CASE t = Host!Place(m)
    <3>1. At(e, t) = e.f[m.key]
      BY <2>0, <2>1, PlaceParts DEF At
    <3>2. e.f[m.key] = v
      BY <1>1, <1>2 DEF IsField
    <3>3. QED
      BY <2>0, <2>1, <3>1, <3>2 DEF Into, v
  <2>2. CASE t # Host!Place(m)
    <3>1. IsField(t[1], t[3]) => t[3] # m.key
      BY <1>3, <2>2, OtherPlace DEF IsField, Host!BlockOf
    <3>2. IsField(t[1], t[3]) => e.f[t[3]] = c.f[t[3]]
      BY <1>1, <1>2, <3>1 DEF IsField
    <3>3. QED
      BY <1>1, <2>2, <3>2 DEF At
  <2>3. QED
    BY <2>1, <2>2
<1>4. QED
  BY <1>3 DEF Written, e, v

LEMMA ProfileWritten ==
  ASSUME NEW c, CfgShaped(c), NEW m, IsPlace(Host!Place(m)), IsOfProfile(m.in, m.slot, m.key),
         ProfileShaped(Host!ProfileWith(c.prof[m.slot], m.key, m.json))
  PROVE  Written([c EXCEPT !.prof[m.slot] = Host!ProfileWith(c.prof[m.slot], m.key, m.json)], c, m)
<1> DEFINE p == Host!ProfileWith(c.prof[m.slot], m.key, m.json)
           e == [c EXCEPT !.prof[m.slot] = p]
<1>1. /\ e.active = c.active /\ e.f = c.f /\ e.prim = c.prim
      /\ e.limp_vcell = c.limp_vcell /\ e.prof = [c.prof EXCEPT ![m.slot] = p]
  BY ProfilePut DEF IsOfProfile
<1>2. c.prof = [i \in 1 .. Profiles |-> c.prof[i]] /\ ProfileShaped(c.prof[m.slot])
  BY DEF CfgShaped, IsOfProfile
<1>3. \A k : InSlot(p, k) = IF k = m.key THEN IntoSlot(k, m.json, InSlot(c.prof[m.slot], k))
                            ELSE InSlot(c.prof[m.slot], k)
  BY <1>2, SlotWritten
<1> HIDE DEF e, p
<1>4. ASSUME NEW t, IsPlace(t)
      PROVE  At(e, t) = IF t = Host!Place(m) THEN Into(m, At(c, t)) ELSE At(c, t)
  <2>0. /\ ~IsActive(m.in, m.key) /\ ~IsPrimitive(m.in, m.key) /\ ~IsLimp(m.in, m.key)
        /\ ~IsField(m.in, m.key)
    BY KindsApart
  <2>1. CASE t = Host!Place(m)
    <3>1. \A b : At(b, t) = InSlot(b.prof[m.slot], m.key)
      BY <2>0, <2>1, PlaceParts DEF At
    <3>2. e.prof[m.slot] = p
      BY <1>1, <1>2 DEF IsOfProfile
    <3>3. \A x : Into(m, x) = IntoSlot(m.key, m.json, x)
      BY <2>0 DEF Into
    <3>4. QED
      BY <1>3, <2>1, <3>1, <3>2, <3>3
  <2>2. CASE t # Host!Place(m)
    <3>1. IsOfProfile(t[1], t[2], t[3]) /\ t[2] = m.slot => t[3] # m.key
      BY <1>4, <2>2, OtherPlace DEF IsOfProfile
    <3>2. IsOfProfile(t[1], t[2], t[3]) => e.prof[t[2]] = IF t[2] = m.slot THEN p ELSE c.prof[t[2]]
      BY <1>1, <1>2 DEF IsOfProfile
    <3>3. IsOfProfile(t[1], t[2], t[3]) => InSlot(e.prof[t[2]], t[3]) = InSlot(c.prof[t[2]], t[3])
      BY <1>3, <3>1, <3>2
    <3>4. QED
      BY <1>1, <2>2, <3>3 DEF At
  <2>3. QED
    BY <2>1, <2>2
<1>5. QED
  BY <1>4 DEF Written, e, p

IsLimpPrimitive(m) == m.in = "primitives" /\ m.key = "v_limp"

\* The parse r, after the member m was taken by the parse d.
Wrote(r, d, m) ==
    /\ ParseShaped(r) /\ r.err = "OK" /\ Written(r.cfg, d.cfg, m)
    /\ r.unknown = d.unknown + (IF Known(m) THEN 0 ELSE 1)
    /\ r.sawLimp = (d.sawLimp \/ IsLimpPrimitive(m))
    /\ r.sawLimpVcell = (d.sawLimpVcell \/ IsLimp(m.in, m.key))

\* A member that is put, with what it raises.
LEMMA PutWrote ==
  ASSUME NEW d, ParseShaped(d), d.err = "OK", NEW m, Known(m), NEW e, CfgShaped(e), Written(e, d.cfg, m)
  PROVE  /\ ~IsLimpPrimitive(m) /\ ~IsLimp(m.in, m.key) => Wrote([d EXCEPT !.cfg = e], d, m)
         /\ IsLimpPrimitive(m) /\ ~IsLimp(m.in, m.key) =>
               Wrote([[d EXCEPT !.cfg = e] EXCEPT !.sawLimp = TRUE], d, m)
         /\ ~IsLimpPrimitive(m) /\ IsLimp(m.in, m.key) =>
               Wrote([[d EXCEPT !.cfg = e] EXCEPT !.sawLimpVcell = TRUE], d, m)
<1> DEFINE q == [d EXCEPT !.cfg = e]
           q1 == [q EXCEPT !.sawLimp = TRUE]
           q2 == [q EXCEPT !.sawLimpVcell = TRUE]
<1>1. /\ d.unknown \in Nat /\ d.unknown + 0 = d.unknown
      /\ d.sawLimp \in BOOLEAN /\ d.sawLimpVcell \in BOOLEAN
  BY DEF ParseShaped
<1>2. /\ ParseShaped(q) /\ q.cfg = e /\ q.err = "OK" /\ q.unknown = d.unknown /\ q.sawLimp = d.sawLimp
      /\ q.sawLimpVcell = d.sawLimpVcell
  BY DEF ParseShaped
<1> HIDE DEF q
<1>3. /\ ParseShaped(q1) /\ q1.cfg = e /\ q1.err = "OK" /\ q1.unknown = d.unknown
      /\ q1.sawLimp = TRUE /\ q1.sawLimpVcell = d.sawLimpVcell
  BY <1>2 DEF ParseShaped
<1>4. /\ ParseShaped(q2) /\ q2.cfg = e /\ q2.err = "OK" /\ q2.unknown = d.unknown
      /\ q2.sawLimp = d.sawLimp /\ q2.sawLimpVcell = TRUE
  BY <1>2 DEF ParseShaped
<1>5. /\ (IsLimpPrimitive(m) => (d.sawLimp \/ IsLimpPrimitive(m)) = TRUE)
      /\ (IsLimp(m.in, m.key) => (d.sawLimpVcell \/ IsLimp(m.in, m.key)) = TRUE)
      /\ (~IsLimpPrimitive(m) => (d.sawLimp \/ IsLimpPrimitive(m)) = d.sawLimp)
      /\ (~IsLimp(m.in, m.key) => (d.sawLimpVcell \/ IsLimp(m.in, m.key)) = d.sawLimpVcell)
  BY <1>1
<1> HIDE DEF q1, q2
<1>6. d.unknown + (IF Known(m) THEN 0 ELSE 1) = d.unknown
  BY <1>1
<1>7. ~IsLimpPrimitive(m) /\ ~IsLimp(m.in, m.key) => Wrote(q, d, m)
  BY Zenon, <1>2, <1>5, <1>6 DEF Wrote
<1>8. IsLimpPrimitive(m) /\ ~IsLimp(m.in, m.key) => Wrote(q1, d, m)
  BY Zenon, <1>3, <1>5, <1>6 DEF Wrote
<1>9. ~IsLimpPrimitive(m) /\ IsLimp(m.in, m.key) => Wrote(q2, d, m)
  BY Zenon, <1>4, <1>5, <1>6 DEF Wrote
<1>10. QED
  BY <1>7, <1>8, <1>9 DEF q, q1, q2

\* A member that means nothing writes nothing.
LEMMA NothingWritten ==
  ASSUME NEW m, IsPlace(Host!Place(m)),
         ~IsActive(m.in, m.key), ~IsPrimitive(m.in, m.key), ~IsLimp(m.in, m.key),
         ~IsField(m.in, m.key), ~IsOfProfile(m.in, m.slot, m.key), NEW c
  PROVE  Written(c, c, m)
BY DEF Written, Into

\* A member that does not stop the parse writes what it says and raises its flags.
LEMMA MemberWrites ==
  ASSUME NEW d, ParseShaped(d), d.err = "OK", NEW m, MemberTyped(m), IsPlace(Host!Place(m)),
         Accepted(m)
  PROVE  Wrote(Host!ParseMember(d, m), d, m)
<1> DEFINE r == Host!ParseMember(d, m)
           j == m.json
           c == d.cfg
<1>1. CfgShaped(c) /\ d.unknown \in Nat /\ d.sawLimp \in BOOLEAN /\ d.sawLimpVcell \in BOOLEAN
  BY DEF ParseShaped
<1>2. Host!InVolts(m) /\ Host!Numeric(j) => j.v \in Volts
  BY DEF MemberTyped, Host!Numeric, Volts
<1>3. ~IsPrimitive(m.in, m.key) => ~IsLimpPrimitive(m)
  BY PrimitiveNames DEF IsPrimitive, IsLimpPrimitive
<1>4. CASE IsActive(m.in, m.key)
  <2>1. r = [d EXCEPT !.cfg = [c EXCEPT !.active = j.v]]
    BY <1>4, ActiveIs DEF Accepted
  <2>2. CfgShaped([c EXCEPT !.active = j.v]) /\ Written([c EXCEPT !.active = j.v], c, m)
    BY <1>1, <1>4, ActivePut, ActiveWritten
  <2>3. ~IsLimpPrimitive(m) /\ ~IsLimp(m.in, m.key) /\ Known(m)
    BY <1>3, <1>4, KindsApart DEF Known
  <2> DEFINE e == [c EXCEPT !.active = j.v]
  <2> HIDE DEF e, r
  <2>4. Wrote([d EXCEPT !.cfg = e], d, m)
    BY <2>2, <2>3, PutWrote DEF e
  <2>5. QED
    BY <2>1, <2>4 DEF e, r
<1>5. CASE IsPrimitive(m.in, m.key)
  <2> DEFINE e == [c EXCEPT !.prim[m.key] = j.v]
             q == [d EXCEPT !.cfg = e]
  <2>1. Host!Numeric(j) /\ j.v \in Volts /\ ~IsLimp(m.in, m.key) /\ Known(m)
    BY <1>2, <1>5, KindsApart DEF Accepted, Known, Host!InVolts, IsPrimitive
  <2>2. CfgShaped(e) /\ Written(e, c, m)
    BY <1>1, <1>5, <2>1, PrimitivePut, PrimitiveWritten DEF IsPrimitive
  <2>3. /\ m.key = "v_limp" => r = [q EXCEPT !.sawLimp = TRUE]
        /\ m.key # "v_limp" => r = [q EXCEPT !.sawLimp = q.sawLimp]
    BY <1>5, <2>1, PrimitiveIs
  <2> HIDE DEF e, r
  <2>4. CASE m.key = "v_limp"
    <3>1. IsLimpPrimitive(m)
      BY <1>5, <2>4 DEF IsLimpPrimitive, IsPrimitive
    <3>2. Wrote([q EXCEPT !.sawLimp = TRUE], d, m)
      BY <2>1, <2>2, <3>1, PutWrote
    <3>3. QED
      BY <2>3, <2>4, <3>2 DEF r
  <2>5. CASE m.key # "v_limp"
    <3>1. ~IsLimpPrimitive(m)
      BY <2>5 DEF IsLimpPrimitive
    <3>2. [q EXCEPT !.sawLimp = q.sawLimp] = q
      BY DEF ParseShaped
    <3>3. r = q
      BY <2>3, <2>5, <3>2
    <3>4. Wrote(q, d, m)
      BY <2>1, <2>2, <3>1, PutWrote
    <3>5. QED
      BY <3>3, <3>4 DEF r
  <2>6. QED
    BY <2>4, <2>5
<1>6. CASE IsLimp(m.in, m.key)
  <2> DEFINE e == [c EXCEPT !.limp_vcell = j.v]
             q == [d EXCEPT !.cfg = e]
  <2>1. Host!Numeric(j) /\ j.v \in Volts /\ ~IsLimpPrimitive(m) /\ Known(m)
    BY <1>2, <1>3, <1>6, KindsApart DEF Accepted, Known, Host!InVolts, IsLimp
  <2>2. CfgShaped(e) /\ Written(e, c, m)
    BY <1>1, <1>6, <2>1, LimpPut, LimpWritten
  <2>3. r = [q EXCEPT !.sawLimpVcell = TRUE]
    BY <1>6, <2>1, LimpIs
  <2> HIDE DEF e, r
  <2>4. Wrote([q EXCEPT !.sawLimpVcell = TRUE], d, m)
    BY <1>6, <2>1, <2>2, PutWrote
  <2>5. QED
    BY <2>3, <2>4 DEF r
<1>7. CASE IsField(m.in, m.key)
  <2> DEFINE e == [c EXCEPT !.f[m.key] = Host!Stored(m.key, j)]
  <2>1. r = [d EXCEPT !.cfg = e]
    BY <1>7, FieldIs DEF Accepted
  <2>2. CfgShaped(e) /\ Written(e, c, m)
    BY <1>1, <1>7, FieldPut, FieldWritten DEF IsField
  <2>3. ~IsLimpPrimitive(m) /\ ~IsLimp(m.in, m.key) /\ Known(m)
    BY <1>3, <1>7, KindsApart DEF Known
  <2> HIDE DEF e, r
  <2>4. Wrote([d EXCEPT !.cfg = e], d, m)
    BY <2>2, <2>3, PutWrote
  <2>5. QED
    BY <2>1, <2>4 DEF r
<1>8. CASE IsOfProfile(m.in, m.slot, m.key)
  <2> DEFINE p == Host!ProfileWith(c.prof[m.slot], m.key, j)
             e == [c EXCEPT !.prof[m.slot] = p]
  <2>1. Host!ProfileFits(m.key, j)
    BY <1>8 DEF Accepted
  <2>2. r = [d EXCEPT !.cfg = e]
    BY <1>8, <2>1, ProfileIs
  <2>3. ProfileShaped(p)
    <3>1. ProfileShaped(c.prof[m.slot])
      BY <1>1, <1>8 DEF CfgShaped, IsOfProfile
    <3>2. m.key \in {"cv_target", "voltage"} /\ Host!Numeric(j) => j.v \in Volts
      BY <1>2 DEF Host!InVolts
    <3>3. QED
      BY <2>1, <3>1, <3>2, ProfileWithShaped
  <2>4. CfgShaped(e) /\ Written(e, c, m)
    BY <1>1, <1>8, <2>3, ProfilePut, ProfileWritten DEF IsOfProfile
  <2>5. ~IsLimpPrimitive(m) /\ ~IsLimp(m.in, m.key) /\ Known(m)
    BY <1>3, <1>8, KindsApart DEF Known
  <2> HIDE DEF e, r
  <2>6. Wrote([d EXCEPT !.cfg = e], d, m)
    BY <2>4, <2>5, PutWrote
  <2>7. QED
    BY <2>2, <2>6 DEF r
<1>9. CASE ~(IsActive(m.in, m.key) \/ IsPrimitive(m.in, m.key) \/ IsLimp(m.in, m.key)
             \/ IsField(m.in, m.key) \/ IsOfProfile(m.in, m.slot, m.key))
  <2>1. Written(c, c, m) /\ ~IsLimpPrimitive(m)
    BY <1>3, <1>9, NothingWritten
  <2>2. CASE IsSchema(m.in, m.key)
    <3>1. r = [d EXCEPT !.err = "OK"]
      <4>1. j.t = "num" /\ j.v = "ours"
        BY <2>2 DEF Accepted
      <4>2. QED
        BY <2>2, <4>1, SchemaIs
    <3>2. r = d
      BY <3>1 DEF ParseShaped
    <3>3. QED
      BY <1>1, <1>9, <2>1, <2>2, <3>2 DEF Wrote, Known
  <2>3. CASE IsFw(m.in, m.key)
    <3>1. r = d
      BY <2>3, MemberIs
    <3>2. QED
      BY <1>1, <1>9, <2>1, <2>3, <3>1 DEF Wrote, Known
  <2>4. CASE ~IsSchema(m.in, m.key) /\ ~IsFw(m.in, m.key)
    <3>1. ~Known(m) /\ r = Host!Unknown(d)
      BY <1>9, <2>4, MemberIs DEF Accepted, Known
    <3>2. r = [d EXCEPT !.unknown = d.unknown + 1]
      BY <3>1 DEF Host!Unknown, ParseShaped
    <3>3. ParseShaped(r) /\ r.cfg = c /\ r.err = "OK" /\ r.unknown = d.unknown + 1 /\ r.sawLimp = d.sawLimp
          /\ r.sawLimpVcell = d.sawLimpVcell
      BY <1>1, <3>2 DEF ParseShaped
    <3> HIDE DEF r
    <3>4. QED
      BY <1>1, <1>9, <2>1, <3>1, <3>3 DEF Wrote, r
  <2>5. QED
    BY <2>2, <2>3, <2>4
<1>10. QED
  BY <1>4, <1>5, <1>6, <1>7, <1>8, <1>9

\* A member that is not accepted stops the parse.
LEMMA MemberRefused ==
  ASSUME NEW d, ParseShaped(d), NEW m, ~Accepted(m)
  PROVE  Host!ParseMember(d, m).err # "OK"
<1> DEFINE r == Host!ParseMember(d, m)
           j == m.json
           c == d.cfg
<1>1. /\ [d EXCEPT !.err = "JSON"].err = "JSON" /\ [d EXCEPT !.err = "TYPE"].err = "TYPE"
      /\ [d EXCEPT !.err = "SCHEMA"].err = "SCHEMA"
  BY DEF ParseShaped
<1>2. ParseShaped(d)
  OBVIOUS
<1>3. ASSUME NEW x
      PROVE  /\ [[d EXCEPT !.err = "TYPE"] EXCEPT !.sawLimp = x].err = "TYPE"
             /\ [[d EXCEPT !.err = "TYPE"] EXCEPT !.sawLimpVcell = x].err = "TYPE"
  BY DEF ParseShaped
<1>4. CASE IsBlock(m.in, m.key)
  BY <1>1, <1>4, BlockIs
<1>5. CASE IsBeyond(m.in, m.slot)
  <2>1. r = [d EXCEPT !.err = "TYPE"]
    BY <1>5, BeyondIs
  <2>2. QED
    BY <1>1, <2>1
<1>6. CASE IsSchema(m.in, m.key) /\ ~(j.t = "num" /\ j.v = "ours")
  <2>1. r = [d EXCEPT !.err = "TYPE"] \/ r = [d EXCEPT !.err = "SCHEMA"]
    BY <1>6, SchemaIs
  <2> HIDE DEF r
  <2>2. r.err # "OK"
    BY <1>1, <2>1
  <2>3. QED
    BY <2>2 DEF r
<1>7. CASE IsActive(m.in, m.key) /\ ~(j.t = "num" /\ j.v # Wide)
  <2>1. r = [d EXCEPT !.err = "TYPE"]
    BY <1>7, ActiveIs
  <2>2. QED
    BY <1>1, <2>1
<1>8. CASE IsPrimitive(m.in, m.key) /\ ~Host!Numeric(j)
  <2>1. \E x : r = [[d EXCEPT !.err = "TYPE"] EXCEPT !.sawLimp = x]
    BY <1>8, PrimitiveIs
  <2> HIDE DEF r
  <2>2. r.err = "TYPE"
    BY <1>3, <2>1
  <2>3. QED
    BY <2>2 DEF r
<1>9. CASE IsLimp(m.in, m.key) /\ ~Host!Numeric(j)
  <2>1. \E x : r = [[d EXCEPT !.err = "TYPE"] EXCEPT !.sawLimpVcell = x]
    BY <1>9, LimpIs
  <2> HIDE DEF r
  <2>2. r.err = "TYPE"
    BY <1>3, <2>1
  <2>3. QED
    BY <2>2 DEF r
<1>10. CASE IsField(m.in, m.key) /\ ~Host!Fits(m.key, j)
  <2>1. r = [d EXCEPT !.err = "TYPE"]
    BY <1>10, FieldIs
  <2>2. QED
    BY <1>1, <2>1
<1>11. CASE IsOfProfile(m.in, m.slot, m.key) /\ ~Host!ProfileFits(m.key, j)
  <2>1. r = [d EXCEPT !.err = "TYPE"]
    BY <1>11, ProfileIs
  <2>2. QED
    BY <1>1, <2>1
<1>12. QED
  BY <1>4, <1>5, <1>6, <1>7, <1>8, <1>9, <1>10, <1>11 DEF Accepted

\* Writing twice is writing once: a reference leaves the literal that stood there.
LEMMA IntoTwice ==
  ASSUME NEW m, NEW x
  PROVE  Into(m, Into(m, x)) = Into(m, x)
<1>1. \A k, j : IntoSlot(k, j, IntoSlot(k, j, x)) = IntoSlot(k, j, x)
  BY DEF IntoSlot, Host!LiteralOf
<1>2. QED
  BY <1>1 DEF Into

\* What the first n members of a document come to, X being what stands where they write.
Comes(d, c, doc, n_, X) ==
    /\ d.err = "OK" <=> \A k \in 1 .. n_ : Accepted(doc[k])
    /\ d.err = "OK" =>
         /\ ParseShaped(d)
         /\ d.unknown = 0 <=> \A k \in 1 .. n_ : Known(doc[k])
         /\ d.sawLimp <=> \E k \in 1 .. n_ : IsLimpPrimitive(doc[k])
         /\ d.sawLimpVcell <=> \E k \in 1 .. n_ : IsLimp(doc[k].in, doc[k].key)
         /\ \A t : IsPlace(t) => At(d.cfg, t) = IF \E k \in 1 .. n_ : Host!Place(doc[k]) = t
                                                THEN X[t] ELSE At(c, t)

\* One member more.
LEMMA OneMoreComes ==
  ASSUME NEW c, NEW doc, NEW X, NEW i \in Nat \ {0}, NEW d, Comes(d, c, doc, i - 1, X),
         MemberTyped(doc[i]), IsPlace(Host!Place(doc[i])),
         Into(doc[i], At(c, Host!Place(doc[i]))) = X[Host!Place(doc[i])]
  PROVE  Comes(ReadOn(d, doc[i]), c, doc, i, X)
<1> DEFINE m == doc[i]
           r == ReadOn(d, m)
<1>1. 1 .. i = (1 .. i - 1) \cup {i}
  OBVIOUS
<1>2. /\ (\A k \in 1 .. i : Accepted(doc[k])) <=> (\A k \in 1 .. i - 1 : Accepted(doc[k])) /\ Accepted(m)
      /\ (\A k \in 1 .. i : Known(doc[k])) <=> (\A k \in 1 .. i - 1 : Known(doc[k])) /\ Known(m)
      /\ (\E k \in 1 .. i : IsLimpPrimitive(doc[k])) <=>
           (\E k \in 1 .. i - 1 : IsLimpPrimitive(doc[k])) \/ IsLimpPrimitive(m)
      /\ (\E k \in 1 .. i : IsLimp(doc[k].in, doc[k].key)) <=>
           (\E k \in 1 .. i - 1 : IsLimp(doc[k].in, doc[k].key)) \/ IsLimp(m.in, m.key)
      /\ \A t : (\E k \in 1 .. i : Host!Place(doc[k]) = t) <=>
           (\E k \in 1 .. i - 1 : Host!Place(doc[k]) = t) \/ Host!Place(m) = t
  BY <1>1
<1>3. CASE d.err # "OK"
  <2>1. r = d
    BY <1>3 DEF ReadOn
  <2>2. ~(\A k \in 1 .. i - 1 : Accepted(doc[k]))
    BY <1>3 DEF Comes
  <2> HIDE DEF r
  <2>3. QED
    BY <1>2, <1>3, <2>1, <2>2 DEF Comes, r
<1>4. CASE d.err = "OK" /\ ~Accepted(m)
  <2>1. r = Host!ParseMember(d, m) /\ ParseShaped(d)
    BY <1>4 DEF ReadOn, Comes
  <2>2. r.err # "OK"
    BY <1>4, <2>1, MemberRefused
  <2> HIDE DEF r
  <2>3. QED
    BY <1>2, <1>4, <2>2 DEF Comes, r
<1>5. CASE d.err = "OK" /\ Accepted(m)
  <2>1. r = Host!ParseMember(d, m) /\ ParseShaped(d)
    BY <1>5 DEF ReadOn, Comes
  <2>2. Wrote(r, d, m)
    BY <1>5, <2>1, MemberWrites
  <2> HIDE DEF r
  <2>3. r.err = "OK" /\ ParseShaped(r) /\ \A k \in 1 .. i : Accepted(doc[k])
    BY <1>2, <1>5, <2>2 DEF Wrote, Comes
  <2>4. r.unknown = 0 <=> \A k \in 1 .. i : Known(doc[k])
    <3>1. d.unknown \in Nat /\ r.unknown = d.unknown + (IF Known(m) THEN 0 ELSE 1)
      BY <2>1, <2>2 DEF ParseShaped, Wrote
    <3>2. r.unknown = 0 <=> d.unknown = 0 /\ Known(m)
      BY <3>1
    <3>3. QED
      BY <1>2, <1>5, <3>2 DEF Comes
  <2>5. r.sawLimp <=> \E k \in 1 .. i : IsLimpPrimitive(doc[k])
    <3>1. r.sawLimp <=> (d.sawLimp \/ IsLimpPrimitive(m))
      BY <2>2 DEF Wrote
    <3>2. QED
      BY <1>2, <1>5, <3>1 DEF Comes
  <2>6. r.sawLimpVcell <=> \E k \in 1 .. i : IsLimp(doc[k].in, doc[k].key)
    <3>1. r.sawLimpVcell <=> (d.sawLimpVcell \/ IsLimp(m.in, m.key))
      BY <2>2 DEF Wrote
    <3>2. QED
      BY <1>2, <1>5, <3>1 DEF Comes
  <2>7. ASSUME NEW t, IsPlace(t)
        PROVE  At(r.cfg, t) = IF \E k \in 1 .. i : Host!Place(doc[k]) = t THEN X[t] ELSE At(c, t)
    <3>1. At(d.cfg, t) = IF \E k \in 1 .. i - 1 : Host!Place(doc[k]) = t THEN X[t] ELSE At(c, t)
      BY <1>5, <2>7 DEF Comes
    <3>2. At(r.cfg, t) = IF t = Host!Place(m) THEN Into(m, At(d.cfg, t)) ELSE At(d.cfg, t)
      BY <2>2, <2>7 DEF Wrote, Written
    <3>3. t = Host!Place(m) => Into(m, At(c, t)) = X[t] /\ Into(m, X[t]) = X[t]
      BY IntoTwice
    <3>4. QED
      BY <1>2, <3>1, <3>2, <3>3
  <2>8. QED
    BY <2>3, <2>4, <2>5, <2>6, <2>7 DEF Comes, r
<1>6. QED
  BY <1>3, <1>4, <1>5

\* A whole document: it stops at no member, and what stands where is as its members say.
LEMMA DocumentComes ==
  ASSUME NEW c, CfgShaped(c), NEW doc, Len(doc) \in Nat, NEW X,
         \A k \in 1 .. Len(doc) :
            /\ MemberTyped(doc[k]) /\ IsPlace(Host!Place(doc[k]))
            /\ Into(doc[k], At(c, Host!Place(doc[k]))) = X[Host!Place(doc[k])]
  PROVE  Comes(Host!Overlay(c, doc), c, doc, Len(doc), X)
<1> DEFINE f == CHOOSE f : Reads(c, doc, Len(doc), f)
<1>1. Reads(c, doc, Len(doc), f)
  BY ReadsExist
<1>2. Host!Overlay(c, doc) = f[Len(doc)]
  BY DEF Host!Overlay, Reads, ReadOn
<1> HIDE DEF f
<1> DEFINE S == {i \in 0 .. Len(doc) : Comes(f[i], c, doc, i, X)}
<1>3. 0 \in S
  <2>1. f[0] = Host!Begin(c)
    BY <1>1 DEF Reads
  <2>2. ParseShaped(f[0]) /\ f[0].err = "OK" /\ f[0].unknown = 0 /\ f[0].sawLimp = FALSE
        /\ f[0].sawLimpVcell = FALSE /\ f[0].cfg = c
    BY <2>1 DEF Host!Begin, ParseShaped
  <2>3. 1 .. 0 = {}
    OBVIOUS
  <2>4. Comes(f[0], c, doc, 0, X)
    BY <2>2, <2>3 DEF Comes
  <2>5. QED
    BY <2>4
<1>4. ASSUME NEW i \in 1 .. Len(doc), i - 1 \in S PROVE i \in S
  <2>1. f[i] = ReadOn(f[i - 1], doc[i]) /\ Comes(f[i - 1], c, doc, i - 1, X)
    BY <1>1, <1>4 DEF Reads
  <2>2. Comes(ReadOn(f[i - 1], doc[i]), c, doc, i, X)
    <3>1. i \in Nat \ {0}
      OBVIOUS
    <3>2. QED
      BY <2>1, <3>1, OneMoreComes
  <2>3. QED
    BY <2>1, <2>2
<1>5. 0 .. Len(doc) \subseteq S
  <2> HIDE DEF S
  <2>1. QED
    BY <1>3, <1>4, Upward
<1>6. Len(doc) \in S
  BY <1>5
<1>7. QED
  BY <1>2, <1>6

\* Configurations in which the same stands everywhere are the same.
LEMMA SameEverywhere ==
  ASSUME NEW a, CfgShaped(a), NEW b, CfgShaped(b), \A t : IsPlace(t) => At(a, t) = At(b, t)
  PROVE  a = b
<1>1. \A x, s, k : LET t == <<x, s, k>> IN
        t[1] = x /\ t[2] = s /\ t[3] = k /\ (x # "profiles" => s = 0) => IsPlace(t)
  BY DEF IsPlace
<1>2. \A x, s, k : (x # "profiles" => s = 0) => At(a, <<x, s, k>>) = At(b, <<x, s, k>>)
  BY DEF IsPlace
<1>3. a.active = b.active
  <2>1. IsActive("top", "active_profile")
    BY DEF IsActive
  <2>2. \A c : At(c, <<"top", 0, "active_profile">>) = c.active
    BY <2>1 DEF At
  <2>3. QED
    BY <1>2, <2>2
<1>4. a.prim = b.prim
  <2>1. ASSUME NEW k \in Host!Primitives PROVE a.prim[k] = b.prim[k]
    <3>1. IsPrimitive("primitives", k) /\ ~IsActive("primitives", k)
      BY DEF IsPrimitive, IsActive
    <3>2. \A c : At(c, <<"primitives", 0, k>>) = c.prim[k]
      BY <3>1 DEF At
    <3>3. QED
      BY <1>2, <3>2
  <2>2. a.prim \in [Host!Primitives -> Volts] /\ b.prim \in [Host!Primitives -> Volts]
    BY DEF CfgShaped, CfgTyped
  <2>3. QED
    BY <2>1, <2>2
<1>5. a.limp_vcell = b.limp_vcell
  <2>1. IsLimp("global", "limp_vcell") /\ ~IsActive("global", "limp_vcell")
        /\ ~IsPrimitive("global", "limp_vcell")
    BY DEF IsLimp, IsActive, IsPrimitive
  <2>2. \A c : At(c, <<"global", 0, "limp_vcell">>) = c.limp_vcell
    BY <2>1 DEF At
  <2>3. QED
    BY <1>2, <2>2
<1>6. a.f = b.f
  <2>1. ASSUME NEW k \in Host!Fields PROVE a.f[k] = b.f[k]
    <3> DEFINE x == Host!BlockOf(k)
    <3>1. x # "profiles" /\ IsField(x, k)
      BY DEF Host!BlockOf, IsField
    <3> HIDE DEF x
    <3>2. ~IsActive(x, k) /\ ~IsPrimitive(x, k) /\ ~IsLimp(x, k)
      BY <3>1, KindsApart
    <3>3. \A c : At(c, <<x, 0, k>>) = c.f[k]
      BY <3>1, <3>2 DEF At
    <3>4. QED
      BY <1>2, <3>1, <3>3
  <2>2. QED
    BY <2>1 DEF CfgShaped
<1>7. a.prof = b.prof
  <2>1. ASSUME NEW i \in 1 .. Profiles PROVE a.prof[i] = b.prof[i]
    <3>1. ASSUME NEW k \in Host!ProfileKeys
          PROVE  InSlot(a.prof[i], k) = InSlot(b.prof[i], k)
      <4>1. IsOfProfile("profiles", i, k)
        BY DEF IsOfProfile
      <4>2. ~IsActive("profiles", k) /\ ~IsPrimitive("profiles", k) /\ ~IsLimp("profiles", k)
            /\ ~IsField("profiles", k)
        BY DEF IsActive, IsPrimitive, IsLimp, IsField, Host!BlockOf
      <4>3. \A c : At(c, <<"profiles", i, k>>) = InSlot(c.prof[i], k)
        BY <4>1, <4>2 DEF At
      <4>4. QED
        BY <1>2, <4>3
    <3>2. /\ InSlot(a.prof[i], "id") = InSlot(b.prof[i], "id")
          /\ InSlot(a.prof[i], "reserved") = InSlot(b.prof[i], "reserved")
          /\ InSlot(a.prof[i], "cv_target") = InSlot(b.prof[i], "cv_target")
          /\ InSlot(a.prof[i], "mode") = InSlot(b.prof[i], "mode")
          /\ InSlot(a.prof[i], "voltage") = InSlot(b.prof[i], "voltage")
          /\ InSlot(a.prof[i], "v_cell") = InSlot(b.prof[i], "v_cell")
      BY <3>1 DEF Host!ProfileKeys
    <3>3. /\ a.prof[i].id = b.prof[i].id /\ a.prof[i].reserved = b.prof[i].reserved
          /\ a.prof[i].cv_ref = b.prof[i].cv_ref /\ a.prof[i].cv = b.prof[i].cv
          /\ a.prof[i].mode = b.prof[i].mode /\ a.prof[i].rest_ref = b.prof[i].rest_ref
          /\ a.prof[i].rest = b.prof[i].rest /\ a.prof[i].revert = b.prof[i].revert
      BY <3>2 DEF InSlot
    <3>4. ProfileShaped(a.prof[i]) /\ ProfileShaped(b.prof[i])
      BY DEF CfgShaped
    <3>5. QED
      BY <3>3, <3>4 DEF ProfileShaped
  <2>2. QED
    BY <2>1 DEF CfgShaped
<1>8. QED
  BY <1>3, <1>4, <1>5, <1>6, <1>7 DEF CfgShaped

\* A configuration after its profiles took the voltages they name.
Carried(q, p, prim) ==
    /\ ProfileShaped(q) /\ q.id = p.id /\ q.reserved = p.reserved /\ q.mode = p.mode
    /\ q.revert = p.revert /\ q.cv_ref = p.cv_ref /\ q.rest_ref = p.rest_ref
    /\ q.cv = Host!Resolved(p.cv, p.cv_ref, prim) /\ q.rest = Host!Resolved(p.rest, p.rest_ref, prim)

\* Propagate carries every profile.
LEMMA PropagateCarries ==
  ASSUME NEW c, CfgShaped(c)
  PROVE  LET prof == Host!Propagate(c.prof, c.prim) IN
         /\ prof = [i \in 1 .. Profiles |-> prof[i]]
         /\ \A i \in 1 .. Profiles : Carried(prof[i], c.prof[i], c.prim)
<1> DEFINE prof == Host!Propagate(c.prof, c.prim)
<1>1. DOMAIN c.prof = 1 .. Profiles
  BY DEF CfgShaped
<1>2. prof = [i \in 1 .. Profiles |-> prof[i]]
  BY <1>1 DEF Host!Propagate
<1>3. ASSUME NEW i \in 1 .. Profiles PROVE Carried(prof[i], c.prof[i], c.prim)
  <2> DEFINE p == c.prof[i]
             a == Host!Resolved(p.cv, p.cv_ref, c.prim)
             b == Host!Resolved(p.rest, p.rest_ref, c.prim)
             q == [p EXCEPT !.cv = a, !.rest = b]
  <2>1. ProfileShaped(p) /\ c.prim \in [Host!Primitives -> Volts]
    BY DEF CfgShaped, CfgTyped
  <2>2. a \in Volts /\ b \in Volts
    BY <2>1, ResolvedTyped DEF ProfileShaped, ProfileTyped
  <2>3. prof[i] = q
    BY <1>1, <2>1 DEF Host!Propagate, ProfileShaped
  <2> HIDE DEF a, b, p
  <2>4. /\ ProfileShaped(q) /\ q.id = p.id /\ q.reserved = p.reserved /\ q.mode = p.mode
        /\ q.revert = p.revert /\ q.cv_ref = p.cv_ref /\ q.rest_ref = p.rest_ref
        /\ q.cv = a /\ q.rest = b
    BY <2>1, <2>2 DEF ProfileShaped, ProfileTyped
  <2> HIDE DEF q, prof
  <2>5. Carried(q, p, c.prim)
    BY <2>4 DEF Carried, a, b
  <2>6. QED
    BY <2>3, <2>5 DEF p, prof
<1>4. QED
  BY <1>2, <1>3

ParsedAs(r, d) ==
    /\ ParseShaped(r) /\ r.err = d.err /\ r.unknown = d.unknown /\ r.sawLimp = d.sawLimp
    /\ r.sawLimpVcell = d.sawLimpVcell /\ r.cfg.active = d.cfg.active /\ r.cfg.prim = d.cfg.prim
    /\ r.cfg.f = d.cfg.f
    /\ r.cfg.limp_vcell = IF d.sawLimp /\ ~d.sawLimpVcell THEN d.cfg.prim.v_limp ELSE d.cfg.limp_vcell
    /\ \A i \in 1 .. Profiles : Carried(r.cfg.prof[i], d.cfg.prof[i], d.cfg.prim)

\* What resolve_after_parse changes of a parse.
LEMMA ResolveAfterIs ==
  ASSUME NEW d, ParseShaped(d)
  PROVE  ParsedAs(Host!ResolveAfter(d), d)
<1> DEFINE prof == Host!Propagate(d.cfg.prof, d.cfg.prim)
           limp == IF d.sawLimp /\ ~d.sawLimpVcell THEN d.cfg.prim.v_limp ELSE d.cfg.limp_vcell
           e == [[d.cfg EXCEPT !.prof = prof] EXCEPT !.limp_vcell = limp]
           r == [d EXCEPT !.cfg = e]
<1>1. CfgShaped(d.cfg)
  BY DEF ParseShaped
<1>2. prof = [i \in 1 .. Profiles |-> prof[i]]
      /\ \A i \in 1 .. Profiles : Carried(prof[i], d.cfg.prof[i], d.cfg.prim)
  BY <1>1, PropagateCarries
<1>3. Host!ResolveAfter(d) = r
  BY DEF Host!ResolveAfter, ParseShaped, CfgShaped
<1>4. limp \in Volts
  BY <1>1, PrimitiveNames DEF CfgShaped, CfgTyped
<1> HIDE DEF prof, limp
<1>5. ProfilesTyped(prof) /\ \A i \in 1 .. Profiles : ProfileShaped(prof[i])
  BY <1>2 DEF ProfilesTyped, Carried, ProfileShaped
<1>6. /\ CfgShaped(e) /\ e.active = d.cfg.active /\ e.prim = d.cfg.prim /\ e.f = d.cfg.f
      /\ e.limp_vcell = limp /\ e.prof = prof
  BY <1>1, <1>2, <1>4, <1>5 DEF CfgShaped, CfgTyped
<1> HIDE DEF e
<1>7. /\ ParseShaped(r) /\ r.err = d.err /\ r.unknown = d.unknown /\ r.sawLimp = d.sawLimp
      /\ r.sawLimpVcell = d.sawLimpVcell /\ r.cfg = e
  BY <1>6 DEF ParseShaped
<1> HIDE DEF r
<1>8. ParsedAs(r, d)
  BY <1>2, <1>6, <1>7 DEF ParsedAs, limp
<1>9. QED
  BY <1>3, <1>8

\* A document that was read is one that no member of stopped.
LEMMA ParseIs ==
  ASSUME NEW c, NEW doc, Host!Parse(c, doc).err = "OK"
  PROVE  /\ Host!Overlay(c, doc).err = "OK"
         /\ Host!Parse(c, doc) = Host!ResolveAfter(Host!Overlay(c, doc))
BY DEF Host!Parse

\* What stands where a document of the hosts writes.
Puts(c, doc) ==
    [t \in {Host!Place(doc[k]) : k \in 1 .. Len(doc)} |->
        Into(doc[CHOOSE k \in 1 .. Len(doc) : Host!Place(doc[k]) = t], At(c, t))]

\* The documents of the hosts, member by member.
LEMMA DocsAre ==
  ASSUME Host!HostAssumption, Host!DocsAssumption, NEW i \in DOMAIN Docs
  PROVE  LET doc == Docs[i] IN
         /\ Len(doc) \in Nat
         /\ \A k \in 1 .. Len(doc) : MemberTyped(doc[k]) /\ IsPlace(Host!Place(doc[k]))
         /\ \A c : \A k \in 1 .. Len(doc) :
               Into(doc[k], At(c, Host!Place(doc[k]))) = Puts(c, doc)[Host!Place(doc[k])]
<1> DEFINE doc == Docs[i]
<1>1. Len(doc) \in Nat /\ \A k \in 1 .. Len(doc) : MemberTyped(doc[k])
  BY DEF Host!HostAssumption, MemberTyped
<1>2. \A k \in 1 .. Len(doc) : doc[k].in # "profiles" => doc[k].slot = 0
  BY DEF Host!DocsAssumption
<1>3. \A k, l \in 1 .. Len(doc) : Host!Place(doc[k]) = Host!Place(doc[l]) => k = l
  BY DEF Host!DocsAssumption
<1> HIDE DEF doc
<1>4. \A k \in 1 .. Len(doc) : IsPlace(Host!Place(doc[k]))
  BY <1>2, PlaceParts DEF IsPlace, Host!Place
<1>5. ASSUME NEW c, NEW k \in 1 .. Len(doc)
      PROVE  Into(doc[k], At(c, Host!Place(doc[k]))) = Puts(c, doc)[Host!Place(doc[k])]
  <2> DEFINE t == Host!Place(doc[k])
             l == CHOOSE x \in 1 .. Len(doc) : Host!Place(doc[x]) = t
  <2>1. l \in 1 .. Len(doc) /\ Host!Place(doc[l]) = t
    OBVIOUS
  <2>2. l = k
    BY <1>3, <2>1
  <2>3. t \in {Host!Place(doc[x]) : x \in 1 .. Len(doc)}
    OBVIOUS
  <2>4. Puts(c, doc)[t] = Into(doc[l], At(c, t))
    BY <2>3 DEF Puts
  <2> HIDE DEF l, t
  <2>5. QED
    BY <2>2, <2>4 DEF t
<1>6. QED
  BY <1>1, <1>4, <1>5 DEF doc

\* Its members in another order write the same.
LEMMA OrderMeansNothing ==
  ASSUME Host!HostAssumption, Host!DocsAssumption, NEW c, CfgShaped(c), NEW i \in DOMAIN Docs,
         Host!Parse(c, Docs[i]).err = "OK", Host!Parse(c, Host!Reverse(Docs[i])).err = "OK"
  PROVE  Host!Parse(c, Docs[i]).cfg = Host!Parse(c, Host!Reverse(Docs[i])).cfg
<1> DEFINE doc == Docs[i]
           rev == Host!Reverse(doc)
           X == Puts(c, doc)
           a == Host!Overlay(c, doc)
           b == Host!Overlay(c, rev)
           n_ == Len(doc)
<1>1. /\ n_ \in Nat
      /\ \A k \in 1 .. n_ : MemberTyped(doc[k]) /\ IsPlace(Host!Place(doc[k]))
                            /\ Into(doc[k], At(c, Host!Place(doc[k]))) = X[Host!Place(doc[k])]
  BY DocsAre
<1> HIDE DEF doc, X
<1>2. Len(rev) = n_ /\ \A k \in 1 .. n_ : rev[k] = doc[n_ - k + 1] /\ n_ - k + 1 \in 1 .. n_
  BY <1>1 DEF Host!Reverse
<1>3. \A k \in 1 .. n_ : n_ - k + 1 \in 1 .. n_ /\ rev[n_ - k + 1] = doc[k]
  <2>1. \A k \in 1 .. n_ : n_ - (n_ - k + 1) + 1 = k /\ n_ - k + 1 \in 1 .. n_
    BY <1>1
  <2>2. QED
    BY <1>2, <2>1
<1> HIDE DEF rev, n_
<1>4. Comes(a, c, doc, n_, X)
  BY <1>1, DocumentComes DEF n_
<1>5. Comes(b, c, rev, n_, X)
  <2>1. \A k \in 1 .. Len(rev) : MemberTyped(rev[k]) /\ IsPlace(Host!Place(rev[k]))
                            /\ Into(rev[k], At(c, Host!Place(rev[k]))) = X[Host!Place(rev[k])]
    BY <1>1, <1>2
  <2>2. Len(rev) \in Nat
    BY <1>1, <1>2
  <2>3. Comes(b, c, rev, Len(rev), X)
    BY <2>1, <2>2, DocumentComes
  <2>4. QED
    BY <1>2, <2>3
<1> HIDE DEF a, b
<1>6. a.err = "OK" /\ b.err = "OK" /\ Host!Parse(c, doc) = Host!ResolveAfter(a)
      /\ Host!Parse(c, rev) = Host!ResolveAfter(b)
  BY ParseIs DEF a, b, doc, rev
<1>7. /\ (\E k \in 1 .. n_ : IsLimpPrimitive(doc[k])) <=> (\E k \in 1 .. n_ : IsLimpPrimitive(rev[k]))
      /\ (\E k \in 1 .. n_ : IsLimp(doc[k].in, doc[k].key)) <=>
           (\E k \in 1 .. n_ : IsLimp(rev[k].in, rev[k].key))
      /\ \A t : (\E k \in 1 .. n_ : Host!Place(doc[k]) = t) <=> (\E k \in 1 .. n_ : Host!Place(rev[k]) = t)
  <2>1. \A k \in 1 .. n_ : \E l \in 1 .. n_ : rev[l] = doc[k]
    BY <1>3
  <2>2. \A k \in 1 .. n_ : \E l \in 1 .. n_ : doc[l] = rev[k]
    BY <1>2
  <2>3. (\E k \in 1 .. n_ : IsLimpPrimitive(doc[k])) <=> (\E k \in 1 .. n_ : IsLimpPrimitive(rev[k]))
    BY <2>1, <2>2
  <2>4. (\E k \in 1 .. n_ : IsLimp(doc[k].in, doc[k].key)) <=>
           (\E k \in 1 .. n_ : IsLimp(rev[k].in, rev[k].key))
    BY <2>1, <2>2
  <2>5. ASSUME NEW t
        PROVE  (\E k \in 1 .. n_ : Host!Place(doc[k]) = t) <=> (\E k \in 1 .. n_ : Host!Place(rev[k]) = t)
    BY <2>1, <2>2
  <2>6. QED
    BY <2>3, <2>4, <2>5
<1>8. ParseShaped(a) /\ ParseShaped(b) /\ (a.sawLimp <=> b.sawLimp) /\ (a.sawLimpVcell <=> b.sawLimpVcell)
  BY <1>4, <1>5, <1>6, <1>7 DEF Comes
<1>9. \A t : IsPlace(t) => At(a.cfg, t) = At(b.cfg, t)
  BY <1>4, <1>5, <1>6, <1>7 DEF Comes
<1>10. a.cfg = b.cfg
  BY <1>8, <1>9, SameEverywhere DEF ParseShaped
<1>11. Host!ResolveAfter(a).cfg = Host!ResolveAfter(b).cfg
  <2> DEFINE limp(d) == IF d.sawLimp /\ ~d.sawLimpVcell THEN d.cfg.prim.v_limp ELSE d.cfg.limp_vcell
             e(c_, l) == [[c_ EXCEPT !.prof = Host!Propagate(c_.prof, c_.prim)] EXCEPT !.limp_vcell = l]
  <2>1. ASSUME NEW d, ParseShaped(d) PROVE Host!ResolveAfter(d).cfg = e(d.cfg, limp(d))
    BY <2>1 DEF Host!ResolveAfter, ParseShaped, CfgShaped
  <2>2. limp(a) = limp(b)
    BY <1>8, <1>10
  <2> HIDE DEF limp, e
  <2>3. Host!ResolveAfter(a).cfg = e(a.cfg, limp(a)) /\ Host!ResolveAfter(b).cfg = e(b.cfg, limp(b))
    BY <1>8, <2>1
  <2>4. QED
    BY <1>10, <2>2, <2>3
<1>12. QED
  BY <1>6, <1>11 DEF doc, rev

-----------------------------------------------------------------------------
(* The rules, one by one *)

\* A configuration is valid when it breaks no rule, whichever is looked at first.
LEMMA ValidMeans ==
  ASSUME Profiles \in Nat, NEW c
  PROVE  Host!Valid(c) <=>
           /\ Host!PrimitivesOK(c.prim) /\ c.limp_vcell = c.prim.v_limp
           /\ \A k \in Host!Fields : Host!FieldOK(c.f, k)
           /\ \A i \in 1 .. Profiles : Host!ProfileRule(c.prof[i], i, c.prim) = "CFG_OK"
           /\ Host!ActiveOK(c)
<1> DEFINE rule(i) == Host!ProfileRule(c.prof[i], i, c.prim)
           bad == {i \in 1 .. Profiles : rule(i) # "CFG_OK"}
<1>1. bad # {} => Host!Min(bad) \in bad
  <2>1. SUFFICES ASSUME bad # {} PROVE Host!Min(bad) \in bad
    OBVIOUS
  <2>2. bad \in SUBSET Nat
    OBVIOUS
  <2> HIDE DEF bad
  <2>3. \E x \in bad : \A y \in bad : x <= y
    BY <2>1, <2>2, NatMin
  <2>4. QED
    BY <2>3 DEF Host!Min
<1>2. bad # {} => rule(Host!Min(bad)) # "CFG_OK"
  BY <1>1
<1>3. Host!Validate(c) =
        IF ~Host!PrimitivesOK(c.prim) THEN Host!Verdict("CFG_ERR_PRIMITIVES", 0)
        ELSE IF c.limp_vcell # c.prim.v_limp
             THEN Host!Verdict("CFG_ERR_LIMP_VCELL_MISMATCH", 0)
        ELSE IF \E k \in Host!Fields : ~Host!FieldOK(c.f, k) THEN Host!Verdict("CFG_ERR_RANGE", 0)
        ELSE IF bad # {} THEN Host!Verdict(rule(Host!Min(bad)), Host!Min(bad))
        ELSE IF ~Host!ActiveOK(c)
             THEN Host!Verdict("CFG_ERR_ACTIVE_PROFILE", IF c.active \in 1..Profiles THEN c.active ELSE 0)
        ELSE Host!Verdict("CFG_OK", 0)
  BY DEF Host!Validate
<1>4. \A r, n_ : Host!Verdict(r, n_).rule = r
  BY DEF Host!Verdict
<1>5. bad = {} <=> \A i \in 1 .. Profiles : rule(i) = "CFG_OK"
  OBVIOUS
<1> HIDE DEF bad, rule
<1>6. Host!Validate(c).rule = "CFG_OK" <=>
           /\ Host!PrimitivesOK(c.prim) /\ c.limp_vcell = c.prim.v_limp
           /\ ~(\E k \in Host!Fields : ~Host!FieldOK(c.f, k))
           /\ bad = {} /\ Host!ActiveOK(c)
  BY <1>2, <1>3, <1>4
<1>7. QED
  BY <1>5, <1>6 DEF Host!Valid, rule

\* Primitives within their rails are numbers.
LEMMA RailsAreNumbers ==
  ASSUME Off \notin Int, NEW prim \in [Host!Primitives -> Volts], Host!PrimitivesOK(prim)
  PROVE  \A k \in Host!Primitives : prim[k] \in Int /\ prim[k] # Off
<1>1. /\ prim["v_bulk"] \in Volts /\ prim["v_bulk_cons"] \in Volts
      /\ prim["v_float"] \in Volts /\ prim["v_float_cons"] \in Volts
      /\ prim["v_limp"] \in Volts
  BY PrimitiveNames
<1>2. /\ prim["v_bulk"] # Off /\ prim["v_bulk_cons"] # Off /\ prim["v_float"] # Off
      /\ prim["v_float_cons"] # Off /\ prim["v_limp"] # Off
  BY DEF Host!PrimitivesOK, Host!InSpan
<1>3. QED
  BY <1>1, <1>2, PrimitiveNames DEF Volts

\* The profiles take their voltages anew and stay within the rules.
LEMMA RulesCarry ==
  ASSUME Off \notin Int, NEW old \in [Host!Primitives -> Volts], NEW prim \in [Host!Primitives -> Volts],
         Host!PrimitivesOK(prim), NEW i, NEW p, ProfileShaped(p), NEW q, Carried(q, p, prim),
         Host!ProfileRule(p, i, old) = "CFG_OK"
  PROVE  Host!ProfileRule(q, i, prim) = "CFG_OK"
<1>1. /\ ProfileShaped(q) /\ q.id = p.id /\ q.reserved = p.reserved /\ q.mode = p.mode
      /\ q.revert = p.revert /\ q.cv_ref = p.cv_ref /\ q.rest_ref = p.rest_ref
      /\ q.cv = Host!Resolved(p.cv, p.cv_ref, prim) /\ q.rest = Host!Resolved(p.rest, p.rest_ref, prim)
      /\ p.cv_ref \in Refs /\ p.rest_ref \in Refs
  BY DEF Carried, ProfileShaped, ProfileTyped
<1>2. ASSUME NEW v, NEW ref \in Refs, Host!VoltageOK(v, ref, old)
      PROVE  Host!VoltageOK(Host!Resolved(v, ref, prim), ref, prim)
  <2>1. CASE ref \in Host!Primitives
    <3>1. prim[ref] # Off
      BY <2>1, RailsAreNumbers
    <3>2. Host!Resolved(v, ref, prim) = prim[ref]
      BY <2>1, <3>1 DEF Host!Resolved
    <3>3. ref # Host!NoRef
      BY <2>1, PrimitiveNames
    <3>4. QED
      BY <3>2, <3>3 DEF Host!VoltageOK
  <2>2. CASE ref = Host!NoRef
    BY <1>2, <2>2, PrimitiveNames DEF Host!Resolved, Host!VoltageOK
  <2>3. QED
    BY <2>1, <2>2 DEF Refs
<1>3. p.id = i
  BY DEF Host!ProfileRule
<1>4. CASE p.reserved
  BY <1>1, <1>3, <1>4 DEF Host!ProfileRule
<1>5. CASE ~p.reserved
  <2>1. /\ p.mode \in {"hold", "zero"} /\ Host!VoltageOK(p.cv, p.cv_ref, old)
        /\ p.mode = "hold" => Host!VoltageOK(p.rest, p.rest_ref, old)
        /\ p.revert \in {"a", "b"}
    BY <1>3, <1>5 DEF Host!ProfileRule
  <2>2. /\ Host!VoltageOK(q.cv, q.cv_ref, prim)
        /\ q.mode = "hold" => Host!VoltageOK(q.rest, q.rest_ref, prim)
    BY <1>1, <1>2, <2>1
  <2>3. QED
    BY <1>1, <1>3, <1>5, <2>1, <2>2 DEF Host!ProfileRule
<1>6. QED
  BY <1>4, <1>5

\* One primitive moves, and what names it moves with it.
LEMMA OneKeyMoves ==
  ASSUME Host!HostAssumption, NEW c, CfgShaped(c), Host!Valid(c), NEW k \in Host!Primitives,
         NEW v \in Int, Host!PrimitivesOK([c.prim EXCEPT ![k] = v])
  PROVE  Host!Valid(Host!Parse(c, <<Host!Member("primitives", k, Host!Num(v))>>).cfg)
<1> DEFINE m == Host!Member("primitives", k, Host!Num(v))
           doc == <<m>>
           e == [c EXCEPT !.prim[k] = v]
           X == [t \in {Host!Place(m)} |-> v]
           d == Host!Overlay(c, doc)
<1>1. /\ m.in = "primitives" /\ m.slot = 0 /\ m.key = k /\ m.json.t = "num" /\ m.json.v = v
      /\ Len(doc) = 1 /\ doc[1] = m
  BY DEF Host!Member, Host!Num
<1>2. Profiles \in Nat /\ Off \notin Int
  BY DEF Host!HostAssumption
<1> HIDE DEF m, doc
<1>3. MemberTyped(m) /\ IsPlace(Host!Place(m)) /\ IsPrimitive(m.in, m.key)
  BY <1>1 DEF MemberTyped, IsPlace, Host!Place, IsPrimitive
<1>4. Into(m, At(c, Host!Place(m))) = X[Host!Place(m)] /\ X[Host!Place(m)] = v
  BY <1>1, <1>3 DEF Into
<1>5. CfgShaped(e) /\ e.prim = [c.prim EXCEPT ![k] = v] /\ e.active = c.active
      /\ e.limp_vcell = c.limp_vcell /\ e.f = c.f /\ e.prof = c.prof
  BY PrimitivePut DEF Volts
<1>6. Written(e, c, m)
  <2>1. e = [c EXCEPT !.prim[m.key] = m.json.v] /\ m.json.v \in Volts
    BY <1>1 DEF Volts
  <2> HIDE DEF e
  <2>2. QED
    BY <1>3, <2>1, PrimitiveWritten
<1> HIDE DEF e, X
<1>7. Comes(d, c, doc, 1, X)
  <2>1. \A x \in 1 .. 1 : x = 1
    OBVIOUS
  <2>2. Len(doc) \in Nat /\ \A x \in 1 .. Len(doc) : doc[x] = m
    BY <1>1, <2>1
  <2>3. \A x \in 1 .. Len(doc) :
           /\ MemberTyped(doc[x]) /\ IsPlace(Host!Place(doc[x]))
           /\ Into(doc[x], At(c, Host!Place(doc[x]))) = X[Host!Place(doc[x])]
    BY <1>3, <1>4, <2>2
  <2>4. Comes(d, c, doc, Len(doc), X)
    BY <2>2, <2>3, DocumentComes
  <2>5. QED
    BY <1>1, <2>4
<1> HIDE DEF d
<1>8. \A x : x \in 1 .. 1 <=> x = 1
  OBVIOUS
<1>9. d.err = "OK"
  <2>1. Accepted(m)
    BY <1>1, <1>3, KindsApart DEF Accepted, Host!Numeric
  <2>2. QED
    BY <1>1, <1>7, <1>8, <2>1 DEF Comes
<1>10. d.cfg = e
  <2>1. ASSUME NEW t, IsPlace(t) PROVE At(d.cfg, t) = At(e, t)
    <3>1. At(d.cfg, t) = IF Host!Place(m) = t THEN X[t] ELSE At(c, t)
      BY <1>1, <1>7, <1>8, <1>9, <2>1 DEF Comes
    <3>2. At(e, t) = IF t = Host!Place(m) THEN Into(m, At(c, t)) ELSE At(c, t)
      BY <1>6, <2>1 DEF Written
    <3>3. QED
      BY <1>4, <3>1, <3>2
  <2>2. QED
    BY <1>5, <1>7, <1>9, <2>1, SameEverywhere DEF Comes, ParseShaped
<1>11. (d.sawLimp <=> k = "v_limp") /\ ~d.sawLimpVcell
  <2>1. IsLimpPrimitive(m) <=> k = "v_limp"
    BY <1>1 DEF IsLimpPrimitive
  <2>2. ~IsLimp(m.in, m.key)
    BY <1>3, KindsApart
  <2>3. QED
    BY <1>1, <1>7, <1>8, <1>9, <2>1, <2>2 DEF Comes
<1> DEFINE r == Host!ResolveAfter(d)
<1>12. ParsedAs(r, d)
  BY <1>7, <1>9, ResolveAfterIs DEF Comes
<1>13. Host!Parse(c, doc) = r
  BY <1>9 DEF Host!Parse, d
<1> HIDE DEF r
<1>14. /\ Host!PrimitivesOK(c.prim) /\ c.limp_vcell = c.prim.v_limp
       /\ \A x \in Host!Fields : Host!FieldOK(c.f, x)
       /\ \A i \in 1 .. Profiles : Host!ProfileRule(c.prof[i], i, c.prim) = "CFG_OK"
       /\ Host!ActiveOK(c)
  BY <1>2, ValidMeans
<1>15. r.cfg.prim = e.prim /\ r.cfg.f = c.f /\ r.cfg.active = c.active /\ Host!PrimitivesOK(r.cfg.prim)
  BY <1>5, <1>10, <1>12 DEF ParsedAs
<1>16. r.cfg.limp_vcell = r.cfg.prim.v_limp
  <2>1. r.cfg.limp_vcell = IF k = "v_limp" THEN e.prim.v_limp ELSE c.limp_vcell
    BY <1>5, <1>10, <1>11, <1>12 DEF ParsedAs
  <2>2. k # "v_limp" => e.prim.v_limp = c.prim.v_limp
    BY <1>5, PrimitiveNames DEF CfgShaped, CfgTyped
  <2>3. QED
    BY <1>14, <1>15, <2>1, <2>2
<1>17. ASSUME NEW i \in 1 .. Profiles
       PROVE  /\ Host!ProfileRule(r.cfg.prof[i], i, r.cfg.prim) = "CFG_OK"
              /\ r.cfg.prof[i].reserved = c.prof[i].reserved
  <2>1. Carried(r.cfg.prof[i], c.prof[i], e.prim)
    BY <1>5, <1>10, <1>12 DEF ParsedAs
  <2>2. /\ ProfileShaped(c.prof[i]) /\ c.prim \in [Host!Primitives -> Volts]
        /\ e.prim \in [Host!Primitives -> Volts]
    BY <1>5 DEF CfgShaped, CfgTyped
  <2>3. Host!ProfileRule(r.cfg.prof[i], i, e.prim) = "CFG_OK"
    BY <1>2, <1>14, <1>15, <2>1, <2>2, RulesCarry
  <2>4. QED
    BY <1>15, <2>1, <2>3 DEF Carried
<1>18. Host!ActiveOK(r.cfg)
  BY <1>14, <1>15, <1>17 DEF Host!ActiveOK
<1>19. Host!Valid(r.cfg)
  BY <1>2, <1>14, <1>15, <1>16, <1>17, <1>18, ValidMeans
<1>20. QED
  BY <1>13, <1>19 DEF doc, m

-----------------------------------------------------------------------------
(* The document that shows a configuration *)

\* A sequence holds a member.
Holds(s, m) == \E l \in 1 .. Len(s) : s[l] = m

\* What two sequences hold, one after the other.
LEMMA JoinedHolds ==
  ASSUME NEW U, NEW s \in Seq(U), NEW t \in Seq(U)
  PROVE  s \o t \in Seq(U) /\ \A m : Holds(s \o t, m) <=> Holds(s, m) \/ Holds(t, m)
<1> DEFINE r == s \o t
<1>1. /\ r \in Seq(U) /\ Len(r) = Len(s) + Len(t) /\ Len(s) \in Nat /\ Len(t) \in Nat
      /\ \A l \in 1 .. Len(s) + Len(t) : r[l] = IF l <= Len(s) THEN s[l] ELSE t[l - Len(s)]
  OBVIOUS
<1> HIDE DEF r
<1>2. ASSUME NEW m, Holds(r, m) PROVE Holds(s, m) \/ Holds(t, m)
  <2>1. PICK l \in 1 .. Len(s) + Len(t) : r[l] = m
    BY <1>1, <1>2 DEF Holds
  <2>2. CASE l <= Len(s)
    BY <1>1, <2>1, <2>2 DEF Holds
  <2>3. CASE ~(l <= Len(s))
    <3>1. l - Len(s) \in 1 .. Len(t) /\ t[l - Len(s)] = m
      BY <1>1, <2>1, <2>3
    <3>2. QED
      BY <3>1 DEF Holds
  <2>4. QED
    BY <2>2, <2>3
<1>3. ASSUME NEW m, Holds(s, m) PROVE Holds(r, m)
  <2>1. PICK l \in 1 .. Len(s) : s[l] = m
    BY <1>3 DEF Holds
  <2>2. l \in 1 .. Len(s) + Len(t) /\ r[l] = m
    BY <1>1, <2>1
  <2>3. QED
    BY <1>1, <2>2 DEF Holds
<1>4. ASSUME NEW m, Holds(t, m) PROVE Holds(r, m)
  <2>1. PICK l \in 1 .. Len(t) : t[l] = m
    BY <1>4 DEF Holds
  <2>2. Len(s) + l \in 1 .. Len(s) + Len(t) /\ ~(Len(s) + l <= Len(s)) /\ (Len(s) + l) - Len(s) = l
    BY <1>1, <2>1
  <2>3. r[Len(s) + l] = m
    BY <1>1, <2>1, <2>2
  <2>4. QED
    BY <1>1, <2>2, <2>3 DEF Holds
<1>5. QED
  BY <1>1, <1>2, <1>3, <1>4 DEF r

\* What is flattened piece by piece.
Joins(s, n_, f) == f = [i \in 1 .. n_ |-> IF i = 1 THEN s[i] ELSE f[i - 1] \o s[i]]

\* The recursive function that flattens exists.
LEMMA JoinsExist ==
  ASSUME NEW s, NEW n_ \in Nat
  PROVE  \E f : Joins(s, n_, f)
<1> DEFINE S == {x \in 0 .. n_ : \E f : Joins(s, x, f)}
<1>1. 0 \in S
  <2>1. Joins(s, 0, [i \in 1 .. 0 |-> s[1]])
    BY DEF Joins
  <2>2. QED
    BY <2>1
<1>2. ASSUME NEW x \in 1 .. n_, x - 1 \in S PROVE x \in S
  <2>1. PICK f : Joins(s, x - 1, f)
    BY <1>2
  <2> DEFINE g == [i \in 1 .. x |-> IF i = x THEN (IF x = 1 THEN s[x] ELSE f[x - 1] \o s[x]) ELSE f[i]]
  <2>2. ASSUME NEW i \in 1 .. x
        PROVE  g[i] = IF i = 1 THEN s[i] ELSE g[i - 1] \o s[i]
    <3>1. CASE i = x
      <4>1. x # 1 => x - 1 \in 1 .. x /\ x - 1 # x
        BY <1>2
      <4>2. x # 1 => g[x - 1] = f[x - 1]
        BY <4>1
      <4>3. g[x] = IF x = 1 THEN s[x] ELSE f[x - 1] \o s[x]
        BY <3>1
      <4> HIDE DEF g
      <4>4. QED
        BY <3>1, <4>2, <4>3
    <3>2. CASE i # x
      <4>1. i \in 1 .. x - 1 /\ g[i] = f[i] /\ (i # 1 => i - 1 \in 1 .. x /\ i - 1 # x)
        BY <1>2, <3>2
      <4>2. i # 1 => g[i - 1] = f[i - 1]
        BY <4>1
      <4>3. f[i] = IF i = 1 THEN s[i] ELSE f[i - 1] \o s[i]
        BY <2>1, <4>1 DEF Joins
      <4> HIDE DEF g
      <4>4. QED
        BY <4>1, <4>2, <4>3
    <3>3. QED
      BY <3>1, <3>2
  <2>3. g = [i \in 1 .. x |-> g[i]]
    OBVIOUS
  <2> HIDE DEF g
  <2>4. Joins(s, x, g)
    BY <2>2, <2>3 DEF Joins
  <2>5. QED
    BY <1>2, <2>4
<1>3. 0 .. n_ \subseteq S
  <2> HIDE DEF S
  <2>1. QED
    BY <1>1, <1>2, Upward
<1>4. n_ \in 0 .. n_
  OBVIOUS
<1>5. QED
  BY <1>3, <1>4

\* What a sequence of sequences holds once it is flattened.
LEMMA FlattenedHolds ==
  ASSUME NEW U, NEW n_ \in Nat \ {0}, NEW s, s = [i \in 1 .. n_ |-> s[i]],
         \A i \in 1 .. n_ : s[i] \in Seq(U)
  PROVE  LET r == Host!FlattenSeq(s) IN
         r \in Seq(U) /\ \A m : Holds(r, m) <=> \E i \in 1 .. n_ : Holds(s[i], m)
<1> DEFINE f == CHOOSE f : Joins(s, n_, f)
           r == Host!FlattenSeq(s)
<1>1. Joins(s, n_, f)
  BY JoinsExist
<1>2. Len(s) = n_
  OBVIOUS
<1>3. r = f[n_]
  BY <1>2 DEF Host!FlattenSeq, Joins
<1> HIDE DEF f, r
<1> DEFINE Good(i) == /\ f[i] \in Seq(U)
                      /\ \A m : Holds(f[i], m) <=> \E k \in 1 .. i : Holds(s[k], m)
           S == {i \in 0 .. n_ : i = 0 \/ Good(i)}
<1>4. 0 \in S
  OBVIOUS
<1>5. ASSUME NEW i \in 1 .. n_, i - 1 \in S PROVE i \in S
  <2>1. CASE i = 1
    <3>1. f[i] = s[i] /\ 1 .. i = {i}
      BY <1>1, <2>1 DEF Joins
    <3>2. Good(i)
      BY <3>1
    <3>3. QED
      BY <3>2
  <2>2. CASE i # 1
    <3>1. f[i] = f[i - 1] \o s[i] /\ Good(i - 1) /\ 1 .. i = (1 .. i - 1) \cup {i}
      <4>1. i - 1 \in 1 .. n_ /\ i - 1 # 0
        BY <2>2
      <4>2. f[i] = f[i - 1] \o s[i]
        BY <1>1, <2>2 DEF Joins
      <4>3. Good(i - 1)
        BY <1>5, <4>1
      <4>4. 1 .. i = (1 .. i - 1) \cup {i}
        OBVIOUS
      <4> HIDE DEF Good
      <4>5. QED
        BY <4>2, <4>3, <4>4
    <3>2. f[i] \in Seq(U) /\ \A m : Holds(f[i], m) <=> Holds(f[i - 1], m) \/ Holds(s[i], m)
      BY <3>1, JoinedHolds
    <3>3. ASSUME NEW m PROVE Holds(f[i], m) <=> \E k \in 1 .. i : Holds(s[k], m)
      <4>1. Holds(f[i - 1], m) <=> \E k \in 1 .. i - 1 : Holds(s[k], m)
        BY <3>1
      <4>2. QED
        BY <3>1, <3>2, <4>1
    <3>4. QED
      BY <3>2, <3>3
  <2>3. QED
    BY <2>1, <2>2
<1>6. n_ \in S
  <2> HIDE DEF S
  <2>1. 0 .. n_ \subseteq S
    BY <1>4, <1>5, Upward
  <2>2. QED
    BY <2>1
<1>7. QED
  BY <1>3, <1>6 DEF r

\* The seven members of a profile, and all the members of a configuration.
SlotShown(i, p) ==
    { Host!InProfile(i, "id", Host!Num(p.id)), Host!InProfile(i, "name", Host!Str("name")),
      Host!InProfile(i, "reserved", Host!Bool(p.reserved)),
      Host!InProfile(i, "cv_target", Host!RefJson(p.cv_ref, p.cv)),
      Host!InProfile(i, "mode", Host!Str(Host!ModeShown(p.mode))),
      Host!InProfile(i, "voltage", Host!RefJson(p.rest_ref, p.rest)),
      Host!InProfile(i, "v_cell", Host!NumberJson(p.revert)) }
PrimitiveShown(c, k) == Host!Member("primitives", k, Host!NumberJson(c.prim[k]))
FieldShown(c, k) == Host!Member(Host!BlockOf(k), k, Host!FieldJson(k, c.f[k]))
Displayed(c) ==
    { Host!Member("top", "schema_version", Host!Num("ours")), Host!Member("top", "fw", Host!Str("fw")),
      Host!Member("global", "limp_vcell", Host!NumberJson(c.limp_vcell)),
      Host!Member("top", "active_profile", Host!Num(c.active)) }
    \cup {PrimitiveShown(c, k) : k \in Host!Primitives}
    \cup {FieldShown(c, k) : k \in Host!Fields}
    \cup UNION {SlotShown(i, c.prof[i]) : i \in 1 .. Profiles}

\* The document that is shown holds these members and no others.
LEMMA EmitShows ==
  ASSUME Profiles \in Nat \ {0}, NEW c
  PROVE  Len(Host!Emit(c)) \in Nat /\ \A m : Holds(Host!Emit(c), m) <=> m \in Displayed(c)
<1> DEFINE U == Displayed(c)
           H == << Host!Member("top", "schema_version", Host!Num("ours")),
                   Host!Member("top", "fw", Host!Str("fw")) >>
           P == [i \in DOMAIN Host!PrimitiveOrder |-> PrimitiveShown(c, Host!PrimitiveOrder[i])]
           F == [i \in DOMAIN Host!FieldOrder |-> FieldShown(c, Host!FieldOrder[i])]
           L == << Host!Member("global", "limp_vcell", Host!NumberJson(c.limp_vcell)) >>
           R == [i \in 1 .. Profiles |-> Host!EmitProfile(i, c.prof[i])]
           A == << Host!Member("top", "active_profile", Host!Num(c.active)) >>
<1>1. Host!Emit(c) = ((((H \o P) \o F) \o L) \o Host!FlattenSeq(R)) \o A
  BY DEF Host!Emit, PrimitiveShown, FieldShown
<1>2. H \in Seq(U) /\ \A m : Holds(H, m) <=>
        m \in {Host!Member("top", "schema_version", Host!Num("ours")), Host!Member("top", "fw", Host!Str("fw"))}
  <2> DEFINE x == Host!Member("top", "schema_version", Host!Num("ours"))
             y == Host!Member("top", "fw", Host!Str("fw"))
  <2>1. x \in U /\ y \in U
    BY DEF Displayed
  <2> HIDE DEF x, y, U
  <2>2. <<x, y>> \in Seq(U) /\ \A m : Holds(<<x, y>>, m) <=> m \in {x, y}
    BY <2>1 DEF Holds
  <2>3. QED
    BY <2>2 DEF x, y
<1>3. L \in Seq(U) /\ \A m : Holds(L, m) <=>
        m = Host!Member("global", "limp_vcell", Host!NumberJson(c.limp_vcell))
  <2> DEFINE x == Host!Member("global", "limp_vcell", Host!NumberJson(c.limp_vcell))
  <2>1. x \in U
    BY DEF Displayed
  <2> HIDE DEF x, U
  <2>2. <<x>> \in Seq(U) /\ \A m : Holds(<<x>>, m) <=> m = x
    BY <2>1 DEF Holds
  <2>3. QED
    BY <2>2 DEF x
<1>4. A \in Seq(U) /\ \A m : Holds(A, m) <=> m = Host!Member("top", "active_profile", Host!Num(c.active))
  <2> DEFINE x == Host!Member("top", "active_profile", Host!Num(c.active))
  <2>1. x \in U
    BY DEF Displayed
  <2> HIDE DEF x, U
  <2>2. <<x>> \in Seq(U) /\ \A m : Holds(<<x>>, m) <=> m = x
    BY <2>1 DEF Holds
  <2>3. QED
    BY <2>2 DEF x
<1>5. P \in Seq(U) /\ \A m : Holds(P, m) <=> m \in {PrimitiveShown(c, k) : k \in Host!Primitives}
  <2>1. DOMAIN Host!PrimitiveOrder = 1 .. 5
    BY DEF Host!PrimitiveOrder
  <2>2. Host!Primitives = {Host!PrimitiveOrder[i] : i \in 1 .. 5}
    BY <2>1 DEF Host!Primitives, Host!ToSet
  <2>3. \A k \in Host!Primitives : PrimitiveShown(c, k) \in U
    BY DEF Displayed
  <2> HIDE DEF U
  <2>4. Len(P) = 5 /\ \A i \in 1 .. 5 : P[i] = PrimitiveShown(c, Host!PrimitiveOrder[i]) /\ P[i] \in U
    BY <2>1, <2>2, <2>3
  <2>5. P \in Seq(U)
    BY <2>1, <2>4
  <2> HIDE DEF P
  <2>6. \A m : Holds(P, m) <=> m \in {PrimitiveShown(c, k) : k \in Host!Primitives}
    BY <2>2, <2>4 DEF Holds
  <2>7. QED
    BY <2>5, <2>6
<1>6. F \in Seq(U) /\ \A m : Holds(F, m) <=> m \in {FieldShown(c, k) : k \in Host!Fields}
  <2>1. DOMAIN Host!FieldOrder = 1 .. 14
    BY DEF Host!FieldOrder
  <2>2. Host!Fields = {Host!FieldOrder[i] : i \in 1 .. 14}
    BY <2>1 DEF Host!Fields, Host!ToSet
  <2>3. \A k \in Host!Fields : FieldShown(c, k) \in U
    BY DEF Displayed
  <2> HIDE DEF U
  <2>4. Len(F) = 14 /\ \A i \in 1 .. 14 : F[i] = FieldShown(c, Host!FieldOrder[i]) /\ F[i] \in U
    BY <2>1, <2>2, <2>3
  <2>5. F \in Seq(U)
    BY <2>1, <2>4
  <2> HIDE DEF F
  <2>6. \A m : Holds(F, m) <=> m \in {FieldShown(c, k) : k \in Host!Fields}
    BY <2>2, <2>4 DEF Holds
  <2>7. QED
    BY <2>5, <2>6
<1>7. /\ Host!FlattenSeq(R) \in Seq(U)
      /\ \A m : Holds(Host!FlattenSeq(R), m) <=> m \in UNION {SlotShown(i, c.prof[i]) : i \in 1 .. Profiles}
  <2>1. ASSUME NEW i \in 1 .. Profiles
        PROVE  R[i] \in Seq(U) /\ \A m : Holds(R[i], m) <=> m \in SlotShown(i, c.prof[i])
    <3>1. SlotShown(i, c.prof[i]) \subseteq U
      BY DEF Displayed
    <3> DEFINE p == c.prof[i]
               x1 == Host!InProfile(i, "id", Host!Num(p.id))
               x2 == Host!InProfile(i, "name", Host!Str("name"))
               x3 == Host!InProfile(i, "reserved", Host!Bool(p.reserved))
               x4 == Host!InProfile(i, "cv_target", Host!RefJson(p.cv_ref, p.cv))
               x5 == Host!InProfile(i, "mode", Host!Str(Host!ModeShown(p.mode)))
               x6 == Host!InProfile(i, "voltage", Host!RefJson(p.rest_ref, p.rest))
               x7 == Host!InProfile(i, "v_cell", Host!NumberJson(p.revert))
    <3>2. R[i] = <<x1, x2, x3, x4, x5, x6, x7>> /\ SlotShown(i, c.prof[i]) = {x1, x2, x3, x4, x5, x6, x7}
      BY DEF Host!EmitProfile, SlotShown
    <3> HIDE DEF x1, x2, x3, x4, x5, x6, x7, U, R
    <3>3. DOMAIN R[i] = 1 .. 7 /\ Len(R[i]) = 7
      BY <3>2
    <3>4. R[i] \in Seq(U)
      BY <3>1, <3>2
    <3>5. \A m : Holds(R[i], m) <=> m \in {x1, x2, x3, x4, x5, x6, x7}
      BY <3>2, <3>3 DEF Holds
    <3>6. QED
      BY <3>2, <3>4, <3>5
  <2>2. R = [i \in 1 .. Profiles |-> R[i]]
    OBVIOUS
  <2> HIDE DEF R, U
  <2>3. /\ Host!FlattenSeq(R) \in Seq(U)
        /\ \A m : Holds(Host!FlattenSeq(R), m) <=> \E i \in 1 .. Profiles : Holds(R[i], m)
    BY <2>1, <2>2, FlattenedHolds
  <2>4. QED
    BY <2>1, <2>3
<1> DEFINE Q == Host!FlattenSeq(R)
<1> HIDE DEF H, P, F, L, A, U, Q
<1>8. H \o P \in Seq(U) /\ \A m : Holds(H \o P, m) <=> Holds(H, m) \/ Holds(P, m)
  BY <1>2, <1>5, JoinedHolds
<1>9. (H \o P) \o F \in Seq(U) /\ \A m : Holds((H \o P) \o F, m) <=> Holds(H \o P, m) \/ Holds(F, m)
  BY <1>6, <1>8, JoinedHolds
<1> DEFINE G == (H \o P) \o F
<1>10. G \in Seq(U)
  BY <1>9
<1> HIDE DEF G
<1>11. G \o L \in Seq(U) /\ \A m : Holds(G \o L, m) <=> Holds(G, m) \/ Holds(L, m)
  BY <1>3, <1>10, JoinedHolds
<1>12. Q \in Seq(U)
  BY <1>7 DEF Q
<1>13. (G \o L) \o Q \in Seq(U) /\ \A m : Holds((G \o L) \o Q, m) <=> Holds(G \o L, m) \/ Holds(Q, m)
  BY <1>11, <1>12, JoinedHolds
<1> DEFINE Y == (G \o L) \o Q
<1>14. Y \in Seq(U)
  BY <1>13
<1> HIDE DEF Y
<1>15. Y \o A \in Seq(U) /\ \A m : Holds(Y \o A, m) <=> Holds(Y, m) \/ Holds(A, m)
  BY <1>4, <1>14, JoinedHolds
<1>16. Host!Emit(c) = Y \o A
  BY <1>1 DEF Y, G, Q
<1>17. Len(Host!Emit(c)) \in Nat
  BY <1>15, <1>16
<1>18. \A m : Holds(G, m) <=> Holds(H, m) \/ Holds(P, m) \/ Holds(F, m)
  BY <1>8, <1>9 DEF G
<1>19. \A m : Holds(Y, m) <=> Holds(G, m) \/ Holds(L, m) \/ Holds(Q, m)
  BY <1>11, <1>13 DEF Y
<1>20. \A m : Holds(Host!Emit(c), m) <=>
         \/ Holds(H, m) \/ Holds(P, m) \/ Holds(F, m) \/ Holds(L, m) \/ Holds(Q, m) \/ Holds(A, m)
  BY <1>15, <1>16, <1>18, <1>19
<1>21. \A m : Holds(Host!Emit(c), m) <=> m \in Displayed(c)
  BY <1>2, <1>3, <1>4, <1>5, <1>6, <1>7, <1>20 DEF Displayed, Q
<1>22. QED
  BY <1>17, <1>21

\* A number that a float or an integer takes is shown as it came.
LEMMA NumberShown ==
  ASSUME NEW j, Host!IsJson(j), Host!Numeric(j), j.v # Wide
  PROVE  Host!NumberJson(j.v) = j
BY DEF Host!IsJson, Host!Numeric, Host!NumberJson, Host!Num, Host!Null

\* So are the other values.
LEMMA WordsShown ==
  ASSUME NEW j, Host!IsJson(j)
  PROVE  /\ j.t = "str" => Host!Str(j.v) = j
         /\ j.t = "bool" => Host!Bool(j.v) = j
         /\ j.t = "num" => Host!Num(j.v) = j
BY DEF Host!IsJson, Host!Str, Host!Bool, Host!Num

\* A field that was accepted is shown as it was sent.
LEMMA FieldAsSent ==
  ASSUME NEW k \in Host!Fields, NEW j, Host!IsJson(j), Host!Fits(k, j), j.v # Wide,
         NEW f, f[k] = Host!Stored(k, j), Host!FieldOK(f, k)
  PROVE  Host!FieldJson(k, f[k]) = j
<1>1. CASE k = "batt_temp_src"
  <2>1. f[k] \in Host!Sources /\ j.t = "str"
    <3>1. f["batt_temp_src"] \in Host!Sources
      BY <1>1 DEF Host!FieldOK
    <3>2. j.t = "str"
      <4>1. Host!Fits("batt_temp_src", j)
        BY <1>1
      <4>2. QED
        BY <4>1 DEF Host!Fits, Host!Uints, Host!Int8s
    <3>3. QED
      BY <1>1, <3>1, <3>2
  <2>2. f[k] = j.v
    BY <1>1, <2>1 DEF Host!Stored, Host!Sources
  <2>3. QED
    BY <1>1, <2>1, <2>2, WordsShown DEF Host!FieldJson
<1>2. CASE k = "require_batt_temp"
  <2>1. f[k] = j.v /\ j.t = "bool"
    <3>1. f[k] = j.v
      BY <1>2 DEF Host!Stored
    <3>2. j.t = "bool"
      <4>1. Host!Fits("require_batt_temp", j)
        BY <1>2
      <4>2. QED
        BY <4>1 DEF Host!Fits, Host!Uints, Host!Int8s
    <3>3. QED
      BY <3>1, <3>2
  <2>2. QED
    BY <1>2, <2>1, WordsShown DEF Host!FieldJson
<1>3. CASE k \notin {"batt_temp_src", "require_batt_temp"}
  <2>1. f[k] = j.v /\ Host!Numeric(j)
    BY <1>3 DEF Host!Fits, Host!Stored, Host!Numeric
  <2>2. Host!FieldJson(k, f[k]) = Host!NumberJson(j.v)
    BY <1>3, <2>1 DEF Host!FieldJson
  <2>3. QED
    BY <2>1, <2>2, NumberShown
<1>4. QED
  BY <1>1, <1>2, <1>3

\* A voltage that is sent by its name or as a number is shown as it was sent.
LEMMA VoltageAsSent ==
  ASSUME NEW j, Host!IsJson(j), Host!FitsRef(j), j.v # Wide, NEW old, NEW prim
  PROVE  Host!RefJson(Host!RefOf(j), Host!Resolved(Host!LiteralOf(j, old), Host!RefOf(j), prim)) = j
<1>1. CASE j.t = "str"
  BY <1>1, WordsShown DEF Host!FitsRef, Host!Numeric, Host!RefOf, Host!RefJson
<1>2. CASE j.t # "str"
  <2>1. Host!Numeric(j) /\ Host!RefOf(j) = Host!NoRef /\ Host!LiteralOf(j, old) = j.v
    BY <1>2 DEF Host!FitsRef, Host!RefOf, Host!LiteralOf
  <2>2. Host!NoRef \notin Host!Primitives
    BY PrimitiveNames
  <2>3. QED
    BY <2>1, <2>2, NumberShown DEF Host!RefJson, Host!Resolved
<1>3. QED
  BY <1>1, <1>2

\* So is a member of a profile, unless it has no spelling.
LEMMA SlotAsSent ==
  ASSUME NEW i, NEW p, NEW q, NEW prim, NEW x, Carried(q, p, prim), NEW m,
         m.in = "profiles", m.slot = i, m.key \in Host!ProfileKeys,
         Host!IsJson(m.json), Host!ProfileFits(m.key, m.json), m.json.v # Wide, Host!HasSpelling(m),
         m.key = "name" => m.json = Host!Str("name"),
         InSlot(p, m.key) = IntoSlot(m.key, m.json, x)
  PROVE  Host!InProfile(i, m.key, m.json) \in SlotShown(i, q)
<1> DEFINE j == m.json
<1>1. /\ q.id = p.id /\ q.reserved = p.reserved /\ q.mode = p.mode /\ q.revert = p.revert
      /\ q.cv_ref = p.cv_ref /\ q.rest_ref = p.rest_ref
      /\ q.cv = Host!Resolved(p.cv, p.cv_ref, prim) /\ q.rest = Host!Resolved(p.rest, p.rest_ref, prim)
  BY DEF Carried
<1>2. CASE m.key = "id"
  <2>1. q.id = j.v /\ j.t = "num"
    BY <1>1, <1>2 DEF InSlot, IntoSlot, Host!ProfileFits
  <2>2. QED
    BY <1>2, <2>1, WordsShown DEF SlotShown
<1>3. CASE m.key = "name"
  BY <1>3 DEF SlotShown
<1>4. CASE m.key = "reserved"
  <2>1. q.reserved = j.v /\ j.t = "bool"
    BY <1>1, <1>4 DEF InSlot, IntoSlot, Host!ProfileFits
  <2>2. QED
    BY <1>4, <2>1, WordsShown DEF SlotShown
<1>5. CASE m.key = "cv_target"
  <2>1. <<p.cv_ref, p.cv>> = <<Host!RefOf(j), Host!LiteralOf(j, x[2])>> /\ Host!FitsRef(j)
    BY <1>5 DEF InSlot, IntoSlot, Host!ProfileFits
  <2>2. Host!RefJson(q.cv_ref, q.cv) = j
    BY <1>1, <2>1, VoltageAsSent
  <2>3. QED
    BY <1>5, <2>2 DEF SlotShown
<1>6. CASE m.key = "voltage"
  <2>1. <<p.rest_ref, p.rest>> = <<Host!RefOf(j), Host!LiteralOf(j, x[2])>> /\ Host!FitsRef(j)
    BY <1>6 DEF InSlot, IntoSlot, Host!ProfileFits
  <2>2. Host!RefJson(q.rest_ref, q.rest) = j
    BY <1>1, <2>1, VoltageAsSent
  <2>3. QED
    BY <1>6, <2>2 DEF SlotShown
<1>7. CASE m.key = "mode"
  <2>1. q.mode = j.v /\ j.t = "str" /\ j.v \in {"hold", "zero"}
    BY <1>1, <1>7 DEF InSlot, IntoSlot, Host!ProfileFits, Host!HasSpelling
  <2>2. Host!ModeShown(q.mode) = j.v
    BY <2>1 DEF Host!ModeShown
  <2>3. QED
    BY <1>7, <2>1, <2>2, WordsShown DEF SlotShown
<1>8. CASE m.key = "v_cell"
  <2>1. q.revert = j.v /\ Host!Numeric(j)
    BY <1>1, <1>8 DEF InSlot, IntoSlot, Host!ProfileFits
  <2>2. Host!NumberJson(q.revert) = j
    BY <2>1, NumberShown
  <2>3. QED
    BY <1>8, <2>2 DEF SlotShown
<1>9. QED
  BY <1>2, <1>3, <1>4, <1>5, <1>6, <1>7, <1>8 DEF Host!ProfileKeys

\* A member of a document that was accepted, and the member that shows it.
Same(a, m) == a.in = m.in /\ a.slot = m.slot /\ a.key = m.key /\ a.json = m.json

\* Every member of a document that was accepted is shown again.
LEMMA AcceptedIsShown ==
  ASSUME Host!HostAssumption, Host!DocsAssumption, NEW c, CfgShaped(c), NEW i \in DOMAIN Docs,
         Host!Parse(c, Docs[i]).err = "OK", Host!Parse(c, Docs[i]).unknown = 0,
         Host!Valid(Host!Parse(c, Docs[i]).cfg), NEW k \in 1 .. Len(Docs[i]),
         Host!HasSpelling(Docs[i][k]), Docs[i][k].json.v # Wide
  PROVE  \E a \in Displayed(Host!Parse(c, Docs[i]).cfg) : Same(a, Docs[i][k])
<1> DEFINE doc == Docs[i]
           X == Puts(c, doc)
           o == Host!Overlay(c, doc)
           d == Host!Parse(c, doc)
           m == doc[k]
           j == m.json
           t == Host!Place(m)
<1>1. /\ Len(doc) \in Nat
      /\ \A x \in 1 .. Len(doc) : MemberTyped(doc[x]) /\ IsPlace(Host!Place(doc[x]))
                            /\ Into(doc[x], At(c, Host!Place(doc[x]))) = X[Host!Place(doc[x])]
  BY DocsAre
<1>2. /\ Host!IsJson(j) /\ (m.in # "profiles" => m.slot = 0)
      /\ m.key \in {"fw", "name"} => j = Host!Str(m.key)
  BY DEF Host!DocsAssumption
<1>3. Profiles \in Nat
  BY DEF Host!HostAssumption
<1>4. o.err = "OK" /\ d = Host!ResolveAfter(o) /\ d.unknown = 0 /\ Host!Valid(d.cfg)
      /\ Host!HasSpelling(m) /\ j.v # Wide
  BY ParseIs
<1> HIDE DEF doc, X
<1>5. Comes(o, c, doc, Len(doc), X)
  BY <1>1, DocumentComes
<1> HIDE DEF o, d
<1>6. ParsedAs(d, o) /\ o.unknown = 0
  <2>1. ParsedAs(d, o)
    BY <1>4, <1>5, ResolveAfterIs DEF Comes
  <2>2. QED
    BY <1>4, <2>1 DEF ParsedAs
<1>7. Accepted(m) /\ Known(m) /\ IsPlace(t) /\ k \in 1 .. Len(doc)
  BY <1>1, <1>4, <1>5, <1>6 DEF Comes, doc
<1>8. At(o.cfg, t) = Into(m, At(c, t))
  <2>1. At(o.cfg, t) = X[t]
    BY <1>4, <1>5, <1>7 DEF Comes
  <2>2. QED
    BY <1>1, <1>7, <2>1
<1>9. t[1] = m.in /\ t[2] = m.slot /\ t[3] = m.key
  BY DEF Host!Place
<1> HIDE DEF t, m
<1>10. /\ \A x \in Host!Fields : Host!FieldOK(d.cfg.f, x)
       /\ d.cfg.f = o.cfg.f /\ d.cfg.prim = o.cfg.prim /\ d.cfg.active = o.cfg.active
  BY <1>3, <1>4, <1>6, ValidMeans DEF ParsedAs
<1> DEFINE e == d.cfg
<1>11. \A b, q, v : /\ Host!Member(b, q, v).in = b /\ Host!Member(b, q, v).slot = 0
                    /\ Host!Member(b, q, v).key = q /\ Host!Member(b, q, v).json = v
  BY DEF Host!Member
<1> HIDE DEF e
<1>12. CASE IsSchema(m.in, m.key)
  <2>1. j = Host!Num("ours") /\ m.in = "top" /\ m.key = "schema_version" /\ m.slot = 0
    BY <1>2, <1>7, <1>12, WordsShown DEF Accepted, IsSchema
  <2>2. Same(Host!Member("top", "schema_version", Host!Num("ours")), m)
    BY <1>11, <2>1 DEF Same
  <2>3. QED
    BY <2>2 DEF Displayed, d, doc, m
<1>13. CASE IsFw(m.in, m.key)
  <2>1. j = Host!Str("fw") /\ m.in = "top" /\ m.key = "fw" /\ m.slot = 0
    BY <1>2, <1>13 DEF IsFw
  <2>2. Same(Host!Member("top", "fw", Host!Str("fw")), m)
    BY <1>11, <2>1 DEF Same
  <2>3. QED
    BY <2>2 DEF Displayed, d, doc, m
<1>14. CASE IsActive(m.in, m.key)
  <2>1. j.t = "num" /\ d.cfg.active = j.v
    BY <1>7, <1>8, <1>9, <1>10, <1>14 DEF Accepted, At, Into
  <2>2. Same(Host!Member("top", "active_profile", Host!Num(d.cfg.active)), m)
    BY <1>2, <1>11, <1>14, <2>1, WordsShown DEF Same, IsActive
  <2>3. QED
    BY <2>2 DEF Displayed, d, doc, m
<1>15. CASE IsPrimitive(m.in, m.key)
  <2>1. Host!Numeric(j) /\ ~IsActive(m.in, m.key)
    BY <1>7, <1>15, KindsApart DEF Accepted
  <2>2. d.cfg.prim[m.key] = j.v
    BY <1>8, <1>9, <1>10, <1>15, <2>1 DEF At, Into
  <2>3. Host!NumberJson(d.cfg.prim[m.key]) = j
    BY <1>2, <1>4, <2>1, <2>2, NumberShown DEF m
  <2>4. Same(PrimitiveShown(d.cfg, m.key), m) /\ m.key \in Host!Primitives
    BY <1>2, <1>11, <1>15, <2>3 DEF Same, PrimitiveShown, IsPrimitive
  <2>5. QED
    BY <2>4 DEF Displayed, d, doc, m
<1>16. CASE IsLimp(m.in, m.key)
  <2>1. Host!Numeric(j) /\ ~IsActive(m.in, m.key) /\ ~IsPrimitive(m.in, m.key)
    BY <1>7, <1>16, KindsApart DEF Accepted
  <2>2. o.sawLimpVcell
    BY <1>4, <1>5, <1>7, <1>16 DEF Comes, m
  <2>3. d.cfg.limp_vcell = o.cfg.limp_vcell
    BY <1>6, <2>2 DEF ParsedAs
  <2>4. d.cfg.limp_vcell = j.v
    BY <1>8, <1>9, <1>16, <2>1, <2>3 DEF At, Into
  <2>5. Host!NumberJson(d.cfg.limp_vcell) = j
    BY <1>2, <1>4, <2>1, <2>4, NumberShown DEF m
  <2>6. Same(Host!Member("global", "limp_vcell", Host!NumberJson(d.cfg.limp_vcell)), m)
    BY <1>2, <1>11, <1>16, <2>5 DEF Same, IsLimp
  <2>7. QED
    BY <2>6 DEF Displayed, d, doc, m
<1>17. CASE IsField(m.in, m.key)
  <2>1. Host!Fits(m.key, j) /\ ~IsActive(m.in, m.key) /\ ~IsPrimitive(m.in, m.key)
        /\ ~IsLimp(m.in, m.key) /\ m.key \in Host!Fields
    BY <1>7, <1>17, KindsApart DEF Accepted, IsField
  <2>2. d.cfg.f[m.key] = Host!Stored(m.key, j)
    BY <1>8, <1>9, <1>10, <1>17, <2>1 DEF At, Into
  <2>3. Host!FieldJson(m.key, d.cfg.f[m.key]) = j
    BY <1>2, <1>4, <1>10, <2>1, <2>2, FieldAsSent DEF m
  <2>4. Host!BlockOf(m.key) = m.in /\ m.in # "profiles"
    BY <1>17 DEF IsField, Host!BlockOf
  <2>5. Same(FieldShown(d.cfg, m.key), m)
    BY <1>2, <1>11, <2>3, <2>4 DEF Same, FieldShown
  <2>6. QED
    BY <2>1, <2>5 DEF Displayed, d, doc, m
<1>18. CASE IsOfProfile(m.in, m.slot, m.key)
  <2>1. /\ Host!ProfileFits(m.key, j) /\ ~IsActive(m.in, m.key) /\ ~IsPrimitive(m.in, m.key)
        /\ ~IsLimp(m.in, m.key) /\ ~IsField(m.in, m.key)
        /\ m.in = "profiles" /\ m.slot \in 1 .. Profiles /\ m.key \in Host!ProfileKeys
    BY <1>7, <1>18, KindsApart DEF Accepted, IsOfProfile
  <2>2. InSlot(o.cfg.prof[m.slot], m.key) = IntoSlot(m.key, j, At(c, t))
    BY <1>8, <1>9, <1>18, <2>1 DEF At, Into
  <2>3. Carried(d.cfg.prof[m.slot], o.cfg.prof[m.slot], o.cfg.prim)
    BY <1>6, <2>1 DEF ParsedAs
  <2>4. m.key = "name" => j = Host!Str("name")
    BY <1>2
  <2>5. Host!InProfile(m.slot, m.key, j) \in SlotShown(m.slot, d.cfg.prof[m.slot])
    <3>1. Host!IsJson(m.json) /\ m.json.v # Wide /\ Host!HasSpelling(m)
      BY <1>2, <1>4 DEF m
    <3>2. QED
      BY <2>1, <2>2, <2>3, <2>4, <3>1, SlotAsSent
  <2>6. Same(Host!InProfile(m.slot, m.key, j), m)
    BY <2>1 DEF Same, Host!InProfile
  <2>7. Host!InProfile(m.slot, m.key, j) \in Displayed(d.cfg)
    BY <2>1, <2>5 DEF Displayed
  <2>8. QED
    BY <2>6, <2>7 DEF d, doc, m
<1>19. QED
  BY <1>7, <1>12, <1>13, <1>14, <1>15, <1>16, <1>17, <1>18 DEF Known

-----------------------------------------------------------------------------
(* The echo: what a configuration shows, read back over it *)

\* A configuration whose profiles hold what their primitives say, and whose numbers are ones
\* that a document can carry.
FieldEchoes(f, k) ==
    Host!Fits(k, Host!FieldJson(k, f[k])) /\ Host!Stored(k, Host!FieldJson(k, f[k])) = f[k]
SlotEchoes(p, prim) ==
    /\ p.id # Wide
    /\ Host!Resolved(p.cv, p.cv_ref, prim) = p.cv /\ Host!Resolved(p.rest, p.rest_ref, prim) = p.rest
Readable(c) ==
    /\ CfgShaped(c) /\ c.active # Wide
    /\ \A k \in Host!Fields : FieldEchoes(c.f, k)
    /\ \A i \in 1 .. Profiles : SlotEchoes(c.prof[i], c.prim)

AsShownSlot(p) ==
    [p EXCEPT !.mode = Host!ModeShown(p.mode), !.revert = IF p.revert = Wide THEN Off ELSE p.revert]

\* What is shown of a profile.
LEMMA ShownSlot ==
  ASSUME NEW p, ProfileShaped(p)
  PROVE  LET q == AsShownSlot(p) IN
         /\ ProfileShaped(q) /\ q.id = p.id /\ q.reserved = p.reserved /\ q.cv_ref = p.cv_ref
         /\ q.cv = p.cv /\ q.rest_ref = p.rest_ref /\ q.rest = p.rest
         /\ q.mode = Host!ModeShown(p.mode) /\ q.revert = IF p.revert = Wide THEN Off ELSE p.revert
<1> DEFINE a == Host!ModeShown(p.mode)
           b == IF p.revert = Wide THEN Off ELSE p.revert
<1>1. AsShownSlot(p) = [p EXCEPT !.mode = a, !.revert = b]
  BY DEF AsShownSlot
<1> HIDE DEF a, b
<1>2. LET q == [p EXCEPT !.mode = a, !.revert = b] IN
      /\ ProfileShaped(q) /\ q.id = p.id /\ q.reserved = p.reserved /\ q.cv_ref = p.cv_ref
      /\ q.cv = p.cv /\ q.rest_ref = p.rest_ref /\ q.rest = p.rest
      /\ q.mode = a /\ q.revert = b
  BY DEF ProfileShaped, ProfileTyped
<1>3. QED
  BY <1>1, <1>2 DEF a, b

\* What is shown of a configuration.
LEMMA AsShownIs ==
  ASSUME NEW c, CfgShaped(c)
  PROVE  LET e == Host!AsShown(c) IN
         /\ CfgShaped(e) /\ e.active = c.active /\ e.prim = c.prim /\ e.limp_vcell = c.limp_vcell
         /\ e.f = c.f /\ \A i \in 1 .. Profiles : e.prof[i] = AsShownSlot(c.prof[i])
<1> DEFINE prof == [i \in 1 .. Profiles |-> AsShownSlot(c.prof[i])]
           e == [c EXCEPT !.prof = prof]
<1>1. Host!AsShown(c) = e
  <2>1. DOMAIN c.prof = 1 .. Profiles /\ \A i \in 1 .. Profiles : ProfileShaped(c.prof[i])
    BY DEF CfgShaped
  <2> DEFINE X(p) == [p EXCEPT !.mode = Host!ModeShown(@), !.revert = IF @ = Wide THEN Off ELSE @]
  <2>2. \A i \in 1 .. Profiles : X(c.prof[i]) = AsShownSlot(c.prof[i])
    BY <2>1 DEF AsShownSlot, ProfileShaped
  <2>3. [i \in DOMAIN c.prof |-> X(c.prof[i])] = prof
    BY <2>1, <2>2
  <2>4. Host!AsShown(c) = [c EXCEPT !.prof = [i \in DOMAIN c.prof |-> X(c.prof[i])]]
    BY DEF Host!AsShown, CfgShaped
  <2>5. QED
    BY <2>3, <2>4
<1>2. \A i \in 1 .. Profiles : ProfileShaped(prof[i]) /\ prof[i] = AsShownSlot(c.prof[i])
  BY ShownSlot DEF CfgShaped
<1>3. prof = [i \in 1 .. Profiles |-> prof[i]]
  OBVIOUS
<1> HIDE DEF prof
<1>4. ProfilesTyped(prof)
  BY <1>2, <1>3 DEF ProfilesTyped, ProfileShaped
<1>5. /\ CfgShaped(e) /\ e.active = c.active /\ e.prim = c.prim /\ e.limp_vcell = c.limp_vcell
      /\ e.f = c.f /\ e.prof = prof
  BY <1>2, <1>3, <1>4 DEF CfgShaped, CfgTyped
<1>6. QED
  BY <1>1, <1>2, <1>5

\* What a number and a voltage become on the way out and back.
LEMMA NumberReadBack ==
  ASSUME NEW v
  PROVE  LET j == Host!NumberJson(v) IN
         /\ Host!Numeric(j) /\ j.v = (IF v = Wide THEN Off ELSE v) /\ j.t \in {"num", "null"}
         /\ j.t = "num" => v # Wide /\ j.v = v
         /\ j.t = "null" => j.v = Off
BY DEF Host!NumberJson, Host!Numeric, Host!Num, Host!Null

LEMMA VoltageReadBack ==
  ASSUME Wide \notin Int, Off # Wide, NEW ref \in Refs, NEW v \in Volts
  PROVE  LET j == Host!RefJson(ref, v) IN
         /\ Host!FitsRef(j) /\ Host!RefOf(j) = ref /\ Host!LiteralOf(j, v) = v
         /\ j.t = "num" => j.v \in Int
         /\ j.t = "null" => j.v = Off
<1> DEFINE j == Host!RefJson(ref, v)
<1>1. CASE ref \in Host!Primitives
  <2>1. j = Host!Str(ref)
    BY <1>1 DEF Host!RefJson
  <2>2. j.t = "str" /\ j.v = ref
    BY <2>1 DEF Host!Str
  <2> HIDE DEF j
  <2>3. Host!FitsRef(j) /\ Host!RefOf(j) = ref /\ Host!LiteralOf(j, v) = v
    BY <1>1, <2>2 DEF Host!FitsRef, Host!RefOf, Host!LiteralOf
  <2>4. QED
    BY <2>2, <2>3 DEF j
<1>2. CASE ref = Host!NoRef
  <2>1. j = Host!NumberJson(v)
    BY <1>2, PrimitiveNames DEF Host!RefJson
  <2>2. /\ Host!Numeric(j) /\ j.v = v /\ j.t \in {"num", "null"}
        /\ j.t = "null" => j.v = Off
    BY <2>1, NumberReadBack DEF Volts
  <2>3. j.t = "num" => j.v \in Int
    BY <2>1 DEF Volts, Host!NumberJson, Host!Num, Host!Null
  <2> HIDE DEF j
  <2>4. Host!FitsRef(j) /\ Host!RefOf(j) = ref /\ Host!LiteralOf(j, v) = v
    BY <1>2, <2>2 DEF Host!FitsRef, Host!RefOf, Host!LiteralOf
  <2>5. QED
    BY <2>2, <2>3, <2>4 DEF j
<1>3. QED
  BY <1>1, <1>2 DEF Refs

\* A member that is shown goes where it came from and puts there what is shown of it.
Echoed(a, c) ==
    /\ MemberTyped(a) /\ IsPlace(Host!Place(a)) /\ Accepted(a) /\ Known(a)
    /\ Into(a, At(c, Host!Place(a))) = At(Host!AsShown(c), Host!Place(a))

\* The members that are shown, one kind after the other.
LEMMA TopEchoed ==
  ASSUME Wide \notin Int, Off # Wide, NEW c, Readable(c), NEW a,
         \/ a = Host!Member("top", "schema_version", Host!Num("ours"))
         \/ a = Host!Member("top", "fw", Host!Str("fw"))
         \/ a = Host!Member("top", "active_profile", Host!Num(c.active))
  PROVE  Echoed(a, c)
<1> DEFINE t == Host!Place(a)
<1>1. t[1] = a.in /\ t[2] = a.slot /\ t[3] = a.key /\ IsPlace(t) /\ a.in = "top"
  BY DEF Host!Place, IsPlace, Host!Member
<1>2. MemberTyped(a)
  BY DEF MemberTyped, Host!InVolts, Host!Member, Host!Num, Host!Str
<1>3. CASE a = Host!Member("top", "schema_version", Host!Num("ours"))
  <2>1. a.json.t = "num" /\ a.json.v = "ours" /\ IsSchema(a.in, a.key)
    BY <1>3 DEF Host!Member, Host!Num, IsSchema
  <2>2. /\ ~IsActive(a.in, a.key) /\ ~IsPrimitive(a.in, a.key) /\ ~IsLimp(a.in, a.key)
        /\ ~IsField(a.in, a.key) /\ ~IsOfProfile(a.in, a.slot, a.key) /\ ~IsBlock(a.in, a.key)
        /\ ~IsBeyond(a.in, a.slot)
    BY <1>1, <2>1, KindsApart
  <2>3. Accepted(a) /\ Known(a)
    BY <2>1, <2>2 DEF Accepted, Known
  <2>4. Into(a, At(c, t)) = At(c, t) /\ \A e : At(e, t) = Host!NoRef
    BY <1>1, <2>2 DEF Into, At
  <2>5. QED
    BY <1>1, <1>2, <2>3, <2>4 DEF Echoed
<1>4. CASE a = Host!Member("top", "fw", Host!Str("fw"))
  <2>1. IsFw(a.in, a.key)
    BY <1>4 DEF Host!Member, IsFw
  <2>2. /\ ~IsActive(a.in, a.key) /\ ~IsPrimitive(a.in, a.key) /\ ~IsLimp(a.in, a.key)
        /\ ~IsField(a.in, a.key) /\ ~IsOfProfile(a.in, a.slot, a.key) /\ ~IsBlock(a.in, a.key)
        /\ ~IsBeyond(a.in, a.slot) /\ ~IsSchema(a.in, a.key)
    BY <1>1, <2>1, KindsApart
  <2>3. Accepted(a) /\ Known(a)
    BY <2>1, <2>2 DEF Accepted, Known
  <2>4. Into(a, At(c, t)) = At(c, t) /\ \A e : At(e, t) = Host!NoRef
    BY <1>1, <2>2 DEF Into, At
  <2>5. QED
    BY <1>1, <1>2, <2>3, <2>4 DEF Echoed
<1>5. CASE a = Host!Member("top", "active_profile", Host!Num(c.active))
  <2>1. a.json.t = "num" /\ a.json.v = c.active /\ IsActive(a.in, a.key)
    BY <1>5 DEF Host!Member, Host!Num, IsActive
  <2>2. /\ ~IsPrimitive(a.in, a.key) /\ ~IsLimp(a.in, a.key) /\ ~IsSchema(a.in, a.key)
        /\ ~IsField(a.in, a.key) /\ ~IsOfProfile(a.in, a.slot, a.key) /\ ~IsBlock(a.in, a.key)
        /\ ~IsBeyond(a.in, a.slot)
    BY <1>1, <2>1, KindsApart
  <2>3. Accepted(a) /\ Known(a)
    BY <2>1, <2>2 DEF Accepted, Known, Readable
  <2>4. CfgShaped(c)
    BY DEF Readable
  <2>5. Into(a, At(c, t)) = c.active /\ \A e : At(e, t) = e.active
    BY <1>1, <2>1 DEF Into, At
  <2>6. Into(a, At(c, t)) = At(Host!AsShown(c), t)
    BY <2>4, <2>5, AsShownIs
  <2>7. QED
    BY <1>1, <1>2, <2>3, <2>6 DEF Echoed
<1>6. QED
  BY <1>3, <1>4, <1>5

LEMMA PrimitiveEchoed ==
  ASSUME Wide \notin Int, Off # Wide, NEW c, Readable(c), NEW k \in Host!Primitives
  PROVE  Echoed(PrimitiveShown(c, k), c)
<1> DEFINE a == PrimitiveShown(c, k)
           v == c.prim[k]
           t == Host!Place(a)
<1>1. a.in = "primitives" /\ a.key = k /\ a.slot = 0 /\ a.json = Host!NumberJson(v)
  BY DEF PrimitiveShown, Host!Member
<1> HIDE DEF a
<1>2. CfgShaped(c) /\ v \in Volts
  BY DEF Readable, CfgShaped, CfgTyped
<1>3. /\ a.json.v = v /\ Host!Numeric(a.json) /\ (a.json.t = "num" => a.json.v \in Int)
      /\ (a.json.t = "null" => a.json.v = Off)
  BY <1>1, <1>2, NumberReadBack DEF Volts, Host!NumberJson, Host!Num, Host!Null
<1>4. IsPrimitive(a.in, a.key) /\ MemberTyped(a)
  BY <1>1, <1>3 DEF IsPrimitive, MemberTyped
<1>5. t[1] = a.in /\ t[2] = a.slot /\ t[3] = a.key /\ IsPlace(t)
  BY <1>1 DEF Host!Place, IsPlace
<1>6. /\ ~IsActive(a.in, a.key) /\ ~IsLimp(a.in, a.key) /\ ~IsSchema(a.in, a.key)
      /\ ~IsField(a.in, a.key) /\ ~IsOfProfile(a.in, a.slot, a.key) /\ ~IsBlock(a.in, a.key)
      /\ ~IsBeyond(a.in, a.slot)
  BY <1>4, KindsApart
<1>7. Accepted(a) /\ Known(a)
  BY <1>3, <1>4, <1>6 DEF Accepted, Known
<1>8. Into(a, At(c, t)) = v /\ \A e : At(e, t) = e.prim[k]
  BY <1>1, <1>3, <1>4, <1>5, <1>6 DEF Into, At
<1>9. Into(a, At(c, t)) = At(Host!AsShown(c), t)
  BY <1>2, <1>8, AsShownIs
<1>10. QED
  BY <1>4, <1>5, <1>7, <1>9 DEF Echoed, a

LEMMA LimpEchoed ==
  ASSUME Wide \notin Int, Off # Wide, NEW c, Readable(c)
  PROVE  Echoed(Host!Member("global", "limp_vcell", Host!NumberJson(c.limp_vcell)), c)
<1> DEFINE v == c.limp_vcell
           a == Host!Member("global", "limp_vcell", Host!NumberJson(v))
           t == Host!Place(a)
<1>1. a.in = "global" /\ a.key = "limp_vcell" /\ a.slot = 0 /\ a.json = Host!NumberJson(v)
  BY DEF Host!Member
<1> HIDE DEF a
<1>2. CfgShaped(c) /\ v \in Volts
  BY DEF Readable, CfgShaped, CfgTyped
<1>3. /\ a.json.v = v /\ Host!Numeric(a.json) /\ (a.json.t = "num" => a.json.v \in Int)
      /\ (a.json.t = "null" => a.json.v = Off)
  BY <1>1, <1>2, NumberReadBack DEF Volts, Host!NumberJson, Host!Num, Host!Null
<1>4. IsLimp(a.in, a.key) /\ MemberTyped(a)
  BY <1>1, <1>3 DEF IsLimp, MemberTyped
<1>5. t[1] = a.in /\ t[2] = a.slot /\ t[3] = a.key /\ IsPlace(t)
  BY <1>1 DEF Host!Place, IsPlace
<1>6. /\ ~IsActive(a.in, a.key) /\ ~IsPrimitive(a.in, a.key) /\ ~IsSchema(a.in, a.key)
      /\ ~IsField(a.in, a.key) /\ ~IsOfProfile(a.in, a.slot, a.key) /\ ~IsBlock(a.in, a.key)
      /\ ~IsBeyond(a.in, a.slot)
  BY <1>4, KindsApart
<1>7. Accepted(a) /\ Known(a)
  BY <1>3, <1>4, <1>6 DEF Accepted, Known
<1>8. Into(a, At(c, t)) = v /\ \A e : At(e, t) = e.limp_vcell
  BY <1>1, <1>3, <1>4, <1>5, <1>6 DEF Into, At
<1>9. Into(a, At(c, t)) = At(Host!AsShown(c), t)
  BY <1>2, <1>8, AsShownIs
<1>10. QED
  BY <1>4, <1>5, <1>7, <1>9 DEF Echoed, a

LEMMA FieldEchoed ==
  ASSUME NEW c, Readable(c), NEW k \in Host!Fields
  PROVE  Echoed(FieldShown(c, k), c)
<1> DEFINE a == FieldShown(c, k)
           j == Host!FieldJson(k, c.f[k])
           t == Host!Place(a)
<1>1. a.in = Host!BlockOf(k) /\ a.key = k /\ a.slot = 0 /\ a.json = j
  BY DEF FieldShown, Host!Member
<1>2. CfgShaped(c) /\ Host!Fits(k, j) /\ Host!Stored(k, j) = c.f[k]
  BY DEF Readable, FieldEchoes
<1>3. j.t = "null" => j.v = Off
  BY NumberReadBack DEF Host!FieldJson, Host!Bool, Host!Str
<1> HIDE DEF a, j
<1>4. IsField(a.in, a.key) /\ a.in \in {"limits", "global"}
  BY <1>1 DEF IsField, Host!BlockOf
<1>5. /\ ~IsActive(a.in, a.key) /\ ~IsPrimitive(a.in, a.key) /\ ~IsSchema(a.in, a.key)
      /\ ~IsLimp(a.in, a.key) /\ ~IsOfProfile(a.in, a.slot, a.key) /\ ~IsBlock(a.in, a.key)
      /\ ~IsBeyond(a.in, a.slot)
  BY <1>4, KindsApart
<1>6. MemberTyped(a)
  <2>1. k \notin {"limp_vcell", "cv_target", "voltage"}
    BY FieldNames
  <2>2. ~Host!InVolts(a)
    BY <1>1, <1>4, <2>1 DEF Host!InVolts
  <2>3. QED
    BY <1>1, <1>3, <2>2 DEF MemberTyped
<1>7. t[1] = a.in /\ t[2] = a.slot /\ t[3] = a.key /\ IsPlace(t)
  BY <1>1 DEF Host!Place, IsPlace
<1>8. Accepted(a) /\ Known(a)
  BY <1>1, <1>2, <1>4, <1>5 DEF Accepted, Known
<1>9. Into(a, At(c, t)) = c.f[k] /\ \A e : At(e, t) = e.f[k]
  BY <1>1, <1>2, <1>4, <1>5, <1>7 DEF Into, At
<1>10. Into(a, At(c, t)) = At(Host!AsShown(c), t)
  BY <1>2, <1>9, AsShownIs
<1>11. QED
  BY <1>6, <1>7, <1>8, <1>10 DEF Echoed, a

LEMMA SlotMembers ==
  ASSUME Wide \notin Int, Off # Wide, NEW i, NEW p, ProfileShaped(p), p.id # Wide, NEW a \in SlotShown(i, p)
  PROVE  /\ a.in = "profiles" /\ a.slot = i /\ a.key \in Host!ProfileKeys /\ MemberTyped(a)
         /\ Host!ProfileFits(a.key, a.json)
         /\ IntoSlot(a.key, a.json, InSlot(p, a.key)) = InSlot(AsShownSlot(p), a.key)
<1>1. a.in = "profiles" /\ a.slot = i
  BY DEF SlotShown, Host!InProfile
<1> DEFINE q == AsShownSlot(p)
           G == /\ a.key \in Host!ProfileKeys /\ MemberTyped(a) /\ Host!ProfileFits(a.key, a.json)
                /\ IntoSlot(a.key, a.json, InSlot(p, a.key)) = InSlot(q, a.key)
<1>2. /\ q.id = p.id /\ q.reserved = p.reserved /\ q.cv_ref = p.cv_ref
      /\ q.cv = p.cv /\ q.rest_ref = p.rest_ref /\ q.rest = p.rest
      /\ q.mode = Host!ModeShown(p.mode) /\ q.revert = IF p.revert = Wide THEN Off ELSE p.revert
  BY ShownSlot
<1>3. p.cv_ref \in Refs /\ p.cv \in Volts /\ p.rest_ref \in Refs /\ p.rest \in Volts
  BY DEF ProfileShaped, ProfileTyped
<1>11. SUFFICES G
  BY <1>1
<1> HIDE DEF q
<1>4. CASE a = Host!InProfile(i, "id", Host!Num(p.id))
  <2>1. a.in = "profiles" /\ a.key = "id" /\ a.json.t = "num" /\ a.json.v = p.id
    BY <1>4 DEF Host!InProfile, Host!Num
  <2>2. QED
    BY <1>2, <2>1 DEF MemberTyped, Host!InVolts, Host!ProfileKeys, Host!ProfileFits, IntoSlot, InSlot
<1>5. CASE a = Host!InProfile(i, "name", Host!Str("name"))
  <2>1. a.in = "profiles" /\ a.key = "name" /\ a.json.t = "str"
    BY <1>5 DEF Host!InProfile, Host!Str
  <2>2. QED
    BY <2>1 DEF MemberTyped, Host!InVolts, Host!ProfileKeys, Host!ProfileFits, IntoSlot, InSlot
<1>6. CASE a = Host!InProfile(i, "reserved", Host!Bool(p.reserved))
  <2>1. a.in = "profiles" /\ a.key = "reserved" /\ a.json.t = "bool" /\ a.json.v = p.reserved
    BY <1>6 DEF Host!InProfile, Host!Bool
  <2>2. QED
    BY <1>2, <2>1 DEF MemberTyped, Host!InVolts, Host!ProfileKeys, Host!ProfileFits, IntoSlot, InSlot
<1>7. CASE a = Host!InProfile(i, "cv_target", Host!RefJson(p.cv_ref, p.cv))
  <2> DEFINE j == Host!RefJson(p.cv_ref, p.cv)
  <2>1. a.in = "profiles" /\ a.key = "cv_target" /\ a.json = j
    BY <1>7 DEF Host!InProfile
  <2>2. /\ Host!FitsRef(j) /\ Host!RefOf(j) = p.cv_ref /\ Host!LiteralOf(j, p.cv) = p.cv
        /\ (j.t = "num" => j.v \in Int) /\ (j.t = "null" => j.v = Off)
    BY <1>3, VoltageReadBack
  <2> HIDE DEF j
  <2>3. MemberTyped(a) /\ Host!ProfileFits(a.key, a.json) /\ a.key \in Host!ProfileKeys
    BY <2>1, <2>2 DEF MemberTyped, Host!ProfileKeys, Host!ProfileFits
  <2>4. InSlot(p, a.key) = <<p.cv_ref, p.cv>> /\ InSlot(q, a.key) = <<p.cv_ref, p.cv>>
    BY <1>2, <2>1 DEF InSlot
  <2>5. IntoSlot(a.key, a.json, InSlot(p, a.key)) = <<p.cv_ref, p.cv>>
    BY <2>1, <2>2, <2>4 DEF IntoSlot
  <2>6. QED
    BY <2>3, <2>4, <2>5
<1>8. CASE a = Host!InProfile(i, "mode", Host!Str(Host!ModeShown(p.mode)))
  <2>1. a.in = "profiles" /\ a.key = "mode" /\ a.json.t = "str" /\ a.json.v = Host!ModeShown(p.mode)
    BY <1>8 DEF Host!InProfile, Host!Str
  <2>2. Host!ModeShown(p.mode) \in {"hold", "zero"}
    BY DEF Host!ModeShown
  <2>3. QED
    BY <1>2, <2>1, <2>2 DEF MemberTyped, Host!InVolts, Host!ProfileKeys, Host!ProfileFits, IntoSlot, InSlot
<1>9. CASE a = Host!InProfile(i, "voltage", Host!RefJson(p.rest_ref, p.rest))
  <2> DEFINE j == Host!RefJson(p.rest_ref, p.rest)
  <2>1. a.in = "profiles" /\ a.key = "voltage" /\ a.json = j
    BY <1>9 DEF Host!InProfile
  <2>2. /\ Host!FitsRef(j) /\ Host!RefOf(j) = p.rest_ref /\ Host!LiteralOf(j, p.rest) = p.rest
        /\ (j.t = "num" => j.v \in Int) /\ (j.t = "null" => j.v = Off)
    BY <1>3, VoltageReadBack
  <2> HIDE DEF j
  <2>3. MemberTyped(a) /\ Host!ProfileFits(a.key, a.json) /\ a.key \in Host!ProfileKeys
    BY <2>1, <2>2 DEF MemberTyped, Host!ProfileKeys, Host!ProfileFits
  <2>4. InSlot(p, a.key) = <<p.rest_ref, p.rest>> /\ InSlot(q, a.key) = <<p.rest_ref, p.rest>>
    BY <1>2, <2>1 DEF InSlot
  <2>5. IntoSlot(a.key, a.json, InSlot(p, a.key)) = <<p.rest_ref, p.rest>>
    BY <2>1, <2>2, <2>4 DEF IntoSlot
  <2>6. QED
    BY <2>3, <2>4, <2>5
<1>10. CASE a = Host!InProfile(i, "v_cell", Host!NumberJson(p.revert))
  <2>1. a.in = "profiles" /\ a.key = "v_cell" /\ a.json = Host!NumberJson(p.revert)
    BY <1>10 DEF Host!InProfile
  <2>2. /\ Host!Numeric(a.json) /\ a.json.v = (IF p.revert = Wide THEN Off ELSE p.revert)
        /\ (a.json.t = "null" => a.json.v = Off)
    BY <2>1, NumberReadBack
  <2>3. MemberTyped(a) /\ Host!ProfileFits(a.key, a.json) /\ a.key \in Host!ProfileKeys
    BY <2>1, <2>2 DEF MemberTyped, Host!InVolts, Host!ProfileKeys, Host!ProfileFits
  <2>4. IntoSlot(a.key, a.json, InSlot(p, a.key)) = a.json.v /\ InSlot(q, a.key) = q.revert
    BY <2>1 DEF IntoSlot, InSlot
  <2>5. QED
    BY <1>2, <2>2, <2>3, <2>4
<1>12. QED
  BY <1>4, <1>5, <1>6, <1>7, <1>8, <1>9, <1>10 DEF SlotShown

LEMMA SlotEchoed ==
  ASSUME Wide \notin Int, Off # Wide, NEW c, Readable(c), NEW i \in 1 .. Profiles,
         NEW a \in SlotShown(i, c.prof[i])
  PROVE  Echoed(a, c)
<1> DEFINE t == Host!Place(a)
           p == c.prof[i]
<1>1. CfgShaped(c) /\ ProfileShaped(p) /\ p.id # Wide
  BY DEF Readable, CfgShaped, SlotEchoes
<1>2. /\ a.in = "profiles" /\ a.slot = i /\ a.key \in Host!ProfileKeys /\ MemberTyped(a)
      /\ Host!ProfileFits(a.key, a.json)
      /\ IntoSlot(a.key, a.json, InSlot(p, a.key)) = InSlot(AsShownSlot(p), a.key)
  BY <1>1, SlotMembers
<1> HIDE DEF p
<1>3. IsOfProfile(a.in, a.slot, a.key)
  BY <1>2 DEF IsOfProfile
<1>4. /\ ~IsActive(a.in, a.key) /\ ~IsPrimitive(a.in, a.key) /\ ~IsSchema(a.in, a.key)
      /\ ~IsLimp(a.in, a.key) /\ ~IsField(a.in, a.key) /\ ~IsBlock(a.in, a.key)
      /\ ~IsBeyond(a.in, a.slot)
  BY <1>3, KindsApart
<1>5. t[1] = a.in /\ t[2] = a.slot /\ t[3] = a.key /\ IsPlace(t)
  BY <1>2 DEF Host!Place, IsPlace
<1>6. Accepted(a) /\ Known(a)
  BY <1>2, <1>3, <1>4 DEF Accepted, Known
<1>7. /\ \A e : At(e, t) = InSlot(e.prof[i], a.key)
      /\ \A x : Into(a, x) = IntoSlot(a.key, a.json, x)
  BY <1>2, <1>3, <1>4, <1>5 DEF Into, At
<1>8. Into(a, At(c, t)) = At(Host!AsShown(c), t)
  <2>1. Host!AsShown(c).prof[i] = AsShownSlot(p)
    BY <1>1, AsShownIs DEF p
  <2>2. QED
    BY <1>2, <1>7, <2>1 DEF p
<1>9. QED
  BY <1>2, <1>5, <1>6, <1>8 DEF Echoed

LEMMA ShownEchoed ==
  ASSUME Wide \notin Int, Off # Wide, NEW c, Readable(c), NEW a \in Displayed(c)
  PROVE  Echoed(a, c)
BY TopEchoed, PrimitiveEchoed, LimpEchoed, FieldEchoed, SlotEchoed DEF Displayed

\* Where what is shown differs from what is held, a member says so.
LEMMA DifferenceIsShown ==
  ASSUME NEW c, CfgShaped(c), NEW t, IsPlace(t),
         \A a \in Displayed(c) : Host!Place(a) # t
  PROVE  At(Host!AsShown(c), t) = At(c, t)
<1> DEFINE e == Host!AsShown(c)
<1>1. /\ e.active = c.active /\ e.prim = c.prim /\ e.limp_vcell = c.limp_vcell /\ e.f = c.f
      /\ \A i \in 1 .. Profiles : e.prof[i] = AsShownSlot(c.prof[i])
  BY AsShownIs
<1> HIDE DEF e
<1>2. CASE IsOfProfile(t[1], t[2], t[3])
  <2> DEFINE i == t[2]
             p == c.prof[i]
  <2>1. i \in 1 .. Profiles /\ t = <<"profiles", i, t[3]>> /\ ProfileShaped(p)
    BY <1>2 DEF IsOfProfile, IsPlace, CfgShaped
  <2>2. SlotShown(i, p) \subseteq Displayed(c)
    BY <2>1 DEF Displayed
  <2>3. t[3] # "mode" /\ t[3] # "v_cell"
    <3>1. \A k, j : Host!Place(Host!InProfile(i, k, j)) = <<"profiles", i, k>>
      BY DEF Host!Place, Host!InProfile
    <3>2. /\ Host!InProfile(i, "mode", Host!Str(Host!ModeShown(p.mode))) \in Displayed(c)
          /\ Host!InProfile(i, "v_cell", Host!NumberJson(p.revert)) \in Displayed(c)
      BY <2>2 DEF SlotShown
    <3>3. t # <<"profiles", i, "mode">> /\ t # <<"profiles", i, "v_cell">>
      BY <3>1, <3>2
    <3> HIDE DEF i
    <3>4. QED
      BY <2>1, <3>3
  <2>4. /\ e.prof[i].id = p.id /\ e.prof[i].reserved = p.reserved /\ e.prof[i].cv_ref = p.cv_ref
        /\ e.prof[i].cv = p.cv /\ e.prof[i].rest_ref = p.rest_ref /\ e.prof[i].rest = p.rest
    BY <1>1, <2>1, ShownSlot
  <2>5. InSlot(e.prof[i], t[3]) = InSlot(p, t[3])
    BY <2>3, <2>4 DEF InSlot
  <2>6. /\ ~IsActive(t[1], t[3]) /\ ~IsPrimitive(t[1], t[3]) /\ ~IsLimp(t[1], t[3])
        /\ ~IsField(t[1], t[3])
    BY <1>2, KindsApart
  <2>7. \A x : At(x, t) = InSlot(x.prof[i], t[3])
    BY <1>2, <2>6 DEF At
  <2>8. QED
    BY <2>5, <2>7 DEF e
<1>3. CASE ~IsOfProfile(t[1], t[2], t[3])
  <2>1. At(e, t) = At(c, t)
    BY <1>1, <1>3 DEF At
  <2>2. QED
    BY <2>1 DEF e
<1>4. QED
  BY <1>2, <1>3

\* What a profile already holds of its primitives stays.
LEMMA SettledStays ==
  ASSUME NEW q, NEW p, NEW prim, ProfileShaped(p), SlotEchoes(p, prim), Carried(q, p, prim)
  PROVE  q = p
BY DEF Carried, ProfileShaped, SlotEchoes

\* What is shown of a configuration, read back over it, is what is shown of it.
LEMMA EchoReads ==
  ASSUME Profiles \in Nat \ {0}, Wide \notin Int, Off # Wide, NEW c, Readable(c)
  PROVE  Host!Parse(c, Host!Emit(c))
           = [Host!Begin(Host!AsShown(c)) EXCEPT !.sawLimp = TRUE, !.sawLimpVcell = TRUE]
<1> DEFINE doc == Host!Emit(c)
           e == Host!AsShown(c)
           X == [t \in {Host!Place(doc[k]) : k \in 1 .. Len(doc)} |-> At(e, t)]
           o == Host!Overlay(c, doc)
           r == Host!ResolveAfter(o)
<1>1. CfgShaped(c)
  BY DEF Readable
<1>2. /\ CfgShaped(e) /\ e.active = c.active /\ e.prim = c.prim /\ e.limp_vcell = c.limp_vcell
      /\ e.f = c.f /\ \A i \in 1 .. Profiles : e.prof[i] = AsShownSlot(c.prof[i])
  BY <1>1, AsShownIs
<1>3. Len(doc) \in Nat /\ \A m : Holds(doc, m) <=> m \in Displayed(c)
  BY EmitShows
<1> HIDE DEF doc
<1>4. \A k \in 1 .. Len(doc) : doc[k] \in Displayed(c)
  BY <1>3 DEF Holds
<1>5. \A a \in Displayed(c) : \E k \in 1 .. Len(doc) : doc[k] = a
  BY <1>3 DEF Holds
<1>6. \A k \in 1 .. Len(doc) : Echoed(doc[k], c)
  BY <1>4, ShownEchoed
<1>7. \A k \in 1 .. Len(doc) :
         /\ MemberTyped(doc[k]) /\ IsPlace(Host!Place(doc[k]))
         /\ Into(doc[k], At(c, Host!Place(doc[k]))) = X[Host!Place(doc[k])]
         /\ Accepted(doc[k]) /\ Known(doc[k])
  BY <1>6 DEF Echoed
<1>8. \A k \in 1 .. Len(doc) : X[Host!Place(doc[k])] = At(e, Host!Place(doc[k]))
  OBVIOUS
<1> HIDE DEF X, e
<1>9. Comes(o, c, doc, Len(doc), X)
  BY <1>1, <1>3, <1>7, DocumentComes
<1> HIDE DEF o
<1>10. o.err = "OK" /\ ParseShaped(o) /\ o.unknown = 0
  BY <1>7, <1>9 DEF Comes
<1>11. o.sawLimp = TRUE
  <2>1. "v_limp" \in Host!Primitives
    BY PrimitiveNames
  <2>2. PrimitiveShown(c, "v_limp") \in Displayed(c) /\ IsLimpPrimitive(PrimitiveShown(c, "v_limp"))
    BY <2>1 DEF Displayed, IsLimpPrimitive, PrimitiveShown, Host!Member
  <2>3. \E k \in 1 .. Len(doc) : IsLimpPrimitive(doc[k])
    BY <1>5, <2>2
  <2>4. QED
    BY <1>9, <1>10, <2>3 DEF Comes, ParseShaped
<1>12. o.sawLimpVcell = TRUE
  <2> DEFINE a == Host!Member("global", "limp_vcell", Host!NumberJson(c.limp_vcell))
  <2>1. a \in Displayed(c) /\ IsLimp(a.in, a.key)
    BY DEF Displayed, IsLimp, Host!Member
  <2>2. \E k \in 1 .. Len(doc) : IsLimp(doc[k].in, doc[k].key)
    BY <1>5, <2>1
  <2>3. QED
    BY <1>9, <1>10, <2>2 DEF Comes, ParseShaped
<1>13. o.cfg = e
  <2>1. ASSUME NEW t, IsPlace(t) PROVE At(o.cfg, t) = At(e, t)
    <3>1. At(o.cfg, t) = IF \E k \in 1 .. Len(doc) : Host!Place(doc[k]) = t THEN X[t] ELSE At(c, t)
      BY <1>9, <1>10, <2>1 DEF Comes
    <3>2. (\E k \in 1 .. Len(doc) : Host!Place(doc[k]) = t) => X[t] = At(e, t)
      BY <1>8
    <3>3. ~(\E k \in 1 .. Len(doc) : Host!Place(doc[k]) = t) => At(e, t) = At(c, t)
      <4>1. ASSUME ~(\E k \in 1 .. Len(doc) : Host!Place(doc[k]) = t)
            PROVE  At(e, t) = At(c, t)
        <5>1. \A a \in Displayed(c) : Host!Place(a) # t
          BY <1>5, <4>1
        <5>2. QED
          BY <1>1, <2>1, <5>1, DifferenceIsShown DEF e
      <4>2. QED
        BY <4>1
    <3>4. QED
      BY <3>1, <3>2, <3>3
  <2>2. CfgShaped(o.cfg)
    BY <1>10 DEF ParseShaped
  <2>3. QED
    BY <1>2, <2>1, <2>2, SameEverywhere
<1>14. ParsedAs(r, o)
  BY <1>10, ResolveAfterIs
<1>15. Host!Parse(c, doc) = r
  BY <1>10 DEF Host!Parse, o
<1> HIDE DEF r
<1>16. \A i \in 1 .. Profiles : r.cfg.prof[i] = e.prof[i]
  <2>1. SUFFICES ASSUME NEW i \in 1 .. Profiles PROVE r.cfg.prof[i] = e.prof[i]
    OBVIOUS
  <2>2. Carried(r.cfg.prof[i], e.prof[i], e.prim)
    BY <1>13, <1>14 DEF ParsedAs
  <2>3. ProfileShaped(c.prof[i]) /\ SlotEchoes(c.prof[i], c.prim)
    BY <1>1 DEF CfgShaped, Readable
  <2>4. ProfileShaped(e.prof[i]) /\ SlotEchoes(e.prof[i], e.prim)
    BY <1>2, <2>3, ShownSlot DEF SlotEchoes
  <2>5. QED
    BY <2>2, <2>4, SettledStays
<1>17. r.cfg = e
  <2>1. /\ CfgShaped(r.cfg) /\ r.cfg.active = e.active /\ r.cfg.prim = e.prim /\ r.cfg.f = e.f
        /\ r.cfg.limp_vcell = e.limp_vcell
    BY <1>11, <1>12, <1>13, <1>14 DEF ParsedAs, ParseShaped
  <2>2. r.cfg.prof = e.prof
    BY <1>2, <1>16, <2>1 DEF CfgShaped
  <2>3. QED
    BY <1>2, <2>1, <2>2 DEF CfgShaped
<1>18. r.err = "OK" /\ r.unknown = 0 /\ r.sawLimp = TRUE /\ r.sawLimpVcell = TRUE /\ ParseShaped(r)
  BY <1>10, <1>11, <1>12, <1>14 DEF ParsedAs
<1>19. r = [Host!Begin(e) EXCEPT !.sawLimp = TRUE, !.sawLimpVcell = TRUE]
  <2> DEFINE b == [cfg |-> e, err |-> "OK", unknown |-> 0, sawLimp |-> TRUE, sawLimpVcell |-> TRUE]
  <2>1. [Host!Begin(e) EXCEPT !.sawLimp = TRUE, !.sawLimpVcell = TRUE] = b
    <3> DEFINE y == Host!Begin(e)
               z == [y EXCEPT !.sawLimp = TRUE, !.sawLimpVcell = TRUE]
    <3>1. /\ DOMAIN y = {"cfg", "err", "unknown", "sawLimp", "sawLimpVcell"}
          /\ y.cfg = e /\ y.err = "OK" /\ y.unknown = 0
      BY DEF Host!Begin
    <3> HIDE DEF y
    <3>2. /\ DOMAIN z = {"cfg", "err", "unknown", "sawLimp", "sawLimpVcell"}
          /\ z = [x \in DOMAIN z |-> z[x]]
          /\ z.cfg = e /\ z.err = "OK" /\ z.unknown = 0 /\ z.sawLimp = TRUE /\ z.sawLimpVcell = TRUE
      BY <3>1
    <3> HIDE DEF z
    <3>3. z = b
      BY <3>2
    <3>4. QED
      BY <3>3 DEF y, z
  <2>2. /\ DOMAIN r = {"cfg", "err", "unknown", "sawLimp", "sawLimpVcell"}
        /\ r = [x \in DOMAIN r |-> r[x]]
    BY <1>18 DEF ParseShaped
  <2>3. r.cfg = b.cfg /\ r.err = b.err /\ r.unknown = b.unknown /\ r.sawLimp = b.sawLimp
        /\ r.sawLimpVcell = b.sawLimpVcell
    BY <1>17, <1>18
  <2>4. r = b
    BY <2>2, <2>3
  <2>5. QED
    BY <2>1, <2>4
<1>20. QED
  BY <1>15, <1>19 DEF e, doc

-----------------------------------------------------------------------------
(* Every configuration that runs or is stored can be read back *)

\* A field within its rule, or at its default, can be read back.
LEMMA FieldEcho ==
  ASSUME Host!DocsAssumption, NEW f, NEW k \in Host!Fields,
         k = "batt_temp_src" => f[k] \in Host!Sources,
         k \notin {"batt_temp_src", "require_batt_temp"} =>
            f[k] \in {"a", "b", "low"} \/ (f[k] = Off /\ k \in Host!MayBeOff)
  PROVE  FieldEchoes(f, k)
<1> DEFINE v == f[k]
           j == Host!FieldJson(k, v)
<1>1. CASE k = "batt_temp_src"
  <2>1. v \in Host!Sources
    BY <1>1
  <2> HIDE DEF v
  <2>2. j = Host!Str(v)
    BY <1>1, <2>1 DEF Host!FieldJson
  <2>3. j.t = "str" /\ j.v = v
    BY <2>2 DEF Host!Str
  <2> HIDE DEF j
  <2>4. Host!Fits(k, j)
    BY <1>1, <2>3 DEF Host!Fits, Host!Uints, Host!Int8s
  <2>5. Host!Stored(k, j) = v
    BY <2>1, <2>3 DEF Host!Stored
  <2>6. QED
    BY <2>4, <2>5 DEF FieldEchoes, j, v
<1>2. CASE k = "require_batt_temp"
  <2> HIDE DEF v
  <2>1. j = Host!Bool(v)
    BY <1>2 DEF Host!FieldJson
  <2>2. j.t = "bool" /\ j.v = v
    BY <2>1 DEF Host!Bool
  <2> HIDE DEF j
  <2>3. Host!Fits(k, j)
    BY <1>2, <2>2 DEF Host!Fits, Host!Uints, Host!Int8s
  <2>4. Host!Stored(k, j) = v
    BY <1>2, <2>2 DEF Host!Stored
  <2>5. QED
    BY <2>3, <2>4 DEF FieldEchoes, j, v
<1>3. CASE k \notin {"batt_temp_src", "require_batt_temp"}
  <2>1. /\ v \in {"a", "b", "low"} \/ (v = Off /\ k \in Host!MayBeOff)
        /\ Off # Wide /\ \A x \in {"a", "b", "low"} : x # Off /\ x # Wide
    BY <1>3 DEF Host!DocsAssumption
  <2> HIDE DEF v
  <2>2. j = Host!NumberJson(v)
    BY <1>3 DEF Host!FieldJson
  <2>3. /\ j.v = v /\ v # Wide /\ Host!Numeric(j)
        /\ v # Off => j.t = "num"
    BY <2>1, <2>2, NumberReadBack DEF Host!NumberJson, Host!Num
  <2> HIDE DEF j
  <2>4. Host!Stored(k, j) = v
    BY <1>3, <2>3 DEF Host!Stored
  <2>5. k \in Host!Uints => v # Off
    BY <2>1 DEF Host!Uints, Host!MayBeOff, Host!Int8s
  <2>6. Host!Fits(k, j)
    <3>1. k \in Host!Uints => Host!Fits(k, j)
      BY <1>3, <2>3, <2>5 DEF Host!Fits, Host!Uints, Host!Int8s
    <3>2. k \in Host!Int8s => Host!Fits(k, j)
      BY <1>3, <2>3 DEF Host!Fits, Host!Uints, Host!Int8s
    <3>3. k \notin Host!Uints /\ k \notin Host!Int8s => Host!Fits(k, j)
      BY <1>3, <2>3 DEF Host!Fits, Host!Uints, Host!Int8s
    <3>4. QED
      BY <3>1, <3>2, <3>3
  <2>7. QED
    BY <2>4, <2>6 DEF FieldEchoes, j, v
<1>4. QED
  BY <1>1, <1>2, <1>3

\* Taking the voltage of a primitive twice is taking it once.
LEMMA ResolvedTwice ==
  ASSUME NEW v, NEW ref, NEW prim
  PROVE  Host!Resolved(Host!Resolved(v, ref, prim), ref, prim) = Host!Resolved(v, ref, prim)
BY DEF Host!Resolved

LEMMA CarriedEchoes ==
  ASSUME NEW q, NEW p, NEW prim, Carried(q, p, prim), p.id # Wide
  PROVE  SlotEchoes(q, prim)
BY ResolvedTwice DEF Carried, SlotEchoes

\* The compiled defaults can be read back.
LEMMA DefaultsAreReadable ==
  ASSUME Host!HostAssumption, Host!DocsAssumption
  PROVE  Readable(Host!Defaults)
<1> DEFINE prim == [v_bulk |-> 360, v_bulk_cons |-> 350, v_float |-> 340, v_float_cons |-> 335,
                    v_limp |-> 330]
           slots == [i \in 1 .. Profiles |-> Host!DefaultProfile(i)]
           f == Host!Defaults.f
           b == [prim |-> prim, limp_vcell |-> 330, f |-> f, prof |-> slots, active |-> 1]
           prof == Host!Propagate(slots, prim)
<1>1. Profiles \in Nat /\ Profiles > 1 /\ Off \notin Int /\ Wide \notin Int
  BY DEF Host!HostAssumption, Host!DocsAssumption
<1>2. prim \in [Host!Primitives -> Volts] /\ prim.v_limp = 330
  BY PrimitiveNames DEF Volts
<1>3. ASSUME NEW i \in 1 .. Profiles PROVE ProfileShaped(slots[i]) /\ slots[i].id = i
  <2>1. ProfileTyped(slots[i])
    BY PrimitiveNames DEF Host!DefaultProfile, Refs, Host!NoRef, ProfileTyped, Volts
  <2>2. QED
    BY <2>1 DEF ProfileShaped, Host!DefaultProfile
<1>4. slots = [i \in 1 .. Profiles |-> slots[i]]
  OBVIOUS
<1>5. /\ f = [k \in Host!Fields |-> f[k]]
      /\ \A k \in Host!Fields :
           f[k] = CASE k \in {"max_charge_power_w", "p_tail_w"} -> "low"
                    [] k \in Host!MayBeOff -> Off
                    [] k = "batt_temp_src" -> "none"
                    [] k = "require_batt_temp" -> FALSE
                    [] OTHER -> "a"
  BY DEF Host!Defaults
<1>6. Host!Defaults = [prim |-> prim, limp_vcell |-> 330, f |-> f, prof |-> prof, active |-> 1]
  BY <1>2 DEF Host!Defaults
<1> HIDE DEF f, prim, slots
<1>7. CfgShaped(b)
  <2>1. ProfilesTyped(slots)
    BY <1>3, <1>4 DEF ProfilesTyped, ProfileShaped
  <2>2. QED
    <3>1. /\ b.prim = prim /\ b.limp_vcell = 330 /\ b.f = f /\ b.prof = slots
          /\ DOMAIN b = {"prim", "limp_vcell", "f", "prof", "active"}
          /\ b = [x \in DOMAIN b |-> b[x]]
      OBVIOUS
    <3> HIDE DEF b
    <3>2. CfgTyped(b)
      BY <1>2, <1>3, <1>4, <1>5, <2>1, <3>1 DEF CfgTyped, Volts
    <3>3. QED
      BY <1>2, <1>3, <1>4, <1>5, <2>1, <3>1, <3>2 DEF CfgShaped
<1>8. /\ prof = [i \in 1 .. Profiles |-> prof[i]]
      /\ \A i \in 1 .. Profiles : Carried(prof[i], slots[i], prim)
  <2>1. b.prof = slots /\ b.prim = prim
    OBVIOUS
  <2> HIDE DEF b
  <2>2. QED
    BY <1>7, <2>1, PropagateCarries
<1> HIDE DEF prof
<1> DEFINE c == [prim |-> prim, limp_vcell |-> 330, f |-> f, prof |-> prof, active |-> 1]
<1>9. CfgShaped(c)
  <2>1. \A i \in 1 .. Profiles : ProfileShaped(prof[i])
    BY <1>8 DEF Carried
  <2>2. ProfilesTyped(prof)
    BY <1>8, <2>1 DEF ProfilesTyped, ProfileShaped
  <2>3. QED
    <3>1. /\ c.prim = prim /\ c.limp_vcell = 330 /\ c.f = f /\ c.prof = prof
          /\ DOMAIN c = {"prim", "limp_vcell", "f", "prof", "active"}
          /\ c = [x \in DOMAIN c |-> c[x]]
      OBVIOUS
    <3> HIDE DEF c
    <3>2. CfgTyped(c)
      BY <1>2, <1>5, <1>8, <2>1, <2>2, <3>1 DEF CfgTyped, Volts
    <3>3. QED
      BY <1>2, <1>5, <1>8, <2>1, <2>2, <3>1, <3>2 DEF CfgShaped
<1>10. \A i \in 1 .. Profiles : SlotEchoes(prof[i], prim)
  <2>1. \A i \in 1 .. Profiles : slots[i].id # Wide
    BY <1>1, <1>3
  <2>2. QED
    BY <1>8, <2>1, CarriedEchoes
<1>11. ASSUME NEW k \in Host!Fields PROVE FieldEchoes(f, k)
  <2>1. k = "batt_temp_src" => f[k] = "none"
    BY <1>5 DEF Host!MayBeOff, Host!Int8s
  <2>2. k \notin {"batt_temp_src", "require_batt_temp"} =>
            f[k] \in {"a", "b", "low"} \/ (f[k] = Off /\ k \in Host!MayBeOff)
    BY <1>5 DEF Host!MayBeOff, Host!Int8s
  <2>3. QED
    BY <2>1, <2>2, FieldEcho DEF Host!Sources
<1>12. Readable(c)
  <2>1. c.active = 1 /\ c.f = f /\ c.prof = prof /\ c.prim = prim
    OBVIOUS
  <2>2. c.active # Wide
    BY <1>1, <2>1
  <2> HIDE DEF c
  <2>3. QED
    BY <1>9, <1>10, <1>11, <2>1, <2>2 DEF Readable
<1>13. QED
  BY <1>6, <1>12

\* A document that was accepted leaves a configuration that can be read back.
LEMMA AcceptedIsReadable ==
  ASSUME Host!HostAssumption, Host!DocsAssumption, NEW c, CfgShaped(c), NEW i \in DOMAIN Docs,
         Host!Parse(c, Docs[i]).err = "OK", Host!Valid(Host!Parse(c, Docs[i]).cfg)
  PROVE  Readable(Host!Parse(c, Docs[i]).cfg)
<1> DEFINE doc == Docs[i]
           X == Puts(c, doc)
           o == Host!Overlay(c, doc)
           d == Host!Parse(c, doc)
           e == d.cfg
<1>1. /\ Len(doc) \in Nat
      /\ \A x \in 1 .. Len(doc) : MemberTyped(doc[x]) /\ IsPlace(Host!Place(doc[x]))
                            /\ Into(doc[x], At(c, Host!Place(doc[x]))) = X[Host!Place(doc[x])]
  BY DocsAre
<1>2. Profiles \in Nat /\ Wide \notin Int
  BY DEF Host!HostAssumption, Host!DocsAssumption
<1>3. o.err = "OK" /\ d = Host!ResolveAfter(o) /\ Host!Valid(e)
  BY ParseIs
<1> HIDE DEF doc, X
<1>4. Comes(o, c, doc, Len(doc), X)
  BY <1>1, DocumentComes
<1> HIDE DEF o, d
<1>5. ParsedAs(d, o)
  BY <1>3, <1>4, ResolveAfterIs DEF Comes
<1>6. CfgShaped(e) /\ e.prim = o.cfg.prim
      /\ \A x \in 1 .. Profiles : Carried(e.prof[x], o.cfg.prof[x], e.prim)
  BY <1>5 DEF ParsedAs, ParseShaped
<1> HIDE DEF e
<1>7. /\ \A k \in Host!Fields : Host!FieldOK(e.f, k)
      /\ \A x \in 1 .. Profiles : Host!ProfileRule(e.prof[x], x, e.prim) = "CFG_OK"
      /\ Host!ActiveOK(e)
  BY <1>2, <1>3, ValidMeans
<1>8. e.active # Wide
  BY <1>2, <1>7 DEF Host!ActiveOK
<1>9. ASSUME NEW x \in 1 .. Profiles PROVE SlotEchoes(e.prof[x], e.prim)
  <2>1. e.prof[x].id = x
    BY <1>7 DEF Host!ProfileRule
  <2>2. o.cfg.prof[x].id # Wide
    BY <1>2, <1>6, <2>1 DEF Carried
  <2>3. QED
    BY <1>6, <2>2, CarriedEchoes
<1>10. ASSUME NEW k \in Host!Fields PROVE FieldEchoes(e.f, k)
  <2> DEFINE f == e.f
  <2>1. Host!FieldOK(f, k)
    BY <1>7
  <2>2. f["bank_capacity_ah"] \in {"a", "b"}
    <3>1. Host!FieldOK(f, "bank_capacity_ah")
      BY <1>7, FieldNames
    <3>2. QED
      BY <3>1 DEF Host!FieldOK, Host!MayBeOff, Host!Int8s
  <2> HIDE DEF f
  <2>3. k = "batt_temp_src" => f[k] \in Host!Sources
    BY <2>1 DEF Host!FieldOK
  <2>4. k \notin {"batt_temp_src", "require_batt_temp"} =>
            f[k] \in {"a", "b", "low"} \/ (f[k] = Off /\ k \in Host!MayBeOff)
    BY <2>1, <2>2 DEF Host!FieldOK, Host!MayBeOff, Host!Int8s
  <2>5. FieldEchoes(f, k)
    BY <2>3, <2>4, FieldEcho
  <2>6. QED
    BY <2>5 DEF f
<1>11. Readable(e)
  BY <1>6, <1>8, <1>9, <1>10 DEF Readable
<1>12. QED
  BY <1>11 DEF e, d, doc

\* The inductive invariant of the documents, beside HostInv.
DocInv == Readable(s_cfg) /\ (durable # None => Readable(durable))

\* What runs and what is stored come from a document that was accepted, or from the defaults.
Accepts(d) == d.err = "OK" /\ Host!Valid(d.cfg)
ConfigMoves ==
    \/ UNCHANGED <<s_cfg, durable>>
    \/ \E i \in DOMAIN Docs : LET d == Host!Parse(s_cfg, Docs[i]) IN
          Accepts(d) /\ s_cfg' \in {s_cfg, d.cfg} /\ durable' \in {durable, d.cfg}
    \/ /\ durable' = durable
       /\ (durable # None /\ s_cfg' = durable) \/ s_cfg' = Host!Defaults

LEMMA SaidMovesNothing ==
  ASSUME NEW r, Host!Say(r)
  PROVE  ConfigMoves
BY DEF Host!Say, ConfigMoves

\* Every step of the host moves the configuration so.
LEMMA ConfigMovesSo ==
  ASSUME HostInv, [Host!Next]_(Host!vars)
  PROVE  ConfigMoves
<1>1. CASE UNCHANGED Host!vars
  BY <1>1 DEF Host!vars, ConfigMoves
<1>2. CASE (\E m \in Host!Messages : Host!Ask(m)) \/ Host!Piece \/ Host!Abandon
  BY <1>2 DEF Host!Ask, Host!Piece, Host!Abandon, ConfigMoves
<1>3. CASE Host!Boot
  BY <1>3 DEF Host!Boot, ConfigMoves
<1>4. CASE Host!Newline
  <2>1. \/ Host!Say(Host!Err("JSON", 0))
        \/ \E m \in Host!Messages : Host!Dispatch(m)
    <3>1. Host!Request("blank") \in Host!Messages /\ Host!Request("junk") \in Host!Messages
      BY DEF Host!Messages, Host!Plain
    <3>2. asking \in Host!Messages
      BY <1>4 DEF Host!Newline, HostInv
    <3>3. QED
      BY <1>4, <3>1, <3>2 DEF Host!Newline, Host!OverLong
  <2>2. ASSUME NEW m \in Host!Messages, Host!Dispatch(m) PROVE ConfigMoves
    <3>1. \/ m.t = "blank" /\ UNCHANGED <<s_cfg, durable, reply>>
          \/ \E r : Host!Say(r)
          \/ m.t = "cfg-set" /\ m.doc # 0 /\ Host!CfgSet(Docs[m.doc])
      BY <2>2 DEF Host!Dispatch
    <3>2. m.t = "cfg-set" /\ m.doc # 0 => m.doc \in DOMAIN Docs
      <4>1. \/ m.t \in Host!Plain
            \/ m.t = "cfg-set" /\ m.doc \in {0} \cup DOMAIN Docs
        BY DEF Host!Messages, Host!Request, Host!SetRequest
      <4>2. QED
        BY <4>1 DEF Host!Plain
    <3>3. ASSUME NEW i \in DOMAIN Docs, Host!CfgSet(Docs[i]) PROVE ConfigMoves
      <4> DEFINE d == Host!Parse(s_cfg, Docs[i])
      <4>1. \/ \E r : Host!Say(r)
            \/ Accepts(d) /\ (Host!SaveOk(d.cfg) \/ Host!SaveFailed(d.cfg))
        BY <3>3 DEF Host!CfgSet, Accepts, Host!Valid
      <4> HIDE DEF d
      <4>2. CASE Accepts(d) /\ (Host!SaveOk(d.cfg) \/ Host!SaveFailed(d.cfg))
        <5>1. Accepts(d) /\ s_cfg' \in {s_cfg, d.cfg} /\ durable' \in {durable, d.cfg}
          BY <4>2 DEF Host!SaveOk, Host!SaveFailed
        <5>2. QED
          BY <5>1 DEF ConfigMoves, d
      <4>3. QED
        BY <4>1, <4>2, SaidMovesNothing
    <3>4. QED
      BY <3>1, <3>2, <3>3, SaidMovesNothing DEF ConfigMoves
  <2>3. QED
    BY <2>1, <2>2, SaidMovesNothing
<1>5. QED
  BY <1>1, <1>2, <1>3, <1>4 DEF Host!Next

\* What runs and what is stored can be read back, step after step.
LEMMA DocStep ==
  ASSUME Host!HostAssumption, Host!DocsAssumption, HostInv, DocInv, [Host!Next]_(Host!vars)
  PROVE  DocInv'
<1>1. CASE UNCHANGED <<s_cfg, durable>>
  BY <1>1 DEF DocInv
<1>2. ASSUME NEW i \in DOMAIN Docs, NEW d, d = Host!Parse(s_cfg, Docs[i]), Accepts(d),
             s_cfg' \in {s_cfg, d.cfg}, durable' \in {durable, d.cfg}
      PROVE  DocInv'
  <2>1. CfgShaped(s_cfg)
    BY DEF DocInv, Readable
  <2>2. Readable(d.cfg)
    BY <1>2, <2>1, AcceptedIsReadable DEF Accepts
  <2>3. QED
    BY <1>2, <2>2 DEF DocInv
<1>3. CASE durable' = durable /\ ((durable # None /\ s_cfg' = durable) \/ s_cfg' = Host!Defaults)
  <2>1. Readable(Host!Defaults)
    BY DefaultsAreReadable
  <2>2. QED
    BY <1>3, <2>1 DEF DocInv
<1>4. QED
  BY <1>1, <1>2, <1>3, ConfigMovesSo DEF ConfigMoves

LEMMA DocInvariance ==
  ASSUME Host!HostAssumption, Host!DocsAssumption
  PROVE  HostSpec => []DocInv
<1>1. Host!Init => DocInv
  BY DefaultsAreReadable DEF Host!Init, DocInv
<1>2. HostInv /\ DocInv /\ [Host!Next]_(Host!vars) => DocInv'
  BY DocStep
<1>3. QED
  BY <1>1, <1>2, HostInvariance, PTL DEF HostSpec

\* A document means what it says in whatever order, and stands as it was sent; what is shown
\* reads back as what it shows; one primitive can be moved alone.
LEMMA DocumentsMeanWhatTheySay ==
  ASSUME Host!HostAssumption, Host!DocsAssumption, DocInv
  PROVE  /\ Host!EchoIsIdentity /\ Host!OrderFree
         /\ Host!OneKeyEdits /\ Host!NoSilentRepair
<1>1. /\ Profiles \in Nat \ {0} /\ Off \notin Int /\ Off # Wide /\ Wide \notin Int
      /\ Readable(s_cfg) /\ CfgShaped(s_cfg)
  BY DEF Host!HostAssumption, Host!DocsAssumption, DocInv, Readable
<1>2. Host!EchoIsIdentity
  BY <1>1, EchoReads DEF Host!EchoIsIdentity
<1>3. Host!OrderFree
  BY <1>1, OrderMeansNothing DEF Host!OrderFree
<1>4. Host!OneKeyEdits
  <2>1. ASSUME Host!Valid(s_cfg), NEW k \in Host!Primitives, NEW step \in {-2, 2},
               Host!PrimitivesOK([s_cfg.prim EXCEPT ![k] = s_cfg.prim[k] + step])
        PROVE  Host!Valid(Host!Parse(s_cfg,
                  <<Host!Member("primitives", k, Host!Num(s_cfg.prim[k] + step))>>).cfg)
    <3>1. Host!PrimitivesOK(s_cfg.prim) /\ s_cfg.prim \in [Host!Primitives -> Volts]
      BY <1>1, <2>1, ValidMeans DEF CfgShaped, CfgTyped
    <3>2. s_cfg.prim[k] + step \in Int
      <4>1. s_cfg.prim[k] \in Int
        BY <1>1, <3>1, RailsAreNumbers
      <4>2. QED
        BY <4>1
    <3> DEFINE v == s_cfg.prim[k] + step
    <3> HIDE DEF v
    <3>3. v \in Int /\ Host!PrimitivesOK([s_cfg.prim EXCEPT ![k] = v])
      BY <2>1, <3>2 DEF v
    <3>4. Host!Valid(Host!Parse(s_cfg, <<Host!Member("primitives", k, Host!Num(v))>>).cfg)
      BY <1>1, <2>1, <3>3, OneKeyMoves
    <3>5. QED
      BY <3>4 DEF v
  <2>2. QED
    BY <2>1 DEF Host!OneKeyEdits
<1>5. Host!NoSilentRepair
  <2>1. ASSUME NEW i \in DOMAIN Docs, Host!Parse(s_cfg, Docs[i]).err = "OK",
               Host!Parse(s_cfg, Docs[i]).unknown = 0, Host!Valid(Host!Parse(s_cfg, Docs[i]).cfg),
               NEW k \in 1 .. Len(Docs[i]), Host!HasSpelling(Docs[i][k]), Docs[i][k].json.v # Wide
        PROVE  LET e == Host!Emit(Host!Parse(s_cfg, Docs[i]).cfg) IN
               \E l \in 1 .. Len(e) : Same(e[l], Docs[i][k])
    <3>1. PICK a \in Displayed(Host!Parse(s_cfg, Docs[i]).cfg) : Same(a, Docs[i][k])
      BY <1>1, <2>1, AcceptedIsShown
    <3>2. Holds(Host!Emit(Host!Parse(s_cfg, Docs[i]).cfg), a)
      BY <1>1, EmitShows
    <3>3. QED
      BY <3>1, <3>2 DEF Holds
  <2>2. QED
    BY <2>1 DEF Host!NoSilentRepair, Same
<1>6. QED
  BY <1>2, <1>3, <1>4, <1>5

-----------------------------------------------------------------------------
(* THE THEOREM *)

\* What cfg-get shows can be sent back and changes nothing that it shows; the order of the
\* members means nothing; one primitive can be moved alone; a document that is accepted
\* stands as it was sent.  Of every list of documents that are JSON and hold no key twice.
THEOREM DocumentsAlwaysSafe == PartsSpec => []DocumentsAreSafe
<1>1. Host!HostAssumption /\ Host!DocsAssumption
  BY PartsConstants
<1>2. HostSpec => []DocInv
  BY <1>1, DocInvariance
<1>3. DocInv => DocumentsAreSafe
  BY <1>1, DocumentsMeanWhatTheySay DEF DocumentsAreSafe
<1>4. QED
  BY <1>2, <1>3, PartsAreTheirSpecs, PTL
=============================================================================
