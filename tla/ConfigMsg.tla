----------------------------- MODULE ConfigMsg -----------------------------
(***************************************************************************)
(* The host interface of the configuration: the line protocol              *)
(* (config_msg.c) over a byte stream, its hooks into the running           *)
(* configuration and the store (config_protocol.c), and a host that asks,  *)
(* goes away in the middle of a line, and comes back.                      *)
(*                                                                         *)
(* A line is cut in pieces; LineMax of them fit in the line buffer.  What  *)
(* is assembled is the pieces of one message in order or it is junk: a     *)
(* part of one object followed by another object is never an object (the   *)
(* module JsonText checks that).                                           *)
(***************************************************************************)
EXTENDS ConfigDoc

CONSTANTS
  Docs,       \* the "cfg" objects a host sends, a sequence of documents
  LineMax,    \* CFG_MSG_LINE_MAX, in pieces
  None        \* no message, no reply, no record

\* A voltage in a document is a number or null, as every number is for rd_f32; what stands
\* in the other members is as the rules find it.
InVolts(m) == m.in = "primitives" \/ m.key \in {"limp_vcell", "cv_target", "voltage"}
HostAssumption ==
  /\ Profiles \in Nat /\ Profiles > 1 /\ LineMax \in Nat \ {0} /\ Off \notin Int
  /\ \A i \in DOMAIN Docs :
        /\ Len(Docs[i]) \in Nat
        /\ \A k \in 1 .. Len(Docs[i]) : LET m == Docs[i][k] IN
              /\ InVolts(m) /\ m.json.t = "num" => m.json.v \in Int
              /\ m.json.t = "null" => m.json.v = Off

\* The documents themselves: JSON whose objects hold no key twice (the last one would count).
\* The wordings of "fw" and of a name, which the parser skips, are left out.
IsJson(j) ==
  /\ j = [t |-> j.t, v |-> j.v] /\ j.t \in {"num", "str", "bool", "null"}
  /\ (j.t = "null" => j.v = Off) /\ (j.t = "num" => j.v # Off)
Place(m) == <<m.in, m.slot, m.key>>
DocsAssumption ==
  /\ Off # Wide /\ Wide \notin Int /\ \A v \in {"a", "b", "low"} : v # Off /\ v # Wide
  /\ \A i \in DOMAIN Docs :
        /\ \A k \in 1 .. Len(Docs[i]) : LET m == Docs[i][k] IN
              /\ IsJson(m.json) /\ (m.in # "profiles" => m.slot = 0)
              /\ m.key \in {"fw", "name"} => m.json = Str(m.key)
        /\ \A k, l \in 1 .. Len(Docs[i]) : Place(Docs[i][k]) = Place(Docs[i][l]) => k = l

VARIABLES
  s_cfg,      \* the running configuration
  durable,    \* what the store would load at a boot
  len, junk,  \* cfg_msg_t: pieces in the line buffer; they are not the start of what is sent
  overflow,   \* the line is dropped up to its newline
  asking,     \* the message the host is sending
  sent,       \* how much of it went out
  fresh,      \* no part of an abandoned line stands before what the host sends
  reply       \* what became of the last line: None, an answer, or the host was gone

vars == <<s_cfg, durable, len, junk, overflow, asking, sent, fresh, reply>>
assembler == <<len, junk, overflow>>

-----------------------------------------------------------------------------
(* Messages: what find_type and the envelope of do_cfg_set tell apart      *)

Plain == {"hello", "cfg-get", "telem-get", "unknown type", "no type", "junk", "blank", "too long",
          "cfg-set of a non-object"}
Request(t) == [t |-> t, doc |-> 0]
SetRequest(i) == [t |-> "cfg-set", doc |-> i]      \* without a "cfg" member when i is 0
Messages == {Request(t) : t \in Plain} \cup {SetRequest(i) : i \in {0} \cup DOMAIN Docs}
PiecesOf(m) == CASE m.t = "blank" -> 0 [] m.t = "too long" -> LineMax + 1 [] OTHER -> LineMax

Err(code, profile) == [t |-> "err", code |-> code, profile |-> profile]
Reply(t) == [t |-> t, code |-> "", profile |-> 0]
Gone == Reply("gone")

-----------------------------------------------------------------------------
(* cfg_msg_line                                                            *)

Say(r) == reply' = r /\ UNCHANGED <<s_cfg, durable>>

\* SLIP: the save is acknowledged before the part has it.
SaveOkEarly(c) == durable' \in {durable, c} /\ s_cfg' = c /\ reply' = Reply("ok")

\* config_host_save: the store first, then the running configuration.  A save that is
\* reported as failed may have reached the part (the read-back failed).
SaveOk(c) == durable' = c /\ s_cfg' = c /\ reply' = Reply("ok")
SaveFailed(c) == durable' \in {durable, c} /\ s_cfg' = s_cfg /\ reply' = Err("CFG_ERR_STORE", 0)

\* do_cfg_set: the document goes on a copy, the copy is judged, and only then saved.
CfgSet(doc) ==
  LET d == Parse(s_cfg, doc)
      v == Validate(d.cfg)
  IN  \/ d.err # "OK" /\ Say(Err(d.err, 0))
      \/ d.err = "OK" /\ v.rule # "CFG_OK" /\ Say(Err(v.rule, v.profile))
      \/ d.err = "OK" /\ v.rule = "CFG_OK" /\ (SaveOk(d.cfg) \/ SaveFailed(d.cfg))

\* Junk, a missing type and a type nobody serves are answered; a blank line is not.
Dispatch(m) ==
  CASE m.t = "blank" -> UNCHANGED <<s_cfg, durable, reply>>
    [] m.t = "junk" -> Say(Err("JSON", 0))
    [] m.t \in {"no type", "unknown type", "cfg-set of a non-object"} -> Say(Err("MSG", 0))
    [] m.t = "cfg-set" -> IF m.doc = 0 THEN Say(Err("MSG", 0)) ELSE CfgSet(Docs[m.doc])
    [] OTHER -> Say(Reply(m.t))

-----------------------------------------------------------------------------
(* cfg_msg_rx, one piece or one newline at a time                          *)

\* The host starts a line.
Ask(m) ==
  /\ asking = None /\ asking' = m /\ sent' = 0 /\ reply' = None
  /\ UNCHANGED <<s_cfg, durable, assembler, fresh>>

\* The buffer is full: drop what it holds and everything up to the newline.
Full == len' = 0 /\ junk' = FALSE /\ overflow' = TRUE

Hold == len' = len + 1 /\ junk' = (junk \/ len # sent) /\ UNCHANGED overflow

Piece ==
  /\ asking # None /\ sent < PiecesOf(asking) /\ sent' = sent + 1
  /\ \/ overflow /\ UNCHANGED assembler
     \/ ~overflow /\ len >= LineMax /\ Full
     \/ ~overflow /\ len < LineMax /\ Hold
  /\ UNCHANGED <<s_cfg, durable, asking, fresh, reply>>

\* A line that was dropped cannot be answered on its merits, but it is answered.
OverLong == Say(Err("JSON", 0))

\* The line is over, whatever became of it.
Cleared == len' = 0 /\ junk' = FALSE /\ overflow' = FALSE

\* A whole line: len pieces of one message, all of them.
Newline ==
  /\ asking # None /\ sent = PiecesOf(asking)
  /\ \/ overflow /\ OverLong
     \/ ~overflow /\ len = 0 /\ Dispatch(Request("blank"))
     \/ ~overflow /\ len > 0 /\ Dispatch(IF junk THEN Request("junk") ELSE asking)
  /\ Cleared
  /\ asking' = None /\ sent' = 0 /\ fresh' = TRUE

\* The host goes away in the middle of a line; the part that was received stays.
Abandon ==
  /\ asking # None /\ asking' = None /\ sent' = 0 /\ reply' = Gone
  /\ fresh' = (fresh /\ sent = 0)
  /\ junk' = (len > 0) /\ UNCHANGED <<s_cfg, durable, len, overflow>>

\* config_init: the defaults, over them a stored record that is readable and valid.
Boot ==
  /\ \/ durable # None /\ Valid(durable) /\ s_cfg' = durable
     \/ s_cfg' = Defaults                 \* nothing stored, or the part does not answer
  /\ Cleared
  /\ asking' = None /\ sent' = 0 /\ fresh' = TRUE /\ reply' = Gone
  /\ UNCHANGED durable

Init ==
  /\ s_cfg = Defaults /\ durable = None
  /\ len = 0 /\ junk = FALSE /\ overflow = FALSE
  /\ asking = None /\ sent = 0 /\ fresh = TRUE /\ reply = Gone

Next == (\E m \in Messages : Ask(m)) \/ Piece \/ Newline \/ Abandon \/ Boot

\* config_poll runs in every turn of the main loop: a line that is being sent goes on.
GoesOn ==
  asking # None /\ \/ sent' = sent + 1 /\ UNCHANGED asking
                   \/ sent' = 0 /\ asking' = None

Spec == Init /\ [][Next]_vars /\ WF_<<asking, sent>>(GoesOn)

-----------------------------------------------------------------------------
(* Properties *)

Config(c) == c.active \in 1..Profiles /\ DOMAIN c.prof = 1..Profiles /\ DOMAIN c.f = Fields

TypeOK ==
  /\ Config(s_cfg) /\ (durable # None => Config(durable))
  /\ len \in 0..LineMax /\ {junk, overflow, fresh} \subseteq BOOLEAN /\ (len = 0 => ~junk)
  /\ asking \in Messages \cup {None}
  /\ sent \in 0..(LineMax + 1)

\* Whatever a host sends and whatever the store does, the profile the regulator runs is not
\* a reserved slot, its voltages lie in the span of the chemistry and it limps at v_limp.
RunsWithinRails ==
  LET p == s_cfg.prof[s_cfg.active] IN
  /\ ~p.reserved /\ p.cv \in 320..365 /\ (p.mode = "hold" => p.rest \in 320..365)
  /\ s_cfg.limp_vcell = s_cfg.prim.v_limp /\ s_cfg.limp_vcell \in 320..335

\* Nothing is under way; every configuration that ever runs does so in such a state.
Quiet == asking = None /\ len = 0 /\ reply = Gone /\ durable \in {None, s_cfg}

\* What cfg-get shows of a configuration: no rule holds for a reserved slot, so that one may
\* keep a rest mode out of the enum or an infinite number, which have no spelling.
AsShown(c) ==
  LET shown(p) == [p EXCEPT !.mode = ModeShown(@), !.revert = IF @ = Wide THEN Off ELSE @]
  IN  [c EXCEPT !.prof = [i \in DOMAIN c.prof |-> shown(c.prof[i])]]

\* The document cfg-get sends, read back over the configuration it came from, changes
\* nothing that it shows and holds nothing unknown (config_msg.h: "the round trip is the
\* same bytes").
EchoIsIdentity ==
  Quiet => Parse(s_cfg, Emit(s_cfg))
             = [Begin(AsShown(s_cfg)) EXCEPT !.sawLimp = TRUE, !.sawLimpVcell = TRUE]

\* A document means the same with its members in the other order (config_doc.h: a document
\* may list "profiles before primitives without changing meaning").
OrderFree ==
  Quiet => \A i \in DOMAIN Docs :
    LET a == Parse(s_cfg, Docs[i])
        b == Parse(s_cfg, Reverse(Docs[i]))
    IN  a.err = "OK" /\ b.err = "OK" => a.cfg = b.cfg

\* In a configuration that is valid, moving one primitive inside the rails is a document of
\* one member: the profiles that name it and the limp voltage follow by themselves.
OneKeyEdits ==
  Quiet /\ Valid(s_cfg) => \A k \in Primitives, step \in {-2, 2} :
    LET v == s_cfg.prim[k] + step IN
    PrimitivesOK([s_cfg.prim EXCEPT ![k] = v]) =>
      Valid(Parse(s_cfg, <<Member("primitives", k, Num(v))>>).cfg)

\* Rejected, never repaired: a document that is accepted stands in the configuration as it
\* was sent, so that the next cfg-get shows every member of it; a reserved slot may be sent
\* what has no spelling.
HasSpelling(m) == m.key = "mode" => m.json.v \in {"hold", "zero"}
NoSilentRepair ==
  Quiet => \A i \in DOMAIN Docs :
    LET d == Parse(s_cfg, Docs[i])
        e == Emit(d.cfg)
    IN d.err = "OK" /\ d.unknown = 0 /\ Valid(d.cfg) =>
         \A k \in 1 .. Len(Docs[i]) : LET m == Docs[i][k] IN
           HasSpelling(m) /\ m.json.v # Wide =>
             \E l \in 1 .. Len(e) :
               e[l].in = m.in /\ e[l].slot = m.slot /\ e[l].key = m.key /\ e[l].json = m.json

\* A host that finished its last line, or was there from the start, finds an empty line
\* buffer: nothing of an earlier line, dropped or too long, stands before the next request.
NextLineIsClean == fresh /\ sent = 0 => len = 0 /\ ~overflow

\* A request that was refused, for whatever reason, leaves the running configuration alone.
RefusedChangesNothing ==
  [][reply' # None /\ reply'.t = "err" => s_cfg' = s_cfg]_vars

\* A save that was acknowledged is what runs and what the store holds.
OkIsDurable == [][reply' # None /\ reply'.t = "ok" => durable' = s_cfg']_<<reply, s_cfg, durable>>

\* A host that sends a line and stays gets its answer, too long or unreadable as it may be.
AnswerComes ==
  (asking # None /\ asking.t # "blank") ~> (reply # None)
=============================================================================
