------------------------------ MODULE JsonText ------------------------------
(***************************************************************************)
(* The JSON reader (config_json.c) on every short text, against the        *)
(* grammar it claims to read, and the JSON writer on every short sequence  *)
(* of calls, against the reader.                                           *)
(*                                                                         *)
(* A character is a member of Chars: "q" is the quotation mark, "1" and    *)
(* "-" make numbers, "n" stands for a literal (null, true, false), "_" is  *)
(* white space.  What a string decodes to is left out: no property tells   *)
(* two strings apart.                                                      *)
(***************************************************************************)
EXTENDS Integers, FiniteSets, SequencesExt

CONSTANTS
  DepthMax,     \* CFG_JSON_DEPTH_MAX
  NumCharsMax,  \* CFG_JSON_NUM_CHARS_MAX
  EveryText,    \* texts up to this length are read, whatever they are
  ReadOn,       \* texts up to this length are read while they can still become a document
  Written,      \* characters the writer is followed to
  Chunk         \* characters in the buffer of the writer

VARIABLES
  text,         \* what the reader is given
  w             \* cfg_json_w_t, with what went to the sink
jsonVars == <<text, w>>

Chars == {"{", "}", "[", "]", ",", ":", "q", "\\", "1", "-", "n", "_"}

-----------------------------------------------------------------------------
(* The reader: a cursor r on a text s                                      *)

Start == [pos |-> 1, depth |-> 0, seen |-> {}, err |-> "OK"]
Fail(r, e) == [r EXCEPT !.err = e]
AtEnd(s, r) == r.pos > Len(s)
Here(s, r) == s[r.pos]
Skip1(r) == [r EXCEPT !.pos = @ + 1]
SkipWs(s, r) == [r EXCEPT !.pos = Min({i \in r.pos..(Len(s) + 1) : i > Len(s) \/ s[i] # "_"})]

TooDeep(r) == r.depth >= DepthMax

\* container_begin
Open(s, r0, bracket) ==
  LET r == SkipWs(s, r0) IN
  CASE AtEnd(s, r) -> Fail(r, "TRUNCATED")
    [] ~AtEnd(s, r) /\ Here(s, r) # bracket -> Fail(r, "SYNTAX")
    [] OTHER -> IF TooDeep(r) THEN Fail(r, "DEPTH")
                ELSE [Skip1(r) EXCEPT !.depth = @ + 1, !.seen = @ \ {r.depth + 1}]

\* After a comma there is another item.
AfterComma(s, r, close) ==
  IF AtEnd(s, r) THEN Fail(r, "TRUNCATED") ELSE IF Here(s, r) = close THEN Fail(r, "SYNTAX") ELSE r

\* container_step: whether an item follows, and the cursor in front of it.
Step(s, r0, close) ==
  LET r == SkipWs(s, r0) IN
  CASE AtEnd(s, r) -> [more |-> FALSE, r |-> Fail(r, "TRUNCATED")]
    [] ~AtEnd(s, r) /\ Here(s, r) = close -> [more |-> FALSE, r |-> [Skip1(r) EXCEPT !.depth = @ - 1]]
    [] OTHER ->
         LET q == IF r.depth \notin r.seen THEN r
                  ELSE IF Here(s, r) # "," THEN Fail(r, "SYNTAX")
                  ELSE AfterComma(s, SkipWs(s, Skip1(r)), close)
         IN  [more |-> q.err = "OK", r |-> [q EXCEPT !.seen = @ \cup {r.depth}]]

\* What a backslash may stand before.
Escapes == {"q", "\\"}

\* cfg_json_str, in the string: to the quotation mark that is not escaped.
StringFrom(s, r) ==
  LET from[p \in Nat] ==
        CASE p > Len(s) -> [r EXCEPT !.pos = p, !.err = "TRUNCATED"]
          [] p <= Len(s) /\ s[p] = "q" -> [r EXCEPT !.pos = p + 1]
          [] p <= Len(s) /\ s[p] = "\\" ->
               IF p = Len(s) THEN [r EXCEPT !.pos = p, !.err = "TRUNCATED"]
               ELSE IF s[p + 1] \in Escapes THEN from[p + 2]
               ELSE [r EXCEPT !.pos = p, !.err = "SYNTAX"]
          [] OTHER -> from[p + 1]
  IN  from[r.pos]

\* cfg_json_str
Str(s, r0) ==
  LET r == SkipWs(s, r0) IN
  IF AtEnd(s, r) THEN Fail(r, "TRUNCATED")
  ELSE IF Here(s, r) # "q" THEN Fail(r, "SYNTAX") ELSE StringFrom(s, Skip1(r))

\* cfg_json_num: the token is bounded first, and must be one number to its end.
Number(s, r) ==
  LET end == Min({i \in r.pos..(Len(s) + 1) : i > Len(s) \/ s[i] \notin {"1", "-"}})
      legal == \A i \in r.pos..(end - 1) : s[i] = "1" \/ (i = r.pos /\ i < end - 1)
  IN  IF end - r.pos > NumCharsMax THEN Fail(r, "TOOLONG")
      ELSE IF legal THEN [r EXCEPT !.pos = end] ELSE Fail(r, "SYNTAX")

Cursors == [pos : Nat, depth : Nat, seen : SUBSET Nat, err : STRING]

\* Behind the key of a member: its colon.
Colon(s, r) ==
  LET k == SkipWs(s, r) IN
  IF k.err # "OK" THEN k
  ELSE IF AtEnd(s, k) THEN Fail(k, "TRUNCATED")
  ELSE IF Here(s, k) # ":" THEN Fail(k, "SYNTAX") ELSE Skip1(k)

\* cfg_json_peek and cfg_json_skip; in a container its loop of cfg_json_obj_key or
\* cfg_json_arr_next and the value after it, to the end.
Skip(s, start) ==
  LET read[what \in {"value", "}", "]"}, r0 \in Cursors] ==
        LET r  == SkipWs(s, r0)
            st == Step(s, r0, what)
            v  == IF what = "}" THEN Colon(s, Str(s, st.r)) ELSE st.r
        IN  CASE r0.err # "OK" -> r0
              [] r0.err = "OK" /\ what # "value" ->
                   IF ~st.more THEN st.r ELSE read[what, read["value", v]]
              [] r0.err = "OK" /\ what = "value" ->
                   IF AtEnd(s, r) THEN Fail(r, "TRUNCATED")
                   ELSE CASE Here(s, r) = "{" -> read["}", Open(s, r, "{")]
                          [] Here(s, r) = "[" -> read["]", Open(s, r, "[")]
                          [] Here(s, r) = "q" -> Str(s, r)
                          [] Here(s, r) \in {"1", "-"} -> Number(s, r)
                          [] Here(s, r) = "n" -> Skip1(r)
                          [] OTHER -> Fail(r, "SYNTAX")
  IN  read["value", start]

Verdict(s, r) == IF r.err # "OK" THEN r.err ELSE IF AtEnd(s, r) THEN "OK" ELSE "TRAILING"

\* cfg_json_validate
Validate(s) == Verdict(s, SkipWs(s, Skip(s, Start)))

-----------------------------------------------------------------------------
(* The grammar: texts by their first and last character and how they split *)

Trim(s) == LET on == {i \in DOMAIN s : s[i] # "_"}
           IN  IF on = {} THEN <<>> ELSE SubSeq(s, Min(on), Max(on))
\* The positions that a backslash before them does not escape.
Bare(s) == LET bare[i \in Nat] == i < 2 \/ ~(bare[i - 1] /\ s[i - 1] = "\\")
           IN  {i \in DOMAIN s : bare[i]}
IsBody(s) == \A i \in DOMAIN s :
               IF i \in Bare(s) THEN s[i] # "q" /\ (s[i] = "\\" => i < Len(s))
               ELSE s[i] \in {"q", "\\"}
Enclosed(s, a, b) == Len(s) >= 2 /\ s[1] = a /\ s[Len(s)] = b
Inside(s) == SubSeq(s, 2, Len(s) - 1)
IsString(s) == Enclosed(s, "q", "q") /\ IsBody(Inside(s))
IsNumber(s) == /\ Len(s) \in 1..NumCharsMax
               /\ LET d == IF s[1] = "-" THEN Tail(s) ELSE s IN d # <<>> /\ \A i \in DOMAIN d : d[i] = "1"
IsKey(s) == IsString(Trim(s))
\* A value, the items of an array, or the members of an object, with containers d deep.
Is(what, text0, depth) ==
  LET is[w0 \in {"value", "items", "members"}, s \in Seq(Chars), d \in Nat] ==
        LET v == Trim(s)
            Item(t) == IF w0 = "items" THEN is["value", t, d]
                       ELSE \E i \in DOMAIN t : /\ t[i] = ":" /\ IsKey(SubSeq(t, 1, i - 1))
                                                /\ is["value", SubSeq(t, i + 1, Len(t)), d]
            Container(a, b, of) ==
              /\ d > 0 /\ Enclosed(v, a, b)
              /\ Trim(Inside(v)) = <<>> \/ is[of, Inside(v), d - 1]
        IN  IF w0 = "value"
              THEN \/ v = <<"n">> \/ IsNumber(v) \/ IsString(v)
                   \/ Container("{", "}", "members") \/ Container("[", "]", "items")
              ELSE \/ Item(s)
                   \/ \E i \in DOMAIN s : /\ s[i] = "," /\ Item(SubSeq(s, 1, i - 1))
                                          /\ is[w0, SubSeq(s, i + 1, Len(s)), d]
  IN  is[what, text0, depth]
IsValue(s, d) == Is("value", s, d)

-----------------------------------------------------------------------------
(* The writer                                                              *)

\* wr: characters go to the buffer, a full buffer to the sink, or they are lost.
Put(v, c) ==
  IF Len(v.buf) < Chunk THEN [v EXCEPT !.buf = Append(@, c)]
  ELSE IF v.sink THEN [v EXCEPT !.out = @ \o v.buf, !.buf = <<c>>]
  ELSE [v EXCEPT !.ovf = TRUE]

\* sep: nothing between a key and its value, a comma before every other item but the first.
Sep(v) ==
  IF v.pending THEN [v EXCEPT !.pending = FALSE]
  ELSE IF v.nest = <<>> THEN v
  ELSE IF Len(v.nest) \in v.comma THEN Put(v, ",") ELSE [v EXCEPT !.comma = @ \cup {Len(v.nest)}]

\* SLIP: a container that was opened inherits the comma of the last one at its level.
OpenedStale(v, c) == [Put(Sep(v), c) EXCEPT !.nest = Append(@, c)]

\* container_open
Opened(v, c) ==
  [Put(Sep(v), c) EXCEPT !.nest = Append(@, c), !.comma = @ \ {Len(v.nest) + 1}]
Ended(v) ==
  [Put(v, IF Last(v.nest) = "[" THEN "]" ELSE "}") EXCEPT !.nest = Front(@), !.pending = FALSE]

\* wr_quoted, of a string of one character.
Quoted(v, c) ==
  LET begun == Put(v, "q")
      escaped == IF c \in {"q", "\\"} THEN Put(begun, "\\") ELSE begun
  IN  Put(Put(escaped, c), "q")

Keyed(v, c) == [Put(Quoted(Sep(v), c), ":") EXCEPT !.pending = TRUE]
Valued(v) == Put(Sep(v), "n")

\* The callers: one value per document, keys in objects only, a value for every key.
WantsValue(v) == IF v.nest = <<>> THEN v.out = <<>> /\ v.buf = <<>>
                 ELSE v.pending \/ Last(v.nest) = "["
WantsKey(v) == v.nest # <<>> /\ ~v.pending /\ Last(v.nest) = "{"

Call(v) == Len(w.out) + Len(w.buf) < Written /\ w' = v /\ UNCHANGED text
WriteOpen == WantsValue(w) /\ Len(w.nest) < DepthMax /\ \E c \in {"{", "["} : Call(Opened(w, c))
WriteKey == WantsKey(w) /\ \E c \in {"n", "q"} : Call(Keyed(w, c))
WriteValue == WantsValue(w) /\ Call(Valued(w))
WriteEnd == w.nest # <<>> /\ ~w.pending /\ Call(Ended(w))

\* cfg_json_w_init, with a sink or without
NewWriter(sink) == [out |-> <<>>, buf |-> <<>>, nest |-> <<>>, comma |-> {}, pending |-> FALSE,
                    ovf |-> FALSE, sink |-> sink]
Rebind == w' \in {NewWriter(TRUE), NewWriter(FALSE)} /\ UNCHANGED text

\* The text grows: every text up to EveryText, and what can still become a document; then
\* the next line begins.  Of what longer strings hold, only what ends them is told apart.
InString(s) ==
  LET Read(in, c) == IF in = "escape" THEN "yes" ELSE IF c = "q" THEN (IF in = "no" THEN "yes" ELSE "no")
                      ELSE IF c = "\\" /\ in = "yes" THEN "escape" ELSE in
  IN  FoldLeft(Read, "no", s) # "no"
Grows == Len(text) < EveryText \/ (Len(text) < ReadOn /\ Validate(text) \in {"OK", "TRUNCATED"})
Grown == IF Len(text) >= EveryText /\ InString(text) THEN {"q", "\\", "n"} ELSE Chars
Grow == Grows /\ (\E c \in Grown : text' = Append(text, c)) /\ UNCHANGED w
Anew == ~Grows /\ text' = <<>> /\ UNCHANGED w

JsonInit == text = <<>> /\ w = NewWriter(TRUE)
JsonNext ==
  \/ w = NewWriter(TRUE) /\ (Grow \/ Anew)
  \/ text = <<>> /\ (WriteOpen \/ WriteKey \/ WriteValue \/ WriteEnd \/ Rebind)

-----------------------------------------------------------------------------
(* Properties *)

\* The reader accepts exactly the texts of the grammar, nested no deeper than the limit.
ReadsTheGrammar == Validate(text) = "OK" <=> IsValue(text, DepthMax)

\* A line that lost its beginning or its end, or was joined to another, is never taken for a
\* request: no accepted object starts or ends with another accepted object.
NoLineInALine ==
  Validate(text) = "OK" /\ text[1] = "{" => \A i \in 2..Len(text) :
    /\ text[i] = "{" => Validate(SubSeq(text, i, Len(text))) # "OK"
    /\ text[i] # "_" => Validate(SubSeq(text, 1, i - 1)) # "OK"

\* Whatever the order of calls, what the writer put out is the beginning of a document, and a
\* document once every container is closed, unless the writer says that it overflowed.
WrittenIsRead ==
  LET t == w.out \o w.buf IN
  ~w.ovf => Validate(t) = IF t # <<>> /\ w.nest = <<>> THEN "OK" ELSE "TRUNCATED"
=============================================================================
