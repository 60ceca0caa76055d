------------------------- MODULE AddressClaimProofs --------------------------
(***************************************************************************)
(* Theorems of AddressClaim, for any number of nodes and addresses, any    *)
(* order of names and preferences, and any number of resets, pulled plugs  *)
(* and overruns: no two nodes that heard each other own one address.       *)
(***************************************************************************)
EXTENDS AddressClaim, SequenceTheorems, TLAPS

Claiming(n) == ac[n].state \in {"CLAIMING", "CLAIMED"}

\* A claim of node n on the bus or on its way there.
ClaimsBy(n) == [kind : {"claim"}, from : {n}, addr : 0 .. NumAddrs - 1]

ClaimTypes ==
    /\ ac \in [Node -> Claims]
    /\ age \in [Node -> 0 .. Settle]
    /\ tx \in [Node -> Seq(Frames)]
    /\ \A n \in Node : tx[n] \in Seq(ClaimsBy(n))
    /\ plugged \in [Node -> BOOLEAN] /\ heard \in [Node -> BOOLEAN]
    /\ deaf \in [Node -> BOOLEAN] /\ owed \in [Node -> BOOLEAN]
    /\ lost \in [Node -> SUBSET (0 .. NumAddrs - 1)]

\* The walk over the addresses: a node holds the candidate of its attempt and has lost
\* those of all attempts before.
Tried(n, k) == {Candidate(n, t) : t \in 0 .. k - 1}
Walks(n) ==
    /\ ac[n].state = "OFF" => ac[n] = Off
    /\ Claiming(n) => /\ ac[n].tries < NumAddrs
                      /\ ac[n].addr = Candidate(n, ac[n].tries)
                      /\ lost[n] = Tried(n, ac[n].tries)
    /\ ac[n].state = "NULL" => lost[n] = Tried(n, NumAddrs)

\* A node off the bus is deaf.
HearsAll(n) == ~plugged[n] => deaf[n]

\* The node is about to repeat, or has queued, a claim for address a; it took its
\* address in this unit of time.
Queued(n, a) == \E i \in 1 .. Len(tx[n]) : tx[n][i].addr = a
Sending(n) == ac[n].need_claim_tx \/ ac[n].need_repeat_tx \/ Queued(n, ac[n].addr)
Fresh(n) == ac[n].state = "CLAIMING" /\ (ac[n].need_claim_tx \/ age[n] = 0)

\* Until the bus has carried its claim a node cannot have waited.
Announces(n) ==
    Claiming(n) /\ ~deaf[n]
    => heard[n] \/ (Fresh(n) /\ (ac[n].need_claim_tx \/ Queued(n, ac[n].addr)))

\* Of two nodes at one address one will be heard by the other before time goes on, and
\* one has only just come there: the conflict is over before both own the address.
Resolves(m, n) ==
    (m # n /\ Claiming(m) /\ Claiming(n) /\ ac[m].addr = ac[n].addr /\ ~deaf[m] /\ ~deaf[n])
    => (Sending(m) \/ Sending(n)) /\ (Fresh(m) \/ Fresh(n))

NodeInv(n) == Walks(n) /\ HearsAll(n) /\ Announces(n)
ClaimInv == /\ ClaimTypes
            /\ \A n \in Node : NodeInv(n)
            /\ \A m, n \in Node : Resolves(m, n)

-----------------------------------------------------------------------------
(* The walk over the addresses *)

LEMMA CandidateType ==
  ASSUME ClaimAssumption, NEW n \in Node, NEW t \in 0 .. NumAddrs - 1
  PROVE  Candidate(n, t) \in 0 .. NumAddrs - 1
BY DEF ClaimAssumption, Candidate

\* The walk comes by every address, and by none twice.
LEMMA AllAreTried ==
  ASSUME ClaimAssumption, NEW n \in Node
  PROVE  Tried(n, NumAddrs) = 0 .. NumAddrs - 1
<1>1. Tried(n, NumAddrs) \subseteq 0 .. NumAddrs - 1
  BY CandidateType DEF Tried
<1>2. ASSUME NEW a \in 0 .. NumAddrs - 1 PROVE a \in Tried(n, NumAddrs)
  <2>1. Pref[n] \in 0 .. NumAddrs - 1 /\ NumAddrs \in Nat
    BY DEF ClaimAssumption
  <2>2. CASE a >= Pref[n]
    <3>1. a - Pref[n] \in 0 .. NumAddrs - 1 /\ a = Candidate(n, a - Pref[n])
      BY <1>2, <2>1, <2>2 DEF Candidate
    <3>2. QED
      BY <3>1 DEF Tried
  <2>3. CASE a < Pref[n]
    <3>1. /\ a - Pref[n] + NumAddrs \in 0 .. NumAddrs - 1
          /\ a = Candidate(n, a - Pref[n] + NumAddrs)
      BY <1>2, <2>1, <2>3 DEF Candidate
    <3>2. QED
      BY <3>1 DEF Tried
  <2>4. QED
    BY <2>1, <2>2, <2>3
<1>3. QED
  BY <1>1, <1>2

LEMMA TriedNext ==
  ASSUME ClaimAssumption, NEW n \in Node, NEW k \in 0 .. NumAddrs - 1
  PROVE  /\ Tried(n, k + 1) = Tried(n, k) \cup {Candidate(n, k)}
         /\ Candidate(n, k) \notin Tried(n, k)
         /\ Tried(n, 0) = {}
<1>1. k \in Nat /\ NumAddrs \in Nat /\ Pref[n] \in 0 .. NumAddrs - 1
  BY DEF ClaimAssumption
<1>2. 0 .. (k + 1) - 1 = (0 .. k - 1) \cup {k}
  BY <1>1
<1>3. Tried(n, k + 1) = Tried(n, k) \cup {Candidate(n, k)}
  BY <1>2 DEF Tried
<1>4. ASSUME NEW t \in 0 .. k - 1 PROVE Candidate(n, t) # Candidate(n, k)
  BY <1>1, <1>4 DEF Candidate
<1>5. QED
  BY <1>3, <1>4 DEF Tried

\* restart_claim: the next candidate, announced at the next tick, or silence.
LEMMA Restarted ==
  ASSUME ClaimAssumption, NEW n \in Node, NEW c \in Claims, c.tries < NumAddrs
  PROVE  LET r == RestartClaim(n, c) IN
         /\ r \in Claims
         /\ \/ /\ r.state = "CLAIMING" /\ r.need_claim_tx = TRUE
               /\ r.tries = c.tries + 1 /\ r.tries < NumAddrs
               /\ r.addr = Candidate(n, r.tries)
            \/ r.state = "NULL" /\ c.tries + 1 = NumAddrs
<1>1. c.tries \in Nat /\ NumAddrs \in Nat
  BY DEF Claims, ClaimAssumption
<1>2. CASE c.tries + 1 >= NumAddrs
  BY <1>1, <1>2 DEF RestartClaim, Claims, Null
<1>3. CASE ~(c.tries + 1 >= NumAddrs)
  <2>1. c.tries + 1 \in 0 .. NumAddrs - 1
    BY <1>1, <1>3
  <2>2. Candidate(n, c.tries + 1) \in 0 .. NumAddrs - 1
    BY <2>1, CandidateType
  <2>3. RestartClaim(n, c) = [c EXCEPT !.state = "CLAIMING", !.addr = Candidate(n, c.tries + 1),
                                       !.tries = c.tries + 1, !.need_claim_tx = TRUE]
    BY <1>3 DEF RestartClaim
  <2> DEFINE r == RestartClaim(n, c)
  <2>4. /\ r.state = "CLAIMING" /\ r.need_claim_tx = TRUE /\ r.tries = c.tries + 1
        /\ r.addr = Candidate(n, c.tries + 1)
    BY <2>3 DEF Claims
  <2>5. r \in Claims
    <3> DEFINE t == c.tries + 1  a == Candidate(n, c.tries + 1)
    <3>1. t \in 0 .. NumAddrs /\ a \in 0 .. NumAddrs
      BY <1>1, <2>1, <2>2
    <3>2. r = [c EXCEPT !.state = "CLAIMING", !.addr = a, !.tries = t, !.need_claim_tx = TRUE]
      BY <2>3
    <3> HIDE DEF t, a, r
    <3>3. QED
      BY <3>1, <3>2 DEF Claims
  <2>6. QED
    BY <1>1, <2>1, <2>4, <2>5
<1>4. QED
  BY <1>2, <1>3

LEMMA Booted ==
  ASSUME ClaimAssumption, NEW n \in Node
  PROVE  /\ AcInit(n) \in Claims /\ AcInit(n).state = "CLAIMING" /\ AcInit(n).need_claim_tx = TRUE
         /\ AcInit(n).tries = 0 /\ AcInit(n).addr = Candidate(n, 0)
<1>1. Pref[n] \in 0 .. NumAddrs - 1 /\ NumAddrs \in Nat
  BY DEF ClaimAssumption
<1>2. QED
  BY <1>1 DEF AcInit, Claims, Candidate

\* n2k_ac_tick: nothing but the flags and the promotion, which a fresh claim has to await.
LEMMA Ticked ==
  ASSUME ClaimAssumption, NEW c \in Claims, NEW e \in 0 .. Settle
  PROVE  LET d == AcTick(c, e) IN
         /\ d \in Claims /\ d.addr = c.addr /\ d.tries = c.tries
         /\ d.need_claim_tx = FALSE /\ d.need_repeat_tx = FALSE
         /\ d.state = c.state \/ (c.state = "CLAIMING" /\ d.state = "CLAIMED")
         /\ (c.state = "CLAIMING" /\ (c.need_claim_tx \/ e = 0))
              => d.state = "CLAIMING" /\ Sent(c, e).age = 0
         /\ Sent(c, e).age \in 0 .. Settle /\ Sent(c, e).frames \in 0 .. 2
         /\ (c.state # "NULL" /\ (c.need_claim_tx \/ c.need_repeat_tx)) => Sent(c, e).frames > 0
         /\ c.state = "NULL" => Sent(c, e).frames = 0
<1>1. Settle \in Nat \ {0}
  BY DEF ClaimAssumption
<1>2. c.need_claim_tx \in BOOLEAN /\ c.need_repeat_tx \in BOOLEAN
  BY DEF Claims
<1>3. Sent(c, e).age = IF c.need_claim_tx THEN 0 ELSE e
  BY DEF Sent
<1>4. Sent(c, e).frames = (IF c.state # "NULL" /\ c.need_claim_tx THEN 1 ELSE 0)
                          + (IF c.state # "NULL" /\ c.need_repeat_tx THEN 1 ELSE 0)
  BY DEF Sent
<1>5. AcTick(c, e) = [c EXCEPT !.need_claim_tx = FALSE, !.need_repeat_tx = FALSE,
         !.state = IF c.state = "CLAIMING" /\ Sent(c, e).age >= Settle THEN "CLAIMED" ELSE c.state]
  BY DEF AcTick, Claims
<1>6. Sent(c, e).age \in 0 .. Settle
  BY <1>1, <1>3
<1> DEFINE d == AcTick(c, e)
<1>7. /\ d \in Claims /\ d.addr = c.addr /\ d.tries = c.tries
      /\ d.need_claim_tx = FALSE /\ d.need_repeat_tx = FALSE
      /\ d.state = IF c.state = "CLAIMING" /\ Sent(c, e).age >= Settle THEN "CLAIMED" ELSE c.state
  BY <1>5 DEF Claims
<1> HIDE DEF d
<1>8. (c.need_claim_tx \/ e = 0) => Sent(c, e).age = 0 /\ ~(Sent(c, e).age >= Settle)
  BY <1>1, <1>3
<1>9. /\ Sent(c, e).frames \in 0 .. 2
      /\ (c.state # "NULL" /\ (c.need_claim_tx \/ c.need_repeat_tx)) => Sent(c, e).frames > 0
      /\ c.state = "NULL" => Sent(c, e).frames = 0
  BY <1>2, <1>4
<1>10. QED
  BY <1>6, <1>7, <1>8, <1>9 DEF d

-----------------------------------------------------------------------------
(* The queues *)

LEMMA FirstIsQueued ==
  ASSUME ClaimTypes, NEW n \in Node, tx[n] # <<>>
  PROVE  First(n) \in 1 .. Len(tx[n])
<1>1. Len(tx[n]) \in Nat \ {0}
  BY EmptySeq DEF ClaimTypes
<1>2. ASSUME NEW i \in 1 .. Len(tx[n]) PROVE Place(n, i) \in Int
  <2>1. tx[n][i] \in ClaimsBy(n)
    BY ElementOfSeq DEF ClaimTypes
  <2>2. tx[n][i].addr \in Int
    BY <2>1 DEF ClaimsBy
  <2>3. QED
    BY <1>2, <2>2 DEF Place
<1>3. Mailboxes(n) \subseteq {1, 2, 3} /\ Mailboxes(n) \subseteq 1 .. Len(tx[n])
      /\ 1 \in Mailboxes(n)
  BY <1>1 DEF Mailboxes
<1>4. \A i \in Mailboxes(n) : Place(n, i) \in Int
  BY <1>2, <1>3
<1>5. \E i \in Mailboxes(n) : \A j \in Mailboxes(n) : Place(n, i) <= Place(n, j)
  <2> DEFINE M == Mailboxes(n)  p(i) == Place(n, i)
  <2>1. /\ M \subseteq {1, 2, 3} /\ 1 \in M /\ p(1) \in Int
        /\ 2 \in M => p(2) \in Int
        /\ 3 \in M => p(3) \in Int
    BY <1>3, <1>4
  <2> HIDE DEF M, p
  <2>2. \E i \in M : \A j \in M : p(i) <= p(j)
    <3>1. CASE (2 \in M => p(1) <= p(2)) /\ (3 \in M => p(1) <= p(3))
      <4>1. \A j \in M : p(1) <= p(j)
        BY <2>1, <3>1
      <4>2. QED
        BY <2>1, <4>1
    <3>2. CASE 2 \in M /\ p(2) <= p(1) /\ (3 \in M => p(2) <= p(3))
      <4>1. \A j \in M : p(2) <= p(j)
        BY <2>1, <3>2
      <4>2. QED
        BY <3>2, <4>1
    <3>3. CASE 3 \in M /\ p(3) <= p(1) /\ (2 \in M => p(3) <= p(2))
      <4>1. \A j \in M : p(3) <= p(j)
        BY <2>1, <3>3
      <4>2. QED
        BY <3>3, <4>1
    <3>4. CASE 2 \in M /\ 3 \in M
      <4>1. p(1) \in Int /\ p(2) \in Int /\ p(3) \in Int
        BY <2>1, <3>4
      <4>2. \/ p(1) <= p(2) /\ p(1) <= p(3)
            \/ p(2) <= p(1) /\ p(2) <= p(3)
            \/ p(3) <= p(1) /\ p(3) <= p(2)
        BY <4>1
      <4>3. QED
        BY <3>1, <3>2, <3>3, <3>4, <4>2
    <3>5. CASE 2 \in M /\ 3 \notin M
      <4>1. p(1) <= p(2) \/ p(2) <= p(1)
        BY <2>1, <3>5
      <4>2. QED
        BY <3>1, <3>2, <3>5, <4>1
    <3>6. CASE 2 \notin M /\ 3 \in M
      <4>1. p(1) <= p(3) \/ p(3) <= p(1)
        BY <2>1, <3>6
      <4>2. QED
        BY <3>1, <3>3, <3>6, <4>1
    <3>7. QED
      BY <3>1, <3>4, <3>5, <3>6
  <2>3. QED
    BY <2>2 DEF M, p
<1>6. QED
  BY <1>3, <1>5 DEF First

LEMMA RemoveKeeps ==
  ASSUME NEW S, NEW s \in Seq(S), NEW i \in 1 .. Len(s)
  PROVE  /\ RemoveAt(s, i) \in Seq(S)
         /\ \A j \in 1 .. Len(s) : j # i => Contains(RemoveAt(s, i), s[j])
<1> DEFINE u == SubSeq(s, 1, i - 1)  v == SubSeq(s, i + 1, Len(s))
<1>1. Len(s) \in Nat /\ \A j \in 1 .. Len(s) : s[j] \in S
  BY ElementOfSeq, LenProperties
<1>2. /\ u \in Seq(S) /\ Len(u) = i - 1
      /\ \A k \in 1 .. i - 1 : u[k] = s[k]
  <2>1. \A k \in 1 .. i - 1 : s[k] \in S
    BY <1>1
  <2>0. 1 \in Int /\ i - 1 \in Int
    BY <1>1
  <2>2. /\ u \in Seq(S) /\ Len(u) = (IF 1 <= i - 1 THEN (i - 1) - 1 + 1 ELSE 0)
        /\ \A k \in 1 .. (i - 1) - 1 + 1 : u[k] = s[1 + k - 1]
    BY <2>1, <2>0, SubSeqProperties
  <2>3. QED
    BY <1>1, <2>2
<1>3. /\ v \in Seq(S) /\ Len(v) = Len(s) - i
      /\ \A k \in 1 .. Len(s) - i : v[k] = s[i + k]
  <2>1. \A k \in i + 1 .. Len(s) : s[k] \in S
    BY <1>1
  <2>2. i + 1 \in Int /\ Len(s) \in Int
    BY <1>1
  <2>3. /\ v \in Seq(S) /\ Len(v) = (IF i + 1 <= Len(s) THEN Len(s) - (i + 1) + 1 ELSE 0)
        /\ \A k \in 1 .. Len(s) - (i + 1) + 1 : v[k] = s[(i + 1) + k - 1]
    BY <2>1, <2>2, SubSeqProperties
  <2>4. QED
    BY <1>1, <2>3
<1> HIDE DEF u, v
<1>4. /\ u \o v \in Seq(S) /\ Len(u \o v) = Len(u) + Len(v)
      /\ \A k \in 1 .. Len(u) + Len(v) : (u \o v)[k] = IF k <= Len(u) THEN u[k] ELSE v[k - Len(u)]
  BY <1>2, <1>3, ConcatProperties
<1>5. ASSUME NEW j \in 1 .. Len(s), j # i
      PROVE  \E k \in 1 .. Len(u \o v) : (u \o v)[k] = s[j]
  <2>1. CASE j < i
    <3>1. j \in 1 .. Len(u) + Len(v) /\ j <= Len(u) /\ j \in 1 .. i - 1
      BY <1>1, <1>2, <1>3, <1>5, <2>1
    <3>2. (u \o v)[j] = s[j]
      BY <1>2, <1>4, <3>1
    <3>3. QED
      BY <1>4, <3>1, <3>2
  <2>2. CASE j > i
    <3>1. j - 1 \in 1 .. Len(u) + Len(v) /\ ~(j - 1 <= Len(u)) /\ (j - 1) - Len(u) = j - i
      BY <1>1, <1>2, <1>3, <1>5, <2>2
    <3>2. (u \o v)[j - 1] = v[j - i] /\ v[j - i] = s[i + (j - i)]
      BY <1>1, <1>2, <1>3, <1>4, <3>1, <2>2
    <3>3. i + (j - i) = j
      OBVIOUS
    <3>4. QED
      BY <1>4, <3>1, <3>2, <3>3
  <2>3. QED
    BY <1>5, <2>1, <2>2
<1>6. RemoveAt(s, i) = u \o v
  BY DEF RemoveAt, u, v
<1>7. QED
  BY <1>4, <1>5, <1>6 DEF Contains

\* What a tick queues comes behind what was queued, and is the node's own claim.
LEMMA AppendKeeps ==
  ASSUME NEW S, NEW s \in Seq(S), NEW f \in S, NEW k \in 0 .. 2
  PROVE  /\ s \o Copies(f, k) \in Seq(S)
         /\ \A j \in 1 .. Len(s) : Contains(s \o Copies(f, k), s[j])
         /\ k > 0 => Contains(s \o Copies(f, k), f)
<1>1. Copies(f, k) \in Seq(S) /\ Len(Copies(f, k)) = k /\ \A i \in 1 .. k : Copies(f, k)[i] = f
  BY DEF Copies
<1> DEFINE c == Copies(f, k)
<1> HIDE DEF c
<1>2. /\ s \o c \in Seq(S) /\ Len(s \o c) = Len(s) + Len(c)
      /\ \A i \in 1 .. Len(s) + Len(c) : (s \o c)[i] = IF i <= Len(s) THEN s[i] ELSE c[i - Len(s)]
  BY <1>1, ConcatProperties DEF c
<1>3. Len(s) \in Nat /\ Len(c) = k
  BY <1>1, LenProperties DEF c
<1>4. \A j \in 1 .. Len(s) : \E i \in 1 .. Len(s \o c) : (s \o c)[i] = s[j]
  BY <1>2, <1>3
<1>5. ASSUME k > 0 PROVE \E i \in 1 .. Len(s \o c) : (s \o c)[i] = f
  <2>1. Len(s) + 1 \in 1 .. Len(s \o c) /\ (s \o c)[Len(s) + 1] = c[1]
    BY <1>2, <1>3, <1>5
  <2>2. c[1] = f
    BY <1>1, <1>5 DEF c
  <2>3. QED
    BY <2>1, <2>2
<1>6. QED
  BY <1>2, <1>4, <1>5 DEF c, Contains

-----------------------------------------------------------------------------
(* What a step does to one node *)

\* Nothing.
Same(k) ==
    /\ ac'[k] = ac[k] /\ age'[k] = age[k] /\ tx'[k] = tx[k] /\ plugged'[k] = plugged[k]
    /\ lost'[k] = lost[k] /\ heard'[k] = heard[k] /\ deaf'[k] = deaf[k]

\* It stays where it is, and hears as well as before or not at all.
Steady(k) ==
    (Claiming(k)' /\ ~deaf'[k])
    => /\ Claiming(k) /\ ~deaf[k] /\ ac'[k].addr = ac[k].addr
       /\ Fresh(k) => Fresh(k)'

\* It starts to claim an address.
New(k) == ac[k].state = "CLAIMING" /\ ac[k].need_claim_tx = TRUE

\* A better name has taken its address.
Moved(k) ==
    /\ Claiming(k)
    /\ ac'[k] = RestartClaim(k, ac[k])
    /\ lost'[k] = lost[k] \cup {ac[k].addr}

\* It has at most noted that a claim is to be repeated.
Noted(k) ==
    /\ \/ ac'[k] = ac[k]
       \/ ac[k].state # "OFF" /\ ac'[k] = [ac[k] EXCEPT !.need_repeat_tx = TRUE]
    /\ lost'[k] = lost[k]
    /\ heard[k] => heard'[k]

LEMMA SameKeeps ==
  ASSUME NEW k, Same(k), NodeInv(k)
  PROVE  NodeInv(k)' /\ Steady(k) /\ (Sending(k) => Sending(k)')
BY DEF Same, NodeInv, Walks, HearsAll, Announces, Claiming, Fresh, Queued, Sending, Steady, Tried, Candidate

LEMMA NewResolves ==
  ASSUME NEW m, NEW n, New(m)
  PROVE  Announces(m) /\ Resolves(m, n) /\ Resolves(n, m)
BY DEF New, Announces, Resolves, Sending, Fresh

LEMMA SteadyResolves ==
  ASSUME NEW m, NEW n, Resolves(m, n), Steady(m), Steady(n),
         (~deaf'[m] /\ ~deaf'[n] /\ Claiming(m)' /\ Claiming(n)' /\ ac'[m].addr = ac'[n].addr
            /\ m # n /\ (Sending(m) \/ Sending(n)))
           => Sending(m)' \/ Sending(n)'
  PROVE  Resolves(m, n)'
BY DEF Resolves, Steady

LEMMA MovedWalks ==
  ASSUME ClaimAssumption, NEW k \in Node, ac[k] \in Claims, Moved(k), Walks(k)
  PROVE  /\ ac'[k] \in Claims /\ Walks(k)'
         /\ New(k)' \/ ac'[k].state = "NULL"
         /\ lost'[k] \subseteq 0 .. NumAddrs - 1
<1>1. /\ ac[k].tries \in 0 .. NumAddrs - 1 /\ NumAddrs \in Nat
      /\ ac[k].addr = Candidate(k, ac[k].tries) /\ lost[k] = Tried(k, ac[k].tries)
  BY DEF Moved, Walks, Claims, ClaimAssumption
<1>2. lost'[k] = Tried(k, ac[k].tries + 1)
  BY <1>1, TriedNext DEF Moved
<1> DEFINE r == RestartClaim(k, ac[k])
<1>3. /\ r \in Claims
      /\ \/ /\ r.state = "CLAIMING" /\ r.need_claim_tx = TRUE
            /\ r.tries = ac[k].tries + 1 /\ r.tries < NumAddrs
            /\ r.addr = Candidate(k, r.tries)
         \/ r.state = "NULL" /\ ac[k].tries + 1 = NumAddrs
  <2>1. ac[k].tries < NumAddrs
    BY <1>1
  <2>2. QED
    BY <2>1, Restarted
<1>4. ac'[k] = r
  BY DEF Moved
<1>5. Walks(k)'
  <2> HIDE DEF r
  <2>1. QED
    BY <1>2, <1>3, <1>4 DEF Walks, Claiming, Tried, Candidate
<1>6. lost'[k] \subseteq 0 .. NumAddrs - 1
  BY <1>1, <1>2, CandidateType DEF Tried
<1>7. QED
  BY <1>3, <1>4, <1>5, <1>6 DEF New

LEMMA NotedKeeps ==
  ASSUME NEW k, ac[k] \in Claims, Noted(k), Walks(k), age'[k] = age[k]
  PROVE  /\ ac'[k] \in Claims /\ Walks(k)'
         /\ Claiming(k)' <=> Claiming(k)
         /\ ac'[k].addr = ac[k].addr /\ ac'[k].need_claim_tx = ac[k].need_claim_tx
         /\ ac[k].need_repeat_tx => ac'[k].need_repeat_tx
         /\ Fresh(k)' <=> Fresh(k)
         /\ ac[k].state = "OFF" => ac'[k].state = "OFF"
<1>1. /\ ac'[k] \in Claims /\ ac'[k].state = ac[k].state /\ ac'[k].addr = ac[k].addr
      /\ ac'[k].tries = ac[k].tries /\ ac'[k].need_claim_tx = ac[k].need_claim_tx
      /\ ac[k].need_repeat_tx => ac'[k].need_repeat_tx
  BY DEF Noted, Claims
<1>2. lost'[k] = lost[k] /\ (ac[k].state = "OFF" => ac'[k] = ac[k])
  BY DEF Noted
<1>3. Walks(k)'
  BY <1>1, <1>2 DEF Walks, Claiming, Tried, Candidate
<1>4. (Claiming(k)' <=> Claiming(k)) /\ (Fresh(k)' <=> Fresh(k))
  BY <1>1 DEF Claiming, Fresh
<1>5. QED
  BY <1>1, <1>3, <1>4

\* A frame on the bus: who loses by it moves, who defends by it notes that, and the
\* others stay as they are.
LEMMA Delivered ==
  ASSUME ClaimTypes, NEW f \in Frames, NEW from, NEW missed, Broadcast(f, from, missed),
         NEW m \in Node, Walks(m)
  PROVE  LET hears == m \in Receivers(from) \ missed IN
         /\ \/ hears /\ Loses(m, ac[m], f) /\ Moved(m)
            \/ /\ ~(hears /\ Loses(m, ac[m], f)) /\ Noted(m)
               /\ (hears /\ Contests(ac[m], f)) => ac'[m].need_repeat_tx = TRUE
         /\ (m \in from /\ f.addr = ac[m].addr) => heard'[m]
         /\ deaf'[m] = (deaf[m] \/ m \in missed)
         /\ heard'[m] \in BOOLEAN /\ owed'[m] \in BOOLEAN
<1> DEFINE hears == m \in Receivers(from) \ missed
           beaten == {k \in Receivers(from) \ missed : Loses(k, ac[k], f)}
<1>1. /\ ac'[m] = IF hears THEN AcRx(m, ac[m], f) ELSE ac[m]
      /\ lost'[m] = IF m \in beaten THEN lost[m] \cup {ac[m].addr} ELSE lost[m]
      /\ deaf'[m] = (deaf[m] \/ m \in missed)
      /\ heard'[m] = (\/ heard[m] /\ m \notin beaten
                      \/ m \in from /\ f.addr = ac[m].addr)
      /\ owed'[m] \in BOOLEAN
  BY DEF Broadcast
<1>2. m \in beaten <=> hears /\ Loses(m, ac[m], f)
  BY DEF Receivers
<1>3. hears => ac[m].state # "OFF"
  BY DEF Walks, Receivers
<1>4. ac[m] \in Claims
  BY DEF ClaimTypes
<1>5. CASE hears /\ Loses(m, ac[m], f)
  <2>1. ac'[m] = RestartClaim(m, ac[m])
    BY <1>1, <1>5 DEF AcRx, Loses, Contests
  <2>2. Claiming(m)
    BY <1>3, <1>4, <1>5 DEF Claiming, Loses, Contests, Claims
  <2>3. Moved(m)
    BY <1>1, <1>2, <1>5, <2>1, <2>2 DEF Moved
  <2>4. QED
    BY <1>1, <1>5, <2>3
<1>6. CASE hears /\ ~Loses(m, ac[m], f)
  <2>1. /\ ac'[m] = ac[m] \/ ac'[m] = [ac[m] EXCEPT !.need_repeat_tx = TRUE]
        /\ Contests(ac[m], f) => ac'[m] = [ac[m] EXCEPT !.need_repeat_tx = TRUE]
    BY <1>1, <1>6 DEF AcRx
  <2>2. Contests(ac[m], f) => ac'[m].need_repeat_tx = TRUE
    BY <1>4, <2>1 DEF Claims
  <2>3. Noted(m)
    BY <1>1, <1>2, <1>3, <1>6, <2>1 DEF Noted
  <2>4. QED
    BY <1>1, <1>6, <2>2, <2>3
<1>7. CASE ~hears
  <2>1. Noted(m)
    BY <1>1, <1>2, <1>7 DEF Noted
  <2>2. QED
    BY <1>1, <1>7, <2>1
<1>8. QED
  BY <1>5, <1>6, <1>7

-----------------------------------------------------------------------------
(* One action after the other *)

LEMMA BootKeeps ==
  ASSUME ClaimAssumption, ClaimInv, NEW n \in Node, CanInit(n)
  PROVE  ClaimInv'
<1>1. /\ ac'[n] = AcInit(n) /\ age'[n] = 0 /\ tx'[n] = <<>> /\ lost'[n] = {}
      /\ heard'[n] = FALSE /\ deaf'[n] = ~plugged[n] /\ plugged' = plugged
  BY DEF CanInit, ClaimInv, ClaimTypes
<1>2. \A k \in Node : k # n => Same(k)
  BY DEF CanInit, ClaimInv, ClaimTypes, Same
<1>3. ClaimTypes'
  <2>1. AcInit(n) \in Claims
    BY Booted
  <2>2. 0 \in 0 .. Settle
    BY DEF ClaimAssumption
  <2>3. <<>> \in Seq(Frames) /\ <<>> \in Seq(ClaimsBy(n))
    BY EmptySeq
  <2>4. \A k \in Node : tx'[k] \in Seq(ClaimsBy(k))
    BY <1>1, <1>2, <2>3 DEF Same, ClaimInv, ClaimTypes
  <2>5. /\ ac' \in [Node -> Claims] /\ age' \in [Node -> 0 .. Settle]
        /\ tx' \in [Node -> Seq(Frames)]
    BY <2>1, <2>2, <2>3 DEF CanInit, ClaimInv, ClaimTypes
  <2>6. /\ plugged' \in [Node -> BOOLEAN] /\ heard' \in [Node -> BOOLEAN]
        /\ deaf' \in [Node -> BOOLEAN] /\ owed' \in [Node -> BOOLEAN]
        /\ lost' \in [Node -> SUBSET (0 .. NumAddrs - 1)]
    BY DEF CanInit, ClaimInv, ClaimTypes
  <2>7. QED
    BY <2>4, <2>5, <2>6 DEF ClaimTypes, ClaimsBy
<1>4. New(n)' /\ NodeInv(n)'
  <2>1. New(n)' /\ ac'[n].tries = 0 /\ ac'[n].addr = Candidate(n, 0)
    BY <1>1, Booted DEF New
  <2>2. 0 < NumAddrs /\ 0 \in 0 .. NumAddrs - 1
    BY DEF ClaimAssumption
  <2>3. Walks(n)'
    BY <1>1, <2>1, <2>2, TriedNext DEF Walks, New, Claiming, Tried, Candidate
  <2>4. HearsAll(n)' /\ Announces(n)'
    BY <1>1, <2>1, NewResolves DEF HearsAll, New, Announces, Fresh
  <2>5. QED
    BY <2>1, <2>3, <2>4 DEF NodeInv
<1>5. \A k \in Node : NodeInv(k)'
  BY <1>2, <1>4, SameKeeps DEF ClaimInv
<1>6. ASSUME NEW a \in Node, NEW b \in Node PROVE Resolves(a, b)'
  <2>1. CASE a = n \/ b = n
    BY <1>4, <2>1 DEF Resolves, New, Sending, Fresh
  <2>2. CASE a # n /\ b # n
    <3>1. /\ Steady(a) /\ (Sending(a) => Sending(a)')
          /\ Steady(b) /\ (Sending(b) => Sending(b)')
      BY <1>2, <2>2, SameKeeps DEF ClaimInv
    <3>2. QED
      BY <3>1, SteadyResolves DEF ClaimInv
  <2>3. QED
    BY <2>1, <2>2
<1>7. QED
  BY <1>3, <1>5, <1>6 DEF ClaimInv

LEMMA PollKeeps ==
  ASSUME ClaimAssumption, ClaimInv, NEW n \in Node, Poll(n)
  PROVE  ClaimInv'
<1> DEFINE c == AcTick(ac[n], age[n])  s == Sent(ac[n], age[n])  f == ClaimOf(n, c.addr)
<1>1. ac[n] \in Claims /\ age[n] \in 0 .. Settle
  BY DEF ClaimInv, ClaimTypes
<1>2. /\ c \in Claims /\ c.addr = ac[n].addr /\ c.tries = ac[n].tries
      /\ c.need_claim_tx = FALSE /\ c.need_repeat_tx = FALSE
      /\ c.state = ac[n].state \/ (ac[n].state = "CLAIMING" /\ c.state = "CLAIMED")
      /\ (ac[n].state = "CLAIMING" /\ (ac[n].need_claim_tx \/ age[n] = 0))
           => c.state = "CLAIMING" /\ s.age = 0
      /\ s.age \in 0 .. Settle /\ s.frames \in 0 .. 2
      /\ (ac[n].state # "NULL" /\ (ac[n].need_claim_tx \/ ac[n].need_repeat_tx)) => s.frames > 0
      /\ ac[n].state = "NULL" => s.frames = 0
  BY <1>1, Ticked
<1>0. PICK queued \in 0 .. s.frames :
        /\ tx' = [tx EXCEPT ![n] = tx[n] \o Copies(f, queued)]
        /\ deaf' = [deaf EXCEPT ![n] = deaf[n] \/ queued < s.frames]
        /\ owed' = [owed EXCEPT ![n] = owed[n] /\ (queued > 0 \/ s.frames = 0)]
  BY DEF Poll, ClaimInv, ClaimTypes
<1>3. /\ ac' = [ac EXCEPT ![n] = c]
      /\ age' = [age EXCEPT ![n] = IF c.state = "CLAIMING" THEN s.age ELSE 0]
      /\ UNCHANGED <<plugged, lost, heard>>
      /\ ac[n] # Off
  BY DEF Poll, ClaimInv, ClaimTypes
<1> HIDE DEF c, s
<1>4. \A k \in Node : k # n => Same(k)
  BY <1>0, <1>3 DEF ClaimInv, ClaimTypes, Same
\* A node that has lost none of its frames has queued them all.
<1>20. /\ deaf'[n] \in BOOLEAN /\ (deaf[n] => deaf'[n])
       /\ ~deaf'[n] => ~deaf[n] /\ queued = s.frames
  <2>1. deaf'[n] = (deaf[n] \/ queued < s.frames) /\ deaf[n] \in BOOLEAN
    BY <1>0 DEF ClaimInv, ClaimTypes
  <2>2. queued < s.frames \/ queued = s.frames
    BY <1>0, <1>2
  <2>3. QED
    BY <2>1, <2>2, Zenon
<1>5. Walks(n) /\ HearsAll(n) /\ Announces(n) /\ ac[n].state # "OFF"
  BY <1>3 DEF ClaimInv, NodeInv, Walks
<1>6. ac'[n] = c /\ age'[n] = (IF c.state = "CLAIMING" THEN s.age ELSE 0)
      /\ tx'[n] = tx[n] \o Copies(f, queued)
  BY <1>0, <1>3 DEF ClaimInv, ClaimTypes
\* The queue: what was in it, and behind it the node's claims, if it has an address.
<1>7. /\ tx'[n] \in Seq(ClaimsBy(n)) /\ tx'[n] \in Seq(Frames)
      /\ \A a : Queued(n, a) => Queued(n, a)'
      /\ queued > 0 => Queued(n, ac[n].addr)'
  <2>1. CASE ac[n].state = "NULL"
    <3>0. queued = 0
      BY <1>2, <2>1
    <3>1. Copies(f, queued) = <<>>
      BY <3>0 DEF Copies
    <3>2. tx'[n] = tx[n] /\ ~(queued > 0)
      BY <3>0, <1>6, <2>1, <3>1, ConcatEmptySeq DEF ClaimInv, ClaimTypes
    <3>3. QED
      BY <3>2 DEF Queued, ClaimInv, ClaimTypes
  <2>2. CASE ac[n].state # "NULL"
    <3>1. ac[n].addr \in 0 .. NumAddrs - 1
      <4>1. Claiming(n) /\ ac[n].tries \in 0 .. NumAddrs - 1
        BY <1>1, <1>5, <2>2 DEF Claiming, Claims, Walks, ClaimAssumption
      <4>2. QED
        BY <1>5, <4>1, CandidateType DEF Walks
    <3>2. f \in ClaimsBy(n) /\ f.addr = ac[n].addr
      BY <1>2, <3>1 DEF ClaimOf, ClaimsBy
    <3>3. /\ tx'[n] \in Seq(ClaimsBy(n))
          /\ \A j \in 1 .. Len(tx[n]) : Contains(tx'[n], tx[n][j])
          /\ queued > 0 => Contains(tx'[n], f)
      <4> HIDE DEF f
      <4>1. tx[n] \in Seq(ClaimsBy(n)) /\ queued \in 0 .. 2
        BY <1>2 DEF ClaimInv, ClaimTypes
      <4>2. QED
        BY <1>6, <3>2, <4>1, AppendKeeps
    <3>4. ClaimsBy(n) \subseteq Frames
      BY DEF ClaimsBy, Frames
    <3>5. tx'[n] \in Seq(Frames)
      BY <3>3, <3>4, SeqMonotonic
    <3>6. \A a : Queued(n, a) => Queued(n, a)'
      BY <3>3 DEF Queued, Contains
    <3>7. ASSUME queued > 0 PROVE Queued(n, ac[n].addr)'
      <4>1. PICK i \in 1 .. Len(tx'[n]) : tx'[n][i] = f
        BY <3>3, <3>7 DEF Contains
      <4>2. tx'[n][i].addr = ac'[n].addr
        BY <1>2, <1>6, <3>2, <4>1
      <4>3. QED
        BY <4>2 DEF Queued
    <3>8. QED
      BY <3>3, <3>5, <3>6, <3>7
  <2>3. QED
    BY <2>1, <2>2
<1>8. ClaimTypes'
  <2>1. \A k \in Node : tx'[k] \in Seq(ClaimsBy(k)) /\ tx'[k] \in Seq(Frames)
    BY <1>4, <1>7 DEF Same, ClaimInv, ClaimTypes
  <2>2. tx' \in [Node -> Seq(Frames)]
    BY <1>0, <1>7, <1>6 DEF ClaimInv, ClaimTypes
  <2>3. 0 \in 0 .. Settle
    BY DEF ClaimAssumption
  <2>4. ac' \in [Node -> Claims] /\ age' \in [Node -> 0 .. Settle]
    BY <1>2, <1>3, <2>3 DEF ClaimInv, ClaimTypes
  <2>5. QED
    BY <1>0, <1>3, <2>1, <2>2, <2>4 DEF ClaimInv, ClaimTypes, ClaimsBy
\* The node: fresh as long as it was, and sending if it was to send.
<1>9. Walks(n)' /\ HearsAll(n)'
  <2>1. /\ c.state \in {"CLAIMING", "CLAIMED"} => Claiming(n)
        /\ c.state # "OFF" /\ (c.state = "NULL" => ac[n].state = "NULL")
    BY <1>2, <1>5 DEF Claiming
  <2>2. QED
    BY <1>2, <1>3, <1>5, <1>6, <1>20, <2>1 DEF Walks, HearsAll, Claiming, Tried, Candidate
<1>10. Claiming(n)' => Claiming(n)
  BY <1>2, <1>6 DEF Claiming
<1>11. Fresh(n) => Fresh(n)'
  BY <1>2, <1>6 DEF Fresh
<1>12. Claiming(n) /\ ~deaf'[n] => (Sending(n) => Queued(n, ac[n].addr)')
  <2>1. ASSUME Claiming(n), ~deaf'[n], Sending(n) PROVE Queued(n, ac[n].addr)'
    <3>1. CASE ac[n].need_claim_tx \/ ac[n].need_repeat_tx
      <4>1. ac[n].state # "NULL"
        BY <2>1 DEF Claiming
      <4>2. s.frames > 0
        BY <1>2, <3>1, <4>1
      <4>3. QED
        BY <1>7, <1>20, <2>1, <4>2
    <3>2. CASE Queued(n, ac[n].addr)
      <4>1. Queued(n, ac[n].addr)'
        BY <1>2, <1>6, <1>7, <3>2 DEF Queued
      <4>2. QED
        BY <4>1
    <3>3. QED
      BY <2>1, <3>1, <3>2 DEF Sending
  <2>2. QED
    BY <2>1
<1>13. Announces(n)'
  <2>1. SUFFICES ASSUME Claiming(n)', ~deaf'[n], ~heard'[n]
                 PROVE  Fresh(n)' /\ Queued(n, ac[n].addr)'
    BY <1>2, <1>6 DEF Announces, Queued
  <2>2. Claiming(n) /\ ~deaf[n] /\ ~heard[n]
    BY <1>3, <1>10, <1>20, <2>1
  <2>3. Fresh(n) /\ Sending(n)
    BY <1>5, <2>2 DEF Announces, Sending
  <2>4. QED
    BY <1>11, <1>12, <2>1, <2>2, <2>3
<1>14. \A k \in Node : NodeInv(k)'
  BY <1>4, <1>9, <1>13, SameKeeps DEF NodeInv, ClaimInv
<1>15. Steady(n)
  BY <1>2, <1>6, <1>10, <1>11, <1>20 DEF Steady
<1>16. Claiming(n)' /\ ~deaf'[n] => (Sending(n) => Sending(n)')
  BY <1>2, <1>6, <1>10, <1>12 DEF Sending, Queued
<1>17. \A k \in Node : Steady(k) /\ (Claiming(k)' /\ ~deaf'[k] => (Sending(k) => Sending(k)'))
  BY <1>4, <1>15, <1>16, SameKeeps DEF ClaimInv
<1>18. ASSUME NEW a \in Node, NEW b \in Node PROVE Resolves(a, b)'
  <2>1. Resolves(a, b)
    BY DEF ClaimInv
  <2>2. QED
    BY <1>17, <2>1, SteadyResolves
<1>19. QED
  BY <1>8, <1>14, <1>18 DEF ClaimInv

LEMMA SteadyAll ==
  ASSUME ClaimInv,
         \A k \in Node : Steady(k) /\ ((Claiming(k)' /\ ~deaf'[k] /\ Sending(k)) => Sending(k)')
  PROVE  \A a, b \in Node : Resolves(a, b)'
<1>1. ASSUME NEW a \in Node, NEW b \in Node PROVE Resolves(a, b)'
  <2>1. Resolves(a, b) /\ Steady(a) /\ Steady(b)
    BY DEF ClaimInv
  <2>2. QED
    BY <2>1, SteadyResolves
<1>2. QED
  BY <1>1

LEMMA UnplugKeeps ==
  ASSUME ClaimInv, NEW n \in Node, Unplug(n)
  PROVE  ClaimInv'
<1>1. /\ \A k \in Node : k # n => Same(k)
      /\ deaf'[n] = TRUE /\ plugged'[n] = FALSE
      /\ UNCHANGED <<ac, age, tx, lost, heard, owed>>
  BY DEF Unplug, ClaimInv, ClaimTypes, Same
<1>2. ClaimTypes'
  BY DEF Unplug, ClaimInv, ClaimTypes, ClaimsBy
<1>3. NodeInv(n)' /\ Steady(n)
  BY <1>1 DEF ClaimInv, NodeInv, Walks, HearsAll, Announces, Steady, Claiming, Tried, Candidate
<1>4. \A k \in Node : NodeInv(k)' /\ Steady(k) /\ ((~deaf'[k] /\ Sending(k)) => Sending(k)')
  BY <1>1, <1>3, SameKeeps DEF ClaimInv
<1>5. QED
  BY <1>2, <1>4, SteadyAll DEF ClaimInv

\* A node that is put back on the bus is deaf for the rest of its life.
LEMMA PlugKeeps ==
  ASSUME ClaimInv, NEW n \in Node, Plug(n)
  PROVE  ClaimInv'
<1>1. /\ \A k \in Node : k # n => Same(k)
      /\ deaf[n] /\ deaf' = deaf /\ plugged'[n] = TRUE
      /\ UNCHANGED <<ac, age, tx, lost, heard, owed>>
  BY DEF Plug, ClaimInv, ClaimTypes, NodeInv, HearsAll, Same
<1>2. ClaimTypes'
  BY DEF Plug, ClaimInv, ClaimTypes, ClaimsBy
<1>3. NodeInv(n)' /\ Steady(n) /\ deaf'[n]
  BY <1>1 DEF ClaimInv, NodeInv, Walks, HearsAll, Announces, Steady, Claiming, Tried, Candidate
<1>4. \A k \in Node : NodeInv(k)' /\ Steady(k) /\ ((~deaf'[k] /\ Sending(k)) => Sending(k)')
  BY <1>1, <1>3, SameKeeps DEF ClaimInv
<1>5. QED
  BY <1>2, <1>4, SteadyAll DEF ClaimInv

\* When time goes on, what a node on the bus had to say has been heard.
LEMMA IdleIsQuiet ==
  ASSUME ClaimAssumption, ClaimTypes, NEW n \in Node, NodeInv(n), Idle(n), Claiming(n), ~deaf[n]
  PROVE  ~Sending(n)
<1>1. ac[n] \in Claims /\ age[n] \in 0 .. Settle /\ ac[n] # Off /\ plugged[n]
  BY DEF ClaimTypes, NodeInv, HearsAll, Claiming, Off
<1>2. AcTick(ac[n], age[n]) = ac[n] /\ tx[n] = <<>>
  BY <1>1 DEF Idle
<1>3. ~ac[n].need_claim_tx /\ ~ac[n].need_repeat_tx
  <2> DEFINE d == AcTick(ac[n], age[n])
  <2>0. ac[n] \in Claims /\ age[n] \in 0 .. Settle
    BY <1>1
  <2>1. d.need_claim_tx = FALSE /\ d.need_repeat_tx = FALSE
    BY ONLY ClaimAssumption, <2>0, Ticked
  <2> HIDE DEF d
  <2>2. QED
    BY <1>2, <2>1 DEF d
<1>4. ~Queued(n, ac[n].addr)
  BY <1>2 DEF Queued
<1>5. QED
  BY <1>3, <1>4 DEF Sending

LEMMA ElapseKeeps ==
  ASSUME ClaimAssumption, ClaimInv, Elapse
  PROVE  ClaimInv'
<1>1. \A n \in Node : Claiming(n) /\ ~deaf[n] => ~Sending(n)
  BY IdleIsQuiet DEF Elapse, ClaimInv
<1>2. UNCHANGED <<ac, tx, plugged, lost, heard, deaf, owed>>
  BY DEF Elapse
<1>3. ClaimTypes'
  <2>1. \A n \in Node : age'[n] \in 0 .. Settle
    BY DEF Elapse, Waits, ClaimInv, ClaimTypes, ClaimAssumption
  <2>2. age' \in [Node -> 0 .. Settle]
    BY <2>1 DEF Elapse
  <2>3. QED
    BY <1>2, <2>2 DEF ClaimInv, ClaimTypes, ClaimsBy
<1>4. ASSUME NEW n \in Node PROVE NodeInv(n)'
  <2>1. Walks(n)' /\ HearsAll(n)'
    BY <1>2 DEF ClaimInv, NodeInv, Walks, HearsAll, Claiming, Tried, Candidate
  <2>2. Claiming(n) /\ ~deaf[n] => heard[n]
    BY <1>1 DEF ClaimInv, NodeInv, Announces, Sending
  <2>3. Announces(n)'
    BY <1>2, <2>2 DEF Announces, Claiming
  <2>4. QED
    BY <2>1, <2>3 DEF NodeInv
<1>5. ASSUME NEW m \in Node, NEW n \in Node PROVE Resolves(m, n)'
  BY <1>1, <1>2 DEF ClaimInv, Resolves, Claiming
<1>6. QED
  BY <1>3, <1>4, <1>5 DEF ClaimInv

\* What a node says again because of a frame comes on top of what it had to say.
LEMMA NotedNode ==
  ASSUME NEW k, ac[k] \in Claims, NodeInv(k), Noted(k), age'[k] = age[k], tx'[k] = tx[k],
         plugged' = plugged, ~deaf'[k] => ~deaf[k]
  PROVE  NodeInv(k)' /\ Steady(k) /\ (Sending(k) => Sending(k)')
<1>1. Walks(k) /\ HearsAll(k) /\ Announces(k) /\ (heard[k] => heard'[k])
  BY DEF NodeInv, Noted
<1>2. /\ Walks(k)' /\ (Claiming(k)' <=> Claiming(k))
      /\ ac'[k].addr = ac[k].addr /\ ac'[k].need_claim_tx = ac[k].need_claim_tx
      /\ ac[k].need_repeat_tx => ac'[k].need_repeat_tx
      /\ Fresh(k)' <=> Fresh(k)
  BY <1>1, NotedKeeps
<1>3. HearsAll(k)'
  BY <1>1 DEF HearsAll
<1>4. Queued(k, ac[k].addr) => Queued(k, ac[k].addr)'
  BY <1>2 DEF Queued
<1>5. Announces(k)'
  BY <1>1, <1>2, <1>4 DEF Announces
<1>6. Steady(k) /\ (Sending(k) => Sending(k)')
  BY <1>2, <1>4 DEF Steady, Sending
<1>7. QED
  BY <1>2, <1>3, <1>5, <1>6 DEF NodeInv

LEMMA RequestKeeps ==
  ASSUME ClaimInv, Request
  PROVE  ClaimInv'
<1> DEFINE f == [kind |-> "request"]  none == {}
<1>1. f \in Frames /\ f.kind = "request" /\ Broadcast(f, none, none) /\ UNCHANGED <<age, tx, plugged>>
  BY DEF Request, Frames
<1>0. \A k : k \notin none
  OBVIOUS
<1> HIDE DEF f, none
<1>2. ASSUME NEW k \in Node
      PROVE  /\ Noted(k) /\ deaf'[k] = deaf[k] /\ ac[k] \in Claims /\ ac'[k] \in Claims
             /\ lost'[k] = lost[k] /\ heard'[k] \in BOOLEAN /\ owed'[k] \in BOOLEAN
  <2>1. Walks(k) /\ ac[k] \in Claims /\ ClaimTypes
    BY DEF ClaimInv, NodeInv, ClaimTypes
  <2>2. ~Loses(k, ac[k], f)
    BY <1>1 DEF Loses, Contests
  <2>3. /\ Noted(k) /\ deaf'[k] = (deaf[k] \/ k \in none)
        /\ heard'[k] \in BOOLEAN /\ owed'[k] \in BOOLEAN
    BY <1>1, <2>1, <2>2, Delivered
  <2>4. ac'[k] \in Claims
    BY <1>1, <2>1, <2>3, NotedKeeps
  <2>5. deaf[k] \in BOOLEAN
    BY DEF ClaimInv, ClaimTypes
  <2>6. QED
    BY <1>0, <2>1, <2>3, <2>4, <2>5 DEF Noted
<1>3. ClaimTypes'
  <2>1. /\ ac' \in [Node -> Claims] /\ lost' \in [Node -> SUBSET (0 .. NumAddrs - 1)]
        /\ heard' \in [Node -> BOOLEAN] /\ owed' \in [Node -> BOOLEAN]
        /\ deaf' \in [Node -> BOOLEAN]
    BY <1>1, <1>2 DEF Broadcast, ClaimInv, ClaimTypes
  <2>2. QED
    BY <1>1, <2>1 DEF ClaimInv, ClaimTypes, ClaimsBy
<1>4. ASSUME NEW k \in Node
      PROVE  NodeInv(k)' /\ Steady(k) /\ (Sending(k) => Sending(k)')
  <2>1. /\ NodeInv(k) /\ age'[k] = age[k] /\ tx'[k] = tx[k] /\ plugged' = plugged
        /\ ~deaf'[k] => ~deaf[k]
    BY <1>1, <1>2 DEF ClaimInv
  <2>2. QED
    BY <1>2, <2>1, NotedNode
<1>5. QED
  BY <1>3, <1>4, SteadyAll DEF ClaimInv

LEMMA SwitchOffKeeps ==
  ASSUME ClaimAssumption, ClaimInv, SwitchOff
  PROVE  ClaimInv'
<1>1. ac' = [n \in Node |-> Off] /\ plugged' = [n \in Node |-> TRUE]
  BY DEF SwitchOff, ClaimInv, ClaimTypes
<1>2. Off \in Claims /\ Off.state = "OFF"
  BY DEF Off, Claims, Null, ClaimAssumption
<1>3. \A n \in Node : ac'[n] = Off /\ ~Claiming(n)' /\ plugged'[n]
  BY <1>1, <1>2 DEF Claiming
<1>4. ClaimTypes'
  BY <1>1, <1>2 DEF SwitchOff, ClaimInv, ClaimTypes, ClaimsBy
<1>5. QED
  BY <1>2, <1>3, <1>4 DEF ClaimInv, NodeInv, Walks, HearsAll, Announces, Resolves

LEMMA ClaimInvInit ==
  ASSUME ClaimAssumption, ClaimInit
  PROVE  ClaimInv
<1>1. Off \in Claims /\ Off.state = "OFF"
  BY DEF Off, Claims, Null, ClaimAssumption
<1>2. \A n \in Node : ac[n] = Off /\ ~Claiming(n) /\ plugged[n]
  BY <1>1 DEF ClaimInit, Claiming
<1>3. ClaimTypes
  <2>1. <<>> \in Seq(Frames) /\ \A n \in Node : <<>> \in Seq(ClaimsBy(n))
    BY EmptySeq
  <2>2. 0 \in 0 .. Settle
    BY DEF ClaimAssumption
  <2>3. QED
    BY <1>1, <2>1, <2>2 DEF ClaimInit, ClaimTypes
<1>4. QED
  BY <1>1, <1>2, <1>3 DEF ClaimInv, NodeInv, Walks, HearsAll, Announces, Resolves

\* The node's own claim on the bus: it can only be of use to the node.
LEMMA SenderKeeps ==
  ASSUME ClaimAssumption, ClaimInv, NEW n \in Node, Transmit(n)
  PROVE  /\ NodeInv(n)' /\ Steady(n) /\ ac'[n] \in Claims /\ lost'[n] = lost[n]
         /\ tx'[n] \in Seq(ClaimsBy(n)) /\ tx'[n] \in Seq(Frames)
         /\ Sending(n) => Sending(n)' \/ tx[n][First(n)].addr = ac[n].addr
<1> DEFINE f == tx[n][First(n)]  self == {n}
<1>1. PICK missed \in SUBSET Receivers(self) : Broadcast(f, self, missed)
  BY DEF Transmit
<1>2. /\ UNCHANGED <<age, plugged>> /\ tx[n] # <<>>
      /\ tx' = [tx EXCEPT ![n] = RemoveAt(tx[n], First(n))]
      /\ tx'[n] = RemoveAt(tx[n], First(n))
  BY DEF Transmit, ClaimInv, ClaimTypes
<1>3. First(n) \in 1 .. Len(tx[n])
  BY <1>2, FirstIsQueued DEF ClaimInv
<1>4. ClaimsBy(n) \subseteq Frames
  BY DEF ClaimsBy, Frames
<1>5. f \in ClaimsBy(n) /\ f \in Frames
  BY <1>3, <1>4, ElementOfSeq DEF ClaimInv, ClaimTypes
<1>6. /\ tx'[n] \in Seq(ClaimsBy(n)) /\ tx'[n] \in Seq(Frames)
      /\ \A j \in 1 .. Len(tx[n]) : j # First(n) => Contains(tx'[n], tx[n][j])
  <2>1. tx[n] \in Seq(ClaimsBy(n))
    BY DEF ClaimInv, ClaimTypes
  <2>2. /\ tx'[n] \in Seq(ClaimsBy(n))
        /\ \A j \in 1 .. Len(tx[n]) : j # First(n) => Contains(tx'[n], tx[n][j])
    BY <1>2, <1>3, <2>1, RemoveKeeps
  <2>3. QED
    BY <1>4, <2>2, SeqMonotonic
<1>7. NodeInv(n) /\ Walks(n) /\ ClaimTypes /\ ac[n] \in Claims
  BY DEF ClaimInv, NodeInv, ClaimTypes
<1>8. n \in self /\ n \notin Receivers(self) \ missed
  BY DEF Receivers
<1> HIDE DEF f, self
<1>9. /\ Noted(n) /\ (f.addr = ac[n].addr => heard'[n])
      /\ ~deaf'[n] => ~deaf[n]
  <2>1. /\ Noted(n) /\ (f.addr = ac[n].addr => heard'[n])
        /\ deaf'[n] = (deaf[n] \/ n \in missed)
    <3>1. LET hears == n \in Receivers(self) \ missed IN
          /\ \/ hears /\ Loses(n, ac[n], f) /\ Moved(n)
             \/ /\ ~(hears /\ Loses(n, ac[n], f)) /\ Noted(n)
                /\ (hears /\ Contests(ac[n], f)) => ac'[n].need_repeat_tx = TRUE
          /\ (n \in self /\ f.addr = ac[n].addr) => heard'[n]
          /\ deaf'[n] = (deaf[n] \/ n \in missed)
      BY <1>1, <1>5, <1>7, Delivered
    <3>2. QED
      BY <1>8, <3>1
  <2>2. QED
    BY <2>1
<1>10. /\ ac'[n] \in Claims /\ Walks(n)' /\ (Claiming(n)' <=> Claiming(n))
       /\ ac'[n].addr = ac[n].addr /\ ac'[n].need_claim_tx = ac[n].need_claim_tx
       /\ ac[n].need_repeat_tx => ac'[n].need_repeat_tx
       /\ Fresh(n)' <=> Fresh(n)
  BY <1>2, <1>7, <1>9, NotedKeeps
<1>11. Queued(n, ac[n].addr) => Queued(n, ac[n].addr)' \/ f.addr = ac[n].addr
  <2>1. SUFFICES ASSUME NEW i \in 1 .. Len(tx[n]), tx[n][i].addr = ac[n].addr
                 PROVE  Queued(n, ac[n].addr)' \/ f.addr = ac[n].addr
    BY DEF Queued
  <2>2. CASE i = First(n)
    BY <2>1, <2>2 DEF f
  <2>3. CASE i # First(n)
    BY <1>6, <1>10, <2>1, <2>3 DEF Queued, Contains
  <2>4. QED
    BY <2>2, <2>3
<1>12. Announces(n)'
  BY <1>7, <1>9, <1>10, <1>11 DEF NodeInv, Announces, Noted
<1>13. HearsAll(n)'
  BY <1>2, <1>7, <1>9 DEF NodeInv, HearsAll
<1>14. Steady(n)
  BY <1>9, <1>10 DEF Steady
<1>15. Sending(n) => Sending(n)' \/ f.addr = ac[n].addr
  BY <1>10, <1>11 DEF Sending
<1>16. lost'[n] = lost[n]
  BY <1>9 DEF Noted
<1>17. QED
  BY <1>6, <1>10, <1>12, <1>13, <1>14, <1>15, <1>16 DEF NodeInv, f

\* The claim at the other nodes: who holds the address moves on or contests it.
LEMMA ReceiverKeeps ==
  ASSUME ClaimAssumption, ClaimInv, NEW n \in Node, Transmit(n), NEW k \in Node, k # n
  PROVE  /\ NodeInv(k)' /\ ac'[k] \in Claims /\ lost'[k] \subseteq 0 .. NumAddrs - 1
         /\ tx'[k] = tx[k]
         /\ \/ New(k)' \/ ~Claiming(k)'
            \/ /\ Steady(k) /\ (Sending(k) => Sending(k)')
               /\ (Claiming(k) /\ ~deaf'[k] /\ tx[n][First(n)].addr = ac[k].addr) => Sending(k)'
<1> DEFINE f == tx[n][First(n)]  self == {n}
<1>1. PICK missed \in SUBSET Receivers(self) : Broadcast(f, self, missed)
  BY DEF Transmit
<1>2. /\ UNCHANGED <<age, plugged>> /\ tx[n] # <<>> /\ tx'[k] = tx[k] /\ k \notin self
  BY DEF Transmit, ClaimInv, ClaimTypes
<1>3. f \in Frames /\ f.kind = "claim"
  <2>1. First(n) \in 1 .. Len(tx[n])
    BY <1>2, FirstIsQueued DEF ClaimInv
  <2>2. f \in ClaimsBy(n)
    BY <2>1, ElementOfSeq DEF ClaimInv, ClaimTypes
  <2>3. QED
    BY <2>2 DEF ClaimsBy, Frames
<1>4. NodeInv(k) /\ Walks(k) /\ HearsAll(k) /\ ClaimTypes /\ ac[k] \in Claims /\ deaf[k] \in BOOLEAN
      /\ lost[k] \subseteq 0 .. NumAddrs - 1
  BY DEF ClaimInv, NodeInv, ClaimTypes
<1> HIDE DEF f, self
<1> DEFINE hears == k \in Receivers(self) \ missed
<1>5. /\ \/ hears /\ Loses(k, ac[k], f) /\ Moved(k)
         \/ /\ Noted(k)
            /\ (hears /\ Contests(ac[k], f)) => ac'[k].need_repeat_tx = TRUE
      /\ deaf'[k] = (deaf[k] \/ k \in missed)
  BY <1>1, <1>3, <1>4, Delivered
<1>6. CASE Moved(k)
  <2>1. /\ ac'[k] \in Claims /\ Walks(k)' /\ (New(k)' \/ ac'[k].state = "NULL")
        /\ lost'[k] \subseteq 0 .. NumAddrs - 1
    BY <1>4, <1>6, MovedWalks
  <2>2. HearsAll(k)'
    BY <1>2, <1>4, <1>5 DEF HearsAll
  <2>3. Announces(k)' /\ (New(k)' \/ ~Claiming(k)')
    BY <2>1 DEF Announces, New, Fresh, Claiming
  <2>4. QED
    BY <1>2, <2>1, <2>2, <2>3 DEF NodeInv
<1>7. CASE Noted(k) /\ ((hears /\ Contests(ac[k], f)) => ac'[k].need_repeat_tx = TRUE)
  <2>1. NodeInv(k)' /\ Steady(k) /\ (Sending(k) => Sending(k)')
    BY <1>2, <1>4, <1>5, <1>7, NotedNode
  <2>2. ac'[k] \in Claims /\ lost'[k] = lost[k]
    BY <1>2, <1>4, <1>7, NotedKeeps DEF Noted
  <2>3. ASSUME Claiming(k), ~deaf'[k], f.addr = ac[k].addr
        PROVE  Sending(k)'
    <3>0. ~deaf[k] /\ k \notin missed
      BY <1>5, <2>3
    <3>1. ac[k] # Off /\ plugged[k]
      BY <1>4, <2>3, <3>0 DEF HearsAll, Claiming, Off
    <3>2. hears
      BY <1>2, <3>0, <3>1 DEF Receivers
    <3>3. Contests(ac[k], f)
      BY <1>3, <2>3 DEF Contests, Claiming
    <3>4. QED
      BY <1>7, <3>2, <3>3 DEF Sending
  <2>4. QED
    BY <1>2, <1>4, <2>1, <2>2, <2>3 DEF f
<1>8. QED
  BY <1>5, <1>6, <1>7

LEMMA TransmitKeeps ==
  ASSUME ClaimAssumption, ClaimInv, NEW n \in Node, Transmit(n)
  PROVE  ClaimInv'
<1> DEFINE a == tx[n][First(n)].addr
<1>1. /\ NodeInv(n)' /\ Steady(n) /\ ac'[n] \in Claims /\ lost'[n] = lost[n]
      /\ tx'[n] \in Seq(ClaimsBy(n)) /\ tx'[n] \in Seq(Frames)
      /\ Sending(n) => Sending(n)' \/ a = ac[n].addr
  BY SenderKeeps
<1>2. ASSUME NEW k \in Node, k # n
      PROVE  /\ NodeInv(k)' /\ ac'[k] \in Claims /\ lost'[k] \subseteq 0 .. NumAddrs - 1
             /\ tx'[k] = tx[k]
             /\ \/ New(k)' \/ ~Claiming(k)'
                \/ /\ Steady(k) /\ (Sending(k) => Sending(k)')
                   /\ (Claiming(k) /\ ~deaf'[k] /\ a = ac[k].addr) => Sending(k)'
  BY <1>2, ReceiverKeeps
<1> HIDE DEF a
<1>3. ClaimTypes'
  <2>1. \A k \in Node : /\ ac'[k] \in Claims /\ lost'[k] \subseteq 0 .. NumAddrs - 1
                        /\ tx'[k] \in Seq(ClaimsBy(k)) /\ tx'[k] \in Seq(Frames)
    BY <1>1, <1>2 DEF ClaimInv, ClaimTypes
  <2>2. /\ UNCHANGED <<age, plugged>>
        /\ tx' = [tx EXCEPT ![n] = RemoveAt(tx[n], First(n))]
        /\ \E f, missed : Broadcast(f, {n}, missed)
    BY DEF Transmit
  <2>3. tx' \in [Node -> Seq(Frames)]
    BY <2>1, <2>2 DEF ClaimInv, ClaimTypes
  <2>4. /\ ac' \in [Node -> Claims] /\ lost' \in [Node -> SUBSET (0 .. NumAddrs - 1)]
        /\ heard' \in [Node -> BOOLEAN] /\ deaf' \in [Node -> BOOLEAN]
        /\ owed' \in [Node -> BOOLEAN]
    BY <2>1, <2>2 DEF Broadcast, ClaimInv, ClaimTypes
  <2>5. QED
    BY <2>1, <2>2, <2>3, <2>4 DEF ClaimInv, ClaimTypes, ClaimsBy
\* A pair with the sender in it: what the sender has now said, the other one contests.
<1>4. ASSUME NEW k \in Node PROVE Resolves(n, k)' /\ Resolves(k, n)'
  <2>1. CASE k = n
    BY <2>1 DEF Resolves
  <2>2. CASE k # n /\ New(k)'
    BY <2>2 DEF Resolves, New, Sending, Fresh
  <2>3. CASE k # n /\ ~Claiming(k)'
    BY <2>3 DEF Resolves
  <2>4. CASE /\ k # n /\ Steady(k) /\ (Sending(k) => Sending(k)')
             /\ (Claiming(k) /\ ~deaf'[k] /\ a = ac[k].addr) => Sending(k)'
    <3>1. ASSUME Claiming(n)', Claiming(k)', ~deaf'[n], ~deaf'[k], ac'[n].addr = ac'[k].addr
          PROVE  (Sending(n)' \/ Sending(k)') /\ (Fresh(n)' \/ Fresh(k)')
      <4>1. /\ Claiming(n) /\ Claiming(k) /\ ~deaf[n] /\ ~deaf[k] /\ ac[n].addr = ac[k].addr
            /\ (Fresh(n) => Fresh(n)') /\ (Fresh(k) => Fresh(k)')
        BY <1>1, <2>4, <3>1 DEF Steady
      <4>2. (Sending(n) \/ Sending(k)) /\ (Fresh(n) \/ Fresh(k))
        BY <2>4, <4>1 DEF ClaimInv, Resolves
      <4>3. QED
        BY <1>1, <2>4, <3>1, <4>1, <4>2
    <3>2. QED
      BY <3>1 DEF Resolves
  <2>5. QED
    BY <1>2, <2>1, <2>2, <2>3, <2>4
<1>5. ASSUME NEW j \in Node, NEW k \in Node, j # n, k # n
      PROVE  Resolves(j, k)'
  <2>1. CASE New(j)' \/ New(k)'
    BY <2>1 DEF Resolves, New, Sending, Fresh
  <2>2. CASE ~Claiming(j)' \/ ~Claiming(k)'
    BY <2>2 DEF Resolves
  <2>3. CASE /\ Steady(j) /\ (Sending(j) => Sending(j)')
             /\ Steady(k) /\ (Sending(k) => Sending(k)')
    <3>1. Resolves(j, k)
      BY DEF ClaimInv
    <3>2. QED
      BY <2>3, <3>1, SteadyResolves
  <2>4. QED
    BY <1>2, <1>5, <2>1, <2>2, <2>3
<1>6. QED
  BY <1>1, <1>2, <1>3, <1>4, <1>5 DEF ClaimInv

LEMMA ClaimInvStep ==
  ASSUME ClaimAssumption, ClaimInv, [ClaimNext]_claimVars
  PROVE  ClaimInv'
<1>1. ASSUME NEW n \in Node, PowerUp(n) \/ Reset(n)
      PROVE  ClaimInv'
  BY <1>1, BootKeeps DEF PowerUp, Reset
<1>2. ASSUME NEW n \in Node, Poll(n) PROVE ClaimInv'
  BY <1>2, PollKeeps
<1>3. ASSUME NEW n \in Node, Unplug(n) \/ Plug(n) PROVE ClaimInv'
  BY <1>3, UnplugKeeps, PlugKeeps
<1>4. ASSUME NEW n \in Node, Transmit(n) PROVE ClaimInv'
  BY <1>4, TransmitKeeps
<1>5. CASE UNCHANGED claimVars
  <2>1. UNCHANGED <<ac, age, tx, plugged, lost, heard, deaf, owed>>
    BY <1>5 DEF claimVars
  <2>2. ClaimTypes'
    BY <2>1 DEF ClaimInv, ClaimTypes, ClaimsBy
  <2>3. \A k \in Node : Same(k)
    BY <2>1 DEF Same
  <2>4. \A k \in Node : NodeInv(k)' /\ Steady(k) /\ (Sending(k) => Sending(k)')
    BY <2>3, SameKeeps DEF ClaimInv
  <2>5. QED
    BY <2>2, <2>4, SteadyAll DEF ClaimInv
<1>6. QED
  BY <1>1, <1>2, <1>3, <1>4, <1>5, RequestKeeps, SwitchOffKeeps, ElapseKeeps DEF ClaimNext

-----------------------------------------------------------------------------
(* What follows for the bus *)

\* The nodes' walks over the addresses, and every conflict in the making, at all times.
THEOREM ClaimInvariance ==
  ASSUME ClaimAssumption
  PROVE  ClaimSpec => []ClaimInv
<1>1. ClaimInit => ClaimInv
  BY ClaimInvInit
<1>2. ClaimInv /\ [ClaimNext]_claimVars => ClaimInv'
  BY ClaimInvStep
<1>3. QED
  BY <1>1, <1>2, PTL DEF ClaimSpec

LEMMA OneOwner ==
  ASSUME ClaimInv
  PROVE  SoleOwner
<1>1. ASSUME NEW m \in Node, NEW n \in Node, m # n, Settled(m), Settled(n),
             ac[m].addr = ac[n].addr, ~deaf[m], ~deaf[n]
      PROVE  FALSE
  <2>1. Claiming(m) /\ Claiming(n) /\ ~Fresh(m) /\ ~Fresh(n)
    BY <1>1 DEF Settled, Claiming, Fresh
  <2>2. Resolves(m, n)
    BY DEF ClaimInv
  <2>3. QED
    BY <1>1, <2>1, <2>2 DEF Resolves
<1>2. QED
  BY <1>1 DEF SoleOwner

\* The candidate of an attempt is none of those that were lost before.
LEMMA OwnersAnnounced ==
  ASSUME ClaimAssumption, ClaimInv
  PROVE  OwnsWhatItClaimed
<1>1. ASSUME NEW n \in Node, Settled(n)
      PROVE  ac[n].addr \notin lost[n] /\ (heard[n] \/ deaf[n])
  <2>1. Claiming(n) /\ ~Fresh(n) /\ Walks(n) /\ Announces(n) /\ ac[n] \in Claims
    BY <1>1 DEF Settled, Claiming, Fresh, ClaimInv, NodeInv, ClaimTypes
  <2>2. /\ ac[n].tries \in 0 .. NumAddrs - 1
        /\ ac[n].addr = Candidate(n, ac[n].tries) /\ lost[n] = Tried(n, ac[n].tries)
    BY <2>1 DEF Walks, Claims, ClaimAssumption
  <2>3. ac[n].addr \notin lost[n]
    BY <2>2, TriedNext
  <2>4. QED
    BY <2>1, <2>3 DEF Announces
<1>2. QED
  BY <1>1 DEF OwnsWhatItClaimed

LEMMA SilentLostAll ==
  ASSUME ClaimAssumption, ClaimInv
  PROVE  GaveUpAfterAll
BY AllAreTried DEF GaveUpAfterAll, ClaimInv, NodeInv, Walks

\* Nodes that missed no frame never both hold an address; a node holds no address it
\* has lost, none before the bus has carried its claim, and gives up after the last.
THEOREM AddressAlwaysSound ==
  ASSUME ClaimAssumption
  PROVE  ClaimSpec => []AddressIsSound
<1>1. ClaimInv => AddressIsSound
  BY OneOwner, OwnersAnnounced, SilentLostAll DEF AddressIsSound
<1>2. QED
  BY <1>1, ClaimInvariance, PTL

\* What a step may do to the address of a node: Left is what LeavesOnlyBeaten bounds.
Left(n) ==
    /\ Settled(n) /\ ac'[n].addr # ac[n].addr =>
            \/ ac'[n] \in {AcInit(n), Off}
            \/ \E m \in Node : \E i \in 1 .. Len(tx[m]) :
                    tx[m][i].addr = ac[n].addr /\ Rank[m] < Rank[n]
    /\ ac[n].state = "NULL" /\ ac'[n].state # "NULL" =>
            ac'[n] \in {AcInit(n), Off}

LEMMA BeatenLeave ==
  ASSUME ClaimInv, NEW n \in Node, Transmit(n), NEW k \in Node
  PROVE  Left(k)
<1> DEFINE f == tx[n][First(n)]  self == {n}
<1>1. PICK missed \in SUBSET Receivers(self) : Broadcast(f, self, missed)
  BY DEF Transmit
<1>2. First(n) \in 1 .. Len(tx[n]) /\ UNCHANGED age
  BY FirstIsQueued DEF Transmit, ClaimInv
<1>3. f \in ClaimsBy(n)
  BY <1>2, ElementOfSeq DEF ClaimInv, ClaimTypes
<1>4. f \in Frames /\ f.from = n
  BY <1>3 DEF ClaimsBy, Frames
<1>5. ac[k] \in Claims /\ Walks(k) /\ ClaimTypes
  BY DEF ClaimInv, ClaimTypes, NodeInv
<1> HIDE DEF f, self
<1>6. (Loses(k, ac[k], f) /\ Moved(k)) \/ Noted(k)
  BY <1>1, <1>4, <1>5, Delivered
<1>7. CASE Loses(k, ac[k], f) /\ Moved(k)
  <2>1. f.addr = ac[k].addr /\ Rank[n] < Rank[k] /\ ac[k].state # "NULL"
    BY <1>4, <1>7 DEF Loses, Contests
  <2>2. QED
    BY <1>2, <2>1 DEF Left, f
<1>8. CASE Noted(k)
  BY <1>5, <1>8 DEF Noted, Left, Claims
<1>9. QED
  BY <1>6, <1>7, <1>8

LEMMA OthersStay ==
  ASSUME ClaimAssumption, ClaimInv, ClaimNext, NEW k \in Node,
         ~\E n \in Node : Transmit(n)
  PROVE  Left(k)
<1>1. ac[k] \in Claims /\ age[k] \in 0 .. Settle /\ Walks(k) /\ ClaimTypes
  BY DEF ClaimInv, ClaimTypes, NodeInv
<1>2. CASE ac'[k] = ac[k] \/ ac'[k] \in {AcInit(k), Off}
  BY <1>2 DEF Left
<1>3. ASSUME NEW n \in Node, CanInit(n) PROVE Left(k)
  <2>1. ac'[k] = ac[k] \/ ac'[k] = AcInit(k)
    BY <1>3 DEF CanInit, ClaimInv, ClaimTypes
  <2>2. QED
    BY <1>2, <2>1
<1>4. ASSUME NEW n \in Node, Poll(n) PROVE Left(k)
  <2>1. ac'[k] = ac[k] \/ ac'[k] = AcTick(ac[k], age[k])
    BY <1>4 DEF Poll, ClaimInv, ClaimTypes
  <2>2. /\ AcTick(ac[k], age[k]).addr = ac[k].addr
        /\ ac[k].state = "NULL" => AcTick(ac[k], age[k]).state = "NULL"
    BY ONLY ClaimAssumption, <1>1, Ticked
  <2>3. QED
    BY <2>1, <2>2 DEF Left
<1>5. CASE Request
  <2> DEFINE f == [kind |-> "request"]  none == {}
  <2>1. f \in Frames /\ f.kind = "request" /\ Broadcast(f, none, none)
    BY <1>5 DEF Request, Frames
  <2> HIDE DEF f, none
  <2>2. Noted(k)
    BY <1>1, <2>1, Delivered DEF Loses, Contests
  <2>3. QED
    BY <1>1, <2>2 DEF Noted, Left, Claims
<1>6. CASE SwitchOff
  BY <1>2, <1>6 DEF SwitchOff
<1>7. CASE Elapse \/ \E n \in Node : Unplug(n) \/ Plug(n)
  BY <1>2, <1>7 DEF Elapse, Unplug, Plug
<1>8. QED
  BY <1>3, <1>4, <1>5, <1>6, <1>7 DEF ClaimNext, PowerUp, Reset

\* A node leaves an address it holds only for a better name on the bus, or with its power.
THEOREM OnlyBeatenLeave ==
  ASSUME ClaimAssumption
  PROVE  ClaimSpec => LeavesOnlyBeaten
<1>1. ClaimInv /\ [ClaimNext]_claimVars => [\A n \in Node : Left(n)]_claimVars
  BY BeatenLeave, OthersStay
<1>2. ClaimSpec => [][\A n \in Node : Left(n)]_claimVars
  BY <1>1, ClaimInvariance, PTL DEF ClaimSpec
<1>3. QED
  BY <1>2 DEF LeavesOnlyBeaten, Left
=============================================================================
